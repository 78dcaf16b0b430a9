----------------------------- MODULE Deadlines -----------------------------
(***************************************************************************)
(* reliability/timeout_manager.py: nested execute_with_timeout calls and   *)
(* CascadingTimeout blocks of one task, and the context variable that      *)
(* passes the enclosing deadline down. `stack` holds the calls that run,   *)
(* outermost first; time is counted in units of the deadline buffer. As in *)
(* the production image (Python 3.12), wait_for runs what it awaits in the *)
(* caller's own context; under 3.11 each call has a copy of the context.   *)
(***************************************************************************)
EXTENDS Naturals, Sequences

CONSTANTS Operations, None, Requested, \* the timeouts callers ask for
          MinTimeout, MaxTimeout, Default, Buffer,
          MaxEvents, KeptEvents,       \* 10000 and 5000 in the code
          MaxDepth, MaxClock           \* bounds of the model

VARIABLES clock, stack, deadline, usual, events
vars == <<clock, stack, deadline, usual, events>>

Least(a, b) == IF a <= b THEN a ELSE b
Most(a, b) == IF a <= b THEN b ELSE a

Frame == [op : Operations, from : 0..MaxClock, end : Nat, enforced : BOOLEAN,
          sets : BOOLEAN, under : Nat \cup {None}, known : BOOLEAN]

Init ==
  /\ clock = 0 /\ stack = <<>> /\ deadline = None /\ events = <<>>
  /\ usual = [op \in Operations |-> None]

TypeOK ==
  /\ clock \in 0..MaxClock
  /\ stack \in Seq(Frame) /\ Len(stack) <= MaxDepth
  /\ deadline \in Nat \cup {None}
  /\ usual \in [Operations -> Nat \cup {None}]
  /\ \A n \in DOMAIN events : events[n].timed_out \in BOOLEAN /\ events[n].timeout \in Nat

\* Variant: nothing is kept back for the caller.
Remaining_All == IF deadline = None \/ deadline <= clock THEN 0 ELSE deadline - clock
(* The enclosing deadline less a tenth and the buffer, when that leaves     *)
(* anything; a passed deadline is ignored.                                  *)
Remaining == IF deadline = None \/ deadline <= clock THEN 0
             ELSE LET cut == ((deadline - clock) * 9) \div 10
                  IN IF cut > Buffer THEN cut - Buffer ELSE 0

(* The mean of what was asked for and the operation's usual duration, seven *)
(* to three, comes after the deadline's bound.                              *)
effective_timeout(requested, op, propagate) ==
  LET asked == Least(MaxTimeout, Most(MinTimeout, requested))
      within == IF propagate /\ Remaining > 0 THEN Least(asked, Remaining) ELSE asked
      blended == IF usual[op] = None THEN within
                 ELSE (within * 7 + ((usual[op] * 3) \div 2) * 3) \div 10
  IN Most(MinTimeout, blended)

get_remaining_time == IF deadline = None \/ deadline <= clock THEN 0 ELSE deadline - clock

(* Nine tenths of what is left; with nothing left, all that is usual.       *)
create_child_timeout ==
  IF get_remaining_time = 0 THEN Default
  ELSE Most(MinTimeout, (get_remaining_time * 9) \div 10)

Call(op, requested, propagate) ==
  LET end == clock + effective_timeout(requested, op, propagate) IN
    /\ Len(stack) < MaxDepth
    /\ stack' = Append(stack, [op |-> op, from |-> clock, end |-> end,
                               enforced |-> TRUE, sets |-> propagate,
                               under |-> IF propagate THEN deadline ELSE None,
                               known |-> usual[op] # None])
    /\ deadline' = IF propagate THEN end ELSE deadline
    /\ UNCHANGED <<clock, usual, events>>

(* A CascadingTimeout block sets the deadline and enforces nothing. *)
Block(op, requested) ==
  /\ Len(stack) < MaxDepth
  /\ stack' = Append(stack, [op |-> op, from |-> clock, end |-> clock + requested,
                             enforced |-> FALSE, sets |-> TRUE, under |-> None, known |-> FALSE])
  /\ deadline' = clock + requested
  /\ UNCHANGED <<clock, usual, events>>

Event(frame, timed_out) ==
  [op |-> frame.op, timeout |-> frame.end - frame.from, took |-> clock - frame.from,
   timed_out |-> timed_out]

Trimmed(s) == IF Len(s) > MaxEvents THEN SubSeq(s, Len(s) - KeptEvents + 1, Len(s)) ELSE s
_record_event(s, event) == Trimmed(Append(s, event))

(* Blocks that are left record how they went, however they are left, the    *)
(* innermost first; a call records only that it returned or timed out.      *)
Exits(i) ==
  LET record[j \in 1..MaxDepth + 1] ==
        IF j > Len(stack) THEN events
        ELSE IF stack[j].enforced THEN record[j + 1]
        ELSE _record_event(record[j + 1], Event(stack[j], clock >= stack[j].end))
  IN  record[i]

\* Variant: a call that is cancelled from outside leaves its deadline set.
Unwind_OwnOnly(i) ==
  /\ stack' = SubSeq(stack, 1, i - 1)
  /\ deadline' = IF i = Len(stack) /\ stack[i].sets THEN None ELSE deadline
(* The finally clauses from the innermost call out to the i-th: a deadline  *)
(* is cleared, never put back to the enclosing one.                         *)
Unwind(i) ==
  /\ stack' = SubSeq(stack, 1, i - 1)
  /\ deadline' = IF \E j \in i..Len(stack) : stack[j].sets THEN None ELSE deadline

(* The first duration is taken as it is, the others count for a tenth. *)
_update_operation_timeout(op, duration) ==
  [usual EXCEPT ![op] = IF @ = None THEN duration ELSE (9 * @ + duration) \div 10]

Returns ==
  LET top == stack[Len(stack)] IN
    /\ stack # <<>>
    /\ Unwind(Len(stack))
    /\ IF top.enforced
         THEN /\ usual' = _update_operation_timeout(top.op, clock - top.from)
              /\ events' = _record_event(events, Event(top, FALSE))
         ELSE usual' = usual /\ events' = Exits(Len(stack))
    /\ UNCHANGED clock

Raises ==
  /\ stack # <<>>
  /\ Unwind(Len(stack))
  /\ events' = Exits(Len(stack))
  /\ UNCHANGED <<clock, usual>>

(* wait_for cancels everything inside the i-th call. *)
TimesOut(i) ==
  /\ stack[i].enforced /\ clock >= stack[i].end
  /\ Unwind(i)
  /\ events' = _record_event(Exits(i), Event(stack[i], TRUE))
  /\ UNCHANGED <<clock, usual>>

Tick ==
  /\ clock < MaxClock
  /\ clock' = clock + 1
  /\ UNCHANGED <<stack, deadline, usual, events>>

Next ==
  \/ \E op \in Operations, requested \in Requested \cup {create_child_timeout} :
       \/ \E propagate \in BOOLEAN : Call(op, requested, propagate)
       \/ Block(op, requested)
  \/ Returns \/ Raises \/ Tick
  \/ \E i \in DOMAIN stack : TimesOut(i)

Spec == Init /\ [][Next]_vars

(* The deadline passed down is that of a call that still runs: none         *)
(* outlives its call to cut short what the task does later.                 *)
DeadlineIsLive ==
  deadline # None => \E i \in DOMAIN stack : stack[i].sets /\ stack[i].end = deadline

(* A call begun under a deadline that leaves it the least timeout ends      *)
(* before that deadline, unless the operation is known to take longer       *)
(* (_calculate_effective_timeout, whose last bound is from below).          *)
NestedEndFirst ==
  \A i \in DOMAIN stack : LET call == stack[i] IN
    /\ call.enforced /\ call.under # None /\ ~call.known
    /\ call.under >= call.from + Most(MinTimeout + 1, 2 * Buffer + 1)
    => call.end < call.under

(* The record stays within its limit and what it says of time-outs is so:   *)
(* who timed out took all the time allowed (_record_event).                 *)
EventsTell ==
  /\ Len(events) <= MaxEvents
  /\ \A n \in DOMAIN events : events[n].timed_out => events[n].took >= events[n].timeout
=============================================================================
