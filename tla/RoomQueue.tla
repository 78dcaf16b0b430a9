------------------------------ MODULE RoomQueue ------------------------------
(***************************************************************************)
(* infrastructure/websocket_scalable.py: the chat messages of one room.    *)
(* A message is sent to the sockets in the room and put into a Redis list  *)
(* that every session which arrives later reads, hands to its socket and   *)
(* empties; a loop removes what has expired. The sockets come and go while *)
(* all this waits for Redis and for sends. A command whose reply timed out *)
(* is sent once more (retry_on_timeout), so a message may be in the list   *)
(* twice: `nth' tells its copies apart, which Redis cannot.                *)
(***************************************************************************)
EXTENDS Naturals, Sequences, SequencesExt

CONSTANTS Sessions, Messages

(* `covered': what was in the list when its time to live was last set;      *)
(* `missed' (a history): emitted to a socket that had gone, or in a list    *)
(* whose time was over before it was set for them.                          *)
VARIABLES on, reading, queue, expired, sending, given, sweep, covered, missed
vars == <<on, reading, queue, expired, sending, given, sweep, covered, missed>>

Copies == [of : Messages, nth : {1, 2}]
Held(q) == {c.of : c \in ToSet(q)}

Init ==
  /\ on = {} /\ queue = <<>> /\ expired = {} /\ sweep = <<>> /\ covered = {} /\ missed = {}
  /\ reading = [s \in Sessions |-> [step |-> "new", left |-> <<>>]]
  /\ sending = [m \in Messages |-> "no"]
  /\ given = [s \in Sessions |-> <<>>]

TypeOK ==
  /\ on \subseteq Sessions
  /\ expired \subseteq Messages /\ covered \subseteq Messages /\ missed \subseteq Messages
  /\ queue \in Seq(Copies) /\ sweep \in Seq(Copies)
  /\ reading \in [Sessions -> [step : {"new", "emit", "remove", "done"},
                               left : Seq(Copies)]]
  /\ sending \in [Messages -> {"no", "queue", "expire", "queued", "unqueued"}]
  /\ given \in [Sessions -> Seq(Copies)]

Reads(s, step, left) == reading' = [reading EXCEPT ![s] = [step |-> step, left |-> left]]

(* LREM of one element: the first that equals the message, whichever copy.  *)
(* A list that is empty is gone, with its time. Sent again after a timeout, *)
(* LREM finds the second copy.                                              *)
Removed(q, m) ==
  IF m \notin Held(q) THEN {q}
  ELSE {RemoveAt(q, i) : i \in {k \in DOMAIN q : /\ q[k].of = m
                                              /\ \A x \in 1..(k - 1) : q[x].of # m}}
lrem(m) ==
  \E q \in Removed(queue, m) :
    /\ queue' \in {q} \cup Removed(q, m)
    /\ covered' = IF queue' = <<>> THEN {} ELSE covered

(* A socket is in the room and reads what the list holds, unless Redis      *)
(* fails or its connection is no longer in the table ...                    *)
Enters(s) ==
  /\ reading[s].step = "new"
  /\ on' = on \cup {s}
  /\ \/ queue # <<>> /\ Reads(s, "emit", queue)
     \/ Reads(s, "done", <<>>)
  /\ UNCHANGED <<queue, expired, sending, given, sweep, covered, missed>>
(* ... and may go at any time; the handler that reads for it goes on.       *)
Leaves(s) ==
  /\ s \in on /\ reading[s].step # "done"
  /\ on' = on \ {s}
  /\ UNCHANGED <<reading, queue, expired, sending, given, sweep, covered, missed>>

\* Variant: a message is taken out of the list before it is sent.
Emits_Removed(s) ==
  LET left == reading[s].left
      c == Head(left) IN
    /\ reading[s].step = "emit"
    /\ lrem(c.of)
    /\ \/ given' = [given EXCEPT ![s] = Append(@, c)] /\ Reads(s, "remove", left)
       \/ Reads(s, "done", <<>>) /\ UNCHANGED given
    /\ UNCHANGED <<on, expired, sending, sweep, missed>>
(* The next of the messages listed, unless it has expired. An emit to a     *)
(* socket that has gone reaches nobody and returns like any other; one that *)
(* fails ends the reading.                                                  *)
Emits(s) ==
  LET left == reading[s].left
      c == Head(left)
      rest == Tail(left) IN
    /\ reading[s].step = "emit"
    /\ \/ /\ c.of \in expired
          /\ Reads(s, IF rest = <<>> THEN "done" ELSE "emit", rest)
          /\ UNCHANGED <<given, missed>>
       \/ /\ c.of \notin expired /\ s \in on
          /\ given' = [given EXCEPT ![s] = Append(@, c)]
          /\ Reads(s, "remove", left) /\ UNCHANGED missed
       \/ /\ c.of \notin expired /\ s \notin on
          /\ missed' = missed \cup {c.of}
          /\ Reads(s, "remove", left) /\ UNCHANGED given
       \/ /\ c.of \notin expired
          /\ Reads(s, "done", <<>>) /\ UNCHANGED <<given, missed>>
    /\ UNCHANGED <<on, queue, expired, sending, sweep, covered>>
\* Variant: a removal that fails is made good by reading the list again.
Removes_Rereads(s) ==
  LET rest == Tail(reading[s].left) IN
    /\ reading[s].step = "remove"
    /\ \/ /\ lrem(Head(reading[s].left).of)
          /\ Reads(s, IF rest = <<>> THEN "done" ELSE "emit", rest)
       \/ Reads(s, "new", <<>>) /\ UNCHANGED <<queue, covered>>
    /\ UNCHANGED <<on, expired, sending, given, sweep, missed>>
(* A removal that fails may have been done.                                 *)
Removes(s) ==
  LET rest == Tail(reading[s].left) IN
    /\ reading[s].step = "remove"
    /\ \/ /\ lrem(Head(reading[s].left).of)
          /\ Reads(s, IF rest = <<>> THEN "done" ELSE "emit", rest)
       \/ /\ lrem(Head(reading[s].left).of) \/ UNCHANGED <<queue, covered>>
          /\ Reads(s, "done", <<>>)
    /\ UNCHANGED <<on, expired, sending, given, sweep, missed>>

(* A chat message goes to the room's sockets; then it is queued, whoever    *)
(* has seen it; then the sender is told, also when Redis had failed.        *)
_handle_chat_message(m) ==
  /\ sending[m] = "no"
  /\ sending' = [sending EXCEPT ![m] = "queue"]
  /\ UNCHANGED <<on, reading, queue, expired, given, sweep, covered, missed>>
(* One push, or two when the reply to the first timed out; a push that      *)
(* fails may have been done, and leaves the list's time as it is.           *)
_queue_message_for_offline_users(m) ==
  /\ sending[m] = "queue"
  /\ \/ /\ \/ queue' = <<[of |-> m, nth |-> 1]>> \o queue
          \/ queue' = <<[of |-> m, nth |-> 2], [of |-> m, nth |-> 1]>> \o queue
       /\ \E then \in {"expire", "queued"} : sending' = [sending EXCEPT ![m] = then]
     \/ sending' = [sending EXCEPT ![m] = "unqueued"] /\ UNCHANGED queue
  /\ UNCHANGED <<on, reading, expired, given, sweep, covered, missed>>
(* The list's time is set anew, for all that it holds, or Redis fails.      *)
expire(m) ==
  /\ sending[m] = "expire"
  /\ sending' = [sending EXCEPT ![m] = "queued"]
  /\ covered' \in {covered, covered \cup Held(queue)}
  /\ UNCHANGED <<on, reading, queue, expired, given, sweep, missed>>

Expires(m) ==
  /\ sending[m] \in {"expire", "queued"} /\ m \notin expired
  /\ expired' = expired \cup {m}
  /\ UNCHANGED <<on, reading, queue, sending, given, sweep, covered, missed>>
(* The list's own time is over: that of every message it was set for.       *)
Lapses ==
  /\ covered # {} /\ covered \subseteq expired
  /\ missed' = missed \cup (Held(queue) \ covered)
  /\ queue' = <<>> /\ covered' = {}
  /\ UNCHANGED <<on, reading, expired, sending, given, sweep>>

(* The loop lists the queue and removes the expired ones by value.          *)
Sweeps ==
  /\ sweep = <<>> /\ queue # <<>>
  /\ sweep' = queue
  /\ UNCHANGED <<on, reading, queue, expired, sending, given, covered, missed>>
\* Variant: the loop removes by position, counted in the list it has read.
_process_message_queues_Position ==
  /\ sweep # <<>>
  /\ sweep' = Tail(sweep)
  /\ queue' = IF Head(sweep).of \in expired /\ queue # <<>> THEN Tail(queue) ELSE queue
  /\ covered' = IF queue' = <<>> THEN {} ELSE covered
  /\ UNCHANGED <<on, reading, expired, sending, given, missed>>
(* ... or Redis fails, with or without doing it, and the rest waits for the *)
(* next round.                                                              *)
_process_message_queues ==
  /\ sweep # <<>>
  /\ sweep' \in {Tail(sweep), <<>>}
  /\ \/ Head(sweep).of \in expired /\ lrem(Head(sweep).of)
     \/ /\ Head(sweep).of \in expired => sweep' = <<>>
        /\ UNCHANGED <<queue, covered>>
  /\ UNCHANGED <<on, reading, expired, sending, given, missed>>

Next ==
  \/ \E s \in Sessions : Enters(s) \/ Leaves(s) \/ Emits(s) \/ Removes(s)
  \/ \E m \in Messages :
       \/ _handle_chat_message(m) \/ _queue_message_for_offline_users(m) \/ expire(m)
       \/ Expires(m)
  \/ Lapses \/ Sweeps \/ _process_message_queues

Spec == Init /\ [][Next]_vars

(* A message that Redis took leaves the list only after it was handed to a  *)
(* session's socket, or its time was over, whoever reads, removes and       *)
(* sweeps at once and whatever is sent twice: the only ones lost unread are *)
(* those emitted to a socket that had gone, and those in a list whose time  *)
(* was set for earlier ones.                                                *)
NoneLostUnread ==
  \A m \in Messages :
    sending[m] \in {"expire", "queued"} /\ m \notin Held(queue)
      => m \in expired \cup missed \/ \E s \in Sessions : m \in Held(given[s])
(* No session is handed one copy of a message twice.                        *)
GivenOnce == \A s \in Sessions : IsInjective(given[s])
=============================================================================
