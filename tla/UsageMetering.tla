--------------------------- MODULE UsageMetering ---------------------------
(***************************************************************************)
(* tenancy/usage_tracker.py for one tenant: what is tracked is added to    *)
(* counters of the day and the month (the hour's, between them, is left    *)
(* out), one metric after another; generate_invoice reads the days of the  *)
(* period metric by metric and prices the sums. A command that raises ends *)
(* the tracking. The period is days 1..Month; a day's counter is given its *)
(* expiry when it is added to, and so dies no sooner than KeepDays later.  *)
(* Money is counted in thousandths of a cent. The records stored in the    *)
(* database, latencies and the counters by model are left out: nothing     *)
(* that is billed is read from them.                                       *)
(***************************************************************************)
EXTENDS Integers, Sequences, SequencesExt, FiniteSets, FiniteSetsExt

CONSTANTS Calls, None,
          Tracked,    \* what is tracked: calls with their amounts
          Month,      \* days of the billing period
          KeepDays,   \* 35 days
          MaxDay      \* bound of the model

VARIABLES today, daily, monthly, call, reading, issued
vars == <<today, daily, monthly, call, reading, issued>>

(***************************************************************************)
(* What calls track: amounts of metrics, in the order of the code          *)
(***************************************************************************)
Of(metric, amount) == [metric |-> metric, amount |-> amount]
track_api_call == <<Of("api_calls", 1)>>
track_token_usage(tokens, cost) == <<Of("tokens", tokens), Of("cost", cost)>>
track_websocket_usage(messages, seconds) ==
  <<Of("websocket_messages", messages), Of("websocket_duration", seconds)>>
track_storage_usage(operation, mb) ==
  <<Of("storage_mb", IF operation = "upload" THEN mb ELSE -mb)>>
Uses == {CASE t.what = "api_call" -> track_api_call
           [] t.what = "tokens" -> track_token_usage(t.n, 1)
           [] t.what = "websocket" -> track_websocket_usage(t.n, 1)
           [] OTHER -> track_storage_usage(t.what, t.n) : t \in Tracked}

Metrics == UNION {{use[k].metric : k \in DOMAIN use} : use \in Uses}
Days == 1..MaxDay

Init ==
  /\ today = 1
  /\ daily = [m \in Metrics |-> [d \in Days |-> 0]]
  /\ monthly = [m \in Metrics |-> 0]
  /\ call = [c \in Calls |-> [step |-> "new", use |-> <<>>, pos |-> 1, on |-> None]]
  /\ reading = None /\ issued = None

Goes(c, step) == call' = [call EXCEPT ![c].step = step]
Counters == <<daily, monthly>>
Now(c) == call[c].use[call[c].pos]

(* The timestamp is taken once, so that a call counts for the day it began. *)
Begins(c, use) ==
  /\ call[c].step = "new"
  /\ call' = [call EXCEPT ![c] = [step |-> "day", use |-> use, pos |-> 1, on |-> today]]
  /\ UNCHANGED <<today, Counters, reading, issued>>

AddsToDay(c) == daily' = [daily EXCEPT ![Now(c).metric][call[c].on] = @ + Now(c).amount]
TracksDay(c) ==
  /\ call[c].step = "day"
  /\ AddsToDay(c) /\ Goes(c, "month")
  /\ UNCHANGED <<today, monthly, reading, issued>>
\* Variant: the month is that of the time the counter is added to.
AddsToMonth_Now(c) ==
  monthly' = IF today <= Month
               THEN [monthly EXCEPT ![Now(c).metric] = @ + Now(c).amount] ELSE monthly
AddsToMonth(c) ==
  monthly' = IF call[c].on <= Month
               THEN [monthly EXCEPT ![Now(c).metric] = @ + Now(c).amount] ELSE monthly
TracksMonth(c) ==
  /\ call[c].step = "month"
  /\ AddsToMonth(c)
  /\ IF call[c].pos < Len(call[c].use)
       THEN call' = [call EXCEPT ![c].step = "day", ![c].pos = @ + 1]
       ELSE Goes(c, "done")
  /\ UNCHANGED <<today, daily, reading, issued>>

(* Redis raises, before or after the command has been carried out. *)
Raises(c) ==
  /\ Goes(c, "failed")
  /\ UNCHANGED <<today, reading, issued>>
  /\ \/ call[c].step \in {"day", "month"} /\ UNCHANGED <<daily, monthly>>
     \/ call[c].step = "day" /\ AddsToDay(c) /\ UNCHANGED monthly
     \/ call[c].step = "month" /\ AddsToMonth(c) /\ UNCHANGED daily

NextDay ==
  /\ today < MaxDay
  /\ today' = today + 1
  /\ UNCHANGED <<Counters, call, reading, issued>>
Dies(m, d) ==
  /\ today >= d + KeepDays /\ daily[m][d] # 0
  /\ daily' = [daily EXCEPT ![m][d] = 0]
  /\ UNCHANGED <<today, monthly, call, reading, issued>>

(***************************************************************************)
(* What is billed                                                          *)
(***************************************************************************)
Billed == SelectSeq(<<"api_calls", "tokens", "websocket_messages", "storage_mb">>,
                    LAMBDA m : m \in Metrics)
_get_unit_cost(m) ==
  CASE m = "api_calls" -> 100 [] m = "tokens" -> 2
    [] m = "websocket_messages" -> 10 [] m = "storage_mb" -> 10000
Percent(total) ==
  CASE total > 100000000 -> 10 [] total > 50000000 -> 5 [] OTHER -> 0
_calculate_discount(total) == (total * Percent(total)) \div 100

InPeriod == {c \in Calls : call[c].on # None /\ call[c].on <= Month}
Recording == {c \in InPeriod : call[c].step \in {"day", "month"}}
(* The reading of the counters begins, for one invoice; `whole` notes that  *)
(* the period is over and no call of it is still being tracked.             *)
generate_invoice ==
  /\ reading = None /\ issued = None
  /\ reading' = [pos |-> 1, day |-> 1, usage |-> [m \in Metrics |-> 0],
                 whole |-> today > Month /\ Recording = {}]
  /\ UNCHANGED <<today, Counters, call, issued>>

\* Variant: the end of the period is left out.
LastDay_Excluded == Month - 1
(* The end date is the last second of the month, the last day is read. *)
LastDay == Month

ReadsDay ==
  /\ reading # None /\ reading.pos <= Len(Billed)
  /\ LET m == Billed[reading.pos]
         read == [reading EXCEPT !.usage[m] = @ + daily[m][reading.day]] IN
       reading' = IF reading.day < LastDay THEN [read EXCEPT !.day = @ + 1]
                  ELSE [read EXCEPT !.day = 1, !.pos = @ + 1]
  /\ UNCHANGED <<today, Counters, call, issued>>

Priced(ms, usage) == FoldSet(LAMBDA m, sum : sum + usage[m] * _get_unit_cost(m), 0, ms)
Issues ==
  /\ reading # None /\ reading.pos > Len(Billed)
  /\ LET subtotal == Priced(ToSet(Billed), reading.usage)
         used == {m \in ToSet(Billed) : reading.usage[m] > 0} IN
       issued' = [usage |-> reading.usage, whole |-> reading.whole, on |-> today,
                  lines |-> Priced(used, reading.usage),
                  subtotal |-> subtotal, total |-> subtotal - _calculate_discount(subtotal)]
  /\ reading' = None
  /\ UNCHANGED <<today, Counters, call>>

Next ==
  \/ NextDay \/ generate_invoice \/ ReadsDay \/ Issues
  \/ \E m \in Metrics, d \in Days : Dies(m, d)
  \/ \E c \in Calls :
       \/ \E use \in Uses : Begins(c, use)
       \/ TracksDay(c) \/ TracksMonth(c) \/ Raises(c)

TypeOK ==
  /\ today \in Days
  /\ \A m \in Metrics :
       /\ monthly[m] \in Int
       /\ \A d \in Days : daily[m][d] \in Int
  /\ \A c \in Calls :
       /\ call[c].step \in {"new", "day", "month", "done", "failed"}
       /\ call[c].use \in Uses \cup {<<>>} /\ call[c].on \in Days \cup {None}
       /\ call[c].pos \in 1..Len(call[c].use) + 1
  /\ reading # None => reading.pos \in 1..Len(Billed) + 1 /\ reading.day \in 1..Month

(* What the calls of a set have tracked of a metric when they are through.  *)
Amount(cs, m) ==
  FoldSet(LAMBDA c, sum : sum + FoldLeft(LAMBDA x, o : x + (IF o.metric = m THEN o.amount ELSE 0),
                                         0, call[c].use), 0, cs)
Through == {c \in InPeriod : call[c].step = "done"}
Ended == {c \in InPeriod : call[c].step = "failed"}
Between == {c \in InPeriod : call[c].step \in {"day", "month", "failed"}}

(* An invoice made after the period, when its calls are counted and its     *)
(* first counters have not died, charges every call of it once; one whose   *)
(* tracking failed may be charged or not. Its lines add up to its subtotal, *)
(* unless more storage was given back than taken.                           *)
InvoiceIsRight ==
  issued # None =>
    /\ issued.whole /\ issued.on < 1 + KeepDays =>
         \A m \in ToSet(Billed) : \E cs \in SUBSET Ended :
           issued.usage[m] = Amount(Through \cup cs, m)
    /\ issued.total <= issued.subtotal \/ issued.subtotal < 0
    /\ issued.subtotal <= issued.lines
    /\ (\A m \in Metrics : issued.usage[m] >= 0) => issued.subtotal = issued.lines

(* The month's counters and those of its days differ only by the calls that *)
(* are between them or have failed.                                         *)
CountersAgree ==
  today < 1 + KeepDays =>
    \A m \in Metrics :
      LET days == FoldSet(LAMBDA d, sum : sum + daily[m][d], 0, {d \in Days : d <= Month}) IN
        /\ \E cs \in SUBSET Between : days = Amount(Through \cup cs, m)
        /\ \E cs \in SUBSET Between : monthly[m] = Amount(Through \cup cs, m)
=============================================================================
