---------------------------- MODULE Backpressure ----------------------------
(***************************************************************************)
(* streaming/backpressure.py for one session: concurrent send_message,     *)
(* acknowledgements (which carry the client's message number, in any       *)
(* order), negative ones, and resets. What is buffered is only counted:    *)
(* messages taken out of the buffer are not sent by the code. The          *)
(* semaphore never has fewer permits than min_send_rate, more than there   *)
(* are senders here, so nobody waits for it.                               *)
(***************************************************************************)
EXTENDS Naturals, FiniteSets

CONSTANTS Senders, MaxInFlight, MaxBuffer, InitialWindow,
          MaxSent, MaxDrains                 \* bounds of the model

VARIABLES strategy, sent, acked, window, slow, buffered, at, drains, best
vars == <<strategy, sent, acked, window, slow, buffered, at, drains, best>>

Init ==
  /\ strategy \in {"adaptive", "fixed", "buffer", "throttle"}
  /\ sent = 0 /\ acked = 0 /\ best = 0
  /\ window = InitialWindow /\ slow = FALSE
  /\ buffered = 0 /\ drains = 0
  /\ at = [s \in Senders |-> "idle"]

TypeOK ==
  /\ strategy \in {"adaptive", "fixed", "buffer", "throttle"}
  /\ sent \in 0..MaxSent /\ acked \in 0..MaxSent /\ best \in 0..MaxSent
  /\ window \in 1..MaxInFlight /\ slow \in BOOLEAN
  /\ buffered \in 0..MaxBuffer /\ drains \in 0..MaxDrains
  /\ at \in [Senders -> {"idle", "throttled", "sending", "orphan"}]

Least(a, b) == IF a <= b THEN a ELSE b
Most(a, b) == IF a <= b THEN b ELSE a

\* Variant: what is in flight may be as much as every sender can add.
can_send_Generous(acks, w) ==
  /\ sent < acks + MaxInFlight + Cardinality(Senders)
  /\ buffered < MaxBuffer

(* can_send up to its sleep: with a full buffer nothing is sent any more,   *)
(* nor taken out of the buffer.                                             *)
can_send(acks, w) ==
  /\ sent < acks + MaxInFlight
  /\ buffered < MaxBuffer
  /\ strategy = "adaptive" => sent < acks + w

(* Sleeps are for a slow client and for a buffer that fills up. *)
Sleeps(late) == \/ strategy = "adaptive" /\ late
                \/ strategy = "throttle" /\ 2 * buffered > MaxBuffer

send_message(s) ==
  /\ at[s] = "idle" /\ can_send(acked, window)
  /\ at' = [at EXCEPT ![s] = IF Sleeps(slow) THEN "throttled" ELSE "sending"]
  /\ UNCHANGED <<strategy, sent, acked, window, slow, buffered, drains, best>>

(* A full buffer loses its oldest message, or the new one. *)
_buffer_message(s) ==
  /\ at[s] = "idle" /\ ~can_send(acked, window)
  /\ buffered' = Least(MaxBuffer, buffered + 1)
  /\ UNCHANGED <<strategy, sent, acked, window, slow, at, drains, best>>

Awake(s) ==
  /\ at[s] = "throttled"
  /\ at' = [at EXCEPT ![s] = "sending"]
  /\ UNCHANGED <<strategy, sent, acked, window, slow, buffered, drains, best>>

(* A message counts once its write has returned; one whose session was      *)
(* reset meanwhile counts for the session there was.                        *)
Sent(s) ==
  /\ at[s] \in {"sending", "orphan"}
  /\ sent < MaxSent
  /\ sent' = IF at[s] = "sending" THEN sent + 1 ELSE sent
  /\ at' = [at EXCEPT ![s] = "idle"]
  /\ UNCHANGED <<strategy, acked, window, slow, buffered, drains, best>>
Raises(s) ==
  /\ at[s] \in {"sending", "orphan"}
  /\ at' = [at EXCEPT ![s] = "idle"]
  /\ UNCHANGED <<strategy, sent, acked, window, slow, buffered, drains, best>>

(* The window follows what is in flight by the number just acknowledged,    *)
(* and the buffer is emptied, message by message when there are sleeps.     *)
Drain(acks, w, late) ==
  IF buffered = 0 \/ ~can_send(acks, w) THEN UNCHANGED <<buffered, drains>>
  ELSE IF Sleeps(late) THEN drains' = drains + 1 /\ UNCHANGED buffered
  ELSE buffered' = 0 /\ UNCHANGED drains

handle_ack(id) ==
  /\ id <= sent /\ drains < MaxDrains
  /\ acked' = id /\ best' = Most(best, id)
  /\ slow' \in BOOLEAN
  /\ window' = IF strategy # "adaptive" THEN window
               ELSE IF sent - id < window THEN Least(MaxInFlight, window + 1)
               ELSE IF slow' THEN Most(1, window - 1) ELSE window
  /\ Drain(id, window', slow')
  /\ UNCHANGED <<strategy, sent, at>>

(* One sleep of an emptying loop is over. The buffer may have been emptied  *)
(* by another one: taking from it then raises, and ends the loop.           *)
Drained ==
  /\ drains > 0
  /\ buffered' = IF buffered = 0 THEN 0 ELSE buffered - 1
  /\ \/ drains' = drains - 1 /\ (buffered' = 0 \/ ~can_send(acked, window))
     \/ buffered' > 0 /\ can_send(acked, window) /\ UNCHANGED drains
  /\ UNCHANGED <<strategy, sent, acked, window, slow, at, best>>

\* Variant: halving goes down to nothing.
handle_nack_ToZero ==
  /\ strategy = "adaptive"
  /\ window' = window \div 2
  /\ UNCHANGED <<strategy, sent, acked, slow, buffered, at, drains, best>>
handle_nack ==
  /\ strategy = "adaptive"
  /\ window' = Most(1, window \div 2)
  /\ UNCHANGED <<strategy, sent, acked, slow, buffered, at, drains, best>>

(* A sender that sleeps finds its semaphore gone and raises. *)
reset_session ==
  /\ sent' = 0 /\ acked' = 0 /\ best' = 0
  /\ window' = InitialWindow /\ slow' = FALSE
  /\ buffered' = 0 /\ drains' = 0
  /\ at' = [s \in Senders |-> IF at[s] = "sending" THEN "orphan"
                              ELSE IF at[s] = "throttled" THEN "idle" ELSE at[s]]
  /\ UNCHANGED strategy

Next ==
  \/ \E s \in Senders : send_message(s) \/ _buffer_message(s) \/ Awake(s)
                        \/ Sent(s) \/ Raises(s)
  \/ \E id \in 0..MaxSent : handle_ack(id)
  \/ Drained \/ handle_nack \/ reset_session

Spec == Init /\ [][Next]_vars

(* What has gone out and not been acknowledged, by the highest number that  *)
(* was, stays within the limit and one for every other sender at work:      *)
(* acknowledgements that come late or twice only hold senders back.         *)
InFlightBounded == sent < best + MaxInFlight + Cardinality(Senders)
=============================================================================
