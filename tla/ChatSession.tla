------------------------------ MODULE ChatSession ------------------------------
(***************************************************************************)
(* One connection of the chat endpoint: the reader loop of                 *)
(* api/websocket.py websocket_chat_endpoint, and the tasks in which        *)
(* websocket/ws_handlers.py MessageHandler streams its answers.            *)
(*                                                                         *)
(* Reader and streams are tasks of one event loop.  A handler that sends a *)
(* reply writes it before it can be suspended, so a message, its handler   *)
(* and its reply are one step.  Task.cancel() only asks: CancelledError is *)
(* raised where the task waits, when the loop next runs it, and only then  *)
(* does its finally clause run.  A task cancelled before its first step    *)
(* never enters its body.                                                  *)
(***************************************************************************)
EXTENDS Naturals, TLAPS

CONSTANTS
  Chats,          \* chat messages the client may send, each once
  Streamed,       \* those with "stream": true
  Length,         \* Length[c]: chunks in the whole answer to c
  HistoryLimit,   \* message_history is cut when longer than this (100)
  HistoryKeep,    \* and keeps this many messages (50)
  NoStream

ASSUME SessionAssumption ==
  /\ Streamed \subseteq Chats
  /\ Length \in [Chats -> Nat]
  /\ HistoryLimit \in Nat /\ HistoryKeep \in 0..HistoryLimit
  /\ NoStream \notin Chats

VARIABLES
  reader,    \* where the endpoint is
  socket,    \* "closed" once the client or the manager has closed it
  entry,     \* active_streams.get(connection_id)
  history,   \* len(message_history[connection_id])
  task,      \* the task that answers c
  stopped,   \* its cancel() was called
  sent,      \* chunk_index: chunks of c written
  verdict,   \* the last message written for c
  told       \* the client was told that c is cancelled

session == <<reader, socket, history>>
vars == <<session, entry, task, stopped, sent, verdict, told>>

Running == {"created", "streaming", "finishing"}

Init ==
  /\ reader = "receiving"
  /\ socket = "open"
  /\ entry = NoStream
  /\ history = 0
  /\ task = [c \in Chats |-> "none"]
  /\ stopped = [c \in Chats |-> FALSE]
  /\ sent = [c \in Chats |-> 0]
  /\ verdict = [c \in Chats |-> "none"]
  /\ told = [c \in Chats |-> FALSE]

\* Variant: looks at the length before it appends.
Remember_TooLate ==
  history' = IF history > HistoryLimit THEN HistoryKeep ELSE history + 1

\* handle_message appends every valid message and cuts a history that is too long.
Remember ==
  history' = IF history + 1 > HistoryLimit THEN HistoryKeep ELSE history + 1

\* active_streams[connection_id].cancel(), when there is an entry.
StopEntry ==
  stopped' = [c \in Chats |-> stopped[c] \/ c = entry]

-----------------------------------------------------------------------------
\* The reader: receive_message, and handle_message with the type's handler.

Receives(message) ==
  /\ reader = "receiving"
  /\ Remember
  /\ message
  /\ UNCHANGED <<reader, socket, sent, verdict>>

\* A chat message cancels the stream that has the entry and takes the entry.
handle_chat(c) ==
  /\ task[c] = "none"
  /\ StopEntry
  /\ task' = [task EXCEPT ![c] = "created"]
  /\ entry' = c
  /\ UNCHANGED told

\* Variant: only the entry is removed, for the stream to see at its next chunk.
handle_cancel_EntryOnly ==
  /\ told' = [c \in Chats |-> told[c] \/ c = entry]
  /\ entry' = NoStream
  /\ UNCHANGED <<stopped, task>>

handle_cancel ==
  /\ StopEntry
  /\ told' = [c \in Chats |-> told[c] \/ c = entry]
  /\ entry' = NoStream
  /\ UNCHANGED task

\* ping, pong, auth, unknown types, and chats that fail validation.
handle_other == UNCHANGED <<entry, task, stopped, told>>

\* The client went away, or the manager dropped it after a failed heartbeat or
\* for inactivity.
Hangup ==
  /\ socket = "open"
  /\ socket' = "closed"
  /\ UNCHANGED <<reader, history, entry, task, stopped, sent, verdict, told>>

\* receive_message notices, and waits for the manager's lock in disconnect.
Leave ==
  /\ reader = "receiving" /\ socket = "closed"
  /\ reader' = "leaving"
  /\ UNCHANGED <<socket, history, entry, task, stopped, sent, verdict, told>>

\* Variant: the history outlives the connection.
Cleanup_KeepsHistory ==
  /\ reader \in {"receiving", "leaving"}
  /\ reader' = "closing"
  /\ StopEntry
  /\ entry' = NoStream
  /\ UNCHANGED <<socket, history, task, sent, verdict, told>>

\* receive_message returned None - after disconnect, or at once when receiving
\* failed or a message was no JSON - and cleanup_connection runs.
Cleanup ==
  /\ reader \in {"receiving", "leaving"}
  /\ reader' = "closing"
  /\ StopEntry
  /\ entry' = NoStream
  /\ history' = 0
  /\ UNCHANGED <<socket, task, sent, verdict, told>>

\* ws_manager.disconnect has closed the socket; the endpoint returns.
Closed ==
  /\ reader = "closing"
  /\ reader' = "gone"
  /\ socket' = "closed"
  /\ UNCHANGED <<history, entry, task, stopped, sent, verdict, told>>

-----------------------------------------------------------------------------
\* A stream: _stream_chat_response.

Start(c) ==
  /\ task[c] = "created"
  /\ task' = [task EXCEPT ![c] = IF stopped[c] THEN "ended" ELSE "streaming"]
  /\ UNCHANGED <<session, entry, stopped, sent, verdict, told>>

\* Variant: leaves the loop, not the method.
NextChunk_Breaks(c) ==
  /\ task[c] = "streaming" /\ ~stopped[c] /\ sent[c] < Length[c]
  /\ IF c \in Streamed /\ entry = NoStream
     THEN /\ task' = [task EXCEPT ![c] = "finishing"]
          /\ verdict' = [verdict EXCEPT ![c] = "complete"]
          /\ UNCHANGED sent
     ELSE /\ sent' = [sent EXCEPT ![c] = @ + 1]
          /\ UNCHANGED <<task, verdict>>
  /\ UNCHANGED <<session, entry, stopped, told>>

\* A chunk has come.  A stream takes it that it was cancelled when the
\* connection has no entry, whosever entry it would be; it returns, and its
\* finally clause finds no entry to delete.
NextChunk(c) ==
  /\ task[c] = "streaming" /\ ~stopped[c] /\ sent[c] < Length[c]
  /\ IF c \in Streamed /\ entry = NoStream
     THEN task' = [task EXCEPT ![c] = "ended"] /\ UNCHANGED sent
     ELSE sent' = [sent EXCEPT ![c] = @ + 1] /\ UNCHANGED task
  /\ UNCHANGED <<session, entry, stopped, verdict, told>>

Complete(c) ==
  /\ task[c] = "streaming" /\ ~stopped[c] /\ sent[c] = Length[c]
  /\ task' = [task EXCEPT ![c] = "finishing"]
  /\ verdict' = [verdict EXCEPT ![c] = "complete"]
  /\ UNCHANGED <<session, entry, stopped, sent, told>>

\* The provider, or a write to a closed socket, raised.  The error message may
\* fail on a closed socket too.
Fails(c) ==
  /\ task[c] = "streaming" /\ ~stopped[c]
  /\ task' = [task EXCEPT ![c] = "finishing"]
  /\ \/ verdict' = [verdict EXCEPT ![c] = "error"]
     \/ socket = "closed" /\ UNCHANGED verdict
  /\ UNCHANGED <<session, entry, stopped, sent, told>>

\* Variant: the entry stays.
Finally_KeepsEntry(c) ==
  /\ \/ task[c] = "finishing"
     \/ task[c] = "streaming" /\ stopped[c]
  /\ task' = [task EXCEPT ![c] = "ended"]
  /\ UNCHANGED <<session, entry, stopped, sent, verdict, told>>

\* Variant: the cancellation is swallowed.
Finally_NotCancelled(c) ==
  /\ task[c] = "finishing"
  /\ task' = [task EXCEPT ![c] = "ended"]
  /\ entry' = NoStream
  /\ UNCHANGED <<session, stopped, sent, verdict, told>>

\* The finally clause deletes the connection's entry, whosever it is.
Finally(c) ==
  /\ \/ task[c] = "finishing"
     \/ task[c] = "streaming" /\ stopped[c]
  /\ task' = [task EXCEPT ![c] = "ended"]
  /\ entry' = NoStream
  /\ UNCHANGED <<session, stopped, sent, verdict, told>>

-----------------------------------------------------------------------------
Provider(c) == NextChunk(c) \/ Complete(c) \/ Fails(c)

Next ==
  \/ \E c \in Chats : Receives(handle_chat(c))
  \/ Receives(handle_cancel) \/ Receives(handle_other)
  \/ Hangup \/ Leave \/ Cleanup \/ Closed
  \/ \E c \in Chats : Start(c) \/ Provider(c) \/ Finally(c)

Spec == Init /\ [][Next]_vars

\* The loop runs what is ready, a provider's client times out, and the manager
\* gets its lock; a client need not say or do anything.
FairSpec ==
  /\ Spec
  /\ \A c \in Chats : WF_vars(Start(c)) /\ WF_vars(Provider(c)) /\ WF_vars(Finally(c))
  /\ WF_vars(Leave) /\ WF_vars(reader = "leaving" /\ Cleanup) /\ WF_vars(Closed)

-----------------------------------------------------------------------------
TypeOK ==
  /\ reader \in {"receiving", "leaving", "closing", "gone"}
  /\ socket \in {"open", "closed"}
  /\ entry \in Chats \cup {NoStream}
  /\ history \in 0..HistoryLimit
  /\ task \in [Chats -> Running \cup {"none", "ended"}]
  /\ stopped \in [Chats -> BOOLEAN]
  /\ sent \in [Chats -> Nat]
  /\ verdict \in [Chats -> {"none", "complete", "error"}]
  /\ told \in [Chats -> BOOLEAN]

\* "complete" is written only after every chunk of the answer, however the
\* stream was stopped.
CompleteIsWhole ==
  \A c \in Chats : verdict[c] = "complete" => sent[c] = Length[c]

\* The entry is a stream that can still be cancelled and has not been: "Stream
\* cancelled successfully" is never said of one that has ended.
EntryIsLive ==
  entry # NoStream => task[entry] \in Running /\ ~stopped[entry]

\* A stream the client was told is cancelled writes nothing more.
SilentAfterCancel ==
  [][\A c \in Chats : told[c] => sent'[c] = sent[c] /\ verdict'[c] = verdict[c]]_vars

\* Once the endpoint has cleaned up, nothing puts the connection back into the
\* handler's dictionaries, although streams of it may still run.
GoneIsForgotten ==
  reader \in {"closing", "gone"} => entry = NoStream /\ history = 0

\* No stream outlives its connection for ever.
StreamsEnd ==
  \A c \in Chats : (reader = "gone") ~> (task[c] \notin Running)

\* ws_handlers.py:288 "Check if cancelled": a stream that ends without a last
\* message was cancelled, by the client, by a newer chat or with its connection.
SilentOnlyIfCancelled ==
  \A c \in Chats :
    task[c] = "ended" /\ verdict[c] = "none" /\ reader = "receiving" /\ socket = "open"
      => stopped[c]

-----------------------------------------------------------------------------
(***************************************************************************)
(* Theorems, for every set of chats, every answer length and every history *)
(* limit. All follow from one inductive invariant, SessionInv: the         *)
(* properties the runs check, strengthened by what they lean on - a stream *)
(* that was told cancelled is stopped, nothing is stopped before it        *)
(* exists, and the last message of a stream is last.                       *)
(***************************************************************************)
ToldIsStopped == \A c \in Chats : told[c] => stopped[c]

NotYetStopped == \A c \in Chats : task[c] = "none" => ~stopped[c]

VerdictIsLast ==
  \A c \in Chats : task[c] \in {"none", "created", "streaming"} => verdict[c] = "none"

SessionInv ==
  /\ TypeOK
  /\ ToldIsStopped /\ NotYetStopped /\ VerdictIsLast
  /\ CompleteIsWhole /\ EntryIsLive /\ GoneIsForgotten

-----------------------------------------------------------------------------
\* The history stays within its limit whatever it is cut to.
LEMMA RememberBounds ==
  ASSUME history \in 0..HistoryLimit, Remember
  PROVE  history' \in 0..HistoryLimit
BY SessionAssumption DEF Remember

\* The initial session satisfies the invariant.
LEMMA SessionInit == Init => SessionInv
BY SessionAssumption
   DEF Init, SessionInv, TypeOK, Running, ToldIsStopped, NotYetStopped,
       VerdictIsLast, CompleteIsWhole, EntryIsLive, GoneIsForgotten

\* Every step of the reader or of a stream preserves it.
LEMMA SessionStep == SessionInv /\ [Next]_vars => SessionInv'
<1> SUFFICES ASSUME SessionInv, [Next]_vars PROVE SessionInv'
  OBVIOUS
<1> USE SessionAssumption
    DEF SessionInv, TypeOK, Running, ToldIsStopped, NotYetStopped,
        VerdictIsLast, CompleteIsWhole, EntryIsLive, GoneIsForgotten
<1>1. CASE \E c \in Chats : Receives(handle_chat(c))
  <2> PICK c \in Chats : Receives(handle_chat(c))
    BY <1>1
  <2>1. history' \in 0..HistoryLimit
    BY RememberBounds DEF Receives
  <2>2. stopped' = [d \in Chats |-> stopped[d] \/ d = entry]
    BY DEF Receives, handle_chat, StopEntry
  <2>3. ~stopped'[c] /\ entry' = c /\ task' = [task EXCEPT ![c] = "created"]
    BY <2>2 DEF Receives, handle_chat
  <2> QED
    BY <2>1, <2>2, <2>3 DEF Receives, handle_chat
<1>2. CASE Receives(handle_cancel)
  <2>1. history' \in 0..HistoryLimit
    BY <1>2, RememberBounds DEF Receives
  <2> QED
    BY <1>2, <2>1 DEF Receives, handle_cancel, StopEntry
<1>3. CASE Receives(handle_other)
  <2>1. history' \in 0..HistoryLimit
    BY <1>3, RememberBounds DEF Receives
  <2> QED
    BY <1>3, <2>1 DEF Receives, handle_other
<1>4. CASE Hangup
  BY <1>4 DEF Hangup
<1>5. CASE Leave
  BY <1>5 DEF Leave
<1>6. CASE Cleanup
  BY <1>6 DEF Cleanup, StopEntry
<1>7. CASE Closed
  BY <1>7 DEF Closed
<1>8. ASSUME NEW c \in Chats, Start(c) PROVE SessionInv'
  BY <1>8 DEF Start, session
<1>9. ASSUME NEW c \in Chats, Provider(c) PROVE SessionInv'
  <2>1. CASE NextChunk(c)
    BY <2>1 DEF NextChunk, session
  <2>2. CASE Complete(c)
    BY <2>2 DEF Complete, session
  <2>3. CASE Fails(c)
    BY <2>3 DEF Fails, session
  <2> QED
    BY <1>9, <2>1, <2>2, <2>3 DEF Provider
<1>10. ASSUME NEW c \in Chats, Finally(c) PROVE SessionInv'
  BY <1>10 DEF Finally, session
<1>11. CASE UNCHANGED vars
  BY <1>11 DEF vars, session
<1> QED
  BY <1>1, <1>2, <1>3, <1>4, <1>5, <1>6, <1>7, <1>8, <1>9, <1>10, <1>11 DEF Next

\* Every reachable state of the session satisfies the invariant.
THEOREM SessionInvariant == Spec => []SessionInv
BY SessionInit, SessionStep, PTL DEF Spec

-----------------------------------------------------------------------------
\* handle_message's cut keeps the history, and every variable, in its type.
THEOREM SessionTypes == Spec => []TypeOK
<1>1. SessionInv => TypeOK
  BY DEF SessionInv
<1> QED
  BY <1>1, SessionInvariant, PTL

\* "complete" is only ever sent after the whole answer.
THEOREM CompleteAnswersAreWhole == Spec => []CompleteIsWhole
<1>1. SessionInv => CompleteIsWhole
  BY DEF SessionInv
<1> QED
  BY <1>1, SessionInvariant, PTL

\* active_streams never holds a stream that ended or was cancelled.
THEOREM EntriesAreLive == Spec => []EntryIsLive
<1>1. SessionInv => EntryIsLive
  BY DEF SessionInv
<1> QED
  BY <1>1, SessionInvariant, PTL

\* cleanup_connection is final, although streams may still be running.
THEOREM CleanupIsFinal == Spec => []GoneIsForgotten
<1>1. SessionInv => GoneIsForgotten
  BY DEF SessionInv
<1> QED
  BY <1>1, SessionInvariant, PTL

\* No step writes for a stream whose cancellation was acknowledged.
THEOREM CancelledStreamsAreSilent == Spec => SilentAfterCancel
<1>1. SessionInv /\ [Next]_vars =>
        [\A c \in Chats : told[c] => sent'[c] = sent[c] /\ verdict'[c] = verdict[c]]_vars
  <2> SUFFICES ASSUME SessionInv, Next, NEW d \in Chats, told[d]
               PROVE  sent'[d] = sent[d] /\ verdict'[d] = verdict[d]
    OBVIOUS
  <2>1. stopped[d]
    BY DEF SessionInv, ToldIsStopped
  <2>2. ASSUME NEW c \in Chats, Provider(c)
        PROVE  sent'[d] = sent[d] /\ verdict'[d] = verdict[d]
    <3>1. c # d
      BY <2>1, <2>2 DEF Provider, NextChunk, Complete, Fails
    <3> QED
      BY <2>2, <3>1 DEF Provider, NextChunk, Complete, Fails, SessionInv, TypeOK
  <2>3. ASSUME NEW c \in Chats, Start(c) \/ Finally(c)
        PROVE  sent'[d] = sent[d] /\ verdict'[d] = verdict[d]
    BY <2>3 DEF Start, Finally
  <2>4. CASE \E c \in Chats : Receives(handle_chat(c))
    BY <2>4 DEF Receives
  <2>5. CASE Receives(handle_cancel) \/ Receives(handle_other)
    BY <2>5 DEF Receives
  <2>6. CASE Hangup \/ Leave \/ Cleanup \/ Closed
    BY <2>6 DEF Hangup, Leave, Cleanup, Closed
  <2> QED
    BY <2>2, <2>3, <2>4, <2>5, <2>6 DEF Next
<1> QED
  BY <1>1, SessionInvariant, PTL DEF Spec, SilentAfterCancel
=============================================================================
