-------------------------- MODULE ProviderStreams --------------------------
(***************************************************************************)
(* The streams of the provider adapters (providers/streaming_mixin.py for  *)
(* OpenAI and Anthropic, stream of provider_a.py and provider_b.py), put   *)
(* together by merge_streams and cut into batches by buffer_stream. Every  *)
(* merged stream has a task of its own, which fills an unbounded queue.    *)
(* A chunk is its place in its stream and whether it says it is the last.  *)
(* What the vendor sends, and when it breaks off, is left open.            *)
(***************************************************************************)
EXTENDS Naturals, Sequences, SequencesExt, FiniteSets

CONSTANTS Streams, kind, MaxChunks, BufferSize

VARIABLES task, made, queue, active, consumer, buffer, given
vars == <<task, made, queue, active, consumer, buffer, given>>

Init ==
  /\ task = [s \in Streams |-> "runs"]
  /\ made = [s \in Streams |-> 0]
  /\ queue = <<>> /\ buffer = <<>> /\ given = <<>>
  /\ active = Cardinality(Streams)
  /\ consumer = "waits"

TypeOK ==
  LET Chunks == [of : Streams, at : 0..MaxChunks, final : BOOLEAN] IN
    /\ task \in [Streams -> {"runs", "ended", "raised", "cancelled"}]
    /\ made \in [Streams -> 0..MaxChunks + 1]
    /\ queue \in Seq(Chunks \cup [of : Streams]) /\ buffer \in Seq(Chunks)
    /\ given \in Seq(Seq(Chunks))
    /\ active \in 0..Cardinality(Streams)
    /\ consumer \in {"waits", "holds", "cleans", "ended", "left"}

(***************************************************************************)
(* The vendors' events and what the adapters make of them                  *)
(***************************************************************************)
Chunk(s, n, final) == [of |-> s, at |-> n, final |-> final]
(* What one event of a vendor becomes: a text, or the last chunk, without    *)
(* one. Pings and lines that cannot be read are passed over. An event of    *)
(* OpenAI may hold a text and the finish, which makes two chunks.           *)
OfAnthropic(s) == {<<Chunk(s, made[s], final)>> : final \in BOOLEAN}
OfOpenAI(s) ==
  OfAnthropic(s) \cup {<<Chunk(s, made[s], FALSE), Chunk(s, made[s] + 1, TRUE)>>}
(* stream passes a chunk on with its text and whether it is the last.      *)
Chunks(s) == IF kind[s] = "openai" THEN OfOpenAI(s) ELSE OfAnthropic(s)
(* Provider B stops reading at the last chunk; the others read on until the *)
(* vendor's end, which they take for one whether a last chunk came or not.  *)
StopsAt(s, chunks) == kind[s] = "provider_b" /\ Last(chunks).final
Sentinel(s) == [of |-> s]

Yields(s) ==
  /\ task[s] = "runs" /\ made[s] < MaxChunks
  /\ \E chunks \in Chunks(s) :
       /\ made' = [made EXCEPT ![s] = @ + Len(chunks)]
       /\ IF StopsAt(s, chunks)
            THEN /\ task' = [task EXCEPT ![s] = "ended"]
                 /\ queue' = Append(queue \o chunks, Sentinel(s))
            ELSE task' = task /\ queue' = queue \o chunks
  /\ UNCHANGED <<active, consumer, buffer, given>>
\* Variant: the task of a stream without a chunk puts no end into the queue.
Ends_Silently(s) ==
  /\ task[s] = "runs"
  /\ task' = [task EXCEPT ![s] = "ended"]
  /\ queue' = IF made[s] = 0 THEN queue ELSE Append(queue, Sentinel(s))
  /\ UNCHANGED <<made, active, consumer, buffer, given>>
Ends(s) ==
  /\ task[s] = "runs"
  /\ task' = [task EXCEPT ![s] = "ended"]
  /\ queue' = Append(queue, Sentinel(s))
  /\ UNCHANGED <<made, active, consumer, buffer, given>>
(* An error of the vendor or the adapter ends the task without an end in    *)
(* the queue: the consumer goes on waiting for one.                         *)
Raises(s) ==
  /\ task[s] = "runs"
  /\ task' = [task EXCEPT ![s] = "raised"]
  /\ UNCHANGED <<made, queue, active, consumer, buffer, given>>

(***************************************************************************)
(* The consumer                                                            *)
(***************************************************************************)
\* Variant: the last batch is given only when it is full.
Flushed_FullOnly ==
  given' = IF Len(buffer) = BufferSize THEN Append(given, buffer) ELSE given
(* What is left in the buffer when the streams have ended.                  *)
Flushed == given' = IF buffer = <<>> THEN given ELSE Append(given, buffer)

(* The next of the queue: the last end ends the merge, a chunk goes into    *)
(* the buffer, and a full buffer to the consumer.                           *)
Takes ==
  LET e == Head(queue)
      more == Append(buffer, e) IN
    /\ consumer = "waits" /\ queue # <<>>
    /\ queue' = Tail(queue)
    /\ IF e = Sentinel(e.of)
         THEN /\ active' = active - 1
              /\ IF active = 1
                   THEN consumer' = "cleans" /\ Flushed /\ buffer' = <<>>
                   ELSE UNCHANGED <<consumer, buffer, given>>
       ELSE IF Len(more) >= BufferSize
         THEN /\ given' = Append(given, more) /\ buffer' = <<>>
              /\ consumer' = "holds"
              /\ UNCHANGED active
       ELSE buffer' = more /\ UNCHANGED <<active, consumer, given>>
    /\ UNCHANGED <<task, made>>
Asks ==
  /\ consumer = "holds"
  /\ consumer' = "waits"
  /\ UNCHANGED <<task, made, queue, active, buffer, given>>

(* The consumer stops, or is cancelled as it waits: what the buffer holds   *)
(* is dropped, and the tasks that still run are cancelled one by one.       *)
Leaves ==
  /\ consumer \in {"waits", "holds"}
  /\ consumer' = "left" /\ buffer' = <<>>
  /\ UNCHANGED <<task, made, queue, active, given>>
\* Variant: only the first task that still runs is cancelled.
Cleans_First ==
  LET running == {s \in Streams : task[s] = "runs"} IN
    /\ consumer \in {"cleans", "left"}
    /\ consumer' = "ended"
    /\ task' = IF running = {} THEN task
               ELSE [task EXCEPT ![CHOOSE s \in running : TRUE] = "cancelled"]
    /\ UNCHANGED <<made, queue, active, buffer, given>>
Cleans ==
  /\ consumer \in {"cleans", "left"}
  /\ IF \E s \in Streams : task[s] = "runs"
       THEN /\ \E s \in Streams : task[s] = "runs" /\ task' = [task EXCEPT ![s] = "cancelled"]
            /\ UNCHANGED consumer
       ELSE consumer' = "ended" /\ UNCHANGED task
  /\ UNCHANGED <<made, queue, active, buffer, given>>

Next ==
  \/ \E s \in Streams : Yields(s) \/ Ends(s) \/ Raises(s)
  \/ Takes \/ Asks \/ Leaves \/ Cleans

Spec == Init /\ [][Next]_vars

(* What is taken of a stream, in the order it is taken.                     *)
Got(s) == SelectSeq(FlattenSeq(given) \o buffer, LAMBDA c : c.of = s)
(* Every stream's chunks arrive in their order, without a gap; all of them  *)
(* when the merge ends by itself - it never does before every stream has.   *)
MergedInOrder ==
  \A s \in Streams :
    /\ \A n \in DOMAIN Got(s) : Got(s)[n].at = n - 1
    /\ consumer = "cleans" => task[s] = "ended" /\ Len(Got(s)) = made[s]
(* Whoever stops, and whenever: no task of a merge is left running.         *)
NoTaskLeft == consumer = "ended" => \A s \in Streams : task[s] # "runs"
(* A merge whose consumer reads on ends, unless a stream has raised: then   *)
(* its consumer may wait for good.                                          *)
MergeEnds ==
  []<>(consumer \in {"ended", "left"} \/ \E s \in Streams : task[s] = "raised")
=============================================================================
