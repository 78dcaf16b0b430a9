------------------------------ MODULE ChatPage ------------------------------
(***************************************************************************)
(* frontend/hooks/useChat.ts over useWebSocket.ts: the messages of a page, *)
(* one of which takes what is streamed. A change of the messages is a      *)
(* function that React runs when it renders - or at once, if nothing is    *)
(* waiting - and most of these functions look up the streaming message     *)
(* only when they run (`of` is then None). Frames carry no message's name  *)
(* that the page would look at, and come in order until the connection is  *)
(* cut. Of the server (websocket/ws_handlers.py, see ChatSession) the page *)
(* sees frames: here any number of its streams may answer side by side,    *)
(* and end in any way or silently, which is more than it does. The library *)
(* under useWebSocket is not in the repository: each frame is taken to     *)
(* raise one of its events.                                                *)
(***************************************************************************)
EXTENDS Naturals, Sequences, SequencesExt, FiniteSets

CONSTANTS Sends, MaxMessages, MaxChunks, MaxReloads, None,
          MaxPending   \* the changes that wait for a render when the list is edited

VARIABLES messages, pending, ref, loading, http, got, server, wire, stored, reloads
vars == <<messages, pending, ref, loading, http, got, server, wire, stored, reloads>>

Entry(n, role, status) == [id |-> <<role, n>>, status |-> status]
Question(n) == Entry(n, "user", "sent")
Answer(n, status) == Entry(n, "assistant", status)

Init ==
  /\ messages = <<>> /\ pending = <<>> /\ ref = None /\ loading = FALSE
  /\ http = {} /\ wire = <<>> /\ stored = <<>> /\ reloads = 0
  /\ got = [n \in Sends |-> <<>>]
  /\ server = [n \in Sends |-> [step |-> "none", made |-> 0]]

TypeOK ==
  LET Entries == [id : {"user", "assistant"} \X Sends,
                  status : {"sent", "streaming", "error"}] IN
    /\ messages \in Seq(Entries) /\ stored \in Seq(Entries)
    /\ ref \in Sends \cup {None} /\ loading \in BOOLEAN /\ http \subseteq Sends
    /\ got \in [Sends -> Seq(Sends \X (1..MaxChunks))]
    /\ server \in [Sends -> [step : {"none", "open", "ended"}, made : 0..MaxChunks]]
    /\ reloads \in 0..MaxReloads

(***************************************************************************)
(* Changes of the messages                                                 *)
(***************************************************************************)
LastOnes(list, n) == IF Len(list) > n THEN SubSeq(list, Len(list) - n + 1, Len(list)) ELSE list
Put(list, n, entry) ==
  [k \in DOMAIN list |-> IF list[k].id = <<"assistant", n>> THEN entry ELSE list[k]]
\* Variant: the list is not cut.
Sent_Uncut(list, n) == list \o <<Question(n), Answer(n, "streaming")>>
Sent(list, n) ==
  Append(LastOnes(Append(list, Question(n)), MaxMessages), Answer(n, "streaming"))
(* What a change makes of the list when it runs: `now` is the streaming     *)
(* message of that moment.                                                  *)
Run(list, u, now) ==
  LET n == IF u.of = None THEN now ELSE u.of IN
    CASE u.op = "send"  -> Sent(list, n)
      [] u.op = "chunk" -> Put(list, n, Answer(n, "streaming"))
      [] u.op = "final" -> Put(list, n, Answer(u.arg, "sent"))
      [] u.op = "mark"  -> Put(list, n, Answer(n, u.arg))
      [] u.op = "list"  -> u.arg
      [] u.op = "drop"  -> SelectSeq(list, LAMBDA e : e.id # u.arg)
Change(op, n, arg) == pending' = Append(pending, [op |-> op, of |-> n, arg |-> arg])
(* A change that looks the message up is bound when it is made only if      *)
(* nothing waits to be rendered.                                            *)
ChangeStreaming(op, arg) ==
  \E n \in {None} \cup (IF pending = <<>> THEN {ref} ELSE {}) : Change(op, n, arg)

(* React renders, and the effect that follows saves what is shown.          *)
Render ==
  /\ pending # <<>>
  /\ messages' = FoldLeft(LAMBDA list, u : Run(list, u, ref), messages, pending)
  /\ stored' = messages'
  /\ pending' = <<>>
  /\ UNCHANGED <<ref, loading, http, got, server, wire, reloads>>

(***************************************************************************)
(* The user                                                                *)
(***************************************************************************)
\* Variant: the chunks go on to the message that streams already.
Streams_Kept(n) == ref' = IF ref = None THEN n ELSE ref
Streams(n) == ref' = n

(* A request goes out as a frame - which may be lost - or as an HTTP call,  *)
(* or sending it raises. Whether there is a connection is what was rendered *)
(* last, so all of these may happen at any time.                            *)
sendMessage(n) ==
  /\ server[n].step = "none" /\ \A k \in Sends : k < n => server[k].step # "none"
  /\ \/ \E step \in {"open", "ended"} :
          /\ server' = [server EXCEPT ![n].step = step]
          /\ Streams(n) /\ loading' = TRUE
          /\ Change("send", n, None) /\ UNCHANGED http
     \/ /\ server' = [server EXCEPT ![n].step = "ended"]
        /\ http' = http \cup {n} /\ loading' = TRUE
        /\ Change("send", n, None) /\ UNCHANGED ref
     \/ /\ server' = [server EXCEPT ![n].step = "ended"]
        /\ pending' = pending \o <<[op |-> "send", of |-> n, arg |-> None],
                                   [op |-> "mark", of |-> n, arg |-> "error"]>>
        /\ loading' = FALSE /\ ref' = None /\ UNCHANGED http
  /\ UNCHANGED <<messages, got, wire, stored, reloads>>
(* The form sends nothing while a message is loading; asking an earlier     *)
(* question again does not look.                                            *)
handleSubmit(n) == ~loading /\ sendMessage(n)
retryMessage(n) ==
  /\ \E k \in DOMAIN messages : messages[k].id[1] = "user"
  /\ sendMessage(n)

\* Variant: the message stops streaming and the page goes on loading.
cancelCurrentStream_Loading ==
  /\ ref # None
  /\ ChangeStreaming("mark", "sent")
  /\ ref' = None
  /\ UNCHANGED <<messages, loading, http, got, server, wire, stored, reloads>>
(* Only a stream can be cancelled: the HTTP call's controller is never set. *)
cancelCurrentStream ==
  /\ ref # None
  /\ ChangeStreaming("mark", "sent")
  /\ ref' = None /\ loading' = FALSE
  /\ UNCHANGED <<messages, http, got, server, wire, stored, reloads>>
clearMessages ==
  /\ messages # <<>> /\ Len(pending) < MaxPending
  /\ Change("list", None, <<>>) /\ stored' = <<>>
  /\ UNCHANGED <<messages, ref, loading, http, got, server, wire, reloads>>
deleteMessage ==
  /\ Len(pending) < MaxPending
  /\ \E k \in DOMAIN messages : Change("drop", None, messages[k].id)
  /\ UNCHANGED <<messages, ref, loading, http, got, server, wire, stored, reloads>>

(* The page is loaded again: what was saved is read, to be shown by the     *)
(* next render, and the empty list of the first one is saved.               *)
Reload ==
  /\ reloads < MaxReloads
  /\ reloads' = reloads + 1
  /\ messages' = <<>> /\ ref' = None /\ loading' = FALSE /\ http' = {} /\ wire' = <<>>
  /\ pending' = IF stored = <<>> THEN <<>> ELSE <<[op |-> "list", of |-> None, arg |-> stored]>>
  /\ stored' = <<>>
  /\ server' = [n \in Sends |-> IF server[n].step = "open"
                                  THEN [server[n] EXCEPT !.step = "ended"] ELSE server[n]]
  /\ UNCHANGED got

(***************************************************************************)
(* What comes in                                                           *)
(***************************************************************************)
HttpEnds(n) ==
  /\ n \in http
  /\ http' = http \ {n} /\ loading' = FALSE
  /\ \/ Change("mark", n, "sent") /\ UNCHANGED ref
     \/ Change("mark", n, "error") /\ ref' = None
  /\ UNCHANGED <<messages, got, server, wire, stored, reloads>>

Serves(n) ==
  /\ server[n].step = "open"
  /\ \/ /\ server[n].made < MaxChunks
        /\ server' = [server EXCEPT ![n].made = @ + 1]
        /\ wire' = Append(wire, [kind |-> "chunk", of |-> <<n, server'[n].made>>])
     \/ /\ server' = [server EXCEPT ![n].step = "ended"]
        /\ \/ UNCHANGED wire
           \/ \E k \in {"complete", "error"} : wire' = Append(wire, [kind |-> k, of |-> <<n, 0>>])
  /\ UNCHANGED <<messages, pending, ref, loading, http, got, stored, reloads>>
Disconnects ==
  /\ \E n \in Sends : server[n].step = "open"
  /\ server' = [n \in Sends |-> IF server[n].step = "open"
                                  THEN [server[n] EXCEPT !.step = "ended"] ELSE server[n]]
  /\ wire' = <<>>
  /\ UNCHANGED <<messages, pending, ref, loading, http, got, stored, reloads>>

Arrives(k) == wire # <<>> /\ Head(wire).kind = k /\ wire' = Tail(wire)
(* A chunk goes to the message that streams, whosever it is.                *)
handleStreamChunk ==
  /\ Arrives("chunk")
  /\ IF ref = None THEN UNCHANGED <<got, pending>>
     ELSE /\ got' = [got EXCEPT ![ref] = Append(@, Head(wire).of)]
          /\ ChangeStreaming("chunk", None)
  /\ UNCHANGED <<messages, ref, loading, http, server, stored, reloads>>
handleStreamComplete ==
  /\ Arrives("complete")
  /\ IF ref = None THEN UNCHANGED <<pending, ref, loading>>
     ELSE /\ ChangeStreaming("final", ref)
          /\ ref' = None /\ loading' = FALSE
  /\ UNCHANGED <<messages, http, got, server, stored, reloads>>
(* An error ends the stream when it comes as a message ...                  *)
handleStreamError ==
  /\ Arrives("error")
  /\ IF ref = None THEN UNCHANGED pending ELSE ChangeStreaming("mark", "error")
  /\ ref' = None /\ loading' = FALSE
  /\ UNCHANGED <<messages, http, got, server, stored, reloads>>
(* ... but as a message error, as which useWebSocket expects it, it is only *)
(* shown: the message streams on until the user cancels it.                 *)
onError ==
  /\ Arrives("error")
  /\ UNCHANGED <<messages, pending, ref, loading, http, got, server, stored, reloads>>

Next ==
  \/ Render \/ cancelCurrentStream \/ clearMessages \/ deleteMessage \/ Reload
  \/ \E n \in Sends : handleSubmit(n) \/ retryMessage(n) \/ HttpEnds(n) \/ Serves(n)
  \/ Disconnects \/ handleStreamChunk \/ handleStreamComplete \/ handleStreamError \/ onError

Spec == Init /\ [][Next]_vars

(* The form is locked only while something is under way that unlocks it: a  *)
(* stream, which the user can cancel, or an HTTP call, which ends.          *)
LoadingHasCause == loading => ref # None \/ http # {}
(* No chunk is shown twice, and those of one stream stay in their order,    *)
(* whichever messages they end up in.                                       *)
ChunksShownOnce ==
  \A n, m \in Sends : \A j \in DOMAIN got[n], k \in DOMAIN got[m] :
    /\ got[n][j] = got[m][k] => n = m /\ j = k
    /\ n = m /\ got[n][j][1] = got[m][k][1] /\ j < k => got[n][j][2] < got[m][k][2]
(* A chunk may be shown with another message than its answer's - chunks     *)
(* carry no name the page looks at - but only with that of a later          *)
(* question: what was asked before never grows by it.                       *)
NoneShownEarlier == \A n \in Sends : \A j \in DOMAIN got[n] : got[n][j][1] <= n
(* However changes wait and are run together, no message is listed twice    *)
(* or put in another's place, and the list keeps to its bound.              *)
ListIsSound ==
  /\ \A j, k \in DOMAIN messages : messages[j].id = messages[k].id => j = k
  /\ Len(messages) <= MaxMessages + 1
=============================================================================
