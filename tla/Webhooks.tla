------------------------------ MODULE Webhooks ------------------------------
(***************************************************************************)
(* The chat sessions and webhooks of integrations/enterprise_platform.py.  *)
(* Sessions and messages are kept in Redis, whose failures are swallowed;  *)
(* their events become deliveries for a webhook, if one has been created,  *)
(* logged in a table and queued in memory. One worker posts them, and a    *)
(* retry worker queues again what the table says has failed, whether or not*)
(* a copy of it is queued still. A restart loses the queue and keeps the   *)
(* table. Every call to the database may fail, a commit that fails may have*)
(* been done. `seen` remembers how far each event has come, `unmarked` the *)
(* deliveries after whose post the table could not be written.             *)
(***************************************************************************)
EXTENDS Naturals, Sequences, SequencesExt

CONSTANTS Sessions, None,
          MaxAttempts,              \* 3, not the webhook's own retry_count
          MaxQueue, MaxRestarts     \* bounds of the model

VARIABLES row, queue, posting, accepted, restarts, hooked, session, seen, unmarked
vars == <<row, queue, posting, accepted, restarts, hooked, session, seen, unmarked>>

(* One message is sent in a session. *)
Deliveries == Sessions \X {"started", "message"}
New == [attempts |-> 0, failed |-> FALSE, delivered |-> FALSE, old |-> FALSE]

Init ==
  /\ row = [d \in Deliveries |-> None]
  /\ queue = <<>> /\ posting = None
  /\ accepted = {} /\ unmarked = {} /\ restarts = 0
  /\ hooked = FALSE
  /\ session = [s \in Sessions |-> [at |-> "new", kept |-> FALSE, messages |-> 0]]
  /\ seen = [d \in Deliveries |-> "nothing"]

TypeOK ==
  /\ \A d \in Deliveries : row[d] = None \/ row[d] \in
       [attempts : 0..(MaxAttempts + 1), failed : BOOLEAN, delivered : BOOLEAN, old : BOOLEAN]
  /\ queue \in Seq(Deliveries) /\ Len(queue) <= MaxQueue
  /\ posting \in Deliveries \cup {None}
  /\ accepted \subseteq Deliveries /\ unmarked \subseteq Deliveries
  /\ restarts \in 0..MaxRestarts /\ hooked \in BOOLEAN
  /\ session \in [Sessions -> [at : {"new", "stored", "known", "asked", "answered", "done"},
                               kept : BOOLEAN, messages : 0..1]]
  /\ seen \in [Deliveries -> {"nothing", "queued", "posted"}]

Logged == {d \in Deliveries : row[d] # None}
Pending(d) == posting = d \/ Contains(queue, d)

(* The delivery is queued before the commit: one that fails may leave it    *)
(* queued and not logged. No active webhook found, no delivery.             *)
_trigger_webhook(d) ==
  \/ UNCHANGED <<row, queue, seen>>
  \/ /\ hooked /\ Len(queue) < MaxQueue
     /\ queue' = Append(queue, d)
     /\ row' \in {row, [row EXCEPT ![d] = New]}
     /\ seen' = [seen EXCEPT ![d] = "queued"]

create_webhook ==
  /\ ~hooked /\ hooked' = TRUE
  /\ UNCHANGED <<row, queue, posting, accepted, restarts, session, seen, unmarked>>

Becomes(s, rec) == session' = [session EXCEPT ![s] = rec]
Idle == UNCHANGED <<posting, accepted, restarts, hooked, unmarked>>

(* Redis keeps the session or fails; the event is triggered before the      *)
(* client is told the session's name.                                       *)
_store_session(s) ==
  /\ session[s].at = "new"
  /\ \E kept \in BOOLEAN : Becomes(s, [session[s] EXCEPT !.at = "stored", !.kept = kept])
  /\ Idle /\ UNCHANGED <<row, queue, seen>>
\* Variant: the client is told the session's name, and then the event is triggered.
create_chat_session_Told(s) ==
  /\ \/ session[s].at = "stored" /\ Becomes(s, [session[s] EXCEPT !.at = "known"])
        /\ UNCHANGED <<row, queue, seen>>
     \/ /\ session[s].at # "stored" /\ seen[<<s, "started">>] = "nothing"
        /\ _trigger_webhook(<<s, "started">>) /\ UNCHANGED session
  /\ Idle
create_chat_session(s) ==
  /\ session[s].at = "stored"
  /\ _trigger_webhook(<<s, "started">>)
  /\ Becomes(s, [session[s] EXCEPT !.at = "known"])
  /\ Idle

(* A session that Redis does not keep is not found. *)
send_message(s) ==
  /\ session[s].at = "known" /\ session[s].kept
  /\ Becomes(s, [session[s] EXCEPT !.at = "asked"])
  /\ Idle /\ UNCHANGED <<row, queue, seen>>
_store_message(s) ==
  /\ session[s].at = "asked"
  /\ \E n \in 0..1 : Becomes(s, [session[s] EXCEPT !.at = "answered", !.messages = n])
  /\ Idle /\ UNCHANGED <<row, queue, seen>>
Answered(s) ==
  /\ session[s].at = "answered"
  /\ _trigger_webhook(<<s, "message">>)
  /\ Becomes(s, [session[s] EXCEPT !.at = "done"])
  /\ Idle

(* Sessions are kept for a day, messages for a week from the last. *)
Expires(s) ==
  /\ session[s].at # "new" /\ session[s].kept
  /\ Becomes(s, [session[s] EXCEPT !.kept = FALSE])
  /\ Idle /\ UNCHANGED <<row, queue, seen>>

_webhook_delivery_worker ==
  /\ posting = None /\ queue # <<>>
  /\ posting' = Head(queue) /\ queue' = Tail(queue)
  /\ seen' = [seen EXCEPT ![Head(queue)] = "posted"]
  /\ UNCHANGED <<row, accepted, restarts, hooked, session, unmarked>>

Updated(new) == IF posting \in Logged
                       THEN row' = [row EXCEPT ![posting] = new] ELSE UNCHANGED row
Attempts(r) == IF r.attempts > MaxAttempts THEN r.attempts ELSE r.attempts + 1

Taken(r) == [r EXCEPT !.attempts = Attempts(r), !.delivered = TRUE, !.failed = FALSE]
Failed(r) == [r EXCEPT !.attempts = Attempts(r), !.failed = TRUE]

Answers ==
  /\ posting # None
  /\ accepted' = accepted \cup {posting}
  /\ posting' = None
  /\ Updated(Taken(row[posting]))
  /\ UNCHANGED <<queue, restarts, hooked, session, seen, unmarked>>

\* Variant: an attempt that fails is counted and not flagged.
Fails_Counted ==
  /\ posting # None
  /\ accepted' \in {accepted, accepted \cup {posting}}
  /\ posting' = None
  /\ Updated([row[posting] EXCEPT !.attempts = Attempts(row[posting])])
  /\ UNCHANGED <<queue, restarts, hooked, session, seen, unmarked>>
(* Another status or an exception, which may come of a timeout after the    *)
(* endpoint has taken the event, or of the table after an answer, whose     *)
(* update may have been done.                                               *)
Fails ==
  /\ posting # None
  /\ posting' = None
  /\ \/ /\ accepted' \in {accepted, accepted \cup {posting}}
        /\ Updated(Failed(row[posting]))
     \/ /\ accepted' = accepted \cup {posting}
        /\ Updated(Failed(Taken(row[posting])))
  /\ UNCHANGED <<queue, restarts, hooked, session, seen, unmarked>>
(* The update that should mark the delivery raises too, and the worker goes *)
(* on to the next.                                                          *)
Unmarked ==
  /\ posting # None
  /\ accepted' \in {accepted, accepted \cup {posting}}
  /\ posting' = None
  /\ unmarked' = unmarked \cup {posting}
  /\ UNCHANGED <<row, queue, restarts, hooked, session, seen>>

Retriable(d) == d \in Logged /\ row[d].failed /\ row[d].attempts < MaxAttempts
                /\ ~row[d].old

(* In one step, in the order the database gives them; not all of them when  *)
(* it fails on the way, gives a hundred or finds a webhook inactive.        *)
_webhook_retry_worker ==
  \E some \in SUBSET {d \in Deliveries : Retriable(d)} : \E again \in SetToSeqs(some) :
    /\ again # <<>>
    /\ Len(queue) + Len(again) <= MaxQueue
    /\ queue' = queue \o again
    /\ UNCHANGED <<row, posting, accepted, restarts, hooked, session, seen, unmarked>>

(* A day passes for a delivery; after thirty its row is deleted. *)
Ages(d) ==
  /\ d \in Logged
  /\ row' = [row EXCEPT ![d] = IF @.old THEN None ELSE [@ EXCEPT !.old = TRUE]]
  /\ UNCHANGED <<queue, posting, accepted, restarts, hooked, session, seen, unmarked>>

(* The requests at work end too. *)
Restart ==
  /\ restarts < MaxRestarts
  /\ restarts' = restarts + 1
  /\ queue' = <<>> /\ posting' = None
  /\ session' = [s \in Sessions |->
       IF session[s].at \in {"stored", "asked", "answered"}
       THEN [session[s] EXCEPT !.at = "done"] ELSE session[s]]
  /\ UNCHANGED <<row, accepted, hooked, seen, unmarked>>

Works == _webhook_delivery_worker \/ Answers \/ Fails \/ Unmarked
Next ==
  \/ Works \/ _webhook_retry_worker \/ Restart \/ create_webhook
  \/ \E d \in Deliveries : Ages(d)
  \/ \E s \in Sessions :
       \/ _store_session(s) \/ create_chat_session(s) \/ send_message(s)
       \/ _store_message(s) \/ Answered(s) \/ Expires(s)

(* The workers survive exceptions, posts end by their timeout, and a        *)
(* database that fails does not fail for ever.                              *)
Fairness == WF_vars(Works) /\ SF_vars(Answers \/ Fails) /\ WF_vars(_webhook_retry_worker)

Spec == Init /\ [][Next]_vars /\ Fairness

(* What is logged as delivered was taken by the endpoint, though posts are  *)
(* repeated and answered late.                                              *)
DeliveredWasTaken == \A d \in Logged : row[d].delivered => d \in accepted
(* As long as the process has not restarted, a logged delivery that is      *)
(* neither delivered nor failed is still to be posted: none is forgotten,   *)
(* but for those whose post the table could not be told of.                 *)
NoneForgotten ==
  restarts = 0 => \A d \in Logged \ unmarked :
    row[d].delivered \/ row[d].failed \/ Pending(d)
(* The endpoint hears of a session before it hears of its messages, retries *)
(* aside: unless the process restarts, no message is posted for the first   *)
(* time while the start of its session has yet to be.                       *)
StartIsPostedFirst ==
  restarts = 0 => \A s \in Sessions :
    seen[<<s, "message">>] = "posted" => seen[<<s, "started">>] # "queued"
(* A failed delivery is delivered, or runs out of attempts or of its day.   *)
RetriesEnd == \A d \in Deliveries : []<>(~Retriable(d))
=============================================================================
