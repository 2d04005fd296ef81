------------------------------ MODULE EepServer ------------------------------
(***************************************************************************)
(* The subscription handlers of EEPServer.  Each request runs one handler; *)
(* a handler that awaits the store, the event store or the bus is split at *)
(* each await, so that other requests and the dispatcher run in between.   *)
(* The step that starts a handler performs its first awaited call.         *)
(***************************************************************************)
EXTENDS EventBus

CONSTANTS Ops,              \* the operations requests may ask for
          NewRecords,       \* what subscribe bodies may ask for
          Leases,           \* granted lease lengths, already clamped
          MaxRedeliverIds   \* cap on the ids of one redelivery

ASSUME ServerAssumption ==
  /\ Ops \subseteq {"subscribe", "pause", "resume", "test", "unsubscribe", "redeliver"}
  /\ NewRecords \subseteq [webhook : BOOLEAN, selects : SUBSET Kind]
  /\ Leases \subseteq Nat \ {0}
  /\ MaxRedeliverIds \in Nat \ {0}

VARIABLE requests   \* the handler each request runs

(***************************************************************************)
(* todo: the event ids a redelivery has still to publish; code: the HTTP   *)
(* status answered, 0 before the answer.  A crash leaves a handler         *)
(* "unanswered" if its update of the table was made, otherwise "lost".     *)
(***************************************************************************)
Handler ==
  [op   : Ops \cup {"none"},
   sub  : SubId \cup {NoSub},
   pc   : {"idle", "writing", "answering", "finding", "publishing", "done",
           "unanswered", "lost"},
   todo : SUBSET AppEvent,
   code : {0, 200, 201, 202, 204, 400, 404, 409}]

At(r, op, pc) == requests[r].op = op /\ requests[r].pc = pc

Goes(r, op, s, pc, ids) ==
  requests' = [requests EXCEPT ![r] =
                 [op |-> op, sub |-> s, pc |-> pc, todo |-> ids, code |-> 0]]

Answers(r, op, s, code) ==
  requests' = [requests EXCEPT ![r] =
                 [op |-> op, sub |-> s, pc |-> "done", todo |-> {}, code |-> code]]

Idle(r, op) == requests[r].pc = "idle" /\ op \in Ops

(***************************************************************************)
(* POST /eep/subscribe.  Validation and the tier's gate either refuse the  *)
(* request or let it build the record and save it; then the created event  *)
(* is published and the request answered.                                  *)
(***************************************************************************)
SubscribeRefused(r) ==
  /\ Idle(r, "subscribe")
  /\ Answers(r, "subscribe", NoSub, 400)
  /\ UNCHANGED <<table, now, dispatches>>

SubscribeSave(r) ==
  /\ Idle(r, "subscribe")
  /\ \E body \in NewRecords, lease \in Leases :
       SaveSubscription(now,
         [webhook |-> body.webhook, signable |-> body.webhook,
          selects |-> body.selects, status |-> "active", failure_count |-> 0,
          expires_at |-> now + lease])
  /\ Goes(r, "subscribe", now, "publishing", {})
  /\ UNCHANGED <<now, dispatches>>

SubscribePublish(r) ==
  /\ At(r, "subscribe", "publishing")
  /\ Publish(r, [kind |-> "created", about |-> requests[r].sub])
  /\ Answers(r, "subscribe", requests[r].sub, 201)
  /\ UNCHANGED <<table, now>>

(***************************************************************************)
(* POST .../pause: refused only when already paused.  The answer shows the *)
(* record, which takes another read after the update.                      *)
(***************************************************************************)
PauseRead(r, s) ==
  /\ Idle(r, "pause")
  /\ IF s \notin DOMAIN table THEN Answers(r, "pause", s, 404)
     ELSE IF table[s].status = "paused" THEN Answers(r, "pause", s, 409)
     ELSE Goes(r, "pause", s, "writing", {})
  /\ UNCHANGED <<table, now, dispatches>>

PauseWrite(r) ==
  /\ At(r, "pause", "writing")
  /\ UpdateSubscription(requests[r].sub,
                        [table[requests[r].sub] EXCEPT !.status = "paused"])
  /\ Goes(r, "pause", requests[r].sub, "answering", {})
  /\ UNCHANGED <<now, dispatches>>

PauseAnswer(r) ==
  /\ At(r, "pause", "answering")
  /\ Answers(r, "pause", requests[r].sub, 200)
  /\ UNCHANGED <<table, now, dispatches>>

(***************************************************************************)
(* POST .../resume: refused only when already active.                      *)
(***************************************************************************)
ResumeRead(r, s) ==
  /\ Idle(r, "resume")
  /\ IF s \notin DOMAIN table THEN Answers(r, "resume", s, 404)
     ELSE IF table[s].status = "active" THEN Answers(r, "resume", s, 409)
     ELSE Goes(r, "resume", s, "writing", {})
  /\ UNCHANGED <<table, now, dispatches>>

ResumeWrite(r) ==
  /\ At(r, "resume", "writing")
  /\ UpdateSubscription(requests[r].sub,
                        [table[requests[r].sub] EXCEPT !.status = "active",
                                                       !.failure_count = 0])
  /\ Goes(r, "resume", requests[r].sub, "answering", {})
  /\ UNCHANGED <<now, dispatches>>

ResumeAnswer(r) ==
  /\ At(r, "resume", "answering")
  /\ Answers(r, "resume", requests[r].sub, 200)
  /\ UNCHANGED <<table, now, dispatches>>

(***************************************************************************)
(* POST .../test: an active subscription gets a synthetic event addressed  *)
(* to it alone, published on the ordinary bus.                             *)
(***************************************************************************)
TestRead(r, s) ==
  /\ Idle(r, "test")
  /\ IF s \notin DOMAIN table THEN Answers(r, "test", s, 404)
     ELSE IF table[s].status # "active" THEN Answers(r, "test", s, 409)
     ELSE Goes(r, "test", s, "publishing", {})
  /\ UNCHANGED <<table, now, dispatches>>

TestPublish(r) ==
  /\ At(r, "test", "publishing")
  /\ Publish(r, [kind |-> "test", about |-> requests[r].sub])
  /\ Answers(r, "test", requests[r].sub, 202)
  /\ UNCHANGED <<table, now>>

(***************************************************************************)
(* DELETE: idempotent; the cancelled event follows a deletion that found   *)
(* something to delete.                                                    *)
(***************************************************************************)
UnsubscribeDelete(r, s) ==
  /\ Idle(r, "unsubscribe")
  /\ DeleteSubscription(s)
  /\ IF s \in DOMAIN table THEN Goes(r, "unsubscribe", s, "publishing", {})
                           ELSE Answers(r, "unsubscribe", s, 204)
  /\ UNCHANGED <<now, dispatches>>

UnsubscribePublish(r) ==
  /\ At(r, "unsubscribe", "publishing")
  /\ Publish(r, [kind |-> "cancelled", about |-> requests[r].sub])
  /\ Answers(r, "unsubscribe", requests[r].sub, 204)
  /\ UNCHANGED <<table, now>>

(***************************************************************************)
(* POST .../redeliver: existence is checked before the body; the status of *)
(* the subscription is not checked at all.  The stored events among the    *)
(* ids (retention may have dropped any of them) are published again on the *)
(* ordinary bus, one after the other.                                      *)
(***************************************************************************)
RedeliverRead(r, s, ids) ==
  /\ Idle(r, "redeliver")
  /\ IF s \notin DOMAIN table THEN Answers(r, "redeliver", s, 404)
     ELSE IF ids = {} \/ Cardinality(ids) > MaxRedeliverIds
          THEN Answers(r, "redeliver", s, 400)
     ELSE Goes(r, "redeliver", s, "finding", ids)
  /\ UNCHANGED <<table, now, dispatches>>

Republishes(r, ids) ==
  IF ids = {} THEN Answers(r, "redeliver", requests[r].sub, 202)
              ELSE Goes(r, "redeliver", requests[r].sub, "publishing", ids)

RedeliverFind(r) ==
  /\ At(r, "redeliver", "finding")
  /\ \E found \in SUBSET (requests[r].todo \cap DOMAIN dispatches) :
       Republishes(r, found)
  /\ UNCHANGED <<table, now, dispatches>>

RedeliverPublish(r) ==
  /\ At(r, "redeliver", "publishing")
  /\ \E e \in requests[r].todo :
       /\ Publish(<<r, e>>, AppEventOf(e))
       /\ Republishes(r, requests[r].todo \ {e})
  /\ UNCHANGED <<table, now>>

ServerInit ==
  requests = [r \in Request |->
                [op |-> "none", sub |-> NoSub, pc |-> "idle", todo |-> {}, code |-> 0]]

RequestArrives(r) ==
  \/ SubscribeRefused(r) \/ SubscribeSave(r)
  \/ \E s \in SubId : \/ PauseRead(r, s) \/ ResumeRead(r, s) \/ TestRead(r, s)
                      \/ UnsubscribeDelete(r, s)
                      \/ \E ids \in SUBSET AppEvent : RedeliverRead(r, s, ids)

RequestContinues(r) ==
  \/ SubscribePublish(r)
  \/ PauseWrite(r) \/ PauseAnswer(r)
  \/ ResumeWrite(r) \/ ResumeAnswer(r)
  \/ TestPublish(r)
  \/ UnsubscribePublish(r)
  \/ RedeliverFind(r) \/ RedeliverPublish(r)

ServerTypeOK == requests \in [Request -> Handler]
=============================================================================
