------------------------ MODULE DeliverySystemProofs ------------------------
(***************************************************************************)
(* Theorems about DeliverySystem for every value of its constants: type    *)
(* correctness, the failure counter and the pause it justifies, the        *)
(* delivery log, the stop, the cancelled event of a DELETE, and the        *)
(* refinement of FailureStreak.                                            *)
(***************************************************************************)
EXTENDS DeliverySystem, FiniteSetTheorems, TLAPS

(***************************************************************************)
(* A delivery whose outcome is written to the table and not yet reported.  *)
(***************************************************************************)
Written(d) == [d EXCEPT !.pc = "reporting", !.seen = 0]

LEMMA LoopType ==
  ASSUME NEW d \in Delivery, NEW n \in 1 .. MaxAttempts + 1, stopped \in BOOLEAN
  PROVE  EnterLoop(d, n) \in Delivery
<1>1. MaxAttempts \in Nat
  BY DispatcherAssumption DEF MaxAttempts
<1>2. CASE n > MaxAttempts
  BY <1>1, <1>2 DEF EnterLoop, Delivery
<1>3. CASE n <= MaxAttempts
  <2>1. n \in 1 .. MaxAttempts /\ ~(n > MaxAttempts)
    BY <1>1, <1>3
  <2>2. [d EXCEPT !.attempt = n] \in Delivery
    BY <2>1 DEF Delivery
  <2>3. [d EXCEPT !.pc = "asleep", !.attempt = n] \in Delivery
    BY <2>1 DEF Delivery
  <2>4. AttemptOrAbort([d EXCEPT !.attempt = n]) \in Delivery
    BY <2>2 DEF Delivery, AttemptOrAbort, Settle
  <2>. QED  BY <2>1, <2>3, <2>4 DEF EnterLoop
<1>. QED  BY <1>1, <1>2, <1>3

LEMMA TableType ==
  ASSUME IsTable(table), NEW id \in SubId, NEW rec,
         id \in DOMAIN table => rec \in SubscriptionRecord,
         UpdateSubscription(id, rec)
  PROVE  IsTable(table')
<1>1. DOMAIN table' = DOMAIN table /\ DOMAIN table \subseteq SubId
  BY DEF UpdateSubscription, IsTable
<1>2. table' \in [DOMAIN table -> SubscriptionRecord]
  BY DEF UpdateSubscription, IsTable
<1>. QED  BY <1>1, <1>2 DEF IsTable

LEMMA EmptyTable == IsTable(NoTable)
<1>1. DOMAIN NoTable = {}
  BY DEF NoTable
<1>2. NoTable \in [DOMAIN NoTable -> SubscriptionRecord]
  BY DEF NoTable
<1>. QED  BY <1>1, <1>2 DEF IsTable

LEMMA ListType ==
  ASSUME TypeOK, NEW id \in DispatchId, ListSubscriptions(id), UNCHANGED <<requests, crashes>>
  PROVE  TypeOK'
<1>1. EventBusTypeOK'
  BY DEF TypeOK, SubscriptionsTypeOK, DispatcherTypeOK, EventBusTypeOK, ListSubscriptions,
         IsDispatch
<1>. QED
  BY <1>1 DEF TypeOK, SubscriptionsTypeOK, DispatcherTypeOK, ServerTypeOK, ListSubscriptions

LEMMA FanOutType ==
  ASSUME TypeOK, NEW id \in DispatchId, FanOut(id), UNCHANGED <<requests, crashes>>
  PROVE  TypeOK'
<1>1. IsTable(dispatches[id].snapshot)
  BY DEF TypeOK, DispatcherTypeOK, EventBusTypeOK, FanOut, IsDispatch
<1>2. EventBusTypeOK'
  BY EmptyTable DEF TypeOK, DispatcherTypeOK, EventBusTypeOK, FanOut, IsDispatch
<1>3. Targets(id) \subseteq SubId
  BY <1>1 DEF Targets, IsTable
<1>4. DOMAIN deliveries' \subseteq DeliveryId
  BY <1>3 DEF TypeOK, DispatcherTypeOK, FanOut, DeliveryId
<1>5. ASSUME NEW k \in DOMAIN deliveries'  PROVE deliveries'[k] \in Delivery
  <2>1. CASE k \in DOMAIN deliveries
    BY <2>1, <1>5 DEF TypeOK, DispatcherTypeOK, FanOut
  <2>2. CASE k \notin DOMAIN deliveries
    <3>1. k[2] \in DOMAIN dispatches[id].snapshot
      BY <2>2, <1>5 DEF FanOut, Targets
    <3>2. dispatches[id].snapshot[k[2]] \in SubscriptionRecord
      BY <3>1, <1>1 DEF IsTable
    <3>3. MaxAttempts \in Nat \ {0}
      BY DispatcherAssumption DEF MaxAttempts
    <3>4. NewDelivery(dispatches[id].snapshot[k[2]]) \in Delivery
      BY <3>2, <3>3 DEF NewDelivery, Delivery
    <3>5. EnterLoop(NewDelivery(dispatches[id].snapshot[k[2]]), 1) \in Delivery
      BY <3>4, <3>3, LoopType DEF TypeOK, DispatcherTypeOK
    <3>. QED  BY <3>5, <2>2, <1>5 DEF FanOut
  <2>. QED  BY <2>1, <2>2
<1>. QED
  BY <1>2, <1>4, <1>5
     DEF TypeOK, SubscriptionsTypeOK, DispatcherTypeOK, ServerTypeOK, FanOut

(***************************************************************************)
(* Replacing the delivery k by another delivery keeps the types.           *)
(***************************************************************************)
LEMMA DeliveryReplaced ==
  ASSUME TypeOK, NEW k \in DOMAIN deliveries, NEW d \in Delivery,
         deliveries' = [deliveries EXCEPT ![k] = d],
         UNCHANGED <<now, dispatches, stopped, requests, crashes>>,
         IsTable(table'), deliveryLog' \subseteq LogEntry
  PROVE  TypeOK'
BY DEF TypeOK, SubscriptionsTypeOK, DispatcherTypeOK, EventBusTypeOK, ServerTypeOK

LEMMA WakeType ==
  ASSUME TypeOK, NEW k \in DeliveryId, Wake(k), UNCHANGED <<requests, crashes>>
  PROVE  TypeOK'
<1>1. k \in DOMAIN deliveries /\ deliveries[k] \in Delivery
  BY DEF TypeOK, DispatcherTypeOK, Wake
<1>2. AttemptOrAbort(deliveries[k]) \in Delivery
  BY <1>1 DEF AttemptOrAbort, Settle, Delivery
<1>3. deliveries' = [deliveries EXCEPT ![k] = AttemptOrAbort(deliveries[k])]
  BY DEF Wake
<1>4. /\ UNCHANGED <<now, dispatches, stopped, requests, crashes>>
      /\ IsTable(table') /\ deliveryLog' \subseteq LogEntry
  BY DEF Wake, TypeOK, SubscriptionsTypeOK, DispatcherTypeOK
<1>. QED  BY <1>1, <1>2, <1>3, <1>4, DeliveryReplaced

LEMMA AnswerType ==
  ASSUME TypeOK, NEW k \in DeliveryId, Answer(k), UNCHANGED <<requests, crashes>>
  PROVE  TypeOK'
<1>. DEFINE d == deliveries[k]
<1>1. k \in DOMAIN deliveries /\ d \in Delivery /\ stopped \in BOOLEAN
  BY DEF TypeOK, DispatcherTypeOK, Answer
<1>2. PICK ok \in BOOLEAN :
        /\ deliveries' = [deliveries EXCEPT ![k] =
                            IF ok THEN [d EXCEPT !.pc = "reading", !.won = TRUE]
                                  ELSE EnterLoop(d, d.attempt + 1)]
        /\ \/ deliveryLog' = deliveryLog \cup
                 {[delivery     |-> k,
                   attempt      |-> d.attempt,
                   final_status |-> FinalStatus(ok, d.attempt)]}
           \/ UNCHANGED deliveryLog
  BY DEF Answer
<1>3. MaxAttempts \in Nat \ {0} /\ d.attempt \in 1 .. MaxAttempts
  BY <1>1, DispatcherAssumption DEF MaxAttempts, Delivery
<1>4. [d EXCEPT !.pc = "reading", !.won = TRUE] \in Delivery
  BY <1>1 DEF Delivery
<1>5. EnterLoop(d, d.attempt + 1) \in Delivery
  <2>1. d.attempt + 1 \in 1 .. MaxAttempts + 1
    BY <1>3
  <2>. QED  BY <2>1, <1>1, LoopType
<1>6. [delivery |-> k, attempt |-> d.attempt, final_status |-> FinalStatus(ok, d.attempt)]
        \in LogEntry
  BY <1>3 DEF LogEntry, FinalStatus
<1>7. deliveryLog' \subseteq LogEntry
  BY <1>2, <1>6 DEF TypeOK, DispatcherTypeOK
<1>8. UNCHANGED <<now, dispatches, stopped, requests, crashes>> /\ IsTable(table')
  BY DEF Answer, TypeOK, SubscriptionsTypeOK
<1>9. (IF ok THEN [d EXCEPT !.pc = "reading", !.won = TRUE]
             ELSE EnterLoop(d, d.attempt + 1)) \in Delivery
  BY <1>4, <1>5
<1>. QED  BY <1>1, <1>2, <1>7, <1>8, <1>9, DeliveryReplaced

LEMMA ReadType ==
  ASSUME TypeOK, NEW k \in DeliveryId, ReadRecord(k), UNCHANGED <<requests, crashes>>
  PROVE  TypeOK'
<1>. DEFINE d == deliveries[k]
            after == IF NothingToWrite(k) THEN Settle(d, Outcome(d))
                     ELSE [d EXCEPT !.pc = "writing", !.seen = table[k[2]].failure_count]
<1>1. k \in DOMAIN deliveries /\ d \in Delivery
  BY DEF TypeOK, DispatcherTypeOK, ReadRecord, Report
<1>2. Settle(d, Outcome(d)) \in Delivery
  BY <1>1 DEF Settle, Outcome, Delivery
<1>3. ASSUME ~NothingToWrite(k)  PROVE table[k[2]].failure_count \in Nat
  <2>1. k[2] \in DOMAIN table
    BY <1>3 DEF NothingToWrite
  <2>2. table[k[2]] \in SubscriptionRecord
    BY <2>1 DEF TypeOK, SubscriptionsTypeOK, IsTable
  <2>. QED  BY <2>2 DEF SubscriptionRecord
<1>4. after \in Delivery
  BY <1>1, <1>2, <1>3 DEF Delivery
<1>5. deliveries' = [deliveries EXCEPT ![k] = after]
  BY DEF ReadRecord, Report
<1>6. /\ UNCHANGED <<now, dispatches, stopped, requests, crashes>>
      /\ IsTable(table') /\ deliveryLog' \subseteq LogEntry
  BY DEF ReadRecord, Report, TypeOK, SubscriptionsTypeOK, DispatcherTypeOK
<1>. QED  BY <1>1, <1>4, <1>5, <1>6, DeliveryReplaced

LEMMA AfterType ==
  ASSUME NEW rec \in SubscriptionRecord, NEW seen \in Nat
  PROVE  AfterSuccess(rec) \in SubscriptionRecord /\ AfterFailure(rec, seen) \in SubscriptionRecord
<1>1. AfterSuccess(rec) \in SubscriptionRecord
  BY DEF AfterSuccess, SubscriptionRecord
<1>. DEFINE status == IF seen + 1 >= PauseAfterFailures THEN "paused" ELSE rec.status
<1>2. seen + 1 \in Nat /\ status \in SubscriptionStatus
  BY DEF SubscriptionRecord, SubscriptionStatus
<1>3. AfterFailure(rec, seen) = [rec EXCEPT !.failure_count = seen + 1, !.status = status]
  BY DEF AfterFailure
<1>. HIDE DEF status
<1>4. [rec EXCEPT !.failure_count = seen + 1, !.status = status] \in SubscriptionRecord
  BY <1>2 DEF SubscriptionRecord
<1>. QED  BY <1>1, <1>3, <1>4

LEMMA WriteType ==
  ASSUME TypeOK, NEW k \in DeliveryId, WriteRecord(k), UNCHANGED <<requests, crashes>>
  PROVE  TypeOK'
<1>. DEFINE d == deliveries[k]
            rec == IF d.won THEN AfterSuccess(table[k[2]])
                   ELSE AfterFailure(table[k[2]], d.seen)
<1>1. k \in DOMAIN deliveries /\ d \in Delivery /\ IsTable(table)
  BY DEF TypeOK, SubscriptionsTypeOK, DispatcherTypeOK, WriteRecord, Report
<1>2. Written(d) \in Delivery
  BY <1>1 DEF Written, Delivery
<1>3. k[2] \in DOMAIN table => rec \in SubscriptionRecord
  <2>. SUFFICES ASSUME k[2] \in DOMAIN table  PROVE rec \in SubscriptionRecord
    OBVIOUS
  <2>1. table[k[2]] \in SubscriptionRecord /\ d.seen \in Nat
    BY <1>1 DEF Delivery, IsTable
  <2>. QED  BY <2>1, AfterType
<1>4. k[2] \in SubId /\ UpdateSubscription(k[2], rec)
  BY DEF DeliveryId, WriteRecord, Report
<1>5. IsTable(table')
  BY <1>1, <1>3, <1>4, TableType
<1>6. deliveries' = [deliveries EXCEPT ![k] = Written(d)]
  BY DEF WriteRecord, Report, Written
<1>7. /\ UNCHANGED <<now, dispatches, stopped, requests, crashes>>
      /\ deliveryLog' \subseteq LogEntry
  BY DEF WriteRecord, Report, TypeOK, DispatcherTypeOK
<1>. QED  BY <1>1, <1>2, <1>5, <1>6, <1>7, DeliveryReplaced

LEMMA ReportType ==
  ASSUME TypeOK, NEW k \in DeliveryId, Report(k), UNCHANGED <<requests, crashes>>
  PROVE  TypeOK'
<1>. DEFINE d == deliveries[k]
<1>1. k \in DOMAIN deliveries /\ d \in Delivery
  BY DEF TypeOK, DispatcherTypeOK, Report
<1>2. Settle(d, Outcome(d)) \in Delivery
  BY <1>1 DEF Settle, Outcome, Delivery
<1>3. deliveries' = [deliveries EXCEPT ![k] = Settle(d, Outcome(d))]
  BY DEF Report
<1>4. /\ UNCHANGED <<now, dispatches, stopped, requests, crashes>>
      /\ IsTable(table') /\ deliveryLog' \subseteq LogEntry
  BY DEF Report, TypeOK, SubscriptionsTypeOK, DispatcherTypeOK
<1>. QED  BY <1>1, <1>2, <1>3, <1>4, DeliveryReplaced

LEMMA PublishType ==
  ASSUME EventBusTypeOK, NEW id \in DispatchId, NEW event \in Event, Publish(id, event)
  PROVE  EventBusTypeOK'
BY EmptyTable DEF EventBusTypeOK, Publish, IsDispatch

(***************************************************************************)
(* A handler's step types what it may change: its entry in requests, the   *)
(* table, and the dispatches.                                              *)
(***************************************************************************)
LEMMA HandlerMoved ==
  ASSUME TypeOK, NEW r \in Request, NEW h \in Handler,
         requests' = [requests EXCEPT ![r] = h],
         IsTable(table'), EventBusTypeOK',
         UNCHANGED <<now, deliveries, stopped, deliveryLog, crashes>>
  PROVE  TypeOK'
BY DEF TypeOK, SubscriptionsTypeOK, DispatcherTypeOK, ServerTypeOK

LEMMA HandlerFacts ==
  ASSUME TypeOK, NEW r \in Request
  PROVE  /\ requests[r] \in Handler
         /\ requests[r].op \in Ops \cup {"none"}
         /\ requests[r].sub \in SubId \cup {NoSub}
         /\ IsTable(table) /\ now \in SubId
         /\ EventBusTypeOK
BY DEF TypeOK, SubscriptionsTypeOK, DispatcherTypeOK, ServerTypeOK, Handler

LEMMA GoesType ==
  ASSUME TypeOK, NEW r \in Request, NEW op \in Ops, NEW s \in SubId \cup {NoSub},
         NEW ids \in SUBSET AppEvent,
         \/ \E pc \in {"writing", "answering", "finding", "publishing"} : Goes(r, op, s, pc, ids)
         \/ \E code \in {200, 201, 202, 204, 400, 404, 409} : Answers(r, op, s, code),
         IsTable(table'), EventBusTypeOK',
         UNCHANGED <<now, deliveries, stopped, deliveryLog, crashes>>
  PROVE  TypeOK'
<1>1. CASE \E pc \in {"writing", "answering", "finding", "publishing"} : Goes(r, op, s, pc, ids)
  <2>1. PICK pc \in {"writing", "answering", "finding", "publishing"} : Goes(r, op, s, pc, ids)
    BY <1>1
  <2>. DEFINE h == [op |-> op, sub |-> s, pc |-> pc, todo |-> ids, code |-> 0]
  <2>2. h \in Handler
    BY DEF Handler
  <2>3. requests' = [requests EXCEPT ![r] = h]
    BY <2>1 DEF Goes
  <2>. HIDE DEF h
  <2>. QED  BY <2>2, <2>3, HandlerMoved
<1>2. CASE \E code \in {200, 201, 202, 204, 400, 404, 409} : Answers(r, op, s, code)
  <2>1. PICK code \in {200, 201, 202, 204, 400, 404, 409} : Answers(r, op, s, code)
    BY <1>2
  <2>. DEFINE h == [op |-> op, sub |-> s, pc |-> "done", todo |-> {}, code |-> code]
  <2>2. h \in Handler
    BY DEF Handler
  <2>3. requests' = [requests EXCEPT ![r] = h]
    BY <2>1 DEF Answers
  <2>. HIDE DEF h
  <2>. QED  BY <2>2, <2>3, HandlerMoved
<1>. QED  BY <1>1, <1>2

LEMMA SubscribeType ==
  ASSUME TypeOK, NEW r \in Request,
         SubscribeRefused(r) \/ SubscribeSave(r) \/ SubscribePublish(r),
         UNCHANGED <<deliveries, stopped, deliveryLog, crashes>>
  PROVE  TypeOK'
<1>. USE HandlerFacts
<1>1. CASE SubscribeRefused(r)
  <2>1. UNCHANGED <<table, now, dispatches>> /\ "subscribe" \in Ops
    BY <1>1 DEF SubscribeRefused, Idle
  <2>2. Answers(r, "subscribe", NoSub, 400)
    BY <1>1 DEF SubscribeRefused
  <2>3. EventBusTypeOK'
    BY <2>1 DEF EventBusTypeOK
  <2>. QED  BY <2>1, <2>2, <2>3, GoesType
<1>2. CASE SubscribeSave(r)
  <2>1. UNCHANGED <<now, dispatches>> /\ "subscribe" \in Ops
    BY <1>2 DEF SubscribeSave, Idle
  <2>2. PICK body \in NewRecords, lease \in Leases :
          SaveSubscription(now,
            [webhook |-> body.webhook, signable |-> body.webhook,
             selects |-> body.selects, status |-> "active", failure_count |-> 0,
             expires_at |-> now + lease])
    BY <1>2 DEF SubscribeSave
  <2>. DEFINE rec == [webhook |-> body.webhook, signable |-> body.webhook,
                      selects |-> body.selects, status |-> "active", failure_count |-> 0,
                      expires_at |-> now + lease]
  <2>3. /\ body \in [webhook : BOOLEAN, selects : SUBSET Kind]
        /\ lease \in Nat /\ now \in Nat
    BY ServerAssumption, SubscriptionsAssumption DEF SubId
  <2>4. rec \in SubscriptionRecord
    BY <2>3 DEF SubscriptionRecord, SubscriptionStatus
  <2>. HIDE DEF rec
  <2>5. table' = [i \in DOMAIN table \cup {now} |-> IF i = now THEN rec ELSE table[i]]
    BY <2>2 DEF SaveSubscription, rec
  <2>6. IsTable(table')
    BY <2>4, <2>5 DEF IsTable
  <2>7. EventBusTypeOK'
    BY <2>1 DEF EventBusTypeOK
  <2>8. Goes(r, "subscribe", now, "publishing", {})
    BY <1>2 DEF SubscribeSave
  <2>. QED  BY <2>1, <2>6, <2>7, <2>8, GoesType
<1>3. CASE SubscribePublish(r)
  <2>1. UNCHANGED <<table, now>> /\ "subscribe" \in Ops
    BY <1>3, "subscribe" # "none" DEF SubscribePublish, At
  <2>2. Publish(r, [kind |-> "created", about |-> requests[r].sub])
    BY <1>3 DEF SubscribePublish
  <2>3. EventBusTypeOK'
    BY <2>2, PublishType DEF Event, Kind, DispatchId
  <2>4. Answers(r, "subscribe", requests[r].sub, 201)
    BY <1>3 DEF SubscribePublish
  <2>. QED  BY <2>1, <2>3, <2>4, GoesType
<1>. QED  BY <1>1, <1>2, <1>3

LEMMA PauseResumeType ==
  ASSUME TypeOK, NEW r \in Request,
         \/ \E s \in SubId : PauseRead(r, s) \/ ResumeRead(r, s)
         \/ PauseWrite(r) \/ PauseAnswer(r) \/ ResumeWrite(r) \/ ResumeAnswer(r),
         UNCHANGED <<deliveries, stopped, deliveryLog, crashes>>
  PROVE  TypeOK'
<1>. USE HandlerFacts
<1>0. EventBusTypeOK' /\ UNCHANGED now
  BY DEF PauseRead, ResumeRead, PauseWrite, ResumeWrite, PauseAnswer, ResumeAnswer,
         EventBusTypeOK
<1>1. ASSUME NEW s \in SubId, PauseRead(r, s)  PROVE TypeOK'
  <2>1. IsTable(table') /\ "pause" \in Ops
    BY <1>1 DEF PauseRead, Idle
  <2>2. \/ Goes(r, "pause", s, "writing", {})
        \/ Answers(r, "pause", s, 404) \/ Answers(r, "pause", s, 409)
    BY <1>1 DEF PauseRead
  <2>. QED  BY <1>0, <2>1, <2>2, GoesType
<1>2. ASSUME NEW s \in SubId, ResumeRead(r, s)  PROVE TypeOK'
  <2>1. IsTable(table') /\ "resume" \in Ops
    BY <1>2 DEF ResumeRead, Idle
  <2>2. \/ Goes(r, "resume", s, "writing", {})
        \/ Answers(r, "resume", s, 404) \/ Answers(r, "resume", s, 409)
    BY <1>2 DEF ResumeRead
  <2>. QED  BY <1>0, <2>1, <2>2, GoesType
<1>3. CASE PauseWrite(r)
  <2>. DEFINE s == requests[r].sub
              rec == [table[s] EXCEPT !.status = "paused"]
  <2>1. "pause" \in Ops
    BY <1>3, "pause" # "none" DEF PauseWrite, PauseAnswer, At
  <2>2. s \in DOMAIN table => rec \in SubscriptionRecord
    BY DEF SubscriptionRecord, SubscriptionStatus, IsTable
  <2>3. IsTable(table')
    <3>1. table' = [i \in DOMAIN table |-> IF i = s THEN rec ELSE table[i]]
      BY <1>3 DEF PauseWrite, PauseAnswer, UpdateSubscription
    <3>. HIDE DEF rec, s
    <3>. QED  BY <3>1, <2>2 DEF IsTable
  <2>4. Goes(r, "pause", s, "answering", {})
    BY <1>3 DEF PauseWrite, PauseAnswer
  <2>. QED  BY <1>0, <2>1, <2>3, <2>4, GoesType
<1>4. CASE ResumeWrite(r)
  <2>. DEFINE s == requests[r].sub
              rec == [table[s] EXCEPT !.status = "active", !.failure_count = 0]
  <2>1. "resume" \in Ops
    BY <1>4, "resume" # "none" DEF ResumeWrite, ResumeAnswer, At
  <2>2. s \in DOMAIN table => rec \in SubscriptionRecord
    <3>1. s \in DOMAIN table => table[s] \in SubscriptionRecord
      BY DEF IsTable
    <3>. QED  BY <3>1 DEF SubscriptionRecord, SubscriptionStatus
  <2>3. IsTable(table')
    <3>1. table' = [i \in DOMAIN table |-> IF i = s THEN rec ELSE table[i]]
      BY <1>4 DEF ResumeWrite, ResumeAnswer, UpdateSubscription
    <3>. HIDE DEF rec, s
    <3>. QED  BY <3>1, <2>2 DEF IsTable
  <2>4. Goes(r, "resume", s, "answering", {})
    BY <1>4 DEF ResumeWrite, ResumeAnswer
  <2>. QED  BY <1>0, <2>1, <2>3, <2>4, GoesType
<1>5. CASE PauseAnswer(r)
  <2>1. "pause" \in Ops /\ IsTable(table') /\ Answers(r, "pause", requests[r].sub, 200)
    BY <1>5, "pause" # "none" DEF PauseAnswer, At
  <2>. QED  BY <1>0, <2>1, GoesType
<1>6. CASE ResumeAnswer(r)
  <2>1. "resume" \in Ops /\ IsTable(table') /\ Answers(r, "resume", requests[r].sub, 200)
    BY <1>6, "resume" # "none" DEF ResumeAnswer, At
  <2>. QED  BY <1>0, <2>1, GoesType
<1>. QED  BY <1>1, <1>2, <1>3, <1>4, <1>5, <1>6

LEMMA TestUnsubscribeType ==
  ASSUME TypeOK, NEW r \in Request,
         \/ \E s \in SubId : TestRead(r, s) \/ UnsubscribeDelete(r, s)
         \/ TestPublish(r) \/ UnsubscribePublish(r),
         UNCHANGED <<deliveries, stopped, deliveryLog, crashes>>
  PROVE  TypeOK'
<1>. USE HandlerFacts
<1>1. ASSUME NEW s \in SubId, TestRead(r, s)  PROVE TypeOK'
  <2>1. IsTable(table') /\ "test" \in Ops /\ EventBusTypeOK' /\ UNCHANGED now
    BY <1>1 DEF TestRead, Idle, EventBusTypeOK
  <2>2. \/ Goes(r, "test", s, "publishing", {})
        \/ Answers(r, "test", s, 404) \/ Answers(r, "test", s, 409)
    BY <1>1 DEF TestRead
  <2>. QED  BY <2>1, <2>2, GoesType
<1>2. ASSUME NEW s \in SubId, UnsubscribeDelete(r, s)  PROVE TypeOK'
  <2>1. "unsubscribe" \in Ops /\ EventBusTypeOK' /\ UNCHANGED now
    BY <1>2 DEF UnsubscribeDelete, Idle, EventBusTypeOK
  <2>2. IsTable(table')
    BY <1>2 DEF UnsubscribeDelete, DeleteSubscription, IsTable
  <2>3. Goes(r, "unsubscribe", s, "publishing", {}) \/ Answers(r, "unsubscribe", s, 204)
    BY <1>2 DEF UnsubscribeDelete
  <2>. QED  BY <2>1, <2>2, <2>3, GoesType
<1>3. CASE TestPublish(r)
  <2>1. UNCHANGED <<table, now>> /\ "test" \in Ops
    BY <1>3, "test" # "none" DEF TestPublish, At
  <2>2. EventBusTypeOK'
    BY <1>3, PublishType DEF TestPublish, Event, DispatchId
  <2>3. Answers(r, "test", requests[r].sub, 202)
    BY <1>3 DEF TestPublish
  <2>. QED  BY <2>1, <2>2, <2>3, GoesType
<1>4. CASE UnsubscribePublish(r)
  <2>1. UNCHANGED <<table, now>> /\ "unsubscribe" \in Ops
    BY <1>4, "unsubscribe" # "none" DEF UnsubscribePublish, At
  <2>2. EventBusTypeOK'
    BY <1>4, PublishType DEF UnsubscribePublish, Event, Kind, DispatchId
  <2>3. Answers(r, "unsubscribe", requests[r].sub, 204)
    BY <1>4 DEF UnsubscribePublish
  <2>. QED  BY <2>1, <2>2, <2>3, GoesType
<1>. QED  BY <1>1, <1>2, <1>3, <1>4

LEMMA RedeliverType ==
  ASSUME TypeOK, NEW r \in Request,
         \/ \E s \in SubId, ids \in SUBSET AppEvent : RedeliverRead(r, s, ids)
         \/ RedeliverFind(r) \/ RedeliverPublish(r),
         UNCHANGED <<deliveries, stopped, deliveryLog, crashes>>
  PROVE  TypeOK'
<1>. USE HandlerFacts
<1>1. ASSUME NEW s \in SubId, NEW ids \in SUBSET AppEvent, RedeliverRead(r, s, ids)
      PROVE  TypeOK'
  <2>1. IsTable(table') /\ "redeliver" \in Ops /\ EventBusTypeOK' /\ UNCHANGED now
    BY <1>1 DEF RedeliverRead, Idle, EventBusTypeOK
  <2>2. \/ Answers(r, "redeliver", s, 404) \/ Answers(r, "redeliver", s, 400)
        \/ Goes(r, "redeliver", s, "finding", ids)
    BY <1>1 DEF RedeliverRead
  <2>. QED  BY <2>1, <2>2, GoesType
<1>2. ASSUME NEW ids \in SUBSET AppEvent, Republishes(r, ids), At(r, "redeliver", "finding") \/
             At(r, "redeliver", "publishing"),
             EventBusTypeOK', UNCHANGED <<table, now>>
      PROVE  TypeOK'
  <2>1. "redeliver" \in Ops
    BY <1>2, "redeliver" # "none" DEF At
  <2>2. \/ Answers(r, "redeliver", requests[r].sub, 202)
        \/ Goes(r, "redeliver", requests[r].sub, "publishing", ids)
    BY <1>2 DEF Republishes
  <2>. QED  BY <1>2, <2>1, <2>2, GoesType
<1>3. requests[r].todo \subseteq AppEvent
  BY DEF Handler
<1>4. CASE RedeliverFind(r)
  <2>1. PICK found \in SUBSET (requests[r].todo \cap DOMAIN dispatches) : Republishes(r, found)
    BY <1>4 DEF RedeliverFind
  <2>2. EventBusTypeOK' /\ UNCHANGED <<table, now>> /\ At(r, "redeliver", "finding")
    BY <1>4 DEF RedeliverFind, EventBusTypeOK
  <2>3. found \in SUBSET AppEvent
    BY <1>3
  <2>. QED  BY <1>2, <2>1, <2>2, <2>3
<1>5. CASE RedeliverPublish(r)
  <2>1. PICK e \in requests[r].todo :
          Publish(<<r, e>>, AppEventOf(e)) /\ Republishes(r, requests[r].todo \ {e})
    BY <1>5 DEF RedeliverPublish
  <2>2. <<r, e>> \in DispatchId /\ AppEventOf(e) \in Event
    BY <1>3 DEF DispatchId, AppEventOf, Event, Kind
  <2>3. EventBusTypeOK'
    BY <2>1, <2>2, PublishType
  <2>4. requests[r].todo \ {e} \in SUBSET AppEvent
    BY <1>3
  <2>5. UNCHANGED <<table, now>> /\ At(r, "redeliver", "publishing")
    BY <1>5 DEF RedeliverPublish
  <2>. QED  BY <1>2, <2>1, <2>3, <2>4, <2>5
<1>. QED  BY <1>1, <1>4, <1>5

LEMMA ServingType ==
  ASSUME TypeOK, Serving
  PROVE  TypeOK'
<1>1. PICK r \in Request : RequestArrives(r) \/ RequestContinues(r)
  BY DEF Serving
<1>2. UNCHANGED <<deliveries, stopped, deliveryLog, crashes>>
  BY DEF Serving
<1>3. CASE SubscribeRefused(r) \/ SubscribeSave(r) \/ SubscribePublish(r)
  BY <1>2, <1>3, SubscribeType
<1>4. CASE \/ \E s \in SubId : PauseRead(r, s) \/ ResumeRead(r, s)
           \/ PauseWrite(r) \/ PauseAnswer(r) \/ ResumeWrite(r) \/ ResumeAnswer(r)
  BY <1>2, <1>4, PauseResumeType
<1>5. CASE \/ \E s \in SubId : TestRead(r, s) \/ UnsubscribeDelete(r, s)
           \/ TestPublish(r) \/ UnsubscribePublish(r)
  BY <1>2, <1>5, TestUnsubscribeType
<1>6. CASE \/ \E s \in SubId, ids \in SUBSET AppEvent : RedeliverRead(r, s, ids)
           \/ RedeliverFind(r) \/ RedeliverPublish(r)
  BY <1>2, <1>6, RedeliverType
<1>. QED  BY <1>1, <1>3, <1>4, <1>5, <1>6 DEF RequestArrives, RequestContinues

LEMMA DispatchingType ==
  ASSUME TypeOK, Dispatching
  PROVE  TypeOK'
BY ListType, FanOutType, WakeType, AnswerType, ReadType, WriteType, ReportType
   DEF Dispatching, DispatcherStep

LEMMA PublishEventType ==
  ASSUME TypeOK, NEW e \in AppEvent, PublishEvent(e)
  PROVE  TypeOK'
<1>1. e \in DispatchId /\ AppEventOf(e) \in Event
  BY DEF DispatchId, AppEventOf, Event, Kind
<1>2. EventBusTypeOK'
  BY <1>1, HandlerFacts, PublishType DEF PublishEvent, TypeOK, DispatcherTypeOK
<1>. QED
  BY <1>2 DEF PublishEvent, TypeOK, SubscriptionsTypeOK, DispatcherTypeOK, ServerTypeOK

LEMMA CrashType ==
  ASSUME TypeOK, Crash
  PROVE  TypeOK'
<1>1. EventBusTypeOK'
  BY EmptyTable DEF Crash, LoseDelivery, TypeOK, DispatcherTypeOK, EventBusTypeOK, IsDispatch
<1>2. \A d \in Delivery : LoseDelivery(d) \in Delivery
  BY DEF LoseDelivery, Settle, Delivery
<1>3. \A k \in DOMAIN deliveries' : deliveries'[k] \in Delivery
  BY <1>2 DEF Crash, LoseDelivery, TypeOK, DispatcherTypeOK
<1>4. DOMAIN deliveries' \subseteq DeliveryId
  BY DEF Crash, LoseDelivery, TypeOK, DispatcherTypeOK
<1>5. requests' \in [Request -> Handler]
  <2>1. ASSUME NEW r \in Request  PROVE requests'[r] \in Handler
    <3>1. requests[r] \in Handler
      BY HandlerFacts
    <3>2. LoseHandler(requests[r]) \in Handler
      BY <3>1 DEF LoseHandler, Handler
    <3>. QED  BY <3>1, <3>2 DEF Crash, LoseDelivery
  <2>. QED  BY <2>1 DEF Crash, LoseDelivery
<1>6. crashes' \in 0 .. MaxCrashes
  <2>1. crashes \in 0 .. MaxCrashes /\ crashes < MaxCrashes /\ crashes' = crashes + 1
    BY DEF Crash, LoseDelivery, TypeOK
  <2>2. MaxCrashes \in Nat
    BY SystemAssumption
  <2>. QED  BY <2>1, <2>2
<1>. QED
  BY <1>1, <1>3, <1>4, <1>5, <1>6
     DEF Crash, LoseDelivery, TypeOK, SubscriptionsTypeOK, DispatcherTypeOK, ServerTypeOK

LEMMA ClockOrShutdownType ==
  ASSUME TypeOK, Clock \/ Shutdown
  PROVE  TypeOK'
<1>1. CASE Clock
  <2>1. now' \in SubId
    BY <1>1, SubscriptionsAssumption DEF Clock, Tick, TypeOK, SubscriptionsTypeOK, SubId
  <2>. QED
    BY <1>1, <2>1 DEF Clock, TypeOK, SubscriptionsTypeOK, DispatcherTypeOK, EventBusTypeOK,
                      ServerTypeOK
<1>2. CASE Shutdown
  BY <1>2 DEF Shutdown, Stop, TypeOK, SubscriptionsTypeOK, DispatcherTypeOK, EventBusTypeOK,
              ServerTypeOK
<1>. QED  BY <1>1, <1>2

LEMMA InitType == Init => TypeOK
<1>. SUFFICES ASSUME Init PROVE TypeOK
  OBVIOUS
<1>1. SubscriptionsTypeOK
  BY SubscriptionsAssumption DEF Init, SubscriptionsTypeOK
<1>2. DispatcherTypeOK
  BY DEF Init, DispatcherInit, DispatcherTypeOK, EventBusTypeOK
<1>3. ServerTypeOK
  BY DEF Init, ServerInit, ServerTypeOK, Handler
<1>. QED  BY <1>1, <1>2, <1>3, SystemAssumption DEF Init, TypeOK

LEMMA NextType == TypeOK /\ [Next]_vars => TypeOK'
<1>. SUFFICES ASSUME TypeOK, [Next]_vars PROVE TypeOK'
  OBVIOUS
<1>1. CASE UNCHANGED vars
  BY <1>1 DEF vars, TypeOK, SubscriptionsTypeOK, DispatcherTypeOK, EventBusTypeOK, ServerTypeOK
<1>. QED
  BY <1>1, PublishEventType, DispatchingType, ServingType, ClockOrShutdownType, CrashType
     DEF Next

(***************************************************************************)
(* Whatever the table, the schedule, the threshold, the requests and the   *)
(* number of crashes, every record, dispatch, delivery, log entry and      *)
(* handler stays well formed; in particular recordFailure never stores a   *)
(* counter that is not a natural number, and no attempt number leaves the  *)
(* schedule.                                                               *)
(***************************************************************************)
THEOREM TypeCorrect == Spec => []TypeOK
BY InitType, NextType, PTL DEF Spec

-----------------------------------------------------------------------------
(***************************************************************************)
(* recordFailure reads the counter and writes it back in two awaits, and   *)
(* reports after a third.  It may lose increments; it never invents one.   *)
(* For every schedule, number of subscriptions, requests, events and       *)
(* crashes: the counter stays below the number of failed deliveries on     *)
(* record, and a subscription that is paused was paused on request or      *)
(* after at least PauseAfterFailures of them.                              *)
(*                                                                         *)
(* Neither is inductive alone.  A write uses a count read earlier, so the  *)
(* invariant also bounds the counts that are waiting to be written; and a  *)
(* delivery that writes must not yet be counted among the failed ones.     *)
(***************************************************************************)
PendingUntilSettled ==
  \A k \in DOMAIN deliveries : deliveries[k].result = "pending" <=> ~Settled(k)

CountsReadWereEarned ==
  \A k \in DOMAIN deliveries :
    deliveries[k].pc = "writing" => deliveries[k].seen <= FailedDeliveries(k[2])

IInv ==
  /\ TypeOK
  /\ PendingUntilSettled
  /\ CountsReadWereEarned
  /\ CounterNeverOvercounts
  /\ PauseJustified

(***************************************************************************)
(* Deliveries are finitely many.                                           *)
(***************************************************************************)
LEMMA FiniteDeliveries ==
  ASSUME NEW D \in SUBSET DeliveryId
  PROVE  IsFiniteSet(D) /\ Cardinality(D) \in Nat
<1>1. IsFiniteSet(SubId)
  BY SubscriptionsAssumption, FS_Interval DEF SubId
<1>2. IsFiniteSet(Request \X AppEvent)
  BY SubscriptionsAssumption, FS_Product
<1>3. IsFiniteSet(DispatchId)
  <2>1. IsFiniteSet(AppEvent \cup Request)
    BY SubscriptionsAssumption, FS_Union
  <2>. QED  BY <1>2, <2>1, FS_Union DEF DispatchId
<1>4. IsFiniteSet(DeliveryId)
  BY <1>1, <1>3, FS_Product DEF DeliveryId
<1>. QED  BY <1>4, FS_Subset, FS_CardinalityType

(***************************************************************************)
(* No step touches a delivery that has settled.                            *)
(***************************************************************************)
LEMMA SettledKept ==
  ASSUME [Next]_vars, NEW k \in DOMAIN deliveries, Settled(k)
  PROVE  k \in DOMAIN deliveries' /\ deliveries'[k] = deliveries[k]
<1>1. CASE UNCHANGED deliveries
  BY <1>1
<1>2. CASE Dispatching
  <2>1. ASSUME NEW id \in DispatchId, ListSubscriptions(id) \/ FanOut(id)
        PROVE  k \in DOMAIN deliveries' /\ deliveries'[k] = deliveries[k]
    BY <2>1 DEF ListSubscriptions, FanOut
  <2>2. ASSUME NEW j \in DeliveryId,
               \/ Wake(j) \/ Answer(j) \/ ReadRecord(j) \/ WriteRecord(j) \/ Report(j)
        PROVE  k \in DOMAIN deliveries' /\ deliveries'[k] = deliveries[k]
    <3>1. deliveries[j].pc # "settled"
      BY <2>2 DEF Wake, Answer, ReadRecord, WriteRecord, Report
    <3>2. j # k
      BY <3>1 DEF Settled
    <3>. QED  BY <2>2, <3>2 DEF Wake, Answer, ReadRecord, WriteRecord, Report
  <2>. QED  BY <1>2, <2>1, <2>2 DEF Dispatching, DispatcherStep
<1>3. CASE Crash
  BY <1>3 DEF Crash, LoseDelivery
<1>4. CASE UNCHANGED vars \/ Serving \/ Clock \/ Shutdown \/ \E e \in AppEvent : PublishEvent(e)
  BY <1>1, <1>4 DEF vars, Serving, Clock, Shutdown, Stop, PublishEvent
<1>. QED  BY <1>2, <1>3, <1>4 DEF Next

(***************************************************************************)
(* A delivery whose outcome was written is reported, or a crash cuts it    *)
(* off.                                                                    *)
(***************************************************************************)
LEMMA ReportingSteps ==
  ASSUME [Next]_vars, NEW k \in DOMAIN deliveries, deliveries[k].pc = "reporting"
  PROVE  /\ k \in DOMAIN deliveries'
         /\ \/ deliveries'[k] = deliveries[k]
            \/ deliveries'[k] = Settle(deliveries[k], Outcome(deliveries[k]))
            \/ Crash /\ deliveries'[k] = Settle(deliveries[k], "unreported")
<1>1. CASE UNCHANGED deliveries
  BY <1>1
<1>2. CASE Dispatching
  <2>1. ASSUME NEW id \in DispatchId, ListSubscriptions(id) \/ FanOut(id)
        PROVE  k \in DOMAIN deliveries' /\ deliveries'[k] = deliveries[k]
    BY <2>1 DEF ListSubscriptions, FanOut
  <2>2. ASSUME NEW j \in DeliveryId, Wake(j) \/ Answer(j) \/ ReadRecord(j) \/ WriteRecord(j)
        PROVE  k \in DOMAIN deliveries' /\ deliveries'[k] = deliveries[k]
    <3>1. j # k
      BY <2>2 DEF Wake, Answer, ReadRecord, WriteRecord
    <3>. QED  BY <2>2, <3>1 DEF Wake, Answer, ReadRecord, WriteRecord
  <2>3. ASSUME NEW j \in DeliveryId, Report(j)
        PROVE  /\ k \in DOMAIN deliveries'
               /\ \/ deliveries'[k] = deliveries[k]
                  \/ deliveries'[k] = Settle(deliveries[k], Outcome(deliveries[k]))
    BY <2>3 DEF Report
  <2>. QED  BY <1>2, <2>1, <2>2, <2>3 DEF Dispatching, DispatcherStep
<1>3. CASE Crash
  BY <1>3 DEF Crash, LoseDelivery, Settled
<1>4. CASE UNCHANGED vars \/ Serving \/ Clock \/ Shutdown \/ \E e \in AppEvent : PublishEvent(e)
  BY <1>1, <1>4 DEF vars, Serving, Clock, Shutdown, Stop, PublishEvent
<1>. QED  BY <1>2, <1>3, <1>4 DEF Next

LEMMA EndedGrow ==
  ASSUME IInv, [Next]_vars, NEW s, NEW won
  PROVE  /\ Ended(s, won) \subseteq Ended(s, won)'
         /\ Ended(s, won) \in SUBSET DeliveryId /\ Ended(s, won)' \in SUBSET DeliveryId
<1>1. TypeOK'
  BY NextType DEF IInv
<1>2. ASSUME NEW k \in Ended(s, won)  PROVE k \in Ended(s, won)'
  <2>. DEFINE d == deliveries[k]
  <2>1. /\ k \in DOMAIN deliveries /\ d \in Delivery
        /\ k[2] = s /\ OnRecord(d) /\ d.won = won
    BY <1>2 DEF Ended, IInv, TypeOK, DispatcherTypeOK
  <2>2. CASE Settled(k)
    BY <2>1, <2>2, SettledKept DEF Ended
  <2>3. CASE d.pc = "reporting"
    <3>1. /\ k \in DOMAIN deliveries'
          /\ \/ deliveries'[k] = d
             \/ deliveries'[k] = Settle(d, Outcome(d))
             \/ deliveries'[k] = Settle(d, "unreported")
      BY <2>1, <2>3, ReportingSteps
    <3>2. \A o \in {"delivered", "failed", "unreported"} :
            OnRecord(Settle(d, o)) /\ Settle(d, o).won = won
      BY <2>1 DEF OnRecord, Settle, Delivery
    <3>3. OnRecord(deliveries'[k]) /\ deliveries'[k].won = won
      BY <2>1, <3>1, <3>2 DEF Outcome
    <3>. QED  BY <2>1, <3>1, <3>3 DEF Ended
  <2>. QED  BY <2>1, <2>2, <2>3 DEF OnRecord, IInv, PendingUntilSettled
<1>. QED  BY <1>1, <1>2 DEF Ended, IInv, TypeOK, DispatcherTypeOK

LEMMA FailuresGrow ==
  ASSUME IInv, [Next]_vars, NEW s
  PROVE  /\ FailedDeliveries(s) \in Nat /\ FailedDeliveries(s)' \in Nat
         /\ FailedDeliveries(s) <= FailedDeliveries(s)'
BY EndedGrow, FiniteDeliveries, FS_Subset DEF FailedDeliveries

LEMMA PendingKept ==
  ASSUME IInv, [Next]_vars
  PROVE  PendingUntilSettled'
<1>. DEFINE Fits(d) == d.result = "pending" <=> d.pc # "settled"
<1>0. \A k \in DOMAIN deliveries : Fits(deliveries[k]) /\ deliveries[k] \in Delivery
  BY DEF IInv, PendingUntilSettled, Settled, TypeOK, DispatcherTypeOK
<1>1. \A d \in Delivery, outcome \in {"delivered", "failed", "aborted", "unreported", "lost"} :
        Fits(Settle(d, outcome))
  BY DEF Settle, Delivery
<1>2. ASSUME NEW d \in Delivery, Fits(d), d.pc # "settled"
      PROVE  Fits(AttemptOrAbort(d))
  BY <1>1, <1>2 DEF AttemptOrAbort, Delivery
<1>3. ASSUME NEW d \in Delivery, Fits(d), d.pc # "settled", NEW n \in 1 .. MaxAttempts + 1
      PROVE  Fits(EnterLoop(d, n))
  <2>1. MaxAttempts \in Nat
    BY DispatcherAssumption DEF MaxAttempts
  <2>2. CASE n > MaxAttempts
    BY <1>3, <2>2 DEF EnterLoop, Delivery
  <2>3. CASE n \in 1 .. MaxAttempts
    <3>1. /\ [d EXCEPT !.attempt = n] \in Delivery /\ Fits([d EXCEPT !.attempt = n])
          /\ [d EXCEPT !.attempt = n].pc # "settled"
      BY <1>3, <2>3 DEF Delivery
    <3>2. Fits([d EXCEPT !.pc = "asleep", !.attempt = n])
      BY <1>3 DEF Delivery
    <3>3. Fits(AttemptOrAbort([d EXCEPT !.attempt = n]))
      BY <3>1, <1>2
    <3>4. ~(n > MaxAttempts)
      BY <2>1, <2>3
    <3>. QED  BY <3>2, <3>3, <3>4 DEF EnterLoop
  <2>. QED  BY <2>1, <2>2, <2>3
<1>4. ASSUME NEW k \in DOMAIN deliveries'  PROVE Fits(deliveries'[k])
  <2>1. CASE UNCHANGED deliveries
    BY <1>0, <2>1
  <2>2. ASSUME NEW id \in DispatchId, FanOut(id)  PROVE Fits(deliveries'[k])
    <3>1. CASE k \in DOMAIN deliveries
      BY <1>0, <1>4, <2>2, <3>1 DEF FanOut
    <3>2. CASE k \notin DOMAIN deliveries
      <4>. DEFINE rec == dispatches[id].snapshot[k[2]]
      <4>1. rec \in SubscriptionRecord
        <5>1. k[2] \in DOMAIN dispatches[id].snapshot
          BY <1>4, <2>2, <3>2 DEF FanOut, Targets
        <5>2. IsTable(dispatches[id].snapshot)
          BY <2>2 DEF FanOut, IInv, TypeOK, DispatcherTypeOK, EventBusTypeOK, IsDispatch
        <5>. QED  BY <5>1, <5>2 DEF IsTable
      <4>2. 1 \in 1 .. MaxAttempts /\ 1 \in 1 .. MaxAttempts + 1
        BY DispatcherAssumption DEF MaxAttempts
      <4>3. /\ NewDelivery(rec) \in Delivery /\ Fits(NewDelivery(rec))
            /\ NewDelivery(rec).pc # "settled"
        BY <4>1, <4>2 DEF NewDelivery, Delivery
      <4>4. deliveries'[k] = EnterLoop(NewDelivery(rec), 1)
        BY <1>4, <2>2, <3>2 DEF FanOut
      <4>. QED  BY <1>3, <4>2, <4>3, <4>4
    <3>. QED  BY <3>1, <3>2
  <2>3. ASSUME NEW j \in DeliveryId,
               \/ Wake(j) \/ Answer(j) \/ ReadRecord(j) \/ WriteRecord(j) \/ Report(j)
        PROVE  Fits(deliveries'[k])
    <3>. DEFINE d == deliveries[j]
    <3>1. /\ j \in DOMAIN deliveries /\ d.pc # "settled" /\ d \in Delivery /\ Fits(d)
      BY <1>0, <2>3 DEF Wake, Answer, ReadRecord, WriteRecord, Report
    <3>2. CASE k # j
      BY <1>0, <1>4, <2>3, <3>2 DEF Wake, Answer, ReadRecord, WriteRecord, Report
    <3>3. CASE k = j /\ Wake(j)
      BY <1>2, <3>1, <3>3 DEF Wake
    <3>4. CASE k = j /\ Answer(j)
      <4>1. d.attempt + 1 \in 1 .. MaxAttempts + 1
        BY <3>1, DispatcherAssumption DEF Delivery, MaxAttempts
      <4>2. Fits(EnterLoop(d, d.attempt + 1))
        BY <1>3, <3>1, <4>1
      <4>3. Fits([d EXCEPT !.pc = "reading", !.won = TRUE])
        BY <3>1 DEF Delivery
      <4>. QED  BY <3>1, <3>4, <4>2, <4>3 DEF Answer
    <3>5. CASE k = j /\ (ReadRecord(j) \/ WriteRecord(j) \/ Report(j))
      <4>1. Fits(Settle(d, Outcome(d)))
        BY <1>1, <3>1 DEF Outcome
      <4>2. Fits([d EXCEPT !.pc = "writing", !.seen = table[j[2]].failure_count])
        BY <3>1 DEF Delivery
      <4>3. Fits([d EXCEPT !.pc = "reporting", !.seen = 0])
        BY <3>1 DEF Delivery
      <4>. QED  BY <3>1, <3>5, <4>1, <4>2, <4>3 DEF ReadRecord, WriteRecord, Report
    <3>. QED  BY <2>3, <3>2, <3>3, <3>4, <3>5
  <2>4. CASE Crash
    BY <1>0, <1>1, <1>4, <2>4 DEF Crash, LoseDelivery, Settled
  <2>5. CASE Dispatching
    BY <2>1, <2>2, <2>3, <2>5 DEF Dispatching, DispatcherStep, ListSubscriptions
  <2>6. CASE UNCHANGED vars \/ Serving \/ Clock \/ Shutdown \/ \E e \in AppEvent : PublishEvent(e)
    BY <2>1, <2>6 DEF vars, Serving, Clock, Shutdown, Stop, PublishEvent
  <2>. QED  BY <2>4, <2>5, <2>6 DEF Next
<1>. QED  BY <1>4 DEF PendingUntilSettled, Settled

(***************************************************************************)
(* What a step may do to a record of the table.                            *)
(***************************************************************************)
Created(s) ==
  \E r \in Request : /\ At(r, "subscribe", "publishing")' /\ requests'[r].sub = s
                     /\ table'[s].status = "active" /\ table'[s].failure_count = 0

Resumed(s) ==
  /\ s \in DOMAIN table
  /\ \E r \in Request : At(r, "resume", "writing") /\ requests'[r].sub = s
  /\ table'[s].status = "active" /\ table'[s].failure_count = 0

Paused(s) ==
  /\ s \in DOMAIN table
  /\ \E r \in Request : AskedToPause(requests'[r], s)
  /\ table'[s].failure_count = table[s].failure_count /\ table'[s].status = "paused"

Succeeded(s) ==
  /\ s \in DOMAIN table
  /\ \E k \in DOMAIN deliveries :
       /\ deliveries[k].pc = "writing" /\ deliveries[k].won /\ k[2] = s
       /\ deliveries' = [deliveries EXCEPT ![k] = Written(@)]
  /\ table'[s].failure_count = 0 /\ table'[s].status = table[s].status

Failed(s) ==
  /\ s \in DOMAIN table
  /\ \E k \in DOMAIN deliveries :
       /\ deliveries[k].pc = "writing" /\ ~deliveries[k].won /\ k[2] = s
       /\ deliveries' = [deliveries EXCEPT ![k] = Written(@)]
       /\ table'[s].failure_count = deliveries[k].seen + 1
       /\ table'[s].status = IF deliveries[k].seen + 1 >= PauseAfterFailures
                             THEN "paused" ELSE table[s].status

LEMMA TableSteps ==
  ASSUME TypeOK, [Next]_vars, NEW s \in DOMAIN table'
  PROVE  \/ s \in DOMAIN table /\ table'[s] = table[s]
         \/ Created(s) \/ Resumed(s) \/ Paused(s) \/ Succeeded(s) \/ Failed(s)
<1>. DEFINE Goal == \/ s \in DOMAIN table /\ table'[s] = table[s]
                    \/ Created(s) \/ Resumed(s) \/ Paused(s) \/ Succeeded(s) \/ Failed(s)
<1>. HIDE DEF Goal
<1>. SUFFICES Goal
  BY DEF Goal
<1>0. /\ IsTable(table) /\ requests \in [Request -> Handler]
      /\ \A k \in DOMAIN deliveries : deliveries[k] \in Delivery
  BY DEF TypeOK, SubscriptionsTypeOK, ServerTypeOK, DispatcherTypeOK
<1>1. CASE UNCHANGED table
  BY <1>1 DEF Goal
<1>2. ASSUME NEW r \in Request, SubscribeSave(r)  PROVE Goal
  <2>1. PICK body \in NewRecords, lease \in Leases :
          table' = [i \in DOMAIN table \cup {now} |->
                     IF i = now
                     THEN [webhook |-> body.webhook, signable |-> body.webhook,
                           selects |-> body.selects, status |-> "active",
                           failure_count |-> 0, expires_at |-> now + lease]
                     ELSE table[i]]
    BY <1>2 DEF SubscribeSave, SaveSubscription
  <2>2. At(r, "subscribe", "publishing")' /\ requests'[r].sub = now
    BY <1>0, <1>2 DEF SubscribeSave, Goes, At
  <2>3. CASE s = now
    BY <2>1, <2>2, <2>3 DEF Goal, Created
  <2>4. CASE s # now
    BY <2>1, <2>4 DEF Goal
  <2>. QED  BY <2>3, <2>4
<1>3. ASSUME NEW r \in Request, PauseWrite(r)  PROVE Goal
  <2>1. table' = [i \in DOMAIN table |->
                   IF i = requests[r].sub
                   THEN [table[requests[r].sub] EXCEPT !.status = "paused"] ELSE table[i]]
    BY <1>3 DEF PauseWrite, PauseAnswer, UpdateSubscription
  <2>2. AskedToPause(requests'[r], requests[r].sub)
    BY <1>0, <1>3 DEF PauseWrite, PauseAnswer, Goes, AskedToPause
  <2>3. s \in DOMAIN table /\ table[s] \in SubscriptionRecord
    BY <1>0, <2>1 DEF IsTable
  <2>4. CASE s = requests[r].sub
    BY <2>1, <2>2, <2>3, <2>4 DEF Goal, Paused, SubscriptionRecord
  <2>5. CASE s # requests[r].sub
    BY <2>1, <2>3, <2>5 DEF Goal
  <2>. QED  BY <2>4, <2>5
<1>4. ASSUME NEW r \in Request, ResumeWrite(r)  PROVE Goal
  <2>1. table' = [i \in DOMAIN table |->
                   IF i = requests[r].sub
                   THEN [table[requests[r].sub] EXCEPT !.status = "active", !.failure_count = 0]
                   ELSE table[i]]
    BY <1>4 DEF ResumeWrite, ResumeAnswer, UpdateSubscription
  <2>2. At(r, "resume", "writing") /\ requests'[r].sub = requests[r].sub
    BY <1>0, <1>4 DEF ResumeWrite, ResumeAnswer, Goes
  <2>3. s \in DOMAIN table /\ table[s] \in SubscriptionRecord
    BY <1>0, <2>1 DEF IsTable
  <2>4. CASE s = requests[r].sub
    BY <2>1, <2>2, <2>3, <2>4 DEF Goal, Resumed, SubscriptionRecord
  <2>5. CASE s # requests[r].sub
    BY <2>1, <2>3, <2>5 DEF Goal
  <2>. QED  BY <2>4, <2>5
<1>5. ASSUME NEW r \in Request, NEW id \in SubId, UnsubscribeDelete(r, id)  PROVE Goal
  BY <1>5 DEF UnsubscribeDelete, DeleteSubscription, Goal
<1>6. ASSUME NEW k \in DeliveryId, WriteRecord(k)  PROVE Goal
  <2>. DEFINE d == deliveries[k]
  <2>1. table' = [i \in DOMAIN table |->
                   IF i = k[2] THEN IF d.won THEN AfterSuccess(table[k[2]])
                                    ELSE AfterFailure(table[k[2]], d.seen)
                   ELSE table[i]]
    BY <1>6 DEF WriteRecord, Report, UpdateSubscription
  <2>2. s \in DOMAIN table /\ table[s] \in SubscriptionRecord
    BY <1>0, <2>1 DEF IsTable
  <2>3. CASE s # k[2]
    BY <2>1, <2>2, <2>3 DEF Goal
  <2>4. CASE s = k[2] /\ d.won
    <3>1. /\ k \in DOMAIN deliveries /\ d.pc = "writing"
          /\ deliveries' = [deliveries EXCEPT ![k] = Written(@)]
      BY <1>6, <2>4 DEF WriteRecord, Report, Written
    <3>2. table'[s].failure_count = 0 /\ table'[s].status = table[s].status
      BY <2>1, <2>2, <2>4 DEF AfterSuccess, SubscriptionRecord
    <3>. QED  BY <2>2, <2>4, <3>1, <3>2 DEF Goal, Succeeded
  <2>5. CASE s = k[2] /\ ~d.won
    <3>1. k \in DOMAIN deliveries /\ d.pc = "writing"
      BY <1>6 DEF WriteRecord, Report
    <3>2. deliveries' = [deliveries EXCEPT ![k] = Written(@)]
      BY <1>6, <2>5 DEF WriteRecord, Report, Written
    <3>3. table'[s] = AfterFailure(table[s], d.seen)
      BY <2>1, <2>2, <2>5
    <3>4. /\ table'[s].failure_count = d.seen + 1
          /\ table'[s].status = IF d.seen + 1 >= PauseAfterFailures
                                THEN "paused" ELSE table[s].status
      BY <2>2, <3>3 DEF AfterFailure, SubscriptionRecord
    <3>5. Failed(s)
      BY <2>2, <2>5, <3>1, <3>2, <3>4 DEF Failed
    <3>. QED  BY <3>5 DEF Goal
  <2>. QED  BY <2>3, <2>4, <2>5
<1>7. CASE Dispatching
  BY <1>1, <1>6, <1>7
     DEF Dispatching, DispatcherStep, ListSubscriptions, FanOut, Wake, Answer, ReadRecord, Report
<1>8. CASE Serving
  <2>1. PICK r \in Request : RequestArrives(r) \/ RequestContinues(r)
    BY <1>8 DEF Serving
  <2>2. CASE RequestArrives(r)
    BY <1>1, <1>2, <1>5, <2>2
       DEF RequestArrives, SubscribeRefused, PauseRead, ResumeRead, TestRead, RedeliverRead
  <2>3. CASE RequestContinues(r)
    BY <1>1, <1>3, <1>4, <2>3
       DEF RequestContinues, SubscribePublish, PauseAnswer, ResumeAnswer, TestPublish,
           UnsubscribePublish, RedeliverFind, RedeliverPublish
  <2>. QED  BY <2>1, <2>2, <2>3
<1>. QED
  BY <1>1, <1>7, <1>8 DEF Next, vars, PublishEvent, Clock, Shutdown, Stop, Crash, LoseDelivery

(***************************************************************************)
(* A count waits to be written only because it was just read.              *)
(***************************************************************************)
LEMMA WritingSteps ==
  ASSUME TypeOK, [Next]_vars, NEW k \in DOMAIN deliveries', deliveries'[k].pc = "writing"
  PROVE  /\ k \in DOMAIN deliveries
         /\ \/ deliveries'[k] = deliveries[k]
            \/ /\ k[2] \in DOMAIN table
               /\ deliveries'[k].seen = table[k[2]].failure_count
<1>. DEFINE Goal == /\ k \in DOMAIN deliveries
                    /\ \/ deliveries'[k] = deliveries[k]
                       \/ /\ k[2] \in DOMAIN table
                          /\ deliveries'[k].seen = table[k[2]].failure_count
<1>. SUFFICES Goal
  OBVIOUS
<1>0. \A j \in DOMAIN deliveries : deliveries[j] \in Delivery
  BY DEF TypeOK, DispatcherTypeOK
<1>1. \A d \in Delivery : d.pc # "writing" => AttemptOrAbort(d).pc # "writing"
  BY DEF AttemptOrAbort, Settle, Delivery
<1>2. ASSUME NEW d \in Delivery, d.pc # "writing", NEW n \in 1 .. MaxAttempts + 1
      PROVE  EnterLoop(d, n).pc # "writing"
  <2>1. MaxAttempts \in Nat
    BY DispatcherAssumption DEF MaxAttempts
  <2>2. CASE n > MaxAttempts
    BY <2>2 DEF EnterLoop, Delivery
  <2>3. CASE n \in 1 .. MaxAttempts
    <3>1. [d EXCEPT !.attempt = n] \in Delivery /\ [d EXCEPT !.attempt = n].pc # "writing"
      BY <1>2, <2>3 DEF Delivery
    <3>2. [d EXCEPT !.pc = "asleep", !.attempt = n].pc # "writing"
      BY DEF Delivery
    <3>3. ~(n > MaxAttempts)
      BY <2>1, <2>3
    <3>. QED  BY <1>1, <3>1, <3>2, <3>3 DEF EnterLoop
  <2>. QED  BY <2>1, <2>2, <2>3
<1>3. CASE UNCHANGED deliveries
  BY <1>3
<1>4. ASSUME NEW id \in DispatchId, FanOut(id)  PROVE Goal
  <2>1. CASE k \in DOMAIN deliveries
    BY <1>4, <2>1 DEF FanOut
  <2>2. CASE k \notin DOMAIN deliveries
    <3>. DEFINE rec == dispatches[id].snapshot[k[2]]
    <3>1. rec \in SubscriptionRecord
      <4>1. k[2] \in DOMAIN dispatches[id].snapshot
        BY <1>4, <2>2 DEF FanOut, Targets
      <4>2. IsTable(dispatches[id].snapshot)
        BY <1>4 DEF FanOut, TypeOK, DispatcherTypeOK, EventBusTypeOK, IsDispatch
      <4>. QED  BY <4>1, <4>2 DEF IsTable
    <3>2. 1 \in 1 .. MaxAttempts /\ 1 \in 1 .. MaxAttempts + 1
      BY DispatcherAssumption DEF MaxAttempts
    <3>3. NewDelivery(rec) \in Delivery /\ NewDelivery(rec).pc # "writing"
      BY <3>1, <3>2 DEF NewDelivery, Delivery
    <3>4. deliveries'[k] = EnterLoop(NewDelivery(rec), 1)
      BY <1>4, <2>2 DEF FanOut
    <3>. QED  BY <1>2, <3>2, <3>3, <3>4
  <2>. QED  BY <2>1, <2>2
<1>5. ASSUME NEW j \in DeliveryId,
             \/ Wake(j) \/ Answer(j) \/ ReadRecord(j) \/ WriteRecord(j) \/ Report(j)
      PROVE  Goal
  <2>. DEFINE d == deliveries[j]
  <2>1. j \in DOMAIN deliveries /\ d \in Delivery
    BY <1>0, <1>5 DEF Wake, Answer, ReadRecord, WriteRecord, Report
  <2>2. CASE k # j
    BY <1>5, <2>2 DEF Wake, Answer, ReadRecord, WriteRecord, Report
  <2>3. CASE k = j /\ Wake(j)
    BY <1>1, <2>1, <2>3 DEF Wake
  <2>4. CASE k = j /\ Answer(j)
    <3>1. d.attempt + 1 \in 1 .. MaxAttempts + 1 /\ d.pc # "writing"
      BY <2>1, <2>4, DispatcherAssumption DEF Delivery, MaxAttempts, Answer
    <3>2. EnterLoop(d, d.attempt + 1).pc # "writing"
      BY <1>2, <2>1, <3>1
    <3>3. [d EXCEPT !.pc = "reading", !.won = TRUE].pc # "writing"
      BY <2>1 DEF Delivery
    <3>. QED  BY <2>1, <2>4, <3>2, <3>3 DEF Answer
  <2>5. CASE k = j /\ ReadRecord(j)
    <3>1. Settle(d, Outcome(d)).pc # "writing"
      BY <2>1 DEF Settle, Delivery
    <3>2. /\ ~NothingToWrite(j)
          /\ deliveries'[j] = [d EXCEPT !.pc = "writing", !.seen = table[j[2]].failure_count]
      BY <2>1, <2>5, <3>1 DEF ReadRecord, Report
    <3>3. j[2] \in DOMAIN table
      BY <3>2 DEF NothingToWrite
    <3>. QED  BY <2>1, <2>5, <3>2, <3>3 DEF Delivery
  <2>6. CASE k = j /\ (WriteRecord(j) \/ Report(j))
    <3>1. Settle(d, Outcome(d)).pc # "writing" /\ Written(d).pc # "writing"
      BY <2>1 DEF Settle, Written, Delivery
    <3>. QED  BY <2>1, <2>6, <3>1 DEF WriteRecord, Written, Report
  <2>. QED  BY <1>5, <2>2, <2>3, <2>4, <2>5, <2>6
<1>6. CASE Crash
  <2>1. \A d \in Delivery : LoseDelivery(d).pc # "writing"
    BY DEF LoseDelivery, Settle, Delivery
  <2>. QED  BY <1>0, <1>6, <2>1 DEF Crash, LoseDelivery
<1>7. CASE Dispatching
  BY <1>3, <1>4, <1>5, <1>7 DEF Dispatching, DispatcherStep, ListSubscriptions
<1>8. CASE UNCHANGED vars \/ Serving \/ Clock \/ Shutdown \/ \E e \in AppEvent : PublishEvent(e)
  BY <1>3, <1>8 DEF vars, Serving, Clock, Shutdown, Stop, PublishEvent
<1>. QED  BY <1>6, <1>7, <1>8 DEF Next

LEMMA ReadsKept ==
  ASSUME IInv, [Next]_vars
  PROVE  CountsReadWereEarned'
<1>1. ASSUME NEW k \in DOMAIN deliveries', deliveries'[k].pc = "writing"
      PROVE  deliveries'[k].seen <= FailedDeliveries(k[2])'
  <2>1. k \in DOMAIN deliveries /\ deliveries[k] \in Delivery /\ IsTable(table)
    BY <1>1, WritingSteps DEF IInv, TypeOK, DispatcherTypeOK, SubscriptionsTypeOK
  <2>2. /\ FailedDeliveries(k[2]) \in Nat /\ FailedDeliveries(k[2])' \in Nat
        /\ FailedDeliveries(k[2]) <= FailedDeliveries(k[2])'
    BY FailuresGrow
  <2>3. CASE deliveries'[k] = deliveries[k]
    <3>1. deliveries[k].seen \in Nat /\ deliveries[k].seen <= FailedDeliveries(k[2])
      BY <1>1, <2>1, <2>3 DEF IInv, CountsReadWereEarned, Delivery
    <3>. QED  BY <2>2, <2>3, <3>1
  <2>4. CASE k[2] \in DOMAIN table /\ deliveries'[k].seen = table[k[2]].failure_count
    <3>1. /\ table[k[2]].failure_count \in Nat
          /\ table[k[2]].failure_count <= FailedDeliveries(k[2])
      BY <2>1, <2>4 DEF IInv, CounterNeverOvercounts, IsTable, SubscriptionRecord
    <3>. QED  BY <2>2, <2>4, <3>1
  <2>. QED  BY <1>1, <2>3, <2>4, WritingSteps DEF IInv
<1>. QED  BY <1>1 DEF CountsReadWereEarned

(***************************************************************************)
(* The write of recordFailure is the step that puts the failure on record. *)
(***************************************************************************)
LEMMA FailureCounted ==
  ASSUME IInv, [Next]_vars, NEW s, Failed(s)
  PROVE  \E n \in Nat : /\ table'[s].failure_count = n + 1
                        /\ n + 1 <= FailedDeliveries(s)'
                        /\ table'[s].status = IF n + 1 >= PauseAfterFailures
                                              THEN "paused" ELSE table[s].status
<1>1. PICK k \in DOMAIN deliveries :
       /\ deliveries[k].pc = "writing" /\ ~deliveries[k].won /\ k[2] = s
       /\ deliveries' = [deliveries EXCEPT ![k] = Written(@)]
       /\ table'[s].failure_count = deliveries[k].seen + 1
       /\ table'[s].status = IF deliveries[k].seen + 1 >= PauseAfterFailures
                             THEN "paused" ELSE table[s].status
  BY DEF Failed
<1>2. deliveries[k] \in Delivery /\ deliveries[k].seen \in Nat
  BY DEF IInv, TypeOK, DispatcherTypeOK, Delivery
<1>3. deliveries[k].seen <= FailedDeliveries(s)
  BY <1>1 DEF IInv, CountsReadWereEarned
<1>. DEFINE failed == Ended(s, FALSE)
<1>4. k \notin failed
  BY <1>1 DEF IInv, PendingUntilSettled, Settled, Ended, OnRecord
<1>5. failed \cup {k} \subseteq failed'
  <2>1. k \in failed'
    BY <1>1, <1>2 DEF Ended, OnRecord, Written, Delivery
  <2>. QED  BY <2>1, EndedGrow
<1>6. failed \in SUBSET DeliveryId /\ failed' \in SUBSET DeliveryId
  BY EndedGrow
<1>7. Cardinality(failed \cup {k}) = Cardinality(failed) + 1
  BY <1>4, <1>6, FiniteDeliveries, FS_AddElement
<1>8. Cardinality(failed \cup {k}) <= Cardinality(failed')
  BY <1>5, <1>6, FiniteDeliveries, FS_Subset
<1>9. FailedDeliveries(s) \in Nat /\ FailedDeliveries(s)' \in Nat
  BY <1>6, FiniteDeliveries DEF FailedDeliveries
<1>10. FailedDeliveries(s) + 1 <= FailedDeliveries(s)'
  BY <1>7, <1>8 DEF FailedDeliveries
<1>11. deliveries[k].seen + 1 <= FailedDeliveries(s)'
  BY <1>2, <1>3, <1>9, <1>10
<1>. QED  BY <1>1, <1>2, <1>11

LEMMA CounterKept ==
  ASSUME IInv, [Next]_vars
  PROVE  CounterNeverOvercounts'
<1>1. ASSUME NEW s \in DOMAIN table'
      PROVE  table'[s].failure_count <= FailedDeliveries(s)'
  <2>1. TypeOK /\ IsTable(table)
    BY DEF IInv, TypeOK, SubscriptionsTypeOK
  <2>2. /\ FailedDeliveries(s) \in Nat /\ FailedDeliveries(s)' \in Nat
        /\ FailedDeliveries(s) <= FailedDeliveries(s)'
    BY FailuresGrow
  <2>3. CASE s \in DOMAIN table /\ table'[s].failure_count = table[s].failure_count
    <3>1. /\ table[s].failure_count \in Nat
          /\ table[s].failure_count <= FailedDeliveries(s)
      BY <2>1, <2>3 DEF IInv, CounterNeverOvercounts, IsTable, SubscriptionRecord
    <3>. QED  BY <2>2, <2>3, <3>1
  <2>4. CASE table'[s].failure_count = 0
    BY <2>2, <2>4
  <2>5. CASE Failed(s)
    BY <2>5, FailureCounted
  <2>. QED
    BY <1>1, <2>1, <2>3, <2>4, <2>5, TableSteps DEF Created, Resumed, Paused, Succeeded
<1>. QED  BY <1>1 DEF CounterNeverOvercounts

(***************************************************************************)
(* A pause request that wrote to the table has done so for good.           *)
(***************************************************************************)
LEMMA AskedKept ==
  ASSUME TypeOK, [Next]_vars, NEW r \in Request, NEW s, AskedToPause(requests[r], s)
  PROVE  AskedToPause(requests'[r], s)
<1>0. /\ requests \in [Request -> Handler]
      /\ requests[r].pc \in {"answering", "unanswered", "done"}
  BY DEF TypeOK, ServerTypeOK, AskedToPause
<1>1. CASE UNCHANGED requests
  BY <1>1
<1>2. CASE Serving
  <2>1. PICK q \in Request : RequestArrives(q) \/ RequestContinues(q)
    BY <1>2 DEF Serving
  <2>2. CASE q # r
    <3>1. \/ \E op, t, pc, ids : Goes(q, op, t, pc, ids)
          \/ \E op, t, code : Answers(q, op, t, code)
      <4>1. CASE RequestArrives(q)
        BY <4>1 DEF RequestArrives, SubscribeRefused, SubscribeSave, PauseRead, ResumeRead,
                    TestRead, UnsubscribeDelete, RedeliverRead
      <4>2. CASE RequestContinues(q)
        BY <4>2 DEF RequestContinues, SubscribePublish, PauseWrite, ResumeWrite, PauseAnswer,
                    ResumeAnswer, TestPublish, UnsubscribePublish, RedeliverFind,
                    RedeliverPublish, Republishes
      <4>. QED  BY <2>1, <4>1, <4>2
    <3>. QED  BY <1>0, <2>2, <3>1 DEF Goes, Answers
  <2>3. CASE q = r
    <3>1. PauseAnswer(r)
      BY <1>0, <2>1, <2>3
         DEF RequestArrives, RequestContinues, At, Idle, SubscribeRefused, SubscribeSave,
             SubscribePublish, PauseRead, PauseWrite, PauseAnswer, ResumeRead, ResumeWrite,
             ResumeAnswer, TestRead, TestPublish, UnsubscribeDelete, UnsubscribePublish,
             RedeliverRead, RedeliverFind, RedeliverPublish, AskedToPause
    <3>. QED  BY <1>0, <3>1 DEF PauseAnswer, Answers, AskedToPause
  <2>. QED  BY <2>2, <2>3
<1>3. CASE Crash
  <2>1. requests'[r] = IF requests[r].pc = "answering"
                       THEN [requests[r] EXCEPT !.pc = "unanswered"] ELSE requests[r]
    BY <1>0, <1>3 DEF Crash, LoseDelivery, LoseHandler
  <2>2. requests[r] \in Handler
    BY <1>0
  <2>. QED  BY <2>1, <2>2 DEF AskedToPause, Handler
<1>. QED
  BY <1>1, <1>2, <1>3
     DEF Next, vars, PublishEvent, Dispatching, Clock, Shutdown

LEMMA PauseKept ==
  ASSUME IInv, [Next]_vars
  PROVE  PauseJustified'
<1>. DEFINE OnRequest(s) == \E r \in Request : AskedToPause(requests[r], s)
<1>1. ASSUME NEW s \in DOMAIN table', table'[s].status = "paused"
      PROVE  \/ \E r \in Request : AskedToPause(requests'[r], s)
             \/ FailedDeliveries(s)' >= PauseAfterFailures
  <2>1. TypeOK
    BY DEF IInv
  <2>2. /\ FailedDeliveries(s) \in Nat /\ FailedDeliveries(s)' \in Nat
        /\ FailedDeliveries(s) <= FailedDeliveries(s)' /\ PauseAfterFailures \in Nat
    BY FailuresGrow, DispatcherAssumption
  <2>3. CASE s \in DOMAIN table /\ table[s].status = "paused"
    <3>1. OnRequest(s) \/ FailedDeliveries(s) >= PauseAfterFailures
      BY <2>3 DEF IInv, PauseJustified
    <3>2. CASE OnRequest(s)
      BY <2>1, <3>2, AskedKept
    <3>3. CASE FailedDeliveries(s) >= PauseAfterFailures
      BY <2>2, <3>3
    <3>. QED  BY <3>1, <3>2, <3>3
  <2>4. CASE Paused(s)
    BY <2>4 DEF Paused
  <2>5. CASE Failed(s)
    <3>1. PICK n \in Nat : /\ n + 1 <= FailedDeliveries(s)'
                           /\ table'[s].status = IF n + 1 >= PauseAfterFailures
                                                 THEN "paused" ELSE table[s].status
      BY <2>5, FailureCounted
    <3>2. CASE n + 1 >= PauseAfterFailures
      BY <2>2, <3>1, <3>2
    <3>3. CASE ~(n + 1 >= PauseAfterFailures)
      BY <1>1, <2>3, <2>5, <3>1, <3>3 DEF Failed
    <3>. QED  BY <3>2, <3>3
  <2>6. CASE Created(s) \/ Resumed(s)
    BY <1>1, <2>6 DEF Created, Resumed
  <2>. QED
    BY <1>1, <2>1, <2>3, <2>4, <2>5, <2>6, TableSteps DEF Succeeded
<1>. QED  BY <1>1 DEF PauseJustified

LEMMA InitIInv == Init => IInv
<1>. SUFFICES ASSUME Init PROVE IInv
  OBVIOUS
<1>1. TypeOK
  BY InitType
<1>2. PendingUntilSettled /\ CountsReadWereEarned
  BY DEF Init, DispatcherInit, PendingUntilSettled, CountsReadWereEarned
<1>3. \A s \in DOMAIN table : table[s].status = "active" /\ table[s].failure_count = 0
  BY SubscriptionsAssumption DEF Init
<1>4. \A s : FailedDeliveries(s) \in Nat
  BY <1>1, FiniteDeliveries DEF FailedDeliveries, Ended, TypeOK, DispatcherTypeOK
<1>5. CounterNeverOvercounts /\ PauseJustified
  BY <1>3, <1>4 DEF CounterNeverOvercounts, PauseJustified
<1>. QED  BY <1>1, <1>2, <1>5 DEF IInv

LEMMA NextIInv == IInv /\ [Next]_vars => IInv'
<1>. SUFFICES ASSUME IInv, [Next]_vars PROVE IInv'
  OBVIOUS
<1>1. TypeOK'
  BY NextType DEF IInv
<1>. QED  BY <1>1, PendingKept, ReadsKept, CounterKept, PauseKept DEF IInv

LEMMA Invariance == Spec => []IInv
BY InitIInv, NextIInv, PTL DEF Spec

(***************************************************************************)
(* The counter of a subscription never exceeds the number of its exhausted *)
(* deliveries, however recordFailure and recordSuccess interleave, and     *)
(* whatever requests, stops and crashes come between.                      *)
(***************************************************************************)
THEOREM NeverOvercounts == Spec => []CounterNeverOvercounts
BY Invariance, PTL DEF IInv

(***************************************************************************)
(* A paused subscription was paused on request, or after at least          *)
(* PauseAfterFailures exhausted deliveries.                                *)
(***************************************************************************)
THEOREM PausesAreJustified == Spec => []PauseJustified
BY Invariance, PTL DEF IInv

(***************************************************************************)
(* Only a subscribe request brings an identifier into the table.           *)
(***************************************************************************)
THEOREM OnlySubscribeCreatesHolds == Spec => OnlySubscribeCreates
<1>1. TypeOK /\ [Next]_vars =>
        [\A s \in DOMAIN table' \ DOMAIN table :
           \E r \in Request : At(r, "subscribe", "publishing")' /\ requests'[r].sub = s]_vars
  BY TableSteps DEF Created, Resumed, Paused, Succeeded, Failed
<1>. QED  BY <1>1, TypeCorrect, PTL DEF OnlySubscribeCreates, Spec

(***************************************************************************)
(* Only a resume, or a subscribe that reuses the identifier, makes a       *)
(* paused subscription active again.                                       *)
(***************************************************************************)
THEOREM OnlyResumeReactivatesHolds == Spec => OnlyResumeReactivates
<1>1. ASSUME TypeOK, [Next]_vars, NEW s \in DOMAIN table \cap DOMAIN table',
             table[s].status = "paused", table'[s].status = "active"
      PROVE  \E r \in Request : /\ requests'[r].sub = s
                                /\ \/ At(r, "resume", "writing")
                                   \/ At(r, "subscribe", "publishing")'
  BY <1>1, TableSteps DEF Created, Resumed, Paused, Succeeded, Failed
<1>2. TypeOK /\ [Next]_vars =>
        [\A s \in DOMAIN table \cap DOMAIN table' :
           table[s].status = "paused" /\ table'[s].status = "active" =>
             \E r \in Request :
               /\ requests'[r].sub = s
               /\ \/ At(r, "resume", "writing")
                  \/ At(r, "subscribe", "publishing")']_vars
  BY <1>1
<1>. QED  BY <1>2, TypeCorrect, PTL DEF OnlyResumeReactivates, Spec

-----------------------------------------------------------------------------
(***************************************************************************)
(* The delivery log against the reported results, and what a stopped       *)
(* dispatcher may not do, for every schedule and every interleaving.       *)
(*                                                                         *)
(* LogTellsOutcome is not inductive: it says nothing of a delivery that is *)
(* still in its retry loop.  There every entry must be an interim failure  *)
(* of an earlier attempt, and no attempt may count as won.                 *)
(***************************************************************************)
InLoop(d) == d.pc \in {"asleep", "posting"}

DeliveryFits(d) ==
  /\ InLoop(d) \/ d.result = "failed" => ~d.won
  /\ d.result = "pending" <=> d.pc # "settled"

EntryFits(d, x) ==
  /\ x.attempt <= d.attempt
  /\ InLoop(d) => x.final_status = "failed" /\ x.attempt < d.attempt
  /\ x.final_status = "delivered" =>
       d.won /\ x.attempt = d.attempt /\ d.result # "failed"
  /\ x.final_status = "undeliverable" =>
       /\ x.attempt = MaxAttempts /\ ~d.won
       /\ d.result \in {"pending", "failed", "unreported", "lost"}
  /\ x.final_status = "failed" => x.attempt < MaxAttempts

LogInv ==
  /\ \A k \in DOMAIN deliveries : DeliveryFits(deliveries[k])
  /\ \A x \in deliveryLog :
       x.delivery \in DOMAIN deliveries /\ EntryFits(deliveries[x.delivery], x)

LEMMA MaxAttemptsType == MaxAttempts \in Nat \ {0}
BY DispatcherAssumption DEF MaxAttempts

(***************************************************************************)
(* One delivery moves, with the entries that are about it.                 *)
(***************************************************************************)
LEMMA SettleFits ==
  ASSUME NEW d \in Delivery, DeliveryFits(d), d.pc # "settled",
         NEW outcome \in {"delivered", "failed", "aborted", "unreported", "lost"},
         outcome = "failed" => ~d.won, outcome = "delivered" => d.won,
         outcome = "aborted" => InLoop(d)
  PROVE  /\ DeliveryFits(Settle(d, outcome))
         /\ \A x \in LogEntry : EntryFits(d, x) => EntryFits(Settle(d, outcome), x)
<1>. DEFINE e == Settle(d, outcome)
<1>1. /\ e.pc = "settled" /\ e.result = outcome /\ e.won = d.won /\ e.attempt = d.attempt
  BY DEF Settle, Delivery
<1>. HIDE DEF e
<1>2. DeliveryFits(e)
  BY <1>1 DEF DeliveryFits, InLoop
<1>3. ASSUME NEW x \in LogEntry, EntryFits(d, x)  PROVE EntryFits(e, x)
  BY <1>1, <1>3 DEF EntryFits, InLoop, DeliveryFits
<1>. QED  BY <1>2, <1>3 DEF e

LEMMA AttemptFits ==
  ASSUME NEW d \in Delivery, DeliveryFits(d), InLoop(d)
  PROVE  /\ DeliveryFits(AttemptOrAbort(d))
         /\ \A x \in LogEntry : EntryFits(d, x) => EntryFits(AttemptOrAbort(d), x)
<1>1. CASE stopped
  BY <1>1, SettleFits DEF AttemptOrAbort, InLoop
<1>2. CASE ~stopped
  <2>. DEFINE e == [d EXCEPT !.pc = "posting"]
  <2>1. e.pc = "posting" /\ e.result = d.result /\ e.won = d.won /\ e.attempt = d.attempt
    BY DEF Delivery
  <2>2. AttemptOrAbort(d) = e
    BY <1>2 DEF AttemptOrAbort
  <2>. HIDE DEF e
  <2>3. DeliveryFits(e)
    BY <2>1 DEF DeliveryFits, InLoop
  <2>4. ASSUME NEW x \in LogEntry, EntryFits(d, x)  PROVE EntryFits(e, x)
    BY <2>1, <2>4 DEF EntryFits, InLoop
  <2>. QED  BY <2>2, <2>3, <2>4
<1>. QED  BY <1>1, <1>2

LEMMA LoopFits ==
  ASSUME NEW d \in Delivery, DeliveryFits(d), InLoop(d), NEW n \in 1 .. MaxAttempts + 1,
         n > MaxAttempts => d.attempt = MaxAttempts
  PROVE  /\ DeliveryFits(EnterLoop(d, n))
         /\ \A x \in LogEntry :
              /\ x.attempt < n
              /\ \/ x.final_status = "failed" /\ x.attempt < MaxAttempts
                 \/ x.final_status = "undeliverable" /\ x.attempt = MaxAttempts
              => EntryFits(EnterLoop(d, n), x)
<1>. USE MaxAttemptsType
<1>1. CASE n > MaxAttempts
  <2>. DEFINE e == [d EXCEPT !.pc = "reading", !.won = FALSE]
  <2>1. e.pc = "reading" /\ e.result = "pending" /\ e.won = FALSE /\ e.attempt = MaxAttempts
    BY <1>1 DEF Delivery, DeliveryFits, InLoop
  <2>2. EnterLoop(d, n) = e
    BY <1>1 DEF EnterLoop
  <2>. HIDE DEF e
  <2>3. DeliveryFits(e)
    BY <2>1 DEF DeliveryFits, InLoop
  <2>4. \A x \in LogEntry : x.attempt \in 1 .. MaxAttempts
    BY DEF LogEntry
  <2>. QED  BY <2>1, <2>2, <2>3, <2>4 DEF EntryFits, InLoop
<1>2. CASE n \in 1 .. MaxAttempts
  <2>. DEFINE e == [d EXCEPT !.attempt = n]
              f == [d EXCEPT !.pc = "asleep", !.attempt = n]
  <2>1. /\ e \in Delivery /\ e.pc = d.pc /\ e.result = d.result /\ e.won = d.won
        /\ e.attempt = n
    BY <1>2 DEF Delivery
  <2>2. f.pc = "asleep" /\ f.result = d.result /\ f.won = d.won /\ f.attempt = n
    BY DEF Delivery
  <2>3. EnterLoop(d, n) = f \/ EnterLoop(d, n) = AttemptOrAbort(e)
    BY <1>2 DEF EnterLoop
  <2>. HIDE DEF e, f
  <2>4. InLoop(e) /\ DeliveryFits(e) /\ InLoop(f) /\ DeliveryFits(f)
    BY <2>1, <2>2 DEF DeliveryFits, InLoop
  <2>5. ASSUME NEW x \in LogEntry, x.attempt < n,
               \/ x.final_status = "failed" /\ x.attempt < MaxAttempts
               \/ x.final_status = "undeliverable" /\ x.attempt = MaxAttempts
        PROVE  EntryFits(e, x) /\ EntryFits(f, x)
    <3>1. x.attempt \in 1 .. MaxAttempts /\ x.final_status = "failed"
      BY <1>2, <2>5 DEF LogEntry
    <3>. QED  BY <1>2, <2>1, <2>2, <2>5, <3>1 DEF EntryFits
  <2>6. /\ DeliveryFits(AttemptOrAbort(e))
        /\ \A x \in LogEntry : EntryFits(e, x) => EntryFits(AttemptOrAbort(e), x)
    BY <2>1, <2>4, AttemptFits
  <2>. QED  BY <2>3, <2>4, <2>5, <2>6
<1>. QED  BY <1>1, <1>2

LEMMA NewFits ==
  ASSUME NEW rec \in SubscriptionRecord
  PROVE  DeliveryFits(EnterLoop(NewDelivery(rec), 1))
<1>1. 1 \in 1 .. MaxAttempts /\ 1 \in 1 .. MaxAttempts + 1 /\ ~(1 > MaxAttempts)
  BY MaxAttemptsType
<1>2. NewDelivery(rec) \in Delivery /\ InLoop(NewDelivery(rec)) /\ DeliveryFits(NewDelivery(rec))
  BY <1>1 DEF NewDelivery, Delivery, InLoop, DeliveryFits
<1>. QED  BY <1>1, <1>2, LoopFits

(***************************************************************************)
(* The invariant when only the delivery k moves, to d, and the log at most *)
(* gains the entry y.                                                      *)
(***************************************************************************)
LEMMA OneMoves ==
  ASSUME TypeOK, LogInv, NEW k \in DOMAIN deliveries, NEW d, DeliveryFits(d),
         deliveries' = [deliveries EXCEPT ![k] = d],
         \A x \in LogEntry : EntryFits(deliveries[k], x) => EntryFits(d, x),
         \/ UNCHANGED deliveryLog
         \/ \E y \in LogEntry : /\ y.delivery = k /\ EntryFits(d, y)
                                /\ deliveryLog' = deliveryLog \cup {y}
  PROVE  LogInv'
<1>1. deliveryLog \subseteq LogEntry
  BY DEF TypeOK, DispatcherTypeOK
<1>2. \A j \in DOMAIN deliveries' : DeliveryFits(deliveries'[j])
  BY DEF LogInv
<1>3. ASSUME NEW x \in deliveryLog
      PROVE  x.delivery \in DOMAIN deliveries' /\ EntryFits(deliveries'[x.delivery], x)
  BY <1>1 DEF LogInv
<1>4. ASSUME NEW x \in deliveryLog'
      PROVE  x.delivery \in DOMAIN deliveries' /\ EntryFits(deliveries'[x.delivery], x)
  BY <1>3
<1>5. \A j \in DOMAIN deliveries' : DeliveryFits(deliveries[j])'
  BY <1>2 DEF DeliveryFits, InLoop
<1>6. \A x \in deliveryLog' :
        x.delivery \in DOMAIN deliveries' /\ EntryFits(deliveries[x.delivery], x)'
  BY <1>4 DEF EntryFits, InLoop
<1>. QED  BY <1>5, <1>6 DEF LogInv

LEMMA DispatchingKeepsLog ==
  ASSUME TypeOK, LogInv, Dispatching
  PROVE  LogInv'
<1>0. \A k \in DOMAIN deliveries : deliveries[k] \in Delivery /\ DeliveryFits(deliveries[k])
  BY DEF TypeOK, DispatcherTypeOK, LogInv
<1>1. ASSUME NEW id \in DispatchId, ListSubscriptions(id)  PROVE LogInv'
  BY <1>1 DEF ListSubscriptions, LogInv, DeliveryFits, EntryFits, InLoop
<1>2. ASSUME NEW id \in DispatchId, FanOut(id)  PROVE LogInv'
  <2>1. ASSUME NEW k \in DOMAIN deliveries'  PROVE DeliveryFits(deliveries'[k])
    <3>1. CASE k \in DOMAIN deliveries
      BY <1>0, <1>2, <3>1 DEF FanOut
    <3>2. CASE k \notin DOMAIN deliveries
      <4>1. k[2] \in DOMAIN dispatches[id].snapshot
        BY <1>2, <2>1, <3>2 DEF FanOut, Targets
      <4>2. IsTable(dispatches[id].snapshot)
        BY <1>2 DEF FanOut, TypeOK, DispatcherTypeOK, EventBusTypeOK, IsDispatch
      <4>3. dispatches[id].snapshot[k[2]] \in SubscriptionRecord
        BY <4>1, <4>2 DEF IsTable
      <4>. QED  BY <1>2, <2>1, <3>2, <4>3, NewFits DEF FanOut
    <3>. QED  BY <3>1, <3>2
  <2>2. \A x \in deliveryLog :
          x.delivery \in DOMAIN deliveries' /\ EntryFits(deliveries'[x.delivery], x)
    BY <1>2 DEF FanOut, LogInv
  <2>3. \A k \in DOMAIN deliveries' : DeliveryFits(deliveries[k])'
    BY <2>1 DEF DeliveryFits, InLoop
  <2>4. deliveryLog' = deliveryLog
    BY <1>2 DEF FanOut
  <2>5. \A x \in deliveryLog' :
          x.delivery \in DOMAIN deliveries' /\ EntryFits(deliveries[x.delivery], x)'
    BY <2>2, <2>4 DEF EntryFits, InLoop
  <2>. QED  BY <2>3, <2>5 DEF LogInv
<1>3. ASSUME NEW k \in DeliveryId, Wake(k)  PROVE LogInv'
  <2>1. k \in DOMAIN deliveries /\ InLoop(deliveries[k])
    BY <1>3 DEF Wake, InLoop
  <2>2. /\ DeliveryFits(AttemptOrAbort(deliveries[k]))
        /\ \A x \in LogEntry :
             EntryFits(deliveries[k], x) => EntryFits(AttemptOrAbort(deliveries[k]), x)
    BY <1>0, <2>1, AttemptFits
  <2>. QED  BY <1>3, <2>1, <2>2, OneMoves DEF Wake
<1>4. ASSUME NEW k \in DeliveryId, Answer(k)  PROVE LogInv'
  <2>. DEFINE d == deliveries[k]
              n == d.attempt + 1
              won == [d EXCEPT !.pc = "reading", !.won = TRUE]
              y(ok) == [delivery |-> k, attempt |-> d.attempt,
                        final_status |-> FinalStatus(ok, d.attempt)]
  <2>1. /\ k \in DOMAIN deliveries /\ d.pc = "posting" /\ d \in Delivery /\ DeliveryFits(d)
        /\ d.attempt \in 1 .. MaxAttempts
    BY <1>0, <1>4 DEF Answer, Delivery
  <2>2. /\ n \in 1 .. MaxAttempts + 1 /\ d.attempt < n
        /\ n > MaxAttempts => d.attempt = MaxAttempts
    BY <2>1, MaxAttemptsType
  <2>3. PICK ok \in BOOLEAN :
          /\ deliveries' = [deliveries EXCEPT ![k] = IF ok THEN won ELSE EnterLoop(d, n)]
          /\ deliveryLog' = deliveryLog \cup {y(ok)} \/ UNCHANGED deliveryLog
    BY <1>4 DEF Answer
  <2>4. /\ y(ok) \in LogEntry /\ y(ok).delivery = k /\ y(ok).attempt = d.attempt
        /\ y(ok).final_status = FinalStatus(ok, d.attempt)
    BY <2>1 DEF LogEntry, FinalStatus
  <2>5. /\ won.pc = "reading" /\ won.won = TRUE /\ won.attempt = d.attempt
        /\ won.result = "pending"
    BY <2>1 DEF Delivery, DeliveryFits
  <2>6. \A x \in LogEntry : EntryFits(d, x) =>
          x.attempt \in 1 .. MaxAttempts /\ x.attempt < d.attempt /\ x.final_status = "failed"
    BY <2>1 DEF EntryFits, InLoop, LogEntry
  <2>. HIDE DEF won, y, n
  <2>7. CASE ok
    <3>1. DeliveryFits(won)
      BY <2>5 DEF DeliveryFits, InLoop
    <3>2. \A x \in LogEntry : EntryFits(d, x) => EntryFits(won, x)
      BY <2>1, <2>5, <2>6, MaxAttemptsType DEF EntryFits, InLoop
    <3>3. EntryFits(won, y(ok))
      BY <2>1, <2>4, <2>5, <2>7 DEF EntryFits, InLoop, FinalStatus
    <3>4. deliveries' = [deliveries EXCEPT ![k] = won]
      BY <2>3, <2>7
    <3>. QED  BY <2>1, <2>3, <2>4, <3>1, <3>2, <3>3, <3>4, OneMoves
  <2>8. CASE ~ok
    <3>1. /\ DeliveryFits(EnterLoop(d, n))
          /\ \A x \in LogEntry :
               /\ x.attempt < n
               /\ \/ x.final_status = "failed" /\ x.attempt < MaxAttempts
                  \/ x.final_status = "undeliverable" /\ x.attempt = MaxAttempts
               => EntryFits(EnterLoop(d, n), x)
      <4>1. InLoop(d)
        BY <2>1 DEF InLoop
      <4>. QED  BY <2>1, <2>2, <4>1, LoopFits
    <3>2. ASSUME NEW x \in LogEntry, EntryFits(d, x)  PROVE EntryFits(EnterLoop(d, n), x)
      <4>1. x.attempt \in 1 .. MaxAttempts /\ x.attempt < d.attempt /\ x.final_status = "failed"
        BY <2>6, <3>2
      <4>2. x.attempt < n /\ x.attempt < MaxAttempts
        BY <2>1, <2>2, <4>1, MaxAttemptsType
      <4>. QED  BY <3>1, <4>1, <4>2
    <3>3. EntryFits(EnterLoop(d, n), y(ok))
      <4>1. \/ y(ok).final_status = "failed" /\ y(ok).attempt < MaxAttempts
            \/ y(ok).final_status = "undeliverable" /\ y(ok).attempt = MaxAttempts
        BY <2>1, <2>4, <2>8, MaxAttemptsType DEF FinalStatus
      <4>. QED  BY <2>2, <2>4, <3>1, <4>1
    <3>4. deliveries' = [deliveries EXCEPT ![k] = EnterLoop(d, n)]
      BY <2>3, <2>8
    <3>. QED  BY <2>1, <2>3, <2>4, <3>1, <3>2, <3>3, <3>4, OneMoves
  <2>. QED  BY <2>7, <2>8
<1>5. ASSUME NEW k \in DeliveryId, ReadRecord(k) \/ WriteRecord(k) \/ Report(k)
      PROVE  LogInv'
  <2>. DEFINE d == deliveries[k]
              e == [d EXCEPT !.pc = "writing", !.seen = table[k[2]].failure_count]
              f == [d EXCEPT !.pc = "reporting", !.seen = 0]
  <2>1. /\ k \in DOMAIN deliveries /\ d.pc \in {"reading", "writing", "reporting"}
        /\ d \in Delivery /\ DeliveryFits(d) /\ UNCHANGED deliveryLog
    BY <1>0, <1>5 DEF ReadRecord, WriteRecord, Report
  <2>2. /\ DeliveryFits(Settle(d, Outcome(d)))
        /\ \A x \in LogEntry : EntryFits(d, x) => EntryFits(Settle(d, Outcome(d)), x)
    <3>1. Outcome(d) \in {"delivered", "failed"}
      BY DEF Outcome
    <3>2. Outcome(d) = "failed" => ~d.won
      BY DEF Outcome
    <3>3. Outcome(d) = "delivered" => d.won
      BY DEF Outcome
    <3>. QED  BY <2>1, <3>1, <3>2, <3>3, SettleFits
  <2>3. /\ e.pc = "writing" /\ e.result = d.result /\ e.won = d.won /\ e.attempt = d.attempt
        /\ f.pc = "reporting" /\ f.result = d.result /\ f.won = d.won /\ f.attempt = d.attempt
    BY <2>1 DEF Delivery
  <2>4. \/ deliveries' = [deliveries EXCEPT ![k] = Settle(d, Outcome(d))]
        \/ deliveries' = [deliveries EXCEPT ![k] = e]
        \/ deliveries' = [deliveries EXCEPT ![k] = f]
    BY <1>5 DEF ReadRecord, WriteRecord, Report
  <2>. HIDE DEF e, f
  <2>5. DeliveryFits(e) /\ DeliveryFits(f)
    BY <2>1, <2>3 DEF DeliveryFits, InLoop
  <2>6. \A x \in LogEntry : EntryFits(d, x) => EntryFits(e, x) /\ EntryFits(f, x)
    BY <2>1, <2>3 DEF EntryFits, InLoop
  <2>7. CASE deliveries' = [deliveries EXCEPT ![k] = e]
    BY <2>1, <2>5, <2>6, <2>7, OneMoves
  <2>8. CASE deliveries' = [deliveries EXCEPT ![k] = f]
    BY <2>1, <2>5, <2>6, <2>8, OneMoves
  <2>. QED  BY <2>1, <2>2, <2>4, <2>7, <2>8, OneMoves
<1>. QED  BY <1>1, <1>2, <1>3, <1>4, <1>5 DEF Dispatching, DispatcherStep

LEMMA CrashKeepsLog ==
  ASSUME TypeOK, LogInv, Crash
  PROVE  LogInv'
<1>0. deliveryLog \subseteq LogEntry
  BY DEF TypeOK, DispatcherTypeOK
<1>1. ASSUME NEW k \in DOMAIN deliveries
      PROVE  /\ DeliveryFits(deliveries'[k])
             /\ \A x \in LogEntry : EntryFits(deliveries[k], x) => EntryFits(deliveries'[k], x)
  <2>1. deliveries[k] \in Delivery /\ DeliveryFits(deliveries[k])
    BY DEF TypeOK, DispatcherTypeOK, LogInv
  <2>2. CASE Settled(k)
    BY <2>1, <2>2 DEF Crash, LoseDelivery
  <2>3. CASE ~Settled(k)
    <3>1. \/ deliveries'[k] = Settle(deliveries[k], "lost")
          \/ deliveries'[k] = Settle(deliveries[k], "unreported")
      BY <2>3 DEF Crash, LoseDelivery
    <3>. QED  BY <2>1, <2>3, <3>1, SettleFits DEF Settled
  <2>. QED  BY <2>2, <2>3
<1>2. DOMAIN deliveries' = DOMAIN deliveries /\ deliveryLog' = deliveryLog
  BY DEF Crash, LoseDelivery
<1>3. \A k \in DOMAIN deliveries' : DeliveryFits(deliveries[k])'
  BY <1>1, <1>2 DEF DeliveryFits, InLoop
<1>4. \A x \in deliveryLog' :
        x.delivery \in DOMAIN deliveries' /\ EntryFits(deliveries'[x.delivery], x)
  BY <1>0, <1>1, <1>2 DEF LogInv
<1>5. \A x \in deliveryLog' :
        x.delivery \in DOMAIN deliveries' /\ EntryFits(deliveries[x.delivery], x)'
  BY <1>4 DEF EntryFits, InLoop
<1>. QED  BY <1>3, <1>5 DEF LogInv

LEMMA NextLogInv == TypeOK /\ LogInv /\ [Next]_vars => LogInv'
<1>1. ASSUME LogInv, UNCHANGED <<deliveries, deliveryLog>>  PROVE LogInv'
  BY <1>1 DEF LogInv, DeliveryFits, EntryFits, InLoop
<1>. QED
  BY <1>1, DispatchingKeepsLog, CrashKeepsLog
     DEF Next, vars, PublishEvent, Serving, Clock, Shutdown, Stop

(***************************************************************************)
(* The delivery log never contradicts the reported result, whatever the    *)
(* schedule, and whether entries are written, lost or followed by a crash. *)
(***************************************************************************)
THEOREM LogIsTruthful == Spec => []LogTellsOutcome
<1>1. Init => LogInv
  BY DEF Init, DispatcherInit, LogInv
<1>2. LogInv => LogTellsOutcome
  BY DEF LogInv, EntryFits, LogTellsOutcome
<1>3. Spec => []LogInv
  BY <1>1, NextLogInv, TypeCorrect, PTL DEF Spec
<1>. QED  BY <1>2, <1>3, PTL

(***************************************************************************)
(* A stopped dispatcher aborts what wakes up, fans out or would be retried *)
(* at once; the attempts under way are the only ones left.                 *)
(***************************************************************************)
LEMMA StoppedStartsNothing ==
  ASSUME TypeOK, [Next]_vars, stopped, NEW k \in DOMAIN deliveries',
         deliveries'[k].pc = "posting"
  PROVE  k \in DOMAIN deliveries /\ deliveries'[k] = deliveries[k]
<1>. DEFINE Goal == k \in DOMAIN deliveries /\ deliveries'[k] = deliveries[k]
<1>. SUFFICES Goal
  OBVIOUS
<1>. USE MaxAttemptsType
<1>0. \A j \in DOMAIN deliveries : deliveries[j] \in Delivery
  BY DEF TypeOK, DispatcherTypeOK
<1>1. \A d \in Delivery : AttemptOrAbort(d).pc = "settled"
  BY DEF AttemptOrAbort, Settle, Delivery
<1>2. ASSUME NEW d \in Delivery, NEW n \in 1 .. MaxAttempts + 1
      PROVE  EnterLoop(d, n).pc # "posting"
  <2>1. CASE n > MaxAttempts
    BY <2>1 DEF EnterLoop, Delivery
  <2>2. CASE n \in 1 .. MaxAttempts
    <3>1. [d EXCEPT !.attempt = n] \in Delivery
      BY <2>2 DEF Delivery
    <3>2. [d EXCEPT !.pc = "asleep", !.attempt = n].pc # "posting"
      BY DEF Delivery
    <3>3. ~(n > MaxAttempts)
      BY <2>2
    <3>. QED  BY <1>1, <3>1, <3>2, <3>3 DEF EnterLoop
  <2>. QED  BY <2>1, <2>2
<1>3. CASE UNCHANGED deliveries
  BY <1>3
<1>4. ASSUME NEW id \in DispatchId, FanOut(id)  PROVE Goal
  <2>1. CASE k \in DOMAIN deliveries
    BY <1>4, <2>1 DEF FanOut
  <2>2. CASE k \notin DOMAIN deliveries
    <3>. DEFINE rec == dispatches[id].snapshot[k[2]]
    <3>1. rec \in SubscriptionRecord
      <4>1. k[2] \in DOMAIN dispatches[id].snapshot
        BY <1>4, <2>2 DEF FanOut, Targets
      <4>2. IsTable(dispatches[id].snapshot)
        BY <1>4 DEF FanOut, TypeOK, DispatcherTypeOK, EventBusTypeOK, IsDispatch
      <4>. QED  BY <4>1, <4>2 DEF IsTable
    <3>2. 1 \in 1 .. MaxAttempts /\ 1 \in 1 .. MaxAttempts + 1
      OBVIOUS
    <3>3. NewDelivery(rec) \in Delivery
      BY <3>1, <3>2 DEF NewDelivery, Delivery
    <3>4. deliveries'[k] = EnterLoop(NewDelivery(rec), 1)
      BY <1>4, <2>2 DEF FanOut
    <3>. QED  BY <1>2, <3>2, <3>3, <3>4
  <2>. QED  BY <2>1, <2>2
<1>5. ASSUME NEW j \in DeliveryId,
             \/ Wake(j) \/ Answer(j) \/ ReadRecord(j) \/ WriteRecord(j) \/ Report(j)
      PROVE  Goal
  <2>. DEFINE d == deliveries[j]
  <2>0. j \in DOMAIN deliveries /\ d \in Delivery
    BY <1>0, <1>5 DEF Wake, Answer, ReadRecord, WriteRecord, Report
  <2>1. j \in DOMAIN deliveries /\ d \in Delivery /\ d.attempt + 1 \in 1 .. MaxAttempts + 1
    BY <2>0 DEF Delivery
  <2>2. CASE k # j
    BY <1>5, <2>2 DEF Wake, Answer, ReadRecord, WriteRecord, Report
  <2>3. CASE k = j
    <3>1. /\ Settle(d, Outcome(d)).pc # "posting"
          /\ [d EXCEPT !.pc = "writing", !.seen = table[j[2]].failure_count].pc # "posting"
          /\ [d EXCEPT !.pc = "reporting", !.seen = 0].pc # "posting"
          /\ [d EXCEPT !.pc = "reading", !.won = TRUE].pc # "posting"
      BY <2>1 DEF Settle, Delivery
    <3>2. EnterLoop(d, d.attempt + 1).pc # "posting" /\ AttemptOrAbort(d).pc # "posting"
      BY <1>1, <1>2, <2>1
    <3>. QED
      BY <1>5, <2>1, <2>3, <3>1, <3>2 DEF Wake, Answer, ReadRecord, WriteRecord, Report
  <2>. QED  BY <2>2, <2>3
<1>6. CASE Crash
  BY <1>0, <1>6 DEF Crash, LoseDelivery, Settle, Delivery
<1>7. CASE Dispatching
  BY <1>3, <1>4, <1>5, <1>7 DEF Dispatching, DispatcherStep, ListSubscriptions
<1>. QED  BY <1>3, <1>6, <1>7 DEF Next, vars, Serving, Clock, Shutdown, Stop, PublishEvent

(***************************************************************************)
(* Once stop() was called no attempt starts, for every schedule, also one  *)
(* with delays of zero that never awaits between two attempts.             *)
(***************************************************************************)
THEOREM StopStops == Spec => NoAttemptAfterStop
<1>1. ASSUME TypeOK, [Next]_vars, stopped, NEW k \in DOMAIN deliveries'
      PROVE  ~AttemptStarts(k)
  <2>. SUFFICES ASSUME AttemptStarts(k) PROVE FALSE
    OBVIOUS
  <2>1. deliveries'[k].pc = "posting" /\ Attempts(k)' > Attempts(k)
    BY DEF AttemptStarts
  <2>2. k \in DOMAIN deliveries /\ deliveries'[k] = deliveries[k]
    BY <1>1, <2>1, StoppedStartsNothing
  <2>3. Attempts(k)' = Attempts(k)
    BY <2>2 DEF Attempts
  <2>4. Attempts(k) \in Nat
    BY <1>1, <2>2 DEF Attempts, TypeOK, DispatcherTypeOK, Delivery
  <2>. QED  BY <2>1, <2>3, <2>4
<1>2. TypeOK /\ [Next]_vars =>
        [stopped => \A k \in DOMAIN deliveries' : ~AttemptStarts(k)]_vars
  BY <1>1
<1>. QED  BY <1>2, TypeCorrect, PTL DEF NoAttemptAfterStop, Spec
-----------------------------------------------------------------------------
(***************************************************************************)
(* The cancelled event of a DELETE, for every number of requests and every *)
(* interleaving.                                                           *)
(*                                                                         *)
(* CancelledNotNotified is not inductive: it looks at deliveries, and what *)
(* keeps the cancelled subscription out of them is that it has left the    *)
(* table before the event is published.  A name that left the table comes  *)
(* back only by a subscribe request of the same instant, and names come    *)
(* from the clock, so that request is the second one given the name.       *)
(***************************************************************************)
Known(s) == s < StartTime \/ Creators(s) # {}

Deleted(r) ==
  /\ requests[r].op = "unsubscribe"
  /\ requests[r].pc = "publishing" \/ r \in DOMAIN dispatches

BackInTable(r) == requests[r].sub \in DOMAIN table

BackInSnapshot(r) ==
  r \in DOMAIN dispatches /\ requests[r].sub \in DOMAIN dispatches[r].snapshot

FreshRequests ==
  \A r \in Request :
    requests[r].pc = "idle" => requests[r].op = "none" /\ r \notin DOMAIN dispatches

TableKnown == StartTime <= now /\ \A s \in DOMAIN table : Known(s)

DeletedStaysGone ==
  \A r \in Request :
    Deleted(r) => /\ Known(requests[r].sub)
                  /\ BackInTable(r) \/ BackInSnapshot(r) => Reused(requests[r].sub)

DeliveriesDispatched == \A k \in DOMAIN deliveries : k[1] \in DOMAIN dispatches

NameInv ==
  /\ TypeOK
  /\ FreshRequests /\ TableKnown /\ DeletedStaysGone /\ DeliveriesDispatched
  /\ CancelledNotNotified

(***************************************************************************)
(* What a step may do to a request: one that has started keeps its         *)
(* operation and its subscription.                                         *)
(***************************************************************************)
Started(r) == requests[r].pc # "idle"

LEMMA ServingMoves ==
  ASSUME NEW r \in Request, RequestArrives(r) \/ RequestContinues(r)
  PROVE  \/ \E op, s, ids : \E pc \in {"writing", "answering", "finding", "publishing"} :
              Goes(r, op, s, pc, ids)
         \/ \E op, s, code : Answers(r, op, s, code)
<1>1. CASE RequestArrives(r)
  BY <1>1 DEF RequestArrives, SubscribeRefused, SubscribeSave, PauseRead, ResumeRead, TestRead,
              UnsubscribeDelete, RedeliverRead
<1>2. CASE RequestContinues(r)
  BY <1>2 DEF RequestContinues, SubscribePublish, PauseWrite, PauseAnswer, ResumeWrite,
              ResumeAnswer, TestPublish, UnsubscribePublish, RedeliverFind, RedeliverPublish,
              Republishes
<1>. QED  BY <1>1, <1>2

LEMMA ContinuingKeeps ==
  ASSUME TypeOK, NEW r \in Request, RequestContinues(r)
  PROVE  /\ requests'[r].op = requests[r].op /\ requests'[r].sub = requests[r].sub
         /\ Started(r)
<1>1. requests \in [Request -> Handler]
  BY DEF TypeOK, ServerTypeOK
<1>. DEFINE Moves(op) ==
       \/ \E pc, ids : Goes(r, op, requests[r].sub, pc, ids)
       \/ \E code : Answers(r, op, requests[r].sub, code)
<1>2. ASSUME NEW op, NEW pc, pc # "idle", At(r, op, pc), Moves(op)
      PROVE  /\ requests'[r].op = requests[r].op /\ requests'[r].sub = requests[r].sub
             /\ Started(r)
  BY <1>1, <1>2 DEF At, Goes, Answers, Started
<1>3. SubscribePublish(r) => At(r, "subscribe", "publishing") /\ Moves("subscribe")
  BY DEF SubscribePublish
<1>4. PauseWrite(r) => At(r, "pause", "writing") /\ Moves("pause")
  BY DEF PauseWrite
<1>5. ResumeWrite(r) => At(r, "resume", "writing") /\ Moves("resume")
  BY DEF ResumeWrite
<1>6. TestPublish(r) => At(r, "test", "publishing") /\ Moves("test")
  BY DEF TestPublish
<1>7. UnsubscribePublish(r) => At(r, "unsubscribe", "publishing") /\ Moves("unsubscribe")
  BY DEF UnsubscribePublish
<1>8. RedeliverFind(r) => At(r, "redeliver", "finding") /\ Moves("redeliver")
  BY DEF RedeliverFind, Republishes
<1>9. RedeliverPublish(r) => At(r, "redeliver", "publishing") /\ Moves("redeliver")
  BY DEF RedeliverPublish, Republishes
<1>10. PauseAnswer(r) => At(r, "pause", "answering") /\ Moves("pause")
  BY DEF PauseAnswer
<1>11. ResumeAnswer(r) => At(r, "resume", "answering") /\ Moves("resume")
  BY DEF ResumeAnswer
<1>. HIDE DEF Moves
<1>. QED
  BY <1>2, <1>3, <1>4, <1>5, <1>6, <1>7, <1>8, <1>9, <1>10, <1>11 DEF RequestContinues

LEMMA ArrivingIsIdle ==
  ASSUME NEW r \in Request, RequestArrives(r)
  PROVE  ~Started(r)
BY DEF RequestArrives, Started, Idle, SubscribeRefused, SubscribeSave, PauseRead, ResumeRead,
       TestRead, UnsubscribeDelete, RedeliverRead

LEMMA RequestSteps ==
  ASSUME TypeOK, [Next]_vars, NEW r \in Request
  PROVE  /\ Started(r) => /\ requests'[r].op = requests[r].op
                          /\ requests'[r].sub = requests[r].sub
         /\ \/ requests'[r] = requests[r]
            \/ Started(r)'
<1>0. requests \in [Request -> Handler]
  BY DEF TypeOK, ServerTypeOK
<1>1. CASE UNCHANGED requests
  BY <1>1
<1>2. CASE Serving
  <2>1. PICK q \in Request : RequestArrives(q) \/ RequestContinues(q)
    BY <1>2 DEF Serving
  <2>2. \/ \E op, s, ids : \E pc \in {"writing", "answering", "finding", "publishing"} :
             Goes(q, op, s, pc, ids)
        \/ \E op, s, code : Answers(q, op, s, code)
    BY <2>1, ServingMoves
  <2>3. CASE r # q
    BY <1>0, <2>2, <2>3 DEF Goes, Answers
  <2>4. CASE r = q
    <3>1. Started(r)'
      BY <1>0, <2>2, <2>4 DEF Goes, Answers, Started
    <3>. QED  BY <2>1, <2>4, <3>1, ContinuingKeeps, ArrivingIsIdle
  <2>. QED  BY <2>3, <2>4
<1>3. CASE Crash
  <2>1. \/ requests'[r] = requests[r]
        \/ \E pc \in {"lost", "unanswered"} : requests'[r] = [requests[r] EXCEPT !.pc = pc]
    BY <1>3 DEF Crash, LoseHandler
  <2>. QED  BY <1>0, <2>1 DEF Started, Handler
<1>. QED
  BY <1>1, <1>2, <1>3
     DEF Next, vars, PublishEvent, Dispatching, Clock, Shutdown

(***************************************************************************)
(* The subscribe requests given a name stay the ones given it.             *)
(***************************************************************************)
LEMMA NamesKept ==
  ASSUME TypeOK, FreshRequests, [Next]_vars, NEW s
  PROVE  /\ Creators(s) \subseteq Creators(s)'
         /\ Known(s) => Known(s)'
         /\ Reused(s) => Reused(s)'
<1>1. Creators(s) \subseteq Creators(s)'
  <2>. SUFFICES ASSUME NEW r \in Creators(s) PROVE r \in Creators(s)'
    OBVIOUS
  <2>1. Started(r)
    BY DEF Creators, FreshRequests, Started
  <2>. QED  BY <2>1, RequestSteps DEF Creators
<1>. QED  BY <1>1 DEF Known, Reused

(***************************************************************************)
(* The table gains a name only by SubscribeSave, which names it after now. *)
(***************************************************************************)
LEMMA NameSteps ==
  ASSUME TypeOK, [Next]_vars, NEW s \in DOMAIN table', s \notin DOMAIN table
  PROVE  s = now /\ \E r \in Request : SubscribeSave(r)
<1>. DEFINE Goal == s = now /\ \E r \in Request : SubscribeSave(r)
<1>. HIDE DEF Goal
<1>. SUFFICES Goal
  BY DEF Goal
<1>1. ASSUME NEW r \in Request, SubscribeSave(r)  PROVE Goal
  <2>1. PICK rec : SaveSubscription(now, rec)
    BY <1>1 DEF SubscribeSave
  <2>2. s = now
    BY <2>1 DEF SaveSubscription
  <2>. QED  BY <1>1, <2>2 DEF Goal
<1>2. ASSUME NEW id, NEW rec, UpdateSubscription(id, rec)  PROVE FALSE
  BY <1>2 DEF UpdateSubscription
<1>3. ASSUME NEW id, DeleteSubscription(id)  PROVE FALSE
  BY <1>3 DEF DeleteSubscription
<1>4. ASSUME UNCHANGED table  PROVE FALSE
  BY <1>4
<1>5. CASE Serving
  <2>1. PICK r \in Request : RequestArrives(r) \/ RequestContinues(r)
    BY <1>5 DEF Serving
  <2>2. CASE RequestArrives(r)
    BY <1>1, <1>3, <1>4, <2>2
       DEF RequestArrives, SubscribeRefused, PauseRead, ResumeRead, TestRead, UnsubscribeDelete,
           RedeliverRead
  <2>3. CASE RequestContinues(r)
    BY <1>2, <1>4, <2>3
       DEF RequestContinues, SubscribePublish, PauseWrite, PauseAnswer, ResumeWrite, ResumeAnswer,
           TestPublish, UnsubscribePublish, RedeliverFind, RedeliverPublish
  <2>. QED  BY <2>1, <2>2, <2>3
<1>6. CASE Dispatching
  BY <1>2, <1>4, <1>6
     DEF Dispatching, DispatcherStep, ListSubscriptions, FanOut, Wake, Answer, ReadRecord,
         WriteRecord, Report
<1>. QED
  BY <1>4, <1>5, <1>6 DEF Next, vars, PublishEvent, Clock, Shutdown, Stop, Crash, LoseDelivery

LEMMA Saving ==
  ASSUME TypeOK, FreshRequests, NEW r \in Request, SubscribeSave(r)
  PROVE  r \in Creators(now)' /\ r \notin Creators(now) /\ UNCHANGED now
<1>1. requests \in [Request -> Handler] /\ requests[r].pc = "idle"
  BY DEF TypeOK, ServerTypeOK, SubscribeSave, Idle
<1>2. requests'[r].op = "subscribe" /\ requests'[r].sub = now
  BY <1>1 DEF SubscribeSave, Goes
<1>3. UNCHANGED now
  BY DEF SubscribeSave
<1>. QED  BY <1>1, <1>2, <1>3 DEF Creators, FreshRequests

(***************************************************************************)
(* The names in the table are known, and one that comes back is reused.    *)
(***************************************************************************)
LEMMA TableKnownKept ==
  ASSUME TypeOK, FreshRequests, TableKnown, [Next]_vars
  PROVE  TableKnown'
<1>1. StartTime <= now'
  <2>1. now \in Nat /\ StartTime \in Nat
    BY SubscriptionsAssumption DEF TypeOK, SubscriptionsTypeOK, SubId
  <2>2. Serving => now' = now
    BY DEF Serving, RequestArrives, RequestContinues, SubscribeRefused, SubscribeSave,
           SubscribePublish, PauseRead, PauseWrite, PauseAnswer, ResumeRead, ResumeWrite,
           ResumeAnswer, TestRead, TestPublish, UnsubscribeDelete, UnsubscribePublish,
           RedeliverRead, RedeliverFind, RedeliverPublish
  <2>3. Dispatching => now' = now
    BY DEF Dispatching, DispatcherStep, ListSubscriptions, FanOut, Wake, Answer, ReadRecord,
           WriteRecord, Report
  <2>4. now' = now \/ now' = now + 1
    BY <2>2, <2>3 DEF Next, vars, PublishEvent, Clock, Tick, Shutdown, Stop, Crash, LoseDelivery
  <2>. QED  BY <2>1, <2>4 DEF TableKnown
<1>2. ASSUME NEW s \in DOMAIN table'  PROVE Known(s)'
  <2>1. CASE s \in DOMAIN table
    BY <2>1, NamesKept DEF TableKnown
  <2>2. CASE s \notin DOMAIN table
    BY <2>2, NameSteps, Saving DEF Known
  <2>. QED  BY <2>1, <2>2
<1>. QED  BY <1>1, <1>2 DEF TableKnown

LEMMA ComingBackReuses ==
  ASSUME TypeOK, FreshRequests, TableKnown, [Next]_vars,
         NEW s \in DOMAIN table', s \notin DOMAIN table, Known(s)
  PROVE  Reused(s)'
<1>1. PICK r \in Request : SubscribeSave(r) /\ s = now
  BY NameSteps
<1>2. r \in Creators(s)' /\ r \notin Creators(s)
  BY <1>1, Saving
<1>3. now \in Nat /\ StartTime \in Nat /\ StartTime <= now
  BY SubscriptionsAssumption DEF TypeOK, SubscriptionsTypeOK, SubId, TableKnown
<1>4. Creators(s) # {}
  BY <1>1, <1>3 DEF Known
<1>5. PICK q \in Creators(s) : q # r
  BY <1>2, <1>4
<1>6. q \in Creators(s)'
  BY <1>5, NamesKept
<1>. QED  BY <1>2, <1>5, <1>6 DEF Reused

(***************************************************************************)
(* What a step may do to the dispatch of a request: it begins when the     *)
(* request publishes, and its snapshot is taken from the table.            *)
(***************************************************************************)
SnapshotFrom(r) ==
  r \in DOMAIN dispatches' =>
    /\ r \in DOMAIN dispatches \/ requests[r].pc = "publishing"
    /\ \A s \in DOMAIN dispatches'[r].snapshot :
         \/ r \in DOMAIN dispatches /\ s \in DOMAIN dispatches[r].snapshot
         \/ s \in DOMAIN table'

LEMMA PublishSnapshot ==
  ASSUME NEW r, NEW id, NEW event, Publish(id, event), r = id => requests[r].pc = "publishing"
  PROVE  SnapshotFrom(r)
<1>1. CASE r = id
  BY <1>1 DEF Publish, SnapshotFrom, NoTable
<1>2. CASE r # id
  BY <1>2 DEF Publish, SnapshotFrom
<1>. QED  BY <1>1, <1>2

LEMMA SnapshotSteps ==
  ASSUME TypeOK, [Next]_vars, NEW r \in Request
  PROVE  SnapshotFrom(r)
<1>0. \A i \in DOMAIN dispatches : IsDispatch(dispatches[i])
  BY DEF TypeOK, DispatcherTypeOK, EventBusTypeOK
<1>1. ASSUME UNCHANGED dispatches  PROVE SnapshotFrom(r)
  BY <1>1 DEF SnapshotFrom
<1>2. ASSUME NEW e \in AppEvent, PublishEvent(e)  PROVE SnapshotFrom(r)
  BY <1>2, PublishSnapshot, EventBusAssumption DEF PublishEvent
<1>3. ASSUME NEW q \in Request, RedeliverPublish(q)  PROVE SnapshotFrom(r)
  <2>1. PICK e \in requests[q].todo : Publish(<<q, e>>, AppEventOf(e))
    BY <1>3 DEF RedeliverPublish
  <2>2. e \in AppEvent
    BY <2>1 DEF TypeOK, ServerTypeOK, Handler
  <2>3. <<q, e>> # r
    BY <2>2, EventBusAssumption
  <2>. QED  BY <2>1, <2>3, PublishSnapshot
<1>4. ASSUME NEW q \in Request, SubscribePublish(q) \/ TestPublish(q) \/ UnsubscribePublish(q)
      PROVE  SnapshotFrom(r)
  BY <1>4, PublishSnapshot DEF SubscribePublish, TestPublish, UnsubscribePublish, At
<1>5. ASSUME NEW id \in DispatchId, ListSubscriptions(id)  PROVE SnapshotFrom(r)
  <2>1. /\ id \in DOMAIN dispatches /\ UNCHANGED table
        /\ dispatches' = [dispatches EXCEPT ![id].stage = "listed", ![id].snapshot = table]
    BY <1>5 DEF ListSubscriptions
  <2>2. CASE r = id
    BY <1>0, <2>1, <2>2 DEF SnapshotFrom, IsDispatch
  <2>3. CASE r # id
    BY <2>1, <2>3 DEF SnapshotFrom
  <2>. QED  BY <2>2, <2>3
<1>6. ASSUME NEW id \in DispatchId, FanOut(id)  PROVE SnapshotFrom(r)
  <2>1. /\ id \in DOMAIN dispatches
        /\ dispatches' = [dispatches EXCEPT ![id].stage = "fanned", ![id].snapshot = NoTable]
    BY <1>6 DEF FanOut
  <2>2. CASE r = id
    BY <1>0, <2>1, <2>2 DEF SnapshotFrom, IsDispatch, NoTable
  <2>3. CASE r # id
    BY <2>1, <2>3 DEF SnapshotFrom
  <2>. QED  BY <2>2, <2>3
<1>7. CASE Crash
  <2>1. dispatches' = [i \in DOMAIN dispatches |->
                         [dispatches[i] EXCEPT !.stage = "fanned", !.snapshot = NoTable]]
    BY <1>7 DEF Crash, LoseDelivery
  <2>. QED  BY <1>0, <2>1 DEF SnapshotFrom, IsDispatch, NoTable
<1>8. CASE Serving
  <2>1. PICK q \in Request : RequestArrives(q) \/ RequestContinues(q)
    BY <1>8 DEF Serving
  <2>2. CASE RequestArrives(q)
    BY <1>1, <2>2
       DEF RequestArrives, SubscribeRefused, SubscribeSave, PauseRead, ResumeRead, TestRead,
           UnsubscribeDelete, RedeliverRead
  <2>3. CASE RequestContinues(q)
    BY <1>1, <1>3, <1>4, <2>3 DEF RequestContinues, PauseWrite, PauseAnswer, ResumeWrite,
                                  ResumeAnswer, RedeliverFind
  <2>. QED  BY <2>1, <2>2, <2>3
<1>9. CASE Dispatching
  BY <1>1, <1>5, <1>6, <1>9 DEF Dispatching, DispatcherStep, Wake, Answer, ReadRecord,
                                WriteRecord, Report
<1>. QED
  BY <1>1, <1>2, <1>7, <1>8, <1>9 DEF Next, vars, Clock, Shutdown, Stop

(***************************************************************************)
(* What a step may do to the deliveries: a new one goes to a name in the   *)
(* snapshot of its dispatch, and no dispatch is forgotten.                 *)
(***************************************************************************)
LEMMA DeliverySteps ==
  ASSUME TypeOK, [Next]_vars
  PROVE  /\ DOMAIN dispatches \subseteq DOMAIN dispatches'
         /\ \A k \in DOMAIN deliveries' :
              \/ k \in DOMAIN deliveries
              \/ k[1] \in DOMAIN dispatches /\ k[2] \in DOMAIN dispatches[k[1]].snapshot
<1>. DEFINE Goal ==
       /\ DOMAIN dispatches \subseteq DOMAIN dispatches'
       /\ \A k \in DOMAIN deliveries' :
            \/ k \in DOMAIN deliveries
            \/ k[1] \in DOMAIN dispatches /\ k[2] \in DOMAIN dispatches[k[1]].snapshot
<1>1. ASSUME DOMAIN dispatches \subseteq DOMAIN dispatches', DOMAIN deliveries' = DOMAIN deliveries
      PROVE  Goal
  BY <1>1
<1>2. ASSUME NEW id \in DispatchId, FanOut(id)  PROVE Goal
  <2>1. /\ id \in DOMAIN dispatches
        /\ DOMAIN deliveries' = DOMAIN deliveries \cup ({id} \X Targets(id))
        /\ DOMAIN dispatches' = DOMAIN dispatches
    BY <1>2 DEF FanOut
  <2>2. Targets(id) \subseteq DOMAIN dispatches[id].snapshot
    BY DEF Targets
  <2>. QED  BY <2>1, <2>2
<1>. HIDE DEF Goal
<1>. SUFFICES Goal
  BY DEF Goal
<1>3. CASE UNCHANGED <<dispatches, deliveries>>
  BY <1>1, <1>3
<1>4. ASSUME NEW id, NEW event, Publish(id, event), UNCHANGED deliveries  PROVE Goal
  <2>1. DOMAIN dispatches \subseteq DOMAIN dispatches'
    BY <1>4 DEF Publish
  <2>. QED  BY <1>1, <1>4, <2>1
<1>5. CASE Dispatching
  <2>1. ASSUME NEW id \in DispatchId, ListSubscriptions(id)  PROVE Goal
    <3>1. DOMAIN dispatches' = DOMAIN dispatches /\ UNCHANGED deliveries
      BY <2>1 DEF ListSubscriptions
    <3>. QED  BY <1>1, <3>1
  <2>2. ASSUME NEW k \in DeliveryId,
               \/ Wake(k) \/ Answer(k) \/ ReadRecord(k) \/ WriteRecord(k) \/ Report(k)
        PROVE  Goal
    <3>1. UNCHANGED dispatches /\ DOMAIN deliveries' = DOMAIN deliveries
      BY <2>2 DEF Wake, Answer, ReadRecord, WriteRecord, Report
    <3>. QED  BY <1>1, <3>1
  <2>. QED  BY <1>2, <1>5, <2>1, <2>2 DEF Dispatching, DispatcherStep
<1>6. CASE Serving
  <2>1. PICK r \in Request : RequestArrives(r) \/ RequestContinues(r)
    BY <1>6 DEF Serving
  <2>2. UNCHANGED deliveries
    BY <1>6 DEF Serving
  <2>3. CASE RequestArrives(r)
    BY <1>3, <2>2, <2>3
       DEF RequestArrives, SubscribeRefused, SubscribeSave, PauseRead, ResumeRead, TestRead,
           UnsubscribeDelete, RedeliverRead
  <2>4. CASE RequestContinues(r)
    BY <1>3, <1>4, <2>2, <2>4
       DEF RequestContinues, SubscribePublish, PauseWrite, PauseAnswer, ResumeWrite, ResumeAnswer,
           TestPublish, UnsubscribePublish, RedeliverFind, RedeliverPublish
  <2>. QED  BY <2>1, <2>3, <2>4
<1>7. CASE Crash
  <2>1. DOMAIN dispatches' = DOMAIN dispatches /\ DOMAIN deliveries' = DOMAIN deliveries
    BY <1>7 DEF Crash, LoseDelivery
  <2>. QED  BY <1>1, <2>1
<1>. QED
  BY <1>3, <1>4, <1>5, <1>6, <1>7 DEF Next, vars, PublishEvent, Clock, Shutdown, Stop

(***************************************************************************)
(* A request comes to have deleted a subscription only by a DELETE that    *)
(* finds it in the table.                                                  *)
(***************************************************************************)
LEMMA DeletionSteps ==
  ASSUME TypeOK, FreshRequests, [Next]_vars, NEW r \in Request, Deleted(r)', ~Deleted(r)
  PROVE  /\ ~Started(r)
         /\ requests'[r].sub \in DOMAIN table
         /\ requests'[r].sub \notin DOMAIN table'
         /\ r \notin DOMAIN dispatches'
<1>0. requests \in [Request -> Handler]
  BY DEF TypeOK, ServerTypeOK
<1>1. Started(r) => requests'[r].op = requests[r].op /\ requests'[r].sub = requests[r].sub
  BY RequestSteps
<1>2. r \in DOMAIN dispatches' => r \in DOMAIN dispatches \/ requests[r].pc = "publishing"
  BY SnapshotSteps DEF SnapshotFrom
<1>3. requests'[r].op = "unsubscribe"
  BY DEF Deleted
<1>4. CASE Started(r)
  <2>1. requests[r].op = "unsubscribe" /\ requests[r].pc # "publishing"
    BY <1>1, <1>3, <1>4 DEF Deleted
  <2>2. requests'[r].pc = "publishing" /\ requests'[r] # requests[r]
    BY <1>2, <2>1 DEF Deleted
  <2>3. CASE Crash
    <3>1. \/ requests'[r] = requests[r]
          \/ \E pc \in {"lost", "unanswered"} : requests'[r] = [requests[r] EXCEPT !.pc = pc]
      BY <2>3 DEF Crash, LoseHandler
    <3>. QED  BY <1>0, <2>2, <3>1 DEF Handler
  <2>4. CASE Serving
    <3>1. PICK q \in Request : RequestArrives(q) \/ RequestContinues(q)
      BY <2>4 DEF Serving
    <3>2. r = q
      BY <1>0, <2>2, <3>1, ServingMoves DEF Goes, Answers
    <3>3. RequestContinues(r)
      BY <1>4, <3>1, <3>2, ArrivingIsIdle
    <3>. QED
      BY <2>1, <3>3
         DEF RequestContinues, At, SubscribePublish, PauseWrite, PauseAnswer, ResumeWrite,
             ResumeAnswer, TestPublish, UnsubscribePublish, RedeliverFind, RedeliverPublish
  <2>. QED
    BY <2>2, <2>3, <2>4 DEF Next, vars, PublishEvent, Dispatching, Clock, Shutdown
<1>5. CASE ~Started(r)
  <2>1. requests[r].op = "none" /\ r \notin DOMAIN dispatches
    BY <1>5 DEF FreshRequests, Started
  <2>2. r \notin DOMAIN dispatches'
    BY <1>2, <1>5, <2>1 DEF Started
  <2>3. requests'[r].pc = "publishing" /\ requests'[r] # requests[r]
    BY <1>3, <2>1, <2>2 DEF Deleted
  <2>4. CASE Crash
    <3>1. \/ requests'[r] = requests[r]
          \/ \E pc \in {"lost", "unanswered"} : requests'[r] = [requests[r] EXCEPT !.pc = pc]
      BY <2>4 DEF Crash, LoseHandler
    <3>. QED  BY <1>0, <2>3, <3>1 DEF Handler
  <2>5. CASE Serving
    <3>1. PICK q \in Request : RequestArrives(q) \/ RequestContinues(q)
      BY <2>5 DEF Serving
    <3>2. r = q
      BY <1>0, <2>3, <3>1, ServingMoves DEF Goes, Answers
    <3>3. RequestArrives(r)
      BY <1>5, <3>1, <3>2, ContinuingKeeps
    <3>4. PICK s \in SubId : UnsubscribeDelete(r, s)
      BY <1>0, <1>3, <3>3
         DEF RequestArrives, SubscribeRefused, SubscribeSave, PauseRead, ResumeRead, TestRead,
             RedeliverRead, Goes, Answers
    <3>5. s \in DOMAIN table
      BY <1>0, <2>3, <3>4 DEF UnsubscribeDelete, Answers
    <3>6. requests'[r].sub = s
      BY <1>0, <3>4, <3>5 DEF UnsubscribeDelete, Goes
    <3>7. s \notin DOMAIN table'
      BY <3>4 DEF UnsubscribeDelete, DeleteSubscription
    <3>. QED  BY <1>5, <2>2, <3>5, <3>6, <3>7
  <2>. QED
    BY <2>3, <2>4, <2>5 DEF Next, vars, PublishEvent, Dispatching, Clock, Shutdown
<1>. QED  BY <1>4, <1>5

LEMMA DeletedStaysGoneKept ==
  ASSUME TypeOK, FreshRequests, TableKnown, DeletedStaysGone, [Next]_vars
  PROVE  DeletedStaysGone'
<1>. SUFFICES ASSUME NEW r \in Request, Deleted(r)'
              PROVE  /\ Known(requests[r].sub)'
                     /\ BackInTable(r)' \/ BackInSnapshot(r)' => Reused(requests[r].sub)'
  BY DEF DeletedStaysGone
<1>1. CASE ~Deleted(r)
  <2>. DEFINE s == requests'[r].sub
  <2>1. s \in DOMAIN table /\ s \notin DOMAIN table' /\ r \notin DOMAIN dispatches'
    BY <1>1, DeletionSteps
  <2>2. Known(s)
    BY <2>1 DEF TableKnown
  <2>3. \A x : Known(x) => Known(x)'
    BY NamesKept
  <2>4. Known(requests[r].sub)'
    BY <2>2, <2>3 DEF Known, Creators
  <2>. QED  BY <2>1, <2>4 DEF BackInTable, BackInSnapshot
<1>2. CASE Deleted(r)
  <2>0. PICK s : s = requests[r].sub
    OBVIOUS
  <2>1. Started(r)
    BY <1>2 DEF Deleted, FreshRequests, Started
  <2>2. requests'[r].sub = s
    BY <2>0, <2>1, RequestSteps
  <2>3. Known(s) /\ (BackInTable(r) \/ BackInSnapshot(r) => Reused(s))
    BY <1>2, <2>0 DEF DeletedStaysGone
  <2>4. (Known(s) => Known(s)') /\ (Reused(s) => Reused(s)')
    BY NamesKept
  <2>5. s \in DOMAIN table' => Reused(s)'
    BY <2>0, <2>3, <2>4, ComingBackReuses DEF BackInTable
  <2>6. BackInSnapshot(r)' => Reused(s)'
    BY <2>0, <2>2, <2>3, <2>4, <2>5, SnapshotSteps DEF BackInSnapshot, SnapshotFrom
  <2>7. (Known(s)' => Known(requests[r].sub)') /\ (Reused(s)' => Reused(requests[r].sub)')
    BY <2>2 DEF Known, Reused, Creators
  <2>. QED  BY <2>2, <2>3, <2>4, <2>5, <2>6, <2>7 DEF BackInTable
<1>. QED  BY <1>1, <1>2

LEMMA CancelledKept ==
  ASSUME TypeOK, FreshRequests, DeletedStaysGone, DeliveriesDispatched, CancelledNotNotified,
         [Next]_vars
  PROVE  DeliveriesDispatched' /\ CancelledNotNotified'
<1>1. DeliveriesDispatched'
  BY DeliverySteps DEF DeliveriesDispatched
<1>2. ASSUME NEW k \in DOMAIN deliveries', k[1] \in Request,
             requests'[k[1]].op = "unsubscribe", requests'[k[1]].sub = k[2]
      PROVE  Reused(k[2])'
  <2>1. k[1] \in DOMAIN dispatches
    BY DeliverySteps DEF DeliveriesDispatched
  <2>2. Started(k[1])
    BY <1>2, <2>1 DEF FreshRequests, Started
  <2>3. requests[k[1]].op = "unsubscribe" /\ requests[k[1]].sub = k[2]
    BY <1>2, <2>2, RequestSteps
  <2>4. Deleted(k[1])
    BY <2>1, <2>3 DEF Deleted
  <2>5. k \notin DOMAIN deliveries => BackInSnapshot(k[1])
    BY <2>3, DeliverySteps DEF BackInSnapshot
  <2>6. Reused(k[2])
    BY <1>2, <2>3, <2>4, <2>5 DEF DeletedStaysGone, CancelledNotNotified
  <2>. QED  BY <2>6, NamesKept
<1>3. CancelledNotNotified'
  BY <1>2 DEF CancelledNotNotified
<1>. QED  BY <1>1, <1>3

LEMMA FreshKept ==
  ASSUME TypeOK, FreshRequests, [Next]_vars
  PROVE  FreshRequests'
<1>. SUFFICES ASSUME NEW r \in Request, ~Started(r)'
              PROVE  requests'[r].op = "none" /\ r \notin DOMAIN dispatches'
  BY DEF FreshRequests, Started
<1>1. requests'[r] = requests[r]
  BY RequestSteps
<1>2. requests[r].pc = "idle" /\ requests[r].op = "none" /\ r \notin DOMAIN dispatches
  BY <1>1 DEF FreshRequests, Started
<1>. QED  BY <1>1, <1>2, SnapshotSteps DEF SnapshotFrom

LEMMA InitNameInv == Init => NameInv
<1>. SUFFICES ASSUME Init PROVE NameInv
  OBVIOUS
<1>1. TypeOK
  BY InitType
<1>2. /\ dispatches = [i \in {} |-> {}] /\ deliveries = [k \in {} |-> {}]
      /\ \A r \in Request : requests[r].pc = "idle" /\ requests[r].op = "none"
      /\ table \in InitialTables /\ now = StartTime
  BY DEF Init, DispatcherInit, ServerInit
<1>3. DOMAIN dispatches = {} /\ DOMAIN deliveries = {}
  BY <1>2
<1>4. FreshRequests /\ DeliveriesDispatched /\ CancelledNotNotified
  BY <1>2, <1>3 DEF FreshRequests, DeliveriesDispatched, CancelledNotNotified
<1>5. DeletedStaysGone
  BY <1>2 DEF DeletedStaysGone, Deleted
<1>6. StartTime \in Nat /\ \A s \in DOMAIN table : s < StartTime
  BY <1>2, SubscriptionsAssumption DEF SubId
<1>7. TableKnown
  BY <1>2, <1>6 DEF TableKnown, Known
<1>. QED  BY <1>1, <1>4, <1>5, <1>7 DEF NameInv

LEMMA NextNameInv == NameInv /\ [Next]_vars => NameInv'
<1>. SUFFICES ASSUME NameInv, [Next]_vars PROVE NameInv'
  OBVIOUS
<1>1. TypeOK'
  BY NextType DEF NameInv
<1>. QED
  BY <1>1, FreshKept, TableKnownKept, DeletedStaysGoneKept, CancelledKept DEF NameInv

(***************************************************************************)
(* The cancelled event of a DELETE is never delivered to the subscription  *)
(* it cancels, however the handlers, the dispatcher and the clock          *)
(* interleave; to a subscription of the same name only when two subscribe  *)
(* requests were given that name.                                          *)
(***************************************************************************)
THEOREM CancelledStaysQuiet == Spec => []CancelledNotNotified
BY InitNameInv, NextNameInv, PTL DEF Spec, NameInv
-----------------------------------------------------------------------------
(***************************************************************************)
(* FailureStreak is kept when deliveries of a subscription do not overlap: *)
(* the application awaits a dispatch before it publishes again, requests   *)
(* pause or delete, and nobody asked to hear of cancelled subscriptions.   *)
(* Crashes and a shutdown are allowed.  What is excluded breaks it: a      *)
(* dispatch by the server (cancelled, test, redelivery) overlaps with one  *)
(* by the application, a resume may fall between the read and the write of *)
(* a counter, and FailureStreak does not create subscriptions.             *)
(***************************************************************************)
DeafToCancelled(t) == \A s \in DOMAIN t : "cancelled" \notin t[s].selects

SerialUse ==
  /\ ~Overlap
  /\ Ops \subseteq {"pause", "unsubscribe"}
  /\ \A t \in InitialTables : DeafToCancelled(t)

(***************************************************************************)
(* The invariant that carries it.  A count waits to be written only for as *)
(* long as it is current, because no other delivery of the subscription is *)
(* open; and none is, because a dispatch finds every delivery settled.     *)
(***************************************************************************)
NobodyHearsCancelled ==
  /\ DeafToCancelled(table)
  /\ \A i \in DOMAIN dispatches : DeafToCancelled(dispatches[i].snapshot)

EventsAndCancellations ==
  \A i \in DOMAIN dispatches : i \in AppEvent \/ dispatches[i].event.kind = "cancelled"

Unfanned(i) == i \in DOMAIN dispatches /\ dispatches[i].stage # "fanned"

FansOutAlone ==
  \A i \in AppEvent :
    Unfanned(i) => /\ \A k \in DOMAIN deliveries : Settled(k)
                   /\ \A j \in AppEvent : Unfanned(j) => j = i

OneOpen ==
  \A k, l \in DOMAIN deliveries : k[2] = l[2] /\ ~Settled(k) /\ ~Settled(l) => k = l

SeenIsCurrent ==
  \A k \in DOMAIN deliveries :
    deliveries[k].pc = "writing" /\ k[2] \in DOMAIN table =>
      deliveries[k].seen = table[k[2]].failure_count

SerialInv ==
  /\ IInv
  /\ NobodyHearsCancelled /\ EventsAndCancellations
  /\ FansOutAlone /\ OneOpen /\ SeenIsCurrent

LEMMA SerialServing ==
  ASSUME SerialUse, TypeOK, Serving
  PROVE  \E r \in Request :
           \/ \E s \in SubId : PauseRead(r, s) \/ UnsubscribeDelete(r, s)
           \/ PauseWrite(r) \/ PauseAnswer(r) \/ UnsubscribePublish(r)
<1>1. PICK r \in Request : RequestArrives(r) \/ RequestContinues(r)
  BY DEF Serving
<1>2. /\ "subscribe" \notin Ops /\ "resume" \notin Ops /\ "test" \notin Ops
      /\ "redeliver" \notin Ops
  BY DEF SerialUse
<1>3. requests[r].op \notin {"subscribe", "resume", "test", "redeliver"}
  BY <1>2, HandlerFacts
<1>. QED
  BY <1>1, <1>2, <1>3
     DEF RequestArrives, RequestContinues, Idle, At, SubscribeRefused, SubscribeSave, ResumeRead,
         TestRead, RedeliverRead, SubscribePublish, ResumeWrite, ResumeAnswer, TestPublish,
         RedeliverFind, RedeliverPublish

(***************************************************************************)
(* What a serial step does to the deliveries: it starts those of an event  *)
(* of the application, moves one that is open, or settles them as lost.    *)
(***************************************************************************)
CancelledReachesNobody(id) ==
  dispatches[id].event.kind = "cancelled" => Targets(id) = {}

LEMMA DeafTargets ==
  ASSUME NobodyHearsCancelled, NEW id \in DOMAIN dispatches
  PROVE  CancelledReachesNobody(id)
<1>. SUFFICES ASSUME dispatches[id].event.kind = "cancelled"  PROVE Targets(id) = {}
  BY DEF CancelledReachesNobody
<1>1. \A s \in DOMAIN dispatches[id].snapshot :
        "cancelled" \notin dispatches[id].snapshot[s].selects
  BY DEF NobodyHearsCancelled, DeafToCancelled
<1>. QED  BY <1>1, "cancelled" # "test" DEF Targets, IsTarget

LEMMA HearingKept ==
  ASSUME SerialUse, SerialInv, [Next]_vars
  PROVE  NobodyHearsCancelled'
<1>0. TypeOK /\ NobodyHearsCancelled /\ DeafToCancelled(NoTable)
  BY DEF SerialInv, IInv, DeafToCancelled, NoTable
<1>1. DeafToCancelled(table')
  <2>. SUFFICES ASSUME NEW s \in DOMAIN table'  PROVE "cancelled" \notin table'[s].selects
    BY DEF DeafToCancelled
  <2>1. CASE UNCHANGED table
    BY <1>0, <2>1 DEF NobodyHearsCancelled, DeafToCancelled
  <2>2. ASSUME NEW i, NEW rec, i \in DOMAIN table => rec.selects = table[i].selects,
               UpdateSubscription(i, rec)
        PROVE  "cancelled" \notin table'[s].selects
    BY <1>0, <2>2 DEF NobodyHearsCancelled, DeafToCancelled, UpdateSubscription
  <2>3. IsTable(table)
    BY <1>0 DEF TypeOK, SubscriptionsTypeOK
  <2>4. ASSUME NEW k \in DeliveryId, WriteRecord(k)
        PROVE  "cancelled" \notin table'[s].selects
    <3>. DEFINE rec == IF deliveries[k].won THEN AfterSuccess(table[k[2]])
                       ELSE AfterFailure(table[k[2]], deliveries[k].seen)
    <3>1. k[2] \in DOMAIN table => rec.selects = table[k[2]].selects
      BY <2>3 DEF AfterSuccess, AfterFailure, IsTable, SubscriptionRecord
    <3>2. UpdateSubscription(k[2], rec)
      BY <2>4 DEF WriteRecord, Report
    <3>. HIDE DEF rec
    <3>. QED  BY <2>2, <3>1, <3>2
  <2>5. ASSUME NEW r \in Request, PauseWrite(r)
        PROVE  "cancelled" \notin table'[s].selects
    <3>. DEFINE i == requests[r].sub
                rec == [table[i] EXCEPT !.status = "paused"]
    <3>1. i \in DOMAIN table => rec.selects = table[i].selects
      BY <2>3 DEF IsTable, SubscriptionRecord
    <3>2. UpdateSubscription(i, rec)
      BY <2>5 DEF PauseWrite, PauseAnswer
    <3>. HIDE DEF rec, i
    <3>. QED  BY <2>2, <3>1, <3>2
  <2>6. ASSUME NEW r \in Request, NEW i \in SubId, UnsubscribeDelete(r, i)
        PROVE  "cancelled" \notin table'[s].selects
    BY <1>0, <2>6
       DEF UnsubscribeDelete, DeleteSubscription, NobodyHearsCancelled, DeafToCancelled
  <2>7. CASE Serving
    BY <1>0, <2>1, <2>5, <2>6, <2>7, SerialServing DEF PauseRead, PauseAnswer,
       UnsubscribePublish
  <2>8. CASE Dispatching
    BY <2>1, <2>4, <2>8
       DEF Dispatching, DispatcherStep, ListSubscriptions, FanOut, Wake, Answer, ReadRecord,
           Report
  <2>. QED
    BY <2>1, <2>7, <2>8 DEF Next, vars, PublishEvent, Clock, Shutdown, Stop, Crash, LoseDelivery
<1>2. ASSUME NEW i \in DOMAIN dispatches'  PROVE DeafToCancelled(dispatches'[i].snapshot)
  <2>0. i \in DOMAIN dispatches => DeafToCancelled(dispatches[i].snapshot)
    BY <1>0 DEF NobodyHearsCancelled
  <2>1. CASE UNCHANGED dispatches
    BY <1>2, <2>0, <2>1
  <2>2. ASSUME NEW id, NEW event, Publish(id, event)
        PROVE  DeafToCancelled(dispatches'[i].snapshot)
    BY <1>0, <1>2, <2>0, <2>2 DEF Publish
  <2>3. ASSUME NEW id \in DispatchId, ListSubscriptions(id) \/ FanOut(id)
        PROVE  DeafToCancelled(dispatches'[i].snapshot)
    <3>1. /\ \A j \in DOMAIN dispatches : IsDispatch(dispatches[j])
          /\ DeafToCancelled(table)
      BY <1>0 DEF TypeOK, DispatcherTypeOK, EventBusTypeOK, NobodyHearsCancelled
    <3>2. dispatches'[i].snapshot \in {dispatches[i].snapshot, table, NoTable}
      BY <1>2, <2>3, <3>1 DEF ListSubscriptions, FanOut, IsDispatch
    <3>3. i \in DOMAIN dispatches
      BY <1>2, <2>3 DEF ListSubscriptions, FanOut
    <3>. QED  BY <1>0, <2>0, <3>1, <3>2, <3>3
  <2>4. CASE Crash
    <3>1. dispatches'[i].snapshot = NoTable
      BY <1>0, <1>2, <2>4
         DEF Crash, LoseDelivery, TypeOK, DispatcherTypeOK, EventBusTypeOK, IsDispatch
    <3>. QED  BY <1>0, <3>1
  <2>5. CASE Serving
    BY <1>0, <2>1, <2>2, <2>5, SerialServing
       DEF PauseRead, PauseWrite, PauseAnswer, UnsubscribeDelete, UnsubscribePublish
  <2>6. CASE Dispatching
    BY <2>1, <2>3, <2>6
       DEF Dispatching, DispatcherStep, Wake, Answer, ReadRecord, WriteRecord, Report
  <2>7. ASSUME NEW e \in AppEvent, PublishEvent(e)
        PROVE  DeafToCancelled(dispatches'[i].snapshot)
    BY <2>2, <2>7 DEF PublishEvent
  <2>. QED
    BY <2>1, <2>4, <2>5, <2>6, <2>7 DEF Next, vars, Clock, Shutdown, Stop
<1>. QED  BY <1>1, <1>2 DEF NobodyHearsCancelled

LEMMA KindsKept ==
  ASSUME SerialUse, SerialInv, [Next]_vars
  PROVE  EventsAndCancellations'
<1>. SUFFICES ASSUME NEW i \in DOMAIN dispatches'
              PROVE  i \in AppEvent \/ dispatches'[i].event.kind = "cancelled"
  BY DEF EventsAndCancellations
<1>. DEFINE Goal == i \in AppEvent \/ dispatches'[i].event.kind = "cancelled"
<1>0. /\ TypeOK /\ \A j \in DOMAIN dispatches : IsDispatch(dispatches[j])
      /\ i \in DOMAIN dispatches => i \in AppEvent \/ dispatches[i].event.kind = "cancelled"
  BY DEF SerialInv, IInv, EventsAndCancellations, TypeOK, DispatcherTypeOK, EventBusTypeOK
<1>1. CASE UNCHANGED dispatches
  BY <1>0, <1>1
<1>2. ASSUME NEW e \in AppEvent, PublishEvent(e)  PROVE Goal
  BY <1>0, <1>2 DEF PublishEvent, Publish
<1>3. ASSUME NEW r \in Request, UnsubscribePublish(r)  PROVE Goal
  BY <1>0, <1>3 DEF UnsubscribePublish, Publish
<1>4. ASSUME NEW id \in DispatchId, ListSubscriptions(id) \/ FanOut(id)  PROVE Goal
  <2>1. i \in DOMAIN dispatches /\ dispatches'[i].event = dispatches[i].event
    BY <1>0, <1>4 DEF ListSubscriptions, FanOut, IsDispatch
  <2>. QED  BY <1>0, <2>1
<1>5. CASE Crash
  <2>1. i \in DOMAIN dispatches /\ dispatches'[i].event = dispatches[i].event
    BY <1>0, <1>5 DEF Crash, LoseDelivery, IsDispatch
  <2>. QED  BY <1>0, <2>1
<1>6. CASE Serving
  BY <1>0, <1>1, <1>3, <1>6, SerialServing DEF PauseRead, PauseWrite, PauseAnswer,
                                               UnsubscribeDelete
<1>7. CASE Dispatching
  BY <1>1, <1>4, <1>7 DEF Dispatching, DispatcherStep, Wake, Answer, ReadRecord, WriteRecord,
                          Report
<1>. QED
  BY <1>1, <1>2, <1>5, <1>6, <1>7 DEF Next, vars, Clock, Shutdown, Stop

(***************************************************************************)
(* A step that starts deliveries starts those of an event of the           *)
(* application, and finds every other one settled.                         *)
(***************************************************************************)
LEMMA StartsAlone ==
  ASSUME SerialInv, NEW id \in DispatchId, FanOut(id)
  PROVE  \/ /\ DOMAIN deliveries' = DOMAIN deliveries
            /\ \A k \in DOMAIN deliveries : deliveries'[k] = deliveries[k]
         \/ /\ id \in AppEvent /\ Unfanned(id)
            /\ \A k \in DOMAIN deliveries : Settled(k) /\ deliveries'[k] = deliveries[k]
            /\ \A k \in DOMAIN deliveries' \ DOMAIN deliveries : k \in {id} \X Targets(id)
<1>1. id \in DOMAIN dispatches /\ dispatches[id].stage = "listed"
  BY DEF FanOut
<1>2. CASE id \in AppEvent
  <2>1. Unfanned(id)
    BY <1>1 DEF Unfanned
  <2>2. \A k \in DOMAIN deliveries : Settled(k)
    BY <1>2, <2>1 DEF SerialInv, FansOutAlone
  <2>. QED  BY <1>2, <2>1, <2>2 DEF FanOut
<1>3. CASE id \notin AppEvent
  <2>1. Targets(id) = {}
    BY <1>1, <1>3, DeafTargets DEF CancelledReachesNobody, SerialInv, EventsAndCancellations
  <2>2. {id} \X Targets(id) = {}
    BY <2>1
  <2>. QED  BY <2>2 DEF FanOut
<1>. QED  BY <1>2, <1>3

(***************************************************************************)
(* Only a fan-out starts deliveries, and a delivery that has settled stays *)
(* so.                                                                     *)
(***************************************************************************)
LEMMA OpenStaysOld ==
  ASSUME SerialInv, [Next]_vars, NEW k \in DOMAIN deliveries', ~(Settled(k))'
  PROVE  \/ k \in DOMAIN deliveries /\ ~Settled(k)
         \/ \E id \in AppEvent : /\ FanOut(id) /\ Unfanned(id)
                                 /\ k \in {id} \X Targets(id)
<1>. DEFINE Goal == \/ k \in DOMAIN deliveries /\ ~Settled(k)
                    \/ \E id \in AppEvent : /\ FanOut(id) /\ Unfanned(id)
                                            /\ k \in {id} \X Targets(id)
<1>1. CASE k \in DOMAIN deliveries
  BY <1>1, SettledKept DEF Settled
<1>2. CASE k \notin DOMAIN deliveries
  <2>1. ASSUME NEW id \in DispatchId, FanOut(id)  PROVE Goal
    BY <1>2, <2>1, StartsAlone
  <2>2. \E id \in DispatchId : FanOut(id)
    BY <1>2 DEF Next, vars, PublishEvent, Serving, Clock, Shutdown, Stop, Crash, LoseDelivery,
                Dispatching, DispatcherStep, ListSubscriptions, Wake, Answer, ReadRecord,
                WriteRecord, Report
  <2>. QED  BY <2>1, <2>2
<1>. QED  BY <1>1, <1>2

LEMMA OneOpenKept ==
  ASSUME SerialInv, [Next]_vars
  PROVE  OneOpen'
<1>. SUFFICES ASSUME NEW k \in DOMAIN deliveries', NEW l \in DOMAIN deliveries',
                     k[2] = l[2], ~(Settled(k))', ~(Settled(l))'
              PROVE  k = l
  BY DEF OneOpen, Settled
<1>1. CASE /\ k \in DOMAIN deliveries /\ ~Settled(k)
           /\ l \in DOMAIN deliveries /\ ~Settled(l)
  BY <1>1 DEF SerialInv, OneOpen
<1>2. ASSUME NEW id \in AppEvent, Unfanned(id)
      PROVE  \A j \in DOMAIN deliveries : Settled(j)
  BY <1>2 DEF SerialInv, FansOutAlone
<1>3. ASSUME NEW id \in AppEvent, FanOut(id), Unfanned(id), k \in {id} \X Targets(id)
      PROVE  k = l
  <2>1. PICK e \in AppEvent : FanOut(e) /\ Unfanned(e) /\ l \in {e} \X Targets(e)
    BY <1>2, <1>3, OpenStaysOld
  <2>2. e = id
    BY <1>3, <2>1 DEF SerialInv, FansOutAlone
  <2>. QED  BY <1>3, <2>1, <2>2
<1>4. ASSUME NEW id \in AppEvent, FanOut(id), Unfanned(id), l \in {id} \X Targets(id)
      PROVE  k = l
  <2>1. PICK e \in AppEvent : FanOut(e) /\ Unfanned(e) /\ k \in {e} \X Targets(e)
    BY <1>2, <1>4, OpenStaysOld
  <2>. QED  BY <2>1, <1>3
<1>. QED  BY <1>1, <1>3, <1>4, OpenStaysOld

(***************************************************************************)
(* A dispatch of the application is under way only from a publish that     *)
(* found everything settled.                                               *)
(***************************************************************************)
LEMMA UnfannedSteps ==
  ASSUME SerialUse, SerialInv, [Next]_vars, NEW i \in AppEvent, (Unfanned(i))'
  PROVE  \/ Unfanned(i) /\ ~FanOut(i)
         \/ PublishEvent(i) /\ Quiescent
<1>. DEFINE Goal == \/ Unfanned(i) /\ ~FanOut(i)
                    \/ PublishEvent(i) /\ Quiescent
<1>0. \A j \in DOMAIN dispatches : IsDispatch(dispatches[j])
  BY DEF SerialInv, IInv, TypeOK, DispatcherTypeOK, EventBusTypeOK
<1>1. ASSUME UNCHANGED dispatches  PROVE Goal
  <2>1. Unfanned(i)
    BY <1>1 DEF Unfanned
  <2>2. ~FanOut(i)
    <3>1. SUFFICES ASSUME FanOut(i) PROVE FALSE
      OBVIOUS
    <3>2. dispatches'[i].stage = "fanned"
      BY <1>0, <3>1 DEF FanOut, IsDispatch
    <3>. QED  BY <1>1, <2>1, <3>2 DEF Unfanned
  <2>. QED  BY <2>1, <2>2
<1>2. ASSUME NEW e \in AppEvent, PublishEvent(e)  PROVE Goal
  <2>1. CASE e = i
    BY <1>2, <2>1 DEF PublishEvent, SerialUse
  <2>2. CASE e # i
    <3>1. Unfanned(i) /\ dispatches'[i] = dispatches[i]
      BY <1>2, <2>2 DEF PublishEvent, Publish, Unfanned
    <3>2. ASSUME FanOut(i) PROVE FALSE
      BY <1>0, <3>1, <3>2 DEF FanOut, IsDispatch, Unfanned
    <3>. QED  BY <3>1, <3>2
  <2>. QED  BY <2>1, <2>2
<1>3. ASSUME NEW r \in Request, UnsubscribePublish(r)  PROVE Goal
  <2>1. r # i
    BY EventBusAssumption
  <2>2. Unfanned(i) /\ dispatches'[i] = dispatches[i]
    BY <1>3, <2>1 DEF UnsubscribePublish, Publish, Unfanned
  <2>3. ASSUME FanOut(i) PROVE FALSE
    BY <1>0, <2>2, <2>3 DEF FanOut, IsDispatch, Unfanned
  <2>. QED  BY <2>2, <2>3
<1>4. ASSUME NEW id \in DispatchId, ListSubscriptions(id) \/ FanOut(id)  PROVE Goal
  <2>1. Unfanned(i)
    BY <1>0, <1>4 DEF ListSubscriptions, FanOut, IsDispatch, Unfanned
  <2>2. ASSUME FanOut(i) PROVE FALSE
    BY <1>0, <2>2 DEF FanOut, IsDispatch, Unfanned
  <2>. QED  BY <2>1, <2>2
<1>5. ASSUME Crash  PROVE Goal
  BY <1>0, <1>5 DEF Crash, LoseDelivery, IsDispatch, Unfanned
<1>6. CASE Serving
  BY <1>1, <1>3, <1>6, SerialServing DEF PauseRead, PauseWrite, PauseAnswer, UnsubscribeDelete,
                                         SerialInv, IInv
<1>7. CASE Dispatching
  BY <1>1, <1>4, <1>7 DEF Dispatching, DispatcherStep, Wake, Answer, ReadRecord, WriteRecord,
                          Report
<1>. QED
  BY <1>1, <1>2, <1>5, <1>6, <1>7 DEF Next, vars, Clock, Shutdown, Stop

LEMMA AloneKept ==
  ASSUME SerialUse, SerialInv, [Next]_vars
  PROVE  FansOutAlone'
<1>. SUFFICES ASSUME NEW i \in AppEvent, (Unfanned(i))'
              PROVE  /\ \A k \in DOMAIN deliveries' : (Settled(k))'
                     /\ \A j \in AppEvent : (Unfanned(j))' => j = i
  BY DEF FansOutAlone, Unfanned, Settled
<1>1. CASE Unfanned(i) /\ ~FanOut(i)
  <2>1. /\ \A k \in DOMAIN deliveries : Settled(k)
        /\ \A j \in AppEvent : Unfanned(j) => j = i
    BY <1>1 DEF SerialInv, FansOutAlone
  <2>2. ASSUME NEW k \in DOMAIN deliveries', ~(Settled(k))'  PROVE FALSE
    BY <1>1, <2>1, <2>2, OpenStaysOld
  <2>3. ~Quiescent
    BY <1>1 DEF Quiescent, Unfanned
  <2>. QED  BY <2>1, <2>2, <2>3, UnfannedSteps
<1>2. CASE PublishEvent(i) /\ Quiescent
  <2>1. UNCHANGED deliveries /\ \A k \in DOMAIN deliveries : Settled(k)
    BY <1>2 DEF PublishEvent, Quiescent
  <2>2. \A j \in AppEvent : ~Unfanned(j)
    BY <1>2 DEF Quiescent, Unfanned
  <2>3. ASSUME NEW j \in AppEvent, (Unfanned(j))'  PROVE j = i
    <3>1. PublishEvent(j)
      BY <2>2, <2>3, UnfannedSteps
    <3>2. j \notin DOMAIN dispatches /\ j \in DOMAIN dispatches'
      BY <2>3, <3>1 DEF PublishEvent, Unfanned
    <3>. QED  BY <1>2, <3>2 DEF PublishEvent, Publish
  <2>. QED  BY <2>1, <2>3 DEF Settled
<1>. QED  BY <1>1, <1>2, UnfannedSteps

(***************************************************************************)
(* A pause leaves the counter alone, a DELETE removes it, and no delivery  *)
(* writes between the read and the write of another of the same name.      *)
(***************************************************************************)
LEMMA SeenKept ==
  ASSUME SerialUse, SerialInv, [Next]_vars
  PROVE  SeenIsCurrent'
<1>. DEFINE Current(k) == k[2] \in DOMAIN table => deliveries[k].seen = table[k[2]].failure_count
            CountKept(s) == s \in DOMAIN table' =>
              s \in DOMAIN table /\ table'[s].failure_count = table[s].failure_count
<1>. SUFFICES ASSUME NEW k \in DOMAIN deliveries', deliveries'[k].pc = "writing"
              PROVE  (Current(k))'
  BY DEF SeenIsCurrent
<1>0. /\ IsTable(table)
      /\ \A j \in DOMAIN deliveries : deliveries[j] \in Delivery
      /\ \A j \in DOMAIN deliveries : deliveries[j].pc = "writing" => Current(j)
  BY DEF SerialInv, IInv, SeenIsCurrent, TypeOK, SubscriptionsTypeOK, DispatcherTypeOK
<1>1. /\ k \in DOMAIN deliveries /\ ~Settled(k)
      /\ \/ deliveries'[k] = deliveries[k]
         \/ deliveries'[k].seen = table[k[2]].failure_count
  BY WritingSteps, SettledKept DEF Settled, SerialInv, IInv
<1>2. CountKept(k[2])
  <2>1. CASE UNCHANGED table
    BY <2>1
  <2>2. ASSUME NEW j \in DeliveryId, WriteRecord(j)  PROVE CountKept(k[2])
    <3>1. j # k
      BY <1>0, <2>2 DEF WriteRecord, Delivery
    <3>2. j[2] # k[2]
      BY <1>1, <2>2, <3>1 DEF WriteRecord, SerialInv, OneOpen, Settled
    <3>. QED  BY <2>2, <3>2 DEF WriteRecord, UpdateSubscription
  <2>3. ASSUME NEW r \in Request, PauseWrite(r)  PROVE CountKept(k[2])
    BY <1>0, <2>3 DEF PauseWrite, UpdateSubscription, IsTable, SubscriptionRecord
  <2>4. ASSUME NEW r \in Request, NEW s \in SubId, UnsubscribeDelete(r, s)
        PROVE  CountKept(k[2])
    BY <2>4 DEF UnsubscribeDelete, DeleteSubscription
  <2>5. CASE Serving
    BY <2>1, <2>3, <2>4, <2>5, SerialServing
       DEF PauseRead, PauseAnswer, UnsubscribePublish, SerialInv, IInv
  <2>6. CASE Dispatching
    BY <2>1, <2>2, <2>6
       DEF Dispatching, DispatcherStep, ListSubscriptions, FanOut, Wake, Answer, ReadRecord,
           Report
  <2>. QED
    BY <2>1, <2>5, <2>6 DEF Next, vars, PublishEvent, Clock, Shutdown, Stop, Crash, LoseDelivery
<1>. QED  BY <1>0, <1>1, <1>2

LEMMA InitSerialInv == SerialUse /\ Init => SerialInv
<1>. SUFFICES ASSUME SerialUse, Init PROVE SerialInv
  OBVIOUS
<1>1. IInv
  BY InitIInv
<1>2. DOMAIN dispatches = {} /\ DOMAIN deliveries = {}
  BY DEF Init, DispatcherInit
<1>. QED
  BY <1>1, <1>2
     DEF SerialInv, NobodyHearsCancelled, EventsAndCancellations, FansOutAlone, Unfanned, OneOpen,
         SeenIsCurrent, SerialUse, Init

LEMMA NextSerialInv == SerialUse /\ SerialInv /\ [Next]_vars => SerialInv'
<1>. SUFFICES ASSUME SerialUse, SerialInv, [Next]_vars PROVE SerialInv'
  OBVIOUS
<1>1. IInv'
  BY NextIInv DEF SerialInv
<1>. QED
  BY <1>1, HearingKept, KindsKept, AloneKept, OneOpenKept, SeenKept DEF SerialInv

-----------------------------------------------------------------------------
(***************************************************************************)
(* The steps of the dispatcher and of the handlers as steps of             *)
(* FailureStreak.  A delivery is counted there by the step that puts it on *)
(* record; every other step, its report and a crash included, leaves the   *)
(* counts alone.                                                           *)
(***************************************************************************)
Recording(k) == WriteRecord(k) \/ (ReadRecord(k) /\ NothingToWrite(k))

CountsKept == \A s : \A won \in BOOLEAN : Ended(s, won)' = Ended(s, won)

WasOnRecord(k) ==
  OnRecord(deliveries'[k]) =>
    /\ k \in DOMAIN deliveries
    /\ OnRecord(deliveries[k]) /\ deliveries'[k].won = deliveries[k].won

LEMMA NothingRecorded ==
  ASSUME IInv, [Next]_vars, \A k \in DOMAIN deliveries' : WasOnRecord(k)
  PROVE  CountsKept
<1>. SUFFICES ASSUME NEW s, NEW won \in BOOLEAN  PROVE Ended(s, won)' = Ended(s, won)
  BY DEF CountsKept
<1>1. Ended(s, won) \subseteq Ended(s, won)'
  BY EndedGrow
<1>2. ASSUME NEW k \in Ended(s, won)'  PROVE k \in Ended(s, won)
  <2>1. /\ k \in DOMAIN deliveries' /\ k[2] = s
        /\ OnRecord(deliveries'[k]) /\ deliveries'[k].won = won
    BY <1>2 DEF Ended, OnRecord
  <2>. QED  BY <2>1 DEF Ended, WasOnRecord
<1>. QED  BY <1>1, <1>2

LEMMA NotRecorded ==
  ASSUME NEW d \in Delivery, d.result = "pending", d.pc # "reporting",
         NEW n \in 1 .. MaxAttempts + 1
  PROVE  ~OnRecord(AttemptOrAbort(d)) /\ ~OnRecord(EnterLoop(d, n))
<1>1. MaxAttempts \in Nat \ {0}
  BY MaxAttemptsType
<1>2. ASSUME NEW e \in Delivery, e.result = "pending", e.pc # "reporting"
      PROVE  ~OnRecord(AttemptOrAbort(e))
  BY <1>2 DEF AttemptOrAbort, Settle, Delivery, OnRecord
<1>3. CASE n > MaxAttempts
  BY <1>2, <1>3 DEF EnterLoop, Delivery, OnRecord
<1>4. CASE ~(n > MaxAttempts)
  <2>. DEFINE e == [d EXCEPT !.attempt = n]
              f == [d EXCEPT !.pc = "asleep", !.attempt = n]
  <2>1. e \in Delivery /\ e.result = "pending" /\ e.pc # "reporting"
    BY <1>1, <1>4 DEF Delivery
  <2>2. ~OnRecord(f)
    BY DEF Delivery, OnRecord
  <2>. QED  BY <1>2, <1>4, <2>1, <2>2 DEF EnterLoop
<1>. QED  BY <1>2, <1>3, <1>4

LEMMA QuietSteps ==
  ASSUME IInv, [Next]_vars, \A k \in DeliveryId : ~Recording(k)
  PROVE  CountsKept
<1>. SUFFICES ASSUME NEW k \in DOMAIN deliveries'  PROVE WasOnRecord(k)
  BY NothingRecorded
<1>0. /\ \A j \in DOMAIN deliveries : deliveries[j] \in Delivery
      /\ \A j \in DOMAIN deliveries :
           deliveries[j].pc # "settled" => deliveries[j].result = "pending"
      /\ DOMAIN deliveries \subseteq DeliveryId
  BY DEF IInv, TypeOK, DispatcherTypeOK, PendingUntilSettled, Settled
<1>1. MaxAttempts \in Nat \ {0}
  BY MaxAttemptsType
<1>2. ASSUME k \in DOMAIN deliveries, deliveries'[k] = deliveries[k]  PROVE WasOnRecord(k)
  BY <1>2 DEF WasOnRecord
<1>3. ASSUME NEW id \in DispatchId, FanOut(id)  PROVE WasOnRecord(k)
  <2>1. CASE k \in DOMAIN deliveries
    BY <1>2, <1>3, <2>1 DEF FanOut
  <2>2. CASE k \notin DOMAIN deliveries
    <3>. DEFINE rec == dispatches[id].snapshot[k[2]]
    <3>1. rec \in SubscriptionRecord
      <4>1. k[2] \in DOMAIN dispatches[id].snapshot
        BY <1>3, <2>2 DEF FanOut, Targets
      <4>2. IsTable(dispatches[id].snapshot)
        BY <1>3 DEF FanOut, IInv, TypeOK, DispatcherTypeOK, EventBusTypeOK, IsDispatch
      <4>. QED  BY <4>1, <4>2 DEF IsTable
    <3>2. /\ NewDelivery(rec) \in Delivery /\ NewDelivery(rec).result = "pending"
          /\ NewDelivery(rec).pc # "reporting"
      BY <1>1, <3>1 DEF NewDelivery, Delivery
    <3>3. deliveries'[k] = EnterLoop(NewDelivery(rec), 1)
      BY <1>3, <2>2 DEF FanOut
    <3>4. 1 \in 1 .. MaxAttempts + 1
      BY <1>1
    <3>. QED  BY <3>2, <3>3, <3>4, NotRecorded DEF WasOnRecord
  <2>. QED  BY <2>1, <2>2
<1>4. ASSUME NEW j \in DeliveryId,
             Wake(j) \/ Answer(j) \/ (ReadRecord(j) /\ ~NothingToWrite(j)) \/ Report(j)
      PROVE  WasOnRecord(k)
  <2>. DEFINE d == deliveries[j]
  <2>1. /\ j \in DOMAIN deliveries /\ d \in Delivery
        /\ d.result = "pending" /\ d.attempt \in 1 .. MaxAttempts
        /\ Report(j) \/ d.pc # "reporting"
    BY <1>0, <1>4 DEF Wake, Answer, ReadRecord, Report, Delivery
  <2>2. d.attempt \in 1 .. MaxAttempts + 1 /\ d.attempt + 1 \in 1 .. MaxAttempts + 1
    BY <1>1, <2>1
  <2>3. CASE k # j
    BY <1>2, <1>4, <2>3 DEF Wake, Answer, ReadRecord, Report
  <2>4. CASE k = j /\ Wake(j)
    BY <2>1, <2>2, <2>4, NotRecorded DEF Wake, WasOnRecord
  <2>5. CASE k = j /\ Answer(j)
    <3>1. d.pc = "posting"
      BY <2>5 DEF Answer
    <3>2. ~OnRecord([d EXCEPT !.pc = "reading", !.won = TRUE])
      BY <2>1 DEF Delivery, OnRecord
    <3>3. ~OnRecord(EnterLoop(d, d.attempt + 1))
      BY <2>1, <2>2, <3>1, NotRecorded
    <3>. QED  BY <2>1, <2>5, <3>2, <3>3 DEF Answer, WasOnRecord
  <2>6. CASE k = j /\ ReadRecord(j) /\ ~NothingToWrite(j)
    <3>1. ~OnRecord([d EXCEPT !.pc = "writing", !.seen = table[j[2]].failure_count])
      BY <2>1 DEF Delivery, OnRecord
    <3>. QED  BY <2>1, <2>6, <3>1 DEF ReadRecord, WasOnRecord
  <2>7. CASE k = j /\ Report(j)
    <3>1. OnRecord(d)
      BY <2>7 DEF Report, OnRecord
    <3>2. Settle(d, Outcome(d)).won = d.won
      BY <2>1 DEF Settle, Delivery
    <3>3. deliveries'[k] = Settle(d, Outcome(d))
      BY <2>1, <2>7 DEF Report
    <3>. QED  BY <2>1, <2>7, <3>1, <3>2, <3>3 DEF WasOnRecord
  <2>. QED  BY <1>4, <2>3, <2>4, <2>5, <2>6, <2>7
<1>5. CASE Crash
  <2>1. /\ k \in DOMAIN deliveries
        /\ \/ deliveries'[k] = deliveries[k]
           \/ ~Settled(k) /\ deliveries'[k] = LoseDelivery(deliveries[k])
    BY <1>5 DEF Crash
  <2>2. \A d \in Delivery : Settle(d, "lost").result = "lost" /\ Settle(d, "lost").pc = "settled"
    BY DEF Settle, Delivery
  <2>3. \A d \in Delivery : Settle(d, "unreported").won = d.won
    BY DEF Settle, Delivery
  <2>4. CASE deliveries[k].pc = "reporting" /\ ~(deliveries'[k] = deliveries[k])
    BY <1>0, <2>1, <2>3, <2>4 DEF LoseDelivery, OnRecord, WasOnRecord
  <2>5. CASE deliveries[k].pc # "reporting" /\ ~(deliveries'[k] = deliveries[k])
    BY <1>0, <2>1, <2>2, <2>5 DEF LoseDelivery, OnRecord, WasOnRecord
  <2>. QED  BY <1>2, <2>1, <2>4, <2>5
<1>6. CASE UNCHANGED deliveries
  BY <1>2, <1>6
<1>7. CASE Dispatching
  BY <1>3, <1>4, <1>6, <1>7 DEF Dispatching, DispatcherStep, ListSubscriptions, Recording
<1>. QED
  BY <1>5, <1>6, <1>7 DEF Next, vars, PublishEvent, Serving, Clock, Shutdown, Stop

(***************************************************************************)
(* Putting one delivery on record counts it, once, for its subscription    *)
(* alone.                                                                  *)
(***************************************************************************)
Count(won) == [s \in SubId |-> Cardinality(Ended(s, won))]

LEMMA CountedSteps ==
  ASSUME IInv, NEW k \in DOMAIN deliveries, ~OnRecord(deliveries[k]),
         NEW d, OnRecord(d), deliveries' = [deliveries EXCEPT ![k] = d],
         NEW won \in BOOLEAN, d.won = won, NEW other \in BOOLEAN, other # won
  PROVE  /\ Count(won)' = [Count(won) EXCEPT ![k[2]] = @ + 1]
         /\ Count(other)' = Count(other)
<1>1. DOMAIN deliveries \subseteq DeliveryId
  BY DEF IInv, TypeOK, DispatcherTypeOK
<1>2. /\ deliveries'[k] = d /\ DOMAIN deliveries' = DOMAIN deliveries
      /\ \A j \in DOMAIN deliveries : j # k => deliveries'[j] = deliveries[j]
  OBVIOUS
<1>3. ASSUME NEW s
      PROVE  Cardinality(Ended(s, won))' =
               IF s = k[2] THEN Cardinality(Ended(s, won)) + 1 ELSE Cardinality(Ended(s, won))
  <2>1. Ended(s, won)' = IF s = k[2] THEN Ended(s, won) \cup {k} ELSE Ended(s, won)
    <3>1. ASSUME NEW j
          PROVE  j \in Ended(s, won)' <=> j \in Ended(s, won) \/ (s = k[2] /\ j = k)
      <4>1. CASE j = k
        BY <1>2, <4>1 DEF Ended, OnRecord
      <4>2. CASE j # k
        BY <1>2, <4>2 DEF Ended, OnRecord
      <4>. QED  BY <4>1, <4>2
    <3>. QED  BY <3>1
  <2>2. k \notin Ended(s, won)
    BY DEF Ended
  <2>3. IsFiniteSet(Ended(s, won))
    BY <1>1, FiniteDeliveries DEF Ended
  <2>4. Cardinality(Ended(s, won) \cup {k}) = Cardinality(Ended(s, won)) + 1
    BY <2>2, <2>3, FS_AddElement
  <2>5. Cardinality(Ended(s, won))' = Cardinality(Ended(s, won)')
    OBVIOUS
  <2>. QED  BY <2>1, <2>4, <2>5
<1>4. ASSUME NEW s  PROVE Ended(s, other)' = Ended(s, other)
  <2>1. ASSUME NEW j  PROVE j \in Ended(s, other)' <=> j \in Ended(s, other)
    <3>1. CASE j = k
      BY <1>2, <3>1 DEF Ended, OnRecord
    <3>2. CASE j # k
      BY <1>2, <3>2 DEF Ended, OnRecord
    <3>. QED  BY <3>1, <3>2
  <2>. QED  BY <2>1
<1>5. \A s \in SubId : Cardinality(Ended(s, other))' = Cardinality(Ended(s, other))
  BY <1>4
<1>. QED  BY <1>3, <1>5 DEF Count

LEMMA CountsStay ==
  ASSUME CountsKept
  PROVE  \A won \in BOOLEAN : Count(won)' = Count(won)
<1>1. \A s : \A won \in BOOLEAN : Cardinality(Ended(s, won))' = Cardinality(Ended(s, won))
  BY DEF CountsKept
<1>. QED  BY <1>1 DEF Count

(***************************************************************************)
(* What putting a delivery on record does to the records of the table.     *)
(***************************************************************************)
LEMMA SuccessWritten ==
  ASSUME SerialInv, NEW k \in DeliveryId, deliveries[k].won,
         Recording(k)
  PROVE  /\ DOMAIN table' = DOMAIN table
         /\ \A i \in DOMAIN table :
              /\ table'[i].failure_count = IF i = k[2] THEN 0 ELSE table[i].failure_count
              /\ table'[i].status = table[i].status
<1>1. \A i \in DOMAIN table : table[i] \in SubscriptionRecord
  BY DEF SerialInv, IInv, TypeOK, SubscriptionsTypeOK, IsTable
<1>2. CASE WriteRecord(k)
  BY <1>1, <1>2 DEF WriteRecord, UpdateSubscription, AfterSuccess, SubscriptionRecord
<1>3. CASE ReadRecord(k) /\ NothingToWrite(k)
  BY <1>3 DEF ReadRecord, NothingToWrite
<1>. QED  BY <1>2, <1>3 DEF Recording

LEMMA FailureWritten ==
  ASSUME SerialInv, NEW k \in DeliveryId, ~deliveries[k].won,
         Recording(k)
  PROVE  /\ DOMAIN table' = DOMAIN table
         /\ \A i \in DOMAIN table :
              /\ table'[i].failure_count =
                   IF i = k[2] THEN table[i].failure_count + 1 ELSE table[i].failure_count
              /\ table'[i].status =
                   IF i = k[2] /\ table[i].failure_count + 1 >= PauseAfterFailures
                   THEN "paused" ELSE table[i].status
<1>1. \A i \in DOMAIN table : table[i] \in SubscriptionRecord
  BY DEF SerialInv, IInv, TypeOK, SubscriptionsTypeOK, IsTable
<1>2. CASE WriteRecord(k)
  <2>1. k[2] \in DOMAIN table => deliveries[k].seen = table[k[2]].failure_count
    BY <1>2 DEF WriteRecord, SerialInv, SeenIsCurrent
  <2>2. /\ DOMAIN table' = DOMAIN table
        /\ \A i \in DOMAIN table :
             table'[i] = IF i = k[2] THEN AfterFailure(table[i], deliveries[k].seen) ELSE table[i]
    BY <1>2 DEF WriteRecord, UpdateSubscription
  <2>3. ASSUME NEW rec \in SubscriptionRecord, NEW seen
        PROVE  /\ AfterFailure(rec, seen).failure_count = seen + 1
               /\ AfterFailure(rec, seen).status =
                    IF seen + 1 >= PauseAfterFailures THEN "paused" ELSE rec.status
    BY DEF AfterFailure, SubscriptionRecord
  <2>. QED  BY <1>1, <2>1, <2>2, <2>3
<1>3. CASE ReadRecord(k) /\ NothingToWrite(k)
  BY <1>3 DEF ReadRecord, NothingToWrite
<1>. QED  BY <1>2, <1>3 DEF Recording

LEMMA RecordingIsCounted ==
  ASSUME SerialInv, [Next]_vars, NEW k \in DeliveryId, Recording(k)
  PROVE  Streak!Next
<1>. DEFINE d == deliveries[k]
<1>1. k \in DOMAIN deliveries /\ k[2] \in SubId /\ d \in Delivery /\ d.won \in BOOLEAN
  BY DEF Recording, WriteRecord, ReadRecord, DeliveryId, SerialInv, IInv, TypeOK,
         DispatcherTypeOK, Delivery
<1>2. d.pc \in {"reading", "writing"} /\ d.result = "pending"
  BY DEF Recording, WriteRecord, ReadRecord, SerialInv, IInv, PendingUntilSettled, Settled
<1>3. PICK e : /\ deliveries' = [deliveries EXCEPT ![k] = e]
               /\ e = Settle(d, Outcome(d)) \/ e = [d EXCEPT !.pc = "reporting", !.seen = 0]
  BY <1>1 DEF Recording, WriteRecord, ReadRecord
<1>4. OnRecord(e) /\ e.won = d.won
  BY <1>1, <1>3 DEF OnRecord, Settle, Outcome, Delivery
<1>5. ~OnRecord(d)
  BY <1>2 DEF OnRecord
<1>6. IInv
  BY DEF SerialInv
<1>7. CASE d.won
  <2>1. Count(TRUE)' = [Count(TRUE) EXCEPT ![k[2]] = @ + 1] /\ Count(FALSE)' = Count(FALSE)
    BY <1>1, <1>3, <1>4, <1>5, <1>6, <1>7, CountedSteps
  <2>2. /\ DOMAIN table' = DOMAIN table
        /\ \A i \in DOMAIN table :
             /\ table'[i].failure_count = IF i = k[2] THEN 0 ELSE table[i].failure_count
             /\ table'[i].status = table[i].status
    BY <1>7, SuccessWritten
  <2>. DEFINE streak == [s \in DOMAIN table |-> table[s].failure_count]
              status == [s \in DOMAIN table |-> table[s].status]
  <2>3. status' = status
    BY <2>2
  <2>4. streak' = IF k[2] \in DOMAIN table THEN [streak EXCEPT ![k[2]] = 0] ELSE streak
    BY <2>2
  <2>5. Streak!Succeed(k[2])
    BY <2>1, <2>3, <2>4 DEF Streak!Succeed, Streak!Exists, FailedDeliveries, Count
  <2>. QED  BY <1>1, <2>5 DEF Streak!Next
<1>8. CASE ~d.won
  <2>1. Count(FALSE)' = [Count(FALSE) EXCEPT ![k[2]] = @ + 1] /\ Count(TRUE)' = Count(TRUE)
    BY <1>1, <1>3, <1>4, <1>5, <1>6, <1>8, CountedSteps
  <2>2. /\ DOMAIN table' = DOMAIN table
        /\ \A i \in DOMAIN table :
             /\ table'[i].failure_count =
                  IF i = k[2] THEN table[i].failure_count + 1 ELSE table[i].failure_count
             /\ table'[i].status =
                  IF i = k[2] /\ table[i].failure_count + 1 >= PauseAfterFailures
                  THEN "paused" ELSE table[i].status
    BY <1>8, FailureWritten
  <2>. DEFINE streak == [s \in DOMAIN table |-> table[s].failure_count]
              status == [s \in DOMAIN table |-> table[s].status]
  <2>3. CASE k[2] \in DOMAIN table
    <3>1. streak' = [streak EXCEPT ![k[2]] = @ + 1]
      BY <2>2, <2>3
    <3>2. status' = IF streak[k[2]] + 1 >= PauseAfterFailures
                    THEN [status EXCEPT ![k[2]] = "paused"] ELSE status
      BY <2>2, <2>3
    <3>3. Streak!Fail(k[2])
      BY <2>1, <2>3, <3>1, <3>2 DEF Streak!Fail, Streak!Exists, FailedDeliveries, Count
    <3>. QED  BY <1>1, <3>3 DEF Streak!Next
  <2>4. CASE k[2] \notin DOMAIN table
    <3>1. UNCHANGED <<streak, status>>
      BY <2>2, <2>4
    <3>2. Streak!Fail(k[2])
      BY <2>1, <2>4, <3>1 DEF Streak!Fail, Streak!Exists, FailedDeliveries, Count
    <3>. QED  BY <1>1, <3>2 DEF Streak!Next
  <2>. QED  BY <2>3, <2>4
<1>. QED  BY <1>1, <1>7, <1>8

LEMMA QuietIsStutter ==
  ASSUME CountsKept, DOMAIN table' = DOMAIN table,
         \A i \in DOMAIN table : /\ table'[i].failure_count = table[i].failure_count
                                 /\ table'[i].status = table[i].status
  PROVE  UNCHANGED Streak!vars
<1>1. Count(TRUE)' = Count(TRUE) /\ Count(FALSE)' = Count(FALSE)
  BY CountsStay
<1>. QED  BY <1>1 DEF Streak!vars, FailedDeliveries, Count

LEMMA PauseIsPause ==
  ASSUME SerialInv, CountsKept, NEW r \in Request, PauseWrite(r)
  PROVE  [Streak!Next]_(Streak!vars)
<1>0. PICK i : i = requests[r].sub
  OBVIOUS
<1>1. \A s \in DOMAIN table : table[s] \in SubscriptionRecord
  BY DEF SerialInv, IInv, TypeOK, SubscriptionsTypeOK, IsTable
<1>2. /\ DOMAIN table' = DOMAIN table
      /\ \A s \in DOMAIN table :
           /\ table'[s].failure_count = table[s].failure_count
           /\ table'[s].status = IF s = i THEN "paused" ELSE table[s].status
  BY <1>0, <1>1 DEF PauseWrite, UpdateSubscription, SubscriptionRecord
<1>3. CASE i \notin DOMAIN table
  BY <1>2, <1>3, QuietIsStutter
<1>4. CASE i \in DOMAIN table
  <2>1. Count(TRUE)' = Count(TRUE) /\ Count(FALSE)' = Count(FALSE)
    BY CountsStay
  <2>2. i \in SubId
    BY <1>4 DEF SerialInv, IInv, TypeOK, SubscriptionsTypeOK, IsTable
  <2>3. Streak!Pause(i)
    BY <1>2, <1>4, <2>1 DEF Streak!Pause, Streak!Exists, FailedDeliveries, Count
  <2>. QED  BY <2>2, <2>3 DEF Streak!Next
<1>. QED  BY <1>3, <1>4

LEMMA DeleteIsCancel ==
  ASSUME SerialInv, CountsKept, NEW r \in Request, NEW i \in SubId, UnsubscribeDelete(r, i)
  PROVE  [Streak!Next]_(Streak!vars)
<1>1. /\ DOMAIN table' = DOMAIN table \ {i}
      /\ \A s \in DOMAIN table' : table'[s] = table[s]
  BY DEF UnsubscribeDelete, DeleteSubscription
<1>2. CASE i \notin DOMAIN table
  BY <1>1, <1>2, QuietIsStutter
<1>3. CASE i \in DOMAIN table
  <2>1. Count(TRUE)' = Count(TRUE) /\ Count(FALSE)' = Count(FALSE)
    BY CountsStay
  <2>2. Streak!Cancel(i)
    BY <1>1, <1>3, <2>1 DEF Streak!Cancel, Streak!Exists, FailedDeliveries, Count
  <2>. QED  BY <2>2 DEF Streak!Next
<1>. QED  BY <1>2, <1>3

LEMMA StepIsStreakStep ==
  ASSUME SerialUse, SerialInv, [Next]_vars
  PROVE  [Streak!Next]_(Streak!vars)
<1>1. CASE \E k \in DeliveryId : Recording(k)
  BY <1>1, RecordingIsCounted
<1>2. CASE \A k \in DeliveryId : ~Recording(k)
  <2>1. CountsKept
    BY <1>2, QuietSteps DEF SerialInv
  <2>2. CASE UNCHANGED table
    BY <2>1, <2>2, QuietIsStutter
  <2>3. CASE Serving
    BY <2>1, <2>2, <2>3, SerialServing, PauseIsPause, DeleteIsCancel
       DEF PauseRead, PauseAnswer, UnsubscribePublish, SerialInv, IInv
  <2>. QED
    BY <1>2, <2>2, <2>3
       DEF Next, vars, PublishEvent, Clock, Shutdown, Stop, Crash, Dispatching,
           DispatcherStep, ListSubscriptions, FanOut, Wake, Answer, ReadRecord, Report, Recording
<1>. QED  BY <1>1, <1>2

LEMMA InitIsStreakInit ==
  ASSUME Init
  PROVE  Streak!Init
<1>1. /\ IsTable(table) /\ \A s \in DOMAIN table : /\ table[s].status = "active"
                                                   /\ table[s].failure_count = 0
  BY SubscriptionsAssumption DEF Init
<1>2. DOMAIN table \in SUBSET SubId
  BY <1>1 DEF IsTable
<1>3. \A s, q : Cardinality(Ended(s, q)) = 0
  <2>1. \A s, q : Ended(s, q) = {}
    BY DEF Init, DispatcherInit, Ended
  <2>. QED  BY <2>1, FS_EmptySet
<1>. QED  BY <1>1, <1>2, <1>3 DEF Streak!Init, FailedDeliveries

(***************************************************************************)
(* recordSuccess and recordFailure keep the promise of FailureStreak: each *)
(* failed delivery adds one to the streak of its subscription and pauses   *)
(* it at the threshold, each delivered one clears the streak, and no other *)
(* step of the server counts anything.                                     *)
(***************************************************************************)
THEOREM StreakIsKept == ASSUME SerialUse PROVE Spec => StreakKept
<1>1. Init => SerialInv /\ Streak!Init
  BY InitSerialInv, InitIsStreakInit
<1>2. SerialInv /\ [Next]_vars => SerialInv' /\ [Streak!Next]_(Streak!vars)
  BY NextSerialInv, StepIsStreakStep
<1>. QED  BY <1>1, <1>2, PTL DEF Spec, StreakKept, Streak!Spec
-----------------------------------------------------------------------------
(***************************************************************************)
(* The life of one delivery, for every schedule, through stop() and        *)
(* crashes.                                                                *)
(***************************************************************************)

(***************************************************************************)
(* What has been reported of a delivery is never taken back or reported    *)
(* again, and no entry of the log is lost or rewritten.                    *)
(***************************************************************************)
OutcomesAreFinal ==
  [][/\ \A k \in DOMAIN deliveries :
          Settled(k) => k \in DOMAIN deliveries' /\ deliveries'[k] = deliveries[k]
     /\ deliveryLog \subseteq deliveryLog']_vars

LEMMA LogGrows == [Next]_vars => deliveryLog \subseteq deliveryLog'
BY DEF Next, vars, PublishEvent, Dispatching, DispatcherStep, ListSubscriptions, FanOut, Wake,
       Answer, ReadRecord, WriteRecord, Report, Serving, Clock, Shutdown, Stop, Crash,
       LoseDelivery

(***************************************************************************)
(* A reported outcome and a logged attempt stay as they are: neither a     *)
(* late answer, a shutdown nor a crash touches them.                       *)
(***************************************************************************)
THEOREM OutcomesAreFinalHolds == Spec => OutcomesAreFinal
<1>1. [Next]_vars =>
        [/\ \A k \in DOMAIN deliveries :
              Settled(k) => k \in DOMAIN deliveries' /\ deliveries'[k] = deliveries[k]
         /\ deliveryLog \subseteq deliveryLog']_vars
  BY SettledKept, LogGrows
<1>. QED  BY <1>1, PTL DEF OutcomesAreFinal, Spec

(***************************************************************************)
(* An attempt has one entry in the log: it is never reported as an interim *)
(* failure and as the last word, or as a failure and a success.            *)
(***************************************************************************)
OneEntryPerAttempt ==
  \A x, y \in deliveryLog : x.delivery = y.delivery /\ x.attempt = y.attempt => x = y

LEMMA LogSteps ==
  ASSUME TypeOK, LogInv, [Next]_vars
  PROVE  \/ UNCHANGED deliveryLog
         \/ \E y \in LogEntry :
              /\ deliveryLog' = deliveryLog \cup {y}
              /\ \A x \in deliveryLog : x.delivery = y.delivery => x.attempt < y.attempt
<1>1. ASSUME NEW k \in DeliveryId, Answer(k)
      PROVE  \/ UNCHANGED deliveryLog
             \/ \E y \in LogEntry :
                  /\ deliveryLog' = deliveryLog \cup {y}
                  /\ \A x \in deliveryLog : x.delivery = y.delivery => x.attempt < y.attempt
  <2>1. k \in DOMAIN deliveries /\ InLoop(deliveries[k]) /\ deliveries[k] \in Delivery
    BY <1>1 DEF Answer, InLoop, TypeOK, DispatcherTypeOK
  <2>2. \A x \in deliveryLog : x.delivery = k => x.attempt < deliveries[k].attempt
    BY <2>1 DEF LogInv, EntryFits
  <2>3. CASE UNCHANGED deliveryLog
    BY <2>3
  <2>4. CASE ~UNCHANGED deliveryLog
    <3>. DEFINE y(ok) == [delivery |-> k, attempt |-> deliveries[k].attempt,
                          final_status |-> FinalStatus(ok, deliveries[k].attempt)]
    <3>1. PICK ok \in BOOLEAN : deliveryLog' = deliveryLog \cup {y(ok)}
      BY <1>1, <2>4 DEF Answer
    <3>2. y(ok) \in LogEntry /\ y(ok).delivery = k /\ y(ok).attempt = deliveries[k].attempt
      BY <2>1 DEF LogEntry, FinalStatus, Delivery
    <3>. HIDE DEF y
    <3>. QED  BY <2>2, <3>1, <3>2
  <2>. QED  BY <2>3, <2>4
<1>. QED
  BY <1>1 DEF Next, vars, PublishEvent, Dispatching, DispatcherStep, ListSubscriptions, FanOut,
              Wake, ReadRecord, WriteRecord, Report, Serving, Clock, Shutdown, Stop, Crash,
              LoseDelivery

(***************************************************************************)
(* An attempt has at most one entry in the delivery log: it is logged by   *)
(* the answer that ends it, and what was logged before belongs to earlier  *)
(* attempts.                                                               *)
(***************************************************************************)
THEOREM LoggedOnce == Spec => []OneEntryPerAttempt
<1>1. Init => LogInv /\ OneEntryPerAttempt
  BY DEF Init, DispatcherInit, LogInv, OneEntryPerAttempt
<1>2. ASSUME TypeOK, LogInv, OneEntryPerAttempt, [Next]_vars  PROVE OneEntryPerAttempt'
  <2>1. deliveryLog \subseteq LogEntry
    BY <1>2 DEF TypeOK, DispatcherTypeOK
  <2>2. CASE UNCHANGED deliveryLog
    BY <1>2, <2>2 DEF OneEntryPerAttempt
  <2>3. CASE \E y \in LogEntry :
               /\ deliveryLog' = deliveryLog \cup {y}
               /\ \A x \in deliveryLog : x.delivery = y.delivery => x.attempt < y.attempt
    <3>1. PICK y \in LogEntry :
            /\ deliveryLog' = deliveryLog \cup {y}
            /\ \A x \in deliveryLog : x.delivery = y.delivery => x.attempt < y.attempt
      BY <2>3
    <3>2. \A x \in LogEntry : x.attempt \in Nat
      BY MaxAttemptsType DEF LogEntry
    <3>3. \A x \in deliveryLog : x.delivery = y.delivery => x.attempt # y.attempt
      BY <2>1, <3>1, <3>2
    <3>. QED  BY <1>2, <3>1, <3>3 DEF OneEntryPerAttempt
  <2>. QED  BY <1>2, <2>2, <2>3, LogSteps
<1>. QED  BY <1>1, <1>2, NextLogInv, TypeCorrect, PTL DEF Spec

(***************************************************************************)
(* The log of a delivery is written attempt by attempt: a step adds one    *)
(* entry at most, for an attempt later than every one logged before.       *)
(***************************************************************************)
LogInTurn ==
  [][\/ UNCHANGED deliveryLog
     \/ \E y \in LogEntry :
          /\ deliveryLog' = deliveryLog \cup {y}
          /\ \A x \in deliveryLog : x.delivery = y.delivery => x.attempt < y.attempt]_vars

(***************************************************************************)
(* No attempt is logged twice, and none after a later one, whatever the    *)
(* attempts of other deliveries do in between.                             *)
(***************************************************************************)
THEOREM LogIsWrittenInTurn == Spec => LogInTurn
<1>1. TypeOK /\ LogInv /\ [Next]_vars =>
        [\/ UNCHANGED deliveryLog
         \/ \E y \in LogEntry :
              /\ deliveryLog' = deliveryLog \cup {y}
              /\ \A x \in deliveryLog : x.delivery = y.delivery => x.attempt < y.attempt]_vars
  BY LogSteps
<1>2. Init => LogInv
  BY DEF Init, DispatcherInit, LogInv
<1>. QED  BY <1>1, <1>2, NextLogInv, TypeCorrect, PTL DEF LogInTurn, Spec

(***************************************************************************)
(* What one step may do to a delivery that is there.                       *)
(***************************************************************************)
Moves(k) ==
  LET d == deliveries[k] IN
    \/ deliveries'[k] = d
    \/ /\ d.pc \notin {"settled", "reporting"} /\ crashes' > 0
       /\ deliveries'[k] = Settle(d, "lost")
    \/ /\ d.pc = "reporting" /\ crashes' > 0
       /\ deliveries'[k] = Settle(d, "unreported")
    \/ d.pc = "asleep" /\ deliveries'[k] = AttemptOrAbort(d)
    \/ /\ d.pc = "posting"
       /\ \/ deliveries'[k] = [d EXCEPT !.pc = "reading", !.won = TRUE]
          \/ deliveries'[k] = EnterLoop(d, d.attempt + 1)
    \/ /\ d.pc = "reading"
       /\ deliveries'[k] = [d EXCEPT !.pc = "writing", !.seen = table[k[2]].failure_count]
    \/ d.pc = "writing" /\ deliveries'[k] = [d EXCEPT !.pc = "reporting", !.seen = 0]
    \/ d.pc \in {"reading", "reporting"} /\ deliveries'[k] = Settle(d, Outcome(d))

LEMMA CrashCounts ==
  ASSUME TypeOK, Crash
  PROVE  crashes' > 0 /\ crashes >= 0
<1>1. crashes' = crashes + 1
  BY Zenon DEF Crash, LoseDelivery
<1>2. crashes \in 0 .. MaxCrashes
  BY Zenon DEF TypeOK
<1>. QED  BY <1>1, <1>2, SystemAssumption

LEMMA DeliveryMoves ==
  ASSUME TypeOK, [Next]_vars, NEW k \in DOMAIN deliveries
  PROVE  k \in DOMAIN deliveries' /\ Moves(k)
<1>1. CASE UNCHANGED deliveries
  BY <1>1 DEF Moves
<1>2. CASE Dispatching
  <2>1. ASSUME NEW id \in DispatchId, ListSubscriptions(id) \/ FanOut(id)
        PROVE  k \in DOMAIN deliveries' /\ Moves(k)
    BY <2>1 DEF ListSubscriptions, FanOut, Moves
  <2>2. ASSUME NEW j \in DeliveryId,
               \/ Wake(j) \/ Answer(j) \/ ReadRecord(j) \/ WriteRecord(j) \/ Report(j)
        PROVE  k \in DOMAIN deliveries' /\ Moves(k)
    <3>1. CASE j # k
      BY <2>2, <3>1 DEF Wake, Answer, ReadRecord, WriteRecord, Report, Moves
    <3>2. CASE j = k
      BY <2>2, <3>2 DEF Wake, Answer, ReadRecord, WriteRecord, Report, Moves
    <3>. QED  BY <3>1, <3>2
  <2>. QED  BY <1>2, <2>1, <2>2 DEF Dispatching, DispatcherStep
<1>3. CASE Crash
  <2>1. crashes' > 0
    BY <1>3, CrashCounts
  <2>2. /\ k \in DOMAIN deliveries'
        /\ deliveries'[k] = IF Settled(k) THEN deliveries[k] ELSE LoseDelivery(deliveries[k])
    BY <1>3 DEF Crash
  <2>. QED  BY <2>1, <2>2 DEF Moves, Settled, LoseDelivery
<1>4. CASE UNCHANGED vars \/ Serving \/ Clock \/ Shutdown \/ \E e \in AppEvent : PublishEvent(e)
  BY <1>1, <1>4 DEF vars, Serving, Clock, Shutdown, Stop, PublishEvent
<1>. QED  BY <1>2, <1>3, <1>4 DEF Next

(***************************************************************************)
(* The attempts of a delivery are made one after the other, to the record  *)
(* captured at the fan-out: none is skipped or made twice, the next one    *)
(* is entered only from a POST that was answered without success.          *)
(***************************************************************************)
AttemptsInTurn ==
  [][\A k \in DOMAIN deliveries :
       /\ k \in DOMAIN deliveries' /\ deliveries'[k].sub = deliveries[k].sub
       /\ deliveries'[k].attempt # deliveries[k].attempt =>
            /\ deliveries[k].pc = "posting" /\ deliveries'[k].pc # "reading"
            /\ deliveries'[k].attempt = deliveries[k].attempt + 1]_vars

LEMMA LoopKeeps ==
  ASSUME NEW d \in Delivery
  PROVE  /\ AttemptOrAbort(d).sub = d.sub /\ AttemptOrAbort(d).attempt = d.attempt
         /\ d.pc \in {"asleep", "posting"} => AttemptOrAbort(d).pc # "reading"
         /\ \A n \in 1 .. MaxAttempts + 1 :
              /\ EnterLoop(d, n).sub = d.sub
              /\ EnterLoop(d, n).attempt = IF n > MaxAttempts THEN d.attempt ELSE n
              /\ n <= MaxAttempts /\ d.pc = "posting" => EnterLoop(d, n).pc # "reading"
<1>. USE MaxAttemptsType
<1>1. ASSUME NEW e \in Delivery
      PROVE  /\ AttemptOrAbort(e).sub = e.sub /\ AttemptOrAbort(e).attempt = e.attempt
             /\ e.pc \in {"asleep", "posting"} => AttemptOrAbort(e).pc # "reading"
  BY DEF AttemptOrAbort, Settle, Delivery
<1>2. ASSUME NEW n \in 1 .. MaxAttempts + 1
      PROVE  /\ EnterLoop(d, n).sub = d.sub
             /\ EnterLoop(d, n).attempt = IF n > MaxAttempts THEN d.attempt ELSE n
             /\ n <= MaxAttempts /\ d.pc = "posting" => EnterLoop(d, n).pc # "reading"
  <2>1. CASE n > MaxAttempts
    BY <2>1 DEF EnterLoop, Delivery
  <2>2. CASE n \in 1 .. MaxAttempts
    <3>. DEFINE e == [d EXCEPT !.attempt = n]
                f == [d EXCEPT !.pc = "asleep", !.attempt = n]
    <3>1. e \in Delivery /\ e.sub = d.sub /\ e.attempt = n /\ e.pc = d.pc
      BY <2>2 DEF Delivery
    <3>2. f.sub = d.sub /\ f.attempt = n /\ f.pc = "asleep"
      BY DEF Delivery
    <3>3. EnterLoop(d, n) = f \/ EnterLoop(d, n) = AttemptOrAbort(e)
      BY <2>2 DEF EnterLoop
    <3>. HIDE DEF e, f
    <3>. QED  BY <1>1, <2>2, <3>1, <3>2, <3>3
  <2>. QED  BY <2>1, <2>2
<1>. QED  BY <1>1, <1>2

LEMMA MovesInTurn ==
  ASSUME TypeOK, [Next]_vars, NEW k \in DOMAIN deliveries
  PROVE  /\ k \in DOMAIN deliveries' /\ deliveries'[k].sub = deliveries[k].sub
         /\ deliveries'[k].attempt # deliveries[k].attempt =>
              /\ deliveries[k].pc = "posting" /\ deliveries'[k].pc # "reading"
              /\ deliveries'[k].attempt = deliveries[k].attempt + 1
<1>. DEFINE d == deliveries[k]
<1>1. d \in Delivery /\ d.attempt \in 1 .. MaxAttempts
  BY DEF TypeOK, DispatcherTypeOK, Delivery
<1>2. d.attempt + 1 \in 1 .. MaxAttempts + 1
  BY <1>1, MaxAttemptsType
<1>3. k \in DOMAIN deliveries' /\ Moves(k)
  BY DeliveryMoves
<1>4. \A outcome : Settle(d, outcome).sub = d.sub /\ Settle(d, outcome).attempt = d.attempt
  BY <1>1 DEF Settle, Delivery
<1>5. \A seen : LET e == [d EXCEPT !.pc = "writing", !.seen = seen]
                IN  e.sub = d.sub /\ e.attempt = d.attempt
  BY <1>1 DEF Delivery
<1>6. LET e == [d EXCEPT !.pc = "reading", !.won = TRUE] IN e.sub = d.sub /\ e.attempt = d.attempt
  BY <1>1 DEF Delivery
<1>10. LET e == [d EXCEPT !.pc = "reporting", !.seen = 0] IN e.sub = d.sub /\ e.attempt = d.attempt
  BY <1>1 DEF Delivery
<1>7. d.attempt + 1 > MaxAttempts => EnterLoop(d, d.attempt + 1).attempt = d.attempt
  BY <1>1, <1>2, LoopKeeps
<1>8. CASE d.pc = "posting" /\ deliveries'[k] = EnterLoop(d, d.attempt + 1)
  BY <1>1, <1>2, <1>3, <1>7, <1>8, LoopKeeps, MaxAttemptsType
<1>9. CASE d.pc = "asleep" /\ deliveries'[k] = AttemptOrAbort(d)
  BY <1>1, <1>3, <1>9, LoopKeeps
<1>. QED  BY <1>3, <1>4, <1>5, <1>6, <1>8, <1>9, <1>10 DEF Moves

(***************************************************************************)
(* The attempts of a delivery follow one another, one at a time, to one    *)
(* record: nothing that happens to the subscription meanwhile changes      *)
(* where they go or how many they are.                                     *)
(***************************************************************************)
THEOREM AttemptsInTurnHolds == Spec => AttemptsInTurn
<1>1. TypeOK /\ [Next]_vars =>
        [\A k \in DOMAIN deliveries :
           /\ k \in DOMAIN deliveries' /\ deliveries'[k].sub = deliveries[k].sub
           /\ deliveries'[k].attempt # deliveries[k].attempt =>
                /\ deliveries[k].pc = "posting" /\ deliveries'[k].pc # "reading"
                /\ deliveries'[k].attempt = deliveries[k].attempt + 1]_vars
  BY MovesInTurn
<1>. QED  BY <1>1, TypeCorrect, PTL DEF AttemptsInTurn, Spec

(***************************************************************************)
(* A delivery begins with a fan-out, with a record of the snapshot that    *)
(* was a target of the event.                                              *)
(***************************************************************************)
LEMMA StartsTargeted ==
  ASSUME TypeOK, [Next]_vars, NEW k \in DOMAIN deliveries', k \notin DOMAIN deliveries
  PROVE  /\ k[1] \in DOMAIN dispatches /\ k[2] \in Targets(k[1])
         /\ dispatches[k[1]].snapshot[k[2]] \in SubscriptionRecord
         /\ deliveries'[k] = EnterLoop(NewDelivery(dispatches[k[1]].snapshot[k[2]]), 1)
<1>1. DOMAIN deliveries' # DOMAIN deliveries
  OBVIOUS
<1>2. PICK id \in DispatchId : FanOut(id)
  BY <1>1 DEF Next, vars, PublishEvent, Dispatching, DispatcherStep, ListSubscriptions, Wake,
              Answer, ReadRecord, WriteRecord, Report, Serving, Clock, Shutdown, Stop, Crash,
              LoseDelivery
<1>3. /\ k \in {id} \X Targets(id) /\ id \in DOMAIN dispatches
      /\ deliveries'[k] = EnterLoop(NewDelivery(dispatches[id].snapshot[k[2]]), 1)
  BY <1>2 DEF FanOut
<1>4. k[1] = id /\ k[2] \in Targets(id)
  BY <1>3
<1>5. IsTable(dispatches[id].snapshot) /\ k[2] \in DOMAIN dispatches[id].snapshot
  BY <1>2, <1>4 DEF FanOut, TypeOK, DispatcherTypeOK, EventBusTypeOK, IsDispatch, Targets
<1>. QED  BY <1>3, <1>4, <1>5 DEF IsTable

LEMMA StartsFresh ==
  ASSUME TypeOK, [Next]_vars, NEW k \in DOMAIN deliveries', k \notin DOMAIN deliveries
  PROVE  \E rec \in SubscriptionRecord : deliveries'[k] = EnterLoop(NewDelivery(rec), 1)
BY StartsTargeted

(***************************************************************************)
(* Every outcome has its cause: a delivery is reported failed only when    *)
(* the whole schedule was gone through without a success, aborted only     *)
(* when stop() was called (before a crash, perhaps), lost only by a crash, *)
(* and left unreported only by a crash that came when it was decided.      *)
(***************************************************************************)
OutcomesExplained ==
  \A k \in DOMAIN deliveries :
    LET d == deliveries[k] IN
      /\ d.result = "delivered" => d.won
      /\ d.result = "failed" => ~d.won /\ d.attempt = MaxAttempts
      /\ d.result = "aborted" => ~d.won /\ (stopped \/ crashes > 0)
      /\ d.result = "lost" => crashes > 0
      /\ d.result = "unreported" => crashes > 0 /\ (d.won \/ d.attempt = MaxAttempts)

(***************************************************************************)
(* Inductive: in the retry loop nothing has been won, and behind it a      *)
(* delivery without a success has used up its schedule.                    *)
(***************************************************************************)
Explained(d, halted, crashed) ==
  /\ d.pc \in {"asleep", "posting"} => ~d.won
  /\ d.pc \in {"reading", "writing", "reporting"} => d.won \/ d.attempt = MaxAttempts
  /\ d.pc # "settled" => d.result = "pending"
  /\ d.result = "delivered" => d.won
  /\ d.result = "failed" => ~d.won /\ d.attempt = MaxAttempts
  /\ d.result = "aborted" => ~d.won /\ halted
  /\ d.result = "lost" => crashed
  /\ d.result = "unreported" => crashed /\ (d.won \/ d.attempt = MaxAttempts)

Halted == stopped \/ crashes > 0

ExplainedInv == \A k \in DOMAIN deliveries : Explained(deliveries[k], Halted, crashes > 0)

LEMMA AttemptExplained ==
  ASSUME NEW d \in Delivery, NEW crashed, Explained(d, Halted, crashed), InLoop(d)
  PROVE  Explained(AttemptOrAbort(d), Halted, crashed)
BY DEF AttemptOrAbort, Settle, Delivery, Explained, InLoop, Halted

LEMMA LoopExplained ==
  ASSUME NEW d \in Delivery, NEW crashed, Explained(d, Halted, crashed), InLoop(d),
         NEW n \in 1 .. MaxAttempts + 1, n > MaxAttempts => d.attempt = MaxAttempts
  PROVE  Explained(EnterLoop(d, n), Halted, crashed)
<1>. USE MaxAttemptsType
<1>1. CASE n > MaxAttempts
  BY <1>1 DEF EnterLoop, Explained, Delivery, InLoop
<1>2. CASE n \in 1 .. MaxAttempts
  <2>. DEFINE e == [d EXCEPT !.attempt = n]
              f == [d EXCEPT !.pc = "asleep", !.attempt = n]
  <2>1. /\ e \in Delivery /\ e.pc = d.pc /\ e.result = d.result /\ e.won = d.won /\ e.attempt = n
    BY <1>2 DEF Delivery
  <2>2. f.pc = "asleep" /\ f.result = d.result /\ f.won = d.won /\ f.attempt = n
    BY DEF Delivery
  <2>3. EnterLoop(d, n) = f \/ EnterLoop(d, n) = AttemptOrAbort(e)
    BY <1>2 DEF EnterLoop
  <2>. HIDE DEF e, f
  <2>4. InLoop(e) /\ Explained(e, Halted, crashed) /\ Explained(f, Halted, crashed)
    BY <2>1, <2>2 DEF Explained, InLoop
  <2>. QED  BY <2>1, <2>3, <2>4, AttemptExplained
<1>. QED  BY <1>1, <1>2

LEMMA NextExplained ==
  ASSUME TypeOK, ExplainedInv, [Next]_vars
  PROVE  ExplainedInv'
<1>. USE MaxAttemptsType
<1>1. (Halted => Halted') /\ (crashes > 0 => crashes' > 0)
  <2>1. CASE Crash
    BY <2>1, CrashCounts DEF Halted
  <2>2. CASE ~Crash
    <3>1. CASE Dispatching
      <4>1. crashes' = crashes
        BY <3>1 DEF Dispatching
      <4>2. stopped' = stopped
        BY <3>1, Zenon DEF Dispatching, DispatcherStep, ListSubscriptions, FanOut, Wake, Answer,
                           ReadRecord, WriteRecord, Report
      <4>. QED  BY <4>1, <4>2 DEF Halted
    <3>2. CASE Shutdown
      <4>1. crashes' = crashes /\ stopped'
        BY <3>2 DEF Shutdown, Stop
      <4>. QED  BY <4>1 DEF Halted
    <3>3. CASE UNCHANGED vars \/ Serving \/ Clock \/ \E e \in AppEvent : PublishEvent(e)
      <4>1. crashes' = crashes /\ stopped' = stopped
        BY <3>3, Zenon DEF vars, Serving, Clock, PublishEvent
      <4>. QED  BY <4>1 DEF Halted
    <3>. QED  BY <2>2, <3>1, <3>2, <3>3 DEF Next
  <2>. QED  BY <2>1, <2>2
<1>2. ASSUME NEW d, Explained(d, Halted, crashes > 0)
      PROVE  Explained(d, Halted', crashes' > 0)
  BY <1>1, <1>2 DEF Explained
<1>3. ASSUME NEW k \in DOMAIN deliveries
      PROVE  Explained(deliveries'[k], Halted', crashes' > 0)
  <2>. DEFINE d == deliveries[k]
  <2>1. d \in Delivery /\ d.attempt \in 1 .. MaxAttempts /\ Explained(d, Halted, crashes > 0)
    BY DEF TypeOK, DispatcherTypeOK, Delivery, ExplainedInv
  <2>2. Moves(k)
    BY DeliveryMoves
  <2>3. CASE deliveries'[k] = d
    BY <1>2, <2>1, <2>3
  <2>4. CASE \/ deliveries'[k] = Settle(d, "lost") /\ crashes' > 0
             \/ /\ d.pc = "reporting" /\ crashes' > 0
                /\ deliveries'[k] = Settle(d, "unreported")
    <3>. DEFINE e == deliveries'[k]
    <3>1. CASE e = Settle(d, "lost") /\ crashes' > 0
      <4>1. e.pc = "settled" /\ e.result = "lost"
        BY <2>1, <3>1 DEF Settle, Delivery
      <4>. QED  BY <3>1, <4>1 DEF Explained
    <3>2. CASE d.pc = "reporting" /\ crashes' > 0 /\ e = Settle(d, "unreported")
      <4>1. e.pc = "settled" /\ e.result = "unreported" /\ e.won = d.won /\ e.attempt = d.attempt
        BY <2>1, <3>2 DEF Settle, Delivery
      <4>2. d.won \/ d.attempt = MaxAttempts
        BY <2>1, <3>2 DEF Explained
      <4>. QED  BY <3>2, <4>1, <4>2 DEF Explained
    <3>. QED  BY <2>4, <3>1, <3>2
  <2>5. CASE d.pc = "asleep" /\ deliveries'[k] = AttemptOrAbort(d)
    BY <1>2, <2>1, <2>5, AttemptExplained DEF InLoop
  <2>6. CASE d.pc = "posting" /\ deliveries'[k] = [d EXCEPT !.pc = "reading", !.won = TRUE]
    BY <2>1, <2>6 DEF Explained, Delivery
  <2>7. CASE d.pc = "posting" /\ deliveries'[k] = EnterLoop(d, d.attempt + 1)
    <3>1. d.attempt + 1 \in 1 .. MaxAttempts + 1 /\ (d.attempt + 1 > MaxAttempts => d.attempt = MaxAttempts)
      BY <2>1
    <3>. QED  BY <1>2, <2>1, <2>7, <3>1, LoopExplained DEF InLoop
  <2>8. CASE /\ d.pc = "reading"
             /\ deliveries'[k] = [d EXCEPT !.pc = "writing", !.seen = table[k[2]].failure_count]
    BY <2>1, <2>8 DEF Explained, Delivery
  <2>9. CASE d.pc = "writing" /\ deliveries'[k] = [d EXCEPT !.pc = "reporting", !.seen = 0]
    BY <2>1, <2>9 DEF Explained, Delivery
  <2>10. CASE d.pc \in {"reading", "reporting"} /\ deliveries'[k] = Settle(d, Outcome(d))
    BY <2>1, <2>10 DEF Settle, Outcome, Explained, Delivery
  <2>. QED  BY <2>2, <2>3, <2>4, <2>5, <2>6, <2>7, <2>8, <2>9, <2>10 DEF Moves
<1>4. ASSUME NEW k \in DOMAIN deliveries', k \notin DOMAIN deliveries
      PROVE  Explained(deliveries'[k], Halted', crashes' > 0)
  <2>1. PICK rec \in SubscriptionRecord : deliveries'[k] = EnterLoop(NewDelivery(rec), 1)
    BY <1>4, StartsFresh
  <2>2. 1 \in 1 .. MaxAttempts /\ 1 \in 1 .. MaxAttempts + 1
    OBVIOUS
  <2>3. /\ NewDelivery(rec) \in Delivery /\ InLoop(NewDelivery(rec))
        /\ Explained(NewDelivery(rec), Halted, crashes > 0)
    BY <2>2 DEF NewDelivery, Delivery, InLoop, Explained
  <2>. QED  BY <1>2, <2>1, <2>2, <2>3, LoopExplained
<1>. QED  BY <1>3, <1>4 DEF ExplainedInv

(***************************************************************************)
(* Every reported outcome has its cause, for every schedule and every      *)
(* interleaving with stop() and crashes: a success was won, a failure used *)
(* up the schedule, an abort had a stop or a crash, a loss a crash, and a  *)
(* report that never came a crash after the outcome was decided.           *)
(***************************************************************************)
THEOREM OutcomesAreExplained == Spec => []OutcomesExplained
<1>1. Init => ExplainedInv
  BY DEF Init, DispatcherInit, ExplainedInv
<1>2. ExplainedInv => OutcomesExplained
  BY DEF ExplainedInv, Explained, OutcomesExplained, Halted
<1>. QED  BY <1>1, <1>2, NextExplained, TypeCorrect, PTL DEF Spec

(***************************************************************************)
(* A delivery was selected when its dispatch listed the subscriptions: the *)
(* record it captured had a webhook and was active, and it selected the    *)
(* event, or is the one the test is addressed to.                          *)
(***************************************************************************)
SelectedWhenListed ==
  \A k \in DOMAIN deliveries :
    /\ k[1] \in DOMAIN dispatches
    /\ deliveries[k].sub.webhook /\ deliveries[k].sub.status = "active"
    /\ IF dispatches[k[1]].event.kind = "test" THEN dispatches[k[1]].event.about = k[2]
       ELSE dispatches[k[1]].event.kind \in deliveries[k].sub.selects

(***************************************************************************)
(* The event of a dispatch stays what it was: a request publishes under    *)
(* its own name once, as it is answered, and a redelivery republishes a    *)
(* stored event only as itself.                                            *)
(***************************************************************************)
Answered(r) == requests[r].pc \in {"done", "lost"}

EventsNamed ==
  \A i \in DOMAIN dispatches :
    /\ i \in Request => Answered(i)
    /\ i \in Request \X AppEvent => dispatches[i].event = AppEventOf(i[2])

EventsStay ==
  /\ \A i \in DOMAIN dispatches :
       i \in DOMAIN dispatches' /\ dispatches'[i].event = dispatches[i].event
  /\ \A i \in DOMAIN dispatches' :
       i \in DOMAIN dispatches
         \/ /\ i \in Request => requests'[i].pc = "done"
            /\ i \in Request \X AppEvent => dispatches'[i].event = AppEventOf(i[2])

LEMMA AnsweredStays ==
  ASSUME TypeOK, [Next]_vars, NEW r \in Request, Answered(r)
  PROVE  Answered(r)'
<1>0. requests[r] \in Handler
  BY DEF TypeOK, ServerTypeOK
<1>1. ASSUME requests'[r] = requests[r]  PROVE Answered(r)'
  BY <1>1 DEF Answered
<1>2. CASE Crash
  <2>1. requests'[r] = requests[r]
    BY <1>2 DEF Crash, Answered
  <2>. QED  BY <1>1, <2>1
<1>3. CASE Serving
  <2>1. PICK q \in Request : RequestArrives(q) \/ RequestContinues(q)
    BY <1>3 DEF Serving
  <2>2. CASE q = r
    <3>1. ~RequestArrives(q)
      BY <2>2, ArrivingIsIdle DEF Started, Answered
    <3>2. ~RequestContinues(q)
      BY <2>2 DEF RequestContinues, Answered, At, SubscribePublish, PauseWrite, PauseAnswer,
                  ResumeWrite, ResumeAnswer, TestPublish, UnsubscribePublish, RedeliverFind,
                  RedeliverPublish
    <3>. QED  BY <2>1, <3>1, <3>2
  <2>3. CASE q # r
    BY <1>1, <2>1, <2>3, ServingMoves DEF Goes, Answers, TypeOK, ServerTypeOK
  <2>. QED  BY <2>2, <2>3
<1>. QED
  BY <1>1, <1>2, <1>3 DEF Next, vars, PublishEvent, Dispatching, Clock, Shutdown

LEMMA PublishesOnce ==
  ASSUME NEW id, NEW event, Publish(id, event),
         id \in DOMAIN dispatches => dispatches[id].event = event,
         id \in Request => requests'[id].pc = "done",
         id \in Request \X AppEvent => event = AppEventOf(id[2])
  PROVE  EventsStay
BY DEF Publish, EventsStay

LEMMA EventSteps ==
  ASSUME TypeOK, EventsNamed, [Next]_vars
  PROVE  EventsStay
<1>0. \A i \in DOMAIN dispatches : IsDispatch(dispatches[i])
  BY DEF TypeOK, DispatcherTypeOK, EventBusTypeOK
<1>1. ASSUME UNCHANGED dispatches  PROVE EventsStay
  BY <1>1 DEF EventsStay
<1>2. ASSUME NEW e \in AppEvent, PublishEvent(e)  PROVE EventsStay
  BY <1>2, PublishesOnce, EventBusAssumption DEF PublishEvent
<1>3. ASSUME NEW q \in Request, RedeliverPublish(q)  PROVE EventsStay
  <2>1. PICK e \in requests[q].todo : Publish(<<q, e>>, AppEventOf(e))
    BY <1>3 DEF RedeliverPublish
  <2>2. e \in AppEvent
    BY <2>1 DEF TypeOK, ServerTypeOK, Handler
  <2>3. <<q, e>> \in Request \X AppEvent /\ <<q, e>>[2] = e /\ <<q, e>> \notin Request
    BY <2>2, EventBusAssumption
  <2>4. <<q, e>> \in DOMAIN dispatches => dispatches[<<q, e>>].event = AppEventOf(e)
    BY <2>3 DEF EventsNamed
  <2>. QED  BY <2>1, <2>3, <2>4, PublishesOnce
<1>4. ASSUME NEW q \in Request, SubscribePublish(q) \/ TestPublish(q) \/ UnsubscribePublish(q)
      PROVE  EventsStay
  <2>1. PICK event : Publish(q, event)
    BY <1>4 DEF SubscribePublish, TestPublish, UnsubscribePublish
  <2>2. requests[q].pc = "publishing" /\ requests'[q].pc = "done"
    BY <1>4 DEF SubscribePublish, TestPublish, UnsubscribePublish, At, Answers, TypeOK, ServerTypeOK
  <2>3. q \notin DOMAIN dispatches
    BY <2>2 DEF EventsNamed, Answered
  <2>4. q \notin Request \X AppEvent
    BY EventBusAssumption
  <2>. QED  BY <2>1, <2>2, <2>3, <2>4, PublishesOnce
<1>5. ASSUME NEW id \in DispatchId, ListSubscriptions(id)  PROVE EventsStay
  <2>1. dispatches' = [dispatches EXCEPT ![id].stage = "listed", ![id].snapshot = table]
    BY <1>5 DEF ListSubscriptions
  <2>. QED  BY <1>0, <2>1 DEF EventsStay, IsDispatch
<1>6. ASSUME NEW id \in DispatchId, FanOut(id)  PROVE EventsStay
  <2>1. dispatches' = [dispatches EXCEPT ![id].stage = "fanned", ![id].snapshot = NoTable]
    BY <1>6 DEF FanOut
  <2>. QED  BY <1>0, <2>1 DEF EventsStay, IsDispatch
<1>7. CASE Crash
  <2>1. dispatches' = [i \in DOMAIN dispatches |->
                         [dispatches[i] EXCEPT !.stage = "fanned", !.snapshot = NoTable]]
    BY <1>7 DEF Crash, LoseDelivery
  <2>. QED  BY <1>0, <2>1 DEF EventsStay, IsDispatch
<1>8. CASE Serving
  <2>1. PICK q \in Request : RequestArrives(q) \/ RequestContinues(q)
    BY <1>8 DEF Serving
  <2>2. CASE RequestArrives(q)
    BY <1>1, <2>2
       DEF RequestArrives, SubscribeRefused, SubscribeSave, PauseRead, ResumeRead, TestRead,
           UnsubscribeDelete, RedeliverRead
  <2>3. CASE RequestContinues(q)
    BY <1>1, <1>3, <1>4, <2>3 DEF RequestContinues, PauseWrite, PauseAnswer, ResumeWrite,
                                  ResumeAnswer, RedeliverFind
  <2>. QED  BY <2>1, <2>2, <2>3
<1>9. CASE Dispatching
  BY <1>1, <1>5, <1>6, <1>9 DEF Dispatching, DispatcherStep, Wake, Answer, ReadRecord,
                                WriteRecord, Report
<1>. QED
  BY <1>1, <1>2, <1>7, <1>8, <1>9 DEF Next, vars, Clock, Shutdown, Stop

LEMMA EventsNamedKept ==
  ASSUME TypeOK, EventsNamed, [Next]_vars
  PROVE  EventsNamed'
<1>. SUFFICES ASSUME NEW i \in DOMAIN dispatches'
              PROVE  /\ i \in Request => Answered(i)'
                     /\ i \in Request \X AppEvent => dispatches'[i].event = AppEventOf(i[2])
  BY DEF EventsNamed
<1>1. EventsStay
  BY EventSteps
<1>2. CASE i \in DOMAIN dispatches
  BY <1>1, <1>2, AnsweredStays DEF EventsStay, EventsNamed
<1>3. CASE i \notin DOMAIN dispatches
  BY <1>1, <1>3 DEF EventsStay, Answered
<1>. QED  BY <1>2, <1>3

SelectedInv == EventsNamed /\ SelectedWhenListed

LEMMA NextSelected ==
  ASSUME TypeOK, SelectedInv, [Next]_vars
  PROVE  SelectedInv'
<1>1. EventsNamed' /\ EventsStay
  BY EventsNamedKept, EventSteps DEF SelectedInv
<1>2. ASSUME NEW k \in DOMAIN deliveries'
      PROVE  /\ k[1] \in DOMAIN dispatches'
             /\ deliveries'[k].sub.webhook /\ deliveries'[k].sub.status = "active"
             /\ IF dispatches'[k[1]].event.kind = "test" THEN dispatches'[k[1]].event.about = k[2]
                ELSE dispatches'[k[1]].event.kind \in deliveries'[k].sub.selects
  <2>1. CASE k \in DOMAIN deliveries
    <3>1. deliveries'[k].sub = deliveries[k].sub
      BY <2>1, MovesInTurn
    <3>2. k[1] \in DOMAIN dispatches' /\ dispatches'[k[1]].event = dispatches[k[1]].event
      BY <1>1, <2>1 DEF EventsStay, SelectedInv, SelectedWhenListed
    <3>. QED  BY <2>1, <3>1, <3>2 DEF SelectedInv, SelectedWhenListed
  <2>2. CASE k \notin DOMAIN deliveries
    <3>. DEFINE rec == dispatches[k[1]].snapshot[k[2]]
    <3>1. /\ k[1] \in DOMAIN dispatches /\ k[2] \in Targets(k[1]) /\ rec \in SubscriptionRecord
          /\ deliveries'[k] = EnterLoop(NewDelivery(rec), 1)
      BY <2>2, StartsTargeted
    <3>2. IsTarget(k[2], rec, dispatches[k[1]].event)
      BY <3>1 DEF Targets
    <3>3. dispatches'[k[1]].event = dispatches[k[1]].event /\ k[1] \in DOMAIN dispatches'
      BY <1>1, <3>1 DEF EventsStay
    <3>4. NewDelivery(rec) \in Delivery /\ NewDelivery(rec).sub = rec
      BY <3>1, MaxAttemptsType DEF NewDelivery, Delivery
    <3>5. 1 \in 1 .. MaxAttempts + 1
      BY MaxAttemptsType
    <3>6. deliveries'[k].sub = rec
      BY <3>1, <3>4, <3>5, LoopKeeps
    <3>. HIDE DEF rec
    <3>. QED  BY <3>2, <3>3, <3>6 DEF IsTarget
  <2>. QED  BY <2>1, <2>2
<1>. QED  BY <1>1, <1>2 DEF SelectedInv, SelectedWhenListed

(***************************************************************************)
(* Every delivery goes to a subscription that its event selected at the    *)
(* listing. What changes between listing and delivering (a pause, a        *)
(* DELETE, another event of the same request) never widens whom an event   *)
(* goes to.                                                                *)
(***************************************************************************)
THEOREM DeliveriesWereSelected == Spec => []SelectedWhenListed
<1>1. Init => SelectedInv
  BY DEF Init, DispatcherInit, SelectedInv, EventsNamed, SelectedWhenListed
<1>2. TypeOK /\ SelectedInv /\ [Next]_vars => SelectedInv'
  BY NextSelected
<1>3. SelectedInv => SelectedWhenListed
  BY DEF SelectedInv
<1>. QED  BY <1>1, <1>2, <1>3, TypeCorrect, PTL DEF Spec

(***************************************************************************)
(* The failure counter of a subscription moves only as one of its own      *)
(* deliveries puts its outcome on record: to zero when an attempt was      *)
(* answered with success, up when the whole schedule was used without one; *)
(* or when a resume or a subscribe that reuses the name starts it over.    *)
(* A report, an abort, a crash, a pause or another subscription's delivery *)
(* leaves it as it was.                                                    *)
(***************************************************************************)
CountMoves(s) ==
  \/ \E k \in DOMAIN deliveries :
       /\ k[2] = s /\ ~OnRecord(deliveries[k]) /\ OnRecord(deliveries'[k])
       /\ \/ deliveries[k].won /\ table'[s].failure_count = 0
          \/ /\ ~deliveries[k].won /\ deliveries[k].attempt = MaxAttempts
             /\ table'[s].failure_count > 0
  \/ \E r \in Request :
       /\ requests'[r].sub = s /\ table'[s].failure_count = 0
       /\ At(r, "resume", "writing") \/ At(r, "subscribe", "publishing")'

CountsMoveWithOutcomes ==
  [][\A s \in DOMAIN table \cap DOMAIN table' :
       table'[s].failure_count # table[s].failure_count => CountMoves(s)]_vars

LEMMA PutOnRecord ==
  ASSUME TypeOK, ExplainedInv, NEW k \in DOMAIN deliveries, deliveries[k].pc = "writing",
         deliveries' = [deliveries EXCEPT ![k] = Written(@)]
  PROVE  /\ ~OnRecord(deliveries[k]) /\ OnRecord(deliveries'[k])
         /\ deliveries[k].won \/ deliveries[k].attempt = MaxAttempts
<1>1. deliveries[k] \in Delivery /\ Explained(deliveries[k], Halted, crashes > 0)
  BY DEF TypeOK, DispatcherTypeOK, ExplainedInv
<1>2. deliveries[k].result = "pending"
  BY <1>1 DEF Explained
<1>3. deliveries'[k].pc = "reporting"
  BY <1>1 DEF Written, Delivery
<1>. QED  BY <1>1, <1>2, <1>3 DEF OnRecord, Explained

LEMMA CountSteps ==
  ASSUME TypeOK, ExplainedInv, [Next]_vars, NEW s \in DOMAIN table \cap DOMAIN table',
         table'[s].failure_count # table[s].failure_count
  PROVE  CountMoves(s)
<1>1. Created(s) \/ Resumed(s) \/ Succeeded(s) \/ Failed(s)
  BY TableSteps DEF Paused
<1>2. CASE Created(s) \/ Resumed(s)
  BY <1>2 DEF Created, Resumed, CountMoves
<1>3. CASE Succeeded(s)
  <2>1. PICK k \in DOMAIN deliveries :
          /\ deliveries[k].pc = "writing" /\ k[2] = s /\ deliveries[k].won
          /\ deliveries' = [deliveries EXCEPT ![k] = Written(@)]
    BY <1>3 DEF Succeeded
  <2>2. ~OnRecord(deliveries[k]) /\ OnRecord(deliveries'[k])
    BY <2>1, PutOnRecord
  <2>. QED  BY <1>3, <2>1, <2>2 DEF CountMoves, Succeeded
<1>4. CASE Failed(s)
  <2>1. PICK k \in DOMAIN deliveries :
          /\ deliveries[k].pc = "writing" /\ k[2] = s /\ ~deliveries[k].won
          /\ deliveries' = [deliveries EXCEPT ![k] = Written(@)]
          /\ table'[s].failure_count = deliveries[k].seen + 1
    BY <1>4 DEF Failed
  <2>2. /\ ~OnRecord(deliveries[k]) /\ OnRecord(deliveries'[k])
        /\ deliveries[k].attempt = MaxAttempts
    BY <2>1, PutOnRecord
  <2>3. table'[s].failure_count > 0
    BY <2>1 DEF TypeOK, DispatcherTypeOK, Delivery
  <2>. QED  BY <2>1, <2>2, <2>3 DEF CountMoves
<1>. QED  BY <1>1, <1>2, <1>3, <1>4

(***************************************************************************)
(* Nothing but a decided delivery of its own, a resume or a new subscribe  *)
(* changes a subscription's failure counter, crashes included.             *)
(***************************************************************************)
THEOREM CountsMoveWithOutcomesHolds == Spec => CountsMoveWithOutcomes
<1>1. TypeOK /\ ExplainedInv /\ [Next]_vars =>
        [\A s \in DOMAIN table \cap DOMAIN table' :
           table'[s].failure_count # table[s].failure_count => CountMoves(s)]_vars
  BY CountSteps
<1>2. Init => ExplainedInv
  BY DEF Init, DispatcherInit, ExplainedInv
<1>. QED  BY <1>1, <1>2, NextExplained, TypeCorrect, PTL DEF CountsMoveWithOutcomes, Spec

(***************************************************************************)
(* The steps a delivery has left at most: the sleep and the POST of every  *)
(* attempt to come, the read and the write of its record, the report.      *)
(***************************************************************************)
StepsLeft(d) ==
  CASE d.pc = "settled" -> 0
    [] d.pc = "reporting" -> 1
    [] d.pc = "writing" -> 2
    [] d.pc = "reading" -> 3
    [] d.pc = "posting" -> 2 * (MaxAttempts - d.attempt) + 4
    [] d.pc = "asleep" -> 2 * (MaxAttempts - d.attempt) + 5

(***************************************************************************)
(* Every step of a delivery brings it closer to its report.                *)
(***************************************************************************)
DeliveriesRunDown ==
  [][\A k \in DOMAIN deliveries :
       /\ StepsLeft(deliveries[k]) \in 0 .. 2 * MaxAttempts + 3
       /\ deliveries'[k] # deliveries[k] =>
            StepsLeft(deliveries'[k]) < StepsLeft(deliveries[k])]_vars

LEMMA StepsLeftType ==
  ASSUME NEW d \in Delivery, d.attempt \in 1 .. MaxAttempts
  PROVE  StepsLeft(d) \in 0 .. 2 * MaxAttempts + 3
BY MaxAttemptsType DEF StepsLeft, Delivery

LEMMA LoopRunsDown ==
  ASSUME NEW d \in Delivery, d.attempt \in 1 .. MaxAttempts
  PROVE  /\ d.pc = "asleep" => StepsLeft(AttemptOrAbort(d)) < StepsLeft(d)
         /\ d.pc = "posting" => StepsLeft(EnterLoop(d, d.attempt + 1)) < StepsLeft(d)
<1>. USE MaxAttemptsType
<1>1. ASSUME NEW e \in Delivery, e.attempt \in 1 .. MaxAttempts
      PROVE  StepsLeft(AttemptOrAbort(e)) <= 2 * (MaxAttempts - e.attempt) + 4
  <2>1. CASE stopped
    <3>1. AttemptOrAbort(e).pc = "settled"
      BY <2>1 DEF AttemptOrAbort, Settle, Delivery
    <3>. QED  BY <1>1, <3>1 DEF StepsLeft
  <2>2. CASE ~stopped
    <3>1. AttemptOrAbort(e).pc = "posting" /\ AttemptOrAbort(e).attempt = e.attempt
      BY <2>2 DEF AttemptOrAbort, Delivery
    <3>. QED  BY <1>1, <3>1 DEF StepsLeft
  <2>. QED  BY <2>1, <2>2
<1>2. CASE d.pc = "asleep"
  <2>1. StepsLeft(AttemptOrAbort(d)) <= 2 * (MaxAttempts - d.attempt) + 4
    BY <1>1
  <2>2. StepsLeft(d) = 2 * (MaxAttempts - d.attempt) + 5
    BY <1>2 DEF StepsLeft
  <2>3. StepsLeft(AttemptOrAbort(d)) \in Int
    <3>1. AttemptOrAbort(d) \in Delivery /\ AttemptOrAbort(d).attempt = d.attempt
      BY LoopKeeps DEF AttemptOrAbort, Settle, Delivery
    <3>. QED  BY <3>1, StepsLeftType
  <2>. QED  BY <1>2, <2>1, <2>2, <2>3
<1>3. CASE d.pc = "posting"
  <2>. DEFINE n == d.attempt + 1
              e == [d EXCEPT !.attempt = n]
              f == [d EXCEPT !.pc = "asleep", !.attempt = n]
              g == [d EXCEPT !.pc = "reading", !.won = FALSE]
  <2>1. StepsLeft(d) = 2 * (MaxAttempts - d.attempt) + 4
    BY <1>3 DEF StepsLeft
  <2>2. CASE n > MaxAttempts
    <3>1. EnterLoop(d, n) = g
      BY <2>2 DEF EnterLoop
    <3>2. StepsLeft(g) = 3
      BY DEF StepsLeft, Delivery
    <3>. QED  BY <1>3, <2>1, <3>1, <3>2
  <2>3. CASE n \in 1 .. MaxAttempts
    <3>1. e \in Delivery /\ e.attempt = n /\ f.pc = "asleep" /\ f.attempt = n
      BY <2>3 DEF Delivery
    <3>2. EnterLoop(d, n) = f \/ EnterLoop(d, n) = AttemptOrAbort(e)
      BY <2>3 DEF EnterLoop
    <3>3. StepsLeft(f) = 2 * (MaxAttempts - n) + 5
      BY <3>1 DEF StepsLeft
    <3>4. StepsLeft(AttemptOrAbort(e)) <= 2 * (MaxAttempts - n) + 4
      BY <1>1, <2>3, <3>1
    <3>5. StepsLeft(AttemptOrAbort(e)) \in Int
      <4>1. AttemptOrAbort(e) \in Delivery /\ AttemptOrAbort(e).attempt = e.attempt
        BY <3>1, LoopKeeps DEF AttemptOrAbort, Settle, Delivery
      <4>. QED  BY <2>3, <3>1, <4>1, StepsLeftType
    <3>. HIDE DEF e, f
    <3>. QED  BY <1>3, <2>1, <2>3, <3>2, <3>3, <3>4, <3>5
  <2>. QED  BY <2>2, <2>3
<1>. QED  BY <1>2, <1>3

LEMMA StepsRunDown ==
  ASSUME TypeOK, [Next]_vars, NEW k \in DOMAIN deliveries
  PROVE  /\ StepsLeft(deliveries[k]) \in 0 .. 2 * MaxAttempts + 3
         /\ deliveries'[k] # deliveries[k] =>
              StepsLeft(deliveries'[k]) < StepsLeft(deliveries[k])
<1>. USE MaxAttemptsType
<1>. DEFINE d == deliveries[k]
<1>1. d \in Delivery /\ d.attempt \in 1 .. MaxAttempts
  BY DEF TypeOK, DispatcherTypeOK, Delivery
<1>2. StepsLeft(d) \in 0 .. 2 * MaxAttempts + 3
  BY <1>1, StepsLeftType
<1>3. Moves(k)
  BY DeliveryMoves
<1>4. \A outcome : d.pc # "settled" => StepsLeft(Settle(d, outcome)) < StepsLeft(d)
  <2>. SUFFICES ASSUME NEW outcome, d.pc # "settled"
                PROVE  StepsLeft(Settle(d, outcome)) < StepsLeft(d)
    OBVIOUS
  <2>1. Settle(d, outcome).pc = "settled"
    BY <1>1 DEF Settle, Delivery
  <2>2. StepsLeft(Settle(d, outcome)) = 0
    BY <2>1 DEF StepsLeft
  <2>3. StepsLeft(d) > 0
    BY <1>1 DEF StepsLeft, Delivery
  <2>. QED  BY <2>2, <2>3
<1>5. CASE d.pc = "posting" /\ deliveries'[k] = [d EXCEPT !.pc = "reading", !.won = TRUE]
  <2>1. deliveries'[k].pc = "reading"
    BY <1>1, <1>5 DEF Delivery
  <2>2. StepsLeft(deliveries'[k]) = 3 /\ StepsLeft(d) = 2 * (MaxAttempts - d.attempt) + 4
    BY <1>5, <2>1 DEF StepsLeft
  <2>. QED  BY <1>1, <1>2, <2>2
<1>6. CASE /\ d.pc = "reading"
           /\ deliveries'[k] = [d EXCEPT !.pc = "writing", !.seen = table[k[2]].failure_count]
  <2>1. deliveries'[k].pc = "writing"
    BY <1>1, <1>6 DEF Delivery
  <2>2. StepsLeft(deliveries'[k]) = 2 /\ StepsLeft(d) = 3
    BY <1>6, <2>1 DEF StepsLeft
  <2>. QED  BY <1>2, <2>2
<1>7. CASE d.pc = "asleep" /\ deliveries'[k] = AttemptOrAbort(d)
  BY <1>1, <1>2, <1>7, LoopRunsDown
<1>8. CASE d.pc = "posting" /\ deliveries'[k] = EnterLoop(d, d.attempt + 1)
  BY <1>1, <1>2, <1>8, LoopRunsDown
<1>9. CASE deliveries'[k] = d
  BY <1>2, <1>9
<1>10. CASE d.pc = "writing" /\ deliveries'[k] = [d EXCEPT !.pc = "reporting", !.seen = 0]
  <2>1. deliveries'[k].pc = "reporting"
    BY <1>1, <1>10 DEF Delivery
  <2>2. StepsLeft(deliveries'[k]) = 1 /\ StepsLeft(d) = 2
    BY <1>10, <2>1 DEF StepsLeft
  <2>. QED  BY <1>2, <2>2
<1>. QED
  BY <1>2, <1>3, <1>4, <1>5, <1>6, <1>7, <1>8, <1>9, <1>10 DEF Moves

(***************************************************************************)
(* The retry loop cannot run for ever: a delivery takes at most two steps  *)
(* for each attempt of the schedule, two for its record and one to report, *)
(* whatever happens around it.                                             *)
(***************************************************************************)
THEOREM DeliveriesRunDownHolds == Spec => DeliveriesRunDown
<1>1. TypeOK /\ [Next]_vars =>
        [\A k \in DOMAIN deliveries :
           /\ StepsLeft(deliveries[k]) \in 0 .. 2 * MaxAttempts + 3
           /\ deliveries'[k] # deliveries[k] =>
                StepsLeft(deliveries'[k]) < StepsLeft(deliveries[k])]_vars
  BY StepsRunDown
<1>. QED  BY <1>1, TypeCorrect, PTL DEF DeliveriesRunDown, Spec

(***************************************************************************)
(* A dispatch lists the subscriptions once and fans out once: its event is *)
(* never changed and its stage only moves on, so what has fanned out never *)
(* fans out again, not even when a redelivery or a crash comes after it.   *)
(***************************************************************************)
StagesLeft(stage) ==
  CASE stage = "listing" -> 2 [] stage = "listed" -> 1 [] stage = "fanned" -> 0

Advances(i) ==
  /\ i \in DOMAIN dispatches'
  /\ dispatches'[i].event = dispatches[i].event
  /\ \/ dispatches'[i] = dispatches[i]
     \/ StagesLeft(dispatches'[i].stage) < StagesLeft(dispatches[i].stage)
     \/ dispatches[i].stage = "fanned" /\ dispatches'[i].stage = "fanned"

DispatchesAdvance == [][\A i \in DOMAIN dispatches : Advances(i)]_vars

(***************************************************************************)
(* A redelivery no longer lists what it has republished.                   *)
(***************************************************************************)
Republished ==
  \A r \in Request, e \in AppEvent :
    <<r, e>> \in DOMAIN dispatches => Started(r) /\ e \notin requests[r].todo

LEMMA TodoShrinks ==
  ASSUME TypeOK, [Next]_vars, NEW r \in Request, Started(r)
  PROVE  requests'[r].todo \subseteq requests[r].todo
<1>0. requests \in [Request -> Handler]
  BY DEF TypeOK, ServerTypeOK
<1>1. CASE UNCHANGED requests
  BY <1>1
<1>2. CASE Crash
  <2>1. \/ requests'[r] = requests[r]
        \/ \E pc \in {"lost", "unanswered"} : requests'[r] = [requests[r] EXCEPT !.pc = pc]
    BY <1>2 DEF Crash, LoseHandler
  <2>. QED  BY <1>0, <2>1 DEF Handler
<1>3. CASE Serving
  <2>1. PICK q \in Request : RequestArrives(q) \/ RequestContinues(q)
    BY <1>3 DEF Serving
  <2>2. CASE q # r
    BY <1>0, <2>1, <2>2, ServingMoves DEF Goes, Answers
  <2>3. CASE q = r
    <3>1. RequestContinues(r)
      BY <2>1, <2>3, ArrivingIsIdle
    <3>2. ASSUME NEW op, NEW ids \in SUBSET requests[r].todo, Republishes(r, ids)
          PROVE  requests'[r].todo \subseteq requests[r].todo
      BY <1>0, <3>2 DEF Republishes, Goes, Answers
    <3>3. ASSUME NEW op, NEW s, NEW code, Answers(r, op, s, code)
          PROVE  requests'[r].todo \subseteq requests[r].todo
      BY <1>0, <3>3 DEF Answers
    <3>. QED
      <4>1. ASSUME NEW op, NEW s, NEW pc, Goes(r, op, s, pc, {})
            PROVE  requests'[r].todo \subseteq requests[r].todo
        BY <1>0, <4>1 DEF Goes
      <4>2. ASSUME RedeliverFind(r) \/ RedeliverPublish(r)
            PROVE  requests'[r].todo \subseteq requests[r].todo
        BY <3>2, <4>2 DEF RedeliverFind, RedeliverPublish
      <4>3. ASSUME PauseWrite(r) \/ ResumeWrite(r)
            PROVE  requests'[r].todo \subseteq requests[r].todo
        BY <4>1, <4>3 DEF PauseWrite, ResumeWrite
      <4>. QED
        BY <3>1, <3>3, <4>2, <4>3
           DEF RequestContinues, SubscribePublish, PauseAnswer, ResumeAnswer, TestPublish,
               UnsubscribePublish
  <2>. QED  BY <2>2, <2>3
<1>. QED
  BY <1>1, <1>2, <1>3 DEF Next, vars, PublishEvent, Dispatching, Clock, Shutdown

(***************************************************************************)
(* What a step may do to the dispatches: publish a new one, or move one on *)
(* (a crash: all of them).                                                 *)
(***************************************************************************)
PublishesNew ==
  \E id, event :
    /\ Publish(id, event) /\ id \notin DOMAIN dispatches
    /\ id \in Request \X AppEvent => Started(id[1])' /\ id[2] \notin requests'[id[1]].todo

LEMMA DispatchSteps ==
  ASSUME TypeOK, EventsNamed, Republished, [Next]_vars
  PROVE  \/ PublishesNew
         \/ DOMAIN dispatches' = DOMAIN dispatches /\ \A i \in DOMAIN dispatches : Advances(i)
<1>. DEFINE Goal ==
       \/ PublishesNew
       \/ DOMAIN dispatches' = DOMAIN dispatches /\ \A i \in DOMAIN dispatches : Advances(i)
<1>. SUFFICES Goal
  OBVIOUS
<1>. HIDE DEF Goal
<1>0. /\ \A i \in DOMAIN dispatches : IsDispatch(dispatches[i])
      /\ requests \in [Request -> Handler]
  BY DEF TypeOK, DispatcherTypeOK, EventBusTypeOK, ServerTypeOK
<1>1. ASSUME UNCHANGED dispatches  PROVE Goal
  BY <1>1 DEF Goal, Advances
<1>2. ASSUME NEW e \in AppEvent, PublishEvent(e)  PROVE Goal
  <2>1. e \notin Request \X AppEvent
    BY EventBusAssumption
  <2>. QED  BY <1>2, <2>1 DEF PublishEvent, PublishesNew, Goal
<1>3. ASSUME NEW q \in Request, RedeliverPublish(q)  PROVE Goal
  <2>1. PICK e \in requests[q].todo :
          Publish(<<q, e>>, AppEventOf(e)) /\ Republishes(q, requests[q].todo \ {e})
    BY <1>3 DEF RedeliverPublish
  <2>2. e \in AppEvent
    BY <1>0, <2>1 DEF Handler
  <2>3. <<q, e>> \notin DOMAIN dispatches
    BY <2>1, <2>2 DEF Republished
  <2>4. requests'[q].todo = requests[q].todo \ {e} /\ requests'[q].pc # "idle"
    BY <1>0, <2>1 DEF Republishes, Goes, Answers
  <2>. DEFINE id == <<q, e>>
  <2>5. id[1] = q /\ id[2] = e
    OBVIOUS
  <2>. HIDE DEF id
  <2>6. Started(id[1])' /\ id[2] \notin requests'[id[1]].todo
    BY <2>4, <2>5 DEF Started
  <2>7. Publish(id, AppEventOf(e)) /\ id \notin DOMAIN dispatches
    BY <2>1, <2>3 DEF id
  <2>. QED  BY <2>6, <2>7 DEF PublishesNew, Goal
<1>4. ASSUME NEW q \in Request, SubscribePublish(q) \/ TestPublish(q) \/ UnsubscribePublish(q)
      PROVE  Goal
  <2>1. PICK event : Publish(q, event)
    BY <1>4 DEF SubscribePublish, TestPublish, UnsubscribePublish
  <2>2. requests[q].pc = "publishing"
    BY <1>4 DEF SubscribePublish, TestPublish, UnsubscribePublish, At
  <2>3. q \notin DOMAIN dispatches /\ q \notin Request \X AppEvent
    BY <2>2, EventBusAssumption DEF EventsNamed, Answered
  <2>. QED  BY <2>1, <2>3 DEF PublishesNew, Goal
<1>5. ASSUME NEW id \in DispatchId, ListSubscriptions(id)  PROVE Goal
  <2>1. /\ dispatches' = [dispatches EXCEPT ![id].stage = "listed", ![id].snapshot = table]
        /\ dispatches[id].stage = "listing"
    BY <1>5 DEF ListSubscriptions
  <2>2. \A i \in DOMAIN dispatches : Advances(i)
    BY <1>0, <2>1 DEF Advances, IsDispatch, StagesLeft
  <2>3. DOMAIN dispatches' = DOMAIN dispatches
    BY <2>1
  <2>. QED  BY <2>2, <2>3 DEF Goal
<1>6. ASSUME NEW id \in DispatchId, FanOut(id)  PROVE Goal
  <2>1. /\ dispatches' = [dispatches EXCEPT ![id].stage = "fanned", ![id].snapshot = NoTable]
        /\ dispatches[id].stage = "listed"
    BY <1>6 DEF FanOut
  <2>2. \A i \in DOMAIN dispatches : Advances(i)
    BY <1>0, <2>1 DEF Advances, IsDispatch, StagesLeft
  <2>3. DOMAIN dispatches' = DOMAIN dispatches
    BY <2>1
  <2>. QED  BY <2>2, <2>3 DEF Goal
<1>7. CASE Crash
  <2>1. dispatches' = [i \in DOMAIN dispatches |->
                         [dispatches[i] EXCEPT !.stage = "fanned", !.snapshot = NoTable]]
    BY <1>7 DEF Crash, LoseDelivery
  <2>2. ASSUME NEW i \in DOMAIN dispatches  PROVE Advances(i)
    <3>1. dispatches'[i].stage = "fanned" /\ dispatches'[i].event = dispatches[i].event
      BY <1>0, <2>1 DEF IsDispatch
    <3>2. dispatches[i].stage \in {"listing", "listed", "fanned"}
      BY <1>0 DEF IsDispatch
    <3>3. i \in DOMAIN dispatches'
      BY <2>1
    <3>. QED  BY <3>1, <3>2, <3>3 DEF Advances, StagesLeft
  <2>3. DOMAIN dispatches' = DOMAIN dispatches
    BY <2>1
  <2>. QED  BY <2>2, <2>3 DEF Goal
<1>8. CASE Serving
  <2>1. PICK q \in Request : RequestArrives(q) \/ RequestContinues(q)
    BY <1>8 DEF Serving
  <2>2. CASE RequestArrives(q)
    BY <1>1, <2>2
       DEF RequestArrives, SubscribeRefused, SubscribeSave, PauseRead, ResumeRead, TestRead,
           UnsubscribeDelete, RedeliverRead
  <2>3. CASE RequestContinues(q)
    BY <1>1, <1>3, <1>4, <2>3 DEF RequestContinues, PauseWrite, PauseAnswer, ResumeWrite,
                                  ResumeAnswer, RedeliverFind
  <2>. QED  BY <2>1, <2>2, <2>3
<1>9. CASE Dispatching
  BY <1>1, <1>5, <1>6, <1>9 DEF Dispatching, DispatcherStep, Wake, Answer, ReadRecord,
                                WriteRecord, Report
<1>. QED
  BY <1>1, <1>2, <1>7, <1>8, <1>9 DEF Next, vars, Clock, Shutdown, Stop

LEMMA RepublishedKept ==
  ASSUME TypeOK, EventsNamed, Republished, [Next]_vars
  PROVE  Republished'
<1>. SUFFICES ASSUME NEW r \in Request, NEW e \in AppEvent, <<r, e>> \in DOMAIN dispatches'
              PROVE  Started(r)' /\ e \notin requests'[r].todo
  BY DEF Republished
<1>1. CASE <<r, e>> \in DOMAIN dispatches
  <2>1. Started(r) /\ e \notin requests[r].todo
    BY <1>1 DEF Republished
  <2>2. requests'[r].todo \subseteq requests[r].todo
    BY <2>1, TodoShrinks
  <2>3. Started(r)'
    BY <2>1, RequestSteps DEF Started
  <2>. QED  BY <2>1, <2>2, <2>3
<1>2. CASE <<r, e>> \notin DOMAIN dispatches
  <2>1. PublishesNew
    BY <1>2, DispatchSteps
  <2>2. PICK id, event :
          /\ Publish(id, event)
          /\ id \in Request \X AppEvent => Started(id[1])' /\ id[2] \notin requests'[id[1]].todo
    BY <2>1 DEF PublishesNew
  <2>3. id = <<r, e>>
    BY <1>2, <2>2 DEF Publish
  <2>4. id \in Request \X AppEvent /\ id[1] = r /\ id[2] = e
    BY <2>3
  <2>. QED  BY <2>2, <2>4 DEF Started
<1>. QED  BY <1>1, <1>2

(***************************************************************************)
(* No event is listed or fanned out twice under one name, and a dispatch   *)
(* never carries another event than the one it was published with.         *)
(***************************************************************************)
THEOREM DispatchesAdvanceHolds == Spec => DispatchesAdvance
<1>1. Init => EventsNamed /\ Republished
  BY DEF Init, DispatcherInit, EventsNamed, Republished
<1>2. TypeOK /\ EventsNamed /\ Republished /\ [Next]_vars => (EventsNamed /\ Republished)'
  BY EventsNamedKept, RepublishedKept
<1>3. TypeOK /\ EventsNamed /\ Republished /\ [Next]_vars =>
        [\A i \in DOMAIN dispatches : Advances(i)]_vars
  <2>. SUFFICES ASSUME TypeOK, EventsNamed, Republished, [Next]_vars, PublishesNew
                PROVE  \A i \in DOMAIN dispatches : Advances(i)
    BY DispatchSteps
  <2>. QED  BY DEF PublishesNew, Publish, Advances
<1>. QED  BY <1>1, <1>2, <1>3, TypeCorrect, PTL DEF DispatchesAdvance, Spec
(***************************************************************************)
(* A delivery runs in order: its dispatch moves on with its event, its     *)
(* attempts follow one another and are logged once and in turn, and what   *)
(* has been reported of it stays.                                          *)
(***************************************************************************)
THEOREM DeliveriesKeepOrder ==
  Spec => /\ DispatchesAdvance /\ AttemptsInTurn
          /\ LogInTurn /\ []OneEntryPerAttempt /\ OutcomesAreFinal
BY DispatchesAdvanceHolds, AttemptsInTurnHolds, LogIsWrittenInTurn, LoggedOnce, OutcomesAreFinalHolds
=============================================================================
