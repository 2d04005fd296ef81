-------------------------- MODULE WebhookDispatcher --------------------------
(***************************************************************************)
(* The webhook dispatcher: one delivery per selected subscription, each a  *)
(* chain of awaits (sleep, POST, read the record, write it back, report),  *)
(* all interleaved on one event loop.                                      *)
(*                                                                         *)
(*   asleep -> posting -> ... -> reading -> writing -> reporting -> settled*)
(*                                                                         *)
(* A zero delay does not await, so the loop may pass from one attempt to   *)
(* the next, or from the fan-out to the first POST, inside one step.       *)
(***************************************************************************)
EXTENDS EventBus, Sequences

CONSTANTS RetrySchedule,       \* delay before each attempt; 0 = no await
          PauseAfterFailures,  \* exhausted deliveries that pause
          HasEventStore        \* an event store is configured

ASSUME DispatcherAssumption ==
  /\ RetrySchedule \in Seq(Nat) /\ RetrySchedule # <<>>
  /\ PauseAfterFailures \in Nat \ {0}
  /\ HasEventStore \in BOOLEAN

MaxAttempts == Len(RetrySchedule)

VARIABLES deliveries,   \* every deliverWithRetry call: a function on DeliveryId
          stopped,      \* stop() was called
          deliveryLog   \* entries of the delivery log

dispatcherVars == <<dispatches, deliveries, stopped, deliveryLog>>

DeliveryId == DispatchId \X SubId

(***************************************************************************)
(* sub: the record captured at the fan-out, never read again; won: the     *)
(* last attempt was a 2xx; seen: the failure_count read by recordFailure;  *)
(* result: the DeliveryResult handed to onDeliveryResult; when the process *)
(* died first, "unreported" if the outcome was already written to the      *)
(* table, otherwise "lost".                                                *)
(***************************************************************************)
Delivery ==
  [pc      : {"asleep", "posting", "reading", "writing", "reporting", "settled"},
   sub     : SubscriptionRecord,
   attempt : 1 .. MaxAttempts,
   won     : BOOLEAN,
   seen    : Nat,
   result  : {"pending", "delivered", "failed", "aborted", "unreported", "lost"}]

LogEntry ==
  [delivery     : DeliveryId,
   attempt      : 1 .. MaxAttempts,
   final_status : {"delivered", "failed", "undeliverable"}]

Settle(d, outcome) ==
  [d EXCEPT !.pc = "settled", !.seen = 0, !.result = outcome]

AttemptThoughStopped(d) == [d EXCEPT !.pc = "posting"]           \* mutant

(***************************************************************************)
(* After the sleep: a stopped dispatcher reports the delivery aborted and  *)
(* leaves the subscription's counter alone; otherwise it POSTs.            *)
(***************************************************************************)
AttemptOrAbort(d) ==
  IF stopped THEN Settle(d, "aborted") ELSE [d EXCEPT !.pc = "posting"]

(***************************************************************************)
(* The head of the retry loop for attempt n.  Past the schedule the        *)
(* delivery is exhausted and goes on to recordFailure.                     *)
(***************************************************************************)
EnterLoop(d, n) ==
  IF n > MaxAttempts THEN [d EXCEPT !.pc = "reading", !.won = FALSE]
  ELSE IF RetrySchedule[n] > 0 THEN [d EXCEPT !.pc = "asleep", !.attempt = n]
  ELSE AttemptOrAbort([d EXCEPT !.attempt = n])

NewDelivery(rec) ==
  [pc |-> "asleep", sub |-> rec, attempt |-> 1, won |-> FALSE, seen |-> 0,
   result |-> "pending"]

(***************************************************************************)
(* dispatch(): listSubscriptions() resolves with a snapshot ...            *)
(***************************************************************************)
ListSubscriptions(id) ==
  /\ id \in DOMAIN dispatches
  /\ dispatches[id].stage = "listing"
  /\ dispatches' = [dispatches EXCEPT ![id].stage = "listed",
                                      ![id].snapshot = table]
  /\ UNCHANGED <<table, now, deliveries, stopped, deliveryLog>>

(***************************************************************************)
(* ... and the continuation filters that snapshot and starts every         *)
(* delivery, each running up to its first await.                           *)
(***************************************************************************)
Targets(id) ==
  {s \in DOMAIN dispatches[id].snapshot :
     IsTarget(s, dispatches[id].snapshot[s], dispatches[id].event)}

FanOut(id) ==
  /\ id \in DOMAIN dispatches
  /\ dispatches[id].stage = "listed"
  /\ deliveries' =
       [k \in DOMAIN deliveries \cup ({id} \X Targets(id)) |->
          IF k \in DOMAIN deliveries THEN deliveries[k]
          ELSE EnterLoop(NewDelivery(dispatches[id].snapshot[k[2]]), 1)]
  /\ dispatches' = [dispatches EXCEPT ![id].stage = "fanned",
                                      ![id].snapshot = NoTable]
  /\ UNCHANGED <<table, now, stopped, deliveryLog>>

(***************************************************************************)
(* The sleep before an attempt ends.                                       *)
(***************************************************************************)
Wake(k) ==
  /\ k \in DOMAIN deliveries
  /\ deliveries[k].pc = "asleep"
  /\ deliveries' = [deliveries EXCEPT ![k] = AttemptOrAbort(@)]
  /\ UNCHANGED <<table, now, dispatches, stopped, deliveryLog>>

StatusWithoutFinal(ok, attempt) ==                               \* mutant
  IF ok THEN "delivered" ELSE "undeliverable"

(***************************************************************************)
(* logAttempt's final_status.                                              *)
(***************************************************************************)
FinalStatus(ok, attempt) ==
  IF ok THEN "delivered"
  ELSE IF attempt = MaxAttempts THEN "undeliverable" ELSE "failed"

(***************************************************************************)
(* attemptDelivery returns: a 2xx, or anything else (another status, a     *)
(* transport error, the 10 s abort, no secret to sign with).  The attempt  *)
(* is logged unless there is no store, or its write throws, which is       *)
(* swallowed.                                                              *)
(***************************************************************************)
Answer(k) ==
  /\ k \in DOMAIN deliveries
  /\ deliveries[k].pc = "posting"
  /\ \E ok \in BOOLEAN :
       /\ ok => deliveries[k].sub.signable
       /\ deliveries' =
            [deliveries EXCEPT ![k] =
               IF ok THEN [@ EXCEPT !.pc = "reading", !.won = TRUE]
                     ELSE EnterLoop(@, @.attempt + 1)]
       /\ \/ HasEventStore /\ deliveryLog' = deliveryLog \cup
               {[delivery     |-> k,
                 attempt      |-> deliveries[k].attempt,
                 final_status |-> FinalStatus(ok, deliveries[k].attempt)]}
          \/ UNCHANGED deliveryLog
  /\ UNCHANGED <<table, now, dispatches, stopped>>

(***************************************************************************)
(* recordSuccess / recordFailure: the first await reads the record.  There *)
(* is nothing to write when it is gone, or when a success finds a zero     *)
(* counter; the delivery is then reported at once.                         *)
(***************************************************************************)
Outcome(d) == IF d.won THEN "delivered" ELSE "failed"

NothingToWrite(k) ==
  \/ k[2] \notin DOMAIN table
  \/ deliveries[k].won /\ table[k[2]].failure_count = 0

ReadOnlyIfPresent(k) ==                                          \* mutant
  /\ k \in DOMAIN deliveries
  /\ deliveries[k].pc = "reading"
  /\ k[2] \in DOMAIN table
  /\ deliveries' =
       [deliveries EXCEPT ![k] =
          IF NothingToWrite(k) THEN Settle(@, Outcome(@))
          ELSE [@ EXCEPT !.pc = "writing", !.seen = table[k[2]].failure_count]]
  /\ UNCHANGED <<table, now, dispatches, stopped, deliveryLog>>

ReadRecord(k) ==
  /\ k \in DOMAIN deliveries
  /\ deliveries[k].pc = "reading"
  /\ deliveries' =
       [deliveries EXCEPT ![k] =
          IF NothingToWrite(k) THEN Settle(@, Outcome(@))
          ELSE [@ EXCEPT !.pc = "writing", !.seen = table[k[2]].failure_count]]
  /\ UNCHANGED <<table, now, dispatches, stopped, deliveryLog>>

(***************************************************************************)
(* The second await writes: a success clears the counter, a failure stores *)
(* the count it read plus one and pauses at the threshold.  The write is   *)
(* on record before the await returns and the delivery is reported.        *)
(***************************************************************************)
SuccessReactivates(rec) ==                                       \* mutant
  [rec EXCEPT !.failure_count = 0, !.status = "active"]

SuccessKeepsCounter(rec) == rec                                  \* mutant

AfterSuccess(rec) == [rec EXCEPT !.failure_count = 0]

FailureDecrements(rec, seen) ==                                  \* mutant
  [rec EXCEPT !.failure_count = seen - 1]

PausesOneEarly(rec, seen) ==                                     \* mutant
  [rec EXCEPT !.failure_count = seen + 1,
              !.status = IF seen + 1 >= PauseAfterFailures - 1
                         THEN "paused" ELSE @]

CountsAttempts(rec, seen) ==                                     \* mutant
  [rec EXCEPT !.failure_count = seen + MaxAttempts,
              !.status = IF seen + MaxAttempts >= PauseAfterFailures
                         THEN "paused" ELSE @]

AfterFailure(rec, seen) ==
  [rec EXCEPT !.failure_count = seen + 1,
              !.status = IF seen + 1 >= PauseAfterFailures THEN "paused" ELSE @]

WriteRecord(k) ==
  /\ k \in DOMAIN deliveries
  /\ deliveries[k].pc = "writing"
  /\ UpdateSubscription(k[2],
       IF deliveries[k].won THEN AfterSuccess(table[k[2]])
       ELSE AfterFailure(table[k[2]], deliveries[k].seen))
  /\ deliveries' = [deliveries EXCEPT ![k] = [@ EXCEPT !.pc = "reporting", !.seen = 0]]
  /\ UNCHANGED <<now, dispatches, stopped, deliveryLog>>

Report(k) ==
  /\ k \in DOMAIN deliveries
  /\ deliveries[k].pc = "reporting"
  /\ deliveries' = [deliveries EXCEPT ![k] = Settle(@, Outcome(@))]
  /\ UNCHANGED <<table, now, dispatches, stopped, deliveryLog>>

Stop ==
  /\ ~stopped
  /\ stopped' = TRUE
  /\ UNCHANGED <<table, now, dispatches, deliveries, deliveryLog>>

DispatcherInit ==
  /\ dispatches = [i \in {} |-> {}]
  /\ deliveries = [k \in {} |-> {}]
  /\ stopped = FALSE
  /\ deliveryLog = {}

DispatcherStep ==
  \/ \E id \in DispatchId : ListSubscriptions(id) \/ FanOut(id)
  \/ \E k \in DeliveryId : \/ Wake(k) \/ Answer(k)
                          \/ ReadRecord(k) \/ WriteRecord(k) \/ Report(k)

DispatcherTypeOK ==
  /\ EventBusTypeOK
  /\ DOMAIN deliveries \subseteq DeliveryId
  /\ \A k \in DOMAIN deliveries : deliveries[k] \in Delivery
  /\ stopped \in BOOLEAN
  /\ deliveryLog \subseteq LogEntry
=============================================================================
