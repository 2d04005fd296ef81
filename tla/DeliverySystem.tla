--------------------------- MODULE DeliverySystem ---------------------------
(***************************************************************************)
(* The server, the bus and the dispatcher on one event loop, with the      *)
(* application that publishes, the clock, a shutdown and a crash.          *)
(***************************************************************************)
EXTENDS WebhookDispatcher, EepServer

CONSTANTS Overlap,    \* FALSE: the application awaits dispatch() before it
                      \* publishes again
          Stops,      \* TRUE: stop() may be called
          MaxCrashes  \* bound: crashes of the process

ASSUME SystemAssumption ==
  /\ Overlap \in BOOLEAN /\ Stops \in BOOLEAN
  /\ MaxCrashes \in Nat

VARIABLE crashes

vars == <<table, now, dispatches, deliveries, stopped, deliveryLog, requests, crashes>>

Settled(k) == deliveries[k].pc = "settled"

Quiescent ==
  /\ \A i \in DOMAIN dispatches : dispatches[i].stage = "fanned"
  /\ \A k \in DOMAIN deliveries : Settled(k)

PublishEvent(e) ==
  /\ e \notin DOMAIN dispatches
  /\ Overlap \/ Quiescent
  /\ Publish(e, AppEventOf(e))
  /\ UNCHANGED <<table, now, deliveries, stopped, deliveryLog, requests, crashes>>

(***************************************************************************)
(* The process dies and restarts over the same store: nothing in flight is *)
(* persisted, so every unfinished dispatch, delivery and request is lost,  *)
(* while what a delivery or a handler had written to the table stays.      *)
(***************************************************************************)
LoseDelivery(d) ==
  Settle(d, IF d.pc = "reporting" THEN "unreported" ELSE "lost")

LoseHandler(h) ==
  [h EXCEPT !.pc = IF h.pc = "answering" THEN "unanswered" ELSE "lost"]

Crash ==
  /\ crashes < MaxCrashes
  /\ crashes' = crashes + 1
  /\ stopped' = FALSE
  /\ dispatches' = [i \in DOMAIN dispatches |->
                      [dispatches[i] EXCEPT !.stage = "fanned", !.snapshot = NoTable]]
  /\ deliveries' = [k \in DOMAIN deliveries |->
                      IF Settled(k) THEN deliveries[k] ELSE LoseDelivery(deliveries[k])]
  /\ requests' = [r \in Request |->
                    IF requests[r].pc \in {"idle", "done", "unanswered", "lost"}
                    THEN requests[r] ELSE LoseHandler(requests[r])]
  /\ UNCHANGED <<table, now, deliveryLog>>

Clock ==
  /\ Tick
  /\ UNCHANGED <<table, dispatches, deliveries, stopped, deliveryLog, requests, crashes>>

Shutdown == Stops /\ Stop /\ UNCHANGED <<requests, crashes>>

Dispatching == DispatcherStep /\ UNCHANGED <<requests, crashes>>

Serving ==
  /\ \E r \in Request : RequestArrives(r) \/ RequestContinues(r)
  /\ UNCHANGED <<deliveries, stopped, deliveryLog, crashes>>

Init ==
  /\ table \in InitialTables
  /\ now = StartTime
  /\ DispatcherInit
  /\ ServerInit
  /\ crashes = 0

Next ==
  \/ \E e \in AppEvent : PublishEvent(e)
  \/ Dispatching
  \/ Serving
  \/ Clock
  \/ Shutdown
  \/ Crash

Spec == Init /\ [][Next]_vars

(***************************************************************************)
(* Fairness of the runtime: timers fire, the HTTP client answers or is     *)
(* aborted after its timeout, and the store answers.                       *)
(***************************************************************************)
Fairness ==
  /\ \A id \in DispatchId : /\ WF_vars(ListSubscriptions(id) /\ UNCHANGED <<requests, crashes>>)
                            /\ WF_vars(FanOut(id) /\ UNCHANGED <<requests, crashes>>)
  /\ \A k \in DeliveryId : /\ WF_vars(Wake(k) /\ UNCHANGED <<requests, crashes>>)
                           /\ WF_vars(Answer(k) /\ UNCHANGED <<requests, crashes>>)
                           /\ WF_vars(ReadRecord(k) /\ UNCHANGED <<requests, crashes>>)
                           /\ WF_vars(WriteRecord(k) /\ UNCHANGED <<requests, crashes>>)
                           /\ WF_vars(Report(k) /\ UNCHANGED <<requests, crashes>>)

FairSpec == Spec /\ Fairness

(***************************************************************************)
(* Every variable of the composed modules has its type.                    *)
(***************************************************************************)
TypeOK ==
  /\ SubscriptionsTypeOK
  /\ DispatcherTypeOK
  /\ ServerTypeOK
  /\ crashes \in 0 .. MaxCrashes
-----------------------------------------------------------------------------
(***************************************************************************)
(* Safety.                                                                 *)
(***************************************************************************)
(***************************************************************************)
(* The deliveries of s whose outcome counts: reported, or written to the   *)
(* table and about to be reported, or cut off by a crash in between.       *)
(***************************************************************************)
OnRecord(d) ==
  d.pc = "reporting" \/ d.result \in {"delivered", "failed", "unreported"}

Ended(s, won) ==
  {k \in DOMAIN deliveries :
     k[2] = s /\ OnRecord(deliveries[k]) /\ deliveries[k].won = won}

FailedDeliveries(s) == Cardinality(Ended(s, FALSE))

(***************************************************************************)
(* recordFailure under any interleaving: the counter of a subscription     *)
(* never runs ahead of the deliveries that used up their schedule and were *)
(* recorded or reported, so neither a stale read, a shutdown nor a crash   *)
(* between the write and the report can make it count a delivery twice, or *)
(* one that did not fail.                                                  *)
(***************************************************************************)
CounterNeverOvercounts ==
  \A s \in DOMAIN table : table[s].failure_count <= FailedDeliveries(s)

(***************************************************************************)
(* A subscription is paused only by a pause request, answered or not yet   *)
(* or cut off by a crash after its update, or after at least               *)
(* PauseAfterFailures failed deliveries.                                   *)
(***************************************************************************)
AskedToPause(h, s) ==
  /\ h.op = "pause" /\ h.sub = s
  /\ \/ h.pc \in {"answering", "unanswered"}
     \/ h.pc = "done" /\ h.code = 200

PauseJustified ==
  \A s \in DOMAIN table :
    table[s].status = "paused" =>
      \/ \E r \in Request : AskedToPause(requests[r], s)
      \/ FailedDeliveries(s) >= PauseAfterFailures

(***************************************************************************)
(* The delivery log and the DeliveryResult tell one story: "delivered" is  *)
(* the last entry of a won delivery, "undeliverable" belongs only to the   *)
(* last attempt of an exhausted schedule, and an aborted delivery shows    *)
(* nothing but interim failures.                                           *)
(***************************************************************************)
LogTellsOutcome ==
  \A x \in deliveryLog :
    LET d == deliveries[x.delivery] IN
      /\ x.delivery \in DOMAIN deliveries
      /\ x.attempt <= d.attempt
      /\ x.final_status = "delivered" =>
           d.won /\ x.attempt = d.attempt /\ d.result # "failed"
      /\ x.final_status = "undeliverable" =>
           /\ x.attempt = MaxAttempts /\ ~d.won
           /\ d.result \in {"pending", "failed", "unreported", "lost"}
      /\ x.final_status = "failed" => x.attempt < MaxAttempts

(***************************************************************************)
(* The cancelled event of a DELETE is published after the deletion, so it  *)
(* is never delivered to the subscription it cancels; it reaches one of    *)
(* the same name only if two subscribe requests of one instant were given  *)
(* the same name.                                                          *)
(***************************************************************************)
Creators(s) == {r \in Request : requests[r].op = "subscribe" /\ requests[r].sub = s}

Reused(s) == \E r, q \in Creators(s) : r # q

CancelledNotNotified ==
  \A k \in DOMAIN deliveries :
    k[1] \in Request /\ requests[k[1]].op = "unsubscribe" /\ requests[k[1]].sub = k[2] =>
      Reused(k[2])

-----------------------------------------------------------------------------
(***************************************************************************)
(* Steps that may never happen.                                            *)
(***************************************************************************)

(***************************************************************************)
(* Only a subscribe request brings an identifier into the table: the late  *)
(* write of a delivery that outlives a DELETE cannot resurrect it.         *)
(***************************************************************************)
OnlySubscribeCreates ==
  [][\A s \in DOMAIN table' \ DOMAIN table :
       \E r \in Request : At(r, "subscribe", "publishing")' /\ requests'[r].sub = s]_vars

(***************************************************************************)
(* Only a resume (or a subscribe that reuses the identifier) makes a       *)
(* paused subscription active again: a retry that succeeds after the pause *)
(* clears the counter and nothing else.                                    *)
(***************************************************************************)
OnlyResumeReactivates ==
  [][\A s \in DOMAIN table \cap DOMAIN table' :
       table[s].status = "paused" /\ table'[s].status = "active" =>
         \E r \in Request :
           /\ requests'[r].sub = s
           /\ \/ At(r, "resume", "writing")
              \/ At(r, "subscribe", "publishing")']_vars

(***************************************************************************)
(* Attempts started for a delivery.                                        *)
(***************************************************************************)
Attempts(k) ==
  IF k \notin DOMAIN deliveries THEN 0
  ELSE IF deliveries[k].pc = "asleep" \/ deliveries[k].result = "aborted"
       THEN deliveries[k].attempt - 1
  ELSE deliveries[k].attempt

AttemptStarts(k) == deliveries'[k].pc = "posting" /\ Attempts(k)' > Attempts(k)

(***************************************************************************)
(* Once stop() was called no attempt starts, first or retry, whatever was  *)
(* asleep or about to fan out.                                             *)
(***************************************************************************)
NoAttemptAfterStop ==
  [][stopped => \A k \in DOMAIN deliveries' : ~AttemptStarts(k)]_vars
-----------------------------------------------------------------------------
(***************************************************************************)
(* Liveness: every published event is fanned out, and every delivery is    *)
(* reported, even when its subscription is deleted or the dispatcher is    *)
(* stopped in between.                                                     *)
(***************************************************************************)
EveryDispatchSettles ==
  \A id \in DispatchId :
    (id \in DOMAIN dispatches) ~>
      /\ id \in DOMAIN dispatches /\ dispatches[id].stage = "fanned"
      /\ \A k \in DOMAIN deliveries : k[1] = id => Settled(k)

(***************************************************************************)
(* The dispatcher's bookkeeping keeps the promise of FailureStreak when    *)
(* deliveries of a subscription do not overlap.                            *)
(***************************************************************************)
Streak == INSTANCE FailureStreak WITH
  Sub       <- SubId,
  Threshold <- PauseAfterFailures,
  streak    <- [s \in DOMAIN table |-> table[s].failure_count],
  status    <- [s \in DOMAIN table |-> table[s].status],
  failed    <- [s \in SubId |-> FailedDeliveries(s)],
  delivered <- [s \in SubId |-> Cardinality(Ended(s, TRUE))]

StreakKept == Streak!Spec
=============================================================================
