--------------------------- MODULE BatchedDelivery ---------------------------
(***************************************************************************)
(* The batch dispatcher, the network and the receiver: POSTs that arrive   *)
(* late, twice, altered or not at all, answers that are lost, a receiver   *)
(* that restarts, a subscription that disappears, and a shutdown.          *)
(***************************************************************************)
EXTENDS BatchDispatch, WebhookReceiver, SequencesExt

CONSTANTS Setups,     \* the setups to consider
          MaxFaults   \* bound: altered POSTs, restarts, deletion, shutdown

ASSUME DeliveryAssumption == Setups \subseteq Setup /\ MaxFaults \in Nat

VARIABLE faults   \* how many of these there were

vars == <<table, now, setup, calls, stopped, wire, receiver, faults>>

Fault == faults < MaxFaults /\ faults' = faults + 1

(***************************************************************************)
(* A POST arrives.  If its attempt still waits, the publisher may get the  *)
(* answer; the POST may also arrive once more.                             *)
(***************************************************************************)
Receive(m) ==
  /\ m \in wire
  /\ receiver' = AfterReply(Respond(m))
  /\ \E rest \in {wire, wire \ {m}} :
       \/ /\ IsCurrent(m)
          /\ Advance(m.call, AfterAttempt(calls[m.call], Respond(m).ok), rest)
       \/ wire' = rest /\ UNCHANGED calls
  /\ UNCHANGED <<table, now, setup, stopped, faults>>

\* Something on the way writes the JSON anew.
Alter(m) ==
  /\ Fault
  /\ m \in wire /\ m.intact
  /\ wire' = (wire \ {m}) \cup {[m EXCEPT !.intact = FALSE]}
  /\ UNCHANGED <<table, now, setup, calls, stopped, receiver>>

(***************************************************************************)
(* The subscription is deleted: any other handler of the server may do so. *)
(***************************************************************************)
Unsubscribe ==
  /\ Fault
  /\ Addressee \in DOMAIN table
  /\ DeleteSubscription(Addressee)
  /\ UNCHANGED <<now, setup, calls, stopped, wire, receiver>>

Shutdown == Fault /\ Stop /\ UNCHANGED <<now, setup, receiver>>

Restart ==
  /\ Fault
  /\ ReceiverRestarts
  /\ UNCHANGED <<table, now, setup, calls, stopped, wire>>

Clock ==
  /\ Tick
  /\ UNCHANGED <<table, setup, calls, stopped, wire, receiver, faults>>

Dispatching ==
  /\ \E c \in Call : DispatchBatch(c) \/ BatchStep(c)
  /\ UNCHANGED <<now, setup, receiver, faults>>

Init ==
  /\ table \in InitialTables
  /\ now = StartTime
  /\ setup \in Setups
  /\ BatchInit
  /\ receiver = Fresh
  /\ faults = 0

Next ==
  \/ Dispatching
  \/ \E m \in wire : Receive(m) \/ Alter(m)
  \/ Unsubscribe
  \/ Shutdown
  \/ Restart
  \/ Clock

Spec == Init /\ [][Next]_vars

(***************************************************************************)
(* Awaits of a call end: timers fire, the store answers, and a POST is     *)
(* answered or aborted after the delivery timeout.                         *)
(***************************************************************************)
CallGoesOn(c) == BatchStep(c) /\ UNCHANGED <<now, setup, receiver, faults>>

FairSpec == Spec /\ \A c \in Call : WF_vars(CallGoesOn(c))

-----------------------------------------------------------------------------
(***************************************************************************)
(* Every variable has its type.                                            *)
(***************************************************************************)
TypeOK ==
  /\ SubscriptionsTypeOK
  /\ SetupTypeOK
  /\ BatchTypeOK
  /\ ReceiverTypeOK
  /\ faults \in 0 .. MaxFaults

(***************************************************************************)
(* dispatchBatch reports every eligible event once, in the order given:    *)
(* however the events are cut into chunks, none is skipped or sent twice.  *)
(***************************************************************************)
EventsOf(results) == FlattenSeq([i \in DOMAIN results |-> results[i].events])

ResultsFollowEvents ==
  \A c \in Call :
    LET reported == EventsOf(calls[c].results)
    IN /\ reported = SubSeq(calls[c].eligible, 1, Len(reported))
       /\ calls[c].pc = "done" => reported = calls[c].eligible

(***************************************************************************)
(* The comment on dispatchBatch: "A failed batch counts as ONE failed      *)
(* delivery against the counter, not one per event".  The counter never    *)
(* exceeds the number of chunks that failed, and a subscription is paused  *)
(* only when that many did, whatever calls run side by side.  A chunk      *)
(* counts as failed from the moment its failure is on record.              *)
(***************************************************************************)
Reported(c, outcome) ==
  {i \in DOMAIN calls[c].results : calls[c].results[i].outcome = outcome}

InReport(c) ==
  IF calls[c].pc = "reporting" /\ ~calls[c].won
  THEN {Len(calls[c].results) + 1} ELSE {}

FailedChunks ==
  UNION {{c} \X (Reported(c, "failed") \cup InReport(c)) : c \in Call}

BatchCountsOnce ==
  Addressee \in DOMAIN table =>
    /\ table[Addressee].failure_count <= Cardinality(FailedChunks)
    /\ table[Addressee].status = "paused" =>
         Cardinality(FailedChunks) >= PauseAfterFailures

(***************************************************************************)
(* What the publisher reports as delivered did reach a handler, for every  *)
(* order of late, repeated and altered POSTs and restarts.  Excluded is    *)
(* binary mode with an example receiver, which answers 200 to events it    *)
(* cannot read (see the README).                                           *)
(***************************************************************************)
ReadsItsForm ==
  setup.receiver = "package" \/ FormOf # "binary"

AcknowledgedWasHandled ==
  ReadsItsForm =>
    \A c \in Call : \A i \in Reported(c, "delivered") :
      Members(calls[c].results[i].events) \subseteq receiver.ever

(***************************************************************************)
(* A receiver that stays up handles no event twice, although attempts are  *)
(* signed anew, batches overlap and POSTs arrive again.                    *)
(***************************************************************************)
HandledOncePerStart == \A e \in AppEvent : receiver.times[e] <= 1

(***************************************************************************)
(* Every verifier of the repository gives the same verdict on every POST:  *)
(* good if unaltered and within the window, with one token or with two.    *)
(* The Ed25519 verifier and the compliance suite's leave the window to     *)
(* their callers, and the Express example never reads a batch.             *)
(***************************************************************************)
VerifiersAgree ==
  \A m \in wire :
    LET good == m.intact /\ Age(m) <= Tolerance IN
    /\ verifyEEPWebhook(m) = good
    /\ verifyEEPWebhookWeb(m) = good
    /\ verify_eep_webhook(m) = good
    /\ FastApiVerifies(m) = good
    /\ ExpressVerifies(m) = (good /\ m.form # "batch")
    /\ verifyEd25519(m) = (m.intact /\ setup.dual)
    /\ (verifyWebhookSignature(m) \in {"ok", "ok_via_multi_signature"}) = m.intact

(***************************************************************************)
(* Every call of dispatchBatch returns, also when it is stopped or its     *)
(* subscription disappears.                                                *)
(***************************************************************************)
CallsReturn == \A c \in Call : calls[c].pc = "listing" ~> calls[c].pc = "done"
=============================================================================
