--------------------------- MODULE Subscriptions ---------------------------
(***************************************************************************)
(* The subscription table behind the DBAdapter interface, the clock, and   *)
(* the events that travel on the bus.  Every adapter call is one atomic    *)
(* step of the store; what is NOT atomic is a handler that awaits one call *)
(* and then issues another, so the components that extend this module give *)
(* each awaited call an action of its own.                                 *)
(*                                                                         *)
(* The server names a subscription after Date.now(), so an identifier is   *)
(* the instant of its creation: SubId is the set of instants.              *)
(***************************************************************************)
EXTENDS Naturals, FiniteSets

CONSTANTS MaxTime,        \* bound: the last instant of the clock
          StartTime,      \* the instant at which the server starts
          AppEvent,       \* events the application publishes
          Request,        \* HTTP requests (bound: one operation each)
          NoSub,          \* "about no subscription"
          NoLease,        \* expires_at is absent
          InitialTables   \* the tables a persistent store may hold at start

SubId == 0 .. MaxTime

SubscriptionStatus ==
  {"pending_verification", "active", "paused", "rejected", "expired", "cancelled"}

(***************************************************************************)
(* What a subscription's patterns and content filter tell apart: each      *)
(* application event, and the lifecycle events of the server itself.       *)
(***************************************************************************)
Kind == AppEvent \cup {"created", "cancelled"}

SubscriptionRecord ==
  [webhook       : BOOLEAN,       \* delivery_method = "webhook" with a callback_url
   signable      : BOOLEAN,       \* a usable secret exists for this subscription
   selects       : SUBSET Kind,   \* event_types and filter, resolved
   status        : SubscriptionStatus,
   failure_count : Nat,
   expires_at    : Nat \cup {NoLease}]

Event == [kind : Kind \cup {"test"}, about : SubId \cup {NoSub}]

AppEventOf(e) == [kind |-> e, about |-> NoSub]

IsTable(t) ==
  /\ DOMAIN t \subseteq SubId
  /\ t \in [DOMAIN t -> SubscriptionRecord]

(***************************************************************************)
(* A table found at start was written by an earlier run of the same        *)
(* server, so its identifiers are earlier instants; it is taken fresh:     *)
(* active records without failures.                                        *)
(***************************************************************************)
ASSUME SubscriptionsAssumption ==
  /\ MaxTime \in Nat
  /\ StartTime \in SubId
  /\ NoSub \notin SubId
  /\ NoLease \notin Nat
  /\ IsFiniteSet(AppEvent) /\ IsFiniteSet(Request)
  /\ \A t \in InitialTables :
       /\ IsTable(t) /\ \A s \in DOMAIN t : s < StartTime
       /\ \A s \in DOMAIN t : t[s].status = "active" /\ t[s].failure_count = 0

VARIABLES table,   \* the stored records: a function on the existing ids
          now      \* Date.now()

(***************************************************************************)
(* saveSubscription: Map.set, which replaces a record of the same id.      *)
(***************************************************************************)
SaveSubscription(id, rec) ==
  table' = [i \in DOMAIN table \cup {id} |-> IF i = id THEN rec ELSE table[i]]

UpdateOrInsert(id, rec) ==                                       \* mutant
  table' = [i \in DOMAIN table \cup {id} |->
              IF i # id THEN table[i]
              ELSE IF id \in DOMAIN table THEN rec
              ELSE [webhook |-> TRUE, signable |-> TRUE, selects |-> {},
                    status |-> "active", failure_count |-> 0,
                    expires_at |-> NoLease]]

(***************************************************************************)
(* updateSubscription: merges the update into the record as it is NOW, and *)
(* does nothing when the id is unknown.  "rec" is the merged record.       *)
(***************************************************************************)
UpdateSubscription(id, rec) ==
  table' = [i \in DOMAIN table |-> IF i = id THEN rec ELSE table[i]]

DeleteNothing(id) == UNCHANGED table                             \* mutant

DeleteSubscription(id) ==
  table' = [i \in DOMAIN table \ {id} |-> table[i]]

LeaseHasElapsed(rec) ==
  /\ rec.expires_at # NoLease
  /\ rec.expires_at <= now

(***************************************************************************)
(* isTarget: deliverable now, and either the addressee of a test delivery  *)
(* or selected by its patterns and its filter.                             *)
(***************************************************************************)
IsTarget(id, rec, event) ==
  /\ rec.webhook
  /\ rec.status = "active"
  /\ ~LeaseHasElapsed(rec)
  /\ IF event.kind = "test" THEN event.about = id
                            ELSE event.kind \in rec.selects

(***************************************************************************)
(* The clock, in instants of interest (MaxTime bounds it).                 *)
(***************************************************************************)
Tick == now < MaxTime /\ now' = now + 1

SubscriptionsTypeOK ==
  /\ IsTable(table)
  /\ now \in SubId
=============================================================================
