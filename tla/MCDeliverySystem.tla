-------------------------- MODULE MCDeliverySystem --------------------------
(***************************************************************************)
(* Instances of DeliverySystem for TLC.                                    *)
(***************************************************************************)
EXTENDS DeliveryPromises, TLC

Fresh(selection, lease) ==
  [webhook |-> TRUE, signable |-> TRUE, selects |-> selection,
   status |-> "active", failure_count |-> 0, expires_at |-> lease]

\* One subscription that selects every application event.
OneSubscriber == {0 :> Fresh(AppEvent, NoLease)}

\* One that selects everything; one that selects nothing and cannot be signed.
CuriousAndQuiet ==
  {(0 :> Fresh(Kind, NoLease))
     @@ (1 :> [Fresh({}, NoLease) EXCEPT !.signable = FALSE])}

\* A subscription whose lease elapses at instant 2.
OneLeased == {0 :> Fresh(AppEvent, 2)}

NoneYet == {<<>>}

Symmetric == Permutations(AppEvent) \cup Permutations(Request)

\* Schedules: an immediate attempt and a retry after a sleep; two immediate
\* attempts, that do not await in between, and one after a sleep.
ImmediateThenSleep == <<0, 1>>
TwiceThenSleep     == <<0, 0, 1>>

WebhookBodies == {[webhook |-> TRUE, selects |-> Kind]}
AnyBodies == {[webhook |-> TRUE, selects |-> {"created", "cancelled"}],
              [webhook |-> FALSE, selects |-> Kind]}
NoBodies == {}
=============================================================================
