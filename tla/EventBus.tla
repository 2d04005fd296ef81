------------------------------ MODULE EventBus ------------------------------
(***************************************************************************)
(* The in-memory event bus with the webhook dispatcher started on "*".     *)
(* publish() records the event and calls every matching handler before it  *)
(* returns; the dispatcher's handler starts a background dispatch, whose   *)
(* first act is to ask the store for the subscriptions.                    *)
(*                                                                         *)
(* An event is published by the application, by one HTTP request, or by a  *)
(* redelivery request once for each stored event it names: that publisher  *)
(* names the dispatch.  The names are apart.                               *)
(***************************************************************************)
EXTENDS Subscriptions

ASSUME EventBusAssumption ==
  /\ AppEvent \cap Request = {}
  /\ (Request \X AppEvent) \cap (AppEvent \cup Request) = {}

DispatchId == AppEvent \cup Request \cup (Request \X AppEvent)

IsDispatch(d) ==
  /\ d \in [event    : Event,
            stage    : {"listing", "listed", "fanned"},
            snapshot : {d.snapshot}]
  /\ IsTable(d.snapshot)

NoTable == [i \in {} |-> {}]

VARIABLE dispatches   \* every dispatch() call so far: a function on its id

Publish(id, event) ==
  dispatches' =
    [i \in DOMAIN dispatches \cup {id} |->
       IF i = id THEN [event |-> event, stage |-> "listing", snapshot |-> NoTable]
                 ELSE dispatches[i]]

EventBusTypeOK ==
  /\ DOMAIN dispatches \subseteq DispatchId
  /\ \A i \in DOMAIN dispatches : IsDispatch(dispatches[i])
=============================================================================
