------------------------- MODULE CommerceDocuments -------------------------
(***************************************************************************)
(* Negotiation of a service: the table of statuses, the checks of prices,  *)
(* envelopes, listings, catalogs and reviews, in TypeScript (...TS) and in *)
(* the Python port (...Py).                                                *)
(***************************************************************************)
EXTENDS JsonValues

Status == {"open", "countered", "accepted", "rejected", "expired", "invoiced", "paid", "completed",
           "disputed"}
Act == {"offer", "counter", "accept", "reject", "expire", "invoice", "receipt", "complete", "dispute"}

\* mutant
PaysWithoutInvoice(status) ==
  CASE status \in {"open", "countered"} -> {"counter", "accept", "reject", "expire"}
    [] status = "accepted" -> {"invoice", "complete", "dispute", "receipt"}
    [] status = "invoiced" -> {"receipt", "dispute"}
    [] status = "paid" -> {"complete", "dispute"}
    [] status = "disputed" -> {"accept", "reject", "complete"}
    [] OTHER -> {}

VALID_TRANSITIONS(status) ==
  CASE status \in {"open", "countered"} -> {"counter", "accept", "reject", "expire"}
    [] status = "accepted" -> {"invoice", "complete", "dispute"}
    [] status = "invoiced" -> {"receipt", "dispute"}
    [] status = "paid" -> {"complete", "dispute"}
    [] status = "disputed" -> {"accept", "reject", "complete"}
    [] OTHER -> {}

ACTION_RESULTS == [offer |-> "open", counter |-> "countered", accept |-> "accepted",
                   reject |-> "rejected", expire |-> "expired", invoice |-> "invoiced",
                   receipt |-> "paid", complete |-> "completed", dispute |-> "disputed"]

(***************************************************************************)
(* An action that the table does not allow leaves the status; so does any  *)
(* action in a status that is none of the table's.                         *)
(***************************************************************************)
transition(status, act) ==
  IF act \in VALID_TRANSITIONS(status) THEN ACTION_RESULTS[act] ELSE status

VALID_TRANSITIONS_Py ==
  [open |-> {"counter", "accept", "reject", "expire"},
   countered |-> {"counter", "accept", "reject", "expire"},
   accepted |-> {"invoice", "complete", "dispute"},
   rejected |-> {}, expired |-> {}, completed |-> {},
   invoiced |-> {"receipt", "dispute"}, paid |-> {"complete", "dispute"},
   disputed |-> {"accept", "reject", "complete"}]

ACTION_RESULTS_Py == [offer |-> "open", counter |-> "countered", accept |-> "accepted",
                      reject |-> "rejected", expire |-> "expired", invoice |-> "invoiced",
                      receipt |-> "paid", complete |-> "completed", dispute |-> "disputed"]

transition_Py(status, act) ==
  IF status \in Status /\ act \in VALID_TRANSITIONS_Py[status] THEN ACTION_RESULTS_Py[act] ELSE status

----------------------------------------------------------------------------
\* The fields of the declared types that a validator reads, here and below.
PricingFields ==
  {"pricing", "model", "currency", "amount", "period", "unit", "rate", "tiers", "minimum_charge",
   "maximum_charge"}

\* A model is a word of the standard, an x- name ("x-custom"), or a class.
Model == {"fixed", "subscription", "metered", "tiered_volume", "x-custom"}

NonNegative == Number \ {"negative"}

Size(v) == CASE v = "negative" -> -2 [] v \in {"zero", "false"} -> 0 [] v = "true" -> 2
             [] v = "fraction" -> 5 [] v \in {"number", "wholefloat"} -> 6
             [] v = "huge" -> 2000 [] OTHER -> 4000

InOrder(d, numbers) ==
  {d["minimum_charge"], d["maximum_charge"]} \subseteq numbers =>
    Size(d["minimum_charge"]) <= Size(d["maximum_charge"])

\* mutant
PriceOfAnyModel(d) ==
  /\ d["pricing"] = "object"
  /\ d["model"] \in Model /\ d["currency"] = "valid"
  /\ d["amount"] \in NonNegative \cup {"missing"}
  /\ InOrder(d, Number)

(***************************************************************************)
(* A price: the model, the currency and what the model needs.  "pricing"   *)
(* is the class of the price itself, the other fields are its own.         *)
(***************************************************************************)
validatePricing(d) ==
  /\ d["pricing"] = "object"
  /\ d["model"] \in Model /\ d["currency"] = "valid"
  /\ d["amount"] \in NonNegative \cup {"missing"}
  /\ d["model"] = "subscription" => d["period"] \notin Falsy
  /\ d["model"] = "metered" => d["unit"] \notin Falsy /\ d["rate"] \in NonNegative
  /\ d["model"] = "tiered_volume" => d["tiers"] \in List \ {"emptylist"}
  /\ InOrder(d, Number)

validate_pricing(d) ==
  /\ d["pricing"] = "object"
  /\ d["model"] \in Model /\ d["currency"] \in {"valid", "newline"}
  /\ d["amount"] \in (NumberPy \ {"negative"}) \cup Absent
  /\ d["model"] = "subscription" => d["period"] \notin FalsyPy
  /\ d["model"] = "metered" => d["unit"] \notin FalsyPy /\ d["rate"] \in NumberPy \ {"negative"}
  /\ d["model"] = "tiered_volume" => d["tiers"] \in List \ {"emptylist"}
  /\ InOrder(d, NumberPy)

EnvelopeFields == PricingFields \cup {"negotiation_id", "service", "terms"}

(***************************************************************************)
(* A negotiation's envelope; a price or terms that are falsy are not       *)
(* looked at, and a list passes as terms.                                  *)
(***************************************************************************)
validateNegotiationEnvelope(d) ==
  /\ d["negotiation_id"] = "valid" /\ IsNonempty(d["service"])
  /\ d["pricing"] \in Falsy \/ validatePricing(d)
  /\ d["terms"] \in Falsy \cup Object \cup List

validate_negotiation_envelope(d) ==
  /\ d["negotiation_id"] \in {"valid", "newline"} /\ IsNonempty(d["service"])
  /\ d["pricing"] \in FalsyPy \/ validate_pricing(d)
  /\ d["terms"] \in FalsyPy \cup Object

----------------------------------------------------------------------------
ListingFields ==
  PricingFields \cup {"id", "name", "category", "delivery", "tags", "status", "negotiable",
                      "entity_did", "services"}

validateServiceListing(d) ==
  /\ d["id"] = "valid"
  /\ IsNonempty(d["name"]) /\ d["name"] # "overlong"
  /\ IsNonempty(d["category"]) /\ d["category"] # "overlong"
  /\ d["pricing"] \notin Falsy /\ validatePricing(d)
  /\ d["delivery"] = "valid" /\ d["tags"] \in (List \ {"biglist"}) \cup {"missing"}
  /\ d["status"] \in {"missing", "valid"} /\ d["negotiable"] \in Bool \cup {"missing"}

(***************************************************************************)
(* A catalog of one listing ("single"), of it and another ("list"), of it  *)
(* twice ("twice"), of it and no object ("mixedlist"), of too many.        *)
(***************************************************************************)
validateServiceCatalog(d) ==
  /\ IsNonempty(d["entity_did"])
  /\ d["services"] \in {"emptylist", "single", "list"}
  /\ d["services"] # "emptylist" => validateServiceListing(d)

\* Looking a list or an object up in a set raises a TypeError.
ListingRaisesPy(d) == d["status"] \in List \cup Object

validate_service_listing(d) ==
  /\ d["id"] \in {"valid", "newline"}
  /\ IsNonempty(d["name"]) /\ d["name"] # "overlong"
  /\ IsNonempty(d["category"]) /\ d["category"] # "overlong"
  /\ d["pricing"] \notin FalsyPy /\ validate_pricing(d)
  /\ d["delivery"] = "valid" /\ d["tags"] \in (List \ {"biglist"}) \cup Absent
  /\ d["status"] \in Absent \cup {"valid"} /\ d["negotiable"] \in Bool \cup Absent

validate_service_catalog(d) ==
  /\ IsNonempty(d["entity_did"])
  /\ d["services"] \in {"emptylist", "single", "list"}
  /\ d["services"] # "emptylist" => ~ListingRaisesPy(d) /\ validate_service_listing(d)

----------------------------------------------------------------------------
ReviewFields == {"reviewer_did", "score", "service_id", "comment"}

validateReview(d) ==
  /\ IsNonempty(d["reviewer_did"]) /\ d["score"] \in {"number", "wholefloat"}
  /\ IsNonempty(d["service_id"])
  /\ d["comment"] = "missing" \/ (IsText(d["comment"]) /\ d["comment"] # "overlong")

\* true is the integer 1, and 3.0 is no integer.
validate_review(d) ==
  /\ IsNonempty(d["reviewer_did"]) /\ d["score"] \in {"number", "true"}
  /\ IsNonempty(d["service_id"])
  /\ d["comment"] \in Absent \/ (IsText(d["comment"]) /\ d["comment"] # "overlong")
=============================================================================
