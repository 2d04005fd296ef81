----------------------------- MODULE PortParity -----------------------------
(***************************************************************************)
(* The gates package and its Python port before the same documents.  A     *)
(* client starts from a sound document, changes some fields, and has it    *)
(* read by a server of either kind; an accepted envelope opens a           *)
(* negotiation whose steps either port may check.                          *)
(***************************************************************************)
EXTENDS GateConfigDocuments, CommerceDocuments

CONSTANTS Base,      \* Base[kind]: the sound documents of the kind
          Choice,    \* Choice[kind][type][field]: what the field may be changed to
          MaxEdits,  \* bound: changed fields per document
          MaxDeals   \* bound: acceptances per negotiation

Kind == {"proof", "delegation", "config", "envelope", "catalog", "review"}

FieldsOf(k) ==
  CASE k = "proof" -> ProofFields [] k = "delegation" -> DelegationFields
    [] k = "config" -> ConfigFields [] k = "envelope" -> EnvelopeFields
    [] k = "catalog" -> ListingFields [] OTHER -> ReviewFields

(***************************************************************************)
(* What a client or a publisher may write into a field: any class of value,*)
(* and the names that one of the validators looks for there.               *)
(* Bound: the days of a retention are numbers, booleans, null or digits.   *)
(***************************************************************************)
Held(f) ==
  CASE f \in {"type", "sub_type"} -> Value \cup TypeName
    [] f \in {"default_tier", "tier_key"} -> Value \cup Key
    [] f = "pattern" -> Value \cup {"dotted", "capital"}
    [] f = "model" -> Value \cup Model
    [] f = "purpose" -> Value \cup {"inside", "outside"}
    [] f \in {"policy_hash", "operator_privacy_policy_hash"} -> Value \cup {"other"}
    [] f \in {"max_retention_days", "retention_days"} -> Absent \cup Bool \cup Number \cup {"digits"}
    [] f = "requested_claims" -> Value \cup {"nulllist"}
    [] f = "scope_expires_at" -> Value \cup {"datelist"}
    [] f = "services" -> Value \cup {"twice"}
    [] OTHER -> Value

Document(k) ==
  {d \in [FieldsOf(k) -> UNION {Held(f) : f \in FieldsOf(k)}] : \A f \in FieldsOf(k) : d[f] \in Held(f)}

ASSUME ParityAssumption ==
  /\ DOMAIN Base = Kind /\ DOMAIN Choice = Kind
  /\ \A k \in Kind :
       /\ Base[k] \subseteq Document(k)
       /\ \A t \in DOMAIN Choice[k] : \A f \in DOMAIN Choice[k][t] :
            f \in FieldsOf(k) /\ Choice[k][t][f] \subseteq Held(f)
  /\ MaxEdits \in Nat /\ MaxDeals \in Nat

VARIABLES kind, doc,
          edits,     \* how many fields were changed
          ts, py,    \* the verdicts of the two ports
          status,    \* the negotiation's
          deals, invoices, receipts  \* history: acceptances, invoices, receipts

vars == <<kind, doc, edits, ts, py, status, deals, invoices, receipts>>
money == <<status, deals, invoices, receipts>>

Verdict == {"unread", "accepted", "rejected", "thrown"}
Accepts(ok) == IF ok THEN "accepted" ELSE "rejected"

VerdictTS(k, d) ==
  CASE k = "proof" -> validateProofs(<<d>>)
    [] k = "delegation" -> delegationPermitsDataRequest(d)
    [] k = "config" -> parseGateConfig(d)
    [] k = "envelope" -> Accepts(validateNegotiationEnvelope(d))
    [] k = "catalog" -> Accepts(validateServiceCatalog(d))
    [] OTHER -> Accepts(validateReview(d))

VerdictPy(k, d) ==
  CASE k = "proof" -> validate_proofs(<<d>>)
    [] k = "delegation" -> delegation_permits_data_request(d)
    [] k = "config" -> parse_gate_config(d)
    [] k = "envelope" -> Accepts(validate_negotiation_envelope(d))
    [] k = "catalog" -> IF d["services"] \in {"single", "list", "twice", "mixedlist"} /\ ListingRaisesPy(d)
                        THEN "thrown" ELSE Accepts(validate_service_catalog(d))
    [] OTHER -> Accepts(validate_review(d))

Init ==
  /\ kind \in Kind /\ doc \in Base[kind] /\ edits = 0
  /\ ts = "unread" /\ py = "unread"
  /\ status = "none" /\ deals = 0 /\ invoices = 0 /\ receipts = 0

\* Documents of a kind that has types are changed in the fields of their type.
TypeOf(k, d) == IF k \in {"proof", "config"} THEN d["type"] ELSE "any"

Edit(f, v) ==
  /\ ts = "unread" /\ py = "unread" /\ edits < MaxEdits
  /\ doc[f] # v /\ doc' = [doc EXCEPT ![f] = v] /\ edits' = edits + 1
  /\ UNCHANGED <<kind, ts, py, money>>

ReadTS ==
  /\ ts = "unread" /\ ts' = VerdictTS(kind, doc)
  /\ UNCHANGED <<kind, doc, edits, py, money>>

ReadPy ==
  /\ py = "unread" /\ py' = VerdictPy(kind, doc)
  /\ UNCHANGED <<kind, doc, edits, ts, money>>

OpenNegotiation ==
  /\ kind = "envelope" /\ "accepted" \in {ts, py}
  /\ status = "none" /\ status' = "open"
  /\ UNCHANGED <<kind, doc, edits, ts, py, deals, invoices, receipts>>

Negotiate(act) ==
  /\ status # "none" /\ (act = "accept" => deals < MaxDeals)
  /\ status' \in {transition(status, act), transition_Py(status, act)}
  /\ status' # status \/ act = "counter"
  /\ deals' = IF act = "accept" THEN deals + 1 ELSE deals
  /\ invoices' = IF act = "invoice" THEN invoices + 1 ELSE invoices
  /\ receipts' = IF act = "receipt" THEN receipts + 1 ELSE receipts
  /\ UNCHANGED <<kind, doc, edits, ts, py>>

Next ==
  \/ \E t \in DOMAIN Choice[kind] \cap {TypeOf(kind, doc)} :
       \E f \in DOMAIN Choice[kind][t] : \E v \in Choice[kind][t][f] : Edit(f, v)
  \/ ReadTS \/ ReadPy
  \/ OpenNegotiation
  \/ \E act \in Act : Negotiate(act)

Spec == Init /\ [][Next]_vars
-----------------------------------------------------------------------------

(***************************************************************************)
(* Every variable has its type; counts stay within their bound.            *)
(***************************************************************************)
TypeOK ==
  /\ kind \in Kind /\ edits \in 0..MaxEdits
  /\ {ts, py} \subseteq Verdict
  /\ status \in Status \cup {"none"} /\ {deals, invoices, receipts} \subseteq 0..MaxDeals

BothRead == ts # "unread" /\ py # "unread"

(***************************************************************************)
(* Where the ports are known to part over a proof: a date that is there    *)
(* but falsy (ignored, or refused) or in a form that only one of Date and  *)
(* fromisoformat parses, an expiry without a zone (a TypeError), one of an *)
(* intent in milliseconds or in a list, null for an optional field, a      *)
(* final line break that Python's $ lets through, an empty list or object  *)
(* among the intent's fields.                                              *)
(***************************************************************************)
ExpiryMayDiffer(v) == v \in Naive \cup Bare \cup {"loose", "compact"}

ProofMayDiffer(p) ==
  \/ {p["expires_at"], p["issued_at"]} \cap (Falsy \ {"missing"}) # {}
  \/ ExpiryMayDiffer(p["expires_at"])
  \/ p["issued_at"] \in {"pastloose", "pastcompact", "pastbare"}
  \/ p["type"] = "payment" /\ (p["x402_payload"] = "null" \/ p["x402_signature"] = "newline")
  \/ /\ p["type"] = "proof_of_intent"
     /\ \/ ExpiryMayDiffer(p["scope_expires_at"]) \/ p["scope_expires_at"] \in {"epoch", "datelist"}
        \/ \E f \in IntentFields : p[f] \in {"emptylist", "emptyobject"}
  \/ p["type"] = "data_request" /\ p["claimed_fields"] = "null"
  \/ p["type"] = "agreement" /\ (p["signature_algo"] = "null" \/ p["document_hash"] = "newline")

(***************************************************************************)
(* A proof that one server accepts is accepted by the other, or shows one  *)
(* of the differences above: an agent may prove itself to either.          *)
(***************************************************************************)
ProofPortsAgree ==
  BothRead /\ kind = "proof" /\ ~ProofMayDiffer(doc) => ts = py

(***************************************************************************)
(* Where they part over a configuration: keys, limits that only TypeScript *)
(* has, optional fields that only a Python model types, the public default *)
(* tier, requirements, and what raises in Python (see TierRaisesPy).       *)
(***************************************************************************)
RequirementMayDiffer(r) ==
  \/ r["type"] \in {"standard_residency", "proof_of_intent", "x-Other"}
  \/ r["type"] = "payment" /\ (r["amount"] \in {"zero"} \cup Bool \/ r["currency"] = "newline")
  \/ r["type"] = "trust" /\ r["min_score"] \in NumberPy \ {"zero", "number", "wholefloat"}
  \/ RequirementRaisesPy(r)
  \/ r["type"] = "credential" /\ r["credential_type"] = "empty"
  \/ r["type"] = "reciprocal" /\ r["access_level"] = "empty"
  \/ r["type"] = "capability" /\ r["required_capabilities"] \in {"mixedlist", "claims", "named"}
  \/ r["type"] = "allowlist" /\ r["dids"] \in {"mixedlist", "claims", "named", "biglist"}
  \/ r["type"] = "data_request" /\ r["requested_claims"] \notin {"emptylist", "named"}
  \/ /\ r["type"] = "agreement"
     /\ \/ ~IsText(r["document_url"]) \/ ~IsText(r["document_hash"])
        \/ r["signature_algo"] # "missing" /\ ~IsText(r["signature_algo"])
  \/ /\ r["type"] = "combined"
     /\ \/ r["nested"] \in {"mixedlist", "biglist"}
        \/ r["sub_type"] \in {"standard_residency", "proof_of_intent", "x-Other"}
        \/ r["sub_type"] = "trust" /\ r["sub_score"] \in NumberPy \ {"zero", "number", "wholefloat"}

ConfigMayDiffer(c) ==
  \/ c["tier_key"] \in {"dashed", "longkey", "newline"} \/ c["default_tier"] = "constructor"
  \/ c["tiers"] = "bigobject"
  \/ c["free_requirements"] # "emptylist"
  \/ c["default_tier"] = "second" /\ c["requirements"] # "emptylist"
  \/ c["requirements"] \in {"missing", "biglist", "list", "mixedlist"}
  \/ c["requirements"] = "single" /\ RequirementMayDiffer(c)
  \/ c["access"] \in {"biglist", "mixedlist", "claims", "named"}
  \/ c["pattern"] \in {"newline", "dotted"} \/ ~IsText(c["pattern"])
  \/ c["extras"] \notin Absent \cup {"valid"}
  \/ {c["label"], c["description"]} \cap {"null", "overlong"} # {}
  \/ c["fallback_behavior"] = "null"

(***************************************************************************)
(* Of the requirements the parser accepts, those that a proof the validator*)
(* accepts can open are all but one: standard_residency, whose declared    *)
(* proof has no case in the validator.  A combined requirement is opened by*)
(* the proof of what it nests.                                             *)
(***************************************************************************)
NeededProof(c) == IF c["type"] = "combined" THEN c["sub_type"] ELSE c["type"]

Openable(type, proofs) ==
  \E p \in proofs : p["type"] = type /\ validateProofStructure(p) = "accepted"

OpensWith(proofs) ==
  kind = "config" /\ ts = "accepted" /\ doc["requirements"] = "single" =>
    (Openable(NeededProof(doc), proofs) <=> NeededProof(doc) # "standard_residency")

GateCanBeOpened == OpensWith(Base["proof"])

\* The sound proofs that clients start from have one of each type.
ASSUME SamplesAssumption ==
  \A type \in CheckedType \cup Custom : Openable(type, Base["proof"])

(***************************************************************************)
(* The two validators of an intent document: what the one that knows the   *)
(* agent accepts, the structural one does not refuse for its intent, but   *)
(* for a field that is false or zero, which the first takes for present.   *)
(***************************************************************************)
IntentValidatorsAgree ==
  kind = "proof" /\ doc["type"] = "proof_of_intent" /\ validatePoIProof(doc) /\ ts = "rejected" =>
    \/ ~(ExpiresTS(doc["expires_at"]) /\ IssuedTS(doc["issued_at"]))
    \/ \E f \in IntentFields : doc[f] \in {"false", "zero"}

(***************************************************************************)
(* Delegations, envelopes, catalogs and reviews: the ports part over nulls *)
(* and booleans, line breaks, empty lists and objects, lists as terms and  *)
(* scores written 3.0; of a delegation, over hashes that are no texts,     *)
(* purposes allowed in a text, claims that are no list of objects, claims  *)
(* without a purpose, and days that are no integers.                       *)
(***************************************************************************)
PriceMayDiffer(d) ==
  \/ d["currency"] = "newline" \/ d["amount"] \in Bool \cup {"null"}
  \/ {d["period"], d["unit"]} \cap {"emptylist", "emptyobject"} # {}
  \/ d["rate"] \in Bool \/ {d["minimum_charge"], d["maximum_charge"]} \cap Bool # {}

CommerceMayDiffer(k, d) ==
  CASE k = "delegation" ->
         \/ {d["policy_hash"], d["operator_privacy_policy_hash"]} \cap (List \cup Object) # {}
         \/ IsNonempty(d["allowed_dpv_purposes"])
         \/ d["requested_claims"] \notin ClaimObjects \cup {"empty", "emptylist"}
         \/ d["purpose"] \in FalsyPy
         \/ \E f \in {"max_retention_days", "retention_days"} :
              d[f] \in {"null", "fraction", "wholefloat", "digits"}
    [] k = "envelope" ->
         \/ d["negotiation_id"] = "newline" \/ d["terms"] \in List \ {"emptylist"}
         \/ d["pricing"] \in {"emptylist", "emptyobject"} \/ PriceMayDiffer(d)
    [] k = "catalog" ->
         \/ d["id"] = "newline" \/ PriceMayDiffer(d)
         \/ d["status"] \in List \cup Object \/ "null" \in {d["tags"], d["status"], d["negotiable"]}
    [] OTHER -> d["score"] \in {"true", "wholefloat"} \/ d["comment"] = "null"

(***************************************************************************)
(* A configuration, delegation, envelope, catalog or review that is clear  *)
(* of those differences is accepted by both ports or by neither.           *)
(***************************************************************************)
ListingPortsAgree ==
  /\ BothRead /\ kind # "proof"
  /\ IF kind = "config" THEN ~ConfigMayDiffer(doc) ELSE ~CommerceMayDiffer(kind, doc)
  => ts = py

(***************************************************************************)
(* Every invoice answers an acceptance of its own and every receipt an     *)
(* invoice of its own, through any number of disputes, whichever port      *)
(* checks a step.                                                          *)
(***************************************************************************)
PaymentsAnswerInvoices ==
  /\ receipts <= invoices /\ invoices <= deals
  /\ status = "invoiced" => receipts < invoices
  /\ status = "paid" => receipts > 0
=============================================================================
