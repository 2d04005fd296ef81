--------------------------- MODULE ProofDocuments ---------------------------
(***************************************************************************)
(* The structural checks of gate proofs, of the intent document inside a   *)
(* proof of intent and of a delegation, in TypeScript (...TS) and in the   *)
(* Python port (...Py).  A proof is a function from fields, those of its   *)
(* nested objects included, to value classes.                              *)
(***************************************************************************)
EXTENDS JsonValues, Sequences

IntentFields ==
  {"intent_id", "agent_did", "principal_did", "action", "scope", "principal_signature", "created_at"}

\* The fields of the declared types that a validator reads, those of the x402
\* payload and of the intent document among them.
ProofFields ==
  {"type", "issued_at", "expires_at", "token", "x402_payload", "payload", "x402_signature", "network",
   "self_attested", "method", "subscriber_did", "credential", "format", "declared_capabilities", "did",
   "entity_did", "granted_access", "intent_document", "scope_expires_at", "verifiable_presentation",
   "claimed_fields", "document_hash", "signature", "signer_did", "signature_algo"} \cup IntentFields

Custom == {"x-custom", "x-Other"}
CheckedType ==
  {"payment", "trust", "identity", "connection", "credential", "capability", "allowlist", "reciprocal",
   "proof_of_intent", "data_request", "agreement"}
TypeName == CheckedType \cup Custom \cup {"standard_residency", "combined"}

----------------------------------------------------------------------------
\* mutant
ExpiresByForm(v) == v \in Falsy \cup DateParses

(***************************************************************************)
(* The proof's own dates, each skipped when it is falsy.                   *)
(***************************************************************************)
ExpiresTS(v) == v \in Falsy \cup (DateParses \ Past)
IssuedTS(v) == v \in Falsy \cup (DateParses \cap Past) \cup {"soon", "shortly"}

(***************************************************************************)
(* A payment has a token or an x402 payload; a payload that is there, even *)
(* beside a token, must be complete.                                       *)
(***************************************************************************)
PaymentTS(p) ==
  /\ IsNonempty(p["token"]) \/ p["x402_payload"] # "missing"
  /\ p["x402_payload"] = "missing" \/
       /\ p["x402_payload"] = "object"
       /\ IsNonempty(p["payload"]) /\ p["x402_signature"] = "valid" /\ IsNonempty(p["network"])

(***************************************************************************)
(* An intent document has seven fields that are not falsy, and its scope   *)
(* an expiry that Date parses, numbers and a list of one date (datelist)   *)
(* included, and that is not past.                                         *)
(***************************************************************************)
ScopeExpiresTS(v) == v \in (DateParses \ Past) \cup {"epoch", "datelist"}

IntentTS(p) ==
  /\ p["intent_document"] = "object"
  /\ \A f \in IntentFields : p[f] \notin Falsy
  /\ p["scope"] = "object" /\ ScopeExpiresTS(p["scope_expires_at"])

DataRequestTS(p) ==
  IsLong(p["verifiable_presentation"]) /\ p["claimed_fields"] \in List \cup {"missing"}

AgreementTS(p) ==
  /\ p["document_hash"] = "valid" /\ IsLong(p["signature"])
  /\ p["signer_did"] \in {"valid", "newline"}
  /\ p["signature_algo"] \in {"missing", "valid"}

(***************************************************************************)
(* The fields each type of proof needs; of a custom type nothing is known, *)
(* and any other type is unknown.                                          *)
(***************************************************************************)
FieldsTS(p) ==
  CASE p["type"] = "payment" -> PaymentTS(p)
    [] p["type"] = "trust" -> p["self_attested"] = "true"
    [] p["type"] = "identity" -> IsText(p["method"])
    [] p["type"] = "connection" -> IsText(p["subscriber_did"])
    [] p["type"] = "credential" -> IsNonempty(p["credential"]) /\ IsText(p["format"])
    [] p["type"] = "capability" -> p["declared_capabilities"] \in List \ {"emptylist"}
    [] p["type"] = "allowlist" -> IsText(p["did"])
    [] p["type"] = "reciprocal" -> IsText(p["entity_did"]) /\ IsText(p["granted_access"])
    [] p["type"] = "proof_of_intent" -> IntentTS(p)
    [] p["type"] = "data_request" -> DataRequestTS(p)
    [] p["type"] = "agreement" -> AgreementTS(p)
    [] OTHER -> p["type"] \in Custom

(***************************************************************************)
(* The verdict.  Reading a field of a null payload throws.                 *)
(***************************************************************************)
validateProofStructure(p) ==
  IF ~IsNonempty(p["type"]) THEN "rejected"
  ELSE IF p["type"] = "payment" /\ p["x402_payload"] = "null" THEN "thrown"
  ELSE IF ExpiresTS(p["expires_at"]) /\ IssuedTS(p["issued_at"]) /\ FieldsTS(p) THEN "accepted"
  ELSE "rejected"

(***************************************************************************)
(* A request's proofs: ten at most, and every one of them sound.           *)
(***************************************************************************)
validateProofs(proofs) ==
  IF Len(proofs) > 10 THEN "rejected"
  ELSE IF \E i \in 1..Len(proofs) : validateProofStructure(proofs[i]) = "thrown" THEN "thrown"
  ELSE IF \A i \in 1..Len(proofs) : validateProofStructure(proofs[i]) = "accepted" THEN "accepted"
  ELSE "rejected"

----------------------------------------------------------------------------
(***************************************************************************)
(* The Python port: a date that is present is checked, whatever it holds.  *)
(***************************************************************************)
ExpiresPy(v) == v \in {"missing"} \cup (IsoParses \ Past)
IssuedPy(v) == v \in {"missing", "soon", "shortly"} \cup (IsoParses \cap Past)

PaymentPy(p) ==
  /\ IsNonempty(p["token"]) \/ p["x402_payload"] \notin Absent
  /\ p["x402_payload"] \in Absent \/
       /\ p["x402_payload"] = "object"
       /\ IsNonempty(p["payload"]) /\ p["x402_signature"] \in {"valid", "newline"}
       /\ IsNonempty(p["network"])

IntentPy(p) ==
  /\ p["intent_document"] = "object"
  /\ \A f \in IntentFields : p[f] \notin FalsyPy
  /\ p["scope"] = "object" /\ p["scope_expires_at"] \in IsoParses \ Past

DataRequestPy(p) ==
  IsLong(p["verifiable_presentation"]) /\ p["claimed_fields"] \in List \cup Absent

AgreementPy(p) ==
  /\ p["document_hash"] \in {"valid", "newline"} /\ IsLong(p["signature"])
  /\ p["signer_did"] \in {"valid", "newline"}
  /\ p["signature_algo"] \in Absent \cup {"valid"}

FieldsPy(p) ==
  CASE p["type"] = "payment" -> PaymentPy(p)
    [] p["type"] = "trust" -> p["self_attested"] = "true"
    [] p["type"] = "identity" -> IsText(p["method"])
    [] p["type"] = "connection" -> IsText(p["subscriber_did"])
    [] p["type"] = "credential" -> IsNonempty(p["credential"]) /\ IsText(p["format"])
    [] p["type"] = "capability" -> p["declared_capabilities"] \in List \ {"emptylist"}
    [] p["type"] = "allowlist" -> IsText(p["did"])
    [] p["type"] = "reciprocal" -> IsText(p["entity_did"]) /\ IsText(p["granted_access"])
    [] p["type"] = "proof_of_intent" -> IntentPy(p)
    [] p["type"] = "agreement" -> AgreementPy(p)
    [] p["type"] = "data_request" -> DataRequestPy(p)
    [] OTHER -> p["type"] \in Custom

(***************************************************************************)
(* An expiry without a zone, past or not, is compared with the time in     *)
(* UTC: a TypeError that the port does not catch.                          *)
(***************************************************************************)
RaisesPy(p) ==
  \/ p["expires_at"] \in Naive \cup Bare
  \/ /\ p["type"] = "proof_of_intent"
     /\ p["intent_document"] = "object" /\ p["scope"] = "object"
     /\ p["scope_expires_at"] \in Naive \cup Bare

validate_proof_structure(p) ==
  IF ~IsNonempty(p["type"]) THEN "rejected"
  ELSE IF RaisesPy(p) THEN "thrown"
  ELSE IF ExpiresPy(p["expires_at"]) /\ IssuedPy(p["issued_at"]) /\ FieldsPy(p) THEN "accepted"
  ELSE "rejected"

validate_proofs(proofs) ==
  IF Len(proofs) > 10 THEN "rejected"
  ELSE IF \E i \in 1..Len(proofs) : validate_proof_structure(proofs[i]) = "thrown" THEN "thrown"
  ELSE IF \A i \in 1..Len(proofs) : validate_proof_structure(proofs[i]) = "accepted" THEN "accepted"
  ELSE "rejected"

----------------------------------------------------------------------------
\* A time before the next 30 s; true and small numbers are times of 1970.
CreatedTS(v) ==
  v \in Falsy \cup (DateParses \cap Past) \cup {"soon", "true"} \cup (Number \ {"epoch"})

\* mutant
IntentWithoutFields(p) ==
  /\ p["agent_did"] \in Falsy \cup {"valid"}
  /\ p["scope"] = "object" /\ ScopeExpiresTS(p["scope_expires_at"])
  /\ CreatedTS(p["created_at"])
  /\ p["principal_signature"] \in Falsy \cup {"valid"}

(***************************************************************************)
(* The validator of proofs of intent for a platform that knows the calling *)
(* agent ("valid" in agent_did).  Only a field that is undefined, null or  *)
(* an empty text is missing to it.                                         *)
(***************************************************************************)
validateIntentDocument(p) ==
  /\ \A f \in IntentFields : p[f] \notin Absent \cup {"empty"}
  /\ p["agent_did"] \in Falsy \cup {"valid"}
  /\ p["scope"] = "object" /\ ScopeExpiresTS(p["scope_expires_at"])
  /\ CreatedTS(p["created_at"])
  /\ p["principal_signature"] \in Falsy \cup {"valid"}

validatePoIProof(p) ==
  p["type"] = "proof_of_intent" /\ p["intent_document"] = "object" /\ validateIntentDocument(p)

----------------------------------------------------------------------------
(***************************************************************************)
(* A delegation beside the data request of a gate: the hashes of the two   *)
(* privacy policies, the purposes the principal allows, and how long the   *)
(* publisher may keep a claim.  "purpose" and "retention_days" are those   *)
(* of the request's claims; "nulllist" is a list with a null among them.   *)
(* "inside" is the one purpose that a list or a text of purposes has in    *)
(* it; "digits" spells a number of days.                                   *)
(* Bounds: the claims are alike; hashes of two classes differ.             *)
(***************************************************************************)
DelegationFields ==
  {"policy_hash", "operator_privacy_policy_hash", "allowed_dpv_purposes", "max_retention_days",
   "requested_claims", "purpose", "retention_days"}

ClaimObjects == {"claims", "named"}
Purposes == {"single", "list", "mixedlist", "biglist"}

Days(v) == CASE v = "negative" -> -2 [] v \in {"null", "zero", "false"} -> 0 [] v = "true" -> 2
             [] v = "fraction" -> 5 [] v \in {"number", "wholefloat"} -> 6 [] v = "digits" -> 60
             [] v = "huge" -> 2000 [] OTHER -> 4000

(***************************************************************************)
(* The hashes are compared when both are given.  Two lists or two objects  *)
(* are never the same value to JavaScript.                                 *)
(***************************************************************************)
PolicyAgrees(d, falsy, incomparable) ==
  \/ d["policy_hash"] \in falsy \/ d["operator_privacy_policy_hash"] \in falsy
  \/ /\ d["policy_hash"] = d["operator_privacy_policy_hash"]
     /\ d["policy_hash"] \notin incomparable

(***************************************************************************)
(* TypeScript: the purpose of each claim must be in the list, or be part   *)
(* of the text, that is allowed.  Retention is compared as numbers, where  *)
(* null counts as zero and a claim without one passes.  A limit is         *)
(* compared with what the request's claims hold without asking whether     *)
(* there are any: what cannot be iterated, and null, throw; a claim that   *)
(* is no object has neither a purpose nor a retention.                     *)
(***************************************************************************)
PurposeAllowedTS(d) ==
  /\ d["requested_claims"] \in ClaimObjects
  /\ \/ d["allowed_dpv_purposes"] \in Purposes /\ d["purpose"] = "inside"
     \/ IsText(d["allowed_dpv_purposes"]) /\ d["purpose"] \in {"inside", "empty", "emptylist"}

delegationPermitsDataRequest(d) ==
  LET allowed == d["allowed_dpv_purposes"]
      purposes == allowed \in List \ {"emptylist"} \/ IsNonempty(allowed)
      retention == d["max_retention_days"] # "missing"
      claims == d["requested_claims"]
  IN IF (purposes \/ retention) /\ claims \in Absent \cup Bool \cup Number \cup Object \cup {"nulllist"}
     THEN "thrown"
     ELSE IF /\ PolicyAgrees(d, Falsy, List \cup Object)
             /\ purposes /\ claims \notin {"empty", "emptylist"} => PurposeAllowedTS(d)
             /\ retention /\ claims \in ClaimObjects /\ d["retention_days"] # "missing" =>
                  Days(d["retention_days"]) <= Days(d["max_retention_days"])
       THEN "accepted" ELSE "rejected"

(***************************************************************************)
(* Python: only a list limits the purposes, a claim without a purpose      *)
(* passes, and so does one that is no object; only integers count as days. *)
(* Falsy claims are none; a number or true, which is not iterable, raises  *)
(* a TypeError.                                                            *)
(***************************************************************************)
delegation_permits_data_request(d) ==
  LET integer == {"zero", "negative", "number", "huge", "epoch"} \cup Bool
      purposes == d["allowed_dpv_purposes"] \in List \ {"emptylist"}
      retention == d["max_retention_days"] \in integer
      claims == d["requested_claims"]
  IN IF (purposes \/ retention) /\ claims \in {"true"} \cup (Number \ {"zero"}) THEN "thrown"
     ELSE IF /\ PolicyAgrees(d, FalsyPy, {})
             /\ purposes /\ claims \in ClaimObjects /\ d["purpose"] \notin FalsyPy =>
                  d["allowed_dpv_purposes"] \in Purposes /\ d["purpose"] = "inside"
             /\ retention /\ claims \in ClaimObjects /\ d["retention_days"] \in integer =>
                  Days(d["retention_days"]) <= Days(d["max_retention_days"])
       THEN "accepted" ELSE "rejected"
=============================================================================
