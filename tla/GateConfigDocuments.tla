------------------------ MODULE GateConfigDocuments ------------------------
(***************************************************************************)
(* What a publisher's gate configuration must look like, in TypeScript     *)
(* (...TS) and in the Python port (...Py).  A configuration is a function  *)
(* from fields to value classes.  It has a tier "free" and a second one,   *)
(* whose key, access pattern and requirement are fields of their own; the  *)
(* requirement may nest one other, described by "sub_type" and "sub_score".*)
(* "single" and "biglist" repeat what is described; "list" holds texts     *)
(* that are no patterns, and no requirements.  The free tier comes first.  *)
(***************************************************************************)
EXTENDS ProofDocuments

\* The fields of the declared types that a parser or a model reads.  "extras"
\* stands for the optional ones that only a Python model types, all together
\* (payment_methods, issuer, accepted_formats, a data request's purpose and
\* retention_days, rate_limit, metadata): "valid" is as the model declares them.
RequirementFields ==
  {"type", "amount", "currency", "per", "min_score", "method", "relation", "credential_type",
   "required_capabilities", "dids", "access_level", "requested_claims", "document_url", "document_hash",
   "signature_algo", "combine_mode", "nested", "sub_type", "sub_score"}

ConfigFields ==
  RequirementFields \cup
  {"root", "default_tier", "tiers", "free_requirements", "tier_key", "tier", "requirements", "access",
   "pattern", "label", "description", "extras", "fallback_behavior"}

\* Keys beside the classes of values: those default_tier may name ("unlisted" is
\* no tier's, "constructor" is inherited by every object), and malformed ones
\* ("longkey" has 33 to 64 characters).  A pattern like "a..b" is "dotted".
Key == {"free", "second", "unlisted", "constructor", "dashed", "longkey", "capital"}

----------------------------------------------------------------------------
(***************************************************************************)
(* TypeScript.  A key has 1 to 32 characters, no dash and no capital.      *)
(***************************************************************************)
KeyOkTS(k) == k \in {"free", "second", "unlisted", "constructor", "valid", "short", "long"}

PatternOkTS(v) == v = "valid"

TypeOkTS(t) ==
  t \in {"payment", "trust", "identity", "connection", "credential", "capability", "allowlist",
         "reciprocal", "data_request", "agreement", "combined", "standard_residency",
         "proof_of_intent"} \cup Custom

PaymentRequirementTS(r) ==
  r["amount"] \in Number \ {"zero", "negative"} /\ r["currency"] = "valid" /\ r["per"] = "valid"

TrustRequirementTS(r) == r["min_score"] \in {"zero", "number", "wholefloat"}
IdentityRequirementTS(r) == r["method"] = "valid"
ConnectionRequirementTS(r) == r["relation"] = "valid"
CredentialRequirementTS(r) == IsNonempty(r["credential_type"])
CapabilityRequirementTS(r) == r["required_capabilities"] \in List \ {"emptylist"}
AllowlistRequirementTS(r) == r["dids"] \in List \ {"emptylist", "biglist"}
ReciprocalRequirementTS(r) == IsNonempty(r["access_level"])

(***************************************************************************)
(* A combined requirement nests two to ten objects that are requirements.  *)
(* Bound: the nested one is a trust requirement or has no checked fields.  *)
(***************************************************************************)
NestedOkTS(r) ==
  /\ TypeOkTS(r["sub_type"])
  /\ \/ r["sub_type"] = "trust" /\ TrustRequirementTS([min_score |-> r["sub_score"]])
     \/ r["sub_type"] \in {"data_request", "agreement", "standard_residency", "proof_of_intent"} \cup Custom

CombinedRequirementTS(r) ==
  r["combine_mode"] = "valid" /\ r["nested"] = "list" /\ NestedOkTS(r)

\* mutant
UnknownTypePasses(r) ==
  CASE r["type"] = "payment" -> PaymentRequirementTS(r)
    [] r["type"] = "trust" -> TrustRequirementTS(r)
    [] r["type"] = "identity" -> IdentityRequirementTS(r)
    [] r["type"] = "combined" -> CombinedRequirementTS(r)
    [] OTHER -> IsText(r["type"])

RequirementTS(r) ==
  /\ TypeOkTS(r["type"])
  /\ CASE r["type"] = "payment" -> PaymentRequirementTS(r)
       [] r["type"] = "trust" -> TrustRequirementTS(r)
       [] r["type"] = "identity" -> IdentityRequirementTS(r)
       [] r["type"] = "connection" -> ConnectionRequirementTS(r)
       [] r["type"] = "credential" -> CredentialRequirementTS(r)
       [] r["type"] = "capability" -> CapabilityRequirementTS(r)
       [] r["type"] = "allowlist" -> AllowlistRequirementTS(r)
       [] r["type"] = "reciprocal" -> ReciprocalRequirementTS(r)
       [] r["type"] = "combined" -> CombinedRequirementTS(r)
       [] OTHER -> TRUE

(***************************************************************************)
(* The second tier: a requirements list of ten at most, one to a hundred   *)
(* access patterns, and texts of limited length.                           *)
(***************************************************************************)
TierTS(c) ==
  /\ c["tier"] = "object"
  /\ c["requirements"] \in {"emptylist", "single"}
  /\ c["requirements"] = "single" => RequirementTS(c)
  /\ c["access"] = "single" /\ PatternOkTS(c["pattern"])
  /\ \A f \in {"label", "description"} :
       c[f] = "missing" \/ (IsText(c[f]) /\ c[f] # "overlong")

(***************************************************************************)
(* The whole configuration.  `in` finds inherited names too, and reading   *)
(* the requirements of such a "tier" throws.                               *)
(***************************************************************************)
parseGateConfig(c) ==
  IF ~ /\ c["root"] = "object"
       /\ KeyOkTS(c["default_tier"])
       /\ c["tiers"] = "object"
       /\ KeyOkTS(c["tier_key"]) /\ TierTS(c)
       /\ c["free_requirements"] \in {"emptylist", "single"}
       /\ c["default_tier"] \in {"free", "second", "constructor"}
  THEN "rejected"
  ELSE IF c["default_tier"] = "constructor" THEN "thrown"
  ELSE IF /\ c["default_tier"] = "free" => c["free_requirements"] = "emptylist"
          /\ c["default_tier"] = "second" => c["requirements"] = "emptylist"
          /\ c["fallback_behavior"] \in {"missing", "valid"}
    THEN "accepted" ELSE "rejected"

----------------------------------------------------------------------------
(***************************************************************************)
(* Python: parse_gate_config and the pydantic models it fills.  Refused is *)
(* what raises the parser's GateConfigError or the models' ValidationError,*)
(* thrown what raises anything else.  A key may have 64 characters and     *)
(* dashes.                                                                 *)
(***************************************************************************)
KeyOkPy(k) == KeyOkTS(k) \/ k \in {"dashed", "longkey", "newline"}

PatternOkPy(v) == v \in {"valid", "newline", "dotted"}

TypeOkPy(t) ==
  t \in {"credential", "identity", "agreement", "data_request", "payment", "combined", "trust",
         "connection", "capability", "allowlist", "reciprocal", "x-custom"}

Texts == {"single", "list", "biglist"}

NestedOkPy(r) ==
  /\ TypeOkPy(r["sub_type"])
  /\ \/ r["sub_type"] = "trust" /\ r["sub_score"] \in NumberPy
     \/ r["sub_type"] \in {"data_request", "agreement", "x-custom"}

(***************************************************************************)
(* What the parser and the model of the type ask of a requirement.         *)
(***************************************************************************)
RequirementPy(r) ==
  /\ TypeOkPy(r["type"])
  /\ CASE r["type"] = "payment" ->
            r["amount"] \in NumberPy \ {"negative"} /\ r["currency"] \in {"valid", "newline"}
       [] r["type"] = "trust" -> r["min_score"] \in NumberPy
       [] r["type"] = "identity" -> r["method"] = "valid"
       [] r["type"] = "connection" -> r["relation"] = "valid"
       [] r["type"] = "credential" -> IsText(r["credential_type"])
       [] r["type"] = "capability" -> r["required_capabilities"] \in List \ {"emptylist"}
       [] r["type"] = "allowlist" -> r["dids"] \in List \ {"emptylist"}
       [] r["type"] = "reciprocal" -> IsText(r["access_level"])
       [] r["type"] = "combined" ->
            /\ r["combine_mode"] = "valid"
            /\ r["nested"] \in {"list", "mixedlist", "biglist"} /\ NestedOkPy(r)
       [] OTHER -> TRUE

ModelOfRequirement(r) ==
  CASE r["type"] = "payment" -> r["per"] = "valid"
    [] r["type"] = "capability" -> r["required_capabilities"] \in Texts
    [] r["type"] = "allowlist" -> r["dids"] \in Texts
    [] r["type"] = "agreement" -> /\ IsText(r["document_url"]) /\ IsText(r["document_hash"])
                                  /\ r["signature_algo"] = "missing" \/ IsText(r["signature_algo"])
    [] r["type"] = "data_request" -> r["requested_claims"] \in {"emptylist", "named"}
    [] OTHER -> TRUE

ModelOfTier(c) ==
  /\ c["label"] \in Absent \/ IsText(c["label"])
  /\ c["description"] \in Absent \/ IsText(c["description"])
  /\ c["extras"] \in Absent \cup {"valid"}

AccessPy(c) == c["access"] \in {"single", "biglist"} /\ PatternOkPy(c["pattern"])

TierPy(c) ==
  /\ c["tier"] = "object" /\ AccessPy(c)
  /\ c["requirements"] \in {"missing", "emptylist", "single", "biglist"}
  /\ c["requirements"] \in {"single", "biglist"} => RequirementPy(c) /\ ModelOfRequirement(c)

(***************************************************************************)
(* What the parser does not expect: re.match of a pattern that is no text  *)
(* (TypeError), get of a requirement that is no object (AttributeError),   *)
(* and the lookup of a list or an object in a frozenset of words           *)
(* (TypeError).  Access patterns come before requirements.                 *)
(***************************************************************************)
RequirementRaisesPy(r) ==
  \/ r["type"] = "identity" /\ r["method"] \in List \cup Object
  \/ r["type"] = "connection" /\ r["relation"] \in List \cup Object

TierRaisesPy(c) ==
  /\ c["tier"] = "object"
  /\ \/ c["access"] \in {"mixedlist", "claims", "named"}
     \/ c["access"] \in {"single", "biglist"} /\ ~IsText(c["pattern"])
     \/ AccessPy(c) /\ c["requirements"] \in {"list", "mixedlist"}
     \/ AccessPy(c) /\ c["requirements"] \in {"single", "biglist"} /\ RequirementRaisesPy(c)

parse_gate_config(c) ==
  IF ~ /\ c["root"] = "object"
       /\ c["default_tier"] \in {"free", "second"}
       /\ c["tiers"] \in {"object", "bigobject"}
       /\ c["free_requirements"] \in List \cup {"missing"}
  THEN "rejected"
  ELSE IF \/ c["free_requirements"] \in {"list", "mixedlist"}
          \/ c["free_requirements"] \notin {"claims", "named"} /\ KeyOkPy(c["tier_key"]) /\ TierRaisesPy(c)
    THEN "thrown"
  ELSE IF /\ KeyOkPy(c["tier_key"]) /\ TierPy(c) /\ ModelOfTier(c)
          /\ c["free_requirements"] \notin {"claims", "named"}
          /\ c["fallback_behavior"] \in Absent \cup {"valid"}
    THEN "accepted" ELSE "rejected"
=============================================================================
