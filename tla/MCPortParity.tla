---------------------------- MODULE MCPortParity ----------------------------
(***************************************************************************)
(* Values for TLC: a sound document of each kind and type, and for each    *)
(* field the classes that one of the validators tells apart there.         *)
(***************************************************************************)
EXTENDS PortParity, TLC

Blank(fields) == [f \in fields |-> "missing"]

Flag == {"missing", "null", "false", "true", "number", "valid"}
Numeric ==
  {"missing", "null", "true", "zero", "negative", "number", "fraction", "huge", "wholefloat", "valid"}
Text == {"missing", "null", "number", "empty", "short", "list"}
Format == {"missing", "null", "zero", "empty", "short", "long", "newline", "list"}
Array == {"missing", "null", "valid", "emptylist", "single", "mixedlist", "biglist", "object"}
Date == {"missing", "null", "false", "empty", "number", "long", "epoch", "list"} \cup Moment
Optional == {"null", "false", "empty", "long", "emptylist", "list", "valid"}

Dates == [expires_at |-> Date, issued_at |-> Date]
Types == {"missing", "empty", "short", "null", "list"}

-----------------------------------------------------------------------------
Fields(type) ==
  CASE type = "payment" ->
         [token |-> Text, x402_payload |-> {"null", "list", "object", "emptyobject", "short"},
          payload |-> Text, x402_signature |-> Format, network |-> Text]
    [] type = "trust" -> [self_attested |-> Flag]
    [] type = "identity" -> [method |-> Text]
    [] type = "connection" -> [subscriber_did |-> Text]
    [] type = "credential" -> [credential |-> Text, format |-> Text]
    [] type = "capability" -> [declared_capabilities |-> Array]
    [] type = "allowlist" -> [did |-> Text]
    [] type = "reciprocal" -> [entity_did |-> Text, granted_access |-> Text]
    [] type = "proof_of_intent" ->
         [f \in IntentFields |->
            CASE f = "created_at" -> Date \cup {"zero"}
              [] f = "scope" -> {"missing", "null", "empty", "short", "emptyobject", "list"}
              [] OTHER -> {"missing", "null", "false", "zero", "empty", "long", "emptylist",
                           "emptyobject", "list"}] @@
         [intent_document |-> {"missing", "null", "list", "emptyobject", "short"},
          scope_expires_at |-> Date \cup {"datelist"}]
    [] type = "data_request" -> [verifiable_presentation |-> Format, claimed_fields |-> Optional]
    [] type = "agreement" ->
         [document_hash |-> Format, signature |-> Format, signer_did |-> Format,
          signature_algo |-> Optional]
    [] OTHER -> [method |-> Text]

SoundProof(type) ==
  LET own == DOMAIN Fields(type) \ {"claimed_fields", "signature_algo"}
  IN [f \in ProofFields |->
        CASE f = "type" -> type
          [] f \in {"scope", "x402_payload", "intent_document"} \cap own -> "object"
          [] f = "self_attested" /\ f \in own -> "true"
          [] f = "declared_capabilities" /\ f \in own -> "list"
          [] f = "created_at" /\ f \in own -> "past"
          [] f = "scope_expires_at" /\ f \in own -> "future"
          [] f \in own -> "valid"
          [] OTHER -> "missing"]

Tokened == [SoundProof("payment") EXCEPT !["x402_payload"] = "missing"]

-----------------------------------------------------------------------------
ConfigField(type) ==
  CASE type = "payment" -> [amount |-> Numeric, currency |-> Format, per |-> Text]
    [] type = "trust" -> [min_score |-> Numeric]
    [] type = "identity" -> [method |-> Text]
    [] type = "connection" -> [relation |-> Text]
    [] type = "credential" -> [credential_type |-> Text]
    [] type = "capability" -> [required_capabilities |-> Array]
    [] type = "allowlist" -> [dids |-> Array]
    [] type = "reciprocal" -> [access_level |-> Text]
    [] type = "data_request" -> [requested_claims |-> {"missing", "null", "emptylist", "claims", "short"}]
    [] type = "agreement" -> [document_url |-> Text, document_hash |-> Format, signature_algo |-> Text]
    [] type = "combined" ->
         [combine_mode |-> Text, nested |-> Array, sub_score |-> Numeric,
          sub_type |-> {"standard_residency", "data_request", "x-custom", "x-Other", "short", "null"}]
    [] OTHER -> [amount |-> {"zero"}]

ConfigFrame ==
  [root |-> {"null", "list", "short"},
   default_tier |-> {"missing", "null", "second", "unlisted", "constructor", "dashed", "number"},
   tiers |-> {"missing", "null", "list", "emptyobject", "bigobject"},
   free_requirements |-> {"missing", "null", "single", "list", "claims", "short"},
   tier_key |-> {"dashed", "longkey", "capital", "newline", "empty"},
   tier |-> {"null", "list", "short"},
   requirements |-> {"missing", "null", "emptylist", "list", "mixedlist", "biglist", "object"},
   access |-> {"missing", "null", "emptylist", "list", "mixedlist", "biglist"},
   pattern |-> {"null", "number", "dotted", "newline", "capital"}, extras |-> {"null", "valid", "number"},
   label |-> {"null", "number", "short", "overlong"}, description |-> {"null", "list", "overlong"},
   fallback_behavior |-> {"null", "valid", "short", "true"}]

SoundConfig(type) ==
  [f \in ConfigFields |->
     CASE f = "type" -> type
       [] f \in {"root", "tiers", "tier"} -> "object"
       [] f = "default_tier" -> "free"
       [] f = "free_requirements" -> "emptylist"
       [] f \in {"requirements", "access"} -> "single"
       [] f \in {"tier_key", "pattern"} -> "valid"
       [] f \in {"amount", "min_score"} /\ f \in DOMAIN ConfigField(type) -> "number"
       [] f \in {"required_capabilities", "dids"} /\ f \in DOMAIN ConfigField(type) -> "list"
       [] f = "requested_claims" /\ type = "data_request" -> "named"
       [] type = "combined" /\ f = "nested" -> "list"
       [] type = "combined" /\ f = "sub_type" -> "trust"
       [] type = "combined" /\ f = "sub_score" -> "number"
       [] f \in DOMAIN ConfigField(type) -> "valid"
       [] OTHER -> "missing"]

RequirementType == CheckedType \cup Custom \cup {"standard_residency", "combined"}

-----------------------------------------------------------------------------
PriceField ==
  [pricing |-> {"missing", "null", "empty", "short", "emptylist", "emptyobject", "list"},
   model |-> {"missing", "null", "short", "list"}, currency |-> Format, amount |-> Numeric,
   period |-> Optional, unit |-> Optional, rate |-> Numeric,
   tiers |-> {"null", "emptylist", "list", "short"},
   minimum_charge |-> Numeric, maximum_charge |-> Numeric]

Price(model) ==
  [f \in PricingFields |->
     CASE f = "pricing" -> "object" [] f = "model" -> model [] f = "currency" -> "valid"
       [] f = "period" /\ model = "subscription" -> "valid"
       [] f = "unit" /\ model = "metered" -> "valid" [] f = "rate" /\ model = "metered" -> "fraction"
       [] f = "tiers" /\ model = "tiered_volume" -> "list"
       [] OTHER -> "missing"]

SoundEnvelope(model) ==
  [negotiation_id |-> "valid", service |-> "valid", terms |-> "missing"] @@ Price(model)

SoundCatalog(model) ==
  [id |-> "valid", name |-> "valid", category |-> "valid", delivery |-> "valid", tags |-> "missing",
   status |-> "missing", negotiable |-> "missing", entity_did |-> "valid",
   services |-> "list"] @@ Price(model)

CatalogField ==
  [id |-> Format, name |-> {"missing", "empty", "overlong"}, category |-> {"null", "overlong"},
   delivery |-> {"missing", "short", "list"}, tags |-> {"null", "short", "emptylist", "biglist"},
   status |-> {"null", "valid", "short", "list", "object"}, negotiable |-> Flag,
   entity_did |-> {"missing", "empty"},
   services |-> {"missing", "emptylist", "single", "twice", "mixedlist", "biglist", "object"}] @@ PriceField

Delegation(limits) ==
  [policy_hash |-> "valid", operator_privacy_policy_hash |-> "valid",
   allowed_dpv_purposes |-> limits, max_retention_days |-> "huge", requested_claims |-> "claims",
   purpose |-> "inside", retention_days |-> "number"]

DelegationField ==
  [policy_hash |-> {"missing", "empty", "other", "list", "emptyobject"},
   operator_privacy_policy_hash |-> {"missing", "null", "other", "list", "emptylist"},
   allowed_dpv_purposes |-> {"missing", "null", "emptylist", "list", "claims", "empty", "valid", "object"},
   max_retention_days |-> {"missing", "null", "zero", "true", "number", "fraction", "digits"},
   requested_claims |->
     {"missing", "null", "true", "number", "empty", "short", "emptylist", "list", "nulllist", "named",
      "object"},
   purpose |-> {"missing", "null", "empty", "emptylist", "list", "outside"},
   retention_days |->
     {"missing", "null", "true", "negative", "zero", "fraction", "wholefloat", "huge", "epoch", "digits"}]

SoundReview == [reviewer_did |-> "valid", score |-> "number", service_id |-> "valid", comment |-> "missing"]

Sound ==
  [proof |-> {SoundProof(t) : t \in TypeName} \cup {Tokened},
   delegation |-> {Delegation("list"), Delegation("missing")},
   config |-> {SoundConfig(t) : t \in RequirementType},
   envelope |-> {SoundEnvelope(m) : m \in Model},
   catalog |-> {SoundCatalog(m) : m \in {"fixed", "metered"}},
   review |-> {SoundReview}]

AnyOf(field) == [any |-> field]

Changes ==
  [proof |-> [t \in TypeName |-> [type |-> Types] @@ Dates @@ Fields(t)],
   delegation |-> AnyOf(DelegationField),
   config |-> [t \in RequirementType |-> [type |-> Types] @@ ConfigFrame @@ ConfigField(t)],
   envelope |-> AnyOf([negotiation_id |-> Format, service |-> Text,
                       terms |-> {"null", "emptylist", "list", "object", "short"}] @@ PriceField),
   catalog |-> AnyOf(CatalogField),
   review |-> AnyOf([reviewer_did |-> Text, score |-> Numeric, service_id |-> Text,
                     comment |-> {"null", "short", "overlong", "number"}])]
=============================================================================
