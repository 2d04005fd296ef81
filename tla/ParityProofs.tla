---------------------------- MODULE ParityProofs ----------------------------
(***************************************************************************)
(* What holds of the two ports for every document a client or a publisher  *)
(* may compose, within the classes of values and the bounds of JsonValues, *)
(* and of a negotiation for every number of acceptances.                   *)
(***************************************************************************)
EXTENDS PortParity, TLAPS

----------------------------------------------------------------------------
(***************************************************************************)
(* The forms of a date that only one of Date and fromisoformat parses.     *)
(***************************************************************************)
LEMMA FutureForms ==
  /\ DateParses \ Past = (Zoned \ {"past"}) \cup {"naive", "loose"}
  /\ IsoParses \ Past = (Zoned \ {"past"}) \cup {"naive", "compact", "bare"}
BY DEF DateParses, IsoParses, Past, Moment, Zoned, Naive, Loose, Compact, Bare

LEMMA PastForms ==
  /\ DateParses \cap Past = {"past", "pastnaive", "pastloose"}
  /\ IsoParses \cap Past = {"past", "pastnaive", "pastcompact", "pastbare"}
BY DEF DateParses, IsoParses, Past, Moment, Zoned, Naive, Loose, Compact, Bare

LEMMA DatesAgree ==
  ASSUME NEW p \in Document("proof"), ~ProofMayDiffer(p)
  PROVE  /\ ExpiresTS(p["expires_at"]) <=> ExpiresPy(p["expires_at"])
         /\ IssuedTS(p["issued_at"]) <=> IssuedPy(p["issued_at"])
<1>1. p["expires_at"] \notin (Falsy \ {"missing"}) \cup Naive \cup Bare \cup {"loose", "compact"}
  BY DEF ProofMayDiffer, ExpiryMayDiffer
<1>2. p["issued_at"] \notin (Falsy \ {"missing"}) \cup {"pastloose", "pastcompact", "pastbare"}
  BY DEF ProofMayDiffer
<1>3. ExpiresTS(p["expires_at"]) <=> ExpiresPy(p["expires_at"])
  BY <1>1, FutureForms DEF ExpiresTS, ExpiresPy, Naive, Bare, Falsy, Absent
<1>4. IssuedTS(p["issued_at"]) <=> IssuedPy(p["issued_at"])
  BY <1>2, PastForms DEF IssuedTS, IssuedPy, Falsy, Absent
<1> QED  BY <1>3, <1>4

LEMMA PaymentAgrees ==
  ASSUME NEW p \in Document("proof"), ~ProofMayDiffer(p), p["type"] = "payment"
  PROVE  PaymentTS(p) <=> PaymentPy(p)
<1>1. p["x402_payload"] # "null" /\ p["x402_signature"] # "newline"
  BY DEF ProofMayDiffer
<1> QED  BY <1>1 DEF PaymentTS, PaymentPy, Absent

LEMMA IntentAgrees ==
  ASSUME NEW p \in Document("proof"), ~ProofMayDiffer(p), p["type"] = "proof_of_intent"
  PROVE  IntentTS(p) <=> IntentPy(p)
<1>1. p["scope_expires_at"] \notin Naive \cup Bare \cup {"loose", "compact", "epoch", "datelist"}
  BY DEF ProofMayDiffer, ExpiryMayDiffer
<1>2. \A f \in IntentFields : p[f] \notin {"emptylist", "emptyobject"}
  BY DEF ProofMayDiffer
<1>3. ScopeExpiresTS(p["scope_expires_at"]) <=> p["scope_expires_at"] \in IsoParses \ Past
  BY <1>1, FutureForms DEF ScopeExpiresTS, Naive, Bare
<1> QED  BY <1>2, <1>3 DEF IntentTS, IntentPy, FalsyPy

LEMMA FieldsAgree ==
  ASSUME NEW p \in Document("proof"), ~ProofMayDiffer(p)
  PROVE  FieldsTS(p) <=> FieldsPy(p)
<1>1. CASE p["type"] = "payment"
  BY <1>1, PaymentAgrees DEF FieldsTS, FieldsPy
<1>2. CASE p["type"] = "proof_of_intent"
  BY <1>2, IntentAgrees DEF FieldsTS, FieldsPy
<1>3. CASE p["type"] = "data_request"
  <2>1. p["claimed_fields"] # "null"
    BY <1>3 DEF ProofMayDiffer
  <2> QED  BY <1>3, <2>1 DEF FieldsTS, FieldsPy, DataRequestTS, DataRequestPy, Absent
<1>4. CASE p["type"] = "agreement"
  <2>1. p["signature_algo"] # "null" /\ p["document_hash"] # "newline"
    BY <1>4 DEF ProofMayDiffer
  <2> QED  BY <1>4, <2>1 DEF FieldsTS, FieldsPy, AgreementTS, AgreementPy, Absent
<1>5. CASE p["type"] \notin {"payment", "proof_of_intent", "data_request", "agreement"}
  BY <1>5 DEF FieldsTS, FieldsPy
<1> QED  BY <1>1, <1>2, <1>3, <1>4, <1>5

LEMMA NeitherThrows ==
  ASSUME NEW p \in Document("proof"), ~ProofMayDiffer(p)
  PROVE  ~RaisesPy(p) /\ ~(p["type"] = "payment" /\ p["x402_payload"] = "null")
BY DEF ProofMayDiffer, ExpiryMayDiffer, RaisesPy

(***************************************************************************)
(* The two structural validators give a proof that shows none of the known *)
(* differences the same verdict, whatever its fields hold.                 *)
(***************************************************************************)
THEOREM SameVerdict ==
  ASSUME NEW p \in Document("proof"), ~ProofMayDiffer(p)
  PROVE  validateProofStructure(p) = validate_proof_structure(p)
BY DatesAgree, FieldsAgree, NeitherThrows DEF validateProofStructure, validate_proof_structure

LEMMA SameSubmission ==
  ASSUME NEW p \in Document("proof"), ~ProofMayDiffer(p)
  PROVE  validateProofs(<<p>>) = validate_proofs(<<p>>)
<1>1. Len(<<p>>) = 1 /\ <<p>>[1] = p
  OBVIOUS
<1> QED  BY <1>1, SameVerdict DEF validateProofs, validate_proofs

----------------------------------------------------------------------------
(***************************************************************************)
(* Configurations: the requirement, the second tier, the whole.            *)
(***************************************************************************)
LEMMA RequirementsAgree ==
  ASSUME NEW c \in Document("config"), ~RequirementMayDiffer(c)
  PROVE  RequirementTS(c) <=> RequirementPy(c) /\ ModelOfRequirement(c)
<1> USE DEF RequirementTS, RequirementPy, ModelOfRequirement, RequirementMayDiffer, TypeOkTS, TypeOkPy
<1>1. CASE c["type"] = "payment"
  BY <1>1 DEF PaymentRequirementTS, NumberPy, Number, Bool
<1>2. CASE c["type"] = "trust"
  BY <1>2 DEF TrustRequirementTS, NumberPy, Number, Bool
<1>3. CASE c["type"] \in {"identity", "connection"}
  BY <1>3 DEF RequirementRaisesPy, IdentityRequirementTS, ConnectionRequirementTS
<1>4. CASE c["type"] \in {"credential", "reciprocal"}
  BY <1>4 DEF CredentialRequirementTS, ReciprocalRequirementTS, IsNonempty
<1>5. CASE c["type"] \in {"capability", "allowlist"}
  BY <1>5 DEF CapabilityRequirementTS, AllowlistRequirementTS, List, Texts
<1>6. CASE c["type"] = "combined"
  BY <1>6 DEF CombinedRequirementTS, NestedOkTS, NestedOkPy, TrustRequirementTS, NumberPy, Number, Bool, Custom
<1>7. CASE c["type"] \in {"agreement", "data_request"}
  BY <1>7
<1>8. CASE c["type"] \notin {"payment", "trust", "identity", "connection", "credential", "reciprocal",
                             "capability", "allowlist", "combined", "agreement", "data_request"}
  BY <1>8 DEF Custom
<1> QED  BY <1>1, <1>2, <1>3, <1>4, <1>5, <1>6, <1>7, <1>8

LEMMA TiersAgree ==
  ASSUME NEW c \in Document("config"), ~ConfigMayDiffer(c)
  PROVE  TierTS(c) <=> TierPy(c) /\ ModelOfTier(c)
<1>1. c["requirements"] = "single" => (RequirementTS(c) <=> RequirementPy(c) /\ ModelOfRequirement(c))
  BY RequirementsAgree DEF ConfigMayDiffer
<1>2. /\ c["requirements"] \notin {"missing", "biglist"} /\ c["access"] # "biglist"
      /\ c["extras"] \in Absent \cup {"valid"}
  BY DEF ConfigMayDiffer
<1>3. PatternOkTS(c["pattern"]) <=> PatternOkPy(c["pattern"])
  BY DEF ConfigMayDiffer, PatternOkTS, PatternOkPy
<1>4. /\ c["label"] = "missing" \/ (IsText(c["label"]) /\ c["label"] # "overlong") <=>
           c["label"] \in Absent \/ IsText(c["label"])
      /\ c["description"] = "missing" \/ (IsText(c["description"]) /\ c["description"] # "overlong") <=>
           c["description"] \in Absent \/ IsText(c["description"])
  BY DEF ConfigMayDiffer, Absent
<1> QED  BY <1>1, <1>2, <1>3, <1>4 DEF TierTS, TierPy, AccessPy, ModelOfTier

LEMMA TierDoesNotRaise ==
  ASSUME NEW c \in Document("config"), ~ConfigMayDiffer(c)
  PROVE  ~TierRaisesPy(c)
<1>1. /\ c["access"] \notin {"biglist", "mixedlist", "claims", "named"} /\ IsText(c["pattern"])
      /\ c["requirements"] \notin {"biglist", "list", "mixedlist"}
      /\ c["requirements"] = "single" => ~RequirementRaisesPy(c)
  BY DEF ConfigMayDiffer, RequirementMayDiffer
<1> QED  BY <1>1 DEF TierRaisesPy

LEMMA ConfigsAgree ==
  ASSUME NEW c \in Document("config"), ~ConfigMayDiffer(c)
  PROVE  parseGateConfig(c) = parse_gate_config(c)
<1>1. TierTS(c) <=> TierPy(c) /\ ModelOfTier(c)
  BY TiersAgree
<1>2. KeyOkTS(c["tier_key"]) <=> KeyOkPy(c["tier_key"])
  BY DEF ConfigMayDiffer, KeyOkPy
<1>3. /\ c["default_tier"] # "constructor" /\ c["tiers"] # "bigobject"
      /\ c["free_requirements"] = "emptylist" /\ c["fallback_behavior"] # "null"
      /\ c["default_tier"] = "second" => c["requirements"] = "emptylist"
  BY DEF ConfigMayDiffer
<1>4. c["default_tier"] \in {"free", "second"} => KeyOkTS(c["default_tier"])
  BY DEF KeyOkTS
<1>5. ~TierRaisesPy(c)
  BY TierDoesNotRaise
<1>6. c["free_requirements"] \in List \cup {"missing"}
  BY <1>3 DEF List
<1> QED  BY <1>1, <1>2, <1>3, <1>4, <1>5, <1>6 DEF parseGateConfig, parse_gate_config, Absent

----------------------------------------------------------------------------
(***************************************************************************)
(* Delegations, prices, envelopes, catalogs and reviews.                   *)
(***************************************************************************)
LEMMA DelegationsAgree ==
  ASSUME NEW d \in Document("delegation"), ~CommerceMayDiffer("delegation", d)
  PROVE  delegationPermitsDataRequest(d) = delegation_permits_data_request(d)
<1> DEFINE days == {"max_retention_days", "retention_days"}
           integer == {"zero", "negative", "number", "huge", "epoch"} \cup Bool
<1>1. /\ {d["policy_hash"], d["operator_privacy_policy_hash"]} \cap (List \cup Object) = {}
      /\ ~IsNonempty(d["allowed_dpv_purposes"])
      /\ d["requested_claims"] \in ClaimObjects \cup {"empty", "emptylist"}
      /\ d["purpose"] \notin FalsyPy
      /\ \A f \in days : d[f] \notin {"null", "fraction", "wholefloat", "digits"}
  BY DEF CommerceMayDiffer
<1>2. \A f \in days : d[f] \in Absent \cup Bool \cup Number \cup {"digits"}
  BY DEF Document, FieldsOf, Held, DelegationFields
<1>3. PolicyAgrees(d, Falsy, List \cup Object) <=> PolicyAgrees(d, FalsyPy, {})
  BY <1>1 DEF PolicyAgrees, FalsyPy, List, Object
<1>4. \A f \in days : d[f] # "missing" <=> d[f] \in integer
  BY <1>1, <1>2 DEF Absent, Bool, Number
<1>5. /\ d["requested_claims"] \notin Absent \cup Bool \cup Number \cup Object \cup {"nulllist"}
      /\ d["requested_claims"] \notin {"true"} \cup (Number \ {"zero"})
      /\ d["requested_claims"] \notin {"empty", "emptylist"} <=> d["requested_claims"] \in ClaimObjects
  BY <1>1 DEF ClaimObjects, Absent, Bool, Number, Object
<1>6. /\ d["allowed_dpv_purposes"] \in List \ {"emptylist"} \/ IsNonempty(d["allowed_dpv_purposes"])
           <=> d["allowed_dpv_purposes"] \in List \ {"emptylist"}
      /\ d["allowed_dpv_purposes"] \in List \ {"emptylist"} => ~IsText(d["allowed_dpv_purposes"])
  BY <1>1 DEF IsText
<1>7. d["allowed_dpv_purposes"] \in List \ {"emptylist"} /\ d["requested_claims"] \in ClaimObjects =>
        (PurposeAllowedTS(d) <=> d["allowed_dpv_purposes"] \in Purposes /\ d["purpose"] = "inside")
  BY <1>6 DEF PurposeAllowedTS
<1> HIDE DEF integer
<1> QED  BY <1>1, <1>3, <1>4, <1>5, <1>6, <1>7
         DEF delegationPermitsDataRequest, delegation_permits_data_request, integer

LEMMA PricesAgree ==
  ASSUME NEW d, ~PriceMayDiffer(d)
  PROVE  validatePricing(d) <=> validate_pricing(d)
<1>1. /\ d["currency"] # "newline" /\ d["amount"] \notin Bool \cup {"null"}
      /\ {d["period"], d["unit"]} \cap {"emptylist", "emptyobject"} = {}
      /\ d["rate"] \notin Bool /\ {d["minimum_charge"], d["maximum_charge"]} \cap Bool = {}
  BY DEF PriceMayDiffer
<1>2. d["amount"] \in NonNegative \cup {"missing"} <=> d["amount"] \in (NumberPy \ {"negative"}) \cup Absent
  BY <1>1 DEF NonNegative, NumberPy, Number, Bool, Absent
<1>3. d["rate"] \in NonNegative <=> d["rate"] \in NumberPy \ {"negative"}
  BY <1>1 DEF NonNegative, NumberPy, Number, Bool
<1>4. d["period"] \notin Falsy <=> d["period"] \notin FalsyPy
  BY <1>1 DEF FalsyPy
<1>5. d["unit"] \notin Falsy <=> d["unit"] \notin FalsyPy
  BY <1>1 DEF FalsyPy
<1>6. InOrder(d, Number) <=> InOrder(d, NumberPy)
  <2>1. {d["minimum_charge"], d["maximum_charge"]} \subseteq Number <=>
          {d["minimum_charge"], d["maximum_charge"]} \subseteq NumberPy
    BY <1>1 DEF NumberPy
  <2> QED  BY <2>1 DEF InOrder
<1> QED  BY <1>1, <1>2, <1>3, <1>4, <1>5, <1>6 DEF validatePricing, validate_pricing

LEMMA EnvelopesAgree ==
  ASSUME NEW d \in Document("envelope"), ~CommerceMayDiffer("envelope", d)
  PROVE  validateNegotiationEnvelope(d) <=> validate_negotiation_envelope(d)
<1>1. /\ d["negotiation_id"] # "newline" /\ d["terms"] \notin List \ {"emptylist"}
      /\ d["pricing"] \notin {"emptylist", "emptyobject"} /\ ~PriceMayDiffer(d)
  BY DEF CommerceMayDiffer
<1>2. validatePricing(d) <=> validate_pricing(d)
  BY <1>1, PricesAgree
<1>3. d["terms"] \in Falsy \cup Object \cup List <=> d["terms"] \in FalsyPy \cup Object
  BY <1>1 DEF FalsyPy, Object, List
<1> QED  BY <1>1, <1>2, <1>3 DEF validateNegotiationEnvelope, validate_negotiation_envelope, FalsyPy

LEMMA CatalogsAgree ==
  ASSUME NEW d \in Document("catalog"), ~CommerceMayDiffer("catalog", d)
  PROVE  /\ validateServiceCatalog(d) <=> validate_service_catalog(d)
         /\ ~ListingRaisesPy(d)
<1>1. /\ d["id"] # "newline" /\ ~PriceMayDiffer(d) /\ d["status"] \notin List \cup Object
      /\ "null" \notin {d["tags"], d["status"], d["negotiable"]}
  BY DEF CommerceMayDiffer
<1>2. validatePricing(d) <=> validate_pricing(d)
  BY <1>1, PricesAgree
<1>3. d["pricing"] \notin Falsy /\ validatePricing(d) <=> d["pricing"] \notin FalsyPy /\ validate_pricing(d)
  BY <1>2 DEF FalsyPy, validatePricing
<1>4. validateServiceListing(d) <=> validate_service_listing(d)
  BY <1>1, <1>3 DEF validateServiceListing, validate_service_listing, Absent
<1> QED  BY <1>1, <1>4 DEF validateServiceCatalog, validate_service_catalog, ListingRaisesPy

LEMMA ReviewsAgree ==
  ASSUME NEW d \in Document("review"), ~CommerceMayDiffer("review", d)
  PROVE  validateReview(d) <=> validate_review(d)
<1>1. d["score"] \notin {"true", "wholefloat"} /\ d["comment"] # "null"
  BY DEF CommerceMayDiffer
<1> QED  BY <1>1 DEF validateReview, validate_review, Absent

(***************************************************************************)
(* The two ports give a document of any kind that is clear of the listed   *)
(* differences the same verdict, whatever its fields hold.                 *)
(***************************************************************************)
THEOREM SameListingVerdict ==
  ASSUME NEW k \in Kind \ {"proof"}, NEW d \in Document(k),
         IF k = "config" THEN ~ConfigMayDiffer(d) ELSE ~CommerceMayDiffer(k, d)
  PROVE  VerdictTS(k, d) = VerdictPy(k, d)
<1> USE DEF VerdictTS, VerdictPy, Accepts
<1>1. CASE k = "delegation"
  BY <1>1, DelegationsAgree
<1>2. CASE k = "config"
  BY <1>2, ConfigsAgree
<1>3. CASE k = "envelope"
  BY <1>3, EnvelopesAgree
<1>4. CASE k = "catalog"
  BY <1>4, CatalogsAgree
<1>5. CASE k = "review"
  BY <1>5, ReviewsAgree
<1> QED  BY <1>1, <1>2, <1>3, <1>4, <1>5 DEF Kind

----------------------------------------------------------------------------
(***************************************************************************)
(* Inductive: the document stays one of its kind, and a verdict is the one *)
(* of the document that was read: it is not edited any more.               *)
(***************************************************************************)
ReadWhatIsThere ==
  /\ kind \in Kind /\ doc \in Document(kind)
  /\ ts \in {"unread", VerdictTS(kind, doc)}
  /\ py \in {"unread", VerdictPy(kind, doc)}

LEMMA EditedDocument ==
  ASSUME ParityAssumption, NEW k \in Kind, NEW d \in Document(k), NEW t \in DOMAIN Choice[k],
         NEW f \in DOMAIN Choice[k][t], NEW v \in Choice[k][t][f]
  PROVE  [d EXCEPT ![f] = v] \in Document(k)
<1>1. f \in FieldsOf(k) /\ v \in Held(f)
  BY DEF ParityAssumption
<1> DEFINE held == UNION {Held(g) : g \in FieldsOf(k)}
<1>2. v \in held
  BY <1>1
<1>3. d \in [FieldsOf(k) -> held] /\ \A g \in FieldsOf(k) : d[g] \in Held(g)
  BY DEF Document
<1>4. [d EXCEPT ![f] = v] \in [FieldsOf(k) -> held]
  <2> HIDE DEF held
  <2> QED  BY <1>2, <1>3
<1>5. \A g \in FieldsOf(k) : [d EXCEPT ![f] = v][g] \in Held(g)
  BY <1>1, <1>3
<1> QED  BY <1>4, <1>5 DEF Document

LEMMA ReadWhatIsThereStep ==
  ASSUME ParityAssumption, ReadWhatIsThere, [Next]_vars
  PROVE  ReadWhatIsThere'
<1>1. ASSUME NEW t \in DOMAIN Choice[kind] \cap {TypeOf(kind, doc)},
             NEW f \in DOMAIN Choice[kind][t], NEW v \in Choice[kind][t][f], Edit(f, v)
      PROVE  ReadWhatIsThere'
  <2>1. [doc EXCEPT ![f] = v] \in Document(kind)
    BY EditedDocument DEF ReadWhatIsThere
  <2> QED  BY <1>1, <2>1 DEF Edit, ReadWhatIsThere
<1>2. ASSUME ReadTS PROVE ReadWhatIsThere'
  BY <1>2 DEF ReadTS, ReadWhatIsThere
<1>3. ASSUME ReadPy PROVE ReadWhatIsThere'
  BY <1>3 DEF ReadPy, ReadWhatIsThere
<1>4. ASSUME UNCHANGED <<kind, doc, ts, py>> PROVE ReadWhatIsThere'
  BY <1>4 DEF ReadWhatIsThere
<1>5. ASSUME OpenNegotiation PROVE ReadWhatIsThere'
  BY <1>5, <1>4 DEF OpenNegotiation
<1>6. ASSUME NEW act \in Act, Negotiate(act) PROVE ReadWhatIsThere'
  BY <1>6, <1>4 DEF Negotiate
<1> QED  BY <1>1, <1>2, <1>3, <1>4, <1>5, <1>6 DEF Next, vars

LEMMA ReadWhatIsThereHolds == Spec => []ReadWhatIsThere
<1> USE ParityAssumption
<1>1. Init => ReadWhatIsThere
  BY DEF Init, ReadWhatIsThere, ParityAssumption
<1>2. ReadWhatIsThere /\ [Next]_vars => ReadWhatIsThere'
  BY ReadWhatIsThereStep
<1> QED  BY <1>1, <1>2, PTL DEF Spec

(***************************************************************************)
(* An agent may prove itself to a server of either kind: what one accepts  *)
(* the other accepts, but for the known differences.                       *)
(***************************************************************************)
THEOREM PortsAgree == Spec => []ProofPortsAgree
<1>1. ReadWhatIsThere => ProofPortsAgree
  BY SameSubmission DEF ReadWhatIsThere, ProofPortsAgree, BothRead, VerdictTS, VerdictPy
<1> QED  BY <1>1, ReadWhatIsThereHolds, PTL

(***************************************************************************)
(* A configuration, delegation, envelope, catalog or review that one port  *)
(* accepts the other accepts, but for the known differences.               *)
(***************************************************************************)
THEOREM ListingsAgree == Spec => []ListingPortsAgree
<1>1. ReadWhatIsThere => ListingPortsAgree
  BY SameListingVerdict DEF ReadWhatIsThere, ListingPortsAgree, BothRead
<1> QED  BY <1>1, ReadWhatIsThereHolds, PTL

----------------------------------------------------------------------------
LEMMA LoneProof ==
  ASSUME NEW p
  PROVE  validateProofs(<<p>>) = "rejected" => validateProofStructure(p) \notin {"accepted", "thrown"}
<1>1. Len(<<p>>) = 1 /\ <<p>>[1] = p
  OBVIOUS
<1> QED  BY <1>1 DEF validateProofs

(***************************************************************************)
(* What the validator that knows the agent accepts fails the structural    *)
(* one only by the proof's dates or by a field that is false or zero.      *)
(***************************************************************************)
THEOREM IntentsAgree == Spec => []IntentValidatorsAgree
<1>1. ASSUME ReadWhatIsThere, kind = "proof", doc["type"] = "proof_of_intent",
             validatePoIProof(doc), ts = "rejected",
             ExpiresTS(doc["expires_at"]), IssuedTS(doc["issued_at"])
      PROVE  \E f \in IntentFields : doc[f] \in {"false", "zero"}
  <2>1. validateProofs(<<doc>>) = "rejected"
    BY <1>1 DEF ReadWhatIsThere, VerdictTS
  <2>2. ~FieldsTS(doc)
    BY <1>1, <2>1, LoneProof DEF validateProofStructure, IsNonempty, IsText, Absent, Bool, Number, List, Object
  <2>3. ~IntentTS(doc)
    BY <1>1, <2>2 DEF FieldsTS
  <2>4. \E f \in IntentFields : doc[f] \in Falsy
    BY <1>1, <2>3 DEF IntentTS, validatePoIProof, validateIntentDocument
  <2> QED  BY <1>1, <2>4 DEF validatePoIProof, validateIntentDocument, Falsy
<1>2. ReadWhatIsThere => IntentValidatorsAgree
  BY <1>1 DEF IntentValidatorsAgree
<1> QED  BY <1>2, ReadWhatIsThereHolds, PTL

----------------------------------------------------------------------------
\* One document that every case of the validator finds complete.
CompleteProof(type) ==
  [f \in ProofFields |->
     CASE f = "type" -> type
       [] f \in {"expires_at", "issued_at", "x402_payload"} -> "missing"
       [] f \in {"scope", "intent_document"} -> "object"
       [] f = "scope_expires_at" -> "future" [] f = "self_attested" -> "true"
       [] f \in {"declared_capabilities", "claimed_fields"} -> "list"
       [] OTHER -> "valid"]

(***************************************************************************)
(* It is accepted, and shows none of the known differences, so that the    *)
(* other port accepts it too.                                              *)
(***************************************************************************)
LEMMA ProofForBothPorts ==
  ASSUME NEW type \in CheckedType \cup Custom
  PROVE  \E p \in Document("proof") :
           /\ p["type"] = type
           /\ validateProofStructure(p) = "accepted" /\ validate_proof_structure(p) = "accepted"
<1> DEFINE p == CompleteProof(type)
<1> USE DEF ProofFields, IntentFields
<1>1. p \in Document("proof")
  <2>1. \A f \in ProofFields : p[f] \in Held(f)
    BY DEF CompleteProof, Held, Value, Absent, Bool, List, Object, Moment, Zoned, Plain, TypeName
  <2>2. \A f \in ProofFields : p[f] \in UNION {Held(g) : g \in ProofFields}
    <3> HIDE DEF p
    <3> QED  BY <2>1
  <2>3. p = [f \in ProofFields |-> p[f]]
    BY DEF CompleteProof
  <2> HIDE DEF p
  <2> QED  BY <2>1, <2>2, <2>3 DEF Document, FieldsOf
<1>2. /\ p["type"] = type /\ p["expires_at"] = "missing" /\ p["issued_at"] = "missing"
      /\ p["x402_payload"] = "missing" /\ p["scope_expires_at"] = "future" /\ p["self_attested"] = "true"
      /\ p["intent_document"] = "object" /\ p["declared_capabilities"] = "list" /\ p["claimed_fields"] = "list"
      /\ \A f \in IntentFields : p[f] = IF f = "scope" THEN "object" ELSE "valid"
      /\ \A f \in {"token", "method", "subscriber_did", "credential", "format", "did", "entity_did",
                    "granted_access", "verifiable_presentation", "document_hash", "signature", "signer_did",
                    "signature_algo"} : p[f] = "valid"
  BY DEF CompleteProof
<1>3. FieldsTS(p)
  <2> HIDE DEF p
  <2> QED  BY <1>2, FutureForms DEF FieldsTS, CheckedType, Custom, PaymentTS, IntentTS, DataRequestTS, AgreementTS, IsLong,
                       ScopeExpiresTS, IsNonempty, IsText, Absent, Bool, Number, List, Object, Zoned,
                       Falsy
<1>4. IsNonempty(p["type"]) /\ ExpiresTS(p["expires_at"]) /\ IssuedTS(p["issued_at"])
  <2> HIDE DEF p
  <2> QED  BY <1>2 DEF CheckedType, Custom, ExpiresTS, IssuedTS, IsNonempty, IsText, Absent, Bool, Number,
                       List, Object, Falsy
<1>5. validateProofStructure(p) = "accepted"
  <2> HIDE DEF p
  <2> QED  BY <1>2, <1>3, <1>4 DEF validateProofStructure
<1>6. ~ProofMayDiffer(p)
  <2>1. p["x402_signature"] = "valid"
    BY DEF CompleteProof
  <2> HIDE DEF p
  <2> QED  BY <1>2, <2>1 DEF ProofMayDiffer, ExpiryMayDiffer, Naive, Bare, Falsy
<1> HIDE DEF p
<1>7. validate_proof_structure(p) = "accepted"
  BY <1>1, <1>5, <1>6, SameVerdict
<1> QED  BY <1>1, <1>2, <1>5, <1>7

(***************************************************************************)
(* The validator has no case for standard_residency.                       *)
(***************************************************************************)
LEMMA NoProofOfResidency ==
  ASSUME NEW proofs
  PROVE  ~Openable("standard_residency", proofs)
<1>1. ASSUME NEW p \in proofs, p["type"] = "standard_residency"
      PROVE  ~FieldsTS(p)
  BY <1>1 DEF FieldsTS, Custom
<1> QED  BY <1>1 DEF Openable, validateProofStructure

LEMMA ProofOfEachType ==
  ASSUME NEW type \in CheckedType \cup Custom
  PROVE  Openable(type, Document("proof"))
BY ProofForBothPorts DEF Openable

(***************************************************************************)
(* What a requirement accepted by a parser asks for is a type with a case  *)
(* in the validator, but for standard_residency, which only TypeScript     *)
(* knows; the Python port accepts a list of more than ten, too.            *)
(***************************************************************************)
LEMMA AskedForTS ==
  ASSUME ReadWhatIsThere, kind = "config", ts = "accepted", doc["requirements"] = "single",
         NeededProof(doc) # "standard_residency"
  PROVE  NeededProof(doc) \in CheckedType \cup Custom
<1>1. parseGateConfig(doc) = "accepted"
  BY DEF ReadWhatIsThere, VerdictTS
<1>2. RequirementTS(doc)
  BY <1>1 DEF parseGateConfig, TierTS
<1>3. CASE doc["type"] = "combined"
  <2>1. CombinedRequirementTS(doc)
    BY <1>2, <1>3 DEF RequirementTS
  <2> QED  BY <1>3, <2>1 DEF CombinedRequirementTS, NestedOkTS, NeededProof, CheckedType
<1>4. CASE doc["type"] # "combined"
  BY <1>2, <1>4 DEF RequirementTS, TypeOkTS, NeededProof, CheckedType
<1> QED  BY <1>3, <1>4

LEMMA AskedForPy ==
  ASSUME ReadWhatIsThere, kind = "config", py = "accepted", doc["requirements"] \in {"single", "biglist"}
  PROVE  NeededProof(doc) \in CheckedType \cup Custom
<1>1. parse_gate_config(doc) = "accepted"
  BY DEF ReadWhatIsThere, VerdictPy
<1>2. RequirementPy(doc)
  BY <1>1 DEF parse_gate_config, TierPy
<1>3. CASE doc["type"] = "combined"
  <2>1. NestedOkPy(doc)
    BY <1>2, <1>3 DEF RequirementPy
  <2> QED  BY <1>3, <2>1 DEF NestedOkPy, NeededProof, CheckedType, Custom
<1>4. CASE doc["type"] # "combined"
  BY <1>2, <1>4 DEF RequirementPy, TypeOkPy, NeededProof, CheckedType, Custom
<1> QED  BY <1>3, <1>4

(***************************************************************************)
(* Of a configuration the parser accepts, whatever its fields hold, the    *)
(* requirement can be met by some proof the validator accepts, with one    *)
(* exception: no proof at all opens a gate that asks for                   *)
(* standard_residency, alone or nested.  This is GateCanBeOpened with all  *)
(* the documents a client may compose in place of the samples.             *)
(***************************************************************************)
THEOREM GatesOpen == Spec => []OpensWith(Document("proof"))
<1>1. ReadWhatIsThere => OpensWith(Document("proof"))
  BY AskedForTS, ProofOfEachType, NoProofOfResidency DEF OpensWith
<1> QED  BY <1>1, ReadWhatIsThereHolds, PTL

(***************************************************************************)
(* The same of any set of proofs that has a sound one of each type the     *)
(* validator has a case for: they open every accepted gate but those that  *)
(* ask for standard_residency, and those they do not open.                 *)
(***************************************************************************)
THEOREM SamplesOpenGates == Spec => []GateCanBeOpened
<1>1. ReadWhatIsThere => GateCanBeOpened
  BY AskedForTS, SamplesAssumption, NoProofOfResidency DEF GateCanBeOpened, OpensWith
<1> QED  BY <1>1, ReadWhatIsThereHolds, PTL

(***************************************************************************)
(* A gate published at a server of one kind can be opened at one of the    *)
(* other kind: some proof shows what is asked, and both validators accept  *)
(* it.                                                                     *)
(***************************************************************************)
OpensAnywhere ==
  /\ kind = "config" /\ "accepted" \in {ts, py} /\ doc["requirements"] \in {"single", "biglist"}
  /\ NeededProof(doc) # "standard_residency"
  => \E p \in Document("proof") :
       /\ p["type"] = NeededProof(doc)
       /\ validateProofStructure(p) = "accepted" /\ validate_proof_structure(p) = "accepted"

(***************************************************************************)
(* It holds of whatever configuration either parser accepts.               *)
(***************************************************************************)
THEOREM GatesOpenAnywhere == Spec => []OpensAnywhere
<1>1. ASSUME ReadWhatIsThere, kind = "config", ts = "accepted", doc["requirements"] \in {"single", "biglist"}
      PROVE  doc["requirements"] = "single"
  <2>1. parseGateConfig(doc) = "accepted"
    BY <1>1 DEF ReadWhatIsThere, VerdictTS
  <2> QED  BY <1>1, <2>1 DEF parseGateConfig, TierTS
<1>2. ReadWhatIsThere => OpensAnywhere
  BY <1>1, AskedForTS, AskedForPy, ProofForBothPorts DEF OpensAnywhere
<1> QED  BY <1>2, ReadWhatIsThereHolds, PTL

----------------------------------------------------------------------------
(***************************************************************************)
(* Inductive: a status that follows a deal, and the counts behind it.      *)
(***************************************************************************)
Bookkeeping ==
  /\ {deals, invoices, receipts} \subseteq Nat
  /\ PaymentsAnswerInvoices
  /\ status = "accepted" => invoices < deals
  /\ status \in {"none", "open", "countered", "expired"} => deals = 0

LEMMA PortsStepAlike ==
  ASSUME NEW act \in Act, Negotiate(act), status' # status
  PROVE  /\ act \in VALID_TRANSITIONS(status)
         /\ status' = ACTION_RESULTS[act]
<1>1. status' = transition(status, act) \/ status' = transition_Py(status, act)
  BY DEF Negotiate
<1>2. CASE status' = transition(status, act)
  BY <1>2 DEF transition
<1>3. CASE status' = transition_Py(status, act)
  <2>1. status \in Status /\ act \in VALID_TRANSITIONS_Py[status] /\ status' = ACTION_RESULTS_Py[act]
    BY <1>3 DEF transition_Py
  <2>2. act \in VALID_TRANSITIONS(status)
    BY <2>1 DEF Status, VALID_TRANSITIONS_Py, VALID_TRANSITIONS
  <2>3. ACTION_RESULTS_Py[act] = ACTION_RESULTS[act]
    BY DEF ACTION_RESULTS_Py, ACTION_RESULTS
  <2> QED  BY <2>1, <2>2, <2>3
<1> QED  BY <1>1, <1>2, <1>3

LEMMA BookkeepingStep ==
  ASSUME Bookkeeping, [Next]_vars
  PROVE  Bookkeeping' /\ (deals > 0 => status' \notin {"open", "countered", "expired"} \/ UNCHANGED vars)
<1> USE DEF Bookkeeping, PaymentsAnswerInvoices
<1>1. ASSUME UNCHANGED money
      PROVE  Bookkeeping' /\ (deals > 0 => status' \notin {"open", "countered", "expired"})
  BY <1>1 DEF money
<1>2. ASSUME OpenNegotiation
      PROVE  Bookkeeping' /\ (deals > 0 => status' \notin {"open", "countered", "expired"})
  BY <1>2 DEF OpenNegotiation
<1>3. ASSUME NEW act \in Act, Negotiate(act), status' # status
      PROVE  Bookkeeping' /\ (deals > 0 => status' \notin {"open", "countered", "expired"})
  <2>1. act \in VALID_TRANSITIONS(status) /\ status' = ACTION_RESULTS[act]
    BY <1>3, PortsStepAlike
  <2>2. CASE act = "accept"
    BY <1>3, <2>1, <2>2 DEF Negotiate, VALID_TRANSITIONS, ACTION_RESULTS
  <2>3. CASE act = "invoice"
    BY <1>3, <2>1, <2>3 DEF Negotiate, VALID_TRANSITIONS, ACTION_RESULTS
  <2>4. CASE act = "receipt"
    BY <1>3, <2>1, <2>4 DEF Negotiate, VALID_TRANSITIONS, ACTION_RESULTS
  <2>5. CASE act \notin {"accept", "invoice", "receipt"}
    BY <1>3, <2>1, <2>5 DEF Negotiate, VALID_TRANSITIONS, ACTION_RESULTS, Act
  <2> QED  BY <2>2, <2>3, <2>4, <2>5
<1>4. ASSUME NEW act \in Act, Negotiate(act), status' = status
      PROVE  Bookkeeping' /\ (deals > 0 => status' \notin {"open", "countered", "expired"})
  BY <1>4 DEF Negotiate
<1>5. CASE UNCHANGED vars
  BY <1>5, <1>1 DEF vars, money
<1>6. CASE Next
  BY <1>6, <1>1, <1>2, <1>3, <1>4 DEF Next, Edit, ReadTS, ReadPy
<1> QED  BY <1>5, <1>6

(***************************************************************************)
(* However often a deal is disputed and accepted again, no invoice comes   *)
(* without its acceptance and no receipt without its invoice.              *)
(***************************************************************************)
THEOREM PaymentsAreAnswers == Spec => []PaymentsAnswerInvoices
<1>1. Init => Bookkeeping
  BY DEF Init, Bookkeeping, PaymentsAnswerInvoices
<1>2. Bookkeeping /\ [Next]_vars => Bookkeeping'
  BY BookkeepingStep
<1>3. Bookkeeping => PaymentsAnswerInvoices
  BY DEF Bookkeeping
<1> QED  BY <1>1, <1>2, <1>3, PTL DEF Spec

(***************************************************************************)
(* An accepted price is never haggled over again.                          *)
(***************************************************************************)
THEOREM DealsHold ==
  Spec => [][deals > 0 => status' \notin {"open", "countered", "expired"}]_vars
<1>1. Init => Bookkeeping
  BY DEF Init, Bookkeeping, PaymentsAnswerInvoices
<1>2. Bookkeeping /\ [Next]_vars => Bookkeeping'
  BY BookkeepingStep
<1>3. Bookkeeping /\ [Next]_vars => [deals > 0 => status' \notin {"open", "countered", "expired"}]_vars
  BY BookkeepingStep
<1> QED  BY <1>1, <1>2, <1>3, PTL DEF Spec
=============================================================================
