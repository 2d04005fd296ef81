------------------------- MODULE ComplianceRunProofs -------------------------
(***************************************************************************)
(* What a run of the compliance tool may claim, whatever the platform      *)
(* answers and however often, and whatever is posted to the receiver.      *)
(* Every probe adds verdicts of its own names; when none of them is a      *)
(* failure or a skip, they are the passes that are due by the next step.   *)
(* A run only goes forward, and what it reported it does not take back.    *)
(***************************************************************************)
EXTENDS ComplianceRun, FiniteSetTheorems, TLAPS

-----------------------------------------------------------------------------
(***************************************************************************)
(* The verdicts.                                                           *)
(***************************************************************************)
JudgeNames ==
  {"delivery", "headers", "signature", "fresh", "event schema"} \cup
  {"specversion", "id", "source", "eep extensions", "delivery"}

HelperNames == {"envelope helper", "extension helper", "headers helper"}

OtherNames ==
  {"reachable", "link", "subscription", "intent", "webhook delivery"} \cup
  {"trigger", "sse", "heartbeat", "replay", "ratelimit"} \cup
  {"policy", "x-ratelimit", "manifest", "manifest schema", "did"} \cup
  {"eep_version", "reputation", "pqc_ready", "x402_enabled", "capabilities"} \cup
  {"etag", "if-none-match", "stable", "cache-control", "encoding"} \cup
  {"forbidden", "forbidden body", "negotiation", "json", "markdown"} \cup
  {"payment", "payment body", "content-gate", "x402", "pulse"} \cup
  {"registry", "trust", "delegation", "trust", "trust"}

Status == {"pass", "fail", "skip"}

IsVerdict(v, names) == \E n \in names : v = Pass(n) \/ v = Fail(n) \/ v = Skip(n)

Named(V, names) == \A v \in V : IsVerdict(v, names)

Clean(V) == \A n : Fail(n) \notin V /\ Skip(n) \notin V

LEMMA NamedFinite ==
  ASSUME NEW names, IsFiniteSet(names), NEW V, Named(V, names)
  PROVE  IsFiniteSet(V)
<1>. DEFINE T == {[name |-> q[1], status |-> q[2]] : q \in names \X Status}
            f == [q \in names \X Status |-> [name |-> q[1], status |-> q[2]]]
<1>1. IsFiniteSet(Status)
  <2>1. IsFiniteSet({"pass"} \cup {"fail"} \cup {"skip"})
    BY FS_Singleton, FS_AddElement
  <2>2. {"pass"} \cup {"fail"} \cup {"skip"} = Status
    BY DEF Status
  <2>. QED  BY <2>1, <2>2
<1>2. IsFiniteSet(names \X Status)
  BY <1>1, FS_Product
<1>3. f \in Surjection(names \X Status, T)
  BY DEF Surjection
<1>4. IsFiniteSet(T)
  BY <1>2, <1>3, FS_Surjection
<1>5. V \subseteq T
  <2>1. ASSUME NEW v \in V PROVE v \in T
    <3>1. PICK n \in names, s \in Status : v = [name |-> n, status |-> s]
      BY DEF Named, IsVerdict, Pass, Fail, Skip, Status
    <3>2. <<n, s>> \in names \X Status /\ <<n, s>>[1] = n /\ <<n, s>>[2] = s
      BY <3>1
    <3>. QED  BY <3>1, <3>2
  <2>. QED  BY <2>1
<1>. QED  BY <1>4, <1>5, FS_Subset

LEMMA FiveFinite ==
  ASSUME NEW a, NEW b, NEW c, NEW d, NEW e
  PROVE  IsFiniteSet({a, b, c, d, e})
<1>1. IsFiniteSet({a} \cup {b})
  BY FS_Singleton, FS_AddElement
<1>2. IsFiniteSet(({a} \cup {b}) \cup {c})
  BY <1>1, FS_AddElement
<1>3. IsFiniteSet((({a} \cup {b}) \cup {c}) \cup {d})
  BY <1>2, FS_AddElement
<1>4. IsFiniteSet(((({a} \cup {b}) \cup {c}) \cup {d}) \cup {e})
  BY <1>3, FS_AddElement
<1>5. {a, b, c, d, e} = ((({a} \cup {b}) \cup {c}) \cup {d}) \cup {e}
  OBVIOUS
<1>. QED  BY <1>4, <1>5

LEMMA NamesFinite ==
  IsFiniteSet(JudgeNames) /\ IsFiniteSet(HelperNames) /\ IsFiniteSet(OtherNames)
<1>1. IsFiniteSet(HelperNames)
  <2>1. HelperNames = {"envelope helper", "extension helper", "headers helper",
                       "headers helper", "headers helper"}
    BY DEF HelperNames
  <2>. QED  BY <2>1, FiveFinite
<1>. QED  BY <1>1, FiveFinite, FS_Union DEF JudgeNames, OtherNames

-----------------------------------------------------------------------------
(***************************************************************************)
(* The verdicts that are due when a step is reached and nothing so far     *)
(* failed or was skipped.                                                  *)
(***************************************************************************)
Due(s) ==
  CASE s \in {"reachable", "hung", "fixtures", "vectors"} -> {}
    [] s = "link" -> {"reachable"}
    [] s = "subscribe" -> {"reachable", "link"}
    [] s = "intent" -> {"reachable", "link", "subscription"}
    [] s \in {"trigger", "triggering"} -> {"reachable", "link", "subscription", "intent"}
    [] s \in {"window", "judge"} -> {"reachable", "link", "subscription", "intent", "trigger"}
    [] s = "sse" -> CoreProbes
    [] s = "heartbeat" -> CoreProbes \cup {"sse"}
    [] s = "replay" -> CoreProbes \cup {"sse", "heartbeat"}
    [] s = "ratelimit" -> CoreProbes \cup {"sse", "heartbeat", "replay"}
    [] s = "manifest" -> StandardProbes
    [] s = "conditional" ->
         StandardProbes \cup {"manifest", "manifest schema", "did", "eep_version"}
    [] s = "encoding" -> FullProbes \ {"encoding"}
    [] s = "forbidden" -> FullProbes
    [] OTHER -> IF validateArgs(options) THEN Claimed ELSE {}

Opening == {"reachable", "link", "subscribe", "intent", "trigger", "triggering", "window", "judge"}

StandardSteps == {"heartbeat", "replay", "ratelimit", "manifest"}
FullSteps == {"conditional", "encoding", "forbidden"}

Middle ==
  {"sse", "negotiation", "payment", "content-gate", "x402", "pulse", "envelope"} \cup
  StandardSteps \cup FullSteps

Late == {"registry", "trust", "delegation", "summary"}

(***************************************************************************)
(* The verdicts V of the probe at step p, before the step after it.        *)
(***************************************************************************)
Good(p, next, V, names) ==
  /\ Named(V, names)
  /\ Clean(V) => \A n \in Due(next) : n \in Due(p) \/ Pass(n) \in V
  /\ p = "reachable" => Pass("reachable") \in V \/ Fail("reachable") \in V

Follows(p, next) ==
  /\ \/ p \in Opening /\ next \in Opening \cup Middle
     \/ p \in Middle /\ next \in Middle
     \/ p \in Late /\ next \in Late
     \/ p \in Opening \cup Middle /\ next = "hung"
  /\ next \in {"triggering", "window", "judge"} => p \in {"triggering", "window"}
  /\ next \in StandardSteps \cup FullSteps => Standard
  /\ next \in FullSteps => Full

(***************************************************************************)
(* A plain step keeps what was received and, once a delivery was judged,   *)
(* whether one was triggered.                                              *)
(***************************************************************************)
Keeps ==
  /\ UNCHANGED <<options, left, exit, label, written, received, posted>>
  /\ step \in Opening \/ UNCHANGED triggered
  /\ seen' = [seen EXCEPT !.stream = seen'.stream]

Plain ==
  /\ Keeps
  /\ \E p, next : \E V :
       /\ step = p /\ step' = next /\ results' = results \cup V
       /\ Follows(p, next) /\ Good(p, next, V, OtherNames)

-----------------------------------------------------------------------------
(***************************************************************************)
(* Every probe is a plain step: it goes on to a step that follows, with    *)
(* verdicts of its own names.                                              *)
(***************************************************************************)
SeenShape ==
  seen = [stream |-> seen.stream, sent |-> seen.sent, judged |-> seen.judged, by |-> seen.by]

Stage ==
  /\ step \in StandardSteps \cup FullSteps => Standard
  /\ step \in FullSteps => Full

LEMMA ProbePlain ==
  ASSUME NEW p, NEW next, NEW verdicts, Probe(p, next, verdicts), Follows(p, next),
         \A answer \in DOMAIN verdicts : Good(p, next, verdicts[answer], OtherNames), SeenShape
  PROVE  Plain
<1>1. PICK answer \in DOMAIN verdicts :
         step = p /\ results' = results \cup verdicts[answer] /\ step' = next
  BY DEF Probe, Report
<1>2. Keeps
  BY DEF Keeps, Probe, local, receiver, SeenShape
<1>. QED  BY <1>1, <1>2 DEF Plain

LEMMA SkippedPlain ==
  ASSUME NEW p, NEW next, NEW names, Skipped(p, next, names), Follows(p, next),
         Good(p, next, SkipAll(names), OtherNames), SeenShape
  PROVE  Plain
<1>1. step = p /\ results' = results \cup SkipAll(names) /\ step' = next
  BY DEF Skipped, Report
<1>2. Keeps
  BY DEF Keeps, Skipped, local, receiver, SeenShape
<1>. QED  BY <1>1, <1>2 DEF Plain

LEMMA HangPlain ==
  ASSUME NEW p, Hang(p), p \in {"link", "ratelimit"}, SeenShape
  PROVE  Plain
<1>1. step = p /\ results' = results \cup {} /\ step' = "hung"
  BY DEF Hang
<1>2. Keeps
  BY DEF Keeps, Hang, local, receiver, SeenShape
<1>3. Good(p, "hung", {}, OtherNames) /\ Follows(p, "hung")
  BY DEF Good, Named, Due, Follows, Opening, Middle, StandardSteps, FullSteps
<1>. QED  BY <1>1, <1>2, <1>3 DEF Plain

LEMMA ReachablePlain ==
  ASSUME Reachable, SeenShape, Stage
  PROVE  Plain
<1>0. step = "reachable"
  BY DEF Reachable, Probe
<1>. DEFINE verdicts == [exemplary |-> {Pass("reachable")},
                         error |-> {Fail("reachable")},
                         none |-> {Fail("reachable")}]
     G(V) == Good("reachable", "link", V, OtherNames)
<1>1. G(verdicts.exemplary)
  BY DEF Good, Named, IsVerdict, Clean, SkipAll, OtherNames, Due, CoreProbes, StandardProbes, FullProbes, Claimed, validateArgs, Standard, Full
<1>2. G(verdicts.error)
  BY DEF Good, Named, IsVerdict, Clean, SkipAll, OtherNames
<1>3. G(verdicts.none)
  BY DEF Good, Named, IsVerdict, Clean, SkipAll, OtherNames
<1>4. \A answer \in DOMAIN verdicts : G(verdicts[answer])
  <2>. HIDE DEF G
  <2>. QED  BY <1>1, <1>2, <1>3
<1>5. Follows("reachable", "link")
  BY <1>0 DEF Follows, Opening, Middle, Late, StandardSteps, FullSteps, Standard, Full, Stage
<1>. QED  BY <1>4, <1>5, ProbePlain DEF Reachable

LEMMA LinkHeaderPlain ==
  ASSUME LinkHeader, SeenShape, Stage
  PROVE  Plain
<1>1. CASE Skipped("link", "subscribe", {"link"})
  <2>1. Good("link", "subscribe", SkipAll({"link"}), OtherNames)
    BY <1>1 DEF Good, Named, IsVerdict, Clean, SkipAll, OtherNames
  <2>2. Follows("link", "subscribe")
    BY <1>1 DEF Follows, Opening, Middle, Late, StandardSteps, FullSteps, Standard, Full, Stage, Skipped
  <2>. QED  BY <1>1, <2>1, <2>2, SkippedPlain
<1>2. CASE Probe("link", "subscribe",
             [exemplary |-> {Pass("link")},
              missing |-> {Fail("link")},
              none |-> {Fail("link")}])
  <2>. DEFINE verdicts == [exemplary |-> {Pass("link")},
                           missing |-> {Fail("link")},
                           none |-> {Fail("link")}]
       G(V) == Good("link", "subscribe", V, OtherNames)
  <2>1. G(verdicts.exemplary)
    BY DEF Good, Named, IsVerdict, Clean, SkipAll, OtherNames, Due, CoreProbes, StandardProbes, FullProbes, Claimed, validateArgs, Standard, Full
  <2>2. G(verdicts.missing)
    BY DEF Good, Named, IsVerdict, Clean, SkipAll, OtherNames
  <2>3. G(verdicts.none)
    BY DEF Good, Named, IsVerdict, Clean, SkipAll, OtherNames
  <2>4. \A answer \in DOMAIN verdicts : G(verdicts[answer])
    <3>. HIDE DEF G
    <3>. QED  BY <2>1, <2>2, <2>3
  <2>5. Follows("link", "subscribe")
    BY <1>2 DEF Follows, Opening, Middle, Late, StandardSteps, FullSteps, Standard, Full, Stage, Probe
  <2>. QED  BY <1>2, <2>4, <2>5, ProbePlain
<1>3. CASE Hang("link")
  BY <1>3, HangPlain
<1>. QED  BY <1>1, <1>2, <1>3 DEF LinkHeader

LEMMA SseEndpointPlain ==
  ASSUME SseEndpoint, SeenShape, Stage
  PROVE  Plain
<1>1. CASE ~Standard /\ Skipped("sse", "negotiation", {})
  <2>1. Good("sse", "negotiation", SkipAll({}), OtherNames)
    BY <1>1 DEF Good, Named, IsVerdict, Clean, SkipAll, OtherNames, Due, CoreProbes, StandardProbes, FullProbes, Claimed, validateArgs, Standard, Full
  <2>2. Follows("sse", "negotiation")
    BY <1>1 DEF Follows, Opening, Middle, Late, StandardSteps, FullSteps, Standard, Full, Stage, Skipped
  <2>. QED  BY <1>1, <2>1, <2>2, SkippedPlain
<1>2. CASE Standard /\ Skipped("sse", "heartbeat", {"sse"})
  <2>1. Good("sse", "heartbeat", SkipAll({"sse"}), OtherNames)
    BY <1>2 DEF Good, Named, IsVerdict, Clean, SkipAll, OtherNames
  <2>2. Follows("sse", "heartbeat")
    BY <1>2 DEF Follows, Opening, Middle, Late, StandardSteps, FullSteps, Standard, Full, Stage, Skipped
  <2>. QED  BY <1>2, <2>1, <2>2, SkippedPlain
<1>3. CASE Standard /\ Probe("sse", "heartbeat",
             [exemplary |-> {Pass("sse")},
              aborted |-> {Pass("sse")},
              other |-> {Fail("sse")},
              none |-> {Fail("sse")}])
  <2>. DEFINE verdicts == [exemplary |-> {Pass("sse")},
                           aborted |-> {Pass("sse")},
                           other |-> {Fail("sse")},
                           none |-> {Fail("sse")}]
       G(V) == Good("sse", "heartbeat", V, OtherNames)
  <2>1. G(verdicts.exemplary)
    BY DEF Good, Named, IsVerdict, Clean, SkipAll, OtherNames, Due, CoreProbes, StandardProbes, FullProbes, Claimed, validateArgs, Standard, Full
  <2>2. G(verdicts.aborted)
    BY DEF Good, Named, IsVerdict, Clean, SkipAll, OtherNames, Due, CoreProbes, StandardProbes, FullProbes, Claimed, validateArgs, Standard, Full
  <2>3. G(verdicts.other)
    BY DEF Good, Named, IsVerdict, Clean, SkipAll, OtherNames
  <2>4. G(verdicts.none)
    BY DEF Good, Named, IsVerdict, Clean, SkipAll, OtherNames
  <2>5. \A answer \in DOMAIN verdicts : G(verdicts[answer])
    <3>. HIDE DEF G
    <3>. QED  BY <2>1, <2>2, <2>3, <2>4
  <2>6. Follows("sse", "heartbeat")
    BY <1>3 DEF Follows, Opening, Middle, Late, StandardSteps, FullSteps, Standard, Full, Stage, Probe
  <2>. QED  BY <1>3, <2>5, <2>6, ProbePlain
<1>. QED  BY <1>1, <1>2, <1>3 DEF SseEndpoint

LEMMA ReplayPlain ==
  ASSUME Replay, SeenShape, Stage
  PROVE  Plain
<1>0. step = "replay"
  BY DEF Replay, Probe
<1>. DEFINE verdicts == [exemplary |-> {Pass("replay")},
                         cursor |-> {Fail("replay")},
                         none |-> {Fail("replay")},
                         open |-> {Fail("replay")}]
     G(V) == Good("replay", "ratelimit", V, OtherNames)
<1>1. G(verdicts.exemplary)
  BY DEF Good, Named, IsVerdict, Clean, SkipAll, OtherNames, Due, CoreProbes, StandardProbes, FullProbes, Claimed, validateArgs, Standard, Full
<1>2. G(verdicts.cursor)
  BY DEF Good, Named, IsVerdict, Clean, SkipAll, OtherNames
<1>3. G(verdicts.none)
  BY DEF Good, Named, IsVerdict, Clean, SkipAll, OtherNames
<1>4. G(verdicts.open)
  BY DEF Good, Named, IsVerdict, Clean, SkipAll, OtherNames
<1>5. \A answer \in DOMAIN verdicts : G(verdicts[answer])
  <2>. HIDE DEF G
  <2>. QED  BY <1>1, <1>2, <1>3, <1>4
<1>6. Follows("replay", "ratelimit")
  BY <1>0 DEF Follows, Opening, Middle, Late, StandardSteps, FullSteps, Standard, Full, Stage
<1>. QED  BY <1>5, <1>6, ProbePlain DEF Replay

LEMMA RateLimitPlain ==
  ASSUME RateLimit, SeenShape, Stage
  PROVE  Plain
<1>1. CASE Skipped("ratelimit", "manifest", {"ratelimit", "policy", "x-ratelimit"})
  <2>1. Good("ratelimit", "manifest", SkipAll({"ratelimit", "policy", "x-ratelimit"}), OtherNames)
    BY <1>1 DEF Good, Named, IsVerdict, Clean, SkipAll, OtherNames
  <2>2. Follows("ratelimit", "manifest")
    BY <1>1 DEF Follows, Opening, Middle, Late, StandardSteps, FullSteps, Standard, Full, Stage, Skipped
  <2>. QED  BY <1>1, <2>1, <2>2, SkippedPlain
<1>2. CASE Probe("ratelimit", "manifest",
             [exemplary |-> {Pass("ratelimit"), Pass("policy"), Pass("x-ratelimit")},
              standard |-> {Pass("ratelimit"), Pass("policy"), Skip("x-ratelimit")},
              legacy |-> {Fail("ratelimit"), Fail("policy"), Pass("x-ratelimit")},
              none |-> {Fail("ratelimit")}])
  <2>. DEFINE verdicts == [exemplary |-> {Pass("ratelimit"), Pass("policy"), Pass("x-ratelimit")},
                           standard |-> {Pass("ratelimit"), Pass("policy"), Skip("x-ratelimit")},
                           legacy |-> {Fail("ratelimit"), Fail("policy"), Pass("x-ratelimit")},
                           none |-> {Fail("ratelimit")}]
       G(V) == Good("ratelimit", "manifest", V, OtherNames)
  <2>1. G(verdicts.exemplary)
    BY DEF Good, Named, IsVerdict, Clean, SkipAll, OtherNames, Due, CoreProbes, StandardProbes, FullProbes, Claimed, validateArgs, Standard, Full
  <2>2. G(verdicts.standard)
    BY DEF Good, Named, IsVerdict, Clean, SkipAll, OtherNames, Due, CoreProbes, StandardProbes, FullProbes, Claimed, validateArgs, Standard, Full
  <2>3. G(verdicts.legacy)
    BY DEF Good, Named, IsVerdict, Clean, SkipAll, OtherNames
  <2>4. G(verdicts.none)
    BY DEF Good, Named, IsVerdict, Clean, SkipAll, OtherNames
  <2>5. \A answer \in DOMAIN verdicts : G(verdicts[answer])
    <3>. HIDE DEF G
    <3>. QED  BY <2>1, <2>2, <2>3, <2>4
  <2>6. Follows("ratelimit", "manifest")
    BY <1>2 DEF Follows, Opening, Middle, Late, StandardSteps, FullSteps, Standard, Full, Stage, Probe
  <2>. QED  BY <1>2, <2>5, <2>6, ProbePlain
<1>3. CASE Hang("ratelimit")
  BY <1>3, HangPlain
<1>. QED  BY <1>1, <1>2, <1>3 DEF RateLimit

LEMMA EncodingPlain ==
  ASSUME Encoding, SeenShape, Stage
  PROVE  Plain
<1>0. step = "encoding"
  BY DEF Encoding, Probe
<1>. DEFINE verdicts == [exemplary |-> {Pass("encoding")},
                         identity |-> {Fail("encoding")},
                         none |-> {Fail("encoding")}]
     G(V) == Good("encoding", "forbidden", V, OtherNames)
<1>1. G(verdicts.exemplary)
  BY DEF Good, Named, IsVerdict, Clean, SkipAll, OtherNames, Due, CoreProbes, StandardProbes, FullProbes, Claimed, validateArgs, Standard, Full
<1>2. G(verdicts.identity)
  BY DEF Good, Named, IsVerdict, Clean, SkipAll, OtherNames
<1>3. G(verdicts.none)
  BY DEF Good, Named, IsVerdict, Clean, SkipAll, OtherNames
<1>4. \A answer \in DOMAIN verdicts : G(verdicts[answer])
  <2>. HIDE DEF G
  <2>. QED  BY <1>1, <1>2, <1>3
<1>5. Follows("encoding", "forbidden")
  BY <1>0 DEF Follows, Opening, Middle, Late, StandardSteps, FullSteps, Standard, Full, Stage
<1>. QED  BY <1>4, <1>5, ProbePlain DEF Encoding

LEMMA ManifestPlain ==
  ASSUME Manifest, SeenShape, Stage
  PROVE  Plain
<1>1. CASE ~Full /\ Skipped("manifest", "negotiation", {})
  <2>1. Good("manifest", "negotiation", SkipAll({}), OtherNames)
    BY <1>1 DEF Good, Named, IsVerdict, Clean, SkipAll, OtherNames, Due, CoreProbes, StandardProbes, FullProbes, Claimed, validateArgs, Standard, Full
  <2>2. Follows("manifest", "negotiation")
    BY <1>1 DEF Follows, Opening, Middle, Late, StandardSteps, FullSteps, Standard, Full, Stage, Skipped
  <2>. QED  BY <1>1, <2>1, <2>2, SkippedPlain
<1>2. CASE Full /\ Probe("manifest", "conditional",
             [exemplary |-> {Pass("manifest")} \cup {ManifestSchema(TRUE), Pass("capabilities")}
                                \cup {Pass(f) : f \in ManifestFields},
              plain |-> {Pass("manifest")} \cup {Pass(f) : f \in {"did", "eep_version"}} \cup {ManifestSchema(TRUE)} \cup
                SkipAll({"reputation", "pqc_ready", "x402_enabled", "capabilities"}),
              odd |-> {Pass("manifest")} \cup {ManifestSchema(FALSE), Fail("did"), Fail("eep_version"),
                Fail("pqc_ready"), Fail("x402_enabled")} \cup SkipAll({"reputation", "capabilities"}),
              null |-> {Pass("manifest")} \cup {ManifestSchema(FALSE), Fail("manifest")},
              missing |-> {Fail("manifest")} \cup SkipAll(ManifestFields),
              none |-> {Fail("manifest")}])
  <2>. DEFINE verdicts == [exemplary |-> {Pass("manifest")} \cup {ManifestSchema(TRUE), Pass("capabilities")}
                                \cup {Pass(f) : f \in ManifestFields},
                           plain |-> {Pass("manifest")} \cup {Pass(f) : f \in {"did", "eep_version"}} \cup {ManifestSchema(TRUE)} \cup
                SkipAll({"reputation", "pqc_ready", "x402_enabled", "capabilities"}),
                           odd |-> {Pass("manifest")} \cup {ManifestSchema(FALSE), Fail("did"), Fail("eep_version"),
                Fail("pqc_ready"), Fail("x402_enabled")} \cup SkipAll({"reputation", "capabilities"}),
                           null |-> {Pass("manifest")} \cup {ManifestSchema(FALSE), Fail("manifest")},
                           missing |-> {Fail("manifest")} \cup SkipAll(ManifestFields),
                           none |-> {Fail("manifest")}]
       G(V) == Good("manifest", "conditional", V, OtherNames)
  <2>1. G(verdicts.exemplary)
    BY DEF Good, Named, IsVerdict, Clean, SkipAll, OtherNames, Due, CoreProbes, StandardProbes, FullProbes, Claimed, validateArgs, Standard, Full, ManifestSchema, ManifestFields, Check
  <2>2. G(verdicts.plain)
    BY DEF Good, Named, IsVerdict, Clean, SkipAll, OtherNames, Due, CoreProbes, StandardProbes, FullProbes, Claimed, validateArgs, Standard, Full, ManifestSchema, ManifestFields, Check
  <2>3. G(verdicts.odd)
    BY DEF Good, Named, IsVerdict, Clean, SkipAll, OtherNames, ManifestSchema, ManifestFields, Check
  <2>4. G(verdicts.null)
    BY DEF Good, Named, IsVerdict, Clean, SkipAll, OtherNames, ManifestSchema, ManifestFields, Check
  <2>5. G(verdicts.missing)
    BY DEF Good, Named, IsVerdict, Clean, SkipAll, OtherNames, ManifestSchema, ManifestFields, Check
  <2>6. G(verdicts.none)
    BY DEF Good, Named, IsVerdict, Clean, SkipAll, OtherNames, ManifestSchema, ManifestFields, Check
  <2>7. \A answer \in DOMAIN verdicts : G(verdicts[answer])
    <3>. HIDE DEF G
    <3>. QED  BY <2>1, <2>2, <2>3, <2>4, <2>5, <2>6
  <2>8. Follows("manifest", "conditional")
    BY <1>2 DEF Follows, Opening, Middle, Late, StandardSteps, FullSteps, Standard, Full, Stage, Probe
  <2>. QED  BY <1>2, <2>7, <2>8, ProbePlain
<1>. QED  BY <1>1, <1>2 DEF Manifest

LEMMA ConditionalPlain ==
  ASSUME Conditional, SeenShape, Stage
  PROVE  Plain
<1>0. step = "conditional"
  BY DEF Conditional, Probe
<1>. DEFINE verdicts == [exemplary |-> {Pass(n) : n \in {"etag", "if-none-match", "stable", "cache-control"}},
                         resent |-> {Pass("etag"), Fail("if-none-match"), Pass("stable"), Pass("cache-control")},
                         unstable |-> {Pass("etag"), Fail("if-none-match"), Fail("stable"), Fail("cache-control")},
                         without |-> {Fail("etag"), Pass("cache-control")} \cup SkipAll({"if-none-match", "stable"}),
                         second |-> {Pass("etag"), Fail("etag")},
                         none |-> {Fail("etag")}]
     G(V) == Good("conditional", "encoding", V, OtherNames)
<1>1. G(verdicts.exemplary)
  BY DEF Good, Named, IsVerdict, Clean, SkipAll, OtherNames, Due, CoreProbes, StandardProbes, FullProbes, Claimed, validateArgs, Standard, Full
<1>2. G(verdicts.resent)
  BY DEF Good, Named, IsVerdict, Clean, SkipAll, OtherNames
<1>3. G(verdicts.unstable)
  BY DEF Good, Named, IsVerdict, Clean, SkipAll, OtherNames
<1>4. G(verdicts.without)
  BY DEF Good, Named, IsVerdict, Clean, SkipAll, OtherNames
<1>5. G(verdicts.second)
  BY DEF Good, Named, IsVerdict, Clean, SkipAll, OtherNames
<1>6. G(verdicts.none)
  BY DEF Good, Named, IsVerdict, Clean, SkipAll, OtherNames
<1>7. \A answer \in DOMAIN verdicts : G(verdicts[answer])
  <2>. HIDE DEF G
  <2>. QED  BY <1>1, <1>2, <1>3, <1>4, <1>5, <1>6
<1>8. Follows("conditional", "encoding")
  BY <1>0 DEF Follows, Opening, Middle, Late, StandardSteps, FullSteps, Standard, Full, Stage
<1>. QED  BY <1>7, <1>8, ProbePlain DEF Conditional

LEMMA ForbiddenPlain ==
  ASSUME Forbidden, SeenShape, Stage
  PROVE  Plain
<1>1. CASE Skipped("forbidden", "negotiation", {"forbidden"})
  <2>1. Good("forbidden", "negotiation", SkipAll({"forbidden"}), OtherNames)
    BY <1>1 DEF Good, Named, IsVerdict, Clean, SkipAll, OtherNames
  <2>2. Follows("forbidden", "negotiation")
    BY <1>1 DEF Follows, Opening, Middle, Late, StandardSteps, FullSteps, Standard, Full, Stage, Skipped
  <2>. QED  BY <1>1, <2>1, <2>2, SkippedPlain
<1>2. CASE Probe("forbidden", "negotiation",
             [exemplary |-> {Pass("forbidden")},
              body |-> {Skip("forbidden body")},
              other |-> {Skip("forbidden")},
              none |-> {Skip("forbidden")}])
  <2>. DEFINE verdicts == [exemplary |-> {Pass("forbidden")},
                           body |-> {Skip("forbidden body")},
                           other |-> {Skip("forbidden")},
                           none |-> {Skip("forbidden")}]
       G(V) == Good("forbidden", "negotiation", V, OtherNames)
  <2>1. G(verdicts.exemplary)
    BY DEF Good, Named, IsVerdict, Clean, SkipAll, OtherNames, Due, CoreProbes, StandardProbes, FullProbes, Claimed, validateArgs, Standard, Full
  <2>2. G(verdicts.body)
    BY DEF Good, Named, IsVerdict, Clean, SkipAll, OtherNames
  <2>3. G(verdicts.other)
    BY DEF Good, Named, IsVerdict, Clean, SkipAll, OtherNames
  <2>4. G(verdicts.none)
    BY DEF Good, Named, IsVerdict, Clean, SkipAll, OtherNames
  <2>5. \A answer \in DOMAIN verdicts : G(verdicts[answer])
    <3>. HIDE DEF G
    <3>. QED  BY <2>1, <2>2, <2>3, <2>4
  <2>6. Follows("forbidden", "negotiation")
    BY <1>2 DEF Follows, Opening, Middle, Late, StandardSteps, FullSteps, Standard, Full, Stage, Probe
  <2>. QED  BY <1>2, <2>5, <2>6, ProbePlain
<1>. QED  BY <1>1, <1>2 DEF Forbidden

LEMMA NegotiationPlain ==
  ASSUME Negotiation, SeenShape, Stage
  PROVE  Plain
<1>1. CASE Skipped("negotiation", "payment", {"negotiation"})
  <2>1. Good("negotiation", "payment", SkipAll({"negotiation"}), OtherNames)
    BY <1>1 DEF Good, Named, IsVerdict, Clean, SkipAll, OtherNames
  <2>2. Follows("negotiation", "payment")
    BY <1>1 DEF Follows, Opening, Middle, Late, StandardSteps, FullSteps, Standard, Full, Stage, Skipped
  <2>. QED  BY <1>1, <2>1, <2>2, SkippedPlain
<1>2. CASE Probe("negotiation", "payment",
             [exemplary |-> {Pass("json"), Pass("markdown")},
              json |-> {Pass("json"), Skip("markdown")},
              neither |-> {Fail("json"), Skip("markdown")},
              none |-> {Fail("negotiation")}])
  <2>. DEFINE verdicts == [exemplary |-> {Pass("json"), Pass("markdown")},
                           json |-> {Pass("json"), Skip("markdown")},
                           neither |-> {Fail("json"), Skip("markdown")},
                           none |-> {Fail("negotiation")}]
       G(V) == Good("negotiation", "payment", V, OtherNames)
  <2>1. G(verdicts.exemplary)
    BY DEF Good, Named, IsVerdict, Clean, SkipAll, OtherNames, Due, CoreProbes, StandardProbes, FullProbes, Claimed, validateArgs, Standard, Full
  <2>2. G(verdicts.json)
    BY DEF Good, Named, IsVerdict, Clean, SkipAll, OtherNames
  <2>3. G(verdicts.neither)
    BY DEF Good, Named, IsVerdict, Clean, SkipAll, OtherNames
  <2>4. G(verdicts.none)
    BY DEF Good, Named, IsVerdict, Clean, SkipAll, OtherNames
  <2>5. \A answer \in DOMAIN verdicts : G(verdicts[answer])
    <3>. HIDE DEF G
    <3>. QED  BY <2>1, <2>2, <2>3, <2>4
  <2>6. Follows("negotiation", "payment")
    BY <1>2 DEF Follows, Opening, Middle, Late, StandardSteps, FullSteps, Standard, Full, Stage, Probe
  <2>. QED  BY <1>2, <2>5, <2>6, ProbePlain
<1>. QED  BY <1>1, <1>2 DEF Negotiation

LEMMA PaymentGatePlain ==
  ASSUME PaymentGate, SeenShape, Stage
  PROVE  Plain
<1>1. CASE Skipped("payment", "content-gate", {"payment"})
  <2>1. Good("payment", "content-gate", SkipAll({"payment"}), OtherNames)
    BY <1>1 DEF Good, Named, IsVerdict, Clean, SkipAll, OtherNames
  <2>2. Follows("payment", "content-gate")
    BY <1>1 DEF Follows, Opening, Middle, Late, StandardSteps, FullSteps, Standard, Full, Stage, Skipped
  <2>. QED  BY <1>1, <2>1, <2>2, SkippedPlain
<1>2. CASE Probe("payment", "content-gate",
             [exemplary |-> {Pass("payment")},
              body |-> {Skip("payment body")},
              other |-> {Skip("payment")},
              none |-> {Skip("payment")}])
  <2>. DEFINE verdicts == [exemplary |-> {Pass("payment")},
                           body |-> {Skip("payment body")},
                           other |-> {Skip("payment")},
                           none |-> {Skip("payment")}]
       G(V) == Good("payment", "content-gate", V, OtherNames)
  <2>1. G(verdicts.exemplary)
    BY DEF Good, Named, IsVerdict, Clean, SkipAll, OtherNames, Due, CoreProbes, StandardProbes, FullProbes, Claimed, validateArgs, Standard, Full
  <2>2. G(verdicts.body)
    BY DEF Good, Named, IsVerdict, Clean, SkipAll, OtherNames
  <2>3. G(verdicts.other)
    BY DEF Good, Named, IsVerdict, Clean, SkipAll, OtherNames
  <2>4. G(verdicts.none)
    BY DEF Good, Named, IsVerdict, Clean, SkipAll, OtherNames
  <2>5. \A answer \in DOMAIN verdicts : G(verdicts[answer])
    <3>. HIDE DEF G
    <3>. QED  BY <2>1, <2>2, <2>3, <2>4
  <2>6. Follows("payment", "content-gate")
    BY <1>2 DEF Follows, Opening, Middle, Late, StandardSteps, FullSteps, Standard, Full, Stage, Probe
  <2>. QED  BY <1>2, <2>5, <2>6, ProbePlain
<1>. QED  BY <1>1, <1>2 DEF PaymentGate

LEMMA ContentGatePlain ==
  ASSUME ContentGate, SeenShape, Stage
  PROVE  Plain
<1>1. CASE Skipped("content-gate", "x402", {"content-gate"})
  <2>1. Good("content-gate", "x402", SkipAll({"content-gate"}), OtherNames)
    BY <1>1 DEF Good, Named, IsVerdict, Clean, SkipAll, OtherNames
  <2>2. Follows("content-gate", "x402")
    BY <1>1 DEF Follows, Opening, Middle, Late, StandardSteps, FullSteps, Standard, Full, Stage, Skipped
  <2>. QED  BY <1>1, <2>1, <2>2, SkippedPlain
<1>2. CASE Probe("content-gate", "x402",
             [exemplary |-> {Pass("content-gate")},
              granted |-> {Skip("content-gate")},
              none |-> {Skip("content-gate")}])
  <2>. DEFINE verdicts == [exemplary |-> {Pass("content-gate")},
                           granted |-> {Skip("content-gate")},
                           none |-> {Skip("content-gate")}]
       G(V) == Good("content-gate", "x402", V, OtherNames)
  <2>1. G(verdicts.exemplary)
    BY DEF Good, Named, IsVerdict, Clean, SkipAll, OtherNames, Due, CoreProbes, StandardProbes, FullProbes, Claimed, validateArgs, Standard, Full
  <2>2. G(verdicts.granted)
    BY DEF Good, Named, IsVerdict, Clean, SkipAll, OtherNames
  <2>3. G(verdicts.none)
    BY DEF Good, Named, IsVerdict, Clean, SkipAll, OtherNames
  <2>4. \A answer \in DOMAIN verdicts : G(verdicts[answer])
    <3>. HIDE DEF G
    <3>. QED  BY <2>1, <2>2, <2>3
  <2>5. Follows("content-gate", "x402")
    BY <1>2 DEF Follows, Opening, Middle, Late, StandardSteps, FullSteps, Standard, Full, Stage, Probe
  <2>. QED  BY <1>2, <2>4, <2>5, ProbePlain
<1>. QED  BY <1>1, <1>2 DEF ContentGate

LEMMA X402ChallengePlain ==
  ASSUME X402Challenge, SeenShape, Stage
  PROVE  Plain
<1>1. CASE Skipped("x402", "pulse", {"x402"})
  <2>1. Good("x402", "pulse", SkipAll({"x402"}), OtherNames)
    BY <1>1 DEF Good, Named, IsVerdict, Clean, SkipAll, OtherNames
  <2>2. Follows("x402", "pulse")
    BY <1>1 DEF Follows, Opening, Middle, Late, StandardSteps, FullSteps, Standard, Full, Stage, Skipped
  <2>. QED  BY <1>1, <2>1, <2>2, SkippedPlain
<1>2. CASE Probe("x402", "pulse",
             [exemplary |-> {Pass("x402")},
              incomplete |-> {Fail("x402")},
              disabled |-> {Skip("x402")},
              none |-> {Skip("x402")}])
  <2>. DEFINE verdicts == [exemplary |-> {Pass("x402")},
                           incomplete |-> {Fail("x402")},
                           disabled |-> {Skip("x402")},
                           none |-> {Skip("x402")}]
       G(V) == Good("x402", "pulse", V, OtherNames)
  <2>1. G(verdicts.exemplary)
    BY DEF Good, Named, IsVerdict, Clean, SkipAll, OtherNames, Due, CoreProbes, StandardProbes, FullProbes, Claimed, validateArgs, Standard, Full
  <2>2. G(verdicts.incomplete)
    BY DEF Good, Named, IsVerdict, Clean, SkipAll, OtherNames
  <2>3. G(verdicts.disabled)
    BY DEF Good, Named, IsVerdict, Clean, SkipAll, OtherNames
  <2>4. G(verdicts.none)
    BY DEF Good, Named, IsVerdict, Clean, SkipAll, OtherNames
  <2>5. \A answer \in DOMAIN verdicts : G(verdicts[answer])
    <3>. HIDE DEF G
    <3>. QED  BY <2>1, <2>2, <2>3, <2>4
  <2>6. Follows("x402", "pulse")
    BY <1>2 DEF Follows, Opening, Middle, Late, StandardSteps, FullSteps, Standard, Full, Stage, Probe
  <2>. QED  BY <1>2, <2>5, <2>6, ProbePlain
<1>. QED  BY <1>1, <1>2 DEF X402Challenge

LEMMA PulsePlain ==
  ASSUME Pulse, SeenShape, Stage
  PROVE  Plain
<1>0. step = "pulse"
  BY DEF Pulse, Probe
<1>. DEFINE verdicts == [exemplary |-> {Pass("pulse")},
                         other |-> {Skip("pulse")},
                         none |-> {Skip("pulse")}]
     G(V) == Good("pulse", "envelope", V, OtherNames)
<1>1. G(verdicts.exemplary)
  BY DEF Good, Named, IsVerdict, Clean, SkipAll, OtherNames, Due, CoreProbes, StandardProbes, FullProbes, Claimed, validateArgs, Standard, Full
<1>2. G(verdicts.other)
  BY DEF Good, Named, IsVerdict, Clean, SkipAll, OtherNames
<1>3. G(verdicts.none)
  BY DEF Good, Named, IsVerdict, Clean, SkipAll, OtherNames
<1>4. \A answer \in DOMAIN verdicts : G(verdicts[answer])
  <2>. HIDE DEF G
  <2>. QED  BY <1>1, <1>2, <1>3
<1>5. Follows("pulse", "envelope")
  BY <1>0 DEF Follows, Opening, Middle, Late, StandardSteps, FullSteps, Standard, Full, Stage
<1>. QED  BY <1>4, <1>5, ProbePlain DEF Pulse

LEMMA RegistryPlain ==
  ASSUME Registry, SeenShape, Stage
  PROVE  Plain
<1>0. step = "registry"
  BY DEF Registry, Probe
<1>. DEFINE verdicts == [exemplary |-> {Pass("registry")},
                         bare |-> {Skip("registry")},
                         none |-> {Skip("registry")}]
     G(V) == Good("registry", "trust", V, OtherNames)
<1>1. G(verdicts.exemplary)
  BY DEF Good, Named, IsVerdict, Clean, SkipAll, OtherNames, Due, CoreProbes, StandardProbes, FullProbes, Claimed, validateArgs, Standard, Full
<1>2. G(verdicts.bare)
  BY DEF Good, Named, IsVerdict, Clean, SkipAll, OtherNames
<1>3. G(verdicts.none)
  BY DEF Good, Named, IsVerdict, Clean, SkipAll, OtherNames
<1>4. \A answer \in DOMAIN verdicts : G(verdicts[answer])
  <2>. HIDE DEF G
  <2>. QED  BY <1>1, <1>2, <1>3
<1>5. Follows("registry", "trust")
  BY <1>0 DEF Follows, Opening, Middle, Late, StandardSteps, FullSteps, Standard, Full, Stage
<1>. QED  BY <1>4, <1>5, ProbePlain DEF Registry

LEMMA TrustStatusPlain ==
  ASSUME TrustStatus, SeenShape, Stage
  PROVE  Plain
<1>0. step = "trust"
  BY DEF TrustStatus, Probe
<1>. DEFINE verdicts == [exemplary |-> {Pass("trust")},
                         invalid |-> {Fail("trust")},
                         none |-> {Skip("trust")}]
     G(V) == Good("trust", "delegation", V, OtherNames)
<1>1. G(verdicts.exemplary)
  BY DEF Good, Named, IsVerdict, Clean, SkipAll, OtherNames, Due, CoreProbes, StandardProbes, FullProbes, Claimed, validateArgs, Standard, Full
<1>2. G(verdicts.invalid)
  BY DEF Good, Named, IsVerdict, Clean, SkipAll, OtherNames
<1>3. G(verdicts.none)
  BY DEF Good, Named, IsVerdict, Clean, SkipAll, OtherNames
<1>4. \A answer \in DOMAIN verdicts : G(verdicts[answer])
  <2>. HIDE DEF G
  <2>. QED  BY <1>1, <1>2, <1>3
<1>5. Follows("trust", "delegation")
  BY <1>0 DEF Follows, Opening, Middle, Late, StandardSteps, FullSteps, Standard, Full, Stage
<1>. QED  BY <1>4, <1>5, ProbePlain DEF TrustStatus

LEMMA DelegationPlain ==
  ASSUME Delegation, SeenShape, Stage
  PROVE  Plain
<1>0. step = "delegation"
  BY DEF Delegation, Probe
<1>. DEFINE verdicts == [exemplary |-> {Pass("delegation")},
                         invalid |-> {Skip("delegation")},
                         none |-> {Skip("delegation")}]
     G(V) == Good("delegation", "summary", V, OtherNames)
<1>1. G(verdicts.exemplary)
  BY DEF Good, Named, IsVerdict, Clean, SkipAll, OtherNames, Due, CoreProbes, StandardProbes, FullProbes, Claimed, validateArgs, Standard, Full
<1>2. G(verdicts.invalid)
  BY DEF Good, Named, IsVerdict, Clean, SkipAll, OtherNames
<1>3. G(verdicts.none)
  BY DEF Good, Named, IsVerdict, Clean, SkipAll, OtherNames
<1>4. \A answer \in DOMAIN verdicts : G(verdicts[answer])
  <2>. HIDE DEF G
  <2>. QED  BY <1>1, <1>2, <1>3
<1>5. Follows("delegation", "summary")
  BY <1>0 DEF Follows, Opening, Middle, Late, StandardSteps, FullSteps, Standard, Full, Stage
<1>. QED  BY <1>4, <1>5, ProbePlain DEF Delegation

LEMMA SubscribePlain ==
  ASSUME Subscribe, SeenShape, Stage
  PROVE  Plain
<1>1. CASE Skipped("subscribe", "trigger", {"subscription", "intent"})
  <2>1. Good("subscribe", "trigger", SkipAll({"subscription", "intent"}), OtherNames)
    BY DEF Good, Named, IsVerdict, Clean, SkipAll, OtherNames
  <2>2. Follows("subscribe", "trigger")
    BY DEF Follows, Opening, StandardSteps, FullSteps
  <2>. QED  BY <1>1, <2>1, <2>2, SkippedPlain
<1>2. CASE ~Skipped("subscribe", "trigger", {"subscription", "intent"})
  <2>1. step = "subscribe"
    BY <1>2 DEF Subscribe
  <2>2. PICK answer \in {"exemplary", "no secret", "refused", "not json"} :
          IF answer = "not json"
          THEN Report({Fail("subscription"), Fail("intent")}, "trigger")
          ELSE Report({Check("subscription", answer # "refused")}, "intent")
    BY <1>2 DEF Subscribe
  <2>3. Keeps
    BY <1>2 DEF Keeps, Subscribe, receiver, SeenShape
  <2>4. CASE answer = "not json"
    <3>. DEFINE V == {Fail("subscription"), Fail("intent")}
    <3>1. Good("subscribe", "trigger", V, OtherNames)
      BY DEF Good, Named, IsVerdict, Clean, OtherNames
    <3>2. Follows("subscribe", "trigger")
      BY DEF Follows, Opening, StandardSteps, FullSteps
    <3>3. results' = results \cup V /\ step' = "trigger"
      BY <2>2, <2>4 DEF Report
    <3>. HIDE DEF V
    <3>. QED  BY <2>1, <2>3, <3>1, <3>2, <3>3 DEF Plain
  <2>5. CASE answer # "not json"
    <3>. DEFINE V == {Check("subscription", answer # "refused")}
    <3>1. Good("subscribe", "intent", V, OtherNames)
      <4>1. CASE V = {Pass("subscription")}
        BY <4>1 DEF Good, Named, IsVerdict, OtherNames, Due
      <4>2. CASE V = {Fail("subscription")}
        BY <4>2 DEF Good, Named, IsVerdict, Clean, OtherNames
      <4>. QED  BY <4>1, <4>2 DEF Check
    <3>2. Follows("subscribe", "intent")
      BY DEF Follows, Opening, StandardSteps, FullSteps
    <3>3. results' = results \cup V /\ step' = "intent"
      BY <2>2, <2>5 DEF Report
    <3>. HIDE DEF V
    <3>. QED  BY <2>1, <2>3, <3>1, <3>2, <3>3 DEF Plain
  <2>. QED  BY <2>4, <2>5
<1>. QED  BY <1>1, <1>2

LEMMA IntentVerificationPlain ==
  ASSUME IntentVerification, SeenShape, Stage
  PROVE  Plain
<1>. DEFINE V == {Check("intent", challenged)}
<1>1. step = "intent" /\ results' = results \cup V /\ step' = "trigger"
  BY DEF IntentVerification, Report
<1>2. Keeps
  BY DEF Keeps, IntentVerification, local, receiver, SeenShape
<1>3. Good("intent", "trigger", V, OtherNames)
  <2>1. CASE V = {Pass("intent")}
    BY <2>1 DEF Good, Named, IsVerdict, OtherNames, Due
  <2>2. CASE V = {Fail("intent")}
    BY <2>2 DEF Good, Named, IsVerdict, Clean, OtherNames
  <2>. QED  BY <2>1, <2>2 DEF Check
<1>4. Follows("intent", "trigger")
  BY DEF Follows, Opening, StandardSteps, FullSteps
<1>. HIDE DEF V
<1>. QED  BY <1>1, <1>2, <1>3, <1>4 DEF Plain

LEMMA StartSkippedPlain ==
  ASSUME Skipped("trigger", "sse", {"webhook delivery"}), SeenShape, Stage
  PROVE  Plain
<1>1. Good("trigger", "sse", SkipAll({"webhook delivery"}), OtherNames)
  BY DEF Good, Named, IsVerdict, Clean, SkipAll, OtherNames
<1>2. Follows("trigger", "sse")
  BY DEF Follows, Opening, Middle, StandardSteps, FullSteps
<1>. QED  BY <1>1, <1>2, SkippedPlain

LEMMA TriggerTestDeliveryPlain ==
  ASSUME TriggerTestDelivery, SeenShape, Stage
  PROVE  Plain
<1>1. PICK accepted \in BOOLEAN :
        Report({Check("trigger", accepted)}, IF accepted THEN "window" ELSE "judge")
  BY DEF TriggerTestDelivery
<1>2. step = "triggering"
  BY DEF TriggerTestDelivery
<1>3. Keeps
  BY DEF TriggerTestDelivery, Keeps, receiver, Opening, SeenShape
<1>4. CASE accepted
  <2>1. results' = results \cup {Pass("trigger")} /\ step' = "window"
    BY <1>1, <1>4 DEF Report, Check
  <2>2. Good("triggering", "window", {Pass("trigger")}, OtherNames)
    BY DEF Good, Named, IsVerdict, OtherNames, Due
  <2>3. Follows("triggering", "window")
    BY DEF Follows, Opening, StandardSteps, FullSteps
  <2>. QED  BY <1>2, <1>3, <2>1, <2>2, <2>3 DEF Plain
<1>5. CASE ~accepted
  <2>1. results' = results \cup {Fail("trigger")} /\ step' = "judge"
    BY <1>1, <1>5 DEF Report, Check
  <2>2. Good("triggering", "judge", {Fail("trigger")}, OtherNames)
    BY DEF Good, Named, IsVerdict, Clean, OtherNames
  <2>3. Follows("triggering", "judge")
    BY DEF Follows, Opening, StandardSteps, FullSteps
  <2>. QED  BY <1>2, <1>3, <2>1, <2>2, <2>3 DEF Plain
<1>. QED  BY <1>4, <1>5

LEMMA WindowClosesPlain ==
  ASSUME WindowCloses, SeenShape, Stage
  PROVE  Plain
<1>1. step = "window" /\ results' = results \cup {} /\ step' = "judge"
  BY DEF WindowCloses
<1>2. Keeps
  BY DEF Keeps, WindowCloses, local, receiver, SeenShape
<1>3. Good("window", "judge", {}, OtherNames)
  BY DEF Good, Named, Due
<1>4. Follows("window", "judge")
  BY DEF Follows, Opening, StandardSteps, FullSteps
<1>. QED  BY <1>1, <1>2, <1>3, <1>4 DEF Plain

LEMMA ReadStreamPlain ==
  ASSUME ReadStream, SeenShape, Stage
  PROVE  Plain
<1>0. step = "heartbeat" /\ Standard
  <2>1. step = "heartbeat"
    BY DEF ReadStream, Skipped
  <2>. QED  BY <2>1 DEF Stage, StandardSteps
<1>a. Follows("heartbeat", "ratelimit") /\ Follows("heartbeat", "replay")
  BY <1>0 DEF Follows, Middle, StandardSteps, FullSteps
<1>b. Good("heartbeat", "ratelimit", SkipAll({"heartbeat", "replay"}), OtherNames)
  BY DEF Good, Named, IsVerdict, Clean, SkipAll, OtherNames
<1>1. CASE Skipped("heartbeat", "ratelimit", {"heartbeat", "replay"})
  BY <1>1, <1>a, <1>b, SkippedPlain
<1>2. CASE ~Skipped("heartbeat", "ratelimit", {"heartbeat", "replay"})
  <2>1. PICK stream \in Stream :
          /\ seen' = [seen EXCEPT !.stream = stream]
          /\ LET sample == readStream(stream) IN
               IF sample = Nothing THEN Report(SkipAll({"heartbeat", "replay"}), "ratelimit")
               ELSE IF sample.ids THEN Report({Check("heartbeat", sample.heartbeat)}, "replay")
               ELSE Report({Check("heartbeat", sample.heartbeat), Skip("replay")}, "ratelimit")
    BY <1>2 DEF ReadStream
  <2>2. Keeps
    BY <1>2, <2>1 DEF Keeps, ReadStream, receiver, SeenShape
  <2>3. \/ Report(SkipAll({"heartbeat", "replay"}), "ratelimit")
        \/ Report({Pass("heartbeat")}, "replay")
        \/ Report({Fail("heartbeat")}, "replay")
        \/ \E v : Report({v, Skip("replay")}, "ratelimit") /\ v \in {Pass("heartbeat"), Fail("heartbeat")}
    BY <2>1 DEF Check
  <2>4. Good("heartbeat", "replay", {Pass("heartbeat")}, OtherNames)
    BY DEF Good, Named, IsVerdict, OtherNames, Due
  <2>5. Good("heartbeat", "replay", {Fail("heartbeat")}, OtherNames)
    BY DEF Good, Named, IsVerdict, Clean, OtherNames
  <2>6. \A v \in {Pass("heartbeat"), Fail("heartbeat")} :
          Good("heartbeat", "ratelimit", {v, Skip("replay")}, OtherNames)
    BY DEF Good, Named, IsVerdict, Clean, OtherNames
  <2>7. \E next \in {"replay", "ratelimit"} : \E V :
          Report(V, next) /\ Good("heartbeat", next, V, OtherNames)
    BY <1>b, <2>3, <2>4, <2>5, <2>6
  <2>. QED  BY <1>0, <1>a, <2>2, <2>7 DEF Plain, Report
<1>. QED  BY <1>1, <1>2

-----------------------------------------------------------------------------
(***************************************************************************)
(* The inductive invariant: first what holds of any run.                   *)
(***************************************************************************)
Verdicts == \A v \in results : v \in {Pass(v.name), Fail(v.name), Skip(v.name)}

Bounded ==
  /\ options \in Options
  /\ {subscription, challenged, triggered} \subseteq BOOLEAN
  /\ posted \in 0 .. MaxWebhooks /\ deviations \in 0 .. MaxDeviations
  /\ left \subseteq Vectors

Recorded ==
  /\ Verdicts /\ IsFiniteSet(results)
  /\ SeenShape
  /\ received \in Webhooks \cup {NoWebhook} /\ seen.judged \in Webhooks \cup {NoWebhook}
  /\ step # "exited" => exit = Running /\ written = NoReport
  /\ step = "exited" => exit \in 0 .. 2 /\ written \in {NoReport, toAuditReport}

(***************************************************************************)
(* A live run: the way through the probes, and the verdicts that are due.  *)
(***************************************************************************)
Path == step \in Opening \cup Middle \cup Late \cup {"reports", "exited", "hung"} /\ Stage

Earned == Clean(results) => \A n \in Due(step) : Pass(n) \in results

Began == step # "reachable" => Pass("reachable") \in results \/ Fail("reachable") \in results

(***************************************************************************)
(* Before the delivery is judged nothing is said of one; what is judged    *)
(* came since the receiver was reset; and the verdicts are those of it.    *)
(***************************************************************************)
Unsaid(names) == \A n \in names : Pass(n) \notin results /\ Fail(n) \notin results

Unjudged == step \in Opening => seen.judged = NoWebhook /\ Unsaid(JudgeNames)

Awaited ==
  step \in {"triggering", "window", "judge"} => received = NoWebhook \/ received \in seen.sent

Evidence ==
  Pass("signature") \in results \/ Fail("signature") \in results =>
    /\ triggered /\ seen.judged \in seen.sent
    /\ Pass("signature") \in results => seen.judged.signed /\ seen.judged.headers = WebhookHeaders

AsJudged ==
  triggered /\ seen.judged # NoWebhook =>
    /\ Pass("eep extensions") \in results <=> "eep_version" \in seen.judged.attributes
    /\ Pass("headers") \in results <=> seen.judged.headers = WebhookHeaders
    /\ \A n \in {"specversion", "id", "source"} :
         Pass(n) \in results <=> n \in seen.judged.attributes

(***************************************************************************)
(* The helpers speak after the last webhook was let in.  If none came      *)
(* since the delivery was judged, they speak of the same webhook.          *)
(***************************************************************************)
Unhelped == step \in Opening \cup Middle => Unsaid(HelperNames)

SinceJudged ==
  seen.judged # NoWebhook =>
    /\ seen.by \in Nat /\ seen.by <= posted
    /\ posted = seen.by => received = seen.judged

AsHelped ==
  /\ seen.judged # NoWebhook /\ posted = seen.by
  /\ Pass("extension helper") \in results \/ Fail("extension helper") \in results
  =>
    /\ Pass("extension helper") \in results <=> "eep_version" \in seen.judged.attributes
    /\ Pass("headers helper") \in results <=> seen.judged.headers = WebhookHeaders
    /\ Pass("envelope helper") \in results =>
         {"specversion", "id", "source"} \subseteq seen.judged.attributes

Closing ==
  /\ step \notin {"reports", "exited"} => label = "none"
  /\ step \in {"reports", "exited"} => label = conformanceLabel
  /\ step = "exited" => exit = ExitCode \/ options.reports

Judgement == Unjudged /\ Awaited /\ Evidence /\ AsJudged /\ Unhelped /\ SinceJudged /\ AsHelped

Live == ~options.fixtures => Path /\ Earned /\ Began /\ Judgement /\ Closing

(***************************************************************************)
(* Offline: nothing is judged, and no vector goes without its verdict.      *)
(***************************************************************************)
Replayed == \A v \in Vectors \ left : runFixture(v) \in results

Offline ==
  options.fixtures =>
    /\ step \in {"fixtures", "vectors", "reports", "exited"} /\ label = "none"
    /\ seen.judged = NoWebhook
    /\ step = "fixtures" => left = Vectors
    /\ step = "reports" => left = {}
    /\ Replayed
    /\ step = "exited" => exit = 2 \/ (left = {} /\ exit \in {1, ExitCode})

IInv == Bounded /\ Recorded /\ Live /\ Offline

-----------------------------------------------------------------------------
(***************************************************************************)
(* Counting verdicts.                                                      *)
(***************************************************************************)
LEMMA PassedFailed ==
  ASSUME Verdicts
  PROVE  \A n : (n \in Passed <=> Pass(n) \in results) /\ (n \in Failed <=> Fail(n) \in results)
<1>. TAKE n
<1>1. n \in Passed <=> Pass(n) \in results
  <2>1. ASSUME n \in Passed PROVE Pass(n) \in results
    <3>1. PICK v \in results : v.status = "pass" /\ v.name = n
      BY <2>1 DEF Passed
    <3>2. v = Pass(v.name)
      BY <3>1 DEF Verdicts, Pass, Fail, Skip
    <3>. QED  BY <3>1, <3>2
  <2>2. ASSUME Pass(n) \in results PROVE n \in Passed
    <3>1. Pass(n).status = "pass" /\ Pass(n).name = n
      BY DEF Pass
    <3>. QED  BY <2>2, <3>1 DEF Passed
  <2>. QED  BY <2>1, <2>2
<1>2. n \in Failed <=> Fail(n) \in results
  <2>1. ASSUME n \in Failed PROVE Fail(n) \in results
    <3>1. PICK v \in results : v.status = "fail" /\ v.name = n
      BY <2>1 DEF Failed
    <3>2. v = Fail(v.name)
      BY <3>1 DEF Verdicts, Pass, Fail, Skip
    <3>. QED  BY <3>1, <3>2
  <2>2. ASSUME Fail(n) \in results PROVE n \in Failed
    <3>1. Fail(n).status = "fail" /\ Fail(n).name = n
      BY DEF Fail
    <3>. QED  BY <2>2, <3>1 DEF Failed
  <2>. QED  BY <2>1, <2>2
<1>. QED  BY <1>1, <1>2

LEMMA Counting ==
  ASSUME IsFiniteSet(results), NEW status
  PROVE  /\ Summary(status) \in Nat
         /\ Summary(status) = 0 <=> \A r \in results : r.status # status
<1>. DEFINE T == {r \in results : r.status = status}
<1>1. IsFiniteSet(T)
  BY FS_Subset
<1>2. Cardinality(T) \in Nat /\ (Cardinality(T) = 0 <=> T = {})
  BY <1>1, FS_CardinalityType, FS_EmptySet
<1>. QED  BY <1>2 DEF Summary

LEMMA CleanCount ==
  ASSUME IsFiniteSet(results), Verdicts
  PROVE  /\ Summary("fail") = 0 /\ Summary("skip") = 0 => Clean(results)
         /\ Summary("fail") = 0 <=> Failed = {}
<1>1. Summary("fail") = 0 <=> \A r \in results : r.status # "fail"
  BY Counting
<1>2. Summary("skip") = 0 <=> \A r \in results : r.status # "skip"
  BY Counting
<1>3. \A n : Fail(n).status = "fail" /\ Skip(n).status = "skip"
  BY DEF Fail, Skip
<1>4. Failed = {} <=> \A r \in results : r.status # "fail"
  BY DEF Failed
<1>. QED  BY <1>1, <1>2, <1>3, <1>4 DEF Clean

-----------------------------------------------------------------------------
(***************************************************************************)
(* Adding verdicts of some names leaves what was said of the others.       *)
(***************************************************************************)
LEMMA VerdictsGrow ==
  ASSUME Verdicts, IsFiniteSet(results), NEW V, NEW names, IsFiniteSet(names), Named(V, names),
         results' = results \cup V
  PROVE  Verdicts' /\ IsFiniteSet(results)'
<1>1. IsFiniteSet(V)
  BY NamedFinite
<1>2. IsFiniteSet(results')
  BY <1>1, FS_Union
<1>3. \A v \in V : v \in {Pass(v.name), Fail(v.name), Skip(v.name)}
  BY DEF Named, IsVerdict, Pass, Fail, Skip
<1>4. Verdicts'
  BY <1>3 DEF Verdicts
<1>. QED  BY <1>2, <1>4

LEMMA Unaffected ==
  ASSUME NEW V, NEW names, Named(V, names), results' = results \cup V, NEW n, n \notin names
  PROVE  /\ Pass(n) \in results' <=> Pass(n) \in results
         /\ Fail(n) \in results' <=> Fail(n) \in results
<1>1. \A m \in names : \A v : v = Pass(m) \/ v = Fail(m) \/ v = Skip(m) => v.name = m
  BY DEF Pass, Fail, Skip
<1>2. Pass(n).name = n /\ Fail(n).name = n
  BY DEF Pass, Fail
<1>3. Pass(n) \notin V /\ Fail(n) \notin V
  BY <1>1, <1>2 DEF Named, IsVerdict
<1>. QED  BY <1>3

LEMMA NamesApart ==
  /\ \A n \in JudgeNames : n \notin OtherNames /\ n \notin HelperNames
  /\ \A n \in HelperNames : n \notin OtherNames
<1>1. \A n \in HelperNames : n \notin OtherNames
  BY DEF HelperNames, OtherNames
<1>2. \A n \in JudgeNames : n \notin HelperNames
  BY DEF HelperNames, JudgeNames
<1>3. \A n \in JudgeNames : n \notin OtherNames
  BY DEF JudgeNames, OtherNames
<1>. QED  BY <1>1, <1>2, <1>3

LEMMA StepsApart ==
  /\ \A s \in Middle : s \notin Opening
  /\ \A s \in Late : s \notin Opening \cup Middle
  /\ \A s \in Opening \cup Middle \cup Late : s \notin {"hung", "reports", "exited"}
  /\ "hung" \notin Opening \cup Middle \cup Late
<1>1. \A s \in Middle : s \notin Opening
  BY DEF Middle, Opening, StandardSteps, FullSteps
<1>2. \A s \in Late : s \notin Opening \cup Middle
  BY DEF Late, Middle, Opening, StandardSteps, FullSteps
<1>3. \A s \in Opening \cup Middle \cup Late : s \notin {"hung", "reports", "exited"}
  BY DEF Late, Middle, Opening, StandardSteps, FullSteps
<1>. QED  BY <1>1, <1>2, <1>3

LEMMA SeenKept ==
  ASSUME SeenShape, seen' = [seen EXCEPT !.stream = seen'.stream]
  PROVE  SeenShape' /\ seen'.sent = seen.sent /\ seen'.judged = seen.judged /\ seen'.by = seen.by
BY DEF SeenShape

LEMMA DueKept ==
  ASSUME UNCHANGED options, NEW next, step' = next
  PROVE  Due(step)' = Due(next)
BY DEF Due, validateArgs, Claimed

-----------------------------------------------------------------------------
(***************************************************************************)
(* A plain step keeps the invariant.                                       *)
(***************************************************************************)
LEMMA PlainKeepsRecorded ==
  ASSUME Recorded, Path, Plain
  PROVE  Recorded'
<1>1. PICK p, next, V :
        /\ step = p /\ step' = next /\ results' = results \cup V
        /\ Follows(p, next) /\ Good(p, next, V, OtherNames)
  BY DEF Plain
<1>2. Verdicts' /\ IsFiniteSet(results)'
  BY <1>1, VerdictsGrow, NamesFinite DEF Recorded, Good
<1>3. SeenShape' /\ seen'.judged = seen.judged
  BY SeenKept DEF Recorded, Plain, Keeps
<1>4. step # "exited" /\ step' # "exited"
  BY <1>1, StepsApart DEF Follows
<1>5. exit' = Running /\ written' = NoReport /\ received' = received
  BY <1>4 DEF Recorded, Plain, Keeps
<1>. QED  BY <1>2, <1>3, <1>4, <1>5 DEF Recorded

LEMMA PlainKeepsPath ==
  ASSUME Path, Plain
  PROVE  Path'
<1>1. PICK p, next : step = p /\ step' = next /\ Follows(p, next)
  BY DEF Plain
<1>2. step' \in Opening \cup Middle \cup Late \cup {"hung"}
  BY <1>1 DEF Follows
<1>3. UNCHANGED options
  BY DEF Plain, Keeps
<1>4. Stage'
  BY <1>1, <1>3 DEF Follows, Stage, Standard, Full
<1>. QED  BY <1>2, <1>4 DEF Path

LEMMA PlainKeepsEarned ==
  ASSUME Earned, Began, Plain
  PROVE  Earned' /\ Began'
<1>1. PICK p, next, V :
        /\ step = p /\ step' = next /\ results' = results \cup V
        /\ Follows(p, next) /\ Good(p, next, V, OtherNames)
  BY DEF Plain
<1>2. Due(step)' = Due(next)
  BY <1>1, DueKept DEF Plain, Keeps
<1>3. Clean(results') => Clean(results) /\ Clean(V)
  BY <1>1 DEF Clean
<1>4. Clean(results)' => \A n \in Due(next) : Pass(n) \in results'
  <2>1. SUFFICES ASSUME Clean(results') PROVE \A n \in Due(next) : Pass(n) \in results'
    BY DEF Clean
  <2>2. \A n \in Due(p) : Pass(n) \in results
    BY <1>1, <1>3, <2>1 DEF Earned
  <2>3. \A n \in Due(next) : n \in Due(p) \/ Pass(n) \in V
    BY <1>1, <1>3, <2>1 DEF Good
  <2>. QED  BY <1>1, <2>2, <2>3
<1>5. Earned'
  BY <1>2, <1>4 DEF Earned
<1>6. Began'
  BY <1>1 DEF Began, Good
<1>. QED  BY <1>5, <1>6

LEMMA PlainKeepsJudgement ==
  ASSUME Path, Judgement, SeenShape, Plain
  PROVE  Judgement'
<1>1. PICK p, next, V :
        /\ step = p /\ step' = next /\ results' = results \cup V
        /\ Follows(p, next) /\ Good(p, next, V, OtherNames)
  BY DEF Plain
<1>2. /\ \A n \in JudgeNames \cup HelperNames :
           /\ Pass(n) \in results' <=> Pass(n) \in results
           /\ Fail(n) \in results' <=> Fail(n) \in results
  <2>1. Named(V, OtherNames)
    BY <1>1 DEF Good
  <2>. QED  BY <1>1, <2>1, NamesApart, Unaffected
<1>3. \A n \in {"signature", "eep extensions", "headers", "specversion", "id", "source"} : n \in JudgeNames
  BY DEF JudgeNames
<1>4. \A n \in {"extension helper", "headers helper", "envelope helper"} : n \in HelperNames
  BY DEF HelperNames
<1>5. /\ UNCHANGED <<received, posted>>
      /\ seen'.sent = seen.sent /\ seen'.judged = seen.judged /\ seen'.by = seen.by
  BY SeenKept DEF Plain, Keeps
<1>6. step' \in Opening => step \in Opening
  BY <1>1, StepsApart DEF Follows
<1>7. step' \in Opening \cup Middle => step \in Opening \cup Middle
  BY <1>1, StepsApart DEF Follows
<1>8. step \notin Opening => triggered' = triggered
  BY DEF Plain, Keeps
<1>9. Unjudged'
  BY <1>2, <1>5, <1>6 DEF Judgement, Unjudged, Unsaid
<1>10. Awaited'
  <2>1. step' \in {"triggering", "window", "judge"} => step \in {"triggering", "window"}
    BY <1>1 DEF Follows
  <2>. QED  BY <1>5, <2>1 DEF Judgement, Awaited
<1>11. Evidence'
  <2>1. /\ Pass("signature") \in results' <=> Pass("signature") \in results
        /\ Fail("signature") \in results' <=> Fail("signature") \in results
    BY <1>2, <1>3
  <2>2. Pass("signature") \in results \/ Fail("signature") \in results => triggered' = triggered
    BY <1>3, <1>8 DEF Judgement, Unjudged, Unsaid
  <2>. QED  BY <1>5, <2>1, <2>2 DEF Judgement, Evidence
<1>12. AsJudged'
  <2>1. \A n \in {"signature", "eep extensions", "headers", "specversion", "id", "source"} :
          Pass(n) \in results' <=> Pass(n) \in results
    BY <1>2, <1>3
  <2>2. seen.judged # NoWebhook => triggered' = triggered
    BY <1>8 DEF Judgement, Unjudged
  <2>3. AsJudged
    BY DEF Judgement
  <2>. QED  BY <1>5, <2>1, <2>2, <2>3 DEF AsJudged
<1>13. Unhelped'
  BY <1>2, <1>7 DEF Judgement, Unhelped, Unsaid
<1>14. SinceJudged'
  BY <1>5 DEF Judgement, SinceJudged
<1>15. AsHelped'
  <2>1. \A n \in {"extension helper", "headers helper", "envelope helper"} :
          /\ Pass(n) \in results' <=> Pass(n) \in results
          /\ Fail(n) \in results' <=> Fail(n) \in results
    BY <1>2, <1>4
  <2>2. AsHelped
    BY DEF Judgement
  <2>. QED  BY <1>5, <2>1, <2>2 DEF AsHelped
<1>. QED  BY <1>9, <1>10, <1>11, <1>12, <1>13, <1>14, <1>15 DEF Judgement

LEMMA PlainKeepsClosing ==
  ASSUME Path, Closing, Plain
  PROVE  Closing'
<1>1. PICK p, next : step = p /\ step' = next /\ Follows(p, next)
  BY DEF Plain
<1>2. step \notin {"reports", "exited"} /\ step' \notin {"reports", "exited"}
  BY <1>1, StepsApart DEF Follows
<1>. QED  BY <1>2 DEF Closing, Plain, Keeps

-----------------------------------------------------------------------------
(***************************************************************************)
(* The counters stay in their bounds, and the flags are Boolean.           *)
(***************************************************************************)
LEMMA AnswerBounded ==
  ASSUME NEW exemplary, Answer(exemplary), deviations \in 0 .. MaxDeviations
  PROVE  deviations' \in 0 .. MaxDeviations
BY ComplianceAssumption DEF Answer

LEMMA ProbeBounded ==
  ASSUME Bounded, NEW p, NEW next, NEW verdicts, Probe(p, next, verdicts)
  PROVE  Bounded' /\ options' = options
<1>1. PICK answer \in DOMAIN verdicts : Answer(answer = "exemplary")
  BY DEF Probe
<1>2. deviations' \in 0 .. MaxDeviations
  BY <1>1, AnswerBounded DEF Bounded
<1>. QED  BY <1>2 DEF Bounded, Probe, local, receiver

LEMMA SkippedBounded ==
  ASSUME Bounded, NEW p, NEW next, NEW names, Skipped(p, next, names)
  PROVE  Bounded' /\ options' = options
BY DEF Bounded, Skipped, local, receiver

LEMMA HangBounded ==
  ASSUME Bounded, NEW p, Hang(p)
  PROVE  Bounded' /\ options' = options
<1>1. deviations' \in 0 .. MaxDeviations
  BY AnswerBounded DEF Bounded, Hang
<1>. QED  BY <1>1 DEF Bounded, Hang, local, receiver

LEMMA BoundedStep ==
  ASSUME Bounded, [Next]_vars
  PROVE  Bounded' /\ options' = options
<1>1. CASE Reachable
  BY <1>1, ProbeBounded DEF Reachable
<1>2. CASE LinkHeader
  BY <1>2, ProbeBounded, SkippedBounded, HangBounded DEF LinkHeader
<1>3. CASE Subscribe
  <2>1. CASE Skipped("subscribe", "trigger", {"subscription", "intent"})
    BY <2>1, SkippedBounded
  <2>2. CASE ~Skipped("subscribe", "trigger", {"subscription", "intent"})
    <3>1. PICK answer : Answer(answer = "exemplary") /\ subscription' = (answer = "exemplary")
      BY <1>3, <2>2 DEF Subscribe
    <3>2. deviations' \in 0 .. MaxDeviations
      BY <3>1, AnswerBounded DEF Bounded
    <3>. QED  BY <1>3, <2>2, <3>1, <3>2 DEF Subscribe, Bounded, receiver
  <2>. QED  BY <2>1, <2>2
<1>4. CASE IntentVerification
  BY <1>4 DEF IntentVerification, Bounded, local, receiver
<1>5. CASE StartTestDelivery
  BY <1>5, SkippedBounded DEF StartTestDelivery, Bounded, receiver
<1>6. CASE TriggerTestDelivery
  <2>1. PICK accepted \in BOOLEAN : Answer(accepted) /\ triggered' = accepted
    BY <1>6 DEF TriggerTestDelivery
  <2>2. deviations' \in 0 .. MaxDeviations
    BY <2>1, AnswerBounded DEF Bounded
  <2>. QED  BY <1>6, <2>1, <2>2 DEF TriggerTestDelivery, Bounded, receiver
<1>7. CASE WindowCloses
  BY <1>7 DEF WindowCloses, Bounded, local, receiver
<1>8. CASE JudgeDelivery
  BY <1>8 DEF JudgeDelivery, Bounded, local, receiver
<1>9. CASE SseEndpoint
  BY <1>9, ProbeBounded, SkippedBounded DEF SseEndpoint
<1>10. CASE ReadStream
  <2>1. CASE Skipped("heartbeat", "ratelimit", {"heartbeat", "replay"})
    BY <2>1, SkippedBounded
  <2>2. CASE ~Skipped("heartbeat", "ratelimit", {"heartbeat", "replay"})
    <3>1. PICK stream : Answer(stream = Exemplary)
      BY <1>10, <2>2 DEF ReadStream
    <3>2. deviations' \in 0 .. MaxDeviations
      BY <3>1, AnswerBounded DEF Bounded
    <3>. QED  BY <1>10, <2>2, <3>2 DEF ReadStream, Bounded, receiver
  <2>. QED  BY <2>1, <2>2
<1>11. CASE Replay
  BY <1>11, ProbeBounded DEF Replay
<1>12. CASE RateLimit
  BY <1>12, ProbeBounded, SkippedBounded, HangBounded DEF RateLimit
<1>13. CASE Manifest
  BY <1>13, ProbeBounded, SkippedBounded DEF Manifest
<1>14. CASE Conditional
  BY <1>14, ProbeBounded DEF Conditional
<1>15. CASE Encoding
  BY <1>15, ProbeBounded DEF Encoding
<1>16. CASE Forbidden
  BY <1>16, ProbeBounded, SkippedBounded DEF Forbidden
<1>17. CASE Negotiation
  BY <1>17, ProbeBounded, SkippedBounded DEF Negotiation
<1>18. CASE PaymentGate
  BY <1>18, ProbeBounded, SkippedBounded DEF PaymentGate
<1>19. CASE ContentGate
  BY <1>19, ProbeBounded, SkippedBounded DEF ContentGate
<1>20. CASE X402Challenge
  BY <1>20, ProbeBounded, SkippedBounded DEF X402Challenge
<1>21. CASE Pulse
  BY <1>21, ProbeBounded DEF Pulse
<1>22. CASE EnvelopeHelpers
  BY <1>22 DEF EnvelopeHelpers, Bounded, local, receiver
<1>23. CASE Registry
  BY <1>23, ProbeBounded DEF Registry
<1>24. CASE TrustStatus
  BY <1>24, ProbeBounded DEF TrustStatus
<1>25. CASE Delegation
  BY <1>25, ProbeBounded DEF Delegation
<1>26. CASE Summarise
  BY <1>26 DEF Summarise, Bounded, local, receiver
<1>27. CASE WriteReports
  <2>1. deviations' \in 0 .. MaxDeviations
    BY <1>27, AnswerBounded DEF Bounded, WriteReports
  <2>. QED  BY <1>27, <2>1 DEF WriteReports, Bounded, receiver
<1>28. CASE findFixturesDir
  <2>1. PICK found \in BOOLEAN : Answer(found)
    BY <1>28 DEF findFixturesDir
  <2>2. deviations' \in 0 .. MaxDeviations
    BY <2>1, AnswerBounded DEF Bounded
  <2>. QED  BY <1>28, <2>2 DEF findFixturesDir, Bounded, receiver
<1>29. CASE runFixtures
  BY <1>29 DEF runFixtures, Bounded, local, receiver
<1>30. CASE \E w \in Webhooks : ReceiveWebhook(w)
  BY <1>30, ComplianceAssumption DEF ReceiveWebhook, Bounded
<1>31. CASE ReceiveChallenge
  BY <1>31 DEF ReceiveChallenge, Bounded
<1>32. CASE UNCHANGED vars
  BY <1>32 DEF vars, Bounded
<1>. QED  BY <1>1, <1>2, <1>3, <1>4, <1>5, <1>6, <1>7, <1>8, <1>9, <1>10, <1>11, <1>12, <1>13, <1>14, <1>15, <1>16,
         <1>17, <1>18, <1>19, <1>20, <1>21, <1>22, <1>23, <1>24, <1>25, <1>26, <1>27, <1>28, <1>29, <1>30, <1>31, <1>32 DEF Next, Run

-----------------------------------------------------------------------------
(***************************************************************************)
(* Two verdicts are the same if they have the same name and status.        *)
(***************************************************************************)
LEMMA VerdictsApart ==
  \A m, n : /\ Pass(m) = Pass(n) <=> m = n
            /\ Fail(m) = Fail(n) <=> m = n
            /\ Pass(m) # Fail(n) /\ Pass(m) # Skip(n) /\ Fail(m) # Skip(n)
<1>. TAKE m, n
<1>1. Pass(m).name = m /\ Fail(m).name = m /\ Pass(n).name = n /\ Fail(n).name = n
  BY DEF Pass, Fail
<1>2. /\ Pass(m).status = "pass" /\ Fail(m).status = "fail"
      /\ Fail(n).status = "fail" /\ Skip(n).status = "skip"
  BY DEF Pass, Fail, Skip
<1>. QED  BY <1>1, <1>2

LEMMA Checked ==
  \A m, n, b : /\ Pass(m) = Check(n, b) <=> m = n /\ b
               /\ Fail(m) = Check(n, b) <=> m = n /\ ~b
BY VerdictsApart DEF Check

(***************************************************************************)
(* What is said of a delivery w.                                           *)
(***************************************************************************)
Judged(w) == {Pass("delivery")} \cup SignatureVerdicts(w) \cup EnvelopeVerdicts(w)

LEMMA JudgedNamed ==
  ASSUME NEW w
  PROVE  Named(Judged(w), JudgeNames)
<1>1. Named({Pass("delivery")}, JudgeNames)
  BY DEF Named, IsVerdict, JudgeNames
<1>2. Named(SignatureVerdicts(w), JudgeNames)
  BY DEF Named, IsVerdict, JudgeNames, SignatureVerdicts, Check
<1>3. Named(EnvelopeVerdicts(w), JudgeNames)
  BY DEF Named, IsVerdict, JudgeNames, EnvelopeVerdicts, Check
<1>. QED  BY <1>1, <1>2, <1>3 DEF Judged, Named

LEMMA JudgedSignature ==
  ASSUME NEW w
  PROVE  /\ Pass("signature") \in Judged(w) => w.signed /\ w.headers = WebhookHeaders
         /\ Pass("headers") \in Judged(w) <=> w.headers = WebhookHeaders
<1>1. \A n : Pass(n) \in EnvelopeVerdicts(w) => n \notin {"signature", "headers"}
  BY DEF EnvelopeVerdicts, Check, Pass, Fail, Skip
<1>2. /\ Pass("signature") \in SignatureVerdicts(w) => w.signed /\ w.headers = WebhookHeaders
      /\ Pass("headers") \in SignatureVerdicts(w) <=> w.headers = WebhookHeaders
  BY VerdictsApart, Checked DEF SignatureVerdicts
<1>3. Pass("signature") # Pass("delivery") /\ Pass("headers") # Pass("delivery")
  BY VerdictsApart
<1>. QED  BY <1>1, <1>2, <1>3 DEF Judged

LEMMA JudgedAttributes ==
  ASSUME NEW w
  PROVE  /\ Pass("eep extensions") \in Judged(w) <=> "eep_version" \in w.attributes
         /\ \A n \in {"specversion", "id", "source"} : Pass(n) \in Judged(w) <=> n \in w.attributes
<1>1. \A n \in {"eep extensions", "specversion", "id", "source"} :
        Pass(n) \notin SignatureVerdicts(w) /\ Pass(n) # Pass("delivery")
  BY DEF SignatureVerdicts, Check, Pass, Fail
<1>2. /\ Pass("eep extensions") \in EnvelopeVerdicts(w) <=> "eep_version" \in w.attributes
      /\ Pass("specversion") \in EnvelopeVerdicts(w) <=> "specversion" \in w.attributes
      /\ Pass("id") \in EnvelopeVerdicts(w) <=> "id" \in w.attributes
      /\ Pass("source") \in EnvelopeVerdicts(w) <=> "source" \in w.attributes
  BY DEF EnvelopeVerdicts, Check, Pass, Fail, Skip
<1>. QED  BY <1>1, <1>2 DEF Judged

(***************************************************************************)
(* If none of it is a failure, everything due of a delivery has passed.    *)
(***************************************************************************)
LEMMA JudgedClean ==
  ASSUME NEW w, Clean(Judged(w))
  PROVE  \A n \in JudgeNames : Pass(n) \in Judged(w)
<1>1. \A n, b : Check(n, b) \in Judged(w) => Pass(n) \in Judged(w)
  BY DEF Check, Clean
<1>2. /\ Pass("delivery") \in Judged(w) /\ Pass("headers") \in Judged(w)
      /\ Check("signature", w.signed) \in Judged(w) /\ Check("fresh", w.fresh) \in Judged(w)
  <2>1. w.headers = WebhookHeaders
    <3>1. Fail("headers") \notin SignatureVerdicts(w)
      BY DEF Clean, Judged
    <3>. QED  BY <3>1 DEF SignatureVerdicts
  <2>. QED  BY <2>1 DEF Judged, SignatureVerdicts
<1>3. /\ Check("event schema", w.conforms) \in Judged(w)
      /\ Check("specversion", "specversion" \in w.attributes) \in Judged(w)
      /\ Check("id", "id" \in w.attributes) \in Judged(w)
      /\ Check("source", "source" \in w.attributes) \in Judged(w)
      /\ Check("eep extensions", "eep_version" \in w.attributes) \in Judged(w)
  <2>1. options.schemas
    <3>1. Skip("event schema") \notin EnvelopeVerdicts(w)
      BY DEF Clean, Judged
    <3>. QED  BY <3>1 DEF EnvelopeVerdicts
  <2>. QED  BY <2>1 DEF Judged, EnvelopeVerdicts
<1>4. /\ Pass("signature") \in Judged(w) /\ Pass("fresh") \in Judged(w)
      /\ Pass("event schema") \in Judged(w) /\ Pass("specversion") \in Judged(w)
      /\ Pass("id") \in Judged(w) /\ Pass("source") \in Judged(w)
      /\ Pass("eep extensions") \in Judged(w)
  BY <1>1, <1>2, <1>3
<1>. QED  BY <1>2, <1>4 DEF JudgeNames

(***************************************************************************)
(* Judging a delivery keeps the invariant.                                 *)
(***************************************************************************)
Judgeable == triggered /\ received # NoWebhook

LEMMA JudgeDeliveryResults ==
  ASSUME JudgeDelivery
  PROVE  \E V : /\ results' = results \cup V /\ Named(V, JudgeNames)
                /\ Judgeable => V = Judged(received)
                /\ ~Judgeable => /\ ~Clean(V)
                                 /\ \A n : n # "delivery" => Pass(n) \notin V /\ Fail(n) \notin V
<1>1. CASE Judgeable
  <2>1. results' = results \cup Judged(received)
    BY <1>1 DEF JudgeDelivery, Report, Judgeable, Judged
  <2>. QED  BY <1>1, <2>1, JudgedNamed
<1>2. CASE ~Judgeable /\ ~triggered
  <2>. DEFINE V == SkipAll(Untested \cup {"delivery"})
  <2>1. results' = results \cup V
    BY <1>2 DEF JudgeDelivery, Report, Judgeable
  <2>2. Named(V, JudgeNames)
    BY DEF Named, IsVerdict, SkipAll, Untested, JudgeNames
  <2>3. ~Clean(V) /\ \A n : Pass(n) \notin V /\ Fail(n) \notin V
    BY VerdictsApart DEF Clean, SkipAll, Untested
  <2>. HIDE DEF V
  <2>. QED  BY <1>2, <2>1, <2>2, <2>3
<1>3. CASE ~Judgeable /\ triggered
  <2>. DEFINE V == {Fail("delivery")} \cup SkipAll(Untested)
  <2>1. results' = results \cup V
    BY <1>3 DEF JudgeDelivery, Report, Judgeable
  <2>2. Named(V, JudgeNames)
    BY DEF Named, IsVerdict, SkipAll, Untested, JudgeNames
  <2>3. ~Clean(V) /\ \A n : n # "delivery" => Pass(n) \notin V /\ Fail(n) \notin V
    BY VerdictsApart DEF Clean, SkipAll, Untested
  <2>. HIDE DEF V
  <2>. QED  BY <1>3, <2>1, <2>2, <2>3
<1>. QED  BY <1>1, <1>2, <1>3

LEMMA JudgeDeliveryKeeps ==
  ASSUME Bounded, Recorded, Path, Earned, Began, Judgement, Closing, JudgeDelivery
  PROVE  Recorded' /\ Path' /\ Earned' /\ Began' /\ Judgement' /\ Closing'
<1>1. PICK V : /\ results' = results \cup V /\ Named(V, JudgeNames)
               /\ Judgeable => V = Judged(received)
               /\ ~Judgeable => /\ ~Clean(V)
                                /\ \A n : n # "delivery" => Pass(n) \notin V /\ Fail(n) \notin V
  BY JudgeDeliveryResults
<1>2. /\ step = "judge" /\ step' = "sse"
      /\ UNCHANGED <<options, triggered, exit, label, written, received, posted>>
  BY DEF JudgeDelivery, Report, receiver
<1>3. SeenShape' /\ seen'.sent = seen.sent /\ seen'.judged = received /\ seen'.by = posted
  BY DEF JudgeDelivery, Recorded, SeenShape
<1>4. "judge" \in Opening /\ "sse" \in Middle /\ "sse" \notin Opening
  BY DEF Opening, Middle
<1>5. /\ \A n \in JudgeNames : (Pass(n) \in results' <=> Pass(n) \in V) /\ (Fail(n) \in results' <=> Fail(n) \in V)
      /\ \A n \in HelperNames : Pass(n) \notin results' /\ Fail(n) \notin results'
  <2>1. Unsaid(JudgeNames) /\ Unsaid(HelperNames)
    BY <1>2, <1>4 DEF Judgement, Unjudged, Unhelped
  <2>2. \A n \in HelperNames : n \notin JudgeNames
    BY NamesApart
  <2>. QED  BY <1>1, <2>1, <2>2, Unaffected DEF Unsaid
<1>6. Recorded'
  <2>1. Verdicts' /\ IsFiniteSet(results)'
    BY <1>1, VerdictsGrow, NamesFinite DEF Recorded
  <2>. QED  BY <1>2, <1>3, <2>1 DEF Recorded
<1>7. Path'
  BY <1>2, <1>4 DEF Path, Stage, StandardSteps, FullSteps
<1>8. Earned' /\ Began'
  <2>1. Due(step)' = Due("sse")
    BY <1>2, DueKept
  <2>2. ASSUME Clean(results') PROVE \A n \in Due("sse") : Pass(n) \in results'
    <3>1. Clean(results) /\ Clean(V)
      BY <1>1, <2>2 DEF Clean
    <3>2. \A n \in JudgeNames : Pass(n) \in V
      BY <1>1, <3>1, JudgedClean
    <3>3. \A n \in Due("judge") : Pass(n) \in results
      BY <1>2, <3>1 DEF Earned
    <3>4. \A n \in Due("sse") : n \in JudgeNames \/ n \in Due("judge")
      BY DEF Due, CoreProbes, JudgeNames
    <3>. QED  BY <1>1, <3>2, <3>3, <3>4
  <2>3. Earned'
    BY <2>1, <2>2 DEF Earned, Clean
  <2>. QED  BY <1>1, <1>2, <2>3 DEF Began
<1>9. Unjudged' /\ Awaited' /\ Unhelped' /\ AsHelped'
  <2>1. Unjudged' /\ Awaited'
    BY <1>2, <1>4 DEF Unjudged, Awaited
  <2>2. Unhelped'
    BY <1>5 DEF Unhelped, Unsaid
  <2>3. "extension helper" \in HelperNames
    BY DEF HelperNames
  <2>4. AsHelped'
    BY <1>5, <2>3 DEF AsHelped
  <2>. QED  BY <2>1, <2>2, <2>4
<1>10. Evidence' /\ AsJudged'
  <2>1. \A n \in {"signature", "eep extensions", "headers", "specversion", "id", "source"} :
          n \in JudgeNames /\ n # "delivery"
    BY DEF JudgeNames
  <2>2. CASE Judgeable
    <3>1. received \in seen.sent /\ triggered
      BY <1>2, <2>2 DEF Judgement, Awaited, Judgeable
    <3>2. Evidence'
      <4>1. Pass("signature") \in results' => received.signed /\ received.headers = WebhookHeaders
        BY <1>1, <1>5, <2>1, <2>2, JudgedSignature
      <4>. QED  BY <1>2, <1>3, <3>1, <4>1 DEF Evidence
    <3>3. AsJudged'
      <4>1. \A n \in {"eep extensions", "headers", "specversion", "id", "source"} :
              Pass(n) \in results' <=> Pass(n) \in Judged(received)
        BY <1>1, <1>5, <2>1, <2>2
      <4>2. /\ Pass("headers") \in results' <=> received.headers = WebhookHeaders
            /\ Pass("eep extensions") \in results' <=> "eep_version" \in received.attributes
            /\ \A n \in {"specversion", "id", "source"} :
                 Pass(n) \in results' <=> n \in received.attributes
        BY <4>1, JudgedSignature, JudgedAttributes
      <4>. QED  BY <1>3, <4>2 DEF AsJudged
    <3>. QED  BY <3>2, <3>3
  <2>3. CASE ~Judgeable
    <3>1. Pass("signature") \notin results' /\ Fail("signature") \notin results'
      BY <1>1, <1>5, <2>1, <2>3
    <3>2. ~(triggered' /\ seen'.judged # NoWebhook)
      BY <1>2, <1>3, <2>3 DEF Judgeable
    <3>. QED  BY <3>1, <3>2 DEF Evidence, AsJudged
  <2>. QED  BY <2>2, <2>3
<1>11. Closing'
  BY <1>2 DEF Closing
<1>12. SinceJudged'
  <2>1. posted \in Nat
    BY DEF Bounded
  <2>. QED  BY <1>2, <1>3, <2>1 DEF SinceJudged
<1>. QED  BY <1>6, <1>7, <1>8, <1>9, <1>10, <1>11, <1>12 DEF Judgement

-----------------------------------------------------------------------------
(***************************************************************************)
(* Resetting the receiver keeps the invariant.                             *)
(***************************************************************************)
LEMMA ResetKeeps ==
  ASSUME Recorded, Path, Earned, Began, Judgement, Closing, StartTestDelivery,
         ~Skipped("trigger", "sse", {"webhook delivery"})
  PROVE  Recorded' /\ Path' /\ Earned' /\ Began' /\ Judgement' /\ Closing'
<1>1. /\ step = "trigger" /\ step' = "triggering" /\ received' = NoWebhook
      /\ UNCHANGED <<options, results, triggered, exit, label, written, posted>>
  BY DEF StartTestDelivery
<1>2. SeenShape' /\ seen'.judged = seen.judged
  <2>1. seen' = [seen EXCEPT !.sent = {}]
    BY DEF StartTestDelivery
  <2>. QED  BY <2>1 DEF Recorded, SeenShape
<1>3. "trigger" \in Opening /\ "triggering" \in Opening
  BY DEF Opening
<1>4. seen.judged = NoWebhook /\ Unsaid(JudgeNames) /\ Unsaid(HelperNames)
  BY <1>1, <1>3 DEF Judgement, Unjudged, Unhelped
<1>5. Recorded'
  <2>1. Verdicts' /\ IsFiniteSet(results)'
    BY <1>1 DEF Recorded, Verdicts
  <2>. QED  BY <1>1, <1>2, <2>1 DEF Recorded
<1>6. Path' /\ Closing' /\ Began'
  BY <1>1, <1>3 DEF Path, Stage, StandardSteps, FullSteps, Closing, Began
<1>7. Earned'
  <2>1. Due(step)' = Due("triggering") /\ Due("triggering") = Due("trigger")
    BY <1>1, DueKept DEF Due
  <2>. QED  BY <1>1, <2>1 DEF Earned, Clean
<1>8. Unjudged' /\ Awaited' /\ Unhelped' /\ SinceJudged' /\ AsHelped' /\ AsJudged'
  BY <1>1, <1>2, <1>4 DEF Unjudged, Awaited, Unhelped, Unsaid, SinceJudged, AsHelped, AsJudged
<1>9. Evidence'
  <2>1. "signature" \in JudgeNames
    BY DEF JudgeNames
  <2>. QED  BY <1>1, <1>4, <2>1 DEF Unsaid, Evidence
<1>. QED  BY <1>5, <1>6, <1>7, <1>8, <1>9 DEF Judgement

(***************************************************************************)
(* A webhook that comes in keeps the invariant.                            *)
(***************************************************************************)
LEMMA ReceiveWebhookKeeps ==
  ASSUME Bounded, Recorded, Path, Earned, Began, Judgement, Closing,
         NEW w \in Webhooks, ReceiveWebhook(w)
  PROVE  Recorded' /\ Path' /\ Earned' /\ Began' /\ Judgement' /\ Closing'
<1>1. /\ step \notin {"exited", "reports"} /\ received' = w /\ posted' = posted + 1
      /\ UNCHANGED <<options, step, results, triggered, exit, label, written>>
  BY DEF ReceiveWebhook
<1>2. /\ SeenShape' /\ seen'.sent = seen.sent \cup {w}
      /\ seen'.judged = seen.judged /\ seen'.by = seen.by
  <2>. DEFINE s == seen.sent \cup {w}
  <2>1. seen' = [seen EXCEPT !.sent = s]
    BY DEF ReceiveWebhook
  <2>. HIDE DEF s
  <2>2. SeenShape' /\ seen'.sent = s /\ seen'.judged = seen.judged /\ seen'.by = seen.by
    BY <2>1 DEF Recorded, SeenShape
  <2>. QED  BY <2>2 DEF s
<1>3. Recorded'
  <2>1. Verdicts' /\ IsFiniteSet(results)'
    BY <1>1 DEF Recorded, Verdicts
  <2>. QED  BY <1>1, <1>2, <2>1 DEF Recorded
<1>4. Path' /\ Closing' /\ Began'
  BY <1>1 DEF Path, Stage, Standard, Full, Closing, Began
<1>5. Earned'
  <2>1. Due(step)' = Due(step)
    BY <1>1, DueKept
  <2>. QED  BY <1>1, <2>1 DEF Earned, Clean
<1>6. Unjudged' /\ Awaited' /\ Unhelped'
  BY <1>1, <1>2 DEF Judgement, Unjudged, Awaited, Unhelped, Unsaid
<1>7. Evidence' /\ AsJudged'
  BY <1>1, <1>2 DEF Judgement, Evidence, AsJudged
<1>8. SinceJudged' /\ AsHelped'
  <2>1. posted \in Nat
    BY DEF Bounded
  <2>2. seen.judged # NoWebhook => seen.by \in Nat /\ seen.by <= posted' /\ posted' # seen.by
    BY <1>1, <2>1 DEF Judgement, SinceJudged
  <2>. QED  BY <1>2, <2>2 DEF SinceJudged, AsHelped
<1>. QED  BY <1>3, <1>4, <1>5, <1>6, <1>7, <1>8 DEF Judgement

(***************************************************************************)
(* Steps that change nothing the invariant of a live run speaks of.        *)
(***************************************************************************)
LEMMA IdleKeeps ==
  ASSUME Recorded, Path, Earned, Began, Judgement, Closing,
         UNCHANGED <<options, step, results, received, triggered, posted, exit, label, written, seen>>
  PROVE  Recorded' /\ Path' /\ Earned' /\ Began' /\ Judgement' /\ Closing'
<1>1. Recorded'
  BY DEF Recorded, Verdicts, SeenShape, toAuditReport, Summary
<1>2. Path' /\ Began'
  BY DEF Path, Stage, Standard, Full, Began
<1>3. Closing'
  BY DEF Closing, conformanceLabel, ExitCode, Summary
<1>4. Earned'
  <2>1. Due(step)' = Due(step)
    BY DueKept
  <2>. QED  BY <2>1 DEF Earned, Clean
<1>5. Judgement'
  BY DEF Judgement, Unjudged, Awaited, Evidence, AsJudged, Unhelped, Unsaid, SinceJudged, AsHelped
<1>. QED  BY <1>1, <1>2, <1>3, <1>4, <1>5

(***************************************************************************)
(* The helpers keep the invariant.                                         *)
(***************************************************************************)
LEMMA HelpersSay ==
  ASSUME NEW w
  PROVE  /\ Named(HelperVerdicts(w), HelperNames)
         /\ Pass("extension helper") \in HelperVerdicts(w) <=> "eep_version" \in w.attributes
         /\ Pass("headers helper") \in HelperVerdicts(w) <=> checkWebhookHeaders(w) = {}
         /\ Pass("envelope helper") \in HelperVerdicts(w) =>
              {"specversion", "id", "source"} \subseteq w.attributes
<1>1. Named(HelperVerdicts(w), HelperNames)
  BY DEF Named, IsVerdict, HelperVerdicts, HelperNames, Check
<1>2. /\ Pass("extension helper") \in HelperVerdicts(w) <=> validateEEPExtensions(w) = {}
      /\ Pass("headers helper") \in HelperVerdicts(w) <=> checkWebhookHeaders(w) = {}
      /\ Pass("envelope helper") \in HelperVerdicts(w) <=> validateCloudEventsEnvelope(w) = {}
  BY DEF HelperVerdicts, Check, Pass, Fail
<1>3. validateEEPExtensions(w) = {} <=> "eep_version" \in w.attributes
  BY DEF validateEEPExtensions
<1>4. validateCloudEventsEnvelope(w) = {} => {"specversion", "id", "source"} \subseteq w.attributes
  BY DEF validateCloudEventsEnvelope
<1>. QED  BY <1>1, <1>2, <1>3, <1>4

LEMMA EnvelopeHelpersResults ==
  ASSUME EnvelopeHelpers
  PROVE  \E V : /\ results' = results \cup V /\ Named(V, HelperNames)
                /\ V = {} \/ (received # NoWebhook /\ V = HelperVerdicts(received))
<1>1. CASE received # NoWebhook /\ received.json
  <2>1. results' = results \cup HelperVerdicts(received)
    BY <1>1 DEF EnvelopeHelpers, Report
  <2>. QED  BY <1>1, <2>1, HelpersSay
<1>2. CASE ~(received # NoWebhook /\ received.json)
  <2>1. results' = results \cup {}
    BY <1>2 DEF EnvelopeHelpers, Report
  <2>2. Named({}, HelperNames)
    BY DEF Named
  <2>. QED  BY <2>1, <2>2
<1>. QED  BY <1>1, <1>2

LEMMA EnvelopeHelpersKeep ==
  ASSUME Recorded, Path, Earned, Began, Judgement, Closing, EnvelopeHelpers
  PROVE  Recorded' /\ Path' /\ Earned' /\ Began' /\ Judgement' /\ Closing'
<1>1. PICK V : /\ results' = results \cup V /\ Named(V, HelperNames)
               /\ V = {} \/ (received # NoWebhook /\ V = HelperVerdicts(received))
  BY EnvelopeHelpersResults
<1>2. /\ step = "envelope" /\ step' = "registry"
      /\ UNCHANGED <<options, received, triggered, posted, exit, label, written, seen>>
  BY DEF EnvelopeHelpers, Report, local, receiver
<1>3. "envelope" \in Middle /\ "registry" \in Late /\ "registry" \notin Opening \cup Middle
  BY StepsApart DEF Middle, Late
<1>4. \A n \in JudgeNames : /\ Pass(n) \in results' <=> Pass(n) \in results
                            /\ Fail(n) \in results' <=> Fail(n) \in results
  BY <1>1, NamesApart, Unaffected
<1>5. Recorded'
  <2>1. Verdicts' /\ IsFiniteSet(results)'
    BY <1>1, VerdictsGrow, NamesFinite DEF Recorded
  <2>. QED  BY <1>2, <2>1 DEF Recorded, SeenShape
<1>6. Path' /\ Closing' /\ Began'
  BY <1>1, <1>2, <1>3 DEF Path, Stage, StandardSteps, FullSteps, Closing, Began
<1>7. Earned'
  <2>1. Due(step)' = Due("registry") /\ Due("registry") = Due("envelope")
    BY <1>2, DueKept DEF Due
  <2>2. Clean(results') => Clean(results)
    BY <1>1 DEF Clean
  <2>. QED  BY <1>1, <1>2, <2>1, <2>2 DEF Earned, Clean
<1>8. Unjudged' /\ Awaited' /\ Unhelped' /\ SinceJudged'
  BY <1>2, <1>3 DEF Judgement, Unjudged, Awaited, Unhelped, SinceJudged
<1>9. Evidence' /\ AsJudged'
  <2>1. \A n \in {"signature", "eep extensions", "headers", "specversion", "id", "source"} : n \in JudgeNames
    BY DEF JudgeNames
  <2>2. \A n \in {"signature", "eep extensions", "headers", "specversion", "id", "source"} :
          /\ Pass(n) \in results' <=> Pass(n) \in results
          /\ Fail(n) \in results' <=> Fail(n) \in results
    BY <1>4, <2>1
  <2>3. Evidence /\ AsJudged
    BY DEF Judgement
  <2>. QED  BY <1>2, <2>2, <2>3 DEF Evidence, AsJudged
<1>10. AsHelped'
  <2>1. \A n \in HelperNames : /\ Pass(n) \in results' <=> Pass(n) \in V
                               /\ Fail(n) \in results' <=> Fail(n) \in V
    BY <1>1, <1>2, <1>3 DEF Judgement, Unhelped, Unsaid
  <2>2. \A n \in {"extension helper", "headers helper", "envelope helper"} : n \in HelperNames
    BY DEF HelperNames
  <2>3. CASE V = {}
    BY <2>1, <2>2, <2>3 DEF AsHelped
  <2>4. CASE received # NoWebhook /\ V = HelperVerdicts(received)
    <3>1. received.headers \subseteq WebhookHeaders
      BY <2>4, ComplianceAssumption DEF Recorded
    <3>2. checkWebhookHeaders(received) = {} <=> received.headers = WebhookHeaders
      BY <3>1 DEF checkWebhookHeaders
    <3>3. /\ Pass("extension helper") \in results' <=> "eep_version" \in received.attributes
          /\ Pass("headers helper") \in results' <=> received.headers = WebhookHeaders
          /\ Pass("envelope helper") \in results' =>
               {"specversion", "id", "source"} \subseteq received.attributes
      BY <2>1, <2>2, <2>4, <3>2, HelpersSay
    <3>4. seen.judged # NoWebhook /\ posted = seen.by => received = seen.judged
      BY DEF Judgement, SinceJudged
    <3>. QED  BY <1>2, <3>3, <3>4 DEF AsHelped
  <2>. QED  BY <1>1, <2>3, <2>4
<1>. QED  BY <1>5, <1>6, <1>7, <1>8, <1>9, <1>10 DEF Judgement

(***************************************************************************)
(* The summary and the reports keep the invariant.                         *)
(***************************************************************************)
LEMMA SummariseKeeps ==
  ASSUME Recorded, Path, Earned, Began, Judgement, Closing, Summarise
  PROVE  Recorded' /\ Path' /\ Earned' /\ Began' /\ Judgement' /\ Closing'
<1>1. /\ step = "summary" /\ step' = "reports" /\ label' = conformanceLabel
      /\ UNCHANGED <<options, results, received, triggered, posted, exit, written, seen>>
  BY DEF Summarise, receiver
<1>2. "reports" \notin Opening \cup Middle
  BY StepsApart
<1>3. Recorded'
  BY <1>1 DEF Recorded, Verdicts, SeenShape
<1>4. Path' /\ Began'
  BY <1>1 DEF Path, Stage, StandardSteps, FullSteps, Began
<1>5. Closing'
  BY <1>1 DEF Closing, conformanceLabel, Summary
<1>6. Earned'
  <2>1. Due(step)' = Due("reports") /\ Due("reports") = Due("summary")
    BY <1>1, DueKept DEF Due
  <2>. QED  BY <1>1, <2>1 DEF Earned, Clean
<1>7. Unjudged' /\ Awaited' /\ Unhelped'
  BY <1>1, <1>2 DEF Unjudged, Awaited, Unhelped
<1>8. Evidence' /\ AsJudged' /\ SinceJudged' /\ AsHelped'
  BY <1>1 DEF Judgement, Evidence, AsJudged, SinceJudged, AsHelped
<1>. QED  BY <1>3, <1>4, <1>5, <1>6, <1>7, <1>8 DEF Judgement

LEMMA WriteReportsRecords ==
  ASSUME Recorded, WriteReports
  PROVE  /\ Recorded' /\ step = "reports" /\ step' = "exited"
         /\ UNCHANGED <<options, results, left, label, received, triggered, posted, seen>>
         /\ exit' = ExitCode' \/ (options.reports /\ exit' = IF options.fixtures THEN 1 ELSE 0)
<1>1. /\ step = "reports" /\ step' = "exited"
      /\ UNCHANGED <<options, results, left, label, received, triggered, posted, seen>>
  BY DEF WriteReports, receiver
<1>2. ExitCode' = ExitCode /\ toAuditReport' = toAuditReport /\ ExitCode \in 0 .. 2
  BY <1>1 DEF ExitCode, toAuditReport, Summary
<1>3. /\ exit' = ExitCode' \/ (options.reports /\ exit' = IF options.fixtures THEN 1 ELSE 0)
      /\ written' \in {NoReport, toAuditReport'}
  BY <1>2 DEF WriteReports
<1>4. exit' \in 0 .. 2
  BY <1>2, <1>3
<1>5. Verdicts' /\ IsFiniteSet(results)' /\ SeenShape'
  BY <1>1 DEF Recorded, Verdicts, SeenShape
<1>. QED  BY <1>1, <1>3, <1>4, <1>5 DEF Recorded

LEMMA WriteReportsKeeps ==
  ASSUME Recorded, Path, Earned, Began, Judgement, Closing, WriteReports, ~options.fixtures
  PROVE  Recorded' /\ Path' /\ Earned' /\ Began' /\ Judgement' /\ Closing'
<1>1. /\ Recorded' /\ step = "reports" /\ step' = "exited"
      /\ UNCHANGED <<options, results, label, received, triggered, posted, seen>>
      /\ exit' = ExitCode' \/ options'.reports
  BY WriteReportsRecords
<1>2. "exited" \notin Opening \cup Middle
  BY StepsApart
<1>3. Path' /\ Began'
  BY <1>1 DEF Path, Stage, StandardSteps, FullSteps, Began
<1>4. Closing'
  <2>1. conformanceLabel' = conformanceLabel
    BY <1>1 DEF conformanceLabel, Summary
  <2>. QED  BY <1>1, <2>1 DEF Closing
<1>5. Earned'
  <2>1. Due(step)' = Due("exited") /\ Due("exited") = Due("reports")
    BY <1>1, DueKept DEF Due
  <2>. QED  BY <1>1, <2>1 DEF Earned, Clean
<1>6. Unjudged' /\ Awaited' /\ Unhelped'
  BY <1>1, <1>2 DEF Unjudged, Awaited, Unhelped
<1>7. Evidence' /\ AsJudged' /\ SinceJudged' /\ AsHelped'
  BY <1>1 DEF Judgement, Evidence, AsJudged, SinceJudged, AsHelped
<1>. QED  BY <1>1, <1>3, <1>4, <1>5, <1>6, <1>7 DEF Judgement

-----------------------------------------------------------------------------
(***************************************************************************)
(* The steps of a live run: the plain ones, and the others.                *)
(***************************************************************************)
Probing ==
  \/ Reachable \/ LinkHeader \/ Subscribe \/ IntentVerification \/ TriggerTestDelivery \/ WindowCloses
  \/ SseEndpoint \/ ReadStream \/ Replay \/ RateLimit \/ Manifest \/ Conditional
  \/ Encoding \/ Forbidden \/ Negotiation \/ PaymentGate \/ ContentGate \/ X402Challenge
  \/ Pulse \/ Registry \/ TrustStatus \/ Delegation

LEMMA ProbingPlain ==
  ASSUME Probing, SeenShape, Stage
  PROVE  Plain
BY ReachablePlain, LinkHeaderPlain, SubscribePlain, IntentVerificationPlain,
   TriggerTestDeliveryPlain, WindowClosesPlain, SseEndpointPlain, ReadStreamPlain,
   ReplayPlain, RateLimitPlain, ManifestPlain, ConditionalPlain, EncodingPlain,
   ForbiddenPlain, NegotiationPlain, PaymentGatePlain, ContentGatePlain,
   X402ChallengePlain, PulsePlain, RegistryPlain, TrustStatusPlain, DelegationPlain DEF Probing

LEMMA ProbingSteps ==
  ASSUME Probing, SeenShape, Stage
  PROVE  step \in Opening \cup Middle \cup Late
BY ProbingPlain DEF Plain, Follows

LEMMA LiveStep ==
  ASSUME Bounded, Recorded, Path, Earned, Began, Judgement, Closing, ~options.fixtures, Next
  PROVE  Recorded' /\ Path' /\ Earned' /\ Began' /\ Judgement' /\ Closing'
<1>1. CASE Plain
  BY <1>1, PlainKeepsRecorded, PlainKeepsPath, PlainKeepsEarned, PlainKeepsJudgement,
     PlainKeepsClosing DEF Recorded
<1>2. CASE Probing
  BY <1>1, <1>2, ProbingPlain DEF Recorded, Path
<1>3. CASE StartTestDelivery
  <2>1. CASE Skipped("trigger", "sse", {"webhook delivery"})
    BY <1>1, <2>1, StartSkippedPlain DEF Recorded, Path
  <2>2. CASE ~Skipped("trigger", "sse", {"webhook delivery"})
    BY <1>3, <2>2, ResetKeeps
  <2>. QED  BY <2>1, <2>2
<1>4. CASE JudgeDelivery
  BY <1>4, JudgeDeliveryKeeps
<1>5. CASE EnvelopeHelpers
  BY <1>5, EnvelopeHelpersKeep
<1>6. CASE Summarise
  BY <1>6, SummariseKeeps
<1>7. CASE WriteReports
  BY <1>7, WriteReportsKeeps
<1>8. CASE findFixturesDir \/ runFixtures
  <2>1. step \in {"fixtures", "vectors"}
    BY <1>8 DEF findFixturesDir, runFixtures
  <2>. QED  BY <2>1 DEF Path, Opening, Middle, Late, StandardSteps, FullSteps
<1>9. CASE \E w \in Webhooks : ReceiveWebhook(w)
  BY <1>9, ReceiveWebhookKeeps
<1>10. CASE ReceiveChallenge
  <2>1. UNCHANGED <<options, step, results, received, triggered, posted, exit, label, written, seen>>
    BY <1>10 DEF ReceiveChallenge
  <2>. QED  BY <2>1, IdleKeeps
<1>. QED  BY <1>2, <1>3, <1>4, <1>5, <1>6, <1>7, <1>8, <1>9, <1>10 DEF Next, Run, Probing

-----------------------------------------------------------------------------
(***************************************************************************)
(* The steps of an offline run.                                            *)
(***************************************************************************)
LEMMA OfflineActions ==
  ASSUME Recorded, step \in {"fixtures", "vectors", "reports", "exited"}, Next
  PROVE  findFixturesDir \/ runFixtures \/ WriteReports
<1>1. Stage /\ SeenShape
  BY DEF Stage, StandardSteps, FullSteps, Recorded
<1>2. step \notin Opening \cup Middle \cup Late
  BY DEF Opening, Middle, Late, StandardSteps, FullSteps
<1>3. ~Probing
  BY <1>1, <1>2, ProbingSteps
<1>4. ~StartTestDelivery /\ ~JudgeDelivery /\ ~EnvelopeHelpers /\ ~Summarise
  BY DEF StartTestDelivery, Skipped, JudgeDelivery, EnvelopeHelpers, Summarise
<1>5. ~ReceiveChallenge /\ \A w \in Webhooks : ~ReceiveWebhook(w)
  BY DEF ReceiveChallenge, ReceiveWebhook
<1>. QED  BY <1>3, <1>4, <1>5 DEF Next, Run, Probing

LEMMA FixtureVerdict ==
  ASSUME NEW v
  PROVE  runFixture(v) \in {Pass(v.id), Fail(v.id), Skip(v.id)}
<1>1. runJsonPair(v) \in {Pass(v.id), Fail(v.id), Skip(v.id)}
  BY DEF runJsonPair, Check
<1>2. runSignedBundle(v) \in {Pass(v.id), Fail(v.id)}
  BY DEF runSignedBundle, Check
<1>3. runStaticBundle(v) \in {Pass(v.id), Fail(v.id)}
  BY DEF runStaticBundle, Check
<1>. QED  BY <1>1, <1>2, <1>3 DEF runFixture

LEMMA OfflineStep ==
  ASSUME Bounded, Recorded, Offline, options.fixtures, Next
  PROVE  Recorded' /\ Offline'
<1>0. findFixturesDir \/ runFixtures \/ WriteReports
  BY OfflineActions DEF Offline
<1>1. CASE findFixturesDir
  <2>1. PICK found \in BOOLEAN :
          /\ step' = IF found THEN "vectors" ELSE "exited"
          /\ exit' = IF found THEN exit ELSE 2
          /\ results' = IF found /\ ~options.schemas THEN {Skip("schemas")} ELSE results
    BY <1>1 DEF findFixturesDir
  <2>2. step = "fixtures" /\ UNCHANGED <<options, left, label, written, seen, received>>
    BY <1>1 DEF findFixturesDir, receiver
  <2>3. Verdicts' /\ IsFiniteSet(results)'
    <3>1. CASE results' = {Skip("schemas")}
      <4>1. Skip("schemas").name = "schemas"
        BY DEF Skip
      <4>. QED  BY <3>1, <4>1, FS_Singleton DEF Verdicts
    <3>2. CASE results' = results
      BY <3>2 DEF Recorded, Verdicts
    <3>. QED  BY <2>1, <3>1, <3>2
  <2>4. SeenShape' /\ exit = Running /\ written' = NoReport
    BY <2>2 DEF Recorded, SeenShape
  <2>5. Recorded'
    <3>1. step' = "exited" => exit' = 2
      BY <2>1
    <3>2. step' # "exited" => exit' = Running
      BY <2>1, <2>4
    <3>. QED  BY <2>2, <2>3, <2>4, <3>1, <3>2 DEF Recorded
  <2>6. left' = Vectors
    BY <2>2 DEF Offline
  <2>7. Replayed'
    BY <2>6 DEF Replayed
  <2>. QED  BY <2>1, <2>2, <2>5, <2>6, <2>7 DEF Offline
<1>2. CASE runFixtures
  <2>1. step = "vectors" /\ UNCHANGED <<options, exit, label, written, seen, received>>
    BY <1>2 DEF runFixtures, receiver
  <2>0. \A u : runFixture(u)' = runFixture(u)
    BY <2>1 DEF runFixture, runJsonPair, runSignedBundle, runStaticBundle
  <2>2. CASE left = {} /\ Report({}, "reports") /\ left' = left
    <3>1. results' = results /\ step' = "reports" /\ left' = {}
      BY <2>2 DEF Report
    <3>2. Recorded'
      BY <2>1, <3>1 DEF Recorded, Verdicts, SeenShape
    <3>3. Replayed'
      BY <2>0, <2>2, <3>1 DEF Offline, Replayed
    <3>. QED  BY <2>1, <3>1, <3>2, <3>3 DEF Offline
  <2>3. ASSUME NEW v \in left, left' = left \ {v}, Report({runFixture(v)}, "vectors")
        PROVE  Recorded' /\ Offline'
    <3>1. results' = results \cup {runFixture(v)} /\ step' = "vectors"
      BY <2>3 DEF Report
    <3>2. IsFiniteSet(results')
      BY <3>1, FS_AddElement DEF Recorded
    <3>3. Verdicts'
      <4>1. Pass(v.id).name = v.id /\ Fail(v.id).name = v.id /\ Skip(v.id).name = v.id
        BY DEF Pass, Fail, Skip
      <4>2. runFixture(v) \in {Pass(runFixture(v).name), Fail(runFixture(v).name), Skip(runFixture(v).name)}
        BY <4>1, FixtureVerdict
      <4>. QED  BY <3>1, <4>2 DEF Recorded, Verdicts
    <3>4. Recorded'
      BY <2>1, <3>1, <3>2, <3>3 DEF Recorded, SeenShape
    <3>5. \A u \in Vectors \ left' : runFixture(u) \in results'
      BY <2>1, <2>3, <3>1 DEF Offline, Replayed
    <3>6. Replayed'
      BY <2>0, <3>5 DEF Replayed
    <3>. QED  BY <2>1, <3>1, <3>4, <3>6 DEF Offline
  <2>. QED  BY <1>2, <2>2, <2>3 DEF runFixtures
<1>3. CASE WriteReports
  <2>1. /\ Recorded' /\ step = "reports" /\ step' = "exited"
        /\ UNCHANGED <<options, results, left, label, seen>>
        /\ exit' \in {1, ExitCode'}
    BY <1>3, WriteReportsRecords
  <2>2. left = {}
    BY <2>1 DEF Offline
  <2>3. \A u : runFixture(u)' = runFixture(u)
    BY <2>1 DEF runFixture, runJsonPair, runSignedBundle, runStaticBundle
  <2>4. Replayed'
    BY <2>1, <2>3 DEF Offline, Replayed
  <2>. QED  BY <2>1, <2>2, <2>4 DEF Offline
<1>. QED  BY <1>0, <1>1, <1>2, <1>3

-----------------------------------------------------------------------------
(***************************************************************************)
(* The invariant holds throughout.                                         *)
(***************************************************************************)
LEMMA InitInvariant ==
  ASSUME Init
  PROVE  IInv
<1>1. options \in Options /\ options.fixtures \in BOOLEAN
  <2>1. options \in Options
    BY DEF Init
  <2>2. options \in CommandLine
    BY <2>1, ComplianceAssumption
  <2>. QED  BY <2>1, <2>2 DEF CommandLine
<1>2. Bounded
  <2>1. 0 \in 0 .. MaxWebhooks /\ 0 \in 0 .. MaxDeviations
    BY ComplianceAssumption
  <2>. QED  BY <1>1, <2>1 DEF Init, Bounded
<1>3. SeenShape /\ seen.judged = NoWebhook
  BY DEF Init, SeenShape
<1>4. Recorded
  <2>1. Verdicts /\ IsFiniteSet(results)
    BY FS_EmptySet DEF Init, Verdicts
  <2>2. step # "exited"
    BY <1>1 DEF Init
  <2>. QED  BY <1>3, <2>1, <2>2 DEF Init, Recorded
<1>5. Live
  <2>1. SUFFICES ASSUME ~options.fixtures PROVE Path /\ Earned /\ Began /\ Judgement /\ Closing
    BY DEF Live
  <2>2. step = "reachable" /\ results = {} /\ label = "none"
    BY <2>1 DEF Init
  <2>3. Path /\ Began /\ Closing
    BY <2>2 DEF Path, Opening, Stage, StandardSteps, FullSteps, Began, Closing
  <2>4. Earned
    BY <2>2 DEF Earned, Due
  <2>5. Judgement
    BY <1>3, <2>2
    DEF Judgement, Unjudged, Unsaid, Awaited, Evidence, AsJudged, Unhelped, SinceJudged, AsHelped
  <2>. QED  BY <2>3, <2>4, <2>5
<1>6. Offline
  <2>1. SUFFICES ASSUME options.fixtures
                 PROVE  step = "fixtures" /\ label = "none" /\ left = Vectors /\ Replayed
    BY <1>3 DEF Offline
  <2>. QED  BY <2>1 DEF Init, Replayed
<1>. QED  BY <1>2, <1>4, <1>5, <1>6 DEF IInv

LEMMA StepInvariant ==
  ASSUME IInv, [Next]_vars
  PROVE  IInv'
<1>1. Bounded'
  BY BoundedStep DEF IInv
<1>2. CASE UNCHANGED vars
  <2>1. CASE ~options.fixtures
    <3>1. UNCHANGED <<options, step, results, received, triggered, posted, exit, label, written, seen>>
      BY <1>2 DEF vars
    <3>2. Recorded' /\ Path' /\ Earned' /\ Began' /\ Judgement' /\ Closing'
      BY <2>1, <3>1, IdleKeeps DEF IInv, Live
    <3>. QED  BY <1>1, <2>1, <3>1, <3>2 DEF IInv, Live, Offline
  <2>2. CASE options.fixtures
    <3>1. Recorded'
      BY <1>2 DEF vars, IInv, Recorded, Verdicts, SeenShape, toAuditReport, Summary
    <3>2. \A u : runFixture(u)' = runFixture(u)
      BY <1>2 DEF vars, runFixture, runJsonPair, runSignedBundle, runStaticBundle
    <3>3. Replayed' <=> Replayed
      BY <1>2, <3>2 DEF vars, Replayed
    <3>4. ExitCode' = ExitCode
      BY <1>2 DEF vars, ExitCode, Summary
    <3>5. Offline'
      BY <1>2, <3>3, <3>4 DEF vars, IInv, Offline
    <3>. QED  BY <1>1, <1>2, <2>2, <3>1, <3>5 DEF vars, IInv, Live
  <2>. QED  BY <2>1, <2>2
<1>3. CASE Next
  <2>0. options' = options
    BY BoundedStep DEF IInv
  <2>1. CASE ~options.fixtures
    <3>1. Recorded' /\ Path' /\ Earned' /\ Began' /\ Judgement' /\ Closing'
      BY <1>3, <2>1, LiveStep DEF IInv, Live
    <3>. QED  BY <1>1, <2>0, <2>1, <3>1 DEF IInv, Live, Offline
  <2>2. CASE options.fixtures
    <3>1. Recorded' /\ Offline'
      BY <1>3, <2>2, OfflineStep DEF IInv
    <3>. QED  BY <1>1, <2>0, <2>2, <3>1 DEF IInv, Live
  <2>. QED  BY <2>1, <2>2
<1>. QED  BY <1>2, <1>3

(***************************************************************************)
(* What is due of a claim: every probe of the level has passed.            *)
(***************************************************************************)
LEMMA InvariantEarns ==
  ASSUME IInv
  PROVE  ClaimEarnedAtALevel
<1>1. SUFFICES ASSUME validateArgs(options), label = "compliant"
               PROVE  Claimed \subseteq Passed /\ Failed = {}
  BY DEF ClaimEarnedAtALevel, ClaimEarned
<1>2. ~options.fixtures
  BY <1>1 DEF IInv, Offline
<1>3. step \in {"reports", "exited"} /\ label = conformanceLabel
  BY <1>1, <1>2 DEF IInv, Live, Closing
<1>4. IsFiniteSet(results) /\ Verdicts
  BY DEF IInv, Recorded
<1>5. Summary("fail") = 0 /\ Summary("skip") = 0
  <2>1. Summary("fail") \in Nat /\ Summary("skip") \in Nat
    BY <1>4, Counting
  <2>2. ~(Summary("fail") > 0) /\ ~(Summary("skip") > 0)
    BY <1>1, <1>3 DEF conformanceLabel
  <2>. QED  BY <2>1, <2>2
<1>6. Clean(results) /\ Failed = {}
  BY <1>4, <1>5, CleanCount
<1>7. Due(step) = Claimed
  BY <1>1, <1>3 DEF Due
<1>8. \A n \in Claimed : Pass(n) \in results
  BY <1>2, <1>6, <1>7 DEF IInv, Live, Earned
<1>. QED  BY <1>4, <1>6, <1>8, PassedFailed

LEMMA InvariantExits ==
  ASSUME IInv
  PROVE  ExitTellsFailuresIfReported
<1>1. SUFFICES ASSUME options.fixtures \/ ~options.reports, step = "exited", Failed # {}
               PROVE  exit # 0
  BY DEF ExitTellsFailuresIfReported, ExitTellsFailures
<1>2. ExitCode = 1
  <2>1. Summary("fail") \in Nat /\ Summary("fail") # 0
    BY <1>1, Counting, CleanCount DEF IInv, Recorded
  <2>. QED  BY <2>1 DEF ExitCode
<1>3. CASE options.fixtures
  BY <1>1, <1>2, <1>3 DEF IInv, Offline
<1>4. CASE ~options.fixtures
  BY <1>1, <1>2, <1>4 DEF IInv, Live, Closing
<1>. QED  BY <1>3, <1>4

(***************************************************************************)
(* The label and the report.                                               *)
(***************************************************************************)
LEMMA FullScore ==
  ASSUME NEW p \in Nat, p > 0
  PROVE  Scored(p, p + 0) = 100
<1>1. p + 0 = p /\ p # 0 /\ 200 * p + p \in Nat /\ 2 * p \in Nat /\ 2 * p > 0
  OBVIOUS
<1>2. (200 * p + p) \div (2 * p) = 100
  OBVIOUS
<1>. QED  BY <1>1, <1>2 DEF Scored

LEMMA InvariantReports ==
  ASSUME IInv
  PROVE  ReportTellsLabel
<1>1. SUFFICES ASSUME written # NoReport, ~options.fixtures
               PROVE  /\ label = "compliant" => written = [score |-> 100, status |-> "pass"]
                      /\ written.status = "pass" /\ written.score = 100 =>
                           label \in {"compliant", "incomplete"}
                      /\ label = "not compliant" => written.status = "fail"
  BY DEF ReportTellsLabel
<1>2. step = "exited" /\ written = toAuditReport
  BY <1>1 DEF IInv, Recorded
<1>3. label = conformanceLabel
  BY <1>1, <1>2 DEF IInv, Live, Closing
<1>. DEFINE p == Summary("pass")
            f == Summary("fail")
            k == Summary("skip")
<1>4. p \in Nat /\ f \in Nat /\ k \in Nat
  BY Counting DEF IInv, Recorded
<1>5. p # 0 \/ f # 0
  <2>1. Pass("reachable") \in results \/ Fail("reachable") \in results
    BY <1>1, <1>2 DEF IInv, Live, Began
  <2>2. Pass("reachable").status = "pass" /\ Fail("reachable").status = "fail"
    BY DEF Pass, Fail
  <2>3. /\ p = 0 <=> \A r \in results : r.status # "pass"
        /\ f = 0 <=> \A r \in results : r.status # "fail"
    BY Counting DEF IInv, Recorded
  <2>. QED  BY <2>1, <2>2, <2>3
<1>6. /\ label = "compliant" <=> f = 0 /\ p # 0 /\ k = 0
      /\ label = "not compliant" <=> f # 0 \/ p = 0
      /\ label \in {"compliant", "incomplete", "not compliant"}
  <2>1. label = IF f > 0 \/ p = 0 THEN "not compliant" ELSE IF k > 0 THEN "incomplete" ELSE "compliant"
    BY <1>3 DEF conformanceLabel
  <2>. HIDE DEF p, f, k
  <2>2. f > 0 <=> f # 0
    BY <1>4
  <2>3. k > 0 <=> k # 0
    BY <1>4
  <2>. QED  BY <2>1, <2>2, <2>3
<1>7. /\ written = [score |-> Scored(p, p + f), status |-> IF f = 0 THEN "pass" ELSE "fail"]
      /\ written.status = IF f = 0 THEN "pass" ELSE "fail"
  BY <1>2 DEF toAuditReport
<1>. HIDE DEF p, f, k
<1>8. ASSUME label = "compliant" PROVE written = [score |-> 100, status |-> "pass"]
  <2>1. f = 0 /\ p > 0
    BY <1>4, <1>6, <1>8
  <2>2. Scored(p, p + f) = 100
    BY <1>4, <2>1, FullScore
  <2>. QED  BY <1>7, <2>1, <2>2
<1>9. written.status = "pass" => label # "not compliant"
  BY <1>5, <1>6, <1>7
<1>. QED  BY <1>6, <1>7, <1>8, <1>9, <1>5

LEMMA InvariantHasEvidence ==
  ASSUME IInv
  PROVE  SignatureHasEvidence
<1>1. \A n : (n \in Passed <=> Pass(n) \in results) /\ (n \in Failed <=> Fail(n) \in results)
  BY PassedFailed DEF IInv, Recorded
<1>2. ~options.fixtures => Evidence
  BY DEF IInv, Live, Judgement
<1>. QED  BY <1>1, <1>2 DEF SignatureHasEvidence, Evidence

LEMMA InvariantCatches ==
  ASSUME IInv
  PROVE  CorruptVectorCaught
<1>1. SUFFICES ASSUME options.fixtures, NEW v \in Vectors, Corrupt(v), step = "exited"
               PROVE  exit # 0
  BY DEF CorruptVectorCaught
<1>2. exit = 2 \/ (left = {} /\ Replayed /\ exit \in {1, ExitCode})
  BY <1>1 DEF IInv, Offline
<1>3. CASE exit = 2
  BY <1>3
<1>4. CASE left = {} /\ Replayed /\ exit \in {1, ExitCode}
  <2>1. runFixture(v) \in results
    BY <1>1, <1>4 DEF Replayed
  <2>2. runFixture(v) = Fail(v.id)
    <3>1. /\ v.readable \in BOOLEAN /\ v.asserts_valid \in BOOLEAN
          /\ v.signed \in BOOLEAN /\ v.expired \in BOOLEAN
      BY <1>1, ComplianceAssumption
    <3>2. CASE v.shape = "json-pair"
      BY <1>1, <3>2 DEF Corrupt, runFixture, runJsonPair
    <3>3. CASE v.shape = "signed-bundle"
      BY <1>1, <3>1, <3>3 DEF Corrupt, runFixture, runSignedBundle, Check
    <3>. QED  BY <1>1, <3>2, <3>3 DEF Corrupt
  <2>3. Failed # {}
    BY <2>1, <2>2, PassedFailed DEF IInv, Recorded
  <2>4. ExitCode = 1
    <3>1. Summary("fail") \in Nat /\ Summary("fail") # 0
      BY <2>3, Counting, CleanCount DEF IInv, Recorded
    <3>. QED  BY <3>1 DEF ExitCode
  <2>. QED  BY <1>4, <2>4
<1>. QED  BY <1>2, <1>3, <1>4

(***************************************************************************)
(* The two looks at a delivery.  Offline none is judged.                   *)
(***************************************************************************)
LEMMA InvariantAgrees ==
  ASSUME IInv
  PROVE  SecondLookAgrees
<1>1. \A n : (n \in Passed <=> Pass(n) \in results) /\ (n \in Failed <=> Fail(n) \in results)
  BY PassedFailed DEF IInv, Recorded
<1>2. SUFFICES ASSUME seen.judged # NoWebhook, triggered, posted = seen.by,
                      "extension helper" \in Passed \cup Failed
               PROVE  /\ "extension helper" \in Passed <=> "eep extensions" \in Passed
                      /\ "headers helper" \in Passed <=> "headers" \in Passed
                      /\ "envelope helper" \in Passed =>
                           {"specversion", "id", "source"} \subseteq Passed
  BY DEF SecondLookAgrees
<1>3. AsJudged /\ AsHelped
  BY <1>2 DEF IInv, Live, Judgement, Offline
<1>4. /\ Pass("eep extensions") \in results <=> "eep_version" \in seen.judged.attributes
      /\ Pass("headers") \in results <=> seen.judged.headers = WebhookHeaders
      /\ \A n \in {"specversion", "id", "source"} : Pass(n) \in results <=> n \in seen.judged.attributes
  BY <1>2, <1>3 DEF AsJudged
<1>5. /\ Pass("extension helper") \in results <=> "eep_version" \in seen.judged.attributes
      /\ Pass("headers helper") \in results <=> seen.judged.headers = WebhookHeaders
      /\ Pass("envelope helper") \in results =>
           {"specversion", "id", "source"} \subseteq seen.judged.attributes
  BY <1>1, <1>2, <1>3 DEF AsHelped
<1>. QED  BY <1>1, <1>4, <1>5

LEMMA InvariantTypes ==
  ASSUME IInv
  PROVE  TypeOK
<1>1. \A r \in results : r.status \in {"pass", "fail", "skip"}
  <2>1. \A n : Pass(n).status = "pass" /\ Fail(n).status = "fail" /\ Skip(n).status = "skip"
    BY DEF Pass, Fail, Skip
  <2>. QED  BY <2>1 DEF IInv, Recorded, Verdicts
<1>2. exit \in 0 .. Running /\ (exit # Running <=> step = "exited")
  BY DEF IInv, Recorded, Running
<1>3. label \in {"none", "compliant", "incomplete", "not compliant"}
  BY DEF IInv, Live, Offline, Closing, conformanceLabel
<1>4. written.score \in 0 .. 100 /\ written.status \in {"none", "pass", "fail"}
  <2>1. CASE written = NoReport
    BY <2>1 DEF NoReport
  <2>2. CASE written = toAuditReport
    <3>. DEFINE p == Summary("pass")
                f == Summary("fail")
    <3>1. p \in Nat /\ f \in Nat
      BY Counting DEF IInv, Recorded
    <3>2. written.score = Scored(p, p + f) /\ written.status \in {"pass", "fail"}
      BY <2>2 DEF toAuditReport
    <3>. HIDE DEF p, f
    <3>3. PICK e \in Nat : e = p + f /\ p <= e
      BY <3>1
    <3>4. Scored(p, e) \in 0 .. 100
      <4>1. CASE e = 0
        BY <4>1 DEF Scored
      <4>2. CASE e # 0
        <5>1. (200 * p + e) \div (2 * e) \in 0 .. 100
          BY <3>1, <3>3, <4>2
        <5>. QED  BY <4>2, <5>1 DEF Scored
      <4>. QED  BY <4>1, <4>2
    <3>. QED  BY <3>2, <3>3, <3>4
  <2>. QED  BY <2>1, <2>2 DEF IInv, Recorded
<1>. QED  BY <1>1, <1>2, <1>3, <1>4 DEF TypeOK, IInv, Bounded, Recorded

-----------------------------------------------------------------------------
(***************************************************************************)
(* The inductive invariant holds in every run of the compliance tool.      *)
(***************************************************************************)
THEOREM InvariantHolds == Spec => []IInv
<1>1. Init => IInv
  BY InitInvariant
<1>2. IInv /\ [Next]_vars => IInv'
  BY StepInvariant
<1>. QED  BY <1>1, <1>2, PTL DEF Spec

(***************************************************************************)
(* Type correctness: the counters of the tool stay within their bounds, a  *)
(* run has an exit code exactly when it has ended, and a score is a        *)
(* percentage.                                                             *)
(***************************************************************************)
THEOREM TypeCorrect == Spec => []TypeOK
<1>1. IInv => TypeOK
  BY InvariantTypes
<1>. QED  BY <1>1, InvariantHolds, PTL

(***************************************************************************)
(* A run that claims one of the three levels has passed every probe of the *)
(* level and failed none, whatever the platform answered: no path through  *)
(* the probes leaves one out silently.                                     *)
(***************************************************************************)
THEOREM ClaimsAreEarned == Spec => []ClaimEarnedAtALevel
<1>1. IInv => ClaimEarnedAtALevel
  BY InvariantEarns
<1>. QED  BY <1>1, InvariantHolds, PTL

(***************************************************************************)
(* A run in which something failed does not exit with zero, except a live  *)
(* one that was asked for a report it could not write.                     *)
(***************************************************************************)
THEOREM ExitTells == Spec => []ExitTellsFailuresIfReported
<1>1. IInv => ExitTellsFailuresIfReported
  BY InvariantExits
<1>. QED  BY <1>1, InvariantHolds, PTL

(***************************************************************************)
(* The written report and the printed label, computed apart, agree.        *)
(***************************************************************************)
THEOREM ReportsTellTheLabel == Spec => []ReportTellsLabel
<1>1. IInv => ReportTellsLabel
  BY InvariantReports
<1>. QED  BY <1>1, InvariantHolds, PTL

(***************************************************************************)
(* A verdict on the signature of a live run rests on a webhook that came   *)
(* after the test delivery was requested.                                  *)
(***************************************************************************)
THEOREM SignaturesHaveEvidence == Spec => []SignatureHasEvidence
<1>1. IInv => SignatureHasEvidence
  BY InvariantHasEvidence
<1>. QED  BY <1>1, InvariantHolds, PTL

(***************************************************************************)
(* The helpers and the first look say the same of a delivery, unless       *)
(* another webhook came in between.                                        *)
(***************************************************************************)
THEOREM SecondLooksAgree == Spec => []SecondLookAgrees
<1>1. IInv => SecondLookAgrees
  BY InvariantAgrees
<1>. QED  BY <1>1, InvariantHolds, PTL

(***************************************************************************)
(* Offline, one corrupt vector keeps the run from ending well.             *)
(***************************************************************************)
THEOREM CorruptVectorsAreCaught == Spec => []CorruptVectorCaught
<1>1. IInv => CorruptVectorCaught
  BY InvariantCatches
<1>. QED  BY <1>1, InvariantHolds, PTL
-----------------------------------------------------------------------------
(***************************************************************************)
(* The order of the steps of a run, offline or live.                       *)
(***************************************************************************)
Place(s) ==
  CASE s = "fixtures" -> 0 [] s = "vectors" -> 1
    [] s = "reachable" -> 2 [] s = "link" -> 3 [] s = "subscribe" -> 4 [] s = "intent" -> 5
    [] s = "trigger" -> 6 [] s = "triggering" -> 7 [] s = "window" -> 8 [] s = "judge" -> 9
    [] s = "sse" -> 10 [] s = "heartbeat" -> 11 [] s = "replay" -> 12
    [] s = "ratelimit" -> 13 [] s = "manifest" -> 14 [] s = "conditional" -> 15
    [] s = "encoding" -> 16 [] s = "forbidden" -> 17 [] s = "negotiation" -> 18
    [] s = "payment" -> 19 [] s = "content-gate" -> 20 [] s = "x402" -> 21
    [] s = "pulse" -> 22 [] s = "envelope" -> 23 [] s = "registry" -> 24
    [] s = "trust" -> 25 [] s = "delegation" -> 26 [] s = "summary" -> 27
    [] s = "reports" -> 28 [] s = "exited" -> 29 [] OTHER -> 30

(***************************************************************************)
(* A step of the system takes the run to a later step, or replays a        *)
(* vector, or is one of the few things that reach the receiver meanwhile.  *)
(***************************************************************************)
Advances ==
  \/ Place(step) < Place(step')
  \/ /\ step' = step
     /\ \/ left' # left /\ left' \subseteq left
        \/ left' = left /\ posted < posted' /\ posted' \in 0 .. MaxWebhooks
        \/ UNCHANGED <<left, posted>> /\ ~challenged /\ challenged'

RunGoesForward == [][Advances]_vars

(***************************************************************************)
(* No verdict is withdrawn, the label printed is not revised, and the      *)
(* verdicts the label was computed from are those that the reports and the *)
(* exit code are computed from: nothing is judged after the summary.       *)
(***************************************************************************)
Final ==
  /\ results \subseteq results'
  /\ label # "none" => UNCHANGED <<label, results>>
  /\ step \in {"reports", "exited", "hung"} => UNCHANGED results
  /\ exit = Running \/ UNCHANGED <<exit, written>>

VerdictsStay == [][Final]_vars

\* Offline, the first verdict overwrites what was there: nothing.
NoneYet == step = "fixtures" => results = {}
(***************************************************************************)
(* A probe that keeps to the order and only adds to the verdicts.          *)
(***************************************************************************)
Before(p, next) == Place(p) < Place(next) /\ p \notin {"reports", "exited", "hung"}

GoesOn ==
  /\ Before(step, step')
  /\ results \subseteq results'
  /\ UNCHANGED <<label, exit, written>>

LEMMA InSequence ==
  /\ Before("reachable", "link") /\ Before("link", "subscribe") /\ Before("subscribe", "intent")
  /\ Before("subscribe", "trigger") /\ Before("intent", "trigger") /\ Before("trigger", "sse")
  /\ Before("trigger", "triggering") /\ Before("triggering", "window")
  /\ Before("triggering", "judge") /\ Before("window", "judge") /\ Before("judge", "sse")
  /\ Before("sse", "heartbeat") /\ Before("sse", "negotiation") /\ Before("heartbeat", "replay")
  /\ Before("heartbeat", "ratelimit") /\ Before("replay", "ratelimit")
  /\ Before("ratelimit", "manifest") /\ Before("manifest", "conditional")
  /\ Before("manifest", "negotiation") /\ Before("conditional", "encoding")
  /\ Before("encoding", "forbidden") /\ Before("forbidden", "negotiation")
  /\ Before("negotiation", "payment") /\ Before("payment", "content-gate")
  /\ Before("content-gate", "x402") /\ Before("x402", "pulse") /\ Before("pulse", "envelope")
  /\ Before("envelope", "registry") /\ Before("registry", "trust")
  /\ Before("trust", "delegation") /\ Before("delegation", "summary")
  /\ Before("link", "hung") /\ Before("ratelimit", "hung") /\ Before("vectors", "reports")
BY DEF Before, Place

LEMMA ProbeGoesOn ==
  ASSUME NEW p, NEW next, NEW verdicts, Probe(p, next, verdicts), Before(p, next)
  PROVE  GoesOn
BY DEF Probe, Report, local, GoesOn

LEMMA SkippedGoesOn ==
  ASSUME NEW p, NEW next, NEW names, Skipped(p, next, names), Before(p, next)
  PROVE  GoesOn
BY DEF Skipped, Report, local, GoesOn

LEMMA HangGoesOn ==
  ASSUME NEW p, Hang(p), Before(p, "hung")
  PROVE  GoesOn
BY DEF Hang, local, GoesOn

(***************************************************************************)
(* Every probe of a live run goes on.                                      *)
(***************************************************************************)
LEMMA OpeningGoesOn ==
  ASSUME \/ Reachable \/ LinkHeader \/ Subscribe \/ IntentVerification
         \/ StartTestDelivery \/ TriggerTestDelivery \/ WindowCloses \/ JudgeDelivery
  PROVE  GoesOn
<1>1. CASE Reachable \/ LinkHeader
  BY <1>1, InSequence, ProbeGoesOn, SkippedGoesOn, HangGoesOn DEF Reachable, LinkHeader
<1>2. CASE Subscribe
  <2>1. CASE Skipped("subscribe", "trigger", {"subscription", "intent"})
    BY <2>1, InSequence, SkippedGoesOn
  <2>2. CASE step = "subscribe" /\ ~Skipped("subscribe", "trigger", {"subscription", "intent"})
    <3>1. /\ results \subseteq results' /\ step' \in {"trigger", "intent"}
          /\ UNCHANGED <<label, exit, written>>
      BY <1>2, <2>2 DEF Subscribe, Report
    <3>. QED  BY <2>2, <3>1, InSequence DEF GoesOn
  <2>. QED  BY <1>2, <2>1, <2>2 DEF Subscribe
<1>3. CASE StartTestDelivery
  <2>1. CASE Skipped("trigger", "sse", {"webhook delivery"})
    BY <2>1, InSequence, SkippedGoesOn
  <2>2. CASE ~Skipped("trigger", "sse", {"webhook delivery"})
    BY <1>3, <2>2, InSequence DEF StartTestDelivery, GoesOn
  <2>. QED  BY <2>1, <2>2
<1>4. CASE TriggerTestDelivery
  <2>1. /\ step = "triggering" /\ results \subseteq results' /\ step' \in {"window", "judge"}
        /\ UNCHANGED <<label, exit, written>>
    BY <1>4 DEF TriggerTestDelivery, Report
  <2>. QED  BY <2>1, InSequence DEF GoesOn
<1>5. CASE IntentVerification \/ WindowCloses
  BY <1>5, InSequence DEF IntentVerification, WindowCloses, Report, local, GoesOn
<1>6. CASE JudgeDelivery
  <2>1. /\ step = "judge" /\ results \subseteq results' /\ step' = "sse"
        /\ UNCHANGED <<label, exit, written>>
    BY <1>6 DEF JudgeDelivery, Report
  <2>. QED  BY <2>1, InSequence DEF GoesOn
<1>. QED  BY <1>1, <1>2, <1>3, <1>4, <1>5, <1>6

LEMMA MiddleGoesOn ==
  ASSUME \/ SseEndpoint \/ ReadStream \/ Replay \/ RateLimit
         \/ Manifest \/ Conditional \/ Encoding \/ Forbidden
         \/ Negotiation \/ PaymentGate \/ ContentGate \/ X402Challenge \/ Pulse
         \/ EnvelopeHelpers \/ Registry \/ TrustStatus \/ Delegation
  PROVE  GoesOn
<1>1. CASE SseEndpoint \/ Replay \/ RateLimit
  BY <1>1, InSequence, ProbeGoesOn, SkippedGoesOn, HangGoesOn DEF SseEndpoint, Replay, RateLimit
<1>2. CASE ReadStream
  <2>1. CASE Skipped("heartbeat", "ratelimit", {"heartbeat", "replay"})
    BY <2>1, InSequence, SkippedGoesOn
  <2>2. CASE ~Skipped("heartbeat", "ratelimit", {"heartbeat", "replay"})
    <3>1. /\ step = "heartbeat" /\ results \subseteq results'
          /\ step' \in {"replay", "ratelimit"} /\ UNCHANGED <<label, exit, written>>
      BY <1>2, <2>2 DEF ReadStream, Report
    <3>. QED  BY <3>1, InSequence DEF GoesOn
  <2>. QED  BY <2>1, <2>2
<1>3. CASE Manifest \/ Conditional \/ Encoding \/ Forbidden
  BY <1>3, InSequence, ProbeGoesOn, SkippedGoesOn DEF Manifest, Conditional, Encoding, Forbidden
<1>4. CASE Negotiation \/ PaymentGate \/ ContentGate \/ X402Challenge \/ Pulse
  BY <1>4, InSequence, ProbeGoesOn, SkippedGoesOn
     DEF Negotiation, PaymentGate, ContentGate, X402Challenge, Pulse
<1>5. CASE EnvelopeHelpers
  <2>1. /\ step = "envelope" /\ results \subseteq results' /\ step' = "registry"
        /\ UNCHANGED <<label, exit, written>>
    BY <1>5 DEF EnvelopeHelpers, Report, local
  <2>. QED  BY <2>1, InSequence DEF GoesOn
<1>6. CASE Registry \/ TrustStatus \/ Delegation
  BY <1>6, InSequence, ProbeGoesOn DEF Registry, TrustStatus, Delegation
<1>. QED  BY <1>1, <1>2, <1>3, <1>4, <1>5, <1>6

LEMMA StepAdvances ==
  ASSUME IInv, NoneYet, [Next]_vars
  PROVE  (Advances \/ UNCHANGED vars) /\ Final /\ NoneYet'
<1>0. /\ step \notin {"reports", "exited"} => label = "none"
      /\ step # "exited" => exit = Running
  BY DEF IInv, Recorded, Live, Closing, Offline
<1>1. CASE GoesOn
  <2>1. step' # "fixtures"
    BY <1>1 DEF GoesOn, Before, Place
  <2>2. Advances
    BY <1>1 DEF GoesOn, Before, Advances
  <2>3. Final
    BY <1>0, <1>1 DEF GoesOn, Before, Final
  <2>. QED  BY <2>1, <2>2, <2>3 DEF NoneYet
<1>2. CASE Summarise
  <2>1. /\ step = "summary" /\ step' = "reports" /\ UNCHANGED <<results, exit, written>>
    BY <1>2 DEF Summarise
  <2>2. Place("summary") < Place("reports")
    BY DEF Place
  <2>. QED  BY <1>0, <2>1, <2>2 DEF Advances, Final, NoneYet
<1>3. CASE WriteReports
  <2>1. /\ step = "reports" /\ step' = "exited" /\ UNCHANGED <<results, label>>
    BY <1>3 DEF WriteReports
  <2>2. Place("reports") < Place("exited")
    BY DEF Place
  <2>. QED  BY <1>0, <2>1, <2>2 DEF Advances, Final, NoneYet
<1>4. CASE findFixturesDir
  <2>1. /\ step = "fixtures" /\ step' \in {"vectors", "exited"} /\ UNCHANGED <<label, written>>
    BY <1>4 DEF findFixturesDir
  <2>2. Place("fixtures") < Place("vectors") /\ Place("fixtures") < Place("exited")
    BY DEF Place
  <2>3. results \subseteq results' /\ exit = Running
    BY <1>0, <2>1 DEF NoneYet
  <2>. QED  BY <1>0, <2>1, <2>2, <2>3 DEF Advances, Final, NoneYet
<1>5. CASE runFixtures
  <2>1. /\ step = "vectors" /\ results \subseteq results' /\ UNCHANGED <<label, exit, written>>
        /\ step' \in {"vectors", "reports"}
        /\ step' = "reports" \/ (left' # left /\ left' \subseteq left)
    BY <1>5 DEF runFixtures, Report
  <2>2. Place("vectors") < Place("reports")
    BY DEF Place
  <2>. QED  BY <1>0, <2>1, <2>2 DEF Advances, Final, NoneYet
<1>6. ASSUME NEW w \in Webhooks, ReceiveWebhook(w)
      PROVE  Advances /\ Final /\ NoneYet'
  <2>1. /\ UNCHANGED <<step, results, left, label, exit, written>>
        /\ posted < MaxWebhooks /\ posted' = posted + 1
    BY <1>6 DEF ReceiveWebhook
  <2>2. posted < posted' /\ posted' \in 0 .. MaxWebhooks
    BY <2>1, ComplianceAssumption DEF IInv, Bounded
  <2>. QED  BY <2>1, <2>2 DEF Advances, Final, NoneYet
<1>7. CASE ReceiveChallenge
  BY <1>7 DEF ReceiveChallenge, Advances, Final, NoneYet
<1>8. CASE UNCHANGED vars
  BY <1>8 DEF vars, Final, NoneYet
<1>9. Run => GoesOn \/ Summarise \/ WriteReports \/ findFixturesDir \/ runFixtures
  BY OpeningGoesOn, MiddleGoesOn DEF Run
<1>. QED  BY <1>1, <1>2, <1>3, <1>4, <1>5, <1>6, <1>7, <1>8, <1>9 DEF Next

LEMMA AlwaysNoneYet == Spec => [](IInv /\ NoneYet)
<1>1. Init => NoneYet
  BY DEF Init, NoneYet
<1>2. IInv /\ NoneYet /\ [Next]_vars => NoneYet'
  BY StepAdvances
<1>. QED  BY <1>1, <1>2, InvariantHolds, PTL DEF Spec

(***************************************************************************)
(* Every step takes the run forward in the order of its probes, replays    *)
(* one vector fewer, or is one of boundedly many posts to the receiver: no *)
(* answer of a platform sends the tool back.  That a run goes on at all is *)
(* fairness.                                                               *)
(***************************************************************************)
THEOREM RunsGoForward == Spec => RunGoesForward
<1>1. IInv /\ NoneYet /\ [Next]_vars => Advances \/ UNCHANGED vars
  BY StepAdvances
<1>. QED  BY <1>1, AlwaysNoneYet, PTL DEF Spec, RunGoesForward

(***************************************************************************)
(* Verdicts only accumulate, and the label, the reports and the exit code  *)
(* are computed from the same verdicts, once.                              *)
(***************************************************************************)
THEOREM VerdictsAreKept == Spec => VerdictsStay
<1>1. IInv /\ NoneYet /\ [Next]_vars => Final
  BY StepAdvances
<1>. QED  BY <1>1, AlwaysNoneYet, PTL DEF Spec, VerdictsStay
=============================================================================
