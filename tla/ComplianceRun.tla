---------------------------- MODULE ComplianceRun ----------------------------
(***************************************************************************)
(* A run of the compliance command-line tool: the probes of one platform,  *)
(* in order, the webhooks and the challenge its local receiver gets while  *)
(* they run, the summary, the reports and the exit code; or, offline, the  *)
(* conformance vectors.  The platform answers each request as it likes;    *)
(* the answers other than those of an exemplary platform are counted.      *)
(***************************************************************************)
EXTENDS Naturals, FiniteSets

CONSTANTS Options,       \* the command lines considered
          Webhooks,      \* what a platform may post to the receiver
          Vectors,       \* the conformance vectors of the offline mode
          NoWebhook,
          MaxDeviations, \* bound: answers that are not exemplary
          MaxWebhooks    \* bound: webhooks posted

WebhookHeaders == {"webhook-id", "webhook-timestamp", "webhook-signature"}
Attributes == {"specversion", "id", "source", "type", "time", "eep_version"}

(***************************************************************************)
(* A command line: whether it has a key, the entity if any, the level,     *)
(* whether the schemas were found, whether reports are asked for, and      *)
(* whether the tool works offline.  The level is any string: validateArgs  *)
(* would refuse others than the three, and nothing calls it.               *)
(***************************************************************************)
CommandLine ==
  [key : BOOLEAN, entity : {"", "name", "did"}, level : STRING,
   schemas : BOOLEAN, reports : BOOLEAN, fixtures : BOOLEAN]

validateArgs(line) == line.level \in {"core", "standard", "full"}

ASSUME ComplianceAssumption ==
  /\ Options \subseteq CommandLine
  /\ \A w \in Webhooks :
       /\ w.headers \subseteq WebhookHeaders /\ w.attributes \subseteq Attributes
       /\ {w.json, w.signed, w.fresh, w.conforms} \subseteq BOOLEAN
  /\ NoWebhook \notin Webhooks
  /\ \A v \in Vectors : {v.readable, v.asserts_valid, v.signed, v.expired} \subseteq BOOLEAN
  /\ MaxDeviations \in Nat /\ MaxWebhooks \in Nat

VARIABLES options,
          step,        \* the probe that is next
          results,     \* the verdicts reported so far: name and status
          subscription,\* subscriptionId and webhookSecret
          challenged,  \* the receiver answered the challenge
          received,    \* receivedWebhook, with its headers
          triggered,
          posted,      \* how many webhooks were posted
          deviations,
          left,        \* the vectors not yet replayed
          exit,        \* the exit code; Running while the tool runs
          label,       \* the conformance label printed
          written,     \* the audit report in the files asked for
          seen         \* history: the event stream, the webhooks since the reset, and
                       \* the one judged with how many had been posted by then

vars == <<options, step, results, subscription, challenged, received, triggered, posted,
          deviations, left, exit, label, written, seen>>

Running == 3

receiver == <<challenged, received, posted>>
local == <<options, subscription, triggered, left, exit, label, written, seen>>

Pass(name) == [name |-> name, status |-> "pass"]
Fail(name) == [name |-> name, status |-> "fail"]
Skip(name) == [name |-> name, status |-> "skip"]

Check(name, holds) == IF holds THEN Pass(name) ELSE Fail(name)
SkipsSilently(names) == {}                            \* mutant

SkipAll(names) == {Skip(name) : name \in names}

(***************************************************************************)
(* A platform answers a request: as an exemplary one does, or otherwise.   *)
(***************************************************************************)
Answer(exemplary) ==
  /\ exemplary \/ deviations < MaxDeviations
  /\ deviations' = IF exemplary THEN deviations ELSE deviations + 1

Report(verdicts, next) ==
  /\ results' = results \cup verdicts
  /\ step' = next

Summary(status) == Cardinality({r \in results : r.status = status})

(***************************************************************************)
(* A probe that needs something the command line does not give is skipped. *)
(***************************************************************************)
Skipped(probe, next, names) ==
  /\ step = probe
  /\ Report(SkipAll(names), next)
  /\ UNCHANGED <<local, receiver, deviations>>

(***************************************************************************)
(* A probe of one request: each answer with the verdicts it leads to.  The *)
(* answer "exemplary" is what an exemplary platform sends; "none" is a     *)
(* request that fails or times out.                                        *)
(***************************************************************************)
Probe(probe, next, verdicts) ==
  /\ step = probe
  /\ \E answer \in DOMAIN verdicts :
       /\ Answer(answer = "exemplary")
       /\ Report(verdicts[answer], next)
  /\ UNCHANGED <<local, receiver>>

(***************************************************************************)
(* A request without a timeout that is never answered: the run hangs.      *)
(***************************************************************************)
Hang(probe) ==
  /\ step = probe
  /\ Answer(FALSE)
  /\ step' = "hung"
  /\ UNCHANGED <<results, local, receiver>>
-----------------------------------------------------------------------------
(***************************************************************************)
(* The webhook receiver runs beside the probes.  A webhook is let in where *)
(* it makes a difference: before the receiver is reset, while the test     *)
(* delivery is awaited, and before the last look at what was received.     *)
(***************************************************************************)
ReceiveWebhook(w) ==
  /\ step \in {"trigger", "triggering", "window", "envelope"}
  /\ posted < MaxWebhooks
  /\ received' = w /\ posted' = posted + 1
  /\ seen' = [seen EXCEPT !.sent = @ \cup {w}]
  /\ UNCHANGED <<options, step, results, subscription, challenged, triggered, deviations,
                 left, exit, label, written>>

ReceiveChallenge ==
  /\ step \in {"subscribe", "intent"} /\ ~challenged
  /\ challenged' = TRUE
  /\ UNCHANGED <<options, step, results, subscription, received, triggered, posted,
                 deviations, left, exit, label, written, seen>>
-----------------------------------------------------------------------------
Reachable ==
  Probe("reachable", "link",
    [exemplary |-> {Pass("reachable")}, error |-> {Fail("reachable")},
     none |-> {Fail("reachable")}])

LinkHeader ==
  \/ options.entity = "" /\ Skipped("link", "subscribe", {"link"})
  \/ /\ options.entity # ""
     /\ \/ Probe("link", "subscribe",
             [exemplary |-> {Pass("link")}, missing |-> {Fail("link")}, none |-> {Fail("link")}])
        \/ Hang("link")

(***************************************************************************)
(* The body is parsed before the status is looked at: an answer that is    *)
(* not JSON fails both probes, whatever its status.  Otherwise the         *)
(* challenge is awaited, even after a refusal.                             *)
(***************************************************************************)
Subscribe ==
  \/ /\ ~(options.key /\ options.entity # "")
     /\ Skipped("subscribe", "trigger", {"subscription", "intent"})
  \/ /\ options.key /\ options.entity # "" /\ step = "subscribe"
     /\ \E answer \in {"exemplary", "no secret", "refused", "not json"} :
          /\ Answer(answer = "exemplary")
          /\ subscription' = (answer = "exemplary")
          /\ IF answer = "not json"
             THEN Report({Fail("subscription"), Fail("intent")}, "trigger")
             ELSE Report({Check("subscription", answer # "refused")}, "intent")
     /\ UNCHANGED <<options, receiver, triggered, left, exit, label, written, seen>>

IntentVerification ==
  /\ step = "intent"
  /\ Report({Check("intent", challenged)}, "trigger")
  /\ UNCHANGED <<local, receiver, deviations>>

(***************************************************************************)
(* The receiver is reset, and the test delivery requested.                 *)
(***************************************************************************)
KeepsOldWebhook ==                                    \* mutant
  \/ ~subscription /\ Skipped("trigger", "sse", {"webhook delivery"})
  \/ /\ subscription /\ step = "trigger"
     /\ seen' = [seen EXCEPT !.sent = {}]
     /\ step' = "triggering"
     /\ UNCHANGED <<options, results, subscription, triggered, left, exit, label, receiver,
                    deviations, written>>

StartTestDelivery ==
  \/ ~subscription /\ Skipped("trigger", "sse", {"webhook delivery"})
  \/ /\ subscription /\ step = "trigger"
     /\ received' = NoWebhook
     /\ seen' = [seen EXCEPT !.sent = {}]
     /\ step' = "triggering"
     /\ UNCHANGED <<options, results, subscription, triggered, left, exit, label, written, challenged,
                    posted, deviations>>

TriggerTestDelivery ==
  /\ step = "triggering"
  /\ \E accepted \in BOOLEAN :
       /\ Answer(accepted)
       /\ triggered' = accepted
       /\ Report({Check("trigger", accepted)}, IF accepted THEN "window" ELSE "judge")
  /\ UNCHANGED <<options, subscription, receiver, left, exit, label, written, seen>>

(***************************************************************************)
(* Five seconds pass.                                                      *)
(***************************************************************************)
WaitsForWebhook ==                                    \* mutant
  /\ step = "window" /\ received # NoWebhook
  /\ step' = "judge"
  /\ UNCHANGED <<results, local, receiver, deviations>>

WindowCloses ==
  /\ step = "window"
  /\ step' = "judge"
  /\ UNCHANGED <<results, local, receiver, deviations>>

SignatureVerdicts(w) ==
  IF w.headers = WebhookHeaders
  THEN {Pass("headers"), Check("signature", w.signed), Check("fresh", w.fresh)}
  ELSE {Fail("headers")} \cup
       (IF "webhook-signature" \in w.headers THEN {Fail("signature")} ELSE {})

EnvelopeVerdicts(w) ==
  {IF options.schemas THEN Check("event schema", w.conforms) ELSE Skip("event schema"),
   Check("specversion", "specversion" \in w.attributes),
   Check("id", "id" \in w.attributes), Check("source", "source" \in w.attributes),
   Check("eep extensions", "eep_version" \in w.attributes)}

Untested == {"headers", "signature", "specversion", "id", "source"}

JudgeDelivery ==
  /\ step = "judge"
  /\ Report(IF triggered /\ received # NoWebhook
            THEN {Pass("delivery")} \cup SignatureVerdicts(received) \cup EnvelopeVerdicts(received)
            ELSE IF ~triggered THEN SkipAll(Untested \cup {"delivery"})
            ELSE {Fail("delivery")} \cup SkipAll(Untested),
            "sse")
  /\ seen' = [seen EXCEPT !.judged = received, !.by = posted]
  /\ UNCHANGED <<options, subscription, triggered, left, exit, label, written, receiver, deviations>>
-----------------------------------------------------------------------------
Standard == options.level \in {"standard", "full"}
Full == options.level = "full"

(***************************************************************************)
(* An endpoint that has not answered after three seconds passes: aborted.  *)
(***************************************************************************)
SseEndpoint ==
  \/ ~Standard /\ Skipped("sse", "negotiation", {})
  \/ Standard /\ ~(options.key /\ options.entity # "") /\ Skipped("sse", "heartbeat", {"sse"})
  \/ /\ Standard /\ options.key /\ options.entity # ""
     /\ Probe("sse", "heartbeat",
          [exemplary |-> {Pass("sse")}, aborted |-> {Pass("sse")}, other |-> {Fail("sse")},
           none |-> {Fail("sse")}])

(***************************************************************************)
(* readStream: what was read is returned when the stream ends, or has      *)
(* filled the buffer; a stream that is still open when the time is up, or  *)
(* one that breaks, is aborted and nothing of it is returned.              *)
(***************************************************************************)
Stream == [ends : BOOLEAN, heartbeat : BOOLEAN, ids : BOOLEAN]
Exemplary == [ends |-> TRUE, heartbeat |-> TRUE, ids |-> TRUE]
Nothing == [ends |-> TRUE, heartbeat |-> FALSE, ids |-> FALSE]

readStream(stream) == IF stream.ends THEN stream ELSE Nothing

ReadStream ==
  \/ /\ ~(options.key /\ options.entity # "")
     /\ Skipped("heartbeat", "ratelimit", {"heartbeat", "replay"})
  \/ /\ options.key /\ options.entity # "" /\ step = "heartbeat"
     /\ \E stream \in Stream :
          LET sample == readStream(stream) IN
            /\ Answer(stream = Exemplary)
            /\ seen' = [seen EXCEPT !.stream = stream]
            /\ IF sample = Nothing THEN Report(SkipAll({"heartbeat", "replay"}), "ratelimit")
               ELSE IF sample.ids THEN Report({Check("heartbeat", sample.heartbeat)}, "replay")
               ELSE Report({Check("heartbeat", sample.heartbeat), Skip("replay")}, "ratelimit")
     /\ UNCHANGED <<options, subscription, triggered, left, exit, label, written, receiver>>

(***************************************************************************)
(* The second connection: the events after the cursor, none, or the cursor *)
(* again.  An open stream is lost here too.                                *)
(***************************************************************************)
Replay ==
  Probe("replay", "ratelimit",
    [exemplary |-> {Pass("replay")}, cursor |-> {Fail("replay")}, none |-> {Fail("replay")},
     open |-> {Fail("replay")}])

RateLimit ==
  \/ ~options.key /\ Skipped("ratelimit", "manifest", {"ratelimit", "policy", "x-ratelimit"})
  \/ /\ options.key
     /\ \/ Probe("ratelimit", "manifest",
             [exemplary |-> {Pass("ratelimit"), Pass("policy"), Pass("x-ratelimit")},
              standard |-> {Pass("ratelimit"), Pass("policy"), Skip("x-ratelimit")},
              legacy |-> {Fail("ratelimit"), Fail("policy"), Pass("x-ratelimit")},
              none |-> {Fail("ratelimit")}])
        \/ Hang("ratelimit")
-----------------------------------------------------------------------------
ManifestFields == {"did", "eep_version", "reputation", "pqc_ready", "x402_enabled"}

ManifestSchema(conforms) ==
  IF options.schemas THEN Check("manifest schema", conforms) ELSE Skip("manifest schema")

(***************************************************************************)
(* A manifest that is the JSON null is reported reachable before its first *)
(* field is read, which throws, and then unreachable.                      *)
(***************************************************************************)
Manifest ==
  \/ ~Full /\ Skipped("manifest", "negotiation", {})
  \/ /\ Full
     /\ LET found == {Pass("manifest")}
            fields == {Pass(f) : f \in {"did", "eep_version"}}
        IN Probe("manifest", "conditional",
             [exemplary |-> found \cup {ManifestSchema(TRUE), Pass("capabilities")}
                              \cup {Pass(f) : f \in ManifestFields},
              plain |-> found \cup fields \cup {ManifestSchema(TRUE)} \cup
                SkipAll({"reputation", "pqc_ready", "x402_enabled", "capabilities"}),
              odd |-> found \cup {ManifestSchema(FALSE), Fail("did"), Fail("eep_version"),
                Fail("pqc_ready"), Fail("x402_enabled")} \cup SkipAll({"reputation", "capabilities"}),
              null |-> found \cup {ManifestSchema(FALSE), Fail("manifest")},
              missing |-> {Fail("manifest")} \cup SkipAll(ManifestFields),
              none |-> {Fail("manifest")}])

(***************************************************************************)
(* Up to three requests: the first shows the validator, the second sends   *)
(* it back, the third asks afresh.  A failure anywhere is reported under   *)
(* the first name, next to what was reported before it.                    *)
(***************************************************************************)
Conditional ==
  Probe("conditional", "encoding",
    [exemplary |-> {Pass(n) : n \in {"etag", "if-none-match", "stable", "cache-control"}},
     resent |-> {Pass("etag"), Fail("if-none-match"), Pass("stable"), Pass("cache-control")},
     unstable |-> {Pass("etag"), Fail("if-none-match"), Fail("stable"), Fail("cache-control")},
     without |-> {Fail("etag"), Pass("cache-control")} \cup SkipAll({"if-none-match", "stable"}),
     second |-> {Pass("etag"), Fail("etag")},
     none |-> {Fail("etag")}])

Encoding ==
  Probe("encoding", "forbidden",
    [exemplary |-> {Pass("encoding")}, identity |-> {Fail("encoding")}, none |-> {Fail("encoding")}])

Forbidden ==
  \/ options.entity = "" /\ Skipped("forbidden", "negotiation", {"forbidden"})
  \/ /\ options.entity # ""
     /\ Probe("forbidden", "negotiation",
          [exemplary |-> {Pass("forbidden")}, body |-> {Skip("forbidden body")},
           other |-> {Skip("forbidden")}, none |-> {Skip("forbidden")}])
-----------------------------------------------------------------------------
Negotiation ==
  \/ options.entity = "" /\ Skipped("negotiation", "payment", {"negotiation"})
  \/ /\ options.entity # ""
     /\ Probe("negotiation", "payment",
          [exemplary |-> {Pass("json"), Pass("markdown")}, json |-> {Pass("json"), Skip("markdown")},
           neither |-> {Fail("json"), Skip("markdown")}, none |-> {Fail("negotiation")}])

PaymentGate ==
  \/ options.entity = "" /\ Skipped("payment", "content-gate", {"payment"})
  \/ /\ options.entity # ""
     /\ Probe("payment", "content-gate",
          [exemplary |-> {Pass("payment")}, body |-> {Skip("payment body")},
           other |-> {Skip("payment")}, none |-> {Skip("payment")}])

ContentGate ==
  \/ options.entity # "did" /\ Skipped("content-gate", "x402", {"content-gate"})
  \/ /\ options.entity = "did"
     /\ Probe("content-gate", "x402",
          [exemplary |-> {Pass("content-gate")}, granted |-> {Skip("content-gate")},
           none |-> {Skip("content-gate")}])

X402Challenge ==
  \/ options.entity # "did" /\ Skipped("x402", "pulse", {"x402"})
  \/ /\ options.entity = "did"
     /\ Probe("x402", "pulse",
          [exemplary |-> {Pass("x402")}, incomplete |-> {Fail("x402")}, disabled |-> {Skip("x402")},
           none |-> {Skip("x402")}])

Pulse ==
  Probe("pulse", "envelope",
    [exemplary |-> {Pass("pulse")}, other |-> {Skip("pulse")}, none |-> {Skip("pulse")}])

(***************************************************************************)
(* The helpers look again at what was received, whatever came since.       *)
(***************************************************************************)
validateCloudEventsEnvelope(w) == {"specversion", "id", "source", "type", "time"} \ w.attributes
RequiresType(w) == {"eep_version", "type"} \ w.attributes     \* mutant

validateEEPExtensions(w) == {"eep_version"} \ w.attributes
checkWebhookHeaders(w) == WebhookHeaders \ w.headers

HelperVerdicts(w) ==
  {Check("envelope helper", validateCloudEventsEnvelope(w) = {}),
   Check("extension helper", validateEEPExtensions(w) = {}),
   Check("headers helper", checkWebhookHeaders(w) = {})}

EnvelopeHelpers ==
  /\ step = "envelope"
  /\ Report(IF received # NoWebhook /\ received.json THEN HelperVerdicts(received) ELSE {},
            "registry")
  /\ UNCHANGED <<local, receiver, deviations>>

Registry ==
  Probe("registry", "trust",
    [exemplary |-> {Pass("registry")}, bare |-> {Skip("registry")}, none |-> {Skip("registry")}])

TrustStatus ==
  Probe("trust", "delegation",
    [exemplary |-> {Pass("trust")}, invalid |-> {Fail("trust")}, none |-> {Skip("trust")}])

Delegation ==
  Probe("delegation", "summary",
    [exemplary |-> {Pass("delegation")}, invalid |-> {Skip("delegation")}, none |-> {Skip("delegation")}])
-----------------------------------------------------------------------------
(***************************************************************************)
(* The label: a failure, nothing verified, something skipped, or a claim.  *)
(***************************************************************************)
conformanceLabel ==
  IF Summary("fail") > 0 \/ Summary("pass") = 0 THEN "not compliant"
  ELSE IF Summary("skip") > 0 THEN "incomplete"
  ELSE "compliant"

Summarise ==
  /\ step = "summary"
  /\ label' = conformanceLabel
  /\ step' = "reports"
  /\ UNCHANGED <<options, results, subscription, triggered, left, exit, written, seen, receiver, deviations>>

ExitsWellIfAnyPassed == IF Summary("pass") = 0 THEN 1 ELSE 0  \* mutant

ExitCode == IF Summary("fail") > 0 THEN 1 ELSE 0

(***************************************************************************)
(* The audit report: a score rounded to the nearest percent of what was    *)
(* evaluated, and a status.                                                *)
(***************************************************************************)
NoReport == [score |-> 0, status |-> "none"]

Scored(passed, evaluated) ==
  IF evaluated = 0 THEN 0 ELSE (200 * passed + evaluated) \div (2 * evaluated)

CountsSkipsAsDone ==                                  \* mutant
  [score |-> Scored(Summary("pass") + Summary("skip"), Cardinality(results)),
   status |-> IF Summary("pass") > 0 THEN "pass" ELSE "fail"]

toAuditReport ==
  [score |-> Scored(Summary("pass"), Summary("pass") + Summary("fail")),
   status |-> IF Summary("fail") = 0 THEN "pass" ELSE "fail"]

(***************************************************************************)
(* writeReports may throw, on a path that cannot be written.  The live     *)
(* path logs the error and closes the receiver: the process then ends with *)
(* nothing to do.  Offline the error ends the process.                     *)
(***************************************************************************)
WriteReports ==
  /\ step = "reports"
  /\ \/ /\ exit' = ExitCode /\ deviations' = deviations
        /\ written' = IF options.reports THEN toAuditReport ELSE NoReport
     \/ /\ options.reports /\ Answer(FALSE)
        /\ exit' = IF options.fixtures THEN 1 ELSE 0
        /\ written' \in {NoReport, toAuditReport}
  /\ step' = "exited"
  /\ UNCHANGED <<options, results, subscription, triggered, left, label, seen, receiver>>
-----------------------------------------------------------------------------
(***************************************************************************)
(* The offline mode.  A vector is a document with a schema, a signed       *)
(* delivery, or files that only have to be there.                          *)
(***************************************************************************)
findFixturesDir ==
  /\ step = "fixtures"
  /\ \E found \in BOOLEAN :
       /\ Answer(found)
       /\ step' = IF found THEN "vectors" ELSE "exited"
       /\ exit' = IF found THEN exit ELSE 2
       /\ results' = IF found /\ ~options.schemas THEN {Skip("schemas")} ELSE results
  /\ UNCHANGED <<options, subscription, triggered, left, label, written, seen, receiver>>

(***************************************************************************)
(* A negative document that its schema accepts needs a recorded reason.    *)
(***************************************************************************)
runJsonPair(v) ==
  IF ~v.readable \/ v.expected # v.asserts_valid THEN Fail(v.id)
  ELSE IF ~v.schema \/ ~options.schemas THEN Pass(v.id)
  ELSE IF ~v.bundled THEN Skip(v.id)
  ELSE Check(v.id, IF v.asserts_valid THEN v.conforms ELSE v.reason \/ ~v.conforms)

(***************************************************************************)
(* An expired delivery is signed correctly.                                *)
(***************************************************************************)
TrustsManifest(v) ==                                  \* mutant
  IF ~v.readable THEN Fail(v.id) ELSE Check(v.id, v.asserts_valid \/ ~v.signed \/ v.expired)

runSignedBundle(v) ==
  IF ~v.readable THEN Fail(v.id)
  ELSE IF ~v.body THEN Pass(v.id)
  ELSE Check(v.id, v.signed = (v.expired \/ v.asserts_valid))

runStaticBundle(v) == Check(v.id, v.readable)

runFixture(v) ==
  CASE v.shape = "json-pair" -> runJsonPair(v)
    [] v.shape = "signed-bundle" -> runSignedBundle(v)
    [] v.shape = "bundle" -> runStaticBundle(v)
    [] OTHER -> Skip(v.id)

runFixtures ==
  /\ step = "vectors"
  /\ \/ \E v \in left :
          /\ left' = left \ {v}
          /\ Report({runFixture(v)}, "vectors")
     \/ left = {} /\ Report({}, "reports") /\ left' = left
  /\ UNCHANGED <<options, subscription, triggered, exit, label, written, seen, receiver, deviations>>
-----------------------------------------------------------------------------
Init ==
  /\ options \in Options
  /\ step = IF options.fixtures THEN "fixtures" ELSE "reachable"
  /\ results = {} /\ subscription = FALSE /\ challenged = FALSE
  /\ received = NoWebhook /\ triggered = FALSE /\ posted = 0
  /\ deviations = 0
  /\ left = Vectors
  /\ exit = Running /\ label = "none" /\ written = NoReport
  /\ seen = [stream |-> Nothing, sent |-> {}, judged |-> NoWebhook, by |-> 0]

Run ==
  \/ Reachable \/ LinkHeader \/ Subscribe \/ IntentVerification
  \/ StartTestDelivery \/ TriggerTestDelivery \/ WindowCloses \/ JudgeDelivery
  \/ SseEndpoint \/ ReadStream \/ Replay \/ RateLimit
  \/ Manifest \/ Conditional \/ Encoding \/ Forbidden
  \/ Negotiation \/ PaymentGate \/ ContentGate \/ X402Challenge \/ Pulse
  \/ EnvelopeHelpers \/ Registry \/ TrustStatus \/ Delegation
  \/ Summarise \/ WriteReports \/ findFixturesDir \/ runFixtures

Next ==
  \/ Run
  \/ \E w \in Webhooks : ReceiveWebhook(w)
  \/ ReceiveChallenge

Spec == Init /\ [][Next]_vars

(***************************************************************************)
(* The tool goes on: its fetches and reads end by their timeouts, and the  *)
(* two requests that have none are answered or fail.                       *)
(***************************************************************************)
FairSpec == Spec /\ WF_vars(Run)

(***************************************************************************)
(* Every variable has its type; verdicts are the three the tool prints.    *)
(***************************************************************************)
TypeOK ==
  /\ options \in Options
  /\ \A r \in results : r.status \in {"pass", "fail", "skip"}
  /\ {subscription, challenged, triggered} \subseteq BOOLEAN
  /\ received \in Webhooks \cup {NoWebhook} /\ seen.judged \in Webhooks \cup {NoWebhook}
  /\ posted \in 0 .. MaxWebhooks /\ deviations \in 0 .. MaxDeviations
  /\ left \subseteq Vectors
  /\ exit \in 0 .. Running
  /\ label \in {"none", "compliant", "incomplete", "not compliant"}
  /\ written.score \in 0 .. 100 /\ written.status \in {"none", "pass", "fail"}
  /\ exit # Running <=> step = "exited"
-----------------------------------------------------------------------------
Passed == {r.name : r \in {v \in results : v.status = "pass"}}
Failed == {r.name : r \in {v \in results : v.status = "fail"}}

CoreProbes ==
  {"reachable", "link", "subscription", "intent", "trigger", "delivery", "headers",
   "signature", "fresh", "event schema", "specversion", "id", "source", "eep extensions"}
StandardProbes == CoreProbes \cup {"sse", "heartbeat", "replay", "ratelimit", "policy"}
FullProbes ==
  StandardProbes \cup {"manifest", "manifest schema", "did", "eep_version", "etag",
                       "if-none-match", "stable", "cache-control", "encoding"}

Claimed ==
  CASE options.level = "core" -> CoreProbes
    [] options.level = "standard" -> StandardProbes
    [] OTHER -> FullProbes

(***************************************************************************)
(* helpers.ts: "A conformance claim must be earned, not granted by         *)
(* omission".  A run that claims a level has passed every probe of it and  *)
(* failed none: no path through the probes leaves one out silently.        *)
(***************************************************************************)
ClaimEarned == label = "compliant" => Claimed \subseteq Passed /\ Failed = {}

ClaimEarnedAtALevel == validateArgs(options) => ClaimEarned

(***************************************************************************)
(* The exit code is zero only when nothing failed, and not zero when       *)
(* something did.                                                          *)
(***************************************************************************)
ExitTellsFailures == step = "exited" /\ Failed # {} => exit # 0

(***************************************************************************)
(* So it is, except for a live run asked for a report it cannot write.     *)
(***************************************************************************)
ExitTellsFailuresIfReported == (options.fixtures \/ ~options.reports) => ExitTellsFailures

(***************************************************************************)
(* The written report and the printed label come from two computations:    *)
(* a claim is reported as a pass with the full score, and a pass where     *)
(* something passed and nothing was skipped is a claim.                    *)
(***************************************************************************)
ReportTellsLabel ==
  written # NoReport /\ ~options.fixtures =>
    /\ label = "compliant" => written = [score |-> 100, status |-> "pass"]
    /\ written.status = "pass" /\ written.score = 100 => label \in {"compliant", "incomplete"}
    /\ label = "not compliant" => written.status = "fail"

(***************************************************************************)
(* In a live run a verdict on the signature rests on a webhook that came   *)
(* after the test delivery was requested, never on one left over.          *)
(***************************************************************************)
SignatureHasEvidence ==
  ~options.fixtures /\ "signature" \in Passed \cup Failed =>
    /\ triggered
    /\ seen.judged \in seen.sent
    /\ "signature" \in Passed => seen.judged.signed /\ seen.judged.headers = WebhookHeaders

(***************************************************************************)
(* Two parts of the tool look at what was received, minutes apart; unless  *)
(* another webhook came in between they say the same of it.                *)
(***************************************************************************)
SecondLookAgrees ==
  /\ seen.judged # NoWebhook /\ triggered /\ posted = seen.by
  /\ "extension helper" \in Passed \cup Failed
  =>
    /\ "extension helper" \in Passed <=> "eep extensions" \in Passed
    /\ "headers helper" \in Passed <=> "headers" \in Passed
    /\ "envelope helper" \in Passed => {"specversion", "id", "source"} \subseteq Passed

(***************************************************************************)
(* Offline, a vector whose signature or document is not what its manifest  *)
(* asserts keeps the run from ending well.                                 *)
(***************************************************************************)
Corrupt(v) ==
  /\ v.shape \in {"json-pair", "signed-bundle"}
  /\ \/ ~v.readable
     \/ v.shape = "json-pair" /\ v.expected # v.asserts_valid
     \/ v.shape = "signed-bundle" /\ v.body /\ v.asserts_valid /\ ~v.signed

CorruptVectorCaught ==
  options.fixtures /\ (\E v \in Vectors : Corrupt(v)) /\ step = "exited" => exit # 0

(***************************************************************************)
(* A run ends, unless one of the two requests that have no timeout hangs.  *)
(***************************************************************************)
EveryRunEnds == <>(step \in {"exited", "hung"})

(***************************************************************************)
(* index.ts: "We sample ~18s so a compliant publisher emits at least one   *)
(* comment frame within the window": a stream that carried one is not      *)
(* reported as having carried nothing.                                     *)
(***************************************************************************)
HeartbeatIsSeen == seen.stream.heartbeat => Skip("heartbeat") \notin results
=============================================================================
