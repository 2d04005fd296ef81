--------------------------- MODULE MCComplianceRun ---------------------------
(***************************************************************************)
(* Values for TLC: complete command lines for each level, one level that   *)
(* does not exist, and lines that lack a key, an entity, the schemas or    *)
(* ask for a report.                                                       *)
(***************************************************************************)
EXTENDS ComplianceRun

Line(level) ==
  [key |-> TRUE, entity |-> "did", level |-> level, schemas |-> TRUE, reports |-> FALSE,
   fixtures |-> FALSE]

Lines ==
  {Line(level) : level \in {"core", "standard", "full"}} \cup
  {[Line("full") EXCEPT !.entity = "name"], [Line("full") EXCEPT !.entity = ""],
   [Line("standard") EXCEPT !.key = FALSE], [Line("core") EXCEPT !.schemas = FALSE],
   [Line("core") EXCEPT !.reports = TRUE],
   [Line("core") EXCEPT !.fixtures = TRUE],
   [Line("core") EXCEPT !.fixtures = TRUE, !.reports = TRUE, !.schemas = FALSE]}

Misspelt == {Line("Full")}

Signed ==
  [headers |-> WebhookHeaders, attributes |-> Attributes, json |-> TRUE, signed |-> TRUE,
   fresh |-> TRUE, conforms |-> TRUE]

Posts ==
  {Signed, [Signed EXCEPT !.signed = FALSE, !.fresh = FALSE, !.attributes = @ \ {"type"}, !.conforms = FALSE],
   [Signed EXCEPT !.headers = {"webhook-signature"}, !.attributes = {"id", "source"}, !.conforms = FALSE],
   [Signed EXCEPT !.headers = {}, !.attributes = {}, !.json = FALSE, !.conforms = FALSE]}

Vector(id) ==
  [id |-> id, shape |-> "json-pair", readable |-> TRUE, asserts_valid |-> TRUE, expected |-> TRUE,
   schema |-> TRUE, bundled |-> TRUE, conforms |-> TRUE, reason |-> FALSE,
   body |-> TRUE, signed |-> TRUE, expired |-> FALSE]

Sample ==
  {Vector("event"), [Vector("gate") EXCEPT !.schema = FALSE],
   [Vector("tier") EXCEPT !.asserts_valid = FALSE, !.expected = FALSE, !.reason = TRUE],
   [Vector("delivery") EXCEPT !.shape = "signed-bundle"],
   [Vector("late") EXCEPT !.shape = "signed-bundle", !.asserts_valid = FALSE, !.expired = TRUE],
   [Vector("tampered") EXCEPT !.shape = "signed-bundle", !.signed = FALSE],
   [Vector("parity") EXCEPT !.shape = "bundle"], [Vector("later") EXCEPT !.shape = "other"]}
=============================================================================
