----------------------------- MODULE JsonValues -----------------------------
(***************************************************************************)
(* Classes of the JSON values a document's field may hold, as fine as the  *)
(* validators of the gates packages tell them apart, and what JavaScript   *)
(* and Python ask of a value.  A literal (the name of a type) is its own   *)
(* class.  Bounds: texts have only characters that both languages count as *)
(* one, and numbers are those both hold exactly.                           *)
(***************************************************************************)
EXTENDS Integers

Absent == {"missing", "null"}
Bool == {"false", "true"}

\* "number" is a small positive integer, "wholefloat" one written 3.0, "huge"
\* is 1000, "epoch" a future time in milliseconds.
Number == {"zero", "negative", "number", "fraction", "huge", "epoch", "wholefloat"}

\* Two elements or more: all texts in "list", numbers in "mixedlist"; more than
\* any limit in "biglist".  "claims" and "named" hold claim objects.
List == {"emptylist", "single", "list", "mixedlist", "biglist", "claims", "named"}
Object == {"emptyobject", "object", "bigobject"}

\* Texts that are dates.  Zoned ones name their zone: "soon" is within 30 s,
\* "shortly" within 60 s.  Naive ones name none; only JavaScript's Date parses
\* Loose ones ("2024/01/01"), only Python's fromisoformat Compact ("20240101T00Z")
\* and Bare ones ("20240101", without a zone).
\* Bounds: a time within the minute is a zoned one, and local time is UTC.
Zoned == {"past", "soon", "shortly", "future"}
Naive == {"pastnaive", "naive"}
Loose == {"pastloose", "loose"}
Compact == {"pastcompact", "compact"}
Bare == {"pastbare", "bare"}
Moment == Zoned \cup Naive \cup Loose \cup Compact \cup Bare
Past == {"past", "pastnaive", "pastloose", "pastcompact", "pastbare"}

DateParses == Moment \ (Compact \cup Bare)
IsoParses == Moment \ Loose

\* "valid" has the format or is one of the words the field is checked for,
\* "newline" is the same with a line break behind it; "short" is below every
\* minimal length, "long" above it, "overlong" above every maximal length.
Plain == {"empty", "short", "long", "overlong", "valid", "newline"}

Value == Absent \cup Bool \cup Number \cup List \cup Object \cup Moment \cup Plain

IsText(v) == v \notin Absent \cup Bool \cup Number \cup List \cup Object
IsNonempty(v) == IsText(v) /\ v # "empty"
IsLong(v) == IsNonempty(v) /\ v # "short"

(***************************************************************************)
(* Falsy values: an empty list or object is true in JavaScript and false   *)
(* in Python, where true and false are integers besides.                   *)
(***************************************************************************)
Falsy == Absent \cup {"false", "zero", "empty"}
FalsyPy == Falsy \cup {"emptylist", "emptyobject"}
NumberPy == Number \cup Bool
=============================================================================
