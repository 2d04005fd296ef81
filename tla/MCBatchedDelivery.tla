-------------------------- MODULE MCBatchedDelivery --------------------------
(***************************************************************************)
(* Instances of BatchedDelivery for TLC.                                   *)
(***************************************************************************)
EXTENDS BatchedDelivery, TLC

CONSTANTS a, b, d, c1, c2, entity

\* Two events in one call; one event in two calls; two events in two calls;
\* two events in one call and one of them in another; three events.
InTurn      == c1 :> <<a, b>> @@ c2 :> <<>>
Twice       == c1 :> <<a>> @@ c2 :> <<a>>
Apart       == c1 :> <<d>> @@ c2 :> <<a>>
Overlapping == c1 :> <<a, b>> @@ c2 :> <<b>>
Remainder   == c1 :> <<a, b, d>> @@ c2 :> <<>>

\* The data of two events names the same entity, that of the third nothing.
SameEntity == a :> entity @@ b :> entity @@ d :> NoId

OneRecord ==
  {0 :> [webhook |-> TRUE, signable |-> TRUE, selects |-> {a, b, d},
         status |-> "active", failure_count |-> 0, expires_at |-> NoLease]}

TwoAttempts == <<0, 1>>

Using(program, format, size, dual, skew, given) ==
  [receiver |-> program, format |-> format, max_batch_size |-> size,
   dual |-> dual, skew |-> skew, batch_of |-> given]

\* Every receiver with single events and with batches of two, binary mode,
\* one signature and two, a clock that is one off in either direction.
Various ==
  {Using("express", "structured", 1, TRUE, 0, Twice),
   Using("express", "structured", 1, FALSE, 0, InTurn),
   Using("express", "structured", 2, FALSE, 0, InTurn),
   Using("express", "binary", 1, FALSE, 0, InTurn),
   Using("fastapi", "structured", 1, FALSE, -1, InTurn),
   Using("fastapi", "structured", 2, TRUE, 0, InTurn),
   Using("fastapi", "binary", 1, FALSE, 0, Apart),
   Using("package", "binary", 1, FALSE, 1, Twice),
   Using("package", "structured", 2, TRUE, 0, Overlapping),
   Using("package", "structured", 2, FALSE, 0, Remainder)}
=============================================================================
