---------------------------- MODULE MCGateAccess ----------------------------
(***************************************************************************)
(* Values for TLC: a public tier, a tier for payers or followers, and one  *)
(* for whoever pays and is known; "x" has no verifier.                     *)
(***************************************************************************)
EXTENDS GateAccess

Nodes == {"payA", "idA", "eitherA", "payB", "idB", "customB", "allB"}
TypeOf == [r \in Nodes |->
  CASE r \in {"payA", "payB"} -> "payment" [] r \in {"idA", "idB"} -> "identity"
    [] r = "customB" -> "x" [] OTHER -> "combined"]
NestedIn == [r \in Nodes |->
  CASE r = "eitherA" -> {"payA", "idA"} [] r = "allB" -> {"idB", "customB"} [] OTHER -> {}]
Mode == [r \in Nodes |-> IF r = "eitherA" THEN "any" ELSE "all"]

Order == <<"b", "public", "a">>

Papers == [path |-> <<"papers">>, wild |-> TRUE]
Paper == [path |-> <<"papers", "p">>, wild |-> FALSE]
Bio == [path |-> <<"bio">>, wild |-> FALSE]

Config(accessA, second, accessB) ==
  [public |-> [requirements |-> <<>>, access |-> <<Bio>>],
   a      |-> [requirements |-> <<"eitherA">>, access |-> accessA],
   b      |-> [requirements |-> second, access |-> accessB]]

Gates ==
  {Config(<<Papers>>, <<"payB", "idB">>, <<Universal>>),
   Config(<<Paper, Bio>>, <<"allB">>, <<Papers>>),
   Config(<<Paper, Paper>>, <<"allB">>, <<Papers>>),
   Config(<<Bio>>, <<>>, <<Papers>>)}

Asked == {<<"bio">>, <<"papers", "p">>}

Proofs == {"token", "token2", "stale", "login", "note"}
SoundProofs == Proofs \ {"stale"}
TypeOfProof == [p \in Proofs |->
  CASE p = "login" -> "identity" [] p = "note" -> "x" [] OTHER -> "payment"]
=============================================================================
