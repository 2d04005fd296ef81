-------------------------- MODULE MCConsumedLedger --------------------------
(***************************************************************************)
(* Values for TLC: one payload presented in an x402 object and, already    *)
(* digested, as a transaction hash or a string.                            *)
(***************************************************************************)
EXTENDS ConsumedLedger

Keys == {"n", "body", "digest"}
Digest == [k \in Keys |-> "digest"]

Proofs ==
  {[sound |-> TRUE, nonce |-> "n"], [sound |-> TRUE, nonce |-> NoKey],
   [sound |-> FALSE, nonce |-> "n"]}

Paid(tx, string, object, token) ==
  [type |-> "payment", tx_hash |-> tx, legacy |-> string, payload |-> object, token |-> token]

Payments ==
  {Paid("digest", NoKey, "body", FALSE), Paid(NoKey, "digest", NoKey, FALSE),
   Paid(NoKey, NoKey, "body", FALSE), Paid(NoKey, NoKey, NoKey, TRUE),
   Paid(NoKey, NoKey, NoKey, FALSE),
   [Paid("digest", NoKey, NoKey, FALSE) EXCEPT !.type = "other"]}
=============================================================================
