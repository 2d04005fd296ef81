---------------------------- MODULE SignedMessage ----------------------------
(***************************************************************************)
(* A signed webhook on its way: the headers and body of one POST, and how  *)
(* the signer packages sign and verify it.  A body is what its form says   *)
(* about it (one envelope, bare data, an array of envelopes) and whether   *)
(* it is still the text that was signed: a proxy that re-serialises JSON   *)
(* keeps the meaning and breaks the signature.                             *)
(***************************************************************************)
EXTENDS Subscriptions, Integers, Sequences, FiniteSets

CONSTANTS Call,        \* calls of dispatchBatch (bound: one batch each)
          Tolerance    \* seconds a timestamp may be off

ASSUME ToleranceAssumption == Tolerance \in Nat

Form == {"structured", "binary", "batch"}

VARIABLE setup   \* what does not change: see Setup

(***************************************************************************)
(* The program that receives (an example or a subscriber that uses the     *)
(* signer package), the content mode and batch size of the subscription,   *)
(* whether the publisher also signs with Ed25519, how far the receiver's   *)
(* clock is from the publisher's, and the events each call is given.       *)
(***************************************************************************)
Setup ==
  [receiver       : {"express", "fastapi", "package"},
   format         : {"structured", "binary"},
   max_batch_size : Nat \ {0},
   dual           : BOOLEAN,
   skew           : Int,
   batch_of       : [Call -> Seq(AppEvent)]]

Message ==
  [call      : Call,
   at        : Nat \ {0},
   attempt   : Nat \ {0},
   events    : Seq(AppEvent),
   form      : Form,
   timestamp : Nat,
   tokens    : Seq({"v1", "v1a"}),
   intact    : BOOLEAN]

(***************************************************************************)
(* The webhook-signature header: the HMAC token, then the Ed25519 token    *)
(* when a private key is configured.  Both cover id, timestamp and body.   *)
(***************************************************************************)
sign == <<"v1">>

signEd25519 == <<"v1a">>

Signature == IF setup.dual THEN sign \o signEd25519 ELSE sign

ReceiverClock == now + setup.skew

Age(m) ==
  IF ReceiverClock >= m.timestamp THEN ReceiverClock - m.timestamp
                                  ELSE m.timestamp - ReceiverClock

\* One token of the header is the expected HMAC of what was received.
HasHmac(m) == m.intact /\ \E i \in DOMAIN m.tokens : m.tokens[i] = "v1"

FirstTokenOnly(m) ==                                             \* mutant
  Age(m) <= Tolerance /\ m.intact /\ Len(m.tokens) = 1

(***************************************************************************)
(* EEPSigner.verify: outside the window it throws, otherwise it looks for  *)
(* the expected token among those of the header.                           *)
(***************************************************************************)
verify(m) == IF Age(m) > Tolerance THEN "throws"
             ELSE IF HasHmac(m) THEN "true" ELSE "false"

\* verifyEEPWebhook: anything thrown is a refusal.
verifyEEPWebhook(m) == verify(m) = "true"

\* The WebCrypto signer awaits the same checks.
verify_web(m) == IF Age(m) > Tolerance THEN "throws"
                 ELSE IF HasHmac(m) THEN "true" ELSE "false"

verifyEEPWebhookWeb(m) == verify_web(m) = "true"

\* The Python port.
verify_py(m) == IF Age(m) > Tolerance THEN "raises"
                ELSE IF HasHmac(m) THEN "true" ELSE "false"

verify_eep_webhook(m) == verify_py(m) = "true"

(***************************************************************************)
(* The compliance suite's verifier looks at the HMAC tokens only and tells *)
(* what it found; it has no window.                                        *)
(***************************************************************************)
verifyWebhookSignature(m) ==
  LET v1 == {i \in DOMAIN m.tokens : m.tokens[i] = "v1"}
  IN IF v1 = {} THEN "no_v1_token"
     ELSE IF ~m.intact THEN "signature_mismatch"
     ELSE IF Cardinality(v1) > 1 THEN "ok_via_multi_signature" ELSE "ok"

(***************************************************************************)
(* verifyEd25519 skips tokens of another scheme and leaves the timestamp   *)
(* to its caller.                                                          *)
(***************************************************************************)
verifyEd25519(m) ==
  \E i \in DOMAIN m.tokens : m.tokens[i] = "v1a" /\ m.intact

SetupTypeOK == setup \in Setup
=============================================================================
