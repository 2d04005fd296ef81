-------------------------- MODULE DeliveryPromises --------------------------
(***************************************************************************)
(* What the documents and comments of the repository say about deliveries  *)
(* and the code does not do.  Each is checked alone, on the smallest       *)
(* instance that shows the disagreement.                                   *)
(***************************************************************************)
EXTENDS DeliverySystem

(***************************************************************************)
(* SPECIFICATION.md 10.1: after a DELETE "retries for them MUST NOT be     *)
(* scheduled".  The retry loop works on the record captured at the fan-out *)
(* and never looks at the table before an attempt.                         *)
(***************************************************************************)
NoRetryAfterCancel ==
  [][\A k \in DOMAIN deliveries : k[2] \notin DOMAIN table => ~AttemptStarts(k)]_vars
=============================================================================
