------------------------------- MODULE Ledger -------------------------------
(***************************************************************************)
(* What a consumed-ledger promises: a slot (a nonce, a payment hash) is    *)
(* granted to a caller only when no grant of it is still on record.  An    *)
(* exclusive ledger looks at every grant made so far; one that checks and  *)
(* then marks looks at those made before the caller asked.                 *)
(***************************************************************************)
EXTENDS Naturals

CONSTANTS Caller, Slot, NoSlot, ttl

VARIABLES exclusive,  \* whether checking and marking are one step
          now,
          granted,    \* the grants on record: caller, slot, time
          asked       \* what each caller asked for, and the grants it found

vars == <<exclusive, now, granted, asked>>

Grant == [caller : Caller, slot : Slot, at : Nat]

Unasked == [slot |-> NoSlot, found |-> {}]

OnRecord(g) == now < g.at + ttl

Init ==
  /\ exclusive \in BOOLEAN
  /\ now \in Nat
  /\ granted = {}
  /\ asked = [c \in Caller |-> Unasked]

Ask(c, slot) ==
  /\ asked' = [asked EXCEPT ![c] = [slot |-> slot, found |-> granted]]
  /\ UNCHANGED <<exclusive, now, granted>>

Give(c) ==
  LET found == IF exclusive THEN granted ELSE asked[c].found
      slot == asked[c].slot
  IN /\ slot # NoSlot
     /\ \A g \in found : g.slot = slot => ~OnRecord(g)
     /\ granted' = granted \cup {[caller |-> c, slot |-> slot, at |-> now]}
     /\ UNCHANGED <<exclusive, now, asked>>

Tick ==
  /\ now' = now + 1
  /\ UNCHANGED <<exclusive, granted, asked>>

(***************************************************************************)
(* A ledger kept in memory is lost with its process.                       *)
(***************************************************************************)
Forget ==
  /\ ~exclusive
  /\ granted' = {}
  /\ asked' = [c \in Caller |-> [asked[c] EXCEPT !.found = {}]]
  /\ UNCHANGED <<exclusive, now>>

Next ==
  \/ \E c \in Caller, slot \in Slot \cup {NoSlot} : Ask(c, slot)
  \/ \E c \in Caller : Give(c)
  \/ Tick
  \/ Forget

Spec == Init /\ [][Next]_vars
=============================================================================
