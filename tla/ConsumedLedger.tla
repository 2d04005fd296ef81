--------------------------- MODULE ConsumedLedger ---------------------------
(***************************************************************************)
(* The consumed-ledgers of the gates package: a proof's nonce and a        *)
(* payment's hash are accepted once while their record lives.  Calls of    *)
(* the entry points run concurrently, one step per await: the store, the   *)
(* platform's semantic verifier, the telemetry recorder.                   *)
(*                                                                         *)
(* The store is one of three: "redis", whose consumeIfFresh is one script; *)
(* "memory", whose consumeIfFresh awaits its own lookup before it stores;  *)
(* and "plain", without consumeIfFresh, which is looked up and marked.     *)
(***************************************************************************)
EXTENDS Naturals

CONSTANTS Call,         \* the calls of the entry points
          Key, NoKey,   \* nonces and hashes
          sha256,       \* the hex digest of a payload
          NonceProof,   \* the proofs given to the nonce entry points
          PaymentProof, \* the proofs given to the payment entry point
          ttl,          \* how long a record is kept
          MaxTime       \* bound: the clock

Slot == {"nonce", "payment"} \X Key
NoSlot == <<"none", NoKey>>

ASSUME LedgerAssumption ==
  /\ NoKey \notin Key
  /\ sha256 \in [Key -> Key]
  /\ NonceProof \subseteq [sound : BOOLEAN, nonce : Key \cup {NoKey}]
  /\ PaymentProof \subseteq [type : {"payment", "other"}, tx_hash : Key \cup {NoKey},
                             legacy : Key \cup {NoKey}, payload : Key \cup {NoKey},
                             token : BOOLEAN]
  /\ ttl \in Nat \ {0} /\ MaxTime \in Nat

Store == {"redis", "memory", "plain"}
Waiting == {"lookup", "verify", "consume", "mark", "refusing", "accepting"}
Verdict == {"accepted", "replayed", "invalid", "unverified", "thrown", "lost"}

VARIABLES store,   \* the store the platform passes
          now,
          record,  \* the expiry of each slot; 0 when there is none
          call,    \* the local state of each call
          spent    \* history: the consumptions on record, as the ledger's grants

vars == <<store, now, record, call, spent>>

Live(slot) ==
  record[slot] # 0 /\ IF store = "memory" THEN now <= record[slot] ELSE now < record[slot]

(***************************************************************************)
(* A call that begins: where it goes first, and what is on record then.    *)
(***************************************************************************)
Unused == [step |-> "unused", slot |-> NoSlot, mark |-> FALSE, semantic |-> FALSE,
           consumed |-> FALSE, found |-> {}]

Begin(c, step, slot, mark, semantic) ==
  /\ call[c].step = "unused"
  /\ call' = [call EXCEPT ![c] =
       [step |-> step, slot |-> slot, mark |-> mark, semantic |-> semantic,
        consumed |-> FALSE, found |-> spent]]
  /\ UNCHANGED <<store, now, record, spent>>

SlotOf(p) == IF p.nonce = NoKey THEN NoSlot ELSE <<"nonce", p.nonce>>

(***************************************************************************)
(* Structure first; a proof without a nonce is not checked for replay; a   *)
(* preflight only looks the nonce up.                                      *)
(***************************************************************************)
validateProofWithNonce(c, p, mark) ==
  \/ ~p.sound /\ Begin(c, "invalid", NoSlot, mark, FALSE)
  \/ p.sound /\ p.nonce = NoKey /\ Begin(c, "accepted", NoSlot, mark, FALSE)
  \/ /\ p.sound /\ p.nonce # NoKey
     /\ Begin(c, IF mark THEN "consume" ELSE "lookup", SlotOf(p), mark, FALSE)

validateProofWithNonceAndVerifier(c, p, mark) ==
  \/ ~p.sound /\ Begin(c, "invalid", NoSlot, mark, TRUE)
  \/ /\ p.sound
     /\ Begin(c, IF p.nonce = NoKey THEN "verify" ELSE "lookup", SlotOf(p), mark, TRUE)

(***************************************************************************)
(* The transaction hash wins; a payload given as a string is taken as it   *)
(* is, one inside an x402 object is digested.                              *)
(***************************************************************************)
resolvePaymentHash(p) ==
  IF p.tx_hash # NoKey THEN p.tx_hash
  ELSE IF p.legacy # NoKey THEN p.legacy
  ELSE IF p.payload # NoKey THEN sha256[p.payload]
  ELSE NoKey

validatePaymentProofForDoubleSpend(c, p) ==
  LET hash == resolvePaymentHash(p) IN
    \/ p.type # "payment" /\ Begin(c, "accepted", NoSlot, TRUE, FALSE)
    \/ /\ p.type = "payment" /\ hash = NoKey
       /\ Begin(c, IF p.token THEN "accepted" ELSE "invalid", NoSlot, TRUE, FALSE)
    \/ /\ p.type = "payment" /\ hash # NoKey
       /\ Begin(c, "consume", <<"payment", hash>>, TRUE, FALSE)

(***************************************************************************)
(* A lookup in the memory store deletes a record that has expired.         *)
(***************************************************************************)
Swept(slot) ==
  IF store = "memory" /\ ~Live(slot) THEN [record EXCEPT ![slot] = 0] ELSE record

MarksOnPrecheck(c) ==  \* mutant
  LET slot == call[c].slot IN
    /\ call[c].step = "lookup"
    /\ record' = IF call[c].semantic THEN [record EXCEPT ![slot] = now + ttl] ELSE record
    /\ call' = [call EXCEPT ![c].step =
         IF Live(slot) THEN "refusing" ELSE IF call[c].semantic THEN "verify" ELSE "accepted"]
    /\ UNCHANGED <<store, now, spent>>

Lookup(c) ==
  LET slot == call[c].slot IN
    /\ call[c].step = "lookup"
    /\ record' = Swept(slot)
    /\ call' = [call EXCEPT ![c].step =
         IF Live(slot) THEN "refusing" ELSE IF call[c].semantic THEN "verify" ELSE "accepted"]
    /\ UNCHANGED <<store, now, spent>>

ForgetsToConsume(c, passed) ==  \* mutant
  /\ call[c].step = "verify"
  /\ call' = [call EXCEPT ![c].step = IF passed THEN "accepted" ELSE "unverified"]
  /\ UNCHANGED <<store, now, record, spent>>

(***************************************************************************)
(* The semantic verifier answers.                                          *)
(***************************************************************************)
Verify(c, passed) ==
  /\ call[c].step = "verify"
  /\ call' = [call EXCEPT ![c].step =
       IF ~passed THEN "unverified"
       ELSE IF call[c].mark /\ call[c].slot # NoSlot THEN "consume" ELSE "accepted"]
  /\ UNCHANGED <<store, now, record, spent>>

KeepsTooShort(c) ==  \* mutant
  LET slot == call[c].slot IN
    /\ record' = [record EXCEPT ![slot] = now + ttl - 1]
    /\ spent' = spent \cup {[caller |-> c, slot |-> slot, at |-> now]}
    /\ call' = [call EXCEPT ![c].step = "accepting", ![c].consumed = TRUE]
    /\ UNCHANGED <<store, now>>

(***************************************************************************)
(* The store records the slot: the moment a call consumes it.              *)
(***************************************************************************)
Record(c) ==
  LET slot == call[c].slot IN
    /\ record' = [record EXCEPT ![slot] = now + ttl]
    /\ spent' = spent \cup {[caller |-> c, slot |-> slot, at |-> now]}
    /\ call' = [call EXCEPT ![c].step = "accepting", ![c].consumed = TRUE]
    /\ UNCHANGED <<store, now>>

ChecksThenStores(c) ==  \* mutant
  LET slot == call[c].slot IN
    /\ call[c].step = "consume"
    /\ record' = Swept(slot)
    /\ call' = [call EXCEPT ![c].step = IF Live(slot) THEN "refusing" ELSE "mark"]
    /\ UNCHANGED <<store, now, spent>>

(***************************************************************************)
(* consumeIfFresh, or the lookup that stands for it in a plain store.      *)
(***************************************************************************)
ConsumeIfFresh(c) ==
  LET slot == call[c].slot IN
    /\ call[c].step = "consume"
    /\ \/ store = "redis" /\ ~Live(slot) /\ Record(c)
       \/ /\ Live(slot) \/ store # "redis"
          /\ record' = Swept(slot)
          /\ call' = [call EXCEPT ![c].step = IF Live(slot) THEN "refusing" ELSE "mark"]
          /\ UNCHANGED <<store, now, spent>>

Mark(c) == call[c].step = "mark" /\ Record(c)

(***************************************************************************)
(* The metric is awaited before the verdict is returned: a recorder that   *)
(* throws turns the verdict into an exception.                             *)
(***************************************************************************)
emitMetric(c, throws) ==
  /\ call[c].step \in {"refusing", "accepting"}
  /\ call' = [call EXCEPT ![c].step =
       IF throws THEN "thrown"
       ELSE IF call[c].step = "accepting" THEN "accepted" ELSE "replayed"]
  /\ UNCHANGED <<store, now, record, spent>>

(***************************************************************************)
(* evictExpired, and the expiry of keys in Redis.                          *)
(***************************************************************************)
Evict(slot) ==
  /\ record[slot] # 0 /\ ~Live(slot)
  /\ record' = [record EXCEPT ![slot] = 0]
  /\ UNCHANGED <<store, now, call, spent>>

(***************************************************************************)
(* The process of a call dies, or its store is out of reach.               *)
(***************************************************************************)
Lose(c) ==
  /\ store # "memory" /\ call[c].step \in Waiting
  /\ call' = [call EXCEPT ![c].step = "lost"]
  /\ UNCHANGED <<store, now, record, spent>>

(***************************************************************************)
(* The one process that keeps the memory store is restarted.               *)
(***************************************************************************)
Restart ==
  /\ store = "memory"
  /\ record' = [slot \in Slot |-> 0]
  /\ spent' = {}
  /\ call' = [c \in Call |-> [call[c] EXCEPT
       !.step = IF @ \in Waiting THEN "lost" ELSE @, !.found = {}]]
  /\ UNCHANGED <<store, now>>

Tick ==
  /\ now < MaxTime
  /\ now' = now + 1
  /\ UNCHANGED <<store, record, call, spent>>

Init ==
  /\ store \in Store
  /\ now = 1
  /\ record = [slot \in Slot |-> 0]
  /\ call = [c \in Call |-> Unused]
  /\ spent = {}

Step(c) ==
  \/ Lookup(c)
  \/ \E passed \in BOOLEAN : Verify(c, passed)
  \/ ConsumeIfFresh(c)
  \/ Mark(c)
  \/ \E throws \in BOOLEAN : emitMetric(c, throws)

Next ==
  \/ \E c \in Call, p \in NonceProof, mark \in BOOLEAN :
       \/ validateProofWithNonce(c, p, mark)
       \/ validateProofWithNonceAndVerifier(c, p, mark)
  \/ \E c \in Call, p \in PaymentProof : validatePaymentProofForDoubleSpend(c, p)
  \/ \E c \in Call : Step(c)
  \/ \E slot \in Slot : Evict(slot)
  \/ \E c \in Call : Lose(c)
  \/ Restart
  \/ Tick

Spec == Init /\ [][Next]_vars

(***************************************************************************)
(* Every variable has its type; a record is the instant it expires, 0 for  *)
(* none.                                                                   *)
(***************************************************************************)
TypeOK ==
  /\ store \in Store /\ now \in Nat
  /\ record \in [Slot -> Nat]
  /\ call \in [Call -> [step : Waiting \cup Verdict \cup {"unused"}, slot : Slot \cup {NoSlot},
                        mark : BOOLEAN, semantic : BOOLEAN, consumed : BOOLEAN,
                        found : SUBSET [caller : Call, slot : Slot, at : Nat]]]
  /\ spent \subseteq [caller : Call, slot : Slot, at : Nat]
-----------------------------------------------------------------------------
(***************************************************************************)
(* "Atomically consume a nonce if it is still fresh" (consumeIfFresh): of  *)
(* two calls that consumed one slot, the record of the first had expired   *)
(* when the second was made.  The Redis store keeps it.                    *)
(***************************************************************************)
ConsumedOnce ==
  \A g, h \in spent :
    g.slot = h.slot /\ g.caller # h.caller => g.at + ttl <= h.at \/ h.at + ttl <= g.at

ConsumedOnceByRedis == store = "redis" => ConsumedOnce

(***************************************************************************)
(* The same of the memory store, whose comment says so too.                *)
(***************************************************************************)
ConsumedOnceInMemory == store = "memory" => ConsumedOnce

(***************************************************************************)
(* What was consumed agrees with what the caller is told: a proof that is  *)
(* refused for any reason has consumed nothing, so it can be presented     *)
(* again, and one that was to be consumed is not accepted otherwise.       *)
(***************************************************************************)
VerdictTellsConsumption ==
  \A c \in Call :
    /\ call[c].step \in {"invalid", "unverified", "replayed"} => ~call[c].consumed
    /\ call[c].step = "accepted" =>
         (call[c].consumed <=> call[c].mark /\ call[c].slot # NoSlot)

(***************************************************************************)
(* A call is refused as a replay only for what another call consumed.      *)
(***************************************************************************)
ReplayJustified ==
  \A c \in Call : call[c].step = "replayed" =>
    \E d \in Call \ {c} : call[d].consumed /\ call[d].slot = call[c].slot

(***************************************************************************)
(* Every store implements the ledger: Redis the exclusive one, the others  *)
(* one that only looks at what was granted before the call began.          *)
(***************************************************************************)
Promise ==
  INSTANCE Ledger WITH
    Caller <- Call,
    exclusive <- store = "redis",
    granted <- spent,
    asked <- [c \in Call |-> [slot |-> call[c].slot, found |-> call[c].found]]

ImplementsLedger == Promise!Spec
=============================================================================
