------------------------ MODULE ConsumedLedgerProofs ------------------------
(***************************************************************************)
(* The ledgers consume a slot at most once while its record lives (Redis), *)
(* and every store implements the abstract ledger, for any number of calls *)
(* and keys, any time to live and any clock.                               *)
(***************************************************************************)
EXTENDS ConsumedLedger, TLAPS

Grants == [caller : Call, slot : Slot, at : Nat]

(***************************************************************************)
(* A grant whose time has not run out is covered by the record of its      *)
(* slot; what a call found when it began is still on the books; a call     *)
(* about to mark has seen none of what it found on record.                 *)
(***************************************************************************)
RecordCovers ==
  \A g \in spent : g.at <= now /\ (now < g.at + ttl => record[g.slot] >= g.at + ttl)

FoundIsSpent == \A c \in Call : call[c].found \subseteq spent

SlotWhenNeeded ==
  \A c \in Call : call[c].step \in {"lookup", "consume", "mark"} => call[c].slot \in Slot

MarkReady ==
  \A c \in Call : call[c].step = "mark" =>
    /\ store # "redis"
    /\ \A g \in call[c].found : g.slot = call[c].slot => g.at + ttl <= now

IInv == TypeOK /\ RecordCovers /\ FoundIsSpent /\ SlotWhenNeeded /\ MarkReady

(***************************************************************************)
(* Every way for a call to begin is a Begin with a slot where it goes to   *)
(* the store, and none begins at the mark.                                 *)
(***************************************************************************)
BeginStep == {"lookup", "verify", "consume", "invalid", "accepted"}

MayBegin(step, slot, mark, semantic) ==
  /\ step \in {"lookup", "consume"} => slot \in Slot
  /\ step = "consume" => mark
  /\ step = "lookup" /\ mark => semantic
  /\ step = "accepted" => slot = NoSlot

Beginning(c) ==
  \E step \in BeginStep, slot \in Slot \cup {NoSlot}, mark, semantic \in BOOLEAN :
    MayBegin(step, slot, mark, semantic) /\ Begin(c, step, slot, mark, semantic)

LEMMA NonceBegins ==
  ASSUME NEW c \in Call, NEW p \in NonceProof, NEW mark \in BOOLEAN,
         \/ validateProofWithNonce(c, p, mark)
         \/ validateProofWithNonceAndVerifier(c, p, mark)
  PROVE  Beginning(c)
<1>1. p.nonce \in Key \cup {NoKey}
  BY LedgerAssumption
<1>2. SlotOf(p) \in Slot \cup {NoSlot} /\ (p.nonce # NoKey => SlotOf(p) \in Slot)
  BY <1>1 DEF SlotOf, Slot
<1>3. \A step \in BeginStep, slot \in Slot \cup {NoSlot}, s \in BOOLEAN :
        MayBegin(step, slot, mark, s) /\ Begin(c, step, slot, mark, s) => Beginning(c)
  BY DEF Beginning
<1>4. CASE validateProofWithNonce(c, p, mark)
  <2>1. CASE ~p.sound /\ Begin(c, "invalid", NoSlot, mark, FALSE)
    BY <1>3, <2>1 DEF BeginStep, MayBegin
  <2>2. CASE p.nonce = NoKey /\ Begin(c, "accepted", NoSlot, mark, FALSE)
    BY <1>3, <2>2 DEF BeginStep, MayBegin
  <2>3. CASE p.nonce # NoKey /\ Begin(c, IF mark THEN "consume" ELSE "lookup", SlotOf(p), mark, FALSE)
    BY <1>2, <1>3, <2>3 DEF BeginStep, MayBegin
  <2> QED
    BY <1>4, <2>1, <2>2, <2>3 DEF validateProofWithNonce
<1>5. CASE validateProofWithNonceAndVerifier(c, p, mark)
  <2>1. CASE ~p.sound /\ Begin(c, "invalid", NoSlot, mark, TRUE)
    BY <1>3, <2>1 DEF BeginStep, MayBegin
  <2>2. CASE Begin(c, IF p.nonce = NoKey THEN "verify" ELSE "lookup", SlotOf(p), mark, TRUE)
    BY <1>2, <1>3, <2>2 DEF BeginStep, MayBegin
  <2> QED
    BY <1>5, <2>1, <2>2 DEF validateProofWithNonceAndVerifier
<1> QED
  BY <1>4, <1>5

LEMMA PaymentBegins ==
  ASSUME NEW c \in Call, NEW p \in PaymentProof, validatePaymentProofForDoubleSpend(c, p)
  PROVE  Beginning(c)
<1> DEFINE hash == resolvePaymentHash(p)
<1>1. hash \in Key \cup {NoKey}
  BY LedgerAssumption DEF resolvePaymentHash
<1>2. hash # NoKey => <<"payment", hash>> \in Slot
  BY <1>1 DEF Slot
<1> HIDE DEF hash
<1>3. CASE Begin(c, "accepted", NoSlot, TRUE, FALSE)
  BY <1>3 DEF Beginning, BeginStep, MayBegin
<1>4. CASE Begin(c, IF p.token THEN "accepted" ELSE "invalid", NoSlot, TRUE, FALSE)
  BY <1>4 DEF Beginning, BeginStep, MayBegin
<1>5. CASE hash # NoKey /\ Begin(c, "consume", <<"payment", hash>>, TRUE, FALSE)
  BY <1>2, <1>5 DEF Beginning, BeginStep, MayBegin
<1> QED
  BY <1>3, <1>4, <1>5 DEF validatePaymentProofForDoubleSpend, hash

(***************************************************************************)
(* The next-state relation, with the beginnings folded into one.           *)
(***************************************************************************)
LEMMA NextCases ==
  ASSUME Next
  PROVE  \/ \E c \in Call : Beginning(c)
         \/ \E c \in Call : Lookup(c)
         \/ \E c \in Call, passed \in BOOLEAN : Verify(c, passed)
         \/ \E c \in Call : ConsumeIfFresh(c)
         \/ \E c \in Call : Mark(c)
         \/ \E c \in Call, throws \in BOOLEAN : emitMetric(c, throws)
         \/ \E slot \in Slot : Evict(slot)
         \/ \E c \in Call : Lose(c)
         \/ Restart
         \/ Tick
  BY NonceBegins, PaymentBegins DEF Next, Step
-----------------------------------------------------------------------------
LEMMA InitInv == Init => IInv
  BY LedgerAssumption
  DEF Init, IInv, TypeOK, RecordCovers, FoundIsSpent, SlotWhenNeeded, MarkReady, Unused, Grants,
      Store, Waiting, Verdict

(***************************************************************************)
(* A step that touches neither the books nor the clock keeps the invariant *)
(* when it leaves each call's slot and findings as they are or, for a      *)
(* call that begins, as they should be.                                    *)
(***************************************************************************)
LEMMA BeginInv ==
  ASSUME IInv, NEW c \in Call, Beginning(c)
  PROVE  IInv'
<1>1. PICK step \in BeginStep, slot \in Slot \cup {NoSlot}, mark \in BOOLEAN, semantic \in BOOLEAN :
        MayBegin(step, slot, mark, semantic) /\ Begin(c, step, slot, mark, semantic)
  BY DEF Beginning
<1> DEFINE begun == [step |-> step, slot |-> slot, mark |-> mark, semantic |-> semantic,
                     consumed |-> FALSE, found |-> spent]
<1>2. call' = [call EXCEPT ![c] = begun] /\ UNCHANGED <<store, now, record, spent>>
  BY <1>1 DEF Begin
<1>3. TypeOK'
  <2>1. begun \in [step : Waiting \cup Verdict \cup {"unused"}, slot : Slot \cup {NoSlot},
                   mark : BOOLEAN, semantic : BOOLEAN, consumed : BOOLEAN, found : SUBSET Grants]
    BY DEF IInv, TypeOK, BeginStep, Waiting, Verdict, Grants
  <2> HIDE DEF begun
  <2> QED
    BY <1>2, <2>1 DEF IInv, TypeOK, Grants
<1>4. \A d \in Call : call'[d] = IF d = c THEN begun ELSE call[d]
  BY <1>2 DEF IInv, TypeOK
<1>5. RecordCovers' /\ FoundIsSpent' /\ SlotWhenNeeded' /\ MarkReady'
  BY <1>1, <1>2, <1>4 DEF IInv, RecordCovers, FoundIsSpent, SlotWhenNeeded, MarkReady, BeginStep, MayBegin
<1> QED
  BY <1>3, <1>5 DEF IInv

(***************************************************************************)
(* A step that only moves one call on, to a step that needs no slot or     *)
(* that its slot allows, and sweeps at most a record that is not live.     *)
(***************************************************************************)
Moves(c, step) ==
  /\ call' = [call EXCEPT ![c].step = step]
  /\ step \in Waiting \cup Verdict /\ step # "mark"
  /\ step \in {"lookup", "consume"} => call[c].slot \in Slot
  /\ UNCHANGED <<store, now, spent>>

Sweeps ==
  \/ UNCHANGED record
  \/ \E slot \in Slot : ~Live(slot) /\ record' = [record EXCEPT ![slot] = 0]

LEMMA SweepKeepsCover ==
  ASSUME IInv, Sweeps, UNCHANGED <<store, now, spent>>
  PROVE  RecordCovers' /\ record' \in [Slot -> Nat]
<1>1. CASE UNCHANGED record
  BY <1>1 DEF IInv, TypeOK, RecordCovers
<1>2. ASSUME NEW slot \in Slot, ~Live(slot), record' = [record EXCEPT ![slot] = 0]
      PROVE  RecordCovers' /\ record' \in [Slot -> Nat]
  <2>1. record' \in [Slot -> Nat]
    BY <1>2 DEF IInv, TypeOK
  <2>2. record[slot] <= now
    BY <1>2 DEF IInv, TypeOK, Live
  <2>3. ASSUME NEW g \in spent, now < g.at + ttl
        PROVE  record'[g.slot] >= g.at + ttl
    <3>1. g.at \in Nat /\ g.slot \in Slot /\ record[g.slot] >= g.at + ttl
      BY <2>3 DEF IInv, TypeOK, RecordCovers
    <3>2. g.slot # slot
      BY <2>2, <2>3, <3>1, LedgerAssumption DEF IInv, TypeOK
    <3> QED
      BY <1>2, <3>1, <3>2 DEF IInv, TypeOK
  <2> QED
    BY <2>1, <2>3 DEF IInv, RecordCovers
<1> QED
  BY <1>1, <1>2 DEF Sweeps

LEMMA MoveInv ==
  ASSUME IInv, NEW c \in Call, NEW step, Moves(c, step), Sweeps
  PROVE  IInv'
<1>1. RecordCovers' /\ record' \in [Slot -> Nat]
  BY SweepKeepsCover DEF Moves
<1>2. \A d \in Call : call'[d] = IF d = c THEN [call[c] EXCEPT !.step = step] ELSE call[d]
  BY DEF Moves, IInv, TypeOK
<1>3. TypeOK'
  BY <1>1 DEF Moves, IInv, TypeOK
<1>4. FoundIsSpent' /\ SlotWhenNeeded' /\ MarkReady'
  BY <1>2 DEF Moves, IInv, TypeOK, FoundIsSpent, SlotWhenNeeded, MarkReady
<1> QED
  BY <1>1, <1>3, <1>4 DEF IInv

LEMMA SweptSweeps ==
  ASSUME IInv, NEW slot \in Slot, record' = Swept(slot)
  PROVE  Sweeps
  BY DEF Swept, Sweeps

(***************************************************************************)
(* A slot that is not live has no grant on record.                         *)
(***************************************************************************)
LEMMA NotLiveNoGrant ==
  ASSUME IInv, NEW slot \in Slot, ~Live(slot), NEW g \in spent, g.slot = slot
  PROVE  g.at + ttl <= now
<1>1. record[slot] \in Nat /\ record[slot] <= now /\ g.at \in Nat /\ now \in Nat
  BY DEF IInv, TypeOK, Live
<1>2. now < g.at + ttl => record[slot] >= g.at + ttl
  BY DEF IInv, RecordCovers
<1> QED
  BY <1>1, <1>2, LedgerAssumption

LEMMA RecordInv ==
  ASSUME IInv, NEW c \in Call, call[c].slot \in Slot, Record(c)
  PROVE  IInv'
<1> DEFINE slot == call[c].slot
           grant == [caller |-> c, slot |-> slot, at |-> now]
<1>1. /\ record' = [record EXCEPT ![slot] = now + ttl]
      /\ spent' = spent \cup {grant}
      /\ call' = [call EXCEPT ![c].step = "accepting", ![c].consumed = TRUE]
      /\ UNCHANGED <<store, now>>
  BY DEF Record
<1>2. record' \in [Slot -> Nat] /\ spent' \subseteq Grants
  BY <1>1, LedgerAssumption DEF IInv, TypeOK, Grants
<1>3. \A d \in Call : call'[d] = IF d = c THEN [call[c] EXCEPT !.step = "accepting", !.consumed = TRUE]
                                 ELSE call[d]
  BY <1>1 DEF IInv, TypeOK
<1>4. TypeOK'
  <2> DEFINE next == [call[c] EXCEPT !.step = "accepting", !.consumed = TRUE]
             State == [step : Waiting \cup Verdict \cup {"unused"}, slot : Slot \cup {NoSlot},
                       mark : BOOLEAN, semantic : BOOLEAN, consumed : BOOLEAN, found : SUBSET Grants]
  <2>1. call \in [Call -> State] /\ call' = [call EXCEPT ![c] = next]
    BY <1>1 DEF IInv, TypeOK, Grants
  <2>2. next \in State
    BY <2>1 DEF Waiting
  <2>3. call' \in [Call -> State]
    <3> HIDE DEF next, State
    <3> QED
      BY <2>1, <2>2
  <2> QED
    BY <1>1, <1>2, <2>3 DEF IInv, TypeOK, Grants
<1>5. RecordCovers'
  <2>1. ASSUME NEW g \in spent
        PROVE  g.at <= now' /\ (now' < g.at + ttl => record'[g.slot] >= g.at + ttl)
    <3>1. g.slot \in Slot /\ g.at \in Nat /\ now \in Nat /\ g.at <= now
      BY DEF IInv, TypeOK, RecordCovers
    <3>2. CASE g.slot = slot
      BY <1>1, <3>1, <3>2, LedgerAssumption DEF IInv, TypeOK
    <3>3. CASE g.slot # slot
      BY <1>1, <3>1, <3>3 DEF IInv, TypeOK, RecordCovers
    <3> QED
      BY <3>2, <3>3
  <2>2. grant.at <= now' /\ record'[grant.slot] >= grant.at + ttl
    BY <1>1, LedgerAssumption DEF IInv, TypeOK
  <2> QED
    BY <1>1, <2>1, <2>2 DEF RecordCovers
<1>6. FoundIsSpent' /\ SlotWhenNeeded' /\ MarkReady'
  BY <1>1, <1>3 DEF IInv, TypeOK, FoundIsSpent, SlotWhenNeeded, MarkReady
<1> QED
  BY <1>4, <1>5, <1>6 DEF IInv

LEMMA ConsumeInv ==
  ASSUME IInv, NEW c \in Call, ConsumeIfFresh(c)
  PROVE  IInv'
<1> DEFINE slot == call[c].slot
<1>1. slot \in Slot /\ call[c].step = "consume"
  BY DEF IInv, SlotWhenNeeded, ConsumeIfFresh
<1>2. CASE Record(c)
  BY <1>1, <1>2, RecordInv
<1>3. ASSUME Live(slot), record' = Swept(slot),
             call' = [call EXCEPT ![c].step = "refusing"], UNCHANGED <<store, now, spent>>
      PROVE  IInv'
  <2>1. Sweeps
    BY <1>1, <1>3, SweptSweeps
  <2>2. Moves(c, "refusing")
    BY <1>3 DEF Moves, Waiting
  <2> QED
    BY <2>1, <2>2, MoveInv
<1>4. ASSUME ~Live(slot), store # "redis", record' = Swept(slot),
             call' = [call EXCEPT ![c].step = "mark"], UNCHANGED <<store, now, spent>>
      PROVE  IInv'
  <2>1. Sweeps
    BY <1>1, <1>4, SweptSweeps
  <2>2. RecordCovers' /\ record' \in [Slot -> Nat]
    BY <1>4, <2>1, SweepKeepsCover
  <2>3. \A d \in Call : call'[d] = IF d = c THEN [call[c] EXCEPT !.step = "mark"] ELSE call[d]
    BY <1>4 DEF IInv, TypeOK
  <2>4. TypeOK'
    BY <1>4, <2>2 DEF IInv, TypeOK, Waiting
  <2>5. \A g \in call[c].found : g.slot = slot => g.at + ttl <= now
    BY <1>1, <1>4, NotLiveNoGrant DEF IInv, FoundIsSpent
  <2>6. FoundIsSpent' /\ SlotWhenNeeded' /\ MarkReady'
    BY <1>1, <1>4, <2>3, <2>5 DEF IInv, TypeOK, FoundIsSpent, SlotWhenNeeded, MarkReady
  <2> QED
    BY <2>2, <2>4, <2>6 DEF IInv
<1> QED
  BY <1>2, <1>3, <1>4 DEF ConsumeIfFresh

LEMMA RestartInv ==
  ASSUME IInv, Restart
  PROVE  IInv'
<1>1. \A c \in Call : /\ call'[c].slot = call[c].slot /\ call'[c].found = {}
                      /\ call'[c].step \in Verdict \cup {"unused"}
  BY DEF Restart, IInv, TypeOK, Verdict
<1>2. TypeOK'
  BY DEF Restart, IInv, TypeOK, Verdict
<1>3. RecordCovers' /\ FoundIsSpent' /\ SlotWhenNeeded' /\ MarkReady'
  BY <1>1 DEF Restart, RecordCovers, FoundIsSpent, SlotWhenNeeded, MarkReady, Verdict
<1> QED
  BY <1>2, <1>3 DEF IInv

LEMMA TickInv ==
  ASSUME IInv, Tick
  PROVE  IInv'
<1>1. now \in Nat /\ now' = now + 1 /\ UNCHANGED <<store, record, call, spent>>
  BY DEF Tick, IInv, TypeOK
<1>2. TypeOK'
  BY <1>1 DEF IInv, TypeOK
<1>3. RecordCovers'
  <2>1. ASSUME NEW g \in spent
        PROVE  g.at <= now' /\ (now' < g.at + ttl => record[g.slot] >= g.at + ttl)
    BY <1>1, LedgerAssumption DEF IInv, TypeOK, RecordCovers
  <2> QED
    BY <1>1, <2>1 DEF RecordCovers
<1>4. MarkReady'
  <2>1. ASSUME NEW c \in Call, call[c].step = "mark", NEW g \in call[c].found, g.slot = call[c].slot
        PROVE  g.at + ttl <= now'
    BY <1>1, <2>1, LedgerAssumption DEF IInv, TypeOK, MarkReady
  <2> QED
    BY <1>1, <2>1 DEF IInv, MarkReady
<1>5. FoundIsSpent' /\ SlotWhenNeeded'
  BY <1>1 DEF IInv, FoundIsSpent, SlotWhenNeeded
<1> QED
  BY <1>2, <1>3, <1>4, <1>5 DEF IInv
-----------------------------------------------------------------------------
LEMMA StepInv == IInv /\ [Next]_vars => IInv'
<1> SUFFICES ASSUME IInv, [Next]_vars PROVE IInv'
  OBVIOUS
<1>1. ASSUME NEW c \in Call, Beginning(c) PROVE IInv'
  BY <1>1, BeginInv
<1>2. ASSUME NEW c \in Call, Lookup(c) PROVE IInv'
  <2>1. call[c].slot \in Slot
    BY <1>2 DEF IInv, SlotWhenNeeded, Lookup
  <2>2. Sweeps
    BY <1>2, <2>1, SweptSweeps DEF Lookup
  <2>3. \E step \in {"refusing", "verify", "accepted"} : Moves(c, step)
    BY <1>2 DEF Lookup, Moves, Waiting, Verdict
  <2> QED
    BY <2>2, <2>3, MoveInv
<1>3. ASSUME NEW c \in Call, NEW passed \in BOOLEAN, Verify(c, passed) PROVE IInv'
  <2>1. \E step \in {"unverified", "consume", "accepted"} : Moves(c, step)
    BY <1>3 DEF Verify, Moves, Waiting, Verdict, IInv, TypeOK
  <2>2. Sweeps
    BY <1>3 DEF Verify, Sweeps
  <2> QED
    BY <2>1, <2>2, MoveInv
<1>4. ASSUME NEW c \in Call, ConsumeIfFresh(c) PROVE IInv'
  BY <1>4, ConsumeInv
<1>5. ASSUME NEW c \in Call, Mark(c) PROVE IInv'
  BY <1>5, RecordInv DEF Mark, IInv, SlotWhenNeeded
<1>6. ASSUME NEW c \in Call, NEW throws \in BOOLEAN, emitMetric(c, throws) PROVE IInv'
  <2>1. \E step \in {"thrown", "accepted", "replayed"} : Moves(c, step)
    BY <1>6 DEF emitMetric, Moves, Waiting, Verdict
  <2>2. Sweeps
    BY <1>6 DEF emitMetric, Sweeps
  <2> QED
    BY <2>1, <2>2, MoveInv
<1>7. ASSUME NEW slot \in Slot, Evict(slot) PROVE IInv'
  <2>1. RecordCovers' /\ record' \in [Slot -> Nat]
    BY <1>7, SweepKeepsCover DEF Evict, Sweeps
  <2> QED
    BY <1>7, <2>1 DEF Evict, IInv, TypeOK, FoundIsSpent, SlotWhenNeeded, MarkReady
<1>8. ASSUME NEW c \in Call, Lose(c) PROVE IInv'
  BY <1>8, MoveInv DEF Lose, Moves, Sweeps, Waiting, Verdict
<1>9. CASE Restart
  BY <1>9, RestartInv
<1>10. CASE Tick
  BY <1>10, TickInv
<1>11. CASE UNCHANGED vars
  BY <1>11 DEF vars, IInv, TypeOK, RecordCovers, FoundIsSpent, SlotWhenNeeded, MarkReady
<1> QED
  BY NextCases, <1>1, <1>2, <1>3, <1>4, <1>5, <1>6, <1>7, <1>8, <1>9, <1>10, <1>11

(***************************************************************************)
(* The inductive invariant of the ledgers (proof-validator.ts,             *)
(* redis-stores.ts) holds in every reachable state.                        *)
(***************************************************************************)
THEOREM LedgerInductive == Spec => []IInv
  BY InitInv, StepInv, PTL DEF Spec

(***************************************************************************)
(* Every reachable state of the ledgers and of the calls of the entry      *)
(* points has the declared types.                                          *)
(***************************************************************************)
THEOREM LedgerTypeCorrect == Spec => []TypeOK
<1>1. IInv => TypeOK
  BY DEF IInv
<1> QED
  BY LedgerInductive, <1>1, PTL

(***************************************************************************)
(* Two grants of one slot by the Redis script are a time to live apart:    *)
(* the pairs on the books, and with a call that records, the new one.      *)
(***************************************************************************)
LEMMA OnceInit == Init => ConsumedOnce
  BY DEF Init, ConsumedOnce

LEMMA RecordOnce ==
  ASSUME IInv, ConsumedOnce, NEW c \in Call, call[c].slot \in Slot,
         ~Live(call[c].slot), Record(c)
  PROVE  ConsumedOnce'
<1> DEFINE grant == [caller |-> c, slot |-> call[c].slot, at |-> now]
<1>1. spent' = spent \cup {grant}
  BY DEF Record
<1>2. ASSUME NEW g \in spent, g.slot = grant.slot
      PROVE  g.at + ttl <= grant.at
  BY <1>2, NotLiveNoGrant
<1> QED
  BY <1>1, <1>2 DEF ConsumedOnce

(***************************************************************************)
(* consumeIfFresh of the Redis stores consumes a nonce or a payment hash   *)
(* at most once while its record lives, whatever calls run concurrently,   *)
(* whichever of them are lost and however often a proof is presented.      *)
(***************************************************************************)
THEOREM RedisConsumesOnce == Spec => []ConsumedOnceByRedis
<1>1. Init => ConsumedOnceByRedis
  BY OnceInit DEF ConsumedOnceByRedis
<1>2. IInv /\ ConsumedOnceByRedis /\ [Next]_vars => ConsumedOnceByRedis'
  <2> SUFFICES ASSUME IInv, ConsumedOnceByRedis, [Next]_vars, store' = "redis"
               PROVE  ConsumedOnce'
    BY DEF ConsumedOnceByRedis
  <2>1. store = "redis" /\ ConsumedOnce
    <3>1. store' = store
      BY NextCases DEF Beginning, Begin, Lookup, Verify, ConsumeIfFresh, Mark, Record, emitMetric,
         Evict, Lose, Restart, Tick, vars
    <3> QED
      BY <3>1 DEF ConsumedOnceByRedis
  <2>2. CASE spent' = spent
    BY <2>1, <2>2 DEF ConsumedOnce
  <2>3. ASSUME NEW c \in Call, ConsumeIfFresh(c), spent' # spent PROVE ConsumedOnce'
    BY <2>1, <2>3, RecordOnce DEF ConsumeIfFresh, IInv, SlotWhenNeeded
  <2>4. ASSUME NEW c \in Call, Mark(c) PROVE FALSE
    BY <2>1, <2>4 DEF Mark, IInv, MarkReady
  <2> QED
    BY <2>1, <2>2, <2>3, <2>4, NextCases DEF Beginning, Begin, Lookup, Verify, emitMetric, Evict,
       Lose, Restart, Tick, vars
<1> QED
  BY <1>1, <1>2, LedgerInductive, PTL DEF Spec
-----------------------------------------------------------------------------
(***************************************************************************)
(* A move that sweeps is a stutter of the abstract ledger.                 *)
(***************************************************************************)
LEMMA MoveStutters ==
  ASSUME IInv, NEW c \in Call, NEW step, call' = [call EXCEPT ![c].step = step],
         UNCHANGED <<store, now, spent>>
  PROVE  UNCHANGED Promise!vars
<1>1. \A d \in Call : call'[d].slot = call[d].slot /\ call'[d].found = call[d].found
  BY DEF IInv, TypeOK
<1> QED
  BY <1>1 DEF Promise!vars

LEMMA BeginAsks ==
  ASSUME IInv, NEW c \in Call, Beginning(c)
  PROVE  Promise!Next
<1>1. PICK step \in BeginStep, slot \in Slot \cup {NoSlot}, mark \in BOOLEAN, semantic \in BOOLEAN :
        Begin(c, step, slot, mark, semantic)
  BY DEF Beginning
<1>2. \A d \in Call : /\ call'[d].slot = IF d = c THEN slot ELSE call[d].slot
                      /\ call'[d].found = IF d = c THEN spent ELSE call[d].found
  BY <1>1 DEF Begin, IInv, TypeOK
<1>3. Promise!Ask(c, slot)
  BY <1>1, <1>2 DEF Promise!Ask, Begin
<1> QED
  BY <1>3 DEF Promise!Next

LEMMA RecordGives ==
  ASSUME IInv, NEW c \in Call, call[c].slot \in Slot, Record(c),
         \A g \in (IF store = "redis" THEN spent ELSE call[c].found) :
           g.slot = call[c].slot => g.at + ttl <= now
  PROVE  Promise!Next
<1>1. \A d \in Call : call'[d].slot = call[d].slot /\ call'[d].found = call[d].found
  BY DEF Record, IInv, TypeOK
<1>2. call[c].slot # NoSlot
  BY LedgerAssumption DEF Slot, NoSlot
<1>3. \A g \in spent : g.at \in Nat /\ now \in Nat /\ (g.at + ttl <= now => ~(now < g.at + ttl))
  BY LedgerAssumption DEF IInv, TypeOK
<1>4. call[c].found \subseteq spent
  BY DEF IInv, FoundIsSpent
<1>5. Promise!Give(c)
  BY <1>1, <1>2, <1>3, <1>4 DEF Promise!Give, Promise!OnRecord, Record
<1> QED
  BY <1>5 DEF Promise!Next

(***************************************************************************)
(* Every store keeps the ledger's promise: no slot is granted that was on  *)
(* record when the call began and, with the Redis store, none that is on   *)
(* record at all.                                                          *)
(***************************************************************************)
THEOREM StoresImplementLedger == Spec => ImplementsLedger
<1>1. Init => Promise!Init
  BY DEF Init, Promise!Init, Promise!Unasked, Unused, Store
<1>2. IInv /\ [Next]_vars => [Promise!Next]_(Promise!vars)
  <2> SUFFICES ASSUME IInv, [Next]_vars PROVE [Promise!Next]_(Promise!vars)
    OBVIOUS
  <2>1. ASSUME NEW c \in Call, Beginning(c) PROVE Promise!Next
    BY <2>1, BeginAsks
  <2>2. ASSUME NEW c \in Call, Lookup(c) PROVE UNCHANGED Promise!vars
    BY <2>2, MoveStutters DEF Lookup
  <2>3. ASSUME NEW c \in Call, NEW passed \in BOOLEAN, Verify(c, passed) PROVE UNCHANGED Promise!vars
    BY <2>3, MoveStutters DEF Verify
  <2>4. ASSUME NEW c \in Call, ConsumeIfFresh(c) PROVE [Promise!Next]_(Promise!vars)
    <3>1. call[c].slot \in Slot
      BY <2>4 DEF ConsumeIfFresh, IInv, SlotWhenNeeded
    <3>2. CASE store = "redis" /\ ~Live(call[c].slot) /\ Record(c)
      BY <3>1, <3>2, RecordGives, NotLiveNoGrant
    <3>3. CASE /\ call' = [call EXCEPT ![c].step = IF Live(call[c].slot) THEN "refusing" ELSE "mark"]
               /\ UNCHANGED <<store, now, spent>>
      BY <3>3, MoveStutters
    <3> QED
      BY <2>4, <3>2, <3>3 DEF ConsumeIfFresh
  <2>5. ASSUME NEW c \in Call, Mark(c) PROVE Promise!Next
    <3>1. call[c].slot \in Slot /\ store # "redis"
      BY <2>5 DEF Mark, IInv, SlotWhenNeeded, MarkReady
    <3>2. \A g \in call[c].found : g.slot = call[c].slot => g.at + ttl <= now
      BY <2>5 DEF Mark, IInv, MarkReady
    <3> QED
      BY <2>5, <3>1, <3>2, RecordGives DEF Mark
  <2>6. ASSUME NEW c \in Call, NEW throws \in BOOLEAN, emitMetric(c, throws)
        PROVE  UNCHANGED Promise!vars
    BY <2>6, MoveStutters DEF emitMetric
  <2>7. ASSUME NEW slot \in Slot, Evict(slot) PROVE UNCHANGED Promise!vars
    BY <2>7 DEF Evict, Promise!vars
  <2>8. ASSUME NEW c \in Call, Lose(c) PROVE UNCHANGED Promise!vars
    BY <2>8, MoveStutters DEF Lose
  <2>9. CASE Restart
    <3>1. \A c \in Call : call'[c].slot = call[c].slot /\ call'[c].found = {}
      BY <2>9 DEF Restart, IInv, TypeOK
    <3>2. Promise!Forget
      BY <2>9, <3>1 DEF Restart, Promise!Forget
    <3> QED
      BY <3>2 DEF Promise!Next
  <2>10. CASE Tick
    <3>1. Promise!Tick
      BY <2>10 DEF Tick, Promise!Tick
    <3> QED
      BY <3>1 DEF Promise!Next
  <2>11. CASE UNCHANGED vars
    BY <2>11 DEF vars, Promise!vars
  <2> QED
    BY NextCases, <2>1, <2>2, <2>3, <2>4, <2>5, <2>6, <2>7, <2>8, <2>9, <2>10, <2>11
<1> QED
  BY <1>1, <1>2, LedgerInductive, PTL DEF Spec, ImplementsLedger, Promise!Spec
-----------------------------------------------------------------------------
(***************************************************************************)
(* Where a call stands tells whether it has consumed its slot, and whether *)
(* it still has to; a record has the call that made it; a call that is     *)
(* refused has met the record of another one.                              *)
(***************************************************************************)
Consumes(c) == call[c].mark /\ call[c].slot # NoSlot

ConsumptionKnown ==
  \A c \in Call :
    /\ call[c].consumed => call[c].step \in {"accepting", "accepted", "thrown", "lost"}
    /\ call[c].step \in {"consume", "mark"} => Consumes(c)
    /\ call[c].step = "accepting" => Consumes(c) /\ call[c].consumed
    /\ call[c].step = "accepted" => (call[c].consumed <=> Consumes(c))
    /\ call[c].step = "lookup" /\ call[c].mark => call[c].semantic

ConsumedBy(slot) == {d \in Call : call[d].consumed /\ call[d].slot = slot}

RecordOwned == \A slot \in Slot : record[slot] # 0 => ConsumedBy(slot) # {}

RefusalOwned ==
  \A c \in Call : call[c].step \in {"refusing", "replayed"} => ConsumedBy(call[c].slot) # {}

VInv == ConsumptionKnown /\ RecordOwned /\ RefusalOwned

LEMMA VerdictInit == Init => VInv
  BY DEF Init, Unused, VInv, ConsumptionKnown, RecordOwned, RefusalOwned

(***************************************************************************)
(* A step of one call that consumes nothing keeps what is owned.           *)
(***************************************************************************)
LEMMA OwnedKept ==
  ASSUME IInv, VInv, NEW c \in Call,
         \A d \in Call : d # c => call'[d] = call[d],
         ~call[c].consumed \/ (call'[c].consumed /\ call'[c].slot = call[c].slot),
         \A slot \in Slot : record'[slot] # 0 => record[slot] # 0,
         call'[c].step \in {"refusing", "replayed"} =>
           \/ call[c].step = "refusing" /\ call'[c].slot = call[c].slot
           \/ call'[c].slot \in Slot /\ record[call'[c].slot] # 0
  PROVE  RecordOwned' /\ RefusalOwned'
<1>1. \A slot : ConsumedBy(slot) \subseteq ConsumedBy(slot)'
  BY DEF ConsumedBy
<1>2. RecordOwned'
  BY <1>1 DEF VInv, RecordOwned
<1>3. ASSUME NEW d \in Call, call'[d].step \in {"refusing", "replayed"}
      PROVE  ConsumedBy(call[d].slot)' # {}
  <2>1. CASE d # c
    BY <1>1, <1>3, <2>1 DEF VInv, RefusalOwned, ConsumedBy
  <2>2. CASE d = c /\ call[c].step = "refusing" /\ call'[c].slot = call[c].slot
    BY <1>1, <2>2 DEF VInv, RefusalOwned, ConsumedBy
  <2>3. CASE d = c /\ call'[c].slot \in Slot /\ record[call'[c].slot] # 0
    BY <1>1, <2>3 DEF VInv, RecordOwned, ConsumedBy
  <2> QED
    BY <1>3, <2>1, <2>2, <2>3
<1> QED
  BY <1>2, <1>3 DEF RefusalOwned

(***************************************************************************)
(* A move of one call that no longer consumes nor is about to.             *)
(***************************************************************************)
MovesTo(c, step) == call' = [call EXCEPT ![c].step = step]

MoveAllowed(c, step) ==
  /\ step \in {"refusing", "replayed"} =>
       call[c].step = "refusing" \/ (call[c].slot \in Slot /\ record[call[c].slot] # 0)
  /\ call[c].consumed => step \in {"accepting", "accepted", "thrown", "lost"}
  /\ step \in {"consume", "mark"} => Consumes(c)
  /\ step # "accepting" /\ step # "lookup"
  /\ step = "accepted" => (call[c].consumed <=> Consumes(c))

NoNewRecord == \A slot \in Slot : record'[slot] # 0 => record[slot] # 0

LEMMA MoveVerdict ==
  ASSUME IInv, VInv, NEW c \in Call, NEW step,
         MovesTo(c, step), MoveAllowed(c, step), NoNewRecord
  PROVE  VInv'
<1>1. \A d \in Call : call'[d] = IF d = c THEN [call[c] EXCEPT !.step = step] ELSE call[d]
  BY DEF IInv, TypeOK, MovesTo
<1>2. call'[c].step = step /\ call'[c].slot = call[c].slot /\ call'[c].consumed = call[c].consumed
      /\ call'[c].mark = call[c].mark /\ call'[c].semantic = call[c].semantic
  BY <1>1 DEF IInv, TypeOK
<1>3. RecordOwned' /\ RefusalOwned'
  BY <1>1, <1>2, OwnedKept DEF MoveAllowed, NoNewRecord
<1>4. ConsumptionKnown'
  BY <1>1, <1>2 DEF VInv, ConsumptionKnown, Consumes, MoveAllowed
<1> QED
  BY <1>3, <1>4 DEF VInv

LEMMA RecordVerdict ==
  ASSUME IInv, VInv, NEW c \in Call, Consumes(c), call[c].slot \in Slot, Record(c),
         call[c].step \in {"consume", "mark"}
  PROVE  VInv'
<1>1. \A d \in Call : call'[d] = IF d = c THEN [call[c] EXCEPT !.step = "accepting", !.consumed = TRUE]
                                 ELSE call[d]
  BY DEF Record, IInv, TypeOK
<1>2. /\ call'[c].step = "accepting" /\ call'[c].consumed /\ call'[c].slot = call[c].slot
      /\ call'[c].mark = call[c].mark /\ call'[c].semantic = call[c].semantic
  BY <1>1 DEF IInv, TypeOK
<1>3. \A slot : ConsumedBy(slot) \subseteq ConsumedBy(slot)'
  BY <1>1, <1>2 DEF ConsumedBy
<1>4. RecordOwned'
  <2>1. c \in ConsumedBy(call[c].slot)'
    BY <1>2 DEF ConsumedBy
  <2> QED
    BY <1>3, <2>1 DEF Record, IInv, TypeOK, VInv, RecordOwned
<1>5. RefusalOwned'
  BY <1>1, <1>2, <1>3 DEF VInv, RefusalOwned
<1>6. ConsumptionKnown'
  BY <1>1, <1>2 DEF VInv, ConsumptionKnown, Consumes
<1> QED
  BY <1>4, <1>5, <1>6 DEF VInv

LEMMA BeginVerdict ==
  ASSUME IInv, VInv, NEW c \in Call, Beginning(c)
  PROVE  VInv'
<1>1. PICK step \in BeginStep, slot \in Slot \cup {NoSlot}, mark \in BOOLEAN, semantic \in BOOLEAN :
        MayBegin(step, slot, mark, semantic) /\ Begin(c, step, slot, mark, semantic)
  BY DEF Beginning
<1>2. \A d \in Call : call'[d] = IF d = c
        THEN [step |-> step, slot |-> slot, mark |-> mark, semantic |-> semantic,
              consumed |-> FALSE, found |-> spent]
        ELSE call[d]
  BY <1>1 DEF Begin, IInv, TypeOK
<1>3. call[c].step = "unused" /\ record' = record
  BY <1>1 DEF Begin
<1>4. ~call[c].consumed
  BY <1>3 DEF VInv, ConsumptionKnown
<1>5. RecordOwned' /\ RefusalOwned'
  BY <1>2, <1>3, <1>4, OwnedKept DEF BeginStep
<1>6. ConsumptionKnown'
  BY <1>1, <1>2, LedgerAssumption
  DEF VInv, ConsumptionKnown, Consumes, BeginStep, MayBegin, Slot, NoSlot
<1> QED
  BY <1>5, <1>6 DEF VInv

LEMMA VerdictStep == IInv /\ VInv /\ [Next]_vars => VInv'
<1> SUFFICES ASSUME IInv, VInv, [Next]_vars PROVE VInv'
  OBVIOUS
<1>0. ASSUME NEW slot \in Slot, Live(slot) PROVE record[slot] # 0
  BY <1>0 DEF Live
<1>1. ASSUME NEW c \in Call, Beginning(c) PROVE VInv'
  BY <1>1, BeginVerdict
<1>2. ASSUME NEW c \in Call, Lookup(c) PROVE VInv'
  <2>1. call[c].slot \in Slot /\ ~call[c].consumed
    BY <1>2 DEF Lookup, IInv, SlotWhenNeeded, VInv, ConsumptionKnown
  <2>2. NoNewRecord
    BY <1>2, <2>1 DEF Lookup, Swept, IInv, TypeOK, NoNewRecord
  <2>3. ASSUME Live(call[c].slot) PROVE VInv'
    <3>1. MovesTo(c, "refusing")
      BY <1>2, <2>3 DEF Lookup, MovesTo
    <3>2. MoveAllowed(c, "refusing")
      BY <1>0, <2>1, <2>3 DEF MoveAllowed
    <3> QED
      BY <2>2, <3>1, <3>2, MoveVerdict
  <2>4. ASSUME ~Live(call[c].slot), call[c].semantic PROVE VInv'
    <3>1. MovesTo(c, "verify")
      BY <1>2, <2>4 DEF Lookup, MovesTo
    <3>2. MoveAllowed(c, "verify")
      BY <2>1 DEF MoveAllowed
    <3> QED
      BY <2>2, <3>1, <3>2, MoveVerdict
  <2>5. ASSUME ~Live(call[c].slot), ~call[c].semantic PROVE VInv'
    <3>1. ~call[c].mark
      BY <1>2, <2>5 DEF Lookup, VInv, ConsumptionKnown
    <3>2. MovesTo(c, "accepted")
      BY <1>2, <2>5 DEF Lookup, MovesTo
    <3>3. MoveAllowed(c, "accepted")
      BY <2>1, <3>1 DEF MoveAllowed, Consumes
    <3> QED
      BY <2>2, <3>2, <3>3, MoveVerdict
  <2> QED
    BY <2>3, <2>4, <2>5
<1>3. ASSUME NEW c \in Call, NEW passed \in BOOLEAN, Verify(c, passed) PROVE VInv'
  <2>1. ~call[c].consumed /\ NoNewRecord
    BY <1>3 DEF Verify, VInv, ConsumptionKnown, NoNewRecord
  <2>2. \E step \in {"unverified", "consume", "accepted"} : MovesTo(c, step) /\ MoveAllowed(c, step)
    BY <1>3, <2>1 DEF Verify, Consumes, MovesTo, MoveAllowed
  <2> QED
    BY <2>1, <2>2, MoveVerdict
<1>4. ASSUME NEW c \in Call, ConsumeIfFresh(c) PROVE VInv'
  <2>1. call[c].slot \in Slot /\ Consumes(c) /\ call[c].step = "consume" /\ ~call[c].consumed
    BY <1>4 DEF ConsumeIfFresh, IInv, SlotWhenNeeded, VInv, ConsumptionKnown
  <2>2. CASE Record(c)
    BY <2>1, <2>2, RecordVerdict
  <2>3. CASE /\ record' = Swept(call[c].slot)
             /\ call' = [call EXCEPT ![c].step = IF Live(call[c].slot) THEN "refusing" ELSE "mark"]
    <3>1. NoNewRecord
      BY <2>1, <2>3 DEF Swept, IInv, TypeOK, NoNewRecord
    <3>2. \E step \in {"refusing", "mark"} : MovesTo(c, step) /\ MoveAllowed(c, step)
      BY <1>0, <2>1, <2>3 DEF MovesTo, MoveAllowed
    <3> QED
      BY <3>1, <3>2, MoveVerdict
  <2> QED
    BY <1>4, <2>2, <2>3 DEF ConsumeIfFresh
<1>5. ASSUME NEW c \in Call, Mark(c) PROVE VInv'
  BY <1>5, RecordVerdict DEF Mark, IInv, SlotWhenNeeded, VInv, ConsumptionKnown
<1>6. ASSUME NEW c \in Call, NEW throws \in BOOLEAN, emitMetric(c, throws) PROVE VInv'
  <2>1. /\ call[c].step = "accepting" => Consumes(c) /\ call[c].consumed
        /\ call[c].step = "refusing" => ~call[c].consumed
        /\ NoNewRecord
    BY <1>6 DEF emitMetric, VInv, ConsumptionKnown, NoNewRecord
  <2>2. \E step \in {"thrown", "accepted", "replayed"} : MovesTo(c, step) /\ MoveAllowed(c, step)
    BY <1>6, <2>1 DEF emitMetric, MovesTo, MoveAllowed
  <2> QED
    BY <2>1, <2>2, MoveVerdict
<1>7. ASSUME NEW slot \in Slot, Evict(slot) PROVE VInv'
  <2>1. \A s \in Slot : record'[s] # 0 => record[s] # 0
    BY <1>7 DEF Evict, IInv, TypeOK
  <2> QED
    BY <1>7, <2>1
    DEF Evict, VInv, ConsumptionKnown, Consumes, RecordOwned, RefusalOwned, ConsumedBy
<1>8. ASSUME NEW c \in Call, Lose(c) PROVE VInv'
  <2>1. MovesTo(c, "lost") /\ NoNewRecord
    BY <1>8 DEF Lose, MovesTo, NoNewRecord
  <2>2. MoveAllowed(c, "lost")
    BY DEF MoveAllowed
  <2> QED
    BY <2>1, <2>2, MoveVerdict
<1>9. CASE Restart
  <2>1. \A c \in Call : /\ call'[c].slot = call[c].slot /\ call'[c].consumed = call[c].consumed
                        /\ call'[c].mark = call[c].mark /\ call'[c].semantic = call[c].semantic
                        /\ call'[c].step = IF call[c].step \in Waiting THEN "lost" ELSE call[c].step
    BY <1>9 DEF Restart, IInv, TypeOK
  <2>2. ConsumptionKnown'
    BY <2>1 DEF VInv, ConsumptionKnown, Consumes, Waiting
  <2>3. RecordOwned'
    BY <1>9 DEF Restart, RecordOwned
  <2>4. \A slot : ConsumedBy(slot)' = ConsumedBy(slot)
    BY <2>1 DEF ConsumedBy
  <2>5. RefusalOwned'
    BY <2>1, <2>4 DEF VInv, RefusalOwned, Waiting
  <2> QED
    BY <2>2, <2>3, <2>5 DEF VInv
<1>10. CASE Tick
  BY <1>10 DEF Tick, VInv, ConsumptionKnown, Consumes, RecordOwned, RefusalOwned, ConsumedBy
<1>11. CASE UNCHANGED vars
  BY <1>11 DEF vars, VInv, ConsumptionKnown, Consumes, RecordOwned, RefusalOwned, ConsumedBy
<1> QED
  BY NextCases, <1>1, <1>2, <1>3, <1>4, <1>5, <1>6, <1>7, <1>8, <1>9, <1>10, <1>11

(***************************************************************************)
(* A proof that is refused, for its structure, its semantics or as a       *)
(* replay, has consumed nothing; one that was to be consumed is accepted   *)
(* only once it is: for every store, interleaving, crash and restart.      *)
(***************************************************************************)
THEOREM VerdictsTellConsumption == Spec => []VerdictTellsConsumption
<1>1. VInv => VerdictTellsConsumption
  BY DEF VInv, ConsumptionKnown, VerdictTellsConsumption, Consumes
<1> QED
  BY <1>1, VerdictInit, VerdictStep, LedgerInductive, PTL DEF Spec

(***************************************************************************)
(* A call is refused as a replay only for what another call consumed:      *)
(* never for a record of its own, a failed verification or a preflight.    *)
(***************************************************************************)
THEOREM ReplaysAreJustified == Spec => []ReplayJustified
<1>1. VInv => ReplayJustified
  <2> SUFFICES ASSUME VInv, NEW c \in Call, call[c].step = "replayed"
               PROVE  \E d \in Call \ {c} : call[d].consumed /\ call[d].slot = call[c].slot
    BY DEF ReplayJustified
  <2>1. ~call[c].consumed /\ ConsumedBy(call[c].slot) # {}
    BY DEF VInv, ConsumptionKnown, RefusalOwned
  <2> QED
    BY <2>1 DEF ConsumedBy
<1> QED
  BY <1>1, VerdictInit, VerdictStep, LedgerInductive, PTL DEF Spec
-----------------------------------------------------------------------------
(***************************************************************************)
(* Calls one at a time: a call begins only when no other awaits anything.  *)
(* Only the interleaving of calls then separates the three stores.         *)
(***************************************************************************)
InTurn ==
  \A c \in Call : call[c].step = "unused" /\ call'[c].step # "unused" =>
    \A d \in Call : call[d].step \notin Waiting

SequentialSpec == Init /\ [][Next /\ InTurn]_vars

ToStore == {"lookup", "verify", "consume", "mark"}

OneWaits ==
  \A c, d \in Call : call[c].step \in Waiting /\ call[d].step \in Waiting => c = d

FoundIsCurrent == \A c \in Call : call[c].step \in ToStore => call[c].found = spent

TurnInv == OneWaits /\ FoundIsCurrent

(***************************************************************************)
(* What one step may do to the calls and the grants.                       *)
(***************************************************************************)
MovesOne(c) ==
  \E step \in Waiting \cup Verdict :
    /\ call' = [call EXCEPT ![c].step = step]
    /\ call[c].step \in Waiting /\ spent' = spent
    /\ step \in ToStore => call[c].step \in ToStore

BeginsOne(c) ==
  \E step \in BeginStep, slot \in Slot \cup {NoSlot}, mark, semantic \in BOOLEAN :
    Begin(c, step, slot, mark, semantic)

TakesOne(c) ==
  /\ call[c].step \in {"consume", "mark"} /\ Record(c)
  /\ call[c].step = "consume" => ~Live(call[c].slot)

LEMMA TurnCases ==
  ASSUME IInv, [Next]_vars
  PROVE  \/ \E c \in Call : MovesOne(c) \/ BeginsOne(c) \/ TakesOne(c)
         \/ Restart
         \/ UNCHANGED <<call, spent>>
<1>1. ASSUME NEW c \in Call, Beginning(c) PROVE BeginsOne(c)
  BY <1>1 DEF Beginning, BeginsOne
<1>2. ASSUME NEW c \in Call, Lookup(c) PROVE MovesOne(c)
  BY <1>2 DEF Lookup, MovesOne, Waiting, Verdict, ToStore
<1>3. ASSUME NEW c \in Call, NEW passed \in BOOLEAN, Verify(c, passed) PROVE MovesOne(c)
  BY <1>3 DEF Verify, MovesOne, Waiting, Verdict, ToStore
<1>4. ASSUME NEW c \in Call, ConsumeIfFresh(c) PROVE MovesOne(c) \/ TakesOne(c)
  BY <1>4 DEF ConsumeIfFresh, MovesOne, TakesOne, Waiting, Verdict, ToStore
<1>5. ASSUME NEW c \in Call, Mark(c) PROVE TakesOne(c)
  BY <1>5 DEF Mark, TakesOne
<1>6. ASSUME NEW c \in Call, NEW throws \in BOOLEAN, emitMetric(c, throws) PROVE MovesOne(c)
  <2>1. /\ call[c].step \in Waiting /\ spent' = spent
        /\ \E step \in {"thrown", "accepted", "replayed"} : call' = [call EXCEPT ![c].step = step]
    BY <1>6 DEF emitMetric, Waiting
  <2> QED
    BY <2>1 DEF MovesOne, Verdict, ToStore
<1>7. ASSUME NEW slot \in Slot, Evict(slot) PROVE UNCHANGED <<call, spent>>
  BY <1>7 DEF Evict
<1>8. ASSUME NEW c \in Call, Lose(c) PROVE MovesOne(c)
  BY <1>8 DEF Lose, MovesOne, Waiting, Verdict, ToStore
<1>9. Tick \/ UNCHANGED vars => UNCHANGED <<call, spent>>
  BY DEF Tick, vars
<1> QED
  BY NextCases, <1>1, <1>2, <1>3, <1>4, <1>5, <1>6, <1>7, <1>8, <1>9

LEMMA TurnKept ==
  ASSUME IInv, TurnInv, [Next /\ InTurn]_vars
  PROVE  TurnInv'
<1>0. DOMAIN call = Call /\ DOMAIN call' = Call
  BY StepInv DEF IInv, TypeOK
<1>1. ASSUME NEW c \in Call, MovesOne(c) PROVE TurnInv'
  <2>1. PICK step \in Waiting \cup Verdict :
          /\ call' = [call EXCEPT ![c].step = step]
          /\ call[c].step \in Waiting /\ spent' = spent
          /\ step \in ToStore => call[c].step \in ToStore
    BY <1>1 DEF MovesOne
  <2>2. \A d \in Call : /\ call'[d].found = call[d].found
                        /\ call'[d].step = IF d = c THEN step ELSE call[d].step
    BY <2>1 DEF IInv, TypeOK
  <2> QED
    BY <2>1, <2>2 DEF TurnInv, OneWaits, FoundIsCurrent
<1>2. ASSUME NEW c \in Call, BeginsOne(c) PROVE TurnInv'
  <2>1. PICK step \in BeginStep, slot \in Slot \cup {NoSlot}, mark, semantic \in BOOLEAN :
          Begin(c, step, slot, mark, semantic)
    BY <1>2 DEF BeginsOne
  <2>2. \A d \in Call : /\ call'[d].found = IF d = c THEN spent ELSE call[d].found
                        /\ call'[d].step = IF d = c THEN step ELSE call[d].step
    BY <2>1 DEF Begin, IInv, TypeOK
  <2>3. call[c].step = "unused" /\ spent' = spent
    BY <2>1 DEF Begin
  <2>4. call'[c].step # "unused" /\ InTurn
    BY <2>2, <2>3 DEF BeginStep, vars
  <2>5. \A d \in Call : call[d].step \notin Waiting
    BY <2>3, <2>4 DEF InTurn
  <2> QED
    BY <2>2, <2>3, <2>5 DEF TurnInv, OneWaits, FoundIsCurrent
<1>3. ASSUME NEW c \in Call, TakesOne(c) PROVE TurnInv'
  <2>1. call[c].step \in Waiting
    BY <1>3 DEF TakesOne, Waiting
  <2>2. \A d \in Call : d # c => call[d].step \notin Waiting
    BY <2>1 DEF TurnInv, OneWaits
  <2>3. \A d \in Call : call'[d].step = IF d = c THEN "accepting" ELSE call[d].step
    BY <1>3 DEF TakesOne, Record, IInv, TypeOK
  <2> QED
    BY <2>2, <2>3 DEF TurnInv, OneWaits, FoundIsCurrent, ToStore, Waiting
<1>4. CASE Restart
  <2>1. \A d \in Call : call'[d].step \notin Waiting
    BY <1>4 DEF Restart, IInv, TypeOK, Waiting
  <2> QED
    BY <2>1 DEF TurnInv, OneWaits, FoundIsCurrent, ToStore, Waiting
<1>5. CASE UNCHANGED <<call, spent>>
  BY <1>5 DEF TurnInv, OneWaits, FoundIsCurrent
<1> QED
  BY <1>1, <1>2, <1>3, <1>4, <1>5, TurnCases

LEMMA TurnOnce ==
  ASSUME IInv, TurnInv, ConsumedOnce, [Next]_vars
  PROVE  ConsumedOnce'
<1>1. ASSUME NEW c \in Call, TakesOne(c) PROVE ConsumedOnce'
  <2>1. call[c].slot \in Slot /\ Record(c)
    BY <1>1 DEF TakesOne, IInv, SlotWhenNeeded
  <2>2. \A g \in spent : g.slot = call[c].slot => g.at + ttl <= now
    <3>1. CASE call[c].step = "consume"
      BY <1>1, <2>1, <3>1, NotLiveNoGrant DEF TakesOne
    <3>2. CASE call[c].step = "mark"
      BY <3>2 DEF IInv, MarkReady, TurnInv, FoundIsCurrent, ToStore
    <3> QED
      BY <1>1, <3>1, <3>2 DEF TakesOne
  <2>3. spent' = spent \cup {[caller |-> c, slot |-> call[c].slot, at |-> now]}
    BY <2>1 DEF Record
  <2> QED
    BY <2>2, <2>3 DEF ConsumedOnce
<1>2. CASE spent' = spent
  BY <1>2 DEF ConsumedOnce
<1>3. CASE Restart
  BY <1>3 DEF Restart, ConsumedOnce
<1> QED
  BY <1>1, <1>2, <1>3, TurnCases DEF MovesOne, BeginsOne, Begin

(***************************************************************************)
(* Called one at a time, every store consumes a slot once while its record *)
(* lives: the memory store, and a store without consumeIfFresh, break      *)
(* their promise only by the interleaving of calls, never by the clock, an *)
(* eviction, a lost call or a restart.                                     *)
(***************************************************************************)
THEOREM SequentialCallsConsumeOnce == SequentialSpec => []ConsumedOnce
<1>1. Init => IInv /\ TurnInv /\ ConsumedOnce
  <2>1. Init => TurnInv
    BY DEF Init, Unused, TurnInv, OneWaits, FoundIsCurrent, Waiting, ToStore
  <2> QED
    BY <2>1, InitInv, OnceInit
<1>2. [Next /\ InTurn]_vars => [Next]_vars
  OBVIOUS
<1>3. IInv /\ TurnInv /\ ConsumedOnce /\ [Next /\ InTurn]_vars => (IInv /\ TurnInv /\ ConsumedOnce)'
  BY <1>2, StepInv, TurnKept, TurnOnce
<1> QED
  BY <1>1, <1>3, PTL DEF SequentialSpec

(***************************************************************************)
(* No call consumes twice, and what is on the books was consumed by the    *)
(* call it names, for the slot that call asked for.                        *)
(***************************************************************************)
OneGrantPerCall ==
  /\ \A g, h \in spent : g.caller = h.caller => g = h
  /\ \A g \in spent : call[g.caller].consumed /\ call[g.caller].slot = g.slot

LEMMA GrantKept ==
  ASSUME IInv, VInv, OneGrantPerCall, [Next]_vars
  PROVE  OneGrantPerCall'
<1>0. \A g \in spent : g.caller \in Call
  BY DEF IInv, TypeOK
<1>1. ASSUME NEW c \in Call, MovesOne(c) PROVE OneGrantPerCall'
  <2>1. spent' = spent /\ \A d \in Call : /\ call'[d].consumed = call[d].consumed
                                          /\ call'[d].slot = call[d].slot
    <3>1. PICK step : call' = [call EXCEPT ![c].step = step] /\ spent' = spent
      BY <1>1 DEF MovesOne
    <3> QED
      BY <3>1 DEF IInv, TypeOK
  <2> QED
    BY <1>0, <2>1 DEF OneGrantPerCall
<1>2. ASSUME NEW c \in Call, BeginsOne(c) PROVE OneGrantPerCall'
  <2>1. spent' = spent /\ call[c].step = "unused" /\ \A d \in Call : d # c => call'[d] = call[d]
    BY <1>2 DEF BeginsOne, Begin, IInv, TypeOK
  <2>2. ~call[c].consumed
    BY <2>1 DEF VInv, ConsumptionKnown
  <2> QED
    BY <1>0, <2>1, <2>2 DEF OneGrantPerCall
<1>3. ASSUME NEW c \in Call, TakesOne(c) PROVE OneGrantPerCall'
  <2>1. ~call[c].consumed
    BY <1>3 DEF TakesOne, VInv, ConsumptionKnown
  <2>2. \A d \in Call : /\ call'[d].slot = call[d].slot
                        /\ call[d].consumed \/ d = c => call'[d].consumed
    BY <1>3 DEF TakesOne, Record, IInv, TypeOK
  <2>3. \A g \in spent : g.caller # c
    BY <2>1 DEF OneGrantPerCall
  <2> DEFINE grant == [caller |-> c, slot |-> call[c].slot, at |-> now]
  <2>4. \A g \in spent' : g \in spent \/ g = grant
    BY <1>3 DEF TakesOne, Record
  <2>5. grant.caller = c /\ grant.slot = call[c].slot
    OBVIOUS
  <2> HIDE DEF grant
  <2>6. \A g \in spent' : call'[g.caller].consumed /\ call'[g.caller].slot = g.slot
    BY <1>0, <2>2, <2>4, <2>5 DEF OneGrantPerCall
  <2>7. \A g, h \in spent' : g.caller = h.caller => g = h
    BY <2>3, <2>4, <2>5 DEF OneGrantPerCall
  <2> QED
    BY <2>6, <2>7 DEF OneGrantPerCall
<1>4. CASE Restart \/ UNCHANGED <<call, spent>>
  BY <1>4 DEF Restart, OneGrantPerCall
<1> QED
  BY <1>1, <1>2, <1>3, <1>4, TurnCases

(***************************************************************************)
(* One call of an entry point consumes at most once, for every store and   *)
(* every interleaving: a payment that carries both a hash and a payload is *)
(* recorded under one of them.                                             *)
(***************************************************************************)
THEOREM CallsConsumeOnce == Spec => []OneGrantPerCall
<1>1. Init => OneGrantPerCall
  BY DEF Init, OneGrantPerCall
<1> QED
  BY <1>1, GrantKept, VerdictInit, VerdictStep, LedgerInductive, PTL DEF Spec
=============================================================================
