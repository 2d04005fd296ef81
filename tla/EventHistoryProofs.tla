------------------------- MODULE EventHistoryProofs -------------------------
(***************************************************************************)
(* A subscriber told that it is caught up has missed nothing, for every    *)
(* retention, page size, set of subscribers and behaviour of the clock.    *)
(***************************************************************************)
EXTENDS EventHistory, WellFoundedInduction, FiniteSetTheorems, TLAPS

(***************************************************************************)
(* What leaves the store is older in emission order than what stays.       *)
(***************************************************************************)
Suffix == \A n \in DOMAIN recorded \ events, m \in events : n < m

(***************************************************************************)
(* What a subscriber wanted up to its cursor it has got, and it skipped    *)
(* nothing that comes after its cursor.                                    *)
(***************************************************************************)
UpTo(q) == IF q.pc = "caughtup" THEN q.asOf ELSE q.since

GotSoFar(q) ==
  /\ q.pc = "paging" /\ q.since = 0 => q.skipped = {} /\ q.got = {}
  /\ \A n \in 1 .. UpTo(q) : Wanted(q, n) => n \in q.got

IInv == TypeOK /\ Suffix /\ \A p \in Pager : GotSoFar(pagers[p])

-----------------------------------------------------------------------------
LEMMA PrunedIsSuffix ==
  ASSUME NEW len \in Nat, NEW kept \in SUBSET (1 .. len),
         NEW storedAt \in [1 .. len -> Nat], NEW retention \in Nat, now \in Nat,
         \A n \in (1 .. len) \ kept, m \in kept : n < m
  PROVE  LET pruned == Pruned(kept, storedAt, retention) IN
           /\ pruned \subseteq kept
           /\ \A n \in (1 .. len) \ pruned, m \in pruned : n < m
  BY DEF Pruned

LEMMA LeastElement ==
  ASSUME NEW S \in SUBSET Nat, S # {}
  PROVE  \E n \in S : \A m \in S : n <= m
  <1>1. PICK n \in S : \A m \in S : <<m, n>> \notin OpToRel(<, Nat)
    BY NatLessThanWellFounded, WFMin
  <1>2. \A m \in S : ~(m < n)
    BY <1>1 DEF OpToRel
  <1>3. \A m \in S : m \in Nat /\ n \in Nat
    OBVIOUS
  <1>4. \A m \in S : n <= m
    BY <1>2, <1>3
  <1> QED
    BY <1>4

LEMMA GreatestElement ==
  ASSUME NEW S \in SUBSET Nat, NEW bound \in Nat, S # {}, \A n \in S : n <= bound
  PROVE  \E n \in S : \A m \in S : m <= n
  <1> DEFINE below == {k \in Nat : \E n \in S : n + k = bound}
  <1>1. \A n \in S : n \in Nat /\ bound - n \in Nat
    OBVIOUS
  <1>2. \A n \in S : bound - n \in below
    BY <1>1
  <1>3. below # {}
    BY <1>2
  <1>4. PICK k \in below : \A m \in below : k <= m
    BY <1>3, LeastElement
  <1>5. PICK n \in S : n + k = bound /\ k \in Nat
    BY <1>4
  <1>6. \A m \in S : k <= bound - m
    BY <1>2, <1>4
  <1> HIDE DEF below
  <1>7. \A m \in S : m <= n
    BY <1>1, <1>5, <1>6
  <1> QED
    BY <1>7

(***************************************************************************)
(* A page that is not the last one ends in an element, and holds every     *)
(* match up to that element.                                               *)
(***************************************************************************)
LEMMA PageIsPrefix ==
  ASSUME NEW bound \in Nat, NEW matching \in SUBSET (1 .. bound),
         NEW limit \in Nat \ {0}, Page(matching, limit) # matching
  PROVE  LET page == Page(matching, limit) IN
           /\ LastOf(page) \in page
           /\ \A n \in matching : n <= LastOf(page) => n \in page
  <1> DEFINE page == Page(matching, limit)
             Before(n) == {m \in matching : m < n}
  <1>1. \A n \in matching : n \in Nat /\ n <= bound
    OBVIOUS
  <1>2. IsFiniteSet(matching)
    BY <1>1, FS_BoundedSetOfNaturals
  <1>3. page \subseteq matching
    BY DEF Page
  <1>4. page \in SUBSET Nat /\ \A n \in page : n <= bound
    BY <1>1, <1>3
  <1>5. page # {}
    <2>1. PICK n \in matching : \A m \in matching : n <= m
      BY LeastElement DEF Page
    <2>2. Before(n) = {}
      <3>1. \A m \in matching : ~(m < n)
        BY <1>1, <2>1
      <3> QED
        BY <3>1
    <2>3. Cardinality(Before(n)) < limit
      BY <2>2, FS_EmptySet
    <2> QED
      BY <2>1, <2>3 DEF Page
  <1>6. LastOf(page) \in page /\ \A m \in page : m <= LastOf(page)
    BY <1>4, <1>5, GreatestElement DEF LastOf
  <1>7. ASSUME NEW n \in matching, n <= LastOf(page)
        PROVE  n \in page
    <2> DEFINE l == LastOf(page)
    <2>1. l \in matching /\ n <= l /\ Cardinality(Before(l)) < limit
      BY <1>6, <1>7 DEF Page
    <2> HIDE DEF l
    <2>2. IsFiniteSet(Before(l)) /\ Before(n) \subseteq Before(l)
      <3>1. Before(n) \subseteq Before(l)
        <4>1. \A m \in matching : m < n => m < l
          <5>1. n \in Nat /\ l \in Nat /\ n <= l
            BY <1>1, <1>7, <2>1
          <5>2. \A m \in matching : m \in Nat
            BY <1>1
          <5> QED
            BY <5>1, <5>2
        <4> QED
          BY <4>1
      <3>2. Before(l) \subseteq matching
        OBVIOUS
      <3> QED
        BY <1>2, <3>1, <3>2, FS_Subset
    <2>3. /\ Cardinality(Before(n)) <= Cardinality(Before(l))
          /\ Cardinality(Before(n)) \in Nat /\ Cardinality(Before(l)) \in Nat
      BY <2>2, FS_Subset, FS_CardinalityType
    <2>4. Cardinality(Before(n)) < limit
      BY <2>1, <2>3
    <2> QED
      BY <2>4 DEF Page
  <1> QED
    BY <1>6, <1>7

-----------------------------------------------------------------------------
LEMMA PrunedEvents ==
  ASSUME NEW rec \in Seq(StoredEvent), NEW kept \in SUBSET DOMAIN rec, now \in Nat,
         \A n \in DOMAIN rec \ kept, m \in kept : n < m
  PROVE  LET pruned == Pruned(kept, StoredAt(rec), retentionMs) IN
           /\ pruned \subseteq kept
           /\ \A n \in DOMAIN rec \ pruned, m \in pruned : n < m
  <1>1. DOMAIN rec = 1 .. Len(rec) /\ Len(rec) \in Nat
    OBVIOUS
  <1>2. \A n \in 1 .. Len(rec) : rec[n] \in StoredEvent
    OBVIOUS
  <1>3. \A n \in 1 .. Len(rec) : rec[n].stored_at \in Nat
    BY <1>2 DEF StoredEvent
  <1>4. StoredAt(rec) \in [1 .. Len(rec) -> Nat]
    BY <1>1, <1>3 DEF StoredAt
  <1> QED
    BY <1>1, <1>4, PrunedIsSuffix, HistoryAssumption

LEMMA PrunedDeliveries ==
  ASSUME NEW kept, NEW log
  PROVE  Pruned(kept, log, deliveryLogRetentionMs) \subseteq kept
  BY DEF Pruned

LEMMA InitIInv == Init => IInv
  BY HistoryAssumption
  DEF Init, IInv, TypeOK, Suffix, GotSoFar, UpTo, Catchup

LEMMA AppendStep ==
  ASSUME IInv, NEW source \in Source, append(source)
  PROVE  IInv'
  <1> DEFINE e   == [source |-> source, stored_at |-> now]
             rec == Append(recorded, e)
             new == events \cup {Len(rec)}
  <1>1. /\ recorded \in Seq(StoredEvent) /\ events \subseteq DOMAIN recorded
        /\ logged \in Seq(Nat) /\ deliveries \subseteq DOMAIN logged /\ now \in Nat
    BY DEF IInv, TypeOK
  <1>2. rec \in Seq(StoredEvent)
    BY <1>1 DEF StoredEvent
  <1>3. /\ Len(rec) = Len(recorded) + 1 /\ Len(recorded) \in Nat
        /\ DOMAIN rec = 1 .. Len(rec) /\ DOMAIN recorded = 1 .. Len(recorded)
        /\ \A n \in DOMAIN recorded : rec[n] = recorded[n]
    BY <1>1
  <1>4. /\ recorded' = rec
        /\ events' = Pruned(new, StoredAt(rec), retentionMs)
        /\ deliveries' = Pruned(deliveries, logged, deliveryLogRetentionMs)
        /\ UNCHANGED <<logged, now, setBacks, pagers>>
    BY DEF append, PruneEvents, PruneDeliveries
  <1>5. new \in SUBSET DOMAIN rec /\ \A n \in DOMAIN rec \ new, m \in new : n < m
    BY <1>1, <1>3 DEF IInv, Suffix
  <1> HIDE DEF rec, new
  <1>6. /\ events' \subseteq new
        /\ \A n \in DOMAIN rec \ events', m \in events' : n < m
    BY <1>1, <1>2, <1>4, <1>5, PrunedEvents
  <1>7. deliveries' \subseteq deliveries
    BY <1>4, PrunedDeliveries
  <1>8. TypeOK'
    <2>1. /\ recorded' \in Seq(StoredEvent) /\ events' \subseteq DOMAIN recorded'
          /\ deliveries' \subseteq DOMAIN logged'
      BY <1>1, <1>2, <1>4, <1>5, <1>6, <1>7
    <2>2. \A p \in Pager :
            /\ pagers[p].got \subseteq DOMAIN rec
            /\ pagers[p].since <= Len(rec) /\ pagers[p].asOf <= Len(rec)
      BY <1>3 DEF IInv, TypeOK, Catchup
    <2> QED
      BY <1>4, <2>1, <2>2 DEF IInv, TypeOK
  <1>9. ASSUME NEW p \in Pager
        PROVE  GotSoFar(pagers[p])'
    <2>1. \A n \in 1 .. UpTo(pagers[p]) : recorded'[n] = recorded[n]
      BY <1>3, <1>4 DEF UpTo, Catchup, IInv, TypeOK
    <2> QED
      BY <1>4, <2>1 DEF IInv, GotSoFar, UpTo, Wanted, FromSource
  <1> QED
    BY <1>4, <1>6, <1>8, <1>9 DEF IInv, Suffix

(***************************************************************************)
(* A step that records nothing and prunes keeps what every subscriber got. *)
(***************************************************************************)
LEMMA PruneStep ==
  ASSUME IInv, PruneEvents(events, recorded), UNCHANGED recorded
  PROVE  events' \subseteq events /\ Suffix'
  BY PrunedEvents DEF IInv, TypeOK, Suffix, PruneEvents

LEMMA GotUnchanged ==
  ASSUME IInv, UNCHANGED <<recorded, pagers>>
  PROVE  \A p \in Pager : GotSoFar(pagers[p])'
  BY DEF IInv, GotSoFar, UpTo, Wanted, FromSource

LEMMA RecordDeliveryStep ==
  ASSUME IInv, recordDelivery
  PROVE  IInv'
  <1> DEFINE log == Append(logged, now)
  <1> USE DEF IInv, TypeOK
  <1>1. /\ log \in Seq(Nat) /\ DOMAIN log = 1 .. Len(log)
        /\ Len(log) = Len(logged) + 1 /\ DOMAIN logged = 1 .. Len(logged)
    OBVIOUS
  <1>2. /\ logged' = log
        /\ deliveries' \subseteq deliveries \cup {Len(log)}
        /\ PruneEvents(events, recorded)
        /\ UNCHANGED <<recorded, now, setBacks, pagers>>
    BY PrunedDeliveries DEF recordDelivery, PruneDeliveries
  <1>3. events' \subseteq events /\ Suffix'
    BY <1>2, PruneStep
  <1>4. TypeOK'
    BY <1>1, <1>2, <1>3
  <1> QED
    BY <1>2, <1>3, <1>4, GotUnchanged

LEMMA ConsultStep ==
  ASSUME IInv, Consult
  PROVE  IInv'
  <1>1. /\ PruneEvents(events, recorded)
        /\ deliveries' \subseteq deliveries
        /\ UNCHANGED <<recorded, logged, now, setBacks, pagers>>
    BY PrunedDeliveries DEF Consult, PruneDeliveries
  <1>2. events' \subseteq events /\ Suffix'
    BY <1>1, PruneStep
  <1>3. TypeOK'
    BY <1>1, <1>2 DEF IInv, TypeOK
  <1> QED
    BY <1>1, <1>2, <1>3, GotUnchanged DEF IInv

LEMMA ClockStep ==
  ASSUME IInv, Tick \/ SetBack
  PROVE  IInv'
  <1>1. UNCHANGED <<recorded, events, logged, deliveries, pagers>>
    BY DEF Tick, SetBack
  <1>2. now' \in Nat /\ setBacks' \in Nat
    BY DEF IInv, TypeOK, Tick, SetBack
  <1>3. TypeOK' /\ Suffix'
    BY <1>1, <1>2 DEF IInv, TypeOK, Suffix
  <1> QED
    BY <1>1, <1>3, GotUnchanged DEF IInv

LEMMA BeginStep ==
  ASSUME IInv, NEW p \in Pager, NEW source \in Source \cup {AnySource},
         NEW since \in 0 .. Len(recorded), NEW until \in 0 .. Len(recorded),
         NEW limit \in Limits, Begin(p, source, since, until, limit)
  PROVE  IInv'
  <1> DEFINE q == [pc |-> "paging", source |-> source, since |-> since,
                   until |-> until, limit |-> limit, skipped |-> 1 .. since, got |-> {}, asOf |-> 0]
  <1>1. /\ pagers' = [pagers EXCEPT ![p] = q]
        /\ UNCHANGED <<recorded, events, logged, deliveries, now, setBacks>>
    BY DEF Begin
  <1>2. since \in Nat /\ until \in Nat /\ since <= Len(recorded) /\ Len(recorded) \in Nat
        /\ limit \in Nat
    BY HistoryAssumption DEF IInv, TypeOK
  <1>3. q \in Catchup
    BY <1>2 DEF Catchup
  <1>4. TypeOK' /\ Suffix'
    BY <1>1, <1>2, <1>3 DEF IInv, TypeOK, Suffix
  <1>5. GotSoFar(q)'
    BY <1>2 DEF GotSoFar, UpTo, Wanted
  <1>6. \A r \in Pager \ {p} : GotSoFar(pagers[r])'
    BY <1>1 DEF IInv, TypeOK, GotSoFar, UpTo, Wanted, FromSource
  <1>7. pagers'[p] = q
    BY <1>1 DEF IInv, TypeOK
  <1>8. GotSoFar(pagers[p])'
    BY <1>5, <1>7 DEF GotSoFar, UpTo, Wanted, FromSource
  <1> QED
    BY <1>4, <1>6, <1>8 DEF IInv

(***************************************************************************)
(* One page: what lies between the old cursor and the new one is retained, *)
(* so the page holds all of it that was wanted.                            *)
(***************************************************************************)
LEMMA PageStep ==
  ASSUME IInv, NEW p \in Pager, history(p)
  PROVE  IInv'
  <1> DEFINE q    == pagers[p]
             kept == Pruned(events, StoredAt(recorded), retentionMs)
             M    == Matching(kept, q)
  <1> USE DEF IInv, TypeOK
  <1>1. /\ q \in Catchup /\ q.pc = "paging"
        /\ events' = kept
        /\ deliveries' \subseteq deliveries
        /\ UNCHANGED <<recorded, logged, now, setBacks>>
    BY PrunedDeliveries DEF history, PruneDeliveries
  <1>2. /\ kept \subseteq events /\ Suffix'
        /\ \A n \in DOMAIN recorded \ kept, m \in kept : n < m
    BY <1>1, PruneStep DEF PruneEvents, Suffix
  <1>3. /\ DOMAIN recorded = 1 .. Len(recorded) /\ Len(recorded) \in Nat
        /\ M \in SUBSET (1 .. Len(recorded))
    BY <1>2 DEF Matching
  <1> DEFINE NewPager(r) == /\ r \in Catchup
                            /\ r.got \subseteq DOMAIN recorded
                            /\ r.since <= Len(recorded) /\ r.asOf <= Len(recorded)
                            /\ r.pc = "gone" => r.since # 0
                            /\ GotSoFar(r)
  <1>4. ASSUME NEW r, NewPager(r), pagers' = [pagers EXCEPT ![p] = r]
        PROVE  IInv'
    <2>1. TypeOK'
      BY <1>1, <1>2, <1>4
    <2>2. pagers'[p] = r /\ \A o \in Pager \ {p} : pagers'[o] = pagers[o]
      BY <1>4
    <2>3. \A o \in Pager : GotSoFar(pagers[o])'
      BY <1>1, <1>4, <2>2 DEF GotSoFar, UpTo, Wanted, FromSource
    <2> QED
      BY <1>2, <2>1, <2>3
  <1>5. CASE Unsatisfiable(q, kept) /\ pagers' = [pagers EXCEPT ![p].pc = "gone"]
    <2> DEFINE r == [q EXCEPT !.pc = "gone"]
    <2>1. pagers' = [pagers EXCEPT ![p] = r]
      BY <1>5
    <2>2. NewPager(r)
      BY <1>1, <1>5 DEF Unsatisfiable, Catchup, GotSoFar, UpTo, Wanted, FromSource
    <2> QED
      BY <1>4, <2>1, <2>2
  <1>6. ASSUME ~Unsatisfiable(q, kept)
        PROVE  LET page  == Page(M, clampLimit(q.limit))
                   asked == [q EXCEPT
                     !.skipped = IF q.since = 0 THEN DOMAIN recorded \ kept ELSE @,
                     !.got = @ \cup page]
               IN /\ page = M =>
                       NewPager([asked EXCEPT !.pc = "caughtup", !.asOf = Len(recorded)])
                  /\ page # M => NewPager([asked EXCEPT !.since = LastOf(page)])
    <2> DEFINE page  == Page(M, clampLimit(q.limit))
               asked == [q EXCEPT
                 !.skipped = IF q.since = 0 THEN DOMAIN recorded \ kept ELSE @,
                 !.got = @ \cup page]
    <2>1. page \subseteq M
      BY DEF Page
    <2>2. /\ asked \in Catchup /\ asked.pc = "paging"
          /\ asked.got = q.got \cup page /\ asked.got \subseteq DOMAIN recorded
          /\ asked.since = q.since /\ asked.until = q.until /\ asked.source = q.source
          /\ asked.asOf = q.asOf
          /\ asked.skipped = IF q.since = 0 THEN DOMAIN recorded \ kept ELSE q.skipped
      <3> DEFINE skip == IF q.since = 0 THEN DOMAIN recorded \ kept ELSE q.skipped
                 got  == q.got \cup page
      <3>1. page \in SUBSET Nat /\ page \subseteq DOMAIN recorded /\ DOMAIN recorded \in SUBSET Nat
        BY <1>3, <2>1
      <3>2. q.skipped \in SUBSET Nat /\ q.got \in SUBSET Nat /\ q.got \subseteq DOMAIN recorded
        BY <1>1 DEF Catchup
      <3>3. skip \in SUBSET Nat /\ got \in SUBSET Nat /\ got \subseteq DOMAIN recorded
        BY <3>1, <3>2
      <3>4. asked = [q EXCEPT !.skipped = skip, !.got = got]
        OBVIOUS
      <3> HIDE DEF page, kept, skip, got, asked
      <3>5. /\ asked \in Catchup /\ asked.pc = "paging" /\ asked.got = got
            /\ asked.since = q.since /\ asked.until = q.until /\ asked.source = q.source
            /\ asked.asOf = q.asOf /\ asked.skipped = skip
        BY <1>1, <3>3, <3>4 DEF Catchup
      <3> QED
        BY <3>3, <3>5 DEF skip, got
    <2>3. ASSUME NEW n \in DOMAIN recorded, Wanted(asked, n), n \notin asked.got
          PROVE  n \in M
      <3>1. q.since = 0 => n \in kept
        BY <2>2, <2>3 DEF Wanted
      <3>2. q.since # 0 /\ n <= q.since => n \in q.got
        <4>1. GotSoFar(q) /\ UpTo(q) = q.since
          BY <1>1 DEF UpTo
        <4>2. n \in Nat /\ n >= 1 /\ q.since \in Nat
          BY <1>1, <1>3 DEF Catchup
        <4>3. q.since # 0 => Wanted(q, n)
          <5> HIDE DEF asked, q
          <5> QED
            BY <2>2, <2>3 DEF Wanted
        <4> QED
          BY <4>1, <4>2, <4>3 DEF GotSoFar
      <3>3. n > q.since
        BY <1>1, <1>3, <2>2, <2>3, <3>2 DEF Catchup
      <3>4. n \in kept
        BY <1>1, <1>2, <1>3, <1>6, <3>1, <3>3 DEF Unsatisfiable, Catchup
      <3>5. q.until \in kept => n <= q.until
        BY <1>2, <1>3, <2>2, <2>3 DEF Wanted
      <3> QED
        BY <2>2, <2>3, <3>3, <3>4, <3>5 DEF Matching, Wanted, FromSource
    <2>4. CASE page = M
      <3> DEFINE r == [asked EXCEPT !.pc = "caughtup", !.asOf = Len(recorded)]
      <3>1. /\ r \in Catchup /\ r.pc = "caughtup" /\ r.asOf = Len(recorded)
            /\ r.got = asked.got /\ r.since = asked.since
        BY <1>3, <2>2 DEF Catchup
      <3>2. \A n : Wanted(r, n) <=> Wanted(asked, n)
        BY <2>2 DEF Wanted, FromSource, Catchup
      <3>3. GotSoFar(r)
        BY <1>3, <2>2, <2>3, <2>4, <3>1, <3>2 DEF GotSoFar, UpTo
      <3> QED
        BY <1>1, <1>3, <2>2, <2>4, <3>1, <3>3
    <2>5. CASE page # M
      <3> DEFINE last == LastOf(page)
                 r    == [asked EXCEPT !.since = last]
      <3>1. clampLimit(q.limit) \in Nat \ {0}
        BY <1>1, HistoryAssumption DEF clampLimit, Catchup
      <3>2. last \in page /\ \A n \in M : n <= last => n \in page
        BY <1>3, <2>5, <3>1, PageIsPrefix
      <3>3. last \in 1 .. Len(recorded)
        BY <1>3, <2>1, <3>2
      <3> HIDE DEF last
      <3>4. /\ r \in Catchup /\ r.pc = "paging" /\ r.since = last
            /\ r.got = asked.got /\ r.asOf = asked.asOf
        <4>1. last \in Nat
          BY <3>3
        <4> HIDE DEF page, asked
        <4> QED
          BY <2>2, <4>1 DEF Catchup
      <3>5. \A n : Wanted(r, n) <=> Wanted(asked, n)
        BY <2>2 DEF Wanted, FromSource, Catchup
      <3>6. GotSoFar(r)
        BY <1>3, <2>2, <2>3, <3>2, <3>3, <3>4, <3>5 DEF GotSoFar, UpTo
      <3> QED
        BY <1>1, <1>3, <2>2, <2>5, <3>3, <3>4, <3>6 DEF last
    <2> QED
      BY <2>4, <2>5
  <1> QED
    BY <1>4, <1>5, <1>6 DEF history

LEMMA StepIInv == IInv /\ [Next]_vars => IInv'
  <1> SUFFICES ASSUME IInv, [Next]_vars PROVE IInv'
    OBVIOUS
  <1>1. ASSUME NEW source \in Source, append(source) PROVE IInv'
    BY <1>1, AppendStep
  <1>2. CASE recordDelivery
    BY <1>2, RecordDeliveryStep
  <1>3. CASE Consult
    BY <1>3, ConsultStep
  <1>4. ASSUME NEW p \in Pager, CatchUp(p) PROVE IInv'
    BY <1>4, BeginStep, PageStep DEF CatchUp
  <1>5. CASE Tick \/ SetBack
    BY <1>5, ClockStep
  <1>6. CASE UNCHANGED vars
    BY <1>6 DEF vars, IInv, TypeOK, Suffix, GotSoFar, UpTo, Wanted, FromSource
  <1> QED
    BY <1>1, <1>2, <1>3, <1>4, <1>5, <1>6 DEF Next

(***************************************************************************)
(* What leaves the store is a prefix, and no subscriber has missed what it *)
(* wanted up to its cursor: the two facts that every step of the store and *)
(* of its readers keeps.                                                   *)
(***************************************************************************)
THEOREM Inductive == Spec => []IInv
  BY InitIInv, StepIInv, PTL DEF Spec

(***************************************************************************)
(* Type correctness of the store, the delivery log and the subscribers.    *)
(***************************************************************************)
THEOREM HistoryTypeCorrect == Spec => []TypeOK
  <1>1. IInv => TypeOK
    BY DEF IInv
  <1> QED
    BY <1>1, Inductive, PTL

(***************************************************************************)
(* history() never leaves a hole unannounced: a subscriber that pages to   *)
(* the end has every event it wanted, however retention, new events and    *)
(* the clock interleave with its pages.                                    *)
(***************************************************************************)
THEOREM CaughtUpIsComplete == Spec => []NoSilentGap
  <1>1. IInv => NoSilentGap
    BY DEF IInv, NoSilentGap, GotSoFar, UpTo
  <1> QED
    BY <1>1, Inductive, PTL

(***************************************************************************)
(* What prune() removes is older than the retention.                       *)
(***************************************************************************)
LEMMA PrunedIsOld ==
  ASSUME NEW kept \in SUBSET Nat, NEW storedAt, NEW retention \in Nat, now \in Nat,
         \A n \in kept : storedAt[n] \in Nat,
         NEW n \in kept \ Pruned(kept, storedAt, retention)
  PROVE  storedAt[n] + retention < now
  BY DEF Pruned

LEMMA EventsFloor ==
  ASSUME IInv, NEW rec \in Seq(StoredEvent), NEW kept \in SUBSET DOMAIN rec,
         events \subseteq kept, PruneEvents(kept, rec),
         \A n \in events : rec[n] = recorded[n],
         NEW n \in events \ events'
  PROVE  recorded[n].stored_at + retentionMs < now
  <1>1. DOMAIN rec = 1 .. Len(rec) /\ Len(rec) \in Nat
    OBVIOUS
  <1>2. \A m \in kept : StoredAt(rec)[m] = rec[m].stored_at /\ StoredAt(rec)[m] \in Nat
    <2>1. \A m \in kept : rec[m] \in StoredEvent
      OBVIOUS
    <2> QED
      BY <2>1 DEF StoredAt, StoredEvent
  <1>3. kept \in SUBSET Nat /\ now \in Nat /\ retentionMs \in Nat
    BY <1>1, HistoryAssumption DEF IInv, TypeOK
  <1>4. n \in kept \ Pruned(kept, StoredAt(rec), retentionMs)
    BY DEF PruneEvents
  <1> QED
    BY <1>2, <1>3, <1>4, PrunedIsOld

LEMMA DeliveriesFloor ==
  ASSUME IInv, NEW log \in Seq(Nat), NEW kept \in SUBSET DOMAIN log,
         deliveries \subseteq kept, PruneDeliveries(kept, log),
         \A n \in deliveries : log[n] = logged[n],
         NEW n \in deliveries \ deliveries'
  PROVE  logged[n] + deliveryLogRetentionMs < now
  <1>1. kept \in SUBSET Nat /\ now \in Nat /\ deliveryLogRetentionMs \in Nat
    BY HistoryAssumption DEF IInv, TypeOK
  <1>2. n \in kept \ Pruned(kept, log, deliveryLogRetentionMs)
    BY DEF PruneDeliveries
  <1> QED
    BY <1>1, <1>2, PrunedIsOld

(***************************************************************************)
(* prune() removes nothing that is within its retention, although it looks *)
(* only at the head.                                                       *)
(***************************************************************************)
THEOREM RetentionIsAFloor == Spec => RetentionFloor
  <1> DEFINE Floor == /\ \A n \in events \ events' : recorded[n].stored_at + retentionMs < now
                      /\ \A n \in deliveries \ deliveries' :
                           logged[n] + deliveryLogRetentionMs < now
  <1>1. ASSUME IInv, [Next]_vars PROVE [Floor]_vars
    <2>1. /\ recorded \in Seq(StoredEvent) /\ events \subseteq DOMAIN recorded
          /\ logged \in Seq(Nat) /\ deliveries \subseteq DOMAIN logged /\ now \in Nat
      BY <1>1 DEF IInv, TypeOK
    <2>2. ASSUME NEW source \in Source, append(source) PROVE Floor
      <3> DEFINE rec == Append(recorded, [source |-> source, stored_at |-> now])
                 new == events \cup {Len(rec)}
      <3>1. /\ rec \in Seq(StoredEvent) /\ new \subseteq DOMAIN rec
            /\ \A n \in events : rec[n] = recorded[n]
        BY <2>1 DEF StoredEvent
      <3>2. PruneEvents(new, rec) /\ PruneDeliveries(deliveries, logged)
        BY <2>2 DEF append
      <3> QED
        BY <1>1, <2>1, <3>1, <3>2, EventsFloor, DeliveriesFloor
    <2>3. CASE recordDelivery
      <3> DEFINE log == Append(logged, now)
                 new == deliveries \cup {Len(log)}
      <3>1. /\ log \in Seq(Nat) /\ new \subseteq DOMAIN log
            /\ \A n \in deliveries : log[n] = logged[n]
        BY <2>1
      <3>2. PruneEvents(events, recorded) /\ PruneDeliveries(new, log)
        BY <2>3 DEF recordDelivery
      <3> QED
        BY <1>1, <2>1, <3>1, <3>2, EventsFloor, DeliveriesFloor
    <2>4. ASSUME PruneEvents(events, recorded), PruneDeliveries(deliveries, logged)
          PROVE  Floor
      BY <1>1, <2>1, <2>4, EventsFloor, DeliveriesFloor
    <2>5. ASSUME events' = events, deliveries' = deliveries PROVE Floor
      BY <2>5
    <2>6. CASE Consult
      BY <2>4, <2>6 DEF Consult
    <2>7. ASSUME NEW p \in Pager, CatchUp(p) PROVE Floor
      BY <2>4, <2>5, <2>7 DEF CatchUp, Begin, history, PruneEvents
    <2>8. CASE Tick \/ SetBack
      BY <2>5, <2>8 DEF Tick, SetBack
    <2> QED
      BY <1>1, <2>2, <2>3, <2>6, <2>7, <2>8 DEF Next
  <1> QED
    BY <1>1, Inductive, PTL DEF Spec, RetentionFloor
-----------------------------------------------------------------------------
(***************************************************************************)
(* The page a subscriber is served, out of what is in the store once the   *)
(* request has pruned it.                                                  *)
(***************************************************************************)
Served(q) == Page(Matching(events', q), clampLimit(q.limit))

(***************************************************************************)
(* What a request may do to the subscriber that makes it.                  *)
(***************************************************************************)
ServedPage(q, r) ==
  /\ Served(q) \subseteq Matching(events', q)
  /\ r.got = q.got \cup Served(q) /\ r.source = q.source
  /\ r.skipped = IF q.since = 0 THEN DOMAIN recorded \ events' ELSE q.skipped
  /\ \/ r.pc = "caughtup"
     \/ /\ r.pc = "paging" /\ r.since \in Served(q)
        /\ \A n \in Served(q) : n <= r.since

LEMMA ServedIsPrefix ==
  ASSUME IInv, NEW q \in Catchup, NEW kept \in SUBSET DOMAIN recorded
  PROVE  LET M    == Matching(kept, q)
             page == Page(M, clampLimit(q.limit))
         IN  /\ page \subseteq M
             /\ page # M => LastOf(page) \in page /\ \A n \in page : n <= LastOf(page)
<1> DEFINE M    == Matching(kept, q)
           page == Page(M, clampLimit(q.limit))
<1>1. DOMAIN recorded = 1 .. Len(recorded) /\ Len(recorded) \in Nat
  BY DEF IInv, TypeOK
<1>2. clampLimit(q.limit) \in Nat \ {0}
  BY HistoryAssumption DEF clampLimit, Catchup
<1>3. M \in SUBSET (1 .. Len(recorded)) /\ page \subseteq M
  BY <1>1 DEF Matching, Page
<1>4. ASSUME page # M
      PROVE  LastOf(page) \in page /\ \A n \in page : n <= LastOf(page)
  <2>1. LastOf(page) \in page
    BY <1>1, <1>2, <1>3, <1>4, PageIsPrefix
  <2>2. page \in SUBSET Nat /\ \A n \in page : n <= Len(recorded)
    BY <1>1, <1>3
  <2>3. \E n \in page : \A m \in page : m <= n
    BY <1>1, <2>1, <2>2, GreatestElement
  <2> QED
    BY <2>1, <2>3 DEF LastOf
<1> QED
  BY <1>3, <1>4

LEMMA HistorySteps ==
  ASSUME IInv, NEW p \in Pager, history(p)
  PROVE  /\ \A o \in Pager \ {p} : pagers'[o] = pagers[o]
         /\ pagers[p].pc = "paging" /\ recorded' = recorded
         /\ \/ pagers'[p] = [pagers[p] EXCEPT !.pc = "gone"]
            \/ ServedPage(pagers[p], pagers'[p])
<1> DEFINE q     == pagers[p]
           page  == Served(q)
           asked == [q EXCEPT
             !.skipped = IF q.since = 0 THEN DOMAIN recorded \ events' ELSE @,
             !.got = @ \cup page]
<1>1. /\ q.pc = "paging" /\ recorded' = recorded
      /\ events' = Pruned(events, StoredAt(recorded), retentionMs)
      /\ \/ pagers' = [pagers EXCEPT ![p].pc = "gone"]
         \/ /\ page = Matching(events', q)
            /\ pagers' = [pagers EXCEPT ![p] = [asked EXCEPT !.pc = "caughtup",
                                                             !.asOf = Len(recorded)]]
         \/ /\ page # Matching(events', q)
            /\ pagers' = [pagers EXCEPT ![p] = [asked EXCEPT !.since = LastOf(page)]]
  BY DEF history, Served
<1>2. q \in Catchup /\ DOMAIN pagers = Pager /\ events' \in SUBSET DOMAIN recorded
  BY <1>1 DEF IInv, TypeOK, Pruned
<1>3. page \subseteq Matching(events', q)
  BY <1>2, ServedIsPrefix DEF Served
<1>4. CASE pagers' = [pagers EXCEPT ![p].pc = "gone"]
  BY <1>1, <1>2, <1>4
<1> DEFINE skip == IF q.since = 0 THEN DOMAIN recorded \ events' ELSE q.skipped
<1>5. /\ asked.got = q.got \cup page /\ asked.source = q.source /\ asked.skipped = skip
      /\ asked.pc = "paging" /\ DOMAIN asked = DOMAIN q
  BY <1>1, <1>2 DEF Catchup
<1>6. CASE /\ page = Matching(events', q)
           /\ pagers' = [pagers EXCEPT ![p] = [asked EXCEPT !.pc = "caughtup",
                                                            !.asOf = Len(recorded)]]
  <2> DEFINE r == [asked EXCEPT !.pc = "caughtup", !.asOf = Len(recorded)]
  <2>1. r.got = asked.got /\ r.source = asked.source /\ r.skipped = asked.skipped
        /\ r.pc = "caughtup"
    BY <1>2, <1>5 DEF Catchup
  <2>2. pagers'[p] = r /\ \A o \in Pager \ {p} : pagers'[o] = pagers[o]
    BY <1>2, <1>6
  <2> HIDE DEF r, asked, page
  <2> QED
    BY <1>1, <1>3, <1>5, <2>1, <2>2 DEF ServedPage, page
<1>7. CASE /\ page # Matching(events', q)
           /\ pagers' = [pagers EXCEPT ![p] = [asked EXCEPT !.since = LastOf(page)]]
  <2> DEFINE last == LastOf(page)
             r == [asked EXCEPT !.since = last]
  <2>1. last \in page /\ \A n \in page : n <= last
    BY <1>2, <1>7, ServedIsPrefix DEF Served
  <2> HIDE DEF last
  <2>2. r.got = asked.got /\ r.source = asked.source /\ r.skipped = asked.skipped
        /\ r.pc = "paging" /\ r.since = last
    BY <1>2, <1>5 DEF Catchup
  <2>3. pagers'[p] = r /\ \A o \in Pager \ {p} : pagers'[o] = pagers[o]
    BY <1>2, <1>7 DEF last
  <2> HIDE DEF r, asked, page
  <2> QED
    BY <1>1, <1>3, <1>5, <2>1, <2>2, <2>3 DEF ServedPage, page
<1> QED
  BY <1>1, <1>4, <1>6, <1>7

(***************************************************************************)
(* A subscriber is given nothing it did not ask for: every event it has    *)
(* got comes from its source, and none is one it had already processed or  *)
(* one that was out of the store when it began.                            *)
(***************************************************************************)
OnlyAsked(q) == \A n \in q.got : FromSource(n, q.source) /\ n \notin q.skipped

NothingUnasked == \A p \in Pager : OnlyAsked(pagers[p])

(***************************************************************************)
(* What was got or skipped lies up to the cursor of the next page.         *)
(***************************************************************************)
BeforeCursor(q) ==
  q.pc = "paging" =>
    /\ \A n \in q.got : n <= q.since
    /\ q.since # 0 => \A n \in q.skipped : n <= q.since

ReadInv == \A p \in Pager : BeforeCursor(pagers[p]) /\ OnlyAsked(pagers[p])

LEMMA ServedLater ==
  ASSUME IInv, ReadInv, NEW p \in Pager, history(p), ServedPage(pagers[p], pagers'[p])
  PROVE  \A n \in Served(pagers[p]) :
           /\ n \in events' /\ n \in DOMAIN recorded /\ n > pagers[p].since
           /\ FromSource(n, pagers[p].source) /\ n \notin pagers'[p].skipped
           /\ \A m \in pagers[p].got : m < n
<1> DEFINE q == pagers[p]
<1>1. q \in Catchup /\ q.pc = "paging" /\ DOMAIN recorded = 1 .. Len(recorded)
  <2>1. q.pc = "paging"
    BY DEF history
  <2> QED
    BY <2>1 DEF IInv, TypeOK
<1>2. events' \subseteq DOMAIN recorded
  BY DEF history, Pruned, IInv, TypeOK
<1>3. \A n \in Served(q) : n \in events' /\ n > q.since /\ FromSource(n, q.source)
  BY DEF ServedPage, Matching
<1>4. BeforeCursor(q) /\ OnlyAsked(q)
  BY DEF ReadInv
<1>5. \A n \in q.got \cup q.skipped : n \in Nat
  BY <1>1 DEF Catchup
<1> SUFFICES ASSUME NEW n \in Served(q)
             PROVE  /\ n \in events' /\ n \in DOMAIN recorded /\ n > q.since
                    /\ FromSource(n, q.source) /\ n \notin pagers'[p].skipped
                    /\ \A m \in q.got : m < n
  OBVIOUS
<1>6. n \in Nat /\ q.since \in Nat
  BY <1>1, <1>2, <1>3 DEF Catchup
<1>7. \A m \in q.got : m < n
  BY <1>1, <1>3, <1>4, <1>5, <1>6 DEF BeforeCursor
<1>8. n \notin pagers'[p].skipped
  <2>1. pagers'[p].skipped = IF q.since = 0 THEN DOMAIN recorded \ events' ELSE q.skipped
    BY DEF ServedPage
  <2> QED
    BY <1>1, <1>3, <1>4, <1>5, <1>6, <2>1 DEF BeforeCursor
<1> QED
  BY <1>2, <1>3, <1>7, <1>8

LEMMA PageRead ==
  ASSUME IInv, ReadInv, NEW p \in Pager, history(p)
  PROVE  ReadInv'
<1> DEFINE q == pagers[p]
           r == pagers'[p]
<1>1. /\ \A o \in Pager \ {p} : pagers'[o] = pagers[o]
      /\ q.pc = "paging" /\ recorded' = recorded
      /\ r = [q EXCEPT !.pc = "gone"] \/ ServedPage(q, r)
  BY HistorySteps
<1>2. q \in Catchup /\ BeforeCursor(q) /\ OnlyAsked(q)
  BY DEF IInv, TypeOK, ReadInv
<1>3. CASE r = [q EXCEPT !.pc = "gone"]
  <2>1. r.pc = "gone" /\ r.got = q.got /\ r.source = q.source /\ r.skipped = q.skipped
    BY <1>2, <1>3 DEF Catchup
  <2>2. BeforeCursor(r) /\ OnlyAsked(r)
    BY <1>2, <2>1 DEF BeforeCursor, OnlyAsked
  <2> QED
    BY <1>1, <2>2 DEF ReadInv, OnlyAsked, FromSource
<1>4. CASE ServedPage(q, r)
  <2>1. \A n \in Served(q) :
          /\ n \in events' /\ n \in DOMAIN recorded /\ n > q.since
          /\ FromSource(n, q.source) /\ n \notin r.skipped
          /\ \A m \in q.got : m < n
    BY <1>4, ServedLater
  <2>2. r.got = q.got \cup Served(q) /\ r.source = q.source
        /\ r.skipped = IF q.since = 0 THEN DOMAIN recorded \ events' ELSE q.skipped
    BY <1>4 DEF ServedPage
  <2>3. q.since = 0 => q.got = {}
    BY <1>1 DEF IInv, GotSoFar
  <2>4. OnlyAsked(r)
    BY <1>2, <2>1, <2>2, <2>3 DEF OnlyAsked
  <2>5. ASSUME r.pc = "paging"
        PROVE  /\ \A n \in r.got : n <= r.since
               /\ \A n \in r.skipped : n <= r.since
    <3>1. r.since \in Served(q) /\ \A n \in Served(q) : n <= r.since
      BY <1>4, <2>5 DEF ServedPage
    <3>2. /\ q.got \subseteq Nat /\ q.skipped \subseteq Nat /\ q.since \in Nat
          /\ DOMAIN recorded = 1 .. Len(recorded) /\ r.since \in Nat
      BY <1>2, <2>1, <3>1 DEF Catchup, IInv, TypeOK
    <3>3. \A n \in r.got : n <= r.since
      BY <2>1, <2>2, <3>1, <3>2
    <3>4. CASE q.since = 0
      <4>1. \A n \in DOMAIN recorded \ events', m \in events' : n < m
        BY StepIInv, <1>1 DEF IInv, Suffix, Next, CatchUp
      <4> QED
        BY <2>1, <2>2, <3>1, <3>2, <3>3, <3>4, <4>1
    <3>5. CASE q.since # 0
      <4>1. \A n \in q.skipped : n <= q.since
        BY <1>1, <1>2, <3>5 DEF BeforeCursor
      <4>2. r.since > q.since
        BY <2>1, <3>1
      <4> QED
        BY <2>2, <3>2, <3>3, <3>5, <4>1, <4>2
    <3> QED
      BY <3>4, <3>5
  <2>6. BeforeCursor(r)
    BY <2>5 DEF BeforeCursor
  <2> QED
    BY <1>1, <2>4, <2>6 DEF ReadInv, OnlyAsked, FromSource
<1> QED
  BY <1>1, <1>3, <1>4

LEMMA StepRead ==
  ASSUME IInv, ReadInv, [Next]_vars
  PROVE  ReadInv'
<1>1. CASE UNCHANGED <<recorded, pagers>>
  BY <1>1 DEF ReadInv, BeforeCursor, OnlyAsked, FromSource
<1>2. ASSUME NEW source \in Source, append(source) PROVE ReadInv'
  <2>1. pagers' = pagers /\ \A n \in DOMAIN recorded : recorded'[n] = recorded[n]
    BY <1>2 DEF append, IInv, TypeOK
  <2>2. \A p \in Pager : pagers[p].got \subseteq DOMAIN recorded
    BY DEF IInv, TypeOK
  <2> QED
    BY <2>1, <2>2 DEF ReadInv, BeforeCursor, OnlyAsked, FromSource
<1>3. ASSUME NEW p \in Pager, NEW source, NEW since, NEW until, NEW limit,
             since \in 0 .. Len(recorded), Begin(p, source, since, until, limit)
      PROVE  ReadInv'
  <2> DEFINE q == [pc |-> "paging", source |-> source, since |-> since, until |-> until,
                   limit |-> limit, skipped |-> 1 .. since, got |-> {}, asOf |-> 0]
  <2>1. pagers' = [pagers EXCEPT ![p] = q] /\ recorded' = recorded
    BY <1>3 DEF Begin
  <2>2. pagers'[p] = q /\ \A o \in Pager \ {p} : pagers'[o] = pagers[o]
    BY <2>1 DEF IInv, TypeOK
  <2>3. BeforeCursor(q) /\ OnlyAsked(q)
    BY <1>3 DEF BeforeCursor, OnlyAsked
  <2> HIDE DEF q
  <2> QED
    BY <2>1, <2>2, <2>3 DEF ReadInv, OnlyAsked, FromSource
<1>4. ASSUME NEW p \in Pager, history(p) PROVE ReadInv'
  BY <1>4, PageRead
<1> QED
  BY <1>1, <1>2, <1>3, <1>4
  DEF Next, CatchUp, vars, recordDelivery, Consult, Tick, SetBack

LEMMA ReadInvariant == Spec => [](IInv /\ ReadInv)
<1>1. Init => ReadInv
  BY DEF Init, ReadInv, BeforeCursor, OnlyAsked
<1> QED
  BY <1>1, Inductive, StepRead, PTL DEF Spec

(***************************************************************************)
(* A subscriber is given only what it asked for and had not processed,     *)
(* whatever retention and new events do between the pages.                 *)
(***************************************************************************)
THEOREM ServedWhatWasAsked == Spec => []NothingUnasked
<1>1. ReadInv => NothingUnasked
  BY DEF ReadInv, NothingUnasked
<1> QED
  BY <1>1, ReadInvariant, PTL

(***************************************************************************)
(* Each page continues where the one before ended: all of it is later than *)
(* everything the subscriber has got, so no event is served to it twice    *)
(* and none out of order.                                                  *)
(***************************************************************************)
PagesInOrder ==
  [][\A p \in Pager :
       history(p) /\ pagers'[p].pc # "gone" =>
         \A n \in Served(pagers[p]), m \in pagers[p].got : m < n]_vars

(***************************************************************************)
(* A subscriber that pages through the history receives each event once,   *)
(* in emission order, even when the clock is set back.                     *)
(***************************************************************************)
THEOREM EachEventServedOnce == Spec => PagesInOrder
<1>1. ASSUME IInv, ReadInv, NEW p \in Pager, history(p), pagers'[p].pc # "gone"
      PROVE  \A n \in Served(pagers[p]), m \in pagers[p].got : m < n
  <2>1. pagers'[p] # [pagers[p] EXCEPT !.pc = "gone"]
    BY <1>1 DEF IInv, TypeOK, Catchup
  <2> QED
    BY <1>1, <2>1, HistorySteps, ServedLater
<1>2. IInv /\ ReadInv /\ [Next]_vars =>
        [\A p \in Pager :
           history(p) /\ pagers'[p].pc # "gone" =>
             \A n \in Served(pagers[p]), m \in pagers[p].got : m < n]_vars
  BY <1>1
<1> QED
  BY <1>2, ReadInvariant, PTL DEF PagesInOrder, Spec

(***************************************************************************)
(* A request ends the catching up, with the last page or a 410, or moves   *)
(* the cursor forward to an event it has just served; the cursor never     *)
(* passes the newest event.                                                *)
(***************************************************************************)
CursorAdvances ==
  [][\A p \in Pager :
       pagers[p].pc = "paging" /\ pagers'[p] # pagers[p] =>
         \/ pagers'[p].pc \in {"caughtup", "gone"}
         \/ /\ pagers[p].since < pagers'[p].since /\ pagers'[p].since \in pagers'[p].got
            /\ pagers'[p].since <= Len(recorded)]_vars

(***************************************************************************)
(* No page, however small, leaves a subscriber where it was: each one but  *)
(* the last serves an event beyond the cursor and moves the cursor there.  *)
(***************************************************************************)
THEOREM EveryPageAdvances == Spec => CursorAdvances
<1> DEFINE Advances(p) ==
      pagers[p].pc = "paging" /\ pagers'[p] # pagers[p] =>
        \/ pagers'[p].pc \in {"caughtup", "gone"}
        \/ /\ pagers[p].since < pagers'[p].since /\ pagers'[p].since \in pagers'[p].got
           /\ pagers'[p].since <= Len(recorded)
<1>1. ASSUME IInv, ReadInv, NEW p \in Pager, history(p)
      PROVE  Advances(p)
  <2>1. pagers[p] \in Catchup /\ DOMAIN recorded = 1 .. Len(recorded)
    BY <1>1 DEF IInv, TypeOK
  <2>2. CASE pagers'[p] = [pagers[p] EXCEPT !.pc = "gone"]
    BY <2>1, <2>2 DEF Catchup
  <2>3. CASE ServedPage(pagers[p], pagers'[p])
    <3>1. \A n \in Served(pagers[p]) : n \in 1 .. Len(recorded) /\ n > pagers[p].since
      BY <1>1, <2>1, <2>3, ServedLater
    <3> QED
      BY <2>1, <2>3, <3>1 DEF ServedPage, Catchup
  <2> QED
    BY <1>1, <2>2, <2>3, HistorySteps
<1>2. ASSUME IInv, ReadInv, NEW p \in Pager, [Next]_vars, pagers[p].pc = "paging",
             pagers'[p] # pagers[p]
      PROVE  history(p)
  <2>1. \A o \in Pager \ {p} : history(o) => pagers'[p] = pagers[p]
    BY <1>2, HistorySteps
  <2>2. \A o, source, since, until, limit :
          Begin(o, source, since, until, limit) => pagers'[p] = pagers[p]
    BY <1>2 DEF Begin, IInv, TypeOK
  <2> QED
    BY <1>2, <2>1, <2>2 DEF Next, CatchUp, vars, append, recordDelivery, Consult, Tick, SetBack
<1>3. IInv /\ ReadInv /\ [Next]_vars => [\A p \in Pager : Advances(p)]_vars
  <2> SUFFICES ASSUME IInv, ReadInv, [Next]_vars, NEW p \in Pager PROVE Advances(p)
    OBVIOUS
  <2>1. CASE pagers[p].pc = "paging" /\ pagers'[p] # pagers[p]
    <3> HIDE DEF Advances
    <3> QED
      BY <1>1, <1>2, <2>1
  <2> QED
    BY <2>1
<1> QED
  BY <1>3, ReadInvariant, PTL DEF CursorAdvances, Spec

(***************************************************************************)
(* A page holds at most the limit, clamped to 1 .. MaxLimit or replaced by *)
(* the default, and something whenever anything matches.                   *)
(***************************************************************************)
LEMMA PageIsSmall ==
  ASSUME NEW bound \in Nat, NEW matching \in SUBSET (1 .. bound), NEW limit \in Nat \ {0}
  PROVE  LET page == Page(matching, limit) IN
           /\ IsFiniteSet(page) /\ Cardinality(page) <= limit
           /\ matching # {} => page # {}
<1> DEFINE page == Page(matching, limit)
           Before(n) == {m \in matching : m < n}
<1>1. IsFiniteSet(matching) /\ page \subseteq matching /\ page \in SUBSET Nat
      /\ \A n \in page : n <= bound
  <2>1. matching \in SUBSET Nat /\ \A n \in matching : n <= bound
    OBVIOUS
  <2>2. page \subseteq matching
    BY DEF Page
  <2> QED
    BY <2>1, <2>2, FS_BoundedSetOfNaturals
<1>2. IsFiniteSet(page)
  BY <1>1, FS_Subset
<1>3. ASSUME page # {}
      PROVE  Cardinality(page) <= limit
  <2>1. PICK l \in page : \A m \in page : m <= l
    BY <1>1, <1>3, GreatestElement
  <2>2. l \in matching /\ l \in Nat /\ Cardinality(Before(l)) < limit
    BY <1>1, <2>1 DEF Page
  <2>3. page \ {l} \subseteq Before(l)
    BY <1>1, <2>1, <2>2
  <2>4. IsFiniteSet(Before(l)) /\ Before(l) \subseteq matching
    BY <1>1, FS_Subset
  <2>5. Cardinality(page \ {l}) <= Cardinality(Before(l)) /\ IsFiniteSet(page \ {l})
    BY <2>3, <2>4, FS_Subset
  <2>6. Cardinality(page \ {l}) = Cardinality(page) - 1
    BY <1>2, <2>1, FS_RemoveElement
  <2>7. Cardinality(page) \in Nat /\ Cardinality(Before(l)) \in Nat
    BY <1>2, <2>4, FS_CardinalityType
  <2> HIDE DEF page, Before
  <2> QED
    BY <2>2, <2>5, <2>6, <2>7
<1>4. page = {} => Cardinality(page) <= limit
  BY FS_EmptySet
<1>5. matching # {} => page # {}
  <2> SUFFICES ASSUME matching # {}, page = {} PROVE FALSE
    OBVIOUS
  <2>1. page # matching
    OBVIOUS
  <2> QED
    BY <2>1, PageIsPrefix
<1> QED
  BY <1>2, <1>3, <1>4, <1>5

(***************************************************************************)
(* Every answer of the history endpoint holds at most the clamped limit,   *)
(* and an empty page only when nothing is left to serve.                   *)
(***************************************************************************)
PagesAreBounded ==
  [][\A p \in Pager :
       LET q == pagers[p] IN
         history(p) /\ pagers'[p].pc # "gone" =>
           /\ Cardinality(Served(q)) <= clampLimit(q.limit)
           /\ clampLimit(q.limit) \in {DefaultLimit} \cup 1 .. MaxLimit
           /\ Served(q) = {} => pagers'[p].pc = "caughtup"]_vars

(***************************************************************************)
(* No request, whatever limit it names, gets an unbounded page or an empty *)
(* one with a cursor.                                                      *)
(***************************************************************************)
THEOREM PagesKeepTheLimit == Spec => PagesAreBounded
<1> DEFINE Bounded(p) ==
      LET q == pagers[p] IN
        history(p) /\ pagers'[p].pc # "gone" =>
          /\ Cardinality(Served(q)) <= clampLimit(q.limit)
          /\ clampLimit(q.limit) \in {DefaultLimit} \cup 1 .. MaxLimit
          /\ Served(q) = {} => pagers'[p].pc = "caughtup"
<1>1. ASSUME IInv, NEW p \in Pager, history(p), pagers'[p].pc # "gone"
      PROVE  Bounded(p)
  <2> DEFINE q == pagers[p]
             M == Matching(events', q)
  <2>1. q \in Catchup /\ q.limit \in Nat
    <3>1. q \in Catchup
      BY <1>1 DEF IInv, TypeOK
    <3> QED
      BY <3>1 DEF Catchup
  <2>2. /\ clampLimit(q.limit) \in Nat \ {0}
        /\ clampLimit(q.limit) \in {DefaultLimit} \cup 1 .. MaxLimit
    BY <2>1, HistoryAssumption DEF clampLimit
  <2>3. events' \subseteq DOMAIN recorded
    BY <1>1 DEF history, Pruned, IInv, TypeOK
  <2>4. M \in SUBSET (1 .. Len(recorded)) /\ Len(recorded) \in Nat
    BY <1>1, <2>3 DEF Matching, IInv, TypeOK
  <2>5. Cardinality(Served(q)) <= clampLimit(q.limit)
    BY <2>2, <2>4, PageIsSmall DEF Served
  <2>6. pagers'[p] # [q EXCEPT !.pc = "gone"]
    BY <1>1, <2>1 DEF Catchup
  <2>7. ServedPage(q, pagers'[p])
    BY <1>1, <2>6, HistorySteps
  <2>8. Served(q) = {} => pagers'[p].pc = "caughtup"
    BY <2>7 DEF ServedPage
  <2> QED
    BY <2>2, <2>5, <2>8
<1>2. IInv /\ [Next]_vars => [\A p \in Pager : Bounded(p)]_vars
  <2> SUFFICES ASSUME IInv, NEW p \in Pager PROVE Bounded(p)
    OBVIOUS
  <2> QED
    BY <1>1
<1> QED
  BY <1>2, Inductive, PTL DEF PagesAreBounded, Spec
(***************************************************************************)
(* The history endpoint pages faithfully: a subscriber gets only what it   *)
(* asked for and lacked, each event once and in order, in pages of at most *)
(* the limit that are empty only when nothing is left.                     *)
(***************************************************************************)
THEOREM PagesAreFaithful == Spec => []NothingUnasked /\ PagesInOrder /\ PagesAreBounded
BY ServedWhatWasAsked, EachEventServedOnce, PagesKeepTheLimit
=============================================================================
