---------------------------- MODULE EventHistory ----------------------------
(***************************************************************************)
(* The in-memory event store and subscribers that catch up through the     *)
(* history endpoint: each page is one request, and retention, new events   *)
(* and a clock that may be set back run between two pages.                 *)
(*                                                                         *)
(* An event is named by its sequence number, which stands for its id: the  *)
(* ids the application records are assumed distinct.  0 stands for an      *)
(* absent id.                                                              *)
(***************************************************************************)
EXTENDS Naturals, Sequences, FiniteSets

CONSTANTS Source,          \* the entities events come from
          AnySource,       \* "no source filter"
          Pager,           \* subscribers that catch up
          retentionMs,     \* how long events are kept
          deliveryLogRetentionMs,
          Limits,          \* page sizes requested; 0 is an absent one
          DefaultLimit, MaxLimit,
          MaxTime,         \* bound: the last instant of the clock
          MaxSetBacks,     \* bound: times the clock is set back
          MaxEvents,       \* bound: events recorded
          MaxAttempts      \* bound: delivery attempts logged

ASSUME HistoryAssumption ==
  /\ AnySource \notin Source
  /\ retentionMs \in Nat /\ deliveryLogRetentionMs \in Nat
  /\ Limits \subseteq Nat
  /\ DefaultLimit \in Nat \ {0} /\ MaxLimit \in Nat \ {0}
  /\ {MaxTime, MaxSetBacks, MaxEvents, MaxAttempts} \subseteq Nat

VARIABLES recorded,     \* every event ever recorded, in emission order
          events,       \* the sequence numbers still in the store
          logged,       \* when each delivery attempt was logged
          deliveries,   \* the positions still in the delivery log
          now,          \* Date.now()
          setBacks,     \* how often the clock was set back
          pagers        \* what each subscriber asked and got

vars == <<recorded, events, logged, deliveries, now, setBacks, pagers>>

StoredEvent == [source : Source, stored_at : Nat]

(***************************************************************************)
(* since, until, limit: the next request, of which only the cursor moves   *)
(* from page to page; skipped: the events the subscriber did not ask for,  *)
(* being at or before its first cursor or already out of retention when it *)
(* asked without one; asOf: the newest event when it was told that it is   *)
(* caught up.                                                              *)
(***************************************************************************)
Catchup ==
  [pc      : {"idle", "paging", "caughtup", "gone"},
   source  : Source \cup {AnySource},
   since   : Nat,
   until   : Nat,
   limit   : Nat,
   skipped : SUBSET Nat,
   got     : SUBSET Nat,
   asOf    : Nat]

(***************************************************************************)
(* prune(): entries leave from the head only, so an old entry behind a     *)
(* younger one stays.                                                      *)
(***************************************************************************)
PrunedAnywhere(kept, storedAt, retention) ==                     \* mutant
  {n \in kept : storedAt[n] + retention >= now}

PrunedAtRetention(kept, storedAt, retention) ==                  \* mutant
  {n \in kept : \E m \in kept : m <= n /\ storedAt[m] + retention > now}

Pruned(kept, storedAt, retention) ==
  {n \in kept : \E m \in kept : m <= n /\ storedAt[m] + retention >= now}

StoredAt(rec) == [n \in DOMAIN rec |-> rec[n].stored_at]

PruneEvents(kept, rec) == events' = Pruned(kept, StoredAt(rec), retentionMs)

PruneDeliveries(kept, log) == deliveries' = Pruned(kept, log, deliveryLogRetentionMs)

append(source) ==
  LET rec == Append(recorded, [source |-> source, stored_at |-> now]) IN
    /\ Len(recorded) < MaxEvents
    /\ recorded' = rec
    /\ PruneEvents(events \cup {Len(rec)}, rec)
    /\ PruneDeliveries(deliveries, logged)
    /\ UNCHANGED <<logged, now, setBacks, pagers>>

recordDelivery ==
  LET log == Append(logged, now) IN
    /\ Len(logged) < MaxAttempts
    /\ logged' = log
    /\ PruneDeliveries(deliveries \cup {Len(log)}, log)
    /\ PruneEvents(events, recorded)
    /\ UNCHANGED <<recorded, now, setBacks, pagers>>

(***************************************************************************)
(* getByIds and deliveryLog only read, but they prune first.               *)
(***************************************************************************)
Consult ==
  /\ PruneEvents(events, recorded)
  /\ PruneDeliveries(deliveries, logged)
  /\ UNCHANGED <<recorded, logged, now, setBacks, pagers>>

(***************************************************************************)
(* A subscriber sets out to catch up, after an event it has processed or   *)
(* from the oldest retained one.                                           *)
(***************************************************************************)
Begin(p, source, since, until, limit) ==
  /\ pagers[p].pc = "idle"
  /\ pagers' = [pagers EXCEPT ![p] =
       [pc |-> "paging", source |-> source, since |-> since, until |-> until,
        limit |-> limit, skipped |-> 1 .. since, got |-> {}, asOf |-> 0]]
  /\ UNCHANGED <<recorded, events, logged, deliveries, now, setBacks>>

clampLimit(limit) ==
  IF limit < 1 THEN DefaultLimit ELSE IF limit < MaxLimit THEN limit ELSE MaxLimit

FromSource(n, source) == source = AnySource \/ recorded[n].source = source

MatchingFromCursor(kept, q) ==                                     \* mutant
  {n \in kept : /\ n >= q.since
                /\ q.until \in kept => n <= q.until
                /\ FromSource(n, q.source)}

(***************************************************************************)
(* The events strictly after "since" and up to "until"; an "until" that is *)
(* not in the store bounds nothing.                                        *)
(***************************************************************************)
Matching(kept, q) ==
  {n \in kept : /\ n > q.since
                /\ q.until \in kept => n <= q.until
                /\ FromSource(n, q.source)}

Page(matching, limit) ==
  {n \in matching : Cardinality({m \in matching : m < n}) < limit}

LastOf(page) == CHOOSE n \in page : \A m \in page : m <= n

NoCursorIsGone(q, kept) == q.since \notin kept                     \* mutant

Unsatisfiable(q, kept) == q.since # 0 /\ q.since \notin kept

(***************************************************************************)
(* GET /eep/events: 410 when "since" is not in the store; otherwise a page *)
(* and, when more remains, the id of its last event as the next cursor.    *)
(***************************************************************************)
history(p) ==
  LET q    == pagers[p]
      kept == Pruned(events, StoredAt(recorded), retentionMs)
  IN
  /\ q.pc = "paging"
  /\ events' = kept
  /\ PruneDeliveries(deliveries, logged)
  /\ \/ /\ Unsatisfiable(q, kept)
        /\ pagers' = [pagers EXCEPT ![p].pc = "gone"]
     \/ /\ ~Unsatisfiable(q, kept)
        /\ LET matching == Matching(kept, q)
               page     == Page(matching, clampLimit(q.limit))
               asked    == [q EXCEPT
                 !.skipped = IF q.since = 0 THEN DOMAIN recorded \ kept ELSE @,
                 !.got = @ \cup page]
           IN pagers' = [pagers EXCEPT ![p] =
                IF page = matching
                THEN [asked EXCEPT !.pc = "caughtup", !.asOf = Len(recorded)]
                ELSE [asked EXCEPT !.since = LastOf(page)]]
  /\ UNCHANGED <<recorded, logged, now, setBacks>>

(***************************************************************************)
(* The clock advances, and an operator or a time service may set it back.  *)
(***************************************************************************)
Tick ==
  /\ now < MaxTime
  /\ now' = now + 1
  /\ UNCHANGED <<recorded, events, logged, deliveries, setBacks, pagers>>

SetBack ==
  /\ setBacks < MaxSetBacks /\ now > 0
  /\ setBacks' = setBacks + 1
  /\ now' = now - 1
  /\ UNCHANGED <<recorded, events, logged, deliveries, pagers>>

Init ==
  /\ recorded = <<>> /\ events = {}
  /\ logged = <<>> /\ deliveries = {}
  /\ now = 0 /\ setBacks = 0
  /\ pagers = [p \in Pager |->
       [pc |-> "idle", source |-> AnySource, since |-> 0, until |-> 0,
        limit |-> 0, skipped |-> {}, got |-> {}, asOf |-> 0]]

CatchUp(p) ==
  \/ \E source \in Source \cup {AnySource}, since, until \in 0 .. Len(recorded),
        limit \in Limits :
       Begin(p, source, since, until, limit)
  \/ history(p)

Next ==
  \/ \E source \in Source : append(source)
  \/ recordDelivery
  \/ Consult
  \/ \E p \in Pager : CatchUp(p)
  \/ Tick
  \/ SetBack

Spec == Init /\ [][Next]_vars

(***************************************************************************)
(* A subscriber goes on asking until it is told that it is done.           *)
(***************************************************************************)
FairSpec == Spec /\ \A p \in Pager : WF_vars(history(p))

(***************************************************************************)
(* Every variable has its type; what is stored is the position of a        *)
(* recorded event.                                                         *)
(***************************************************************************)
TypeOK ==
  /\ recorded \in Seq(StoredEvent)
  /\ events \subseteq DOMAIN recorded
  /\ logged \in Seq(Nat)
  /\ deliveries \subseteq DOMAIN logged
  /\ now \in Nat /\ setBacks \in Nat
  /\ pagers \in [Pager -> Catchup]
  /\ \A p \in Pager :
       /\ pagers[p].got \subseteq DOMAIN recorded
       /\ pagers[p].since <= Len(recorded) /\ pagers[p].asOf <= Len(recorded)
       /\ pagers[p].pc = "gone" => pagers[p].since # 0
-----------------------------------------------------------------------------
Wanted(q, n) ==
  /\ n \notin q.skipped
  /\ FromSource(n, q.source)
  /\ q.until = 0 \/ n <= q.until

(***************************************************************************)
(* A subscriber told that it is caught up, by a page without next_cursor,  *)
(* has received every event it wanted, whatever retention, new events and  *)
(* the clock did between its pages: a hole is always answered 410.         *)
(***************************************************************************)
NoSilentGap ==
  \A p \in Pager :
    pagers[p].pc = "caughtup" =>
      \A n \in 1 .. pagers[p].asOf : Wanted(pagers[p], n) => n \in pagers[p].got

(***************************************************************************)
(* Nothing leaves the store or the delivery log before it is older than    *)
(* its retention.                                                          *)
(***************************************************************************)
RetentionFloor ==
  [][/\ \A n \in events \ events' : recorded[n].stored_at + retentionMs < now
     /\ \A n \in deliveries \ deliveries' : logged[n] + deliveryLogRetentionMs < now]_vars

(***************************************************************************)
(* Catching up ends, with a last page or a 410: every page moves the       *)
(* cursor forward, however small the page and however many events arrive.  *)
(***************************************************************************)
CatchingUpEnds ==
  \A p \in Pager : (pagers[p].pc = "paging") ~> (pagers[p].pc \in {"caughtup", "gone"})
=============================================================================
