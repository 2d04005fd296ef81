------------------------ MODULE BatchedDeliveryProofs ------------------------
(***************************************************************************)
(* For every set of calls, events, setups and faults: a receiver that      *)
(* stays up handles no event twice, what is reported as delivered was      *)
(* handled, the verifiers agree on every POST, the counter counts chunks,  *)
(* the results are those of the eligible events in their order and never   *)
(* revised, and every step of a call brings it closer to its return.       *)
(*                                                                         *)
(* The second is not inductive alone.  A 200 for a repeated POST says only *)
(* that its id is remembered, so the invariant adds that what is           *)
(* remembered was handled; it says which events a POST on the wire         *)
(* carries, for the one that is answered is the one its call waits for;    *)
(* and it says the same of calls that still have to report their success.  *)
(***************************************************************************)
EXTENDS BatchedDelivery, FunctionRecursion, FiniteSetTheorems, SequenceTheorems, TLAPS

Begun == {"next", "asleep", "posting", "reading", "writing", "reporting", "done"}

Shaped(d) ==
  /\ d \in [pc : Begun \cup {"idle", "listing", "listed"}, sub : {d.sub},
            eligible : {d.eligible}, at : {d.at}, attempt : {d.attempt},
            won : BOOLEAN, seen : {d.seen}, results : {d.results}]
  /\ \E S : d.results \in Seq(S)

Vouched(d, ever) ==
  ReadsItsForm =>
    /\ d.pc \in {"reading", "writing", "reporting"} /\ d.won => Members(Carried(d)) \subseteq ever
    /\ \A i \in DOMAIN d.results :
         d.results[i].outcome = "delivered" => Members(d.results[i].events) \subseteq ever

CarriedFrom(eligible, at) == Carried([eligible |-> eligible, at |-> at])

OnTheWire(m) ==
  /\ m.call \in Call
  /\ calls[m.call].pc \in Begun
  /\ m.form = FormOf
  /\ m.events = CarriedFrom(calls[m.call].eligible, m.at)
  /\ m.tokens = Signature /\ m.timestamp \in Nat
  /\ m \in [call : {m.call}, at : {m.at}, attempt : {m.attempt},
            events : {m.events}, form : {m.form}, timestamp : {m.timestamp},
            tokens : {m.tokens}, intact : BOOLEAN]

Remembers ==
  /\ receiver \in [processed : {receiver.processed}, times : [AppEvent -> Nat],
                   ever : {receiver.ever}]
  /\ \A e \in AppEvent :
       /\ receiver.times[e] <= 1
       /\ receiver.times[e] = 1 => e \in receiver.processed
  /\ ReadsItsForm => receiver.processed \subseteq receiver.ever

IInv ==
  /\ setup \in Setup /\ now \in SubId
  /\ Remembers
  /\ DOMAIN calls = Call /\ calls = [c \in Call |-> calls[c]]
  /\ \A c \in Call : Shaped(calls[c]) /\ Vouched(calls[c], receiver.ever)
  /\ \A m \in wire : OnTheWire(m)

(***************************************************************************)
(* The loop over attempts keeps a call well shaped and vouched for.        *)
(***************************************************************************)
LEMMA ReportVouched ==
  ASSUME NEW d, NEW ever, NEW outcome, Shaped(d), Vouched(d, ever),
         outcome = "delivered" /\ ReadsItsForm => Members(Carried(d)) \subseteq ever
  PROVE  /\ Shaped(Report(d, outcome)) /\ Vouched(Report(d, outcome), ever)
         /\ Report(d, outcome).eligible = d.eligible
         /\ Report(d, outcome).pc = "next"
<1> DEFINE r == Report(d, outcome)
           o == OutcomeFor(d, outcome)
<1>1. PICK S : d.results \in Seq(S)
  BY DEF Shaped
<1>2. d.results \in Seq(S \cup {o}) /\ o \in S \cup {o}
  BY <1>1
<1>3. /\ Append(d.results, o) \in Seq(S \cup {o})
      /\ DOMAIN Append(d.results, o) = DOMAIN d.results \cup {Len(d.results) + 1}
      /\ \A i \in DOMAIN d.results : Append(d.results, o)[i] = d.results[i]
      /\ Append(d.results, o)[Len(d.results) + 1] = o
  BY <1>2
<1>4. /\ r.results = Append(d.results, o) /\ r.pc = "next"
      /\ r.eligible = d.eligible
      /\ r \in [pc : {"next"}, sub : {r.sub}, eligible : {r.eligible}, at : {r.at},
                attempt : {r.attempt}, won : BOOLEAN, seen : {r.seen},
                results : {r.results}]
  BY DEF Shaped, Report
<1>5. Shaped(r)
  BY <1>3, <1>4 DEF Shaped, Begun
<1>6. o.outcome = outcome /\ o.events = Carried(d)
  BY DEF OutcomeFor
<1>7. Vouched(r, ever)
  BY <1>3, <1>4, <1>6 DEF Vouched
<1>. QED  BY <1>4, <1>5, <1>7

(***************************************************************************)
(* Nor do the shutdown and the first await of an attempt.                  *)
(***************************************************************************)
LEMMA AttemptVouched ==
  ASSUME NEW d, NEW ever, Shaped(d), Vouched(d, ever)
  PROVE  LET a == AttemptOrAbort(d) IN
         /\ Shaped(a) /\ Vouched(a, ever)
         /\ a.eligible = d.eligible /\ a.pc \in Begun
<1>1. CASE stopped
  BY <1>1, ReportVouched DEF AttemptOrAbort, Begun
<1>2. CASE ~stopped
  <2> DEFINE a == [d EXCEPT !.pc = "posting"]
  <2>1. /\ a.results = d.results /\ a.eligible = d.eligible /\ a.pc = "posting"
        /\ a \in [pc : {"posting"}, sub : {a.sub}, eligible : {a.eligible}, at : {a.at},
                  attempt : {a.attempt}, won : BOOLEAN, seen : {a.seen},
                  results : {a.results}]
    BY DEF Shaped
  <2>2. Shaped(a)
    BY <2>1 DEF Shaped, Begun
  <2>3. Vouched(a, ever)
    BY <2>1 DEF Vouched
  <2>. QED  BY <1>2, <2>1, <2>2, <2>3 DEF AttemptOrAbort, Begun
<1>. QED  BY <1>1, <1>2

(***************************************************************************)
(* The next attempt, or the end of the attempts.                           *)
(***************************************************************************)
LEMMA LoopVouched ==
  ASSUME NEW d, NEW ever, NEW n, Shaped(d), Vouched(d, ever)
  PROVE  LET a == EnterLoop(d, n) IN
         /\ Shaped(a) /\ Vouched(a, ever)
         /\ a.eligible = d.eligible /\ a.pc \in Begun
<1>1. CASE n > MaxAttempts
  <2> DEFINE a == [d EXCEPT !.pc = "reading", !.won = FALSE]
  <2>1. /\ a.results = d.results /\ a.eligible = d.eligible /\ a.pc = "reading"
        /\ a.won = FALSE
        /\ a \in [pc : {"reading"}, sub : {a.sub}, eligible : {a.eligible}, at : {a.at},
                  attempt : {a.attempt}, won : BOOLEAN, seen : {a.seen},
                  results : {a.results}]
    BY DEF Shaped
  <2>. QED  BY <1>1, <2>1 DEF EnterLoop, Shaped, Vouched, Begun
<1>2. CASE ~(n > MaxAttempts) /\ RetrySchedule[n] > 0
  <2> DEFINE a == [d EXCEPT !.pc = "asleep", !.attempt = n]
  <2>1. /\ a.results = d.results /\ a.eligible = d.eligible /\ a.pc = "asleep"
        /\ a \in [pc : {"asleep"}, sub : {a.sub}, eligible : {a.eligible}, at : {a.at},
                  attempt : {a.attempt}, won : BOOLEAN, seen : {a.seen},
                  results : {a.results}]
    BY DEF Shaped
  <2>. QED  BY <1>2, <2>1 DEF EnterLoop, Shaped, Vouched, Begun
<1>3. CASE ~(n > MaxAttempts) /\ ~(RetrySchedule[n] > 0)
  <2> DEFINE a == [d EXCEPT !.attempt = n]
  <2>1. /\ a.results = d.results /\ a.eligible = d.eligible /\ a.pc = d.pc
        /\ a.won = d.won /\ a.at = d.at
        /\ a \in [pc : Begun \cup {"idle", "listing", "listed"}, sub : {a.sub},
                  eligible : {a.eligible}, at : {a.at},
                  attempt : {a.attempt}, won : BOOLEAN, seen : {a.seen},
                  results : {a.results}]
    BY DEF Shaped
  <2>2. Carried(a) = Carried(d)
    BY <2>1 DEF Carried, Chunk
  <2>3. Shaped(a) /\ Vouched(a, ever)
    BY <2>1, <2>2 DEF Shaped, Vouched
  <2>4. EnterLoop(d, n) = AttemptOrAbort(a)
    BY <1>3 DEF EnterLoop
  <2>. QED  BY <2>1, <2>3, <2>4, AttemptVouched
<1>. QED  BY <1>1, <1>2, <1>3

(***************************************************************************)
(* What a receiver does with a POST: it handles only what it did not       *)
(* remember, remembers what it handles, and answers 2xx only when all the  *)
(* events of the POST have been handled, now or before.                    *)
(***************************************************************************)
LEMMA ReplySound ==
  ASSUME IInv, NEW m \in wire
  PROVE  LET r == Respond(m) IN
         /\ r.handled \cap receiver.processed = {}
         /\ r.handled \subseteq r.remembered
         /\ ReadsItsForm =>
              /\ r.remembered \subseteq r.handled \cup receiver.processed
              /\ r.ok => Members(m.events) \subseteq receiver.processed \cup r.handled
<1> DEFINE r == Respond(m)
<1>1. OnTheWire(m) /\ setup \in Setup
  BY DEF IInv
<1>2. FormOf \in Form /\ (FormOf = "batch" <=> Batched)
  BY <1>1 DEF FormOf, Form, Setup
<1>3. m.form # "batch" => Members(m.events) = {m.events[1]}
  <2>1. m.form # "batch" => m.events = <<m.events[1]>>
    BY <1>1, <1>2 DEF OnTheWire, CarriedFrom, Carried
  <2>. QED  BY <2>1 DEF Members
<1>4. CASE setup.receiver = "express"
  <2>1. r = ExpressReceives(m)
    BY <1>4 DEF Respond
  <2>2. ReadsItsForm => m.form # "binary"
    BY <1>1, <1>4 DEF ReadsItsForm, OnTheWire
  <2>. QED
    BY <1>3, <2>1, <2>2 DEF ExpressReceives, ExpressVerifies, Refused, Duplicate, Reply, ReceivedId
<1>5. CASE setup.receiver = "fastapi"
  <2>1. r = FastApiReceives(m)
    BY <1>5 DEF Respond
  <2>2. ReadsItsForm => m.form # "binary"
    BY <1>1, <1>5 DEF ReadsItsForm, OnTheWire
  <2>. QED
    BY <1>3, <2>1, <2>2 DEF FastApiReceives, Refused, Duplicate, Reply, ReceivedId
<1>6. CASE setup.receiver = "package"
  <2>1. r = PackageReceives(m)
    BY <1>6 DEF Respond
  <2>. QED
    BY <2>1 DEF PackageReceives, Refused, Reply
<1>. QED  BY <1>1, <1>4, <1>5, <1>6 DEF Setup

(***************************************************************************)
(* So the receiver counts no event twice and remembers what it counted.    *)
(***************************************************************************)
LEMMA ReceiverRemembers ==
  ASSUME IInv, NEW m \in wire, receiver' = AfterReply(Respond(m)), setup' = setup
  PROVE  /\ Remembers'
         /\ receiver.ever \subseteq receiver'.ever
         /\ ReadsItsForm /\ Respond(m).ok => Members(m.events) \subseteq receiver'.ever
<1> DEFINE r == Respond(m)
<1>1. /\ r.handled \cap receiver.processed = {}
      /\ r.handled \subseteq r.remembered
      /\ ReadsItsForm =>
           /\ r.remembered \subseteq r.handled \cup receiver.processed
           /\ r.ok => Members(m.events) \subseteq receiver.processed \cup r.handled
  BY ReplySound
<1>2. Remembers
  BY DEF IInv
<1> HIDE DEF r
<1>3. receiver' = [receiver EXCEPT
        !.processed = receiver.processed \cup r.remembered,
        !.times = [e \in AppEvent |->
                     IF e \in r.handled /\ receiver.times[e] < 2 THEN receiver.times[e] + 1
                                                                ELSE receiver.times[e]],
        !.ever = receiver.ever \cup r.handled]
  BY DEF AfterReply, r
<1>4. /\ receiver'.processed = receiver.processed \cup r.remembered
      /\ receiver'.ever = receiver.ever \cup r.handled
      /\ receiver'.times = [e \in AppEvent |->
                     IF e \in r.handled /\ receiver.times[e] < 2 THEN receiver.times[e] + 1
                                                                ELSE receiver.times[e]]
      /\ receiver' = [processed |-> receiver'.processed, times |-> receiver'.times,
                      ever |-> receiver'.ever]
  BY <1>2, <1>3 DEF Remembers
<1>5. receiver'.times \in [AppEvent -> Nat]
  BY <1>2, <1>4 DEF Remembers
<1>6. ASSUME NEW e \in AppEvent
      PROVE  /\ receiver'.times[e] <= 1
             /\ receiver'.times[e] = 1 => e \in receiver'.processed
  <2>1. /\ receiver.times[e] \in Nat /\ receiver.times[e] <= 1
        /\ receiver.times[e] = 1 => e \in receiver.processed
    BY <1>2 DEF Remembers
  <2>2. CASE e \in r.handled
    <3>1. e \notin receiver.processed /\ e \in receiver'.processed
      BY <1>1, <1>4, <2>2
    <3>2. receiver.times[e] = 0
      BY <2>1, <3>1
    <3>3. receiver'.times[e] = 1
      BY <1>4, <2>2, <3>2
    <3>. QED  BY <3>1, <3>3
  <2>3. CASE e \notin r.handled
    BY <1>4, <2>1, <2>3
  <2>. QED  BY <2>2, <2>3
<1>7. ReadsItsForm' = ReadsItsForm
  BY DEF ReadsItsForm, FormOf, Batched, Limit
<1>8. ReadsItsForm => receiver'.processed \subseteq receiver'.ever
  BY <1>1, <1>2, <1>4 DEF Remembers
<1>9. Remembers'
  BY <1>4, <1>5, <1>6, <1>7, <1>8 DEF Remembers
<1>10. ReadsItsForm /\ r.ok => Members(m.events) \subseteq receiver'.ever
  BY <1>1, <1>2, <1>4 DEF Remembers
<1>. QED  BY <1>4, <1>9, <1>10 DEF r

(***************************************************************************)
(* Call c goes on as d: the wire and the other calls stay as they are.     *)
(***************************************************************************)
LEMMA AdvanceKeeps ==
  ASSUME IInv, NEW c \in Call, NEW d, NEW rest,
         rest \subseteq wire, Advance(c, d, rest), UNCHANGED <<setup, now>>,
         Remembers', receiver.ever \subseteq receiver'.ever,
         Shaped(d), Vouched(d, receiver'.ever),
         calls[c].pc \in Begun => d.pc \in Begun /\ d.eligible = calls[c].eligible,
         d.pc = "posting" => d.pc \in Begun
  PROVE  IInv'
<1>1. calls' = [calls EXCEPT ![c] = d] /\ DOMAIN calls = Call
  BY DEF Advance, IInv
<1>2. calls'[c] = d /\ \A x \in Call : x # c => calls'[x] = calls[x]
  BY <1>1
<1>3. DOMAIN calls' = Call /\ calls' = [x \in Call |-> calls'[x]]
  BY <1>1 DEF IInv
<1>4. /\ ReadsItsForm' = ReadsItsForm /\ FormOf' = FormOf
      /\ (setup \in Setup)' = (setup \in Setup) /\ Signature' = Signature
  BY DEF ReadsItsForm, FormOf, Batched, Limit, Signature
<1>5. ASSUME NEW x, NEW at PROVE CarriedFrom(x, at)' = CarriedFrom(x, at)
  BY DEF CarriedFrom, Carried, Chunk, Batched, Limit
<1>6. ASSUME NEW x \in Call PROVE (Shaped(calls[x]) /\ Vouched(calls[x], receiver.ever))'
  <2>1. Shaped(calls'[x]) /\ Vouched(calls'[x], receiver'.ever)
    BY <1>2 DEF IInv, Vouched
  <2>2. ASSUME NEW y PROVE Carried(y)' = Carried(y)
    BY DEF Carried, Chunk, Batched, Limit
  <2>. QED  BY <1>4, <2>1, <2>2 DEF Shaped, Vouched
<1>7. ASSUME NEW m \in wire' PROVE OnTheWire(m)'
  <2>1. CASE m \in rest
    <3>1. OnTheWire(m)
      BY <2>1 DEF IInv
    <3>2. calls'[m.call].pc \in Begun /\ calls'[m.call].eligible = calls[m.call].eligible
      BY <1>2, <3>1 DEF OnTheWire
    <3>. QED  BY <1>4, <1>5, <3>1, <3>2 DEF OnTheWire
  <2>2. CASE m \notin rest
    <3>1. m = MessageOf(c, d) /\ d.pc = "posting"
      BY <2>2 DEF Advance
    <3>2. Carried(d) = CarriedFrom(d.eligible, d.at)
      BY DEF CarriedFrom, Carried, Chunk
    <3>3. /\ m.call = c /\ m.form = FormOf /\ m.at = d.at /\ m.events = CarriedFrom(d.eligible, m.at)
          /\ m.tokens = Signature /\ m.timestamp \in Nat
      BY <3>1, <3>2, SubscriptionsAssumption DEF MessageOf, IInv, SubId
    <3>4. m \in [call : {m.call}, at : {m.at}, attempt : {m.attempt},
            events : {m.events}, form : {m.form}, timestamp : {m.timestamp},
            tokens : {m.tokens}, intact : BOOLEAN]
      BY <3>1 DEF MessageOf
    <3>. QED  BY <1>2, <1>4, <1>5, <3>1, <3>3, <3>4 DEF OnTheWire
  <2>. QED  BY <2>1, <2>2
<1>. QED  BY <1>3, <1>4, <1>6, <1>7 DEF IInv

(***************************************************************************)
(* A step of the publisher alone.                                          *)
(***************************************************************************)
LEMMA CallStepKeeps ==
  ASSUME IInv, NEW c \in Call, NEW d, NEW rest,
         rest \subseteq wire, Advance(c, d, rest), UNCHANGED <<setup, receiver, now>>,
         Shaped(d), Vouched(d, receiver.ever),
         calls[c].pc \in Begun => d.eligible = calls[c].eligible,
         d.pc \in Begun \/ (d.pc \in {"listing", "listed"} /\ calls[c].pc \notin Begun)
  PROVE  IInv'
<1>1. Remembers' /\ receiver.ever \subseteq receiver'.ever
  BY DEF IInv, Remembers, ReadsItsForm, FormOf, Batched, Limit
<1>2. Vouched(d, receiver'.ever)
  BY DEF Vouched
<1>3. d.pc = "posting" => d.pc \in Begun
  BY DEF Begun
<1>. QED  BY <1>1, <1>2, <1>3, AdvanceKeeps, Zenon

(***************************************************************************)
(* A call that moves on without an outcome and without a message.          *)
(***************************************************************************)
LEMMA MovedOn ==
  ASSUME NEW d, NEW a, NEW ever, Shaped(d), Vouched(d, ever),
         a = [d EXCEPT !.pc = a.pc, !.sub = a.sub, !.eligible = a.eligible],
         a.pc \in {"listing", "listed", "next", "done"}
  PROVE  Shaped(a) /\ Vouched(a, ever)
<1>1. a = [pc |-> a.pc, sub |-> a.sub, eligible |-> a.eligible, at |-> d.at,
           attempt |-> d.attempt, won |-> d.won, seen |-> d.seen,
           results |-> d.results] /\ d.won \in BOOLEAN
  BY DEF Shaped
<1>2. Shaped(a)
  BY <1>1 DEF Shaped, Begun
<1>3. Vouched(a, ever)
  BY <1>1 DEF Vouched
<1>. QED  BY <1>2, <1>3

(***************************************************************************)
(* Every step of dispatchBatch.                                            *)
(***************************************************************************)
LEMMA BatchKeeps ==
  ASSUME IInv, NEW c \in Call, DispatchBatch(c) \/ BatchStep(c),
         UNCHANGED <<setup, receiver, now>>
  PROVE  IInv'
<1> DEFINE d == calls[c]
<1>1. Shaped(d) /\ Vouched(d, receiver.ever)
  BY DEF IInv
<1>2. ASSUME NEW rest \in MayRemain(c) PROVE rest \subseteq wire
  BY DEF MayRemain
<1>3. CASE DispatchBatch(c)
  <2> DEFINE a == [d EXCEPT !.pc = IF setup.batch_of[c] = <<>> THEN "done" ELSE "listing"]
  <2>1. Advance(c, a, wire) /\ d.pc = "idle"
    BY <1>3 DEF DispatchBatch
  <2>2. a.pc \in {"listing", "done"} /\ a.sub = d.sub /\ a.eligible = d.eligible
    BY <1>1 DEF Shaped
  <2>3. a = [d EXCEPT !.pc = a.pc, !.sub = a.sub, !.eligible = a.eligible]
    BY <1>1, <2>2 DEF Shaped
  <2> HIDE DEF a
  <2>4. Shaped(a) /\ Vouched(a, receiver.ever)
    BY <1>1, <2>2, <2>3, MovedOn
  <2>. QED  BY <2>1, <2>2, <2>4, CallStepKeeps DEF Begun
<1>4. CASE ListSubscription(c)
  <2>1. PICK a : /\ Advance(c, a, wire) /\ d.pc = "listing"
                 /\ \/ a = [d EXCEPT !.pc = "listed", !.sub = table[Addressee]]
                    \/ a = [d EXCEPT !.pc = "done"]
    BY <1>4 DEF ListSubscription
  <2>2. a.pc \in {"listed", "done"} /\ a.eligible = d.eligible
    BY <1>1, <2>1 DEF Shaped
  <2>3. a = [d EXCEPT !.pc = a.pc, !.sub = a.sub, !.eligible = a.eligible]
    BY <1>1, <2>1 DEF Shaped
  <2>4. Shaped(a) /\ Vouched(a, receiver.ever)
    BY <1>1, <2>2, <2>3, MovedOn
  <2>. QED  BY <2>1, <2>2, <2>4, CallStepKeeps DEF Begun
<1>5. CASE SelectEligible(c)
  <2>1. PICK e : Advance(c, [d EXCEPT !.pc = "next", !.eligible = e], wire) /\ d.pc = "listed"
    BY <1>5 DEF SelectEligible
  <2> DEFINE a == [d EXCEPT !.pc = "next", !.eligible = e]
  <2>2. a.pc = "next"
    BY <1>1 DEF Shaped
  <2>3. a = [d EXCEPT !.pc = a.pc, !.sub = a.sub, !.eligible = a.eligible]
    BY <1>1 DEF Shaped
  <2> HIDE DEF a
  <2>4. Shaped(a) /\ Vouched(a, receiver.ever)
    BY <1>1, <2>2, <2>3, MovedOn
  <2>5. Advance(c, a, wire)
    BY <2>1 DEF a
  <2>. QED  BY <2>1, <2>2, <2>4, <2>5, CallStepKeeps DEF Begun
<1>6. CASE NextChunk(c)
  <2>1. CASE Advance(c, [d EXCEPT !.pc = "done"], wire)
    <3> DEFINE a == [d EXCEPT !.pc = "done"]
    <3>1. a.pc = "done" /\ a.eligible = d.eligible
          /\ a = [d EXCEPT !.pc = a.pc, !.sub = a.sub, !.eligible = a.eligible]
      BY <1>1 DEF Shaped
    <3> HIDE DEF a
    <3>2. Advance(c, a, wire)
      BY <2>1 DEF a
    <3>3. Shaped(a) /\ Vouched(a, receiver.ever)
      BY <1>1, <3>1, MovedOn
    <3>. QED  BY <3>1, <3>2, <3>3, CallStepKeeps DEF Begun
  <2>2. CASE Advance(c, EnterLoop(d, 1), wire)
    <3> DEFINE a == EnterLoop(d, 1)
    <3>1. Shaped(a) /\ Vouched(a, receiver.ever) /\ a.eligible = d.eligible /\ a.pc \in Begun
      BY <1>1, LoopVouched
    <3> HIDE DEF a
    <3>2. Advance(c, a, wire)
      BY <2>2 DEF a
    <3>. QED  BY <3>1, <3>2, CallStepKeeps
  <2>. QED  BY <1>6, <2>1, <2>2 DEF NextChunk
<1>7. CASE Wake(c)
  <2> DEFINE a == AttemptOrAbort(d)
  <2>1. Shaped(a) /\ Vouched(a, receiver.ever) /\ a.eligible = d.eligible /\ a.pc \in Begun
    BY <1>1, AttemptVouched
  <2>2. Advance(c, a, wire)
    BY <1>7 DEF Wake
  <2> HIDE DEF a
  <2>. QED  BY <2>1, <2>2, CallStepKeeps
<1>8. CASE TimeOut(c)
  <2> DEFINE a == EnterLoop(d, d.attempt + 1)
  <2>1. Shaped(a) /\ Vouched(a, receiver.ever) /\ a.eligible = d.eligible /\ a.pc \in Begun
    BY <1>1, LoopVouched
  <2>2. PICK rest \in MayRemain(c) : Advance(c, a, rest)
    BY <1>8 DEF TimeOut, AfterAttempt
  <2> HIDE DEF a
  <2>. QED  BY <1>2, <2>1, <2>2, CallStepKeeps
<1>9. ASSUME d.pc \in {"reading", "reporting"}
      PROVE  LET a == Report(d, OutcomeOf(d)) IN
             Shaped(a) /\ Vouched(a, receiver.ever) /\ a.eligible = d.eligible /\ a.pc \in Begun
  <2>1. OutcomeOf(d) = "delivered" => d.won
    BY DEF OutcomeOf
  <2>2. OutcomeOf(d) = "delivered" /\ ReadsItsForm => Members(Carried(d)) \subseteq receiver.ever
    BY <1>1, <1>9, <2>1 DEF Vouched
  <2>. QED  BY <1>1, <2>2, ReportVouched DEF Begun
<1>10. CASE ReadRecord(c)
  <2>1. CASE Advance(c, Report(d, OutcomeOf(d)), wire)
    <3> DEFINE a == Report(d, OutcomeOf(d))
    <3>1. Shaped(a) /\ Vouched(a, receiver.ever) /\ a.eligible = d.eligible /\ a.pc \in Begun
      BY <1>9, <1>10 DEF ReadRecord
    <3> HIDE DEF a
    <3>2. Advance(c, a, wire)
      BY <2>1 DEF a
    <3>. QED  BY <3>1, <3>2, CallStepKeeps
  <2>2. ASSUME NEW n, Advance(c, [d EXCEPT !.pc = "writing", !.seen = n], wire) PROVE IInv'
    <3> DEFINE a == [d EXCEPT !.pc = "writing", !.seen = n]
    <3>1. d.pc = "reading"
      BY <1>10 DEF ReadRecord
    <3>2. /\ a.eligible = d.eligible /\ a.at = d.at /\ a.won = d.won /\ a.results = d.results
          /\ a.pc = "writing"
          /\ a \in [pc : {"writing"}, sub : {a.sub}, eligible : {a.eligible}, at : {a.at},
                    attempt : {a.attempt}, won : BOOLEAN, seen : {a.seen},
                    results : {a.results}]
      BY <1>1 DEF Shaped
    <3>3. Advance(c, a, wire)
      BY <2>2 DEF a
    <3> HIDE DEF a
    <3>4. Carried(a) = Carried(d)
      BY <3>2 DEF Carried, Chunk
    <3>5. Shaped(a)
      BY <1>1, <3>2 DEF Shaped, Begun
    <3>6. Vouched(a, receiver.ever)
      BY <1>1, <3>1, <3>2, <3>4 DEF Vouched
    <3>. QED  BY <3>1, <3>2, <3>3, <3>5, <3>6, CallStepKeeps DEF Begun
  <2>. QED  BY <1>10, <2>1, <2>2 DEF ReadRecord
<1>11. CASE WriteRecord(c)
  <2> DEFINE a == [d EXCEPT !.pc = "reporting", !.seen = 0]
  <2>1. Advance(c, a, wire) /\ d.pc = "writing"
    BY <1>11 DEF WriteRecord
  <2>2. /\ a.eligible = d.eligible /\ a.at = d.at /\ a.won = d.won /\ a.results = d.results
        /\ a.pc = "reporting"
        /\ a \in [pc : {"reporting"}, sub : {a.sub}, eligible : {a.eligible}, at : {a.at},
                  attempt : {a.attempt}, won : BOOLEAN, seen : {a.seen},
                  results : {a.results}]
    BY <1>1 DEF Shaped
  <2> HIDE DEF a
  <2>3. Carried(a) = Carried(d)
    BY <2>2 DEF Carried, Chunk
  <2>4. Shaped(a)
    BY <1>1, <2>2 DEF Shaped, Begun
  <2>5. Vouched(a, receiver.ever)
    BY <1>1, <2>1, <2>2, <2>3 DEF Vouched
  <2>. QED  BY <2>1, <2>2, <2>4, <2>5, CallStepKeeps DEF Begun
<1>12. CASE ReportChunk(c)
  <2> DEFINE a == Report(d, OutcomeOf(d))
  <2>1. Shaped(a) /\ Vouched(a, receiver.ever) /\ a.eligible = d.eligible /\ a.pc \in Begun
    BY <1>9, <1>12 DEF ReportChunk
  <2>2. Advance(c, a, wire)
    BY <1>12 DEF ReportChunk
  <2> HIDE DEF a
  <2>. QED  BY <2>1, <2>2, CallStepKeeps
<1>. QED  BY <1>3, <1>4, <1>5, <1>6, <1>7, <1>8, <1>10, <1>11, <1>12 DEF BatchStep

(***************************************************************************)
(* A POST arrives.                                                         *)
(***************************************************************************)
LEMMA ReceiveKeeps ==
  ASSUME IInv, NEW m \in wire, Receive(m)
  PROVE  IInv'
<1>1. receiver' = AfterReply(Respond(m)) /\ UNCHANGED <<setup, now>>
  BY DEF Receive
<1>2. /\ Remembers' /\ receiver.ever \subseteq receiver'.ever
      /\ ReadsItsForm /\ Respond(m).ok => Members(m.events) \subseteq receiver'.ever
  BY <1>1, ReceiverRemembers
<1>3. OnTheWire(m)
  BY DEF IInv
<1>4. ASSUME NEW d, Vouched(d, receiver.ever) PROVE Vouched(d, receiver'.ever)
  BY <1>2, <1>4 DEF Vouched
<1>5. CASE \E rest \in {wire, wire \ {m}} :
             IsCurrent(m) /\ Advance(m.call, AfterAttempt(calls[m.call], Respond(m).ok), rest)
  <2> DEFINE d == calls[m.call]
             a == AfterAttempt(d, Respond(m).ok)
  <2>1. PICK rest \in {wire, wire \ {m}} : IsCurrent(m) /\ Advance(m.call, a, rest)
    BY <1>5
  <2>2. Shaped(d) /\ Vouched(d, receiver'.ever) /\ m.call \in Call
    BY <1>3, <1>4 DEF IInv, OnTheWire
  <2>3. Shaped(a) /\ Vouched(a, receiver'.ever) /\ a.eligible = d.eligible /\ a.pc \in Begun
    <3>1. CASE Respond(m).ok
      <4>1. m.events = CarriedFrom(d.eligible, d.at)
        BY <1>3, <2>1 DEF OnTheWire, IsCurrent
      <4>2. CarriedFrom(d.eligible, d.at) = Carried(d)
        BY DEF CarriedFrom, Carried, Chunk
      <4>3. a = [d EXCEPT !.pc = "reading", !.won = TRUE]
        BY <3>1 DEF AfterAttempt
      <4> HIDE DEF a
      <4>4. /\ a.pc = "reading" /\ a.eligible = d.eligible /\ a.at = d.at
            /\ a.won = TRUE /\ a.results = d.results
            /\ a = [pc |-> a.pc, sub |-> a.sub, eligible |-> a.eligible, at |-> a.at,
                    attempt |-> a.attempt, won |-> a.won, seen |-> a.seen,
                    results |-> a.results]
        BY <2>2, <4>3 DEF Shaped
      <4>5. Carried(a) = Carried(d)
        BY <4>4 DEF Carried, Chunk
      <4>6. Shaped(a)
        BY <2>2, <4>4 DEF Shaped, Begun
      <4>7. Vouched(a, receiver'.ever)
        BY <1>2, <2>2, <3>1, <4>1, <4>2, <4>4, <4>5 DEF Vouched
      <4>. QED  BY <4>4, <4>6, <4>7 DEF Begun
    <3>2. CASE ~Respond(m).ok
      BY <2>2, <3>2, LoopVouched DEF AfterAttempt
    <3>. QED  BY <3>1, <3>2
  <2> HIDE DEF a
  <2>4. rest \subseteq wire
    BY <2>1
  <2>. QED  BY <1>1, <1>2, <2>1, <2>2, <2>3, <2>4, AdvanceKeeps
<1>6. CASE wire' \subseteq wire /\ UNCHANGED calls
  <2>1. \A c \in Call : Shaped(calls[c]) /\ Vouched(calls[c], receiver'.ever)
    BY <1>4 DEF IInv
  <2>2. /\ ReadsItsForm' = ReadsItsForm /\ FormOf' = FormOf
        /\ (setup \in Setup)' = (setup \in Setup) /\ Signature' = Signature
    BY <1>1 DEF ReadsItsForm, FormOf, Batched, Limit, Signature
  <2>3. ASSUME NEW x PROVE Carried(x)' = Carried(x)
    BY <1>1 DEF Carried, Chunk, Batched, Limit
  <2>4. \A c \in Call : (Shaped(calls[c]) /\ Vouched(calls[c], receiver.ever))'
    BY <1>6, <2>1, <2>2, <2>3 DEF Shaped, Vouched
  <2>5. \A x \in wire' : OnTheWire(x)'
    BY <1>6, <2>2, <2>3 DEF IInv, OnTheWire, CarriedFrom
  <2>. QED  BY <1>1, <1>2, <1>6, <2>2, <2>4, <2>5 DEF IInv
<1>. QED  BY <1>5, <1>6 DEF Receive

(***************************************************************************)
(* A step that only takes from the wire or alters what is there.           *)
(***************************************************************************)
LEMMA OutsideKeeps ==
  ASSUME IInv, UNCHANGED <<setup, calls>>, now' \in SubId,
         Remembers', receiver.ever = receiver'.ever,
         \A x \in wire' : OnTheWire(x)
  PROVE  IInv'
<1>1. /\ ReadsItsForm' = ReadsItsForm /\ FormOf' = FormOf
      /\ (setup \in Setup)' = (setup \in Setup) /\ Signature' = Signature
  BY DEF ReadsItsForm, FormOf, Batched, Limit, Signature
<1>2. ASSUME NEW x PROVE Carried(x)' = Carried(x)
  BY DEF Carried, Chunk, Batched, Limit
<1>3. \A c \in Call : (Shaped(calls[c]) /\ Vouched(calls[c], receiver.ever))'
  BY <1>1, <1>2 DEF IInv, Shaped, Vouched
<1>4. \A x \in wire' : OnTheWire(x)'
  BY <1>1, <1>2 DEF OnTheWire, CarriedFrom
<1>. QED  BY <1>1, <1>3, <1>4 DEF IInv

(***************************************************************************)
(* Every step.                                                             *)
(***************************************************************************)
LEMMA NextKeeps ==
  ASSUME IInv, [Next]_vars
  PROVE  IInv'
<1>1. UNCHANGED <<setup, receiver>> => Remembers'
  BY DEF IInv, Remembers, ReadsItsForm, FormOf, Batched, Limit
<1>2. CASE Dispatching
  BY <1>2, BatchKeeps DEF Dispatching
<1>3. ASSUME NEW m \in wire, Receive(m) PROVE IInv'
  BY <1>3, ReceiveKeeps
<1>4. ASSUME NEW m \in wire, Alter(m) PROVE IInv'
  <2>1. OnTheWire(m)
    BY DEF IInv
  <2> DEFINE x == [m EXCEPT !.intact = FALSE]
  <2>2. /\ x.call = m.call /\ x.at = m.at /\ x.attempt = m.attempt /\ x.events = m.events
        /\ x.form = m.form /\ x.tokens = m.tokens /\ x.timestamp = m.timestamp
        /\ x \in [call : {x.call}, at : {x.at}, attempt : {x.attempt},
                  events : {x.events}, form : {x.form}, timestamp : {x.timestamp},
                  tokens : {x.tokens}, intact : BOOLEAN]
    BY <2>1 DEF OnTheWire
  <2> HIDE DEF x
  <2>3. OnTheWire(x)
    BY <2>1, <2>2 DEF OnTheWire
  <2>4. wire' = (wire \ {m}) \cup {x}
    BY <1>4 DEF Alter, x
  <2>5. UNCHANGED <<setup, calls, receiver>> /\ now' \in SubId
    BY <1>4 DEF Alter, IInv
  <2>6. \A y \in wire' : OnTheWire(y)
    BY <2>3, <2>4 DEF IInv
  <2>. QED  BY <1>1, <2>5, <2>6, OutsideKeeps
<1>5. CASE Restart
  <2>1. /\ receiver' = [Fresh EXCEPT !.ever = receiver.ever]
        /\ UNCHANGED <<setup, calls, wire>> /\ now' \in SubId
    BY <1>5 DEF Restart, ReceiverRestarts, IInv
  <2>2. /\ receiver' = [processed |-> {}, times |-> [e \in AppEvent |-> 0], ever |-> receiver.ever]
        /\ receiver'.processed = {} /\ receiver'.times = [e \in AppEvent |-> 0]
        /\ receiver'.ever = receiver.ever
    BY <2>1 DEF Fresh
  <2>3. Remembers'
    BY <2>2 DEF Remembers
  <2>. QED  BY <2>1, <2>2, <2>3, OutsideKeeps DEF IInv
<1>6. CASE UNCHANGED <<setup, calls, wire, receiver>> /\ now' \in SubId
  BY <1>1, <1>6, OutsideKeeps DEF IInv
<1>7. now \in SubId /\ (Tick => now' \in SubId)
  BY SubscriptionsAssumption DEF IInv, Tick, SubId
<1>8. CASE Unsubscribe \/ Shutdown \/ Clock \/ UNCHANGED vars
  BY <1>6, <1>7, <1>8 DEF vars, Unsubscribe, Shutdown, Stop, Clock
<1>. QED  BY <1>2, <1>3, <1>4, <1>5, <1>8 DEF Next

LEMMA InitEstablishes ==
  ASSUME Init
  PROVE  IInv
<1>1. /\ setup \in Setup /\ now \in SubId /\ receiver = Fresh
      /\ calls = [c \in Call |-> NoCall] /\ wire = {}
  BY DeliveryAssumption, SubscriptionsAssumption DEF Init, BatchInit
<1>2. Remembers
  BY <1>1 DEF Remembers, Fresh
<1>3. Shaped(NoCall) /\ Vouched(NoCall, receiver.ever)
  <2>1. <<>> \in Seq({}) /\ DOMAIN <<>> = {}
    OBVIOUS
  <2>. QED  BY <2>1 DEF Shaped, Vouched, NoCall
<1>. QED  BY <1>1, <1>2, <1>3 DEF IInv

LEMMA AlwaysIInv == Spec => []IInv
BY InitEstablishes, NextKeeps, PTL DEF Spec

(***************************************************************************)
(* While a receiver stays up no event reaches its handler twice, although  *)
(* every attempt is signed anew, batches overlap and POSTs are repeated.   *)
(***************************************************************************)
THEOREM HandledOnce == Spec => []HandledOncePerStart
<1>1. IInv => HandledOncePerStart
  BY DEF IInv, Remembers, HandledOncePerStart
<1>. QED  BY <1>1, AlwaysIInv, PTL

(***************************************************************************)
(* Every event that dispatchBatch reports as delivered was handled by the  *)
(* receiver, whatever the network and the restarts of the receiver did.    *)
(***************************************************************************)
THEOREM AcknowledgedIsHandled == Spec => []AcknowledgedWasHandled
<1>1. IInv => AcknowledgedWasHandled
  BY DEF IInv, Vouched, Reported, AcknowledgedWasHandled
<1>. QED  BY <1>1, AlwaysIInv, PTL

(***************************************************************************)
(* All the verifiers of the repository come to the same verdict on every   *)
(* POST, whatever the clocks, the signatures and the proxies on the way.   *)
(***************************************************************************)
THEOREM VerifiersDoAgree == Spec => []VerifiersAgree
<1>1. ASSUME IInv, NEW m \in wire
      PROVE  LET good == m.intact /\ Age(m) <= Tolerance IN
             /\ verifyEEPWebhook(m) = good
             /\ verifyEEPWebhookWeb(m) = good
             /\ verify_eep_webhook(m) = good
             /\ FastApiVerifies(m) = good
             /\ ExpressVerifies(m) = (good /\ m.form # "batch")
             /\ verifyEd25519(m) = (m.intact /\ setup.dual)
             /\ (verifyWebhookSignature(m) \in {"ok", "ok_via_multi_signature"}) = m.intact
  <2>1. m.tokens = Signature /\ m.intact \in BOOLEAN /\ setup.dual \in BOOLEAN
    BY <1>1 DEF IInv, OnTheWire, Setup
  <2>2. /\ DOMAIN m.tokens = (IF setup.dual THEN {1, 2} ELSE {1})
        /\ m.tokens[1] = "v1"
        /\ setup.dual => m.tokens[2] = "v1a"
    BY <2>1 DEF Signature, sign, signEd25519
  <2>3. HasHmac(m) <=> m.intact
    BY <2>1, <2>2 DEF HasHmac
  <2>4. verifyEd25519(m) <=> m.intact /\ setup.dual
    BY <2>1, <2>2 DEF verifyEd25519
  <2>5. {i \in DOMAIN m.tokens : m.tokens[i] = "v1"} = {1}
    BY <2>1, <2>2
  <2>6. Cardinality({1}) = 1 /\ {1} # {}
    BY FS_Singleton
  <2>7. verifyWebhookSignature(m) = IF m.intact THEN "ok" ELSE "signature_mismatch"
    BY <2>1, <2>5, <2>6 DEF verifyWebhookSignature
  <2>8. (verifyWebhookSignature(m) \in {"ok", "ok_via_multi_signature"}) <=> m.intact
    BY <2>1, <2>7
  <2> DEFINE good == m.intact /\ Age(m) <= Tolerance
  <2>0. Age(m) > Tolerance <=> ~(Age(m) <= Tolerance)
    <3>1. m.timestamp \in Nat /\ ReceiverClock \in Int
      BY <1>1 DEF IInv, OnTheWire, Setup, SubId, ReceiverClock
    <3>. QED  BY <3>1, ToleranceAssumption DEF Age
  <2>9. verifyEEPWebhook(m) = good
    BY <2>0, <2>1, <2>3 DEF verifyEEPWebhook, verify
  <2>10. verifyEEPWebhookWeb(m) = good
    BY <2>0, <2>1, <2>3 DEF verifyEEPWebhookWeb, verify_web
  <2>11. verify_eep_webhook(m) = good
    BY <2>0, <2>1, <2>3 DEF verify_eep_webhook, verify_py
  <2>12. FastApiVerifies(m) = good
    BY <2>1, <2>3 DEF FastApiVerifies
  <2>13. ExpressVerifies(m) = (good /\ m.form # "batch")
    BY <2>1, <2>3 DEF ExpressVerifies
  <2>14. verifyEd25519(m) = (m.intact /\ setup.dual)
    BY <2>1, <2>4 DEF verifyEd25519
  <2>15. (verifyWebhookSignature(m) \in {"ok", "ok_via_multi_signature"}) = m.intact
    BY <2>1, <2>8
  <2>. QED  BY <2>9, <2>10, <2>11, <2>12, <2>13, <2>14, <2>15
<1>2. IInv => VerifiersAgree
  BY <1>1 DEF VerifiersAgree
<1>. QED  BY <1>2, AlwaysIInv, PTL

-----------------------------------------------------------------------------
(***************************************************************************)
(* The counter.  A write uses a count read before, so the invariant bounds *)
(* the counts that wait to be written; failed chunks are never forgotten.  *)
(***************************************************************************)
CInv ==
  /\ IsTable(table)
  /\ \A c \in Call : calls[c].pc = "writing" =>
       calls[c].seen \in Nat /\ calls[c].seen <= Cardinality(FailedChunks)
  /\ BatchCountsOnce

Grows(d, a) == a.results = d.results \/ \E o : a.results = Append(d.results, o)

FailedIn(d) == {i \in DOMAIN d.results : d.results[i].outcome = "failed"}

Pending(d) == IF d.pc = "reporting" /\ ~d.won THEN {Len(d.results) + 1} ELSE {}

Counted(d) == FailedIn(d) \cup Pending(d)

FailedOf(cs) == UNION {{c} \X Counted(cs[c]) : c \in Call}

LEMMA FailedOfFinite ==
  ASSUME NEW cs, \A c \in Call : \E S : cs[c].results \in Seq(S)
  PROVE  IsFiniteSet(FailedOf(cs)) /\ Cardinality(FailedOf(cs)) \in Nat
<1> DEFINE failed(c) == Counted(cs[c])
           f == [c \in Call |-> {c} \X failed(c)]
           T == {f[c] : c \in Call}
<1>1. ASSUME NEW c \in Call PROVE IsFiniteSet({c} \X failed(c))
  <2>1. PICK S : cs[c].results \in Seq(S)
    OBVIOUS
  <2> DEFINE n == Len(cs[c].results)
  <2>2. n \in Nat /\ DOMAIN cs[c].results = 1 .. n
    BY <2>1
  <2>3. /\ FailedIn(cs[c]) \subseteq 1 .. n /\ Pending(cs[c]) \subseteq {n + 1}
        /\ failed(c) = FailedIn(cs[c]) \cup Pending(cs[c])
    BY <2>2 DEF Counted, FailedIn, Pending
  <2> HIDE DEF failed, n
  <2>4. failed(c) \subseteq 1 .. n + 1 /\ IsFiniteSet(1 .. n + 1)
    <3>1. n + 1 \in Int /\ 1 \in Int
      BY <2>2
    <3>2. IsFiniteSet(1 .. n + 1)
      BY <3>1, FS_Interval
    <3>3. failed(c) \subseteq 1 .. n + 1
      BY <2>2, <2>3
    <3>. QED  BY <3>2, <3>3
  <2>5. IsFiniteSet(failed(c)) /\ IsFiniteSet({c})
    <3>. DEFINE I == 1 .. n + 1
    <3>1. IsFiniteSet(I) /\ failed(c) \subseteq I
      BY <2>4
    <3>. HIDE DEF I
    <3>2. IsFiniteSet(failed(c))
      BY <3>1, FS_Subset
    <3>. QED  BY <3>2, FS_Singleton
  <2>. QED  BY <2>5, FS_Product
<1>2. IsFiniteSet(T)
  <2>1. f \in Surjection(Call, T)
    BY DEF Surjection
  <2> HIDE DEF f, T
  <2>. QED  BY <2>1, BatchAssumption, FS_Surjection
<1>3. \A t \in T : IsFiniteSet(t)
  BY <1>1
<1>4. IsFiniteSet(UNION T)
  <2> HIDE DEF T
  <2>. QED  BY <1>2, <1>3, FS_UNION
<1>5. FailedOf(cs) = UNION T
  BY DEF FailedOf
<1>. QED  BY <1>4, <1>5, FS_CardinalityType

LEMMA FailedChunksFinite ==
  /\ FailedChunks = FailedOf(calls) /\ FailedChunks' = FailedOf(calls')
  /\ IInv => IsFiniteSet(FailedChunks) /\ Cardinality(FailedChunks) \in Nat
  /\ IInv' => IsFiniteSet(FailedChunks') /\ Cardinality(FailedChunks') \in Nat
<1>1. FailedChunks = FailedOf(calls) /\ FailedChunks' = FailedOf(calls')
  BY DEF FailedChunks, FailedOf, Counted, FailedIn, Pending, Reported, InReport
<1>2. IInv => \A c \in Call : \E S : calls[c].results \in Seq(S)
  BY DEF IInv, Shaped
<1>3. IInv' => \A c \in Call : \E S : calls'[c].results \in Seq(S)
  BY DEF IInv, Shaped
<1>. QED  BY <1>1, <1>2, <1>3, FailedOfFinite

(***************************************************************************)
(* A call only adds to its results, so failed chunks stay.                 *)
(***************************************************************************)
LEMMA FailuresStay ==
  ASSUME NEW d, NEW a, Shaped(d), Grows(d, a)
  PROVE  FailedIn(d) \subseteq FailedIn(a)
<1> DEFINE old == d.results
<1>1. PICK S : old \in Seq(S)
  BY DEF Shaped
<1>2. ASSUME NEW o
      PROVE  /\ DOMAIN Append(old, o) = DOMAIN old \cup {Len(old) + 1}
             /\ \A i \in DOMAIN old : Append(old, o)[i] = old[i]
  <2>1. old \in Seq(S \cup {o}) /\ o \in S \cup {o}
    BY <1>1
  <2>. QED  BY <2>1
<1>3. \A i \in DOMAIN old : i \in DOMAIN a.results /\ a.results[i] = old[i]
  BY <1>2 DEF Grows
<1>. QED  BY <1>3 DEF FailedIn

(***************************************************************************)
(* What counts as failed only grows, and another one is one more.          *)
(***************************************************************************)
LEMMA FailedChunksGrow ==
  ASSUME IInv, IInv', NEW c \in Call, NEW d, calls' = [calls EXCEPT ![c] = d],
         Counted(calls[c]) \subseteq Counted(d)
  PROVE  /\ Cardinality(FailedChunks) <= Cardinality(FailedChunks')
         /\ \A i \in Counted(d) : i \notin Counted(calls[c]) =>
              Cardinality(FailedChunks) + 1 <= Cardinality(FailedChunks')
<1>1. /\ IsFiniteSet(FailedChunks) /\ Cardinality(FailedChunks) \in Nat
      /\ IsFiniteSet(FailedChunks') /\ Cardinality(FailedChunks') \in Nat
      /\ FailedChunks = FailedOf(calls) /\ FailedChunks' = FailedOf(calls')
  BY FailedChunksFinite
<1>2. calls'[c] = d /\ \A x \in Call : x # c => calls'[x] = calls[x]
  BY DEF IInv
<1>3. \A x \in Call : Counted(calls[x]) \subseteq Counted(calls'[x])
  BY <1>2
<1>4. FailedChunks \subseteq FailedChunks'
  BY <1>1, <1>3 DEF FailedOf
<1>5. ASSUME NEW i \in Counted(d), i \notin Counted(calls[c])
      PROVE  Cardinality(FailedChunks) + 1 <= Cardinality(FailedChunks')
  <2> DEFINE k == <<c, i>>
  <2>1. k \in FailedChunks'
    <3>1. k \in {c} \X Counted(calls'[c])
      BY <1>2
    <3>. QED  BY <1>1, <3>1 DEF FailedOf
  <2>2. k \notin FailedChunks
    BY <1>1, <1>5 DEF FailedOf
  <2>3. FailedChunks \cup {k} \subseteq FailedChunks'
    BY <1>4, <2>1
  <2> HIDE DEF k
  <2>4. Cardinality(FailedChunks \cup {k}) = Cardinality(FailedChunks) + 1
    BY <1>1, <2>2, FS_AddElement
  <2>5. Cardinality(FailedChunks \cup {k}) <= Cardinality(FailedChunks')
    BY <1>1, <2>3, FS_Subset
  <2>. QED  BY <1>1, <2>4, <2>5
<1>6. Cardinality(FailedChunks) <= Cardinality(FailedChunks')
  BY <1>1, <1>4, FS_Subset
<1>. QED  BY <1>5, <1>6

(***************************************************************************)
(* A step of call c that leaves the addressee's record alone.              *)
(***************************************************************************)
LEMMA CallKeepsCount ==
  ASSUME IInv, IInv', CInv, NEW c \in Call, NEW d, NEW rest, Advance(c, d, rest),
         Counted(calls[c]) \subseteq Counted(d), UNCHANGED table,
         d.pc = "writing" => d.seen \in Nat /\ d.seen <= Cardinality(FailedChunks)
  PROVE  CInv'
<1>1. calls' = [calls EXCEPT ![c] = d]
  BY DEF Advance
<1>2. /\ Cardinality(FailedChunks) <= Cardinality(FailedChunks')
      /\ Cardinality(FailedChunks) \in Nat /\ Cardinality(FailedChunks') \in Nat
  BY <1>1, FailedChunksGrow, FailedChunksFinite
<1>3. calls'[c] = d /\ \A x \in Call : x # c => calls'[x] = calls[x]
  BY <1>1 DEF IInv
<1>4. IsTable(table)'
  BY DEF CInv, IsTable
<1>5. \A x \in Call : (calls[x].pc = "writing" =>
        calls[x].seen \in Nat /\ calls[x].seen <= Cardinality(FailedChunks))'
  BY <1>2, <1>3 DEF CInv
<1>6. Addressee \in DOMAIN table => table[Addressee].failure_count \in Nat
  BY DEF CInv, IsTable, SubscriptionRecord
<1>7. BatchCountsOnce'
  BY <1>2, <1>6, BatchAssumption DEF CInv, BatchCountsOnce
<1>. QED  BY <1>4, <1>5, <1>7 DEF CInv

LEMMA StepKeepsCount ==
  ASSUME IInv, IInv', CInv, NEW c \in Call, NEW d, NEW rest, Advance(c, d, rest),
         Grows(calls[c], d), calls[c].pc # "reporting", UNCHANGED table,
         d.pc = "writing" => d.seen \in Nat /\ d.seen <= Cardinality(FailedChunks)
  PROVE  CInv'
<1>1. Shaped(calls[c])
  BY DEF IInv
<1>2. Counted(calls[c]) \subseteq Counted(d)
  BY <1>1, FailuresStay DEF Counted, Pending
<1>. QED  BY <1>2, CallKeepsCount

(***************************************************************************)
(* The loop over attempts adds at most the results of an aborted chunk,    *)
(* and leaves the counter to the two steps that follow.                    *)
(***************************************************************************)
LEMMA LoopGrows ==
  ASSUME NEW d, NEW n, Shaped(d), d.pc # "writing"
  PROVE  /\ Grows(d, EnterLoop(d, n)) /\ EnterLoop(d, n).pc # "writing"
         /\ Grows(d, AttemptOrAbort(d)) /\ AttemptOrAbort(d).pc # "writing"
<1>1. ASSUME NEW x, Shaped(x), x.results = d.results
      PROVE  Grows(d, AttemptOrAbort(x)) /\ AttemptOrAbort(x).pc # "writing"
  BY <1>1 DEF AttemptOrAbort, Report, Grows, Shaped
<1>2. Shaped([d EXCEPT !.attempt = n]) /\ [d EXCEPT !.attempt = n].results = d.results
  BY DEF Shaped
<1>3. CASE n > MaxAttempts
  <2> DEFINE a == [d EXCEPT !.pc = "reading", !.won = FALSE]
  <2>1. EnterLoop(d, n) = a
    BY <1>3 DEF EnterLoop
  <2>2. a.results = d.results /\ a.pc = "reading"
    BY DEF Shaped
  <2> HIDE DEF a
  <2>. QED  BY <1>1, <2>1, <2>2 DEF Grows
<1>4. CASE ~(n > MaxAttempts) /\ RetrySchedule[n] > 0
  <2> DEFINE a == [d EXCEPT !.pc = "asleep", !.attempt = n]
  <2>1. EnterLoop(d, n) = a
    BY <1>4 DEF EnterLoop
  <2>2. a.results = d.results /\ a.pc = "asleep"
    BY DEF Shaped
  <2> HIDE DEF a
  <2>. QED  BY <1>1, <2>1, <2>2 DEF Grows
<1>5. CASE ~(n > MaxAttempts) /\ ~(RetrySchedule[n] > 0)
  BY <1>1, <1>2, <1>5 DEF EnterLoop
<1>. QED  BY <1>1, <1>3, <1>4, <1>5

LEMMA ReportGrows ==
  ASSUME NEW d, NEW outcome, Shaped(d)
  PROVE  /\ Report(d, outcome).results = Append(d.results, OutcomeFor(d, outcome))
         /\ Grows(d, Report(d, outcome)) /\ Report(d, outcome).pc = "next"
<1>1. Report(d, outcome).results = Append(d.results, OutcomeFor(d, outcome))
      /\ Report(d, outcome).pc = "next"
  BY DEF Report, Shaped
<1>. QED  BY <1>1 DEF Grows

(***************************************************************************)
(* The write: one failure more, one failed chunk more.                     *)
(***************************************************************************)
LEMMA WriteKeepsCount ==
  ASSUME IInv, IInv', CInv, NEW c \in Call, WriteRecord(c)
  PROVE  CInv'
<1> DEFINE d == calls[c]
           a == [d EXCEPT !.pc = "reporting", !.seen = 0]
<1>1. Shaped(d) /\ d.won \in BOOLEAN
  BY DEF IInv, Shaped
<1>2. /\ calls' = [calls EXCEPT ![c] = a] /\ d.pc = "writing"
      /\ d.seen \in Nat /\ d.seen <= Cardinality(FailedChunks)
  BY DEF WriteRecord, Advance, CInv
<1>3. a.results = d.results /\ a.pc = "reporting" /\ a.won = d.won
  BY <1>1 DEF Shaped
<1> HIDE DEF a
<1>4. /\ Cardinality(FailedChunks) <= Cardinality(FailedChunks')
      /\ ~d.won => Cardinality(FailedChunks) + 1 <= Cardinality(FailedChunks')
      /\ Cardinality(FailedChunks) \in Nat /\ Cardinality(FailedChunks') \in Nat
  <2>1. Counted(d) \subseteq Counted(a)
    BY <1>2, <1>3 DEF Counted, FailedIn, Pending
  <2>2. Len(d.results) + 1 \notin Counted(d)
    <3>1. \E S : d.results \in Seq(S)
      BY <1>1 DEF Shaped
    <3>2. Len(d.results) + 1 \notin DOMAIN d.results
      BY <3>1
    <3>. QED  BY <1>2, <3>2 DEF Counted, FailedIn, Pending
  <2>3. ~d.won => Len(d.results) + 1 \in Counted(a)
    BY <1>3 DEF Counted, Pending
  <2>. QED  BY <1>2, <2>1, <2>2, <2>3, FailedChunksGrow, FailedChunksFinite
<1>5. calls'[c] = a /\ \A x \in Call : x # c => calls'[x] = calls[x]
  BY <1>2 DEF IInv
<1>6. \A x \in Call : (calls[x].pc = "writing" =>
        calls[x].seen \in Nat /\ calls[x].seen <= Cardinality(FailedChunks))'
  BY <1>3, <1>4, <1>5 DEF CInv
<1>7. CASE Addressee \notin DOMAIN table
  BY <1>6, <1>7 DEF WriteRecord, CInv, IsTable, BatchCountsOnce
<1>8. CASE Addressee \in DOMAIN table
  <2> DEFINE old == table[Addressee]
             new == Recorded(d)
  <2>1. table' = [i \in DOMAIN table |-> IF i = Addressee THEN new ELSE table[i]]
    BY <1>8 DEF WriteRecord, UpdateSubscription
  <2>2. old \in SubscriptionRecord
    BY <1>8 DEF CInv, IsTable
  <2>3. /\ new.failure_count = (IF d.won THEN 0 ELSE d.seen + 1)
        /\ new.status = (IF ~d.won /\ d.seen + 1 >= PauseAfterFailures
                         THEN "paused" ELSE old.status)
    BY <2>2 DEF Recorded, SubscriptionRecord
  <2>4. new \in SubscriptionRecord
    <3>1. d.seen + 1 \in Nat /\ "paused" \in SubscriptionStatus
      BY <1>2 DEF SubscriptionStatus
    <3>. QED  BY <2>2, <3>1 DEF Recorded, SubscriptionRecord
  <2> HIDE DEF new
  <2>5. IsTable(table)'
    BY <2>1, <2>4 DEF CInv, IsTable
  <2>6. table'[Addressee] = new
    BY <1>8, <2>1
  <2>7. old.status = "paused" => Cardinality(FailedChunks) >= PauseAfterFailures
    BY <1>8 DEF CInv, BatchCountsOnce
  <2>8. /\ new.failure_count <= Cardinality(FailedChunks')
        /\ new.status = "paused" => Cardinality(FailedChunks') >= PauseAfterFailures
    BY <1>1, <1>2, <1>4, <2>3, <2>7, BatchAssumption
  <2>9. BatchCountsOnce'
    BY <2>6, <2>8 DEF BatchCountsOnce
  <2>. QED  BY <1>6, <2>5, <2>9 DEF CInv
<1>. QED  BY <1>7, <1>8

(***************************************************************************)
(* The report: what counted as failed is now among the results.            *)
(***************************************************************************)
LEMMA ReportKeepsCount ==
  ASSUME IInv, IInv', CInv, NEW c \in Call, ReportChunk(c)
  PROVE  CInv'
<1> DEFINE d == calls[c]
           a == Report(d, OutcomeOf(d))
           o == OutcomeFor(d, OutcomeOf(d))
<1>1. Shaped(d)
  BY DEF IInv
<1>2. Advance(c, a, wire) /\ UNCHANGED table
  BY DEF ReportChunk
<1>3. /\ a.results = Append(d.results, o) /\ Grows(d, a) /\ a.pc = "next"
      /\ o.outcome = OutcomeOf(d)
  BY <1>1, ReportGrows DEF OutcomeFor
<1> HIDE DEF a, o
<1>4. Counted(d) \subseteq Counted(a)
  <2>1. FailedIn(d) \subseteq FailedIn(a)
    BY <1>1, <1>3, FailuresStay
  <2>2. Pending(d) \subseteq FailedIn(a)
    <3>1. PICK S : d.results \in Seq(S)
      BY <1>1 DEF Shaped
    <3>2. d.results \in Seq(S \cup {o}) /\ o \in S \cup {o}
      BY <3>1
    <3>3. /\ Len(d.results) + 1 \in DOMAIN a.results
          /\ a.results[Len(d.results) + 1] = o
      BY <1>3, <3>2
    <3>4. ~d.won => o.outcome = "failed"
      BY <1>3 DEF OutcomeOf
    <3>. QED  BY <3>3, <3>4 DEF Pending, FailedIn
  <2>. QED  BY <2>1, <2>2 DEF Counted
<1>. QED  BY <1>2, <1>3, <1>4, CallKeepsCount

LEMMA BatchKeepsCount ==
  ASSUME IInv, IInv', CInv, NEW c \in Call, DispatchBatch(c) \/ BatchStep(c)
  PROVE  CInv'
<1> DEFINE d == calls[c]
<1>1. Shaped(d)
  BY DEF IInv
<1>2. CASE WriteRecord(c)
  BY <1>2, WriteKeepsCount
<1>9. CASE ReportChunk(c)
  BY <1>9, ReportKeepsCount
<1>3. CASE DispatchBatch(c)
  <2>1. PICK p \in {"done", "listing"} : Advance(c, [d EXCEPT !.pc = p], wire)
    BY <1>3 DEF DispatchBatch
  <2> DEFINE a == [d EXCEPT !.pc = p]
  <2>2. Grows(d, a) /\ a.pc # "writing"
    BY <1>1 DEF Shaped, Grows
  <2>3. Advance(c, a, wire) /\ UNCHANGED table /\ d.pc = "idle"
    BY <1>3, <2>1 DEF DispatchBatch
  <2> HIDE DEF a
  <2>. QED  BY <2>2, <2>3, StepKeepsCount
<1>4. CASE ListSubscription(c) \/ SelectEligible(c)
  <2>1. UNCHANGED table /\ d.pc \in {"listing", "listed"}
    BY <1>4 DEF ListSubscription, SelectEligible
  <2>2. PICK a : /\ Advance(c, a, wire)
                 /\ \/ a = [d EXCEPT !.pc = "listed", !.sub = table[Addressee]]
                    \/ a = [d EXCEPT !.pc = "done"]
                    \/ \E e : a = [d EXCEPT !.pc = "next", !.eligible = e]
    BY <1>4 DEF ListSubscription, SelectEligible
  <2>3. Grows(d, a) /\ a.pc # "writing"
    BY <1>1, <2>2 DEF Shaped, Grows
  <2>. QED  BY <2>1, <2>2, <2>3, StepKeepsCount
<1>5. CASE NextChunk(c)
  <2>1. PICK a : Advance(c, a, wire) /\ (a = [d EXCEPT !.pc = "done"] \/ a = EnterLoop(d, 1))
    BY <1>5 DEF NextChunk
  <2>2. d.pc = "next" /\ UNCHANGED table
    BY <1>5 DEF NextChunk
  <2>3. CASE a = [d EXCEPT !.pc = "done"]
    <3>1. Grows(d, a) /\ a.pc # "writing"
      BY <1>1, <2>3 DEF Shaped, Grows
    <3>. QED  BY <2>1, <2>2, <3>1, StepKeepsCount
  <2>4. CASE a = EnterLoop(d, 1)
    <3>1. Grows(d, a) /\ a.pc # "writing"
      BY <1>1, <2>2, <2>4, LoopGrows
    <3>. QED  BY <2>1, <2>2, <3>1, StepKeepsCount
  <2>. QED  BY <2>1, <2>3, <2>4
<1>6. CASE Wake(c) \/ TimeOut(c)
  <2>1. d.pc \in {"asleep", "posting"} /\ UNCHANGED table
    BY <1>6 DEF Wake, TimeOut
  <2>2. PICK a, rest : /\ Advance(c, a, rest)
                       /\ (a = AttemptOrAbort(d) \/ \E n : a = EnterLoop(d, n))
    BY <1>6 DEF Wake, TimeOut, AfterAttempt
  <2>3. Grows(d, a) /\ a.pc # "writing"
    BY <1>1, <2>1, <2>2, LoopGrows
  <2>. QED  BY <2>1, <2>2, <2>3, StepKeepsCount
<1>7. CASE ReadRecord(c) /\ NothingToWrite(d)
  <2> DEFINE a == Report(d, OutcomeOf(d))
  <2>1. Advance(c, a, wire) /\ UNCHANGED table /\ d.pc = "reading"
    BY <1>7 DEF ReadRecord
  <2>2. Grows(d, a) /\ a.pc # "writing"
    BY <1>1, ReportGrows
  <2> HIDE DEF a
  <2>. QED  BY <2>1, <2>2, StepKeepsCount
<1>8. CASE ReadRecord(c) /\ ~NothingToWrite(d)
  <2> DEFINE a == [d EXCEPT !.pc = "writing", !.seen = table[Addressee].failure_count]
  <2>1. Advance(c, a, wire) /\ UNCHANGED table /\ d.pc = "reading"
    BY <1>8 DEF ReadRecord
  <2>2. Grows(d, a) /\ a.seen = table[Addressee].failure_count
    BY <1>1 DEF Shaped, Grows
  <2> HIDE DEF a
  <2>3. table[Addressee].failure_count \in Nat
        /\ table[Addressee].failure_count <= Cardinality(FailedChunks)
    BY <1>8 DEF NothingToWrite, CInv, IsTable, SubscriptionRecord, BatchCountsOnce
  <2>. QED  BY <2>1, <2>2, <2>3, StepKeepsCount
<1>. QED  BY <1>2, <1>3, <1>4, <1>5, <1>6, <1>7, <1>8, <1>9 DEF BatchStep

LEMMA ReceiveKeepsCount ==
  ASSUME IInv, IInv', CInv, NEW m \in wire, Receive(m)
  PROVE  CInv'
<1> DEFINE c == m.call
           d == calls[c]
<1>1. c \in Call /\ Shaped(d)
  BY DEF IInv, OnTheWire
<1>2. UNCHANGED table
  BY DEF Receive
<1>3. CASE \E rest : IsCurrent(m) /\ Advance(c, AfterAttempt(d, Respond(m).ok), rest)
  <2>1. PICK rest, a : IsCurrent(m) /\ a = AfterAttempt(d, Respond(m).ok) /\ Advance(c, a, rest)
    BY <1>3
  <2>2. d.pc = "posting"
    BY <2>1 DEF IsCurrent
  <2>3. a = [d EXCEPT !.pc = "reading", !.won = TRUE] \/ \E n : a = EnterLoop(d, n)
    BY <2>1 DEF AfterAttempt
  <2>4. CASE a = [d EXCEPT !.pc = "reading", !.won = TRUE]
    <3>1. Grows(d, a) /\ a.pc # "writing"
      BY <1>1, <2>4 DEF Shaped, Grows
    <3>. QED  BY <1>1, <1>2, <2>1, <2>2, <3>1, StepKeepsCount
  <2>5. CASE \E n : a = EnterLoop(d, n)
    <3>1. Grows(d, a) /\ a.pc # "writing"
      BY <1>1, <2>2, <2>5, LoopGrows
    <3>. QED  BY <1>1, <1>2, <2>1, <2>2, <3>1, StepKeepsCount
  <2>. QED  BY <2>3, <2>4, <2>5
<1>4. CASE UNCHANGED calls
  BY <1>2, <1>4, FailedChunksFinite DEF CInv, IsTable, BatchCountsOnce
<1>. QED  BY <1>3, <1>4 DEF Receive

LEMMA NextKeepsCount ==
  ASSUME IInv, IInv', CInv, [Next]_vars
  PROVE  CInv'
<1>1. CASE Dispatching
  BY <1>1, BatchKeepsCount DEF Dispatching
<1>2. ASSUME NEW m \in wire, Receive(m) PROVE CInv'
  BY <1>2, ReceiveKeepsCount
<1>3. CASE UNCHANGED <<table, calls>>
  BY <1>3, FailedChunksFinite DEF CInv, IsTable, BatchCountsOnce
<1>4. CASE Unsubscribe
  <2>1. /\ table' = [i \in DOMAIN table \ {Addressee} |-> table[i]] /\ UNCHANGED calls
    BY <1>4 DEF Unsubscribe, DeleteSubscription
  <2>2. IsTable(table)' /\ Addressee \notin DOMAIN table'
    BY <2>1 DEF CInv, IsTable
  <2>3. FailedChunks' = FailedChunks
    BY <2>1, FailedChunksFinite
  <2>. QED  BY <2>1, <2>2, <2>3 DEF CInv, BatchCountsOnce
<1>. QED
  BY <1>1, <1>2, <1>3, <1>4 DEF Next, vars, Alter, Shutdown, Stop, Restart, Clock

LEMMA InitCounts ==
  ASSUME Init
  PROVE  CInv
<1>1. calls = [c \in Call |-> NoCall] /\ table \in InitialTables /\ IInv
  BY InitEstablishes DEF Init, BatchInit
<1>2. /\ IsTable(table)
      /\ \A s \in DOMAIN table : table[s].status = "active" /\ table[s].failure_count = 0
  BY <1>1, SubscriptionsAssumption
<1>3. Cardinality(FailedChunks) \in Nat
  BY <1>1, FailedChunksFinite
<1>. QED  BY <1>1, <1>2, <1>3 DEF CInv, BatchCountsOnce, NoCall

(***************************************************************************)
(* A failed chunk is one failure against the counter, however many events  *)
(* it holds and whichever calls run side by side, and a subscription is    *)
(* paused only after PauseAfterFailures chunks failed.                     *)
(***************************************************************************)
THEOREM ChunksAreCounted == Spec => []BatchCountsOnce
<1>1. IInv /\ IInv' /\ CInv /\ [Next]_vars => CInv'
  BY NextKeepsCount
<1>2. CInv => BatchCountsOnce
  BY DEF CInv
<1>. QED  BY <1>1, <1>2, InitCounts, AlwaysIInv, PTL DEF Spec

-----------------------------------------------------------------------------
(***************************************************************************)
(* FlattenSeq concatenates.                                                *)
(***************************************************************************)
Joined(s) ==
  CHOOSE f : f = [i \in 1 .. Len(s) |-> IF i = 1 THEN s[i] ELSE f[i - 1] \o s[i]]

LEMMA JoinedExists ==
  ASSUME NEW V, NEW s \in Seq(Seq(V)), Len(s) # 0
  PROVE  /\ Joined(s) \in [1 .. Len(s) -> Seq(V)]
         /\ \A i \in 1 .. Len(s) :
              Joined(s)[i] = IF i = 1 THEN s[i] ELSE Joined(s)[i - 1] \o s[i]
<1>. DEFINE n == Len(s)
            round == [i \in 1 .. n |-> [v \in Seq(V) |-> v \o s[i]]]
<1>1. n \in Nat /\ n # 0 /\ \A i \in 1 .. n : s[i] \in Seq(V)
  OBVIOUS
<1>2. round \in [1 .. n -> [Seq(V) -> Seq(V)]] /\ s[1] \in Seq(V)
  BY <1>1
<1>3. PICK f \in [1 .. n -> Seq(V)] :
        \A i \in 1 .. n : f[i] = IF i = 1 THEN s[1] ELSE round[i][f[i - 1]]
  <2>. DEFINE W == Seq(V)
  <2>1. 1 \in Nat /\ n \in Nat /\ s[1] \in W /\ round \in [1 .. n -> [W -> W]]
    BY <1>1, <1>2
  <2>2. \E f \in [1 .. n -> W] : IsLoop(f, 1, n, s[1], round)
    <3>. HIDE DEF n, round, W
    <3>. QED  BY <2>1, LoopExists
  <2>. HIDE DEF n, round
  <2>. QED  BY <2>2 DEF IsLoop
<1>4. ASSUME NEW g, g = [i \in 1 .. n |-> IF i = 1 THEN s[i] ELSE g[i - 1] \o s[i]]
      PROVE  g = f
  <2>. DEFINE T == {i \in 1 .. n : g[i] # f[i]}
  <2>1. ASSUME T # {} PROVE FALSE
    <3>0. T \in SUBSET Nat
      OBVIOUS
    <3>1. PICK i \in T : \A j \in T : i <= j
      <4>. HIDE DEF T
      <4>. QED  BY <2>1, <3>0, LeastElement
    <3>2. CASE i = 1
      BY <1>3, <1>4, <3>1, <3>2
    <3>3. CASE i # 1
      <4>1. i - 1 \in 1 .. n /\ i \in 1 .. n
        BY <3>1, <3>3
      <4>2. g[i - 1] = f[i - 1]
        <5>1. i - 1 \notin T
          <6>. HIDE DEF T
          <6>. QED  BY <1>1, <3>1, <4>1
        <5>. QED  BY <4>1, <5>1
      <4>3. f[i] = f[i - 1] \o s[i]
        <5>1. f[i - 1] \in Seq(V)
          BY <4>1
        <5>. QED  BY <1>3, <3>3, <4>1, <5>1
      <4>4. g[i] = g[i - 1] \o s[i]
        BY <1>4, <3>3, <4>1
      <4>. QED  BY <3>1, <4>2, <4>3, <4>4
    <3>. QED  BY <3>2, <3>3
  <2>2. \A i \in 1 .. n : g[i] = f[i]
    BY <2>1
  <2>3. g = [i \in 1 .. n |-> g[i]] /\ f = [i \in 1 .. n |-> f[i]]
    BY <1>4
  <2>. QED  BY <2>2, <2>3
<1>5. f = [i \in 1 .. n |-> IF i = 1 THEN s[i] ELSE f[i - 1] \o s[i]]
  <2>1. \A i \in 1 .. n : f[i] = IF i = 1 THEN s[i] ELSE f[i - 1] \o s[i]
    <3>1. ASSUME NEW i \in 1 .. n, i # 1 PROVE f[i] = f[i - 1] \o s[i]
      <4>0. i - 1 \in 1 .. n
        BY <3>1
      <4>1. f[i - 1] \in Seq(V)
        BY <1>3, <4>0
      <4>2. f[i] = round[i][f[i - 1]]
        BY <1>3, <3>1
      <4>. QED  BY <4>1, <4>2
    <3>2. f[1] = s[1]
      <4>1. 1 \in 1 .. n
        BY <1>1
      <4>. HIDE DEF round
      <4>. QED  BY <1>3, <4>1
    <3>. QED  BY <3>1, <3>2
  <2>. DEFINE e(i) == IF i = 1 THEN s[i] ELSE f[i - 1] \o s[i]
  <2>2. \A i \in 1 .. n : f[i] = e(i)
    BY <2>1
  <2>. HIDE DEF n, round, e
  <2>3. f = [i \in 1 .. n |-> e(i)]
    BY <2>2
  <2>. QED  BY <2>3 DEF e
<1>6. Joined(s) = [i \in 1 .. n |-> IF i = 1 THEN s[i] ELSE Joined(s)[i - 1] \o s[i]]
  <2>. HIDE DEF round
  <2>. QED  BY <1>5 DEF Joined
<1>7. Joined(s) = f
  <2>. HIDE DEF n, round
  <2>. QED  BY <1>4, <1>6
<1>. QED  BY <1>6, <1>7

LEMMA FlattenIsJoined ==
  ASSUME NEW s, Len(s) # 0
  PROVE  FlattenSeq(s) = Joined(s)[Len(s)]
BY DEF FlattenSeq, Joined

LEMMA FlattenType ==
  ASSUME NEW V, NEW s \in Seq(Seq(V))
  PROVE  FlattenSeq(s) \in Seq(V)
<1>1. CASE Len(s) = 0
  <2>1. FlattenSeq(s) = s
    BY <1>1 DEF FlattenSeq
  <2>2. s = <<>>
    BY <1>1
  <2>. QED  BY <2>1, <2>2
<1>2. CASE Len(s) # 0
  <2>1. Len(s) \in 1 .. Len(s)
    BY <1>2
  <2>. QED  BY <1>2, <2>1, JoinedExists, FlattenIsJoined
<1>. QED  BY <1>1, <1>2

LEMMA FlattenAppend ==
  ASSUME NEW V, NEW s \in Seq(Seq(V)), NEW x \in Seq(V)
  PROVE  FlattenSeq(Append(s, x)) = FlattenSeq(s) \o x
<1>. DEFINE t == Append(s, x)
            n == Len(s)
<1>1. /\ t \in Seq(Seq(V)) /\ Len(t) = n + 1 /\ n \in Nat
      /\ t[n + 1] = x /\ \A i \in 1 .. n : t[i] = s[i]
  OBVIOUS
<1>. HIDE DEF t
<1>2. FlattenSeq(t) = Joined(t)[n + 1]
  BY <1>1, FlattenIsJoined
<1>3. /\ \A i \in 1 .. n + 1 : Joined(t)[i] \in Seq(V)
      /\ \A i \in 1 .. n + 1 : Joined(t)[i] = IF i = 1 THEN t[i] ELSE Joined(t)[i - 1] \o t[i]
  <2>1. Len(t) # 0 /\ 1 .. Len(t) = 1 .. n + 1
    BY <1>1
  <2>2. /\ Joined(t) \in [1 .. Len(t) -> Seq(V)]
        /\ \A i \in 1 .. Len(t) :
             Joined(t)[i] = IF i = 1 THEN t[i] ELSE Joined(t)[i - 1] \o t[i]
    <3>. HIDE DEF n
    <3>. QED  BY <1>1, <2>1, JoinedExists
  <2>. QED  BY <2>1, <2>2
<1>4. CASE n = 0
  <2>1. FlattenSeq(t) = x
    BY <1>1, <1>2, <1>3, <1>4
  <2>2. FlattenSeq(s) = <<>>
    BY <1>4 DEF FlattenSeq
  <2>. QED  BY <2>1, <2>2 DEF t
<1>5. CASE n # 0
  <2>1. /\ \A i \in 1 .. n : Joined(s)[i] = IF i = 1 THEN s[i] ELSE Joined(s)[i - 1] \o s[i]
        /\ FlattenSeq(s) = Joined(s)[n]
    BY <1>5, JoinedExists, FlattenIsJoined
  <2>. DEFINE T == {i \in 1 .. n : Joined(s)[i] # Joined(t)[i]}
  <2>2. ASSUME T # {} PROVE FALSE
    <3>0. T \in SUBSET Nat
      OBVIOUS
    <3>1. PICK i \in T : \A j \in T : i <= j
      <4>. HIDE DEF T
      <4>. QED  BY <2>2, <3>0, LeastElement
    <3>2. i \in 1 .. n /\ i \in 1 .. n + 1 /\ s[i] = t[i]
      BY <1>1
    <3>3. CASE i = 1
      BY <1>3, <2>1, <3>1, <3>2, <3>3
    <3>4. CASE i # 1
      <4>1. i - 1 \in 1 .. n
        BY <3>2, <3>4
      <4>2. i - 1 \notin T
        <5>. HIDE DEF T
        <5>. QED  BY <3>1, <3>2, <4>1
      <4>3. Joined(s)[i - 1] = Joined(t)[i - 1]
        BY <4>1, <4>2
      <4>4. Joined(s)[i] = Joined(s)[i - 1] \o s[i]
        BY <2>1, <3>2, <3>4
      <4>5. Joined(t)[i] = Joined(t)[i - 1] \o t[i]
        BY <1>3, <3>2, <3>4
      <4>. QED  BY <3>1, <3>2, <4>3, <4>4, <4>5
    <3>. QED  BY <3>3, <3>4
  <2>3. n \in 1 .. n /\ n + 1 \in 1 .. n + 1 /\ n + 1 # 1 /\ (n + 1) - 1 = n
    BY <1>1, <1>5
  <2>4. Joined(s)[n] = Joined(t)[n]
    BY <2>2, <2>3
  <2>5. Joined(t)[n + 1] = Joined(t)[n] \o x
    BY <1>1, <1>3, <2>3
  <2>. QED  BY <1>2, <2>1, <2>4, <2>5 DEF t
<1>. QED  BY <1>4, <1>5

(***************************************************************************)
(* The eligible events are a sequence of events.                           *)
(***************************************************************************)
Taken(events, rec) ==
  CHOOSE taken : taken =
    [n \in 0 .. Len(events) |->
       IF n = 0 THEN <<>>
       ELSE IF IsTarget(Addressee, rec, AppEventOf(events[n]))
            THEN Append(taken[n - 1], events[n]) ELSE taken[n - 1]]

LEMMA EligibleType ==
  ASSUME NEW events \in Seq(AppEvent), NEW rec
  PROVE  Eligible(events, rec) \in Seq(AppEvent)
<1>. DEFINE n == Len(events)
            W == Seq(AppEvent)
            takes(i) == IsTarget(Addressee, rec, AppEventOf(events[i]))
            round == [i \in 0 .. n |-> [v \in W |->
                        IF i # 0 /\ takes(i) THEN Append(v, events[i]) ELSE v]]
            Loop(g) == [i \in 0 .. n |->
                          IF i = 0 THEN <<>>
                          ELSE IF takes(i) THEN Append(g[i - 1], events[i]) ELSE g[i - 1]]
<1>1. n \in Nat /\ <<>> \in W /\ \A i \in 1 .. n : events[i] \in AppEvent
  OBVIOUS
<1>. HIDE DEF takes
<1>2. round \in [0 .. n -> [W -> W]]
  <2>1. ASSUME NEW i \in 0 .. n, NEW v \in W
        PROVE  (IF i # 0 /\ takes(i) THEN Append(v, events[i]) ELSE v) \in W
    <3>1. i # 0 => events[i] \in AppEvent
      BY <1>1
    <3>. QED  BY <3>1
  <2>. HIDE DEF n, W
  <2>. QED  BY <2>1
<1>3. PICK f \in [0 .. n -> W] : IsLoop(f, 0, n, <<>>, round)
  <2>. HIDE DEF n, round, W
  <2>. QED  BY <1>1, <1>2, LoopExists
<1>4. \A i \in 0 .. n : f[i] = Loop(f)[i]
  <2>1. ASSUME NEW i \in 0 .. n, i # 0 PROVE f[i] = Loop(f)[i]
    <3>0. i - 1 \in 0 .. n
      BY <2>1
    <3>1. f[i - 1] \in W /\ f[i] = round[i][f[i - 1]]
      <4>. HIDE DEF round, W
      <4>. QED  BY <1>3, <2>1, <3>0 DEF IsLoop
    <3>. HIDE DEF n, W
    <3>. QED  BY <2>1, <3>1
  <2>2. f[0] = <<>>
    <3>1. 0 \in 0 .. n
      BY <1>1
    <3>. HIDE DEF round, n
    <3>. QED  BY <1>3, <3>1 DEF IsLoop
  <2>3. 0 \in 0 .. n => Loop(f)[0] = <<>>
    OBVIOUS
  <2>. HIDE DEF Loop, n
  <2>. QED  BY <2>1, <2>2, <2>3
<1>5. f = Loop(f)
  <2>1. f = [i \in 0 .. n |-> f[i]] /\ DOMAIN Loop(f) = 0 .. n
        /\ Loop(f) = [i \in 0 .. n |-> Loop(f)[i]]
    OBVIOUS
  <2>. HIDE DEF Loop, n
  <2>. QED  BY <1>4, <2>1
<1>6. Taken(events, rec) = Loop(Taken(events, rec))
  <2>1. \E g : g = Loop(g)
    <3>. HIDE DEF Loop
    <3>. QED  BY <1>5
  <2>2. Taken(events, rec) = CHOOSE g : g = Loop(g)
    BY DEF Taken, takes
  <2>. HIDE DEF Loop
  <2>. QED  BY <2>1, <2>2
<1>7. Eligible(events, rec) = Taken(events, rec)[n]
  BY DEF Eligible, Taken
<1>. DEFINE g == Taken(events, rec)
            T == {i \in 0 .. n : g[i] # f[i]}
<1>. HIDE DEF g
<1>8. ASSUME T # {} PROVE FALSE
  <2>0. T \in SUBSET Nat
    OBVIOUS
  <2>1. PICK i \in T : \A j \in T : i <= j
    <3>. HIDE DEF T
    <3>. QED  BY <1>8, <2>0, LeastElement
  <2>2. g[i] = Loop(g)[i] /\ f[i] = Loop(f)[i] /\ i \in 0 .. n
    <3>. HIDE DEF Loop
    <3>. QED  BY <1>5, <1>6 DEF g
  <2>3. CASE i = 0
    BY <2>1, <2>2, <2>3
  <2>4. CASE i # 0
    <3>1. i - 1 \in 0 .. n
      BY <2>2, <2>4
    <3>2. i - 1 \notin T
      <4>. HIDE DEF T
      <4>. QED  BY <2>1, <2>2, <3>1
    <3>3. g[i - 1] = f[i - 1]
      BY <3>1, <3>2
    <3>4. Loop(g)[i] = Loop(f)[i]
      BY <2>2, <2>4, <3>3
    <3>. QED  BY <2>1, <2>2, <3>4
  <2>. QED  BY <2>3, <2>4
<1>9. n \in 0 .. n
  BY <1>1
<1>10. g[n] = f[n] /\ f[n] \in W
  <2>. HIDE DEF W
  <2>. QED  BY <1>8, <1>9
<1>. QED  BY <1>7, <1>10 DEF g

(***************************************************************************)
(* ResultsFollowEvents is not inductive: between two chunks it does not    *)
(* say where the loop stands.  The invariant ties what is reported to the  *)
(* loop variable: the first at - 1 eligible events, or all of them.        *)
(***************************************************************************)
InHand == {"asleep", "posting", "reading", "writing", "reporting"}

Passed(d) == IF d.at <= Len(d.eligible) THEN d.at - 1 ELSE Len(d.eligible)

FollowsSoFar(d) ==
  /\ d.eligible \in Seq(AppEvent) /\ d.at \in Nat \ {0}
  /\ d.results \in Seq(ChunkResult)
  /\ EventsOf(d.results) = SubSeq(d.eligible, 1, Passed(d))

Follows(d) ==
  /\ FollowsSoFar(d)
  /\ d.pc \in InHand => d.at <= Len(d.eligible)
  /\ d.pc = "done" => d.at > Len(d.eligible)
  /\ d.pc \in {"idle", "listing", "listed"} =>
       d.eligible = <<>> /\ d.at = 1 /\ d.results = <<>>

FInv == \A c \in Call : Follows(calls[c])

LEMMA MaxOfTwo ==
  ASSUME NEW a \in Int, NEW b \in Int
  PROVE  /\ Max({a, b}) \in {a, b} /\ Max({a, b}) >= a /\ Max({a, b}) >= b
         /\ Min({a, b}) \in {a, b} /\ Min({a, b}) <= a /\ Min({a, b}) <= b
<1>1. \E x \in {a, b} : \A y \in {a, b} : x >= y
  OBVIOUS
<1>2. \E x \in {a, b} : \A y \in {a, b} : x <= y
  OBVIOUS
<1>. QED  BY <1>1, <1>2 DEF Max, Min

LEMMA LimitType ==
  ASSUME setup \in Setup
  PROVE  Limit \in Nat \ {0}
<1>1. setup.max_batch_size \in Int /\ MAX_BATCH_SIZE \in Int
  BY BatchAssumption DEF Setup
<1>. DEFINE m == Min({setup.max_batch_size, MAX_BATCH_SIZE})
<1>2. m \in Int
  BY <1>1, MaxOfTwo
<1>. HIDE DEF m
<1>3. Max({1, m}) \in {1, m} /\ Max({1, m}) >= 1
  <2>1. 1 \in Int
    OBVIOUS
  <2>. QED  BY <1>2, <2>1, MaxOfTwo, Zenon
<1>. QED  BY <1>2, <1>3 DEF Limit, m

(***************************************************************************)
(* A chunk is the next slice of the eligible events.                       *)
(***************************************************************************)
ChunkEnd(d) == IF d.at + Limit - 1 <= Len(d.eligible) THEN d.at + Limit - 1 ELSE Len(d.eligible)

LEMMA CarriedIsSlice ==
  ASSUME setup \in Setup, NEW d, d.eligible \in Seq(AppEvent), d.at \in Nat \ {0},
         d.at <= Len(d.eligible)
  PROVE  /\ ChunkEnd(d) \in d.at .. Len(d.eligible)
         /\ Carried(d) = SubSeq(d.eligible, d.at, ChunkEnd(d))
         /\ Carried(d) \in Seq(AppEvent)
<1>1. Limit \in Nat \ {0} /\ d.eligible \in Seq(AppEvent) /\ d.at \in Nat \ {0}
      /\ Len(d.eligible) \in Nat
  BY LimitType
<1>2. ChunkEnd(d) \in d.at .. Len(d.eligible)
  BY <1>1 DEF ChunkEnd
<1>3. Min({d.at + Limit - 1, Len(d.eligible)}) = ChunkEnd(d)
  <2>1. d.at + Limit - 1 \in Int /\ Len(d.eligible) \in Int
    BY <1>1
  <2>. DEFINE m == Min({d.at + Limit - 1, Len(d.eligible)})
  <2>2. m \in {d.at + Limit - 1, Len(d.eligible)} /\ m <= d.at + Limit - 1 /\ m <= Len(d.eligible)
    BY <2>1, MaxOfTwo
  <2>. HIDE DEF m
  <2>3. m = ChunkEnd(d)
    BY <1>1, <2>1, <2>2 DEF ChunkEnd
  <2>. QED  BY <2>3 DEF m
<1>4. Carried(d) = SubSeq(d.eligible, d.at, ChunkEnd(d))
  <2>1. CASE Batched
    BY <1>3, <2>1 DEF Carried, Chunk
  <2>2. CASE ~Batched
    <3>1. Limit = 1 /\ ChunkEnd(d) = d.at
      BY <1>1, <2>2 DEF Batched, ChunkEnd
    <3>2. d.at \in 1 .. Len(d.eligible)
      BY <1>1
    <3>. DEFINE e == d.eligible
                k == d.at
    <3>3. e \in Seq(AppEvent) /\ k \in 1 .. Len(e) /\ k \in k .. Len(e)
          /\ k \in Int /\ k + 1 \in Int /\ k < k + 1
      BY <1>1, <3>2
    <3>. HIDE DEF e, k
    <3>4. SubSeq(e, k, k) = <<e[k]>> \o SubSeq(e, k + 1, k)
      BY <3>3, SubSeqRecursiveFirst
    <3>5. SubSeq(e, k + 1, k) = <<>>
      BY <3>3, SubSeqEmpty
    <3>6. SubSeq(e, k, k) = <<e[k]>>
      <4>1. e[k] \in AppEvent
        BY <3>3
      <4>2. <<e[k]>> \o <<>> = <<e[k]>>
        BY <4>1
      <4>. QED  BY <3>4, <3>5, <4>2
    <3>. QED  BY <2>2, <3>1, <3>6 DEF Carried, e, k
  <2>. QED  BY <2>1, <2>2
<1>5. \A i \in d.at .. ChunkEnd(d) : d.eligible[i] \in AppEvent
  BY <1>1, <1>2
<1>6. SubSeq(d.eligible, d.at, ChunkEnd(d)) \in Seq(AppEvent)
  BY <1>1, <1>2, <1>5, SubSeqProperties
<1>. QED  BY <1>2, <1>4, <1>6

(***************************************************************************)
(* The events of the results so far, and of one result more.               *)
(***************************************************************************)
LEMMA EventsAppend ==
  ASSUME NEW results \in Seq(ChunkResult), NEW o \in ChunkResult
  PROVE  EventsOf(Append(results, o)) = EventsOf(results) \o o.events
<1>. DEFINE es == [i \in DOMAIN results |-> results[i].events]
            fs == [i \in DOMAIN Append(results, o) |-> Append(results, o)[i].events]
            n == Len(results)
<1>1. n \in Nat /\ DOMAIN results = 1 .. n /\ \A i \in 1 .. n : results[i].events \in Seq(AppEvent)
  <2>1. n \in Nat /\ DOMAIN results = 1 .. n /\ \A i \in 1 .. n : results[i] \in ChunkResult
    OBVIOUS
  <2>2. \A x \in ChunkResult : x.events \in Seq(AppEvent)
    BY DEF ChunkResult
  <2>. HIDE DEF n
  <2>. QED  BY <2>1, <2>2
<1>2. o.events \in Seq(AppEvent)
  BY DEF ChunkResult
<1>3. es \in Seq(Seq(AppEvent)) /\ Len(es) = n
  BY <1>1
<1>4. /\ DOMAIN Append(results, o) = 1 .. n + 1
      /\ \A i \in 1 .. n : Append(results, o)[i] = results[i]
      /\ Append(results, o)[n + 1] = o
  BY <1>1
<1>5. fs = Append(es, o.events)
  <2>1. fs \in Seq(Seq(AppEvent)) /\ Len(fs) = n + 1
    BY <1>1, <1>2, <1>4
  <2>2. Append(es, o.events) \in Seq(Seq(AppEvent)) /\ Len(Append(es, o.events)) = n + 1
    BY <1>2, <1>3
  <2>3. \A i \in 1 .. n + 1 : fs[i] = Append(es, o.events)[i]
    BY <1>1, <1>3, <1>4
  <2>. HIDE DEF es, fs, n
  <2>. QED  BY <2>1, <2>2, <2>3
<1>. HIDE DEF es, fs
<1>6. FlattenSeq(fs) = FlattenSeq(es) \o o.events
  BY <1>2, <1>3, <1>5, FlattenAppend
<1>. QED  BY <1>6 DEF EventsOf, es, fs

LEMMA NoEvents == EventsOf(<<>>) = <<>>
<1>1. [i \in DOMAIN <<>> |-> <<>>[i].events] = <<>>
  OBVIOUS
<1>2. FlattenSeq(<<>>) = <<>>
  BY DEF FlattenSeq
<1>. QED  BY <1>1, <1>2 DEF EventsOf

LEMMA ReportFollows ==
  ASSUME setup \in Setup, NEW d, Shaped(d), FollowsSoFar(d), d.at <= Len(d.eligible),
         NEW outcome \in {"delivered", "failed", "aborted"}
  PROVE  Follows(Report(d, outcome))
<1>. DEFINE r == Report(d, outcome)
            o == OutcomeFor(d, outcome)
            e == d.eligible
            m == ChunkEnd(d)
<1>1. r.pc = "next" /\ r.eligible = e /\ r.at = d.at + Limit /\ r.results = Append(d.results, o)
  BY DEF Shaped, Report
<1>2. /\ m \in d.at .. Len(e) /\ Carried(d) = SubSeq(e, d.at, m)
      /\ Carried(d) \in Seq(AppEvent)
  BY CarriedIsSlice DEF FollowsSoFar
<1>3. e \in Seq(AppEvent) /\ d.at \in Nat \ {0} /\ d.results \in Seq(ChunkResult)
      /\ Len(e) \in Nat /\ Limit \in Nat \ {0}
      /\ EventsOf(d.results) = SubSeq(e, 1, d.at - 1)
  BY LimitType DEF FollowsSoFar, Passed
<1>4. o \in ChunkResult /\ o.events = Carried(d)
  BY <1>2 DEF OutcomeFor, ChunkResult
<1>5. r.results \in Seq(ChunkResult)
  BY <1>1, <1>3, <1>4
<1>6. EventsOf(r.results) = SubSeq(e, 1, d.at - 1) \o SubSeq(e, d.at, m)
  <2>. HIDE DEF o, r, e
  <2>. QED  BY <1>1, <1>2, <1>3, <1>4, EventsAppend
<1>7. SubSeq(e, 1, d.at - 1) \o SubSeq(e, d.at, m) = SubSeq(e, 1, m)
  <2>. DEFINE k == d.at - 1
  <2>1. k \in 0 .. Len(e) /\ m \in k .. Len(e) /\ k + 1 = d.at /\ 1 \in 1 .. Len(e) + 1
    BY <1>2, <1>3
  <2>2. SubSeq(e, 1, k) \o SubSeq(e, k + 1, m) = SubSeq(e, 1, m)
    <3>. HIDE DEF e, m, k
    <3>. QED  BY <1>3, <2>1, ConcatAdjacentSubSeq
  <2>. QED  BY <2>1, <2>2
<1>8. Passed(r) = m
  <2>1. Passed(r) = IF d.at + Limit <= Len(e) THEN d.at + Limit - 1 ELSE Len(e)
    <3>. HIDE DEF r, m, e
    <3>. QED  BY <1>1, <1>3 DEF Passed
  <2>2. m = IF d.at + Limit - 1 <= Len(e) THEN d.at + Limit - 1 ELSE Len(e)
    BY DEF ChunkEnd
  <2>. HIDE DEF r, m, e
  <2>. QED  BY <1>3, <2>1, <2>2
<1>9. r.at \in Nat \ {0}
  BY <1>1, <1>3
<1>. HIDE DEF r, m
<1>10. Follows(r)
  BY <1>1, <1>3, <1>5, <1>6, <1>7, <1>8, <1>9 DEF Follows, FollowsSoFar, InHand
<1>. QED  BY <1>10 DEF r

LEMMA SameFollows ==
  ASSUME NEW d, NEW a, FollowsSoFar(d),
         a.eligible = d.eligible, a.at = d.at, a.results = d.results
  PROVE  FollowsSoFar(a)
BY DEF FollowsSoFar, Passed

LEMMA AttemptFollows ==
  ASSUME setup \in Setup, NEW d, Shaped(d), FollowsSoFar(d), d.at <= Len(d.eligible)
  PROVE  Follows(AttemptOrAbort(d))
<1>1. CASE stopped
  BY <1>1, ReportFollows DEF AttemptOrAbort
<1>2. CASE ~stopped
  <2>. DEFINE a == [d EXCEPT !.pc = "posting"]
  <2>1. /\ a.results = d.results /\ a.eligible = d.eligible /\ a.at = d.at /\ a.pc = "posting"
    BY DEF Shaped
  <2>. HIDE DEF a
  <2>2. Follows(a)
    BY <2>1, SameFollows DEF Follows
  <2>. QED  BY <1>2, <2>2 DEF AttemptOrAbort, a
<1>. QED  BY <1>1, <1>2

LEMMA LoopFollows ==
  ASSUME setup \in Setup, NEW d, Shaped(d), FollowsSoFar(d), d.at <= Len(d.eligible), NEW n
  PROVE  Follows(EnterLoop(d, n))
<1>1. CASE n > MaxAttempts
  <2>. DEFINE a == [d EXCEPT !.pc = "reading", !.won = FALSE]
  <2>1. a.results = d.results /\ a.eligible = d.eligible /\ a.at = d.at /\ a.pc = "reading"
    BY DEF Shaped
  <2>. HIDE DEF a
  <2>2. Follows(a)
    BY <2>1, SameFollows DEF Follows
  <2>. QED  BY <1>1, <2>2 DEF EnterLoop, a
<1>2. CASE ~(n > MaxAttempts) /\ RetrySchedule[n] > 0
  <2>. DEFINE a == [d EXCEPT !.pc = "asleep", !.attempt = n]
  <2>1. a.results = d.results /\ a.eligible = d.eligible /\ a.at = d.at /\ a.pc = "asleep"
    BY DEF Shaped
  <2>. HIDE DEF a
  <2>2. Follows(a)
    BY <2>1, SameFollows DEF Follows
  <2>. QED  BY <1>2, <2>2 DEF EnterLoop, a
<1>3. CASE ~(n > MaxAttempts) /\ ~(RetrySchedule[n] > 0)
  <2>. DEFINE a == [d EXCEPT !.attempt = n]
  <2>1. /\ a.results = d.results /\ a.eligible = d.eligible /\ a.at = d.at
        /\ a \in [pc : Begun \cup {"idle", "listing", "listed"}, sub : {a.sub},
                  eligible : {a.eligible}, at : {a.at}, attempt : {a.attempt}, won : BOOLEAN,
                  seen : {a.seen}, results : {a.results}]
    BY DEF Shaped
  <2>2. Shaped(a)
    BY <2>1 DEF Shaped
  <2>3. EnterLoop(d, n) = AttemptOrAbort(a)
    BY <1>3 DEF EnterLoop
  <2>. HIDE DEF a
  <2>. QED  BY <2>1, <2>2, <2>3, SameFollows, AttemptFollows
<1>. QED  BY <1>1, <1>2, <1>3

LEMMA AdvanceFollows ==
  ASSUME IInv, FInv, NEW c \in Call, NEW a, NEW rest, Advance(c, a, rest), Follows(a)
  PROVE  FInv'
BY DEF IInv, FInv, Advance

(***************************************************************************)
(* Every step of dispatchBatch keeps the results at the loop's place.      *)
(***************************************************************************)
LEMMA BatchFollows ==
  ASSUME IInv, FInv, NEW c \in Call, DispatchBatch(c) \/ BatchStep(c)
  PROVE  FInv'
<1>. DEFINE d == calls[c]
<1>1. Shaped(d) /\ Follows(d) /\ setup \in Setup
  BY DEF IInv, FInv
<1>2. FollowsSoFar(d) /\ Len(d.eligible) \in Nat /\ d.at \in Nat \ {0}
  BY <1>1 DEF Follows, FollowsSoFar
<1>3. d.pc \in InHand => d.at <= Len(d.eligible)
  BY <1>1 DEF Follows
<1>4. CASE DispatchBatch(c)
  <2>. DEFINE a == [d EXCEPT !.pc = IF setup.batch_of[c] = <<>> THEN "done" ELSE "listing"]
  <2>1. Advance(c, a, wire) /\ d.pc = "idle"
    BY <1>4 DEF DispatchBatch
  <2>2. /\ a.pc \in {"listing", "done"} /\ a.eligible = d.eligible /\ a.at = d.at
        /\ a.results = d.results
    BY <1>1 DEF Shaped
  <2>3. d.eligible = <<>> /\ d.at = 1 /\ d.results = <<>> /\ Len(d.eligible) = 0
    BY <1>1, <2>1 DEF Follows
  <2>. HIDE DEF a, d
  <2>4. Follows(a)
    BY <1>2, <2>2, <2>3, SameFollows DEF Follows, InHand
  <2>. QED  BY <2>1, <2>4, AdvanceFollows
<1>5. CASE ListSubscription(c)
  <2>1. PICK a : /\ Advance(c, a, wire) /\ d.pc = "listing"
                 /\ \/ a = [d EXCEPT !.pc = "listed", !.sub = table[Addressee]]
                    \/ a = [d EXCEPT !.pc = "done"]
    BY <1>5 DEF ListSubscription
  <2>2. /\ a.pc \in {"listed", "done"} /\ a.eligible = d.eligible /\ a.at = d.at
        /\ a.results = d.results
    BY <1>1, <2>1 DEF Shaped
  <2>3. d.eligible = <<>> /\ d.at = 1 /\ d.results = <<>> /\ Len(d.eligible) = 0
    BY <1>1, <2>1 DEF Follows
  <2>. HIDE DEF d
  <2>4. Follows(a)
    BY <1>2, <2>2, <2>3, SameFollows DEF Follows, InHand
  <2>. QED  BY <2>1, <2>4, AdvanceFollows
<1>6. CASE SelectEligible(c)
  <2>. DEFINE e == Eligible(setup.batch_of[c], d.sub)
              a == [d EXCEPT !.pc = "next", !.eligible = e]
  <2>1. Advance(c, a, wire) /\ d.pc = "listed"
    BY <1>6 DEF SelectEligible
  <2>2. setup.batch_of[c] \in Seq(AppEvent)
    BY <1>1 DEF Setup
  <2>3. e \in Seq(AppEvent)
    BY <2>2, EligibleType
  <2>. HIDE DEF e
  <2>4. a.pc = "next" /\ a.eligible = e /\ a.at = d.at /\ a.results = d.results
    BY <1>1 DEF Shaped
  <2>5. d.at = 1 /\ d.results = <<>>
    BY <1>1, <2>1 DEF Follows
  <2>. HIDE DEF a, d
  <2>6. Passed(a) = 0
    BY <2>3, <2>4, <2>5 DEF Passed
  <2>7. SubSeq(e, 1, 0) = <<>>
    BY SubSeqEmpty
  <2>8. <<>> \in Seq(ChunkResult)
    OBVIOUS
  <2>9. FollowsSoFar(a)
    <3>1. EventsOf(a.results) = SubSeq(a.eligible, 1, Passed(a))
      BY <2>4, <2>5, <2>6, <2>7, NoEvents, Zenon
    <3>2. a.eligible \in Seq(AppEvent) /\ a.at \in Nat \ {0} /\ a.results \in Seq(ChunkResult)
      BY <2>3, <2>4, <2>5, <2>8
    <3>. QED  BY <3>1, <3>2 DEF FollowsSoFar
  <2>10. Follows(a)
    BY <2>4, <2>9 DEF Follows, InHand
  <2>. QED  BY <2>1, <2>10, AdvanceFollows
<1>7. CASE NextChunk(c)
  <2>1. CASE d.at > Len(d.eligible)
    <3>. DEFINE a == [d EXCEPT !.pc = "done"]
    <3>1. Advance(c, a, wire)
      BY <1>7, <2>1 DEF NextChunk
    <3>2. a.pc = "done" /\ a.eligible = d.eligible /\ a.at = d.at /\ a.results = d.results
      BY <1>1 DEF Shaped
    <3>. HIDE DEF a, d
    <3>3. Follows(a)
      BY <1>2, <2>1, <3>2, SameFollows DEF Follows, InHand
    <3>. QED  BY <3>1, <3>3, AdvanceFollows
  <2>2. CASE ~(d.at > Len(d.eligible))
    <3>1. Advance(c, EnterLoop(d, 1), wire)
      BY <1>7, <2>2 DEF NextChunk
    <3>. HIDE DEF d
    <3>2. d.at <= Len(d.eligible)
      BY <1>2, <2>2
    <3>. QED  BY <1>1, <1>2, <3>1, <3>2, LoopFollows, AdvanceFollows
  <2>. QED  BY <2>1, <2>2
<1>8. CASE Wake(c)
  <2>1. Advance(c, AttemptOrAbort(d), wire) /\ d.pc \in InHand
    BY <1>8 DEF Wake, InHand
  <2>. HIDE DEF d
  <2>. QED  BY <1>1, <1>2, <1>3, <2>1, AttemptFollows, AdvanceFollows
<1>9. CASE TimeOut(c)
  <2>1. d.pc \in InHand /\ \E rest : Advance(c, EnterLoop(d, d.attempt + 1), rest)
    BY <1>9 DEF TimeOut, AfterAttempt, InHand
  <2>. HIDE DEF d
  <2>. QED  BY <1>1, <1>2, <1>3, <2>1, LoopFollows, AdvanceFollows
<1>10. d.pc \in InHand => Follows(Report(d, OutcomeOf(d)))
  <2>. HIDE DEF d
  <2>1. OutcomeOf(d) \in {"delivered", "failed", "aborted"}
    BY DEF OutcomeOf
  <2>. QED  BY <1>1, <1>2, <1>3, <2>1, ReportFollows
<1>11. CASE ReadRecord(c)
  <2>1. d.pc \in InHand
    BY <1>11 DEF ReadRecord, InHand
  <2>2. CASE Advance(c, Report(d, OutcomeOf(d)), wire)
    <3>. HIDE DEF d
    <3>. QED  BY <1>10, <2>1, <2>2, AdvanceFollows
  <2>3. ASSUME NEW n, Advance(c, [d EXCEPT !.pc = "writing", !.seen = n], wire) PROVE FInv'
    <3>. DEFINE a == [d EXCEPT !.pc = "writing", !.seen = n]
    <3>1. a.pc = "writing" /\ a.eligible = d.eligible /\ a.at = d.at /\ a.results = d.results
      BY <1>1 DEF Shaped
    <3>2. Advance(c, a, wire)
      BY <2>3
    <3>. HIDE DEF a, d
    <3>3. Follows(a)
      BY <1>2, <1>3, <2>1, <3>1, SameFollows DEF Follows
    <3>. QED  BY <3>2, <3>3, AdvanceFollows
  <2>. QED  BY <1>11, <2>2, <2>3 DEF ReadRecord
<1>12. CASE WriteRecord(c)
  <2>. DEFINE a == [d EXCEPT !.pc = "reporting", !.seen = 0]
  <2>1. Advance(c, a, wire) /\ d.pc \in InHand
    BY <1>12 DEF WriteRecord, InHand
  <2>2. a.pc = "reporting" /\ a.eligible = d.eligible /\ a.at = d.at /\ a.results = d.results
    BY <1>1 DEF Shaped
  <2>. HIDE DEF a, d
  <2>3. Follows(a)
    BY <1>2, <1>3, <2>1, <2>2, SameFollows DEF Follows
  <2>. QED  BY <2>1, <2>3, AdvanceFollows
<1>13. CASE ReportChunk(c)
  <2>1. d.pc \in InHand /\ Advance(c, Report(d, OutcomeOf(d)), wire)
    BY <1>13 DEF ReportChunk, InHand
  <2>. HIDE DEF d
  <2>. QED  BY <1>10, <2>1, AdvanceFollows
<1>. QED
  BY <1>4, <1>5, <1>6, <1>7, <1>8, <1>9, <1>11, <1>12, <1>13 DEF BatchStep

LEMMA ReceiveFollows ==
  ASSUME IInv, FInv, NEW m \in wire, Receive(m)
  PROVE  FInv'
<1>1. CASE UNCHANGED calls
  BY <1>1 DEF FInv
<1>2. CASE \E rest : /\ IsCurrent(m)
                     /\ Advance(m.call, AfterAttempt(calls[m.call], Respond(m).ok), rest)
  <2>. DEFINE d == calls[m.call]
  <2>1. PICK rest : Advance(m.call, AfterAttempt(d, Respond(m).ok), rest)
    BY <1>2
  <2>2. m.call \in Call
    BY DEF IInv, OnTheWire
  <2>3. Shaped(d) /\ Follows(d) /\ setup \in Setup
    BY <2>2 DEF IInv, FInv
  <2>4. FollowsSoFar(d) /\ d.at <= Len(d.eligible)
    BY <1>2, <2>3 DEF Follows, InHand, IsCurrent
  <2>5. Follows(AfterAttempt(d, Respond(m).ok))
    <3>1. CASE Respond(m).ok
      <4>. DEFINE a == [d EXCEPT !.pc = "reading", !.won = TRUE]
      <4>1. a.pc = "reading" /\ a.eligible = d.eligible /\ a.at = d.at /\ a.results = d.results
        BY <2>3 DEF Shaped
      <4>. HIDE DEF a, d
      <4>2. Follows(a)
        BY <2>4, <4>1, SameFollows DEF Follows
      <4>. QED  BY <3>1, <4>2 DEF AfterAttempt, a
    <3>2. CASE ~Respond(m).ok
      <4>. HIDE DEF d
      <4>. QED  BY <2>3, <2>4, <3>2, LoopFollows DEF AfterAttempt
    <3>. QED  BY <3>1, <3>2
  <2>. HIDE DEF d
  <2>. QED  BY <2>1, <2>2, <2>5, AdvanceFollows
<1>. QED  BY <1>1, <1>2 DEF Receive

LEMMA InitFollows == Init => FInv
<1>. SUFFICES ASSUME Init, NEW c \in Call PROVE Follows(calls[c])
  BY DEF FInv
<1>. DEFINE d == calls[c]
<1>1. d = NoCall
  BY DEF Init, BatchInit
<1>2. d.pc = "idle" /\ d.eligible = <<>> /\ d.at = 1 /\ d.results = <<>>
  BY <1>1 DEF NoCall
<1>. HIDE DEF d
<1>3. Passed(d) = 0
  BY <1>2 DEF Passed
<1>4. SubSeq(<<>>, 1, 0) = <<>>
  BY SubSeqEmpty
<1>5. <<>> \in Seq(ChunkResult) /\ <<>> \in Seq(AppEvent)
  OBVIOUS
<1>6. FollowsSoFar(d)
  <2>1. EventsOf(d.results) = SubSeq(d.eligible, 1, Passed(d))
    BY <1>2, <1>3, <1>4, NoEvents, Zenon
  <2>2. d.eligible \in Seq(AppEvent) /\ d.at \in Nat \ {0} /\ d.results \in Seq(ChunkResult)
    BY <1>2, <1>5
  <2>. QED  BY <2>1, <2>2 DEF FollowsSoFar
<1>7. Follows(d)
  BY <1>2, <1>6 DEF Follows, InHand
<1>. QED  BY <1>7 DEF d

LEMMA NextFollows ==
  ASSUME IInv, FInv, [Next]_vars
  PROVE  FInv'
<1>1. CASE UNCHANGED calls
  BY <1>1 DEF FInv
<1>2. CASE Dispatching
  BY <1>2, BatchFollows DEF Dispatching
<1>3. ASSUME NEW m \in wire, Receive(m) \/ Alter(m)
      PROVE  FInv'
  BY <1>1, <1>3, ReceiveFollows DEF Alter
<1>. QED
  BY <1>1, <1>2, <1>3 DEF Next, vars, Unsubscribe, Shutdown, Stop, Restart, Clock

LEMMA FollowsImplied ==
  ASSUME FInv
  PROVE  ResultsFollowEvents
<1>. SUFFICES ASSUME NEW c \in Call
              PROVE  LET reported == EventsOf(calls[c].results)
                     IN /\ reported = SubSeq(calls[c].eligible, 1, Len(reported))
                        /\ calls[c].pc = "done" => reported = calls[c].eligible
  BY DEF ResultsFollowEvents
<1>. DEFINE e == calls[c].eligible
            k == Passed(calls[c])
            reported == EventsOf(calls[c].results)
<1>1. /\ e \in Seq(AppEvent) /\ calls[c].at \in Nat \ {0} /\ reported = SubSeq(e, 1, k)
      /\ calls[c].pc = "done" => calls[c].at > Len(e)
  BY DEF FInv, Follows, FollowsSoFar
<1>2. Len(e) \in Nat /\ k \in 0 .. Len(e)
  BY <1>1 DEF Passed
<1>3. calls[c].pc = "done" => k = Len(e)
  BY <1>1, <1>2 DEF Passed
<1>. HIDE DEF e, k, reported
<1>4. \A i \in 1 .. k : e[i] \in AppEvent
  BY <1>1, <1>2
<1>5. Len(SubSeq(e, 1, k)) = k
  BY <1>1, <1>2, <1>4, SubSeqProperties
<1>6. SubSeq(e, 1, Len(e)) = e
  BY <1>1, SubSeqFull
<1>7. /\ reported = SubSeq(e, 1, Len(reported))
      /\ calls[c].pc = "done" => reported = e
  BY <1>1, <1>3, <1>5, <1>6
<1>. QED  BY <1>7 DEF e, reported

(***************************************************************************)
(* dispatchBatch reports every eligible event once and in order, for every *)
(* batch size, schedule, answer of the receiver, stop and deletion.        *)
(***************************************************************************)
THEOREM ResultsAreInOrder == Spec => []ResultsFollowEvents
<1>1. IInv /\ FInv /\ [Next]_vars => FInv'
  BY NextFollows
<1>2. FInv => ResultsFollowEvents
  BY FollowsImplied
<1>. QED  BY <1>1, <1>2, InitFollows, AlwaysIInv, PTL DEF Spec
-----------------------------------------------------------------------------
(***************************************************************************)
(* How a call goes on.  Its stages, and within the loop over chunks the    *)
(* steps that the chunk in hand can still take: two for every attempt of   *)
(* the schedule, and the three that record its outcome.                     *)
(***************************************************************************)
CallStage(d) ==
  CASE d.pc = "idle" -> 0
    [] d.pc = "listing" -> 1
    [] d.pc = "listed" -> 2
    [] d.pc = "done" -> 4
    [] OTHER -> 3

ChunkSteps(d) ==
  CASE d.pc = "reporting" -> 1
    [] d.pc = "writing" -> 2
    [] d.pc = "reading" -> 3
    [] d.pc = "posting" -> 2 * (MaxAttempts - d.attempt) + 4
    [] d.pc = "asleep" -> 2 * (MaxAttempts - d.attempt) + 5
    [] OTHER -> 2 * MaxAttempts + 4

(***************************************************************************)
(* A call enters a later stage, or passes a chunk, or has fewer steps to   *)
(* take for the chunk in hand.  Stages, chunks and steps are bounded, so a *)
(* call can move on only so often.                                         *)
(***************************************************************************)
MovesOn(d, a) ==
  \/ CallStage(d) < CallStage(a)
  \/ /\ CallStage(d) = 3 /\ CallStage(a) = 3 /\ a.eligible = d.eligible
     /\ \/ d.at <= Len(d.eligible) /\ a.at = d.at + Limit
        \/ a.at = d.at /\ ChunkSteps(a) \in 1 .. ChunkSteps(d) - 1

CallsRunDown ==
  [][\A c \in Call : calls'[c] # calls[c] => MovesOn(calls[c], calls'[c])]_vars

(***************************************************************************)
(* A result is reported once, for the chunk in hand, and never revised;    *)
(* "delivered" is what an attempt won, "aborted" says that the dispatcher  *)
(* was stopped, and "failed" that every attempt of the schedule was made.  *)
(***************************************************************************)
Justified(d, outcome) ==
  \/ outcome = "delivered" /\ d.won
  \/ outcome = "failed" /\ ~d.won /\ d.attempt = MaxAttempts
  \/ outcome = "aborted" /\ stopped

Explained(d, a) ==
  \/ a.results = d.results /\ a.at = d.at
  \/ \E outcome \in {"delivered", "failed", "aborted"} :
       /\ a.results = Append(d.results, OutcomeFor(d, outcome))
       /\ a.at = d.at + Limit
       /\ Justified(d, outcome)

ReportedForGood ==
  [][\A c \in Call : Explained(calls[c], calls'[c])]_vars

(***************************************************************************)
(* Without success, the outcome is recorded after the last attempt only.   *)
(***************************************************************************)
UsedUp(d) ==
  d.pc \in {"reading", "writing", "reporting"} /\ ~d.won => d.attempt = MaxAttempts

TInv ==
  /\ calls \in [Call -> CallState]
  /\ \A c \in Call : UsedUp(calls[c])

GoesTo(d, a) == a \in CallState /\ UsedUp(a) /\ MovesOn(d, a) /\ Explained(d, a)
(***************************************************************************)
(* A chunk that was in hand is reported.                                   *)
(***************************************************************************)
LEMMA ReportGoes ==
  ASSUME setup \in Setup, NEW d \in CallState, NEW x \in CallState,
         CallStage(d) = 3, d.at <= Len(d.eligible),
         x.eligible = d.eligible, x.at = d.at, x.results = d.results,
         NEW outcome \in {"delivered", "failed", "aborted"}, Justified(d, outcome)
  PROVE  GoesTo(d, Report(x, outcome))
<1>. DEFINE a == Report(x, outcome)
            o == OutcomeFor(d, outcome)
<1>1. Limit \in Nat \ {0} /\ MaxAttempts \in Nat \ {0} /\ 1 \in 1 .. MaxAttempts
  BY LimitType, BatchAssumption DEF MaxAttempts
<1>2. OutcomeFor(x, outcome) = o /\ Carried(d) \in Seq(AppEvent)
  <2>1. Carried(x) = Carried(d)
    BY DEF Carried, Chunk
  <2>2. d.eligible \in Seq(AppEvent) /\ d.at \in Nat \ {0}
    BY DEF CallState
  <2>3. Carried(d) \in Seq(AppEvent)
    BY <2>2, CarriedIsSlice
  <2>. QED  BY <2>1, <2>3 DEF OutcomeFor
<1>3. o \in ChunkResult
  BY <1>2 DEF OutcomeFor, ChunkResult
<1>4. x.results \in Seq(ChunkResult) /\ x.at \in Nat \ {0}
  BY DEF CallState
<1>5. Append(x.results, o) \in Seq(ChunkResult) /\ x.at + Limit \in Nat \ {0}
  <2>. HIDE DEF o
  <2>. QED  BY <1>1, <1>3, <1>4
<1>6. /\ a.pc = "next" /\ a.eligible = x.eligible /\ a.at = x.at + Limit
      /\ a.results = Append(x.results, o)
      /\ a \in [pc : {"next"}, sub : {x.sub}, eligible : {x.eligible}, at : {x.at + Limit},
                attempt : {1}, won : {FALSE}, seen : {0}, results : {Append(x.results, o)}]
  <2>. HIDE DEF o
  <2>. QED  BY <1>2 DEF Report, CallState
<1>. HIDE DEF a, o
<1>7. a \in CallState
  <2>1. x.sub \in SubscriptionRecord /\ x.eligible \in Seq(AppEvent)
    BY DEF CallState
  <2>2. 1 \in 1 .. MaxAttempts /\ 0 \in Nat
    BY <1>1
  <2>. QED  BY <1>4, <1>5, <1>6, <2>1, <2>2 DEF CallState
<1>8. UsedUp(a) /\ CallStage(a) = 3
  BY <1>6 DEF UsedUp, CallStage
<1>9. MovesOn(d, a)
  BY <1>6, <1>8 DEF MovesOn
<1>10. Explained(d, a)
  BY <1>6 DEF Explained, o
<1>. QED  BY <1>7, <1>8, <1>9, <1>10 DEF GoesTo, a

(***************************************************************************)
(* A call goes on with the chunk in hand.                                  *)
(***************************************************************************)
LEMMA InHandGoes ==
  ASSUME NEW d \in CallState, NEW a \in CallState, UsedUp(a),
         CallStage(d) = 3, a.pc \in InHand,
         a.eligible = d.eligible, a.at = d.at, a.results = d.results,
         ChunkSteps(a) < ChunkSteps(d)
  PROVE  GoesTo(d, a)
<1>1. MaxAttempts \in Nat \ {0} /\ a.attempt \in 1 .. MaxAttempts /\ d.attempt \in 1 .. MaxAttempts
  BY BatchAssumption DEF MaxAttempts, CallState
<1>2. ChunkSteps(a) \in Nat \ {0} /\ ChunkSteps(d) \in Nat
  BY <1>1 DEF ChunkSteps
<1>3. ChunkSteps(a) \in 1 .. ChunkSteps(d) - 1
  BY <1>2
<1>4. CallStage(a) = 3
  BY DEF CallStage, InHand
<1>. QED  BY <1>3, <1>4 DEF GoesTo, MovesOn, Explained

(***************************************************************************)
(* Attempt x.attempt begins, unless the dispatcher was stopped.            *)
(***************************************************************************)
LEMMA AttemptGoes ==
  ASSUME setup \in Setup, NEW d \in CallState, NEW x \in CallState,
         CallStage(d) = 3, d.at <= Len(d.eligible),
         x.eligible = d.eligible, x.at = d.at, x.results = d.results,
         2 * (MaxAttempts - x.attempt) + 4 < ChunkSteps(d)
  PROVE  GoesTo(d, AttemptOrAbort(x))
<1>1. CASE stopped
  <2>1. Justified(d, "aborted")
    BY <1>1 DEF Justified
  <2>. QED  BY <1>1, <2>1, ReportGoes DEF AttemptOrAbort
<1>2. CASE ~stopped
  <2>. DEFINE a == [x EXCEPT !.pc = "posting"]
  <2>1. /\ a \in CallState /\ a.pc = "posting" /\ a.attempt = x.attempt
        /\ a.eligible = x.eligible /\ a.at = x.at /\ a.results = x.results
    BY DEF CallState
  <2>2. AttemptOrAbort(x) = a
    BY <1>2 DEF AttemptOrAbort
  <2>. HIDE DEF a
  <2>3. ChunkSteps(a) < ChunkSteps(d) /\ UsedUp(a) /\ a.pc \in InHand
    <3>1. ChunkSteps(a) = 2 * (MaxAttempts - x.attempt) + 4
      BY <2>1 DEF ChunkSteps
    <3>. QED  BY <2>1, <3>1 DEF UsedUp, InHand
  <2>4. GoesTo(d, a)
    BY <2>1, <2>3, InHandGoes
  <2>. QED  BY <2>2, <2>4
<1>. QED  BY <1>1, <1>2

(***************************************************************************)
(* The loop over attempts, entered for the first attempt or for the one    *)
(* after an attempt that failed.                                           *)
(***************************************************************************)
LEMMA LoopGoes ==
  ASSUME setup \in Setup, NEW d \in CallState, d.at <= Len(d.eligible), NEW n,
         \/ d.pc = "next" /\ n = 1
         \/ d.pc = "posting" /\ n = d.attempt + 1
  PROVE  GoesTo(d, EnterLoop(d, n))
<1>1. MaxAttempts \in Nat \ {0} /\ d.attempt \in 1 .. MaxAttempts /\ n \in Nat \ {0}
  BY BatchAssumption DEF MaxAttempts, CallState
<1>2. CallStage(d) = 3
  BY DEF CallStage
<1>3. /\ n <= MaxAttempts => 2 * (MaxAttempts - n) + 5 < ChunkSteps(d)
      /\ 3 < ChunkSteps(d) /\ ChunkSteps(d) \in Nat
  <2>1. CASE d.pc = "next" /\ n = 1
    <3>1. ChunkSteps(d) = 2 * MaxAttempts + 4
      BY <2>1 DEF ChunkSteps
    <3>. QED  BY <1>1, <2>1, <3>1
  <2>2. CASE d.pc = "posting" /\ n = d.attempt + 1
    <3>1. ChunkSteps(d) = 2 * (MaxAttempts - d.attempt) + 4
      BY <2>2 DEF ChunkSteps
    <3>. QED  BY <1>1, <2>2, <3>1
  <2>. QED  BY <2>1, <2>2
<1>4. CASE n > MaxAttempts
  <2>. DEFINE a == [d EXCEPT !.pc = "reading", !.won = FALSE]
  <2>1. /\ a \in CallState /\ a.pc = "reading" /\ a.attempt = d.attempt
        /\ a.eligible = d.eligible /\ a.at = d.at /\ a.results = d.results
    BY DEF CallState
  <2>2. EnterLoop(d, n) = a
    BY <1>4 DEF EnterLoop
  <2>. HIDE DEF a
  <2>3. d.attempt = MaxAttempts
    BY <1>1, <1>4
  <2>4. ChunkSteps(a) < ChunkSteps(d) /\ UsedUp(a) /\ a.pc \in InHand
    <3>1. ChunkSteps(a) = 3
      BY <2>1 DEF ChunkSteps
    <3>. QED  BY <1>3, <2>1, <2>3, <3>1 DEF UsedUp, InHand
  <2>5. GoesTo(d, a)
    BY <1>2, <2>1, <2>4, InHandGoes
  <2>. QED  BY <2>2, <2>5
<1>5. CASE ~(n > MaxAttempts) /\ RetrySchedule[n] > 0
  <2>. DEFINE a == [d EXCEPT !.pc = "asleep", !.attempt = n]
  <2>0. n \in 1 .. MaxAttempts
    BY <1>1, <1>5
  <2>1. /\ a \in CallState /\ a.pc = "asleep" /\ a.attempt = n
        /\ a.eligible = d.eligible /\ a.at = d.at /\ a.results = d.results
    BY <2>0 DEF CallState
  <2>2. EnterLoop(d, n) = a
    BY <1>5 DEF EnterLoop
  <2>. HIDE DEF a
  <2>3. ChunkSteps(a) < ChunkSteps(d) /\ UsedUp(a) /\ a.pc \in InHand
    <3>1. ChunkSteps(a) = 2 * (MaxAttempts - n) + 5
      BY <2>1 DEF ChunkSteps
    <3>. QED  BY <1>1, <1>3, <1>5, <2>1, <3>1 DEF UsedUp, InHand
  <2>4. GoesTo(d, a)
    BY <1>2, <2>1, <2>3, InHandGoes
  <2>. QED  BY <2>2, <2>4
<1>6. CASE ~(n > MaxAttempts) /\ ~(RetrySchedule[n] > 0)
  <2>. DEFINE x == [d EXCEPT !.attempt = n]
  <2>0. n \in 1 .. MaxAttempts
    BY <1>1, <1>6
  <2>1. /\ x \in CallState /\ x.attempt = n
        /\ x.eligible = d.eligible /\ x.at = d.at /\ x.results = d.results
    BY <2>0 DEF CallState
  <2>2. EnterLoop(d, n) = AttemptOrAbort(x)
    BY <1>6 DEF EnterLoop
  <2>. HIDE DEF x
  <2>3. 2 * (MaxAttempts - x.attempt) + 4 < ChunkSteps(d)
    BY <1>1, <1>3, <1>6, <2>1
  <2>4. GoesTo(d, AttemptOrAbort(x))
    BY <1>2, <2>1, <2>3, AttemptGoes
  <2>. QED  BY <2>2, <2>4
<1>. QED  BY <1>4, <1>5, <1>6
(***************************************************************************)
(* Every step of a call goes on from where the call was.                   *)
(***************************************************************************)
LEMMA AdvanceGoes ==
  ASSUME IInv, TInv, NEW c \in Call, NEW a, NEW rest, Advance(c, a, rest), GoesTo(calls[c], a)
  PROVE  \E x \in Call : \E b : calls' = [calls EXCEPT ![x] = b] /\ GoesTo(calls[x], b)
<1>1. calls' = [calls EXCEPT ![c] = a]
  BY DEF Advance
<1>. HIDE DEF GoesTo
<1>. QED  BY <1>1

LEMMA BatchGoes ==
  ASSUME IInv, CInv, FInv, TInv, NEW c \in Call, DispatchBatch(c) \/ BatchStep(c)
  PROVE  \E x \in Call : \E b : calls' = [calls EXCEPT ![x] = b] /\ GoesTo(calls[x], b)
<1>. DEFINE d == calls[c]
<1>1. d \in CallState /\ UsedUp(d) /\ setup \in Setup
  BY DEF IInv, TInv
<1>2. /\ d.at \in Nat \ {0} /\ Len(d.eligible) \in Nat /\ d.won \in BOOLEAN
      /\ MaxAttempts \in Nat \ {0}
  <2>1. d.eligible \in Seq(AppEvent) /\ d.at \in Nat \ {0} /\ d.won \in BOOLEAN
    BY <1>1 DEF CallState
  <2>2. MaxAttempts \in Nat \ {0}
    BY BatchAssumption DEF MaxAttempts
  <2>. HIDE DEF d
  <2>. QED  BY <2>1, <2>2
<1>3. d.pc \in InHand => d.at <= Len(d.eligible)
  BY DEF FInv, Follows
<1>4. IsTable(table)
  BY DEF CInv
<1>5. CASE DispatchBatch(c)
  <2>. DEFINE a == [d EXCEPT !.pc = IF setup.batch_of[c] = <<>> THEN "done" ELSE "listing"]
  <2>1. Advance(c, a, wire) /\ d.pc = "idle"
    BY <1>5 DEF DispatchBatch
  <2>2. /\ a \in CallState /\ a.pc \in {"listing", "done"}
        /\ a.results = d.results /\ a.at = d.at
    BY <1>1 DEF CallState
  <2>. HIDE DEF a, d
  <2>3. GoesTo(d, a)
    BY <2>1, <2>2 DEF GoesTo, UsedUp, MovesOn, CallStage, Explained
  <2>. QED  BY <2>1, <2>3, AdvanceGoes DEF d
<1>6. CASE ListSubscription(c)
  <2>1. PICK a : /\ Advance(c, a, wire) /\ d.pc = "listing"
                 /\ \/ /\ Addressee \in DOMAIN table
                       /\ a = [d EXCEPT !.pc = "listed", !.sub = table[Addressee]]
                    \/ a = [d EXCEPT !.pc = "done"]
    BY <1>6 DEF ListSubscription
  <2>2. Addressee \in DOMAIN table => table[Addressee] \in SubscriptionRecord
    BY <1>4 DEF IsTable
  <2>3. /\ a \in CallState /\ a.pc \in {"listed", "done"}
        /\ a.results = d.results /\ a.at = d.at
    BY <1>1, <2>1, <2>2 DEF CallState
  <2>. HIDE DEF d
  <2>4. GoesTo(d, a)
    BY <2>1, <2>3 DEF GoesTo, UsedUp, MovesOn, CallStage, Explained
  <2>. QED  BY <2>1, <2>4, AdvanceGoes DEF d
<1>7. CASE SelectEligible(c)
  <2>. DEFINE e == Eligible(setup.batch_of[c], d.sub)
              a == [d EXCEPT !.pc = "next", !.eligible = e]
  <2>1. Advance(c, a, wire) /\ d.pc = "listed"
    BY <1>7 DEF SelectEligible
  <2>2. setup.batch_of[c] \in Seq(AppEvent)
    BY <1>1 DEF Setup
  <2>3. e \in Seq(AppEvent)
    BY <2>2, EligibleType
  <2>. HIDE DEF e
  <2>4. a \in CallState /\ a.pc = "next" /\ a.results = d.results /\ a.at = d.at
    BY <1>1, <2>3 DEF CallState
  <2>. HIDE DEF a, d
  <2>5. GoesTo(d, a)
    BY <2>1, <2>4 DEF GoesTo, UsedUp, MovesOn, CallStage, Explained
  <2>. QED  BY <2>1, <2>5, AdvanceGoes DEF d
<1>8. CASE NextChunk(c)
  <2>1. d.pc = "next"
    BY <1>8 DEF NextChunk
  <2>2. CASE d.at > Len(d.eligible)
    <3>. DEFINE a == [d EXCEPT !.pc = "done"]
    <3>1. Advance(c, a, wire)
      BY <1>8, <2>2 DEF NextChunk
    <3>2. a \in CallState /\ a.pc = "done" /\ a.results = d.results /\ a.at = d.at
      BY <1>1 DEF CallState
    <3>. HIDE DEF a, d
    <3>3. GoesTo(d, a)
      BY <2>1, <3>2 DEF GoesTo, UsedUp, MovesOn, CallStage, Explained
    <3>. QED  BY <3>1, <3>3, AdvanceGoes DEF d
  <2>3. CASE ~(d.at > Len(d.eligible))
    <3>1. Advance(c, EnterLoop(d, 1), wire)
      BY <1>8, <2>3 DEF NextChunk
    <3>. HIDE DEF d
    <3>2. d.at <= Len(d.eligible)
      BY <1>2, <2>3
    <3>3. GoesTo(d, EnterLoop(d, 1))
      BY <1>1, <2>1, <3>2, LoopGoes
    <3>. QED  BY <3>1, <3>3, AdvanceGoes DEF d
  <2>. QED  BY <2>2, <2>3
<1>9. CASE Wake(c)
  <2>1. Advance(c, AttemptOrAbort(d), wire) /\ d.pc = "asleep"
    BY <1>9 DEF Wake
  <2>. HIDE DEF d
  <2>2. d.attempt \in 1 .. MaxAttempts
    BY <1>1 DEF CallState
  <2>3. d.at <= Len(d.eligible) /\ CallStage(d) = 3
    BY <1>3, <2>1 DEF InHand, CallStage
  <2>4. ChunkSteps(d) = 2 * (MaxAttempts - d.attempt) + 5
    BY <2>1 DEF ChunkSteps
  <2>5. 2 * (MaxAttempts - d.attempt) + 4 < ChunkSteps(d)
    BY <1>2, <2>2, <2>4
  <2>6. GoesTo(d, AttemptOrAbort(d))
    BY <1>1, <2>3, <2>5, AttemptGoes
  <2>. QED  BY <2>1, <2>6, AdvanceGoes DEF d
<1>10. CASE TimeOut(c)
  <2>1. PICK rest : Advance(c, EnterLoop(d, d.attempt + 1), rest)
    BY <1>10 DEF TimeOut, AfterAttempt
  <2>2. d.pc = "posting"
    BY <1>10 DEF TimeOut
  <2>. HIDE DEF d
  <2>3. d.at <= Len(d.eligible)
    BY <1>3, <2>2 DEF InHand
  <2>4. GoesTo(d, EnterLoop(d, d.attempt + 1))
    BY <1>1, <2>2, <2>3, LoopGoes
  <2>. QED  BY <2>1, <2>4, AdvanceGoes DEF d
<1>11. ASSUME d.pc \in {"reading", "reporting"} PROVE GoesTo(d, Report(d, OutcomeOf(d)))
  <2>. HIDE DEF d
  <2>1. d.at <= Len(d.eligible) /\ CallStage(d) = 3
    BY <1>3, <1>11 DEF InHand, CallStage
  <2>2. Justified(d, OutcomeOf(d)) /\ OutcomeOf(d) \in {"delivered", "failed", "aborted"}
    BY <1>1, <1>2, <1>11 DEF Justified, OutcomeOf, UsedUp
  <2>. QED  BY <1>1, <2>1, <2>2, ReportGoes
<1>12. CASE ReadRecord(c)
  <2>1. d.pc = "reading"
    BY <1>12 DEF ReadRecord
  <2>2. CASE NothingToWrite(d)
    <3>1. Advance(c, Report(d, OutcomeOf(d)), wire)
      BY <1>12, <2>2 DEF ReadRecord
    <3>. HIDE DEF d
    <3>. QED  BY <1>11, <2>1, <3>1, AdvanceGoes DEF d
  <2>3. CASE ~NothingToWrite(d)
    <3>. DEFINE n == table[Addressee].failure_count
                a == [d EXCEPT !.pc = "writing", !.seen = n]
    <3>1. Advance(c, a, wire)
      BY <1>12, <2>3 DEF ReadRecord
    <3>2. n \in Nat
      <4>1. table[Addressee] \in SubscriptionRecord
        BY <1>4, <2>3 DEF NothingToWrite, IsTable
      <4>. QED  BY <4>1 DEF SubscriptionRecord
    <3>. HIDE DEF n
    <3>3. /\ a \in CallState /\ a.pc = "writing" /\ a.won = d.won /\ a.attempt = d.attempt
          /\ a.eligible = d.eligible /\ a.at = d.at /\ a.results = d.results
      BY <1>1, <3>2 DEF CallState
    <3>. HIDE DEF a, d
    <3>4. ChunkSteps(a) < ChunkSteps(d) /\ UsedUp(a) /\ CallStage(d) = 3 /\ a.pc \in InHand
      <4>1. ChunkSteps(a) = 2 /\ ChunkSteps(d) = 3
        BY <2>1, <3>3 DEF ChunkSteps
      <4>. QED  BY <1>1, <2>1, <3>3, <4>1 DEF UsedUp, CallStage, InHand
    <3>5. GoesTo(d, a)
      BY <1>1, <3>3, <3>4, InHandGoes
    <3>. QED  BY <3>1, <3>5, AdvanceGoes DEF d
  <2>. QED  BY <2>2, <2>3
<1>13. CASE WriteRecord(c)
  <2>. DEFINE a == [d EXCEPT !.pc = "reporting", !.seen = 0]
  <2>1. Advance(c, a, wire) /\ d.pc = "writing"
    BY <1>13 DEF WriteRecord
  <2>2. /\ a \in CallState /\ a.pc = "reporting" /\ a.won = d.won /\ a.attempt = d.attempt
        /\ a.eligible = d.eligible /\ a.at = d.at /\ a.results = d.results
    BY <1>1 DEF CallState
  <2>. HIDE DEF a, d
  <2>3. ChunkSteps(a) < ChunkSteps(d) /\ UsedUp(a) /\ CallStage(d) = 3 /\ a.pc \in InHand
    <3>1. ChunkSteps(a) = 1 /\ ChunkSteps(d) = 2
      BY <2>1, <2>2 DEF ChunkSteps
    <3>. QED  BY <1>1, <2>1, <2>2, <3>1 DEF UsedUp, CallStage, InHand
  <2>4. GoesTo(d, a)
    BY <1>1, <2>2, <2>3, InHandGoes
  <2>. QED  BY <2>1, <2>4, AdvanceGoes DEF d
<1>14. CASE ReportChunk(c)
  <2>1. Advance(c, Report(d, OutcomeOf(d)), wire) /\ d.pc = "reporting"
    BY <1>14 DEF ReportChunk
  <2>. HIDE DEF d
  <2>. QED  BY <1>11, <2>1, AdvanceGoes DEF d
<1>. QED
  BY <1>5, <1>6, <1>7, <1>8, <1>9, <1>10, <1>12, <1>13, <1>14 DEF BatchStep

LEMMA ReceiveGoes ==
  ASSUME IInv, FInv, TInv, NEW m \in wire, Receive(m)
  PROVE  \/ UNCHANGED calls
         \/ \E x \in Call : \E b : calls' = [calls EXCEPT ![x] = b] /\ GoesTo(calls[x], b)
<1>. SUFFICES ASSUME ~UNCHANGED calls
              PROVE  \E x \in Call : \E b : calls' = [calls EXCEPT ![x] = b] /\ GoesTo(calls[x], b)
  OBVIOUS
<1>. DEFINE c == m.call
            d == calls[c]
            ok == Respond(m).ok
<1>1. PICK rest : IsCurrent(m) /\ Advance(c, AfterAttempt(d, ok), rest)
  BY DEF Receive
<1>. HIDE DEF ok
<1>2. c \in Call /\ setup \in Setup
  BY DEF IInv, OnTheWire
<1>3. d \in CallState /\ d.pc = "posting" /\ d.at <= Len(d.eligible)
  BY <1>1, <1>2 DEF TInv, IsCurrent, FInv, Follows, InHand
<1>. HIDE DEF d, c
<1>4. CASE ok
  <2>. DEFINE a == [d EXCEPT !.pc = "reading", !.won = TRUE]
  <2>1. /\ a \in CallState /\ a.pc = "reading" /\ a.won = TRUE
        /\ a.eligible = d.eligible /\ a.at = d.at /\ a.results = d.results
    BY <1>3 DEF CallState
  <2>2. AfterAttempt(d, ok) = a
    BY <1>4 DEF AfterAttempt
  <2>. HIDE DEF a
  <2>3. ChunkSteps(a) < ChunkSteps(d) /\ UsedUp(a) /\ CallStage(d) = 3 /\ a.pc \in InHand
    <3>1. ChunkSteps(a) = 3 /\ ChunkSteps(d) = 2 * (MaxAttempts - d.attempt) + 4
      BY <1>3, <2>1 DEF ChunkSteps
    <3>2. d.attempt \in 1 .. MaxAttempts /\ MaxAttempts \in Nat
      BY <1>3, BatchAssumption DEF CallState, MaxAttempts
    <3>3. ChunkSteps(a) < ChunkSteps(d)
      BY <3>1, <3>2
    <3>. QED  BY <1>3, <2>1, <3>3 DEF UsedUp, CallStage, InHand
  <2>4. GoesTo(d, a)
    BY <1>3, <2>1, <2>3, InHandGoes
  <2>. QED  BY <1>1, <1>2, <2>2, <2>4, AdvanceGoes DEF d
<1>5. CASE ~ok
  <2>1. AfterAttempt(d, ok) = EnterLoop(d, d.attempt + 1)
    BY <1>5 DEF AfterAttempt
  <2>2. GoesTo(d, EnterLoop(d, d.attempt + 1))
    BY <1>2, <1>3, LoopGoes
  <2>. QED  BY <1>1, <1>2, <2>1, <2>2, AdvanceGoes DEF d
<1>. QED  BY <1>4, <1>5

LEMMA NextGoes ==
  ASSUME IInv, CInv, FInv, TInv, [Next]_vars
  PROVE  \/ UNCHANGED calls
         \/ \E x \in Call : \E b : calls' = [calls EXCEPT ![x] = b] /\ GoesTo(calls[x], b)
<1>1. CASE Dispatching
  BY <1>1, BatchGoes DEF Dispatching
<1>2. ASSUME NEW m \in wire, Receive(m) \/ Alter(m)
      PROVE  \/ UNCHANGED calls
             \/ \E x \in Call : \E b : calls' = [calls EXCEPT ![x] = b] /\ GoesTo(calls[x], b)
  BY <1>2, ReceiveGoes DEF Alter
<1>. QED
  BY <1>1, <1>2 DEF Next, vars, Unsubscribe, Shutdown, Stop, Restart, Clock

LEMMA NextTyped ==
  ASSUME IInv, CInv, FInv, TInv, [Next]_vars
  PROVE  /\ TInv'
         /\ \A c \in Call : calls'[c] # calls[c] => MovesOn(calls[c], calls'[c])
         /\ \A c \in Call : Explained(calls[c], calls'[c])
<1>1. CASE UNCHANGED calls
  BY <1>1 DEF TInv, Explained
<1>2. ASSUME NEW c \in Call, NEW b, calls' = [calls EXCEPT ![c] = b], GoesTo(calls[c], b)
      PROVE  /\ TInv'
             /\ \A x \in Call : calls'[x] # calls[x] => MovesOn(calls[x], calls'[x])
             /\ \A x \in Call : Explained(calls[x], calls'[x])
  <2>1. calls'[c] = b /\ \A x \in Call : x # c => calls'[x] = calls[x]
    BY <1>2 DEF TInv
  <2>2. calls' \in [Call -> CallState]
    BY <1>2 DEF TInv, GoesTo
  <2>3. \A x \in Call : UsedUp(calls'[x])
    BY <1>2, <2>1 DEF TInv, GoesTo
  <2>4. \A x \in Call : calls'[x] # calls[x] => MovesOn(calls[x], calls'[x])
    BY <1>2, <2>1 DEF GoesTo
  <2>5. \A x \in Call : Explained(calls[x], calls'[x])
    BY <1>2, <2>1 DEF GoesTo, Explained
  <2>6. TInv'
    BY <2>2, <2>3 DEF TInv, UsedUp
  <2>. QED  BY <2>4, <2>5, <2>6
<1>. QED  BY <1>1, <1>2, NextGoes

LEMMA InitTyped == Init => TInv
<1>1. NoCall \in CallState /\ UsedUp(NoCall)
  <2>1. MaxAttempts \in Nat \ {0}
    BY BatchAssumption DEF MaxAttempts
  <2>2. NoRecord \in SubscriptionRecord
    BY DEF NoRecord, SubscriptionRecord, SubscriptionStatus
  <2>3. <<>> \in Seq(AppEvent) /\ <<>> \in Seq(ChunkResult) /\ 1 \in 1 .. MaxAttempts
    BY <2>1
  <2>. QED  BY <2>2, <2>3 DEF NoCall, CallState, UsedUp
<1>. QED  BY <1>1 DEF Init, BatchInit, TInv

LEMMA AlwaysTyped == Spec => [](IInv /\ CInv /\ FInv /\ TInv)
<1>1. IInv /\ IInv' /\ CInv /\ FInv /\ TInv /\ [Next]_vars => CInv' /\ FInv' /\ TInv'
  BY NextKeepsCount, NextFollows, NextTyped
<1>. QED  BY <1>1, InitCounts, InitFollows, InitTyped, AlwaysIInv, PTL DEF Spec

(***************************************************************************)
(* Every step of a dispatchBatch call brings it closer to its return: a    *)
(* later stage, the next chunk, or fewer steps left for the chunk in hand. *)
(* Whatever the receiver answers and whoever stops or deletes, no call can *)
(* go round without end; that its steps are taken is fairness.             *)
(***************************************************************************)
THEOREM CallsRunDownHolds == Spec => CallsRunDown
<1>1. IInv /\ CInv /\ FInv /\ TInv /\ [Next]_vars
      => \A c \in Call : calls'[c] # calls[c] => MovesOn(calls[c], calls'[c])
  BY NextTyped
<1>. QED  BY <1>1, AlwaysTyped, PTL DEF Spec, CallsRunDown

(***************************************************************************)
(* What dispatchBatch will return only grows: one result for the chunk in  *)
(* hand, never revised, "failed" only when the whole schedule was used up  *)
(* and "aborted" only when the dispatcher was stopped.                     *)
(***************************************************************************)
THEOREM ResultsAreFinal == Spec => ReportedForGood
<1>1. IInv /\ CInv /\ FInv /\ TInv /\ [Next]_vars
      => \A c \in Call : Explained(calls[c], calls'[c])
  BY NextTyped
<1>. QED  BY <1>1, AlwaysTyped, PTL DEF Spec, ReportedForGood
-----------------------------------------------------------------------------
(***************************************************************************)
(* The types of what is on the wire and of what the receiver remembers.    *)
(* A receiver looks at the first event of a POST, so every POST has one.   *)
(***************************************************************************)
WInv ==
  /\ stopped \in BOOLEAN /\ faults \in 0 .. MaxFaults
  /\ \A m \in wire : m \in Message /\ Len(m.events) > 0
  /\ receiver.processed \subseteq EventKey /\ receiver.ever \subseteq AppEvent

LEMMA SignatureTyped == Signature \in Seq({"v1", "v1a"})
<1>1. <<"v1">> \in Seq({"v1", "v1a"}) /\ <<"v1a">> \in Seq({"v1", "v1a"})
  OBVIOUS
<1>2. <<"v1">> \o <<"v1a">> \in Seq({"v1", "v1a"})
  BY <1>1
<1>. QED  BY <1>1, <1>2 DEF Signature, sign, signEd25519

LEMMA MessageTyped ==
  ASSUME setup \in Setup, now \in SubId, NEW c \in Call, NEW d \in CallState,
         d.at <= Len(d.eligible)
  PROVE  MessageOf(c, d) \in Message /\ Len(MessageOf(c, d).events) > 0
<1>1. d.eligible \in Seq(AppEvent) /\ d.at \in Nat \ {0} /\ d.attempt \in 1 .. MaxAttempts
  BY DEF CallState
<1>2. Carried(d) \in Seq(AppEvent) /\ Len(Carried(d)) > 0
  <2>1. /\ ChunkEnd(d) \in d.at .. Len(d.eligible)
        /\ Carried(d) = SubSeq(d.eligible, d.at, ChunkEnd(d))
        /\ Carried(d) \in Seq(AppEvent)
    BY <1>1, CarriedIsSlice
  <2>2. \A i \in d.at .. ChunkEnd(d) : d.eligible[i] \in AppEvent
    BY <1>1, <2>1
  <2>3. Len(SubSeq(d.eligible, d.at, ChunkEnd(d))) = ChunkEnd(d) - d.at + 1
    BY <1>1, <2>1, <2>2, SubSeqProperties
  <2>. QED  BY <1>1, <2>1, <2>3
<1>3. FormOf \in Form
  BY DEF FormOf, Form, Setup
<1>4. now \in Nat /\ d.attempt \in Nat \ {0}
  BY <1>1, SubscriptionsAssumption, BatchAssumption DEF SubId, MaxAttempts
<1>. QED  BY <1>1, <1>2, <1>3, <1>4, SignatureTyped DEF MessageOf, Message

(***************************************************************************)
(* Whatever a call does, it only ever adds the POST of its attempt.        *)
(***************************************************************************)
LEMMA BatchAdvances ==
  ASSUME NEW c \in Call, DispatchBatch(c) \/ BatchStep(c)
  PROVE  UNCHANGED stopped /\ \E a : \E rest \in SUBSET wire : Advance(c, a, rest)
<1>1. wire \in SUBSET wire /\ MayRemain(c) \subseteq SUBSET wire
  BY DEF MayRemain
<1>2. CASE TimeOut(c)
  <2>1. PICK rest \in MayRemain(c) : Advance(c, AfterAttempt(calls[c], FALSE), rest)
    BY <1>2 DEF TimeOut
  <2>. QED  BY <1>1, <1>2, <2>1 DEF TimeOut
<1>3. CASE ~TimeOut(c)
  <2>1. UNCHANGED stopped /\ \E a : Advance(c, a, wire)
    BY <1>3 DEF BatchStep, DispatchBatch, ListSubscription, SelectEligible, NextChunk, Wake,
                ReadRecord, WriteRecord, ReportChunk
  <2>. QED  BY <1>1, <2>1
<1>. QED  BY <1>2, <1>3

LEMMA WireTyped ==
  ASSUME IInv, TInv, TInv', FInv', WInv, NEW c \in Call, NEW a,
         NEW rest \in SUBSET wire, Advance(c, a, rest)
  PROVE  \A m \in wire' : m \in Message /\ Len(m.events) > 0
<1>1. calls'[c] = a
  BY DEF Advance, IInv
<1>2. a \in CallState /\ (a.pc = "posting" => a.at <= Len(a.eligible))
  BY <1>1 DEF TInv, FInv, Follows, InHand
<1>3. ASSUME NEW m \in wire' PROVE m \in rest \/ (a.pc = "posting" /\ m = MessageOf(c, a))
  BY <1>3 DEF Advance
<1>4. a.pc = "posting" => MessageOf(c, a) \in Message /\ Len(MessageOf(c, a).events) > 0
  BY <1>2, MessageTyped DEF IInv
<1>. QED  BY <1>3, <1>4 DEF WInv

(***************************************************************************)
(* Every receiver remembers ids and handles events.                        *)
(***************************************************************************)
LEMMA ReplyTyped ==
  ASSUME setup \in Setup, NEW m \in Message, Len(m.events) > 0
  PROVE  Respond(m).remembered \subseteq EventKey /\ Respond(m).handled \subseteq AppEvent
<1>1. m.events \in Seq(AppEvent)
  BY DEF Message
<1>2. m.events[1] \in AppEvent /\ Members(m.events) \subseteq AppEvent
  BY <1>1 DEF Members
<1>3. ReceivedId(m) \in EventKey /\ AppEvent \subseteq EventKey
  BY <1>2 DEF ReceivedId, EventKey
<1>4. setup.receiver \in {"express", "fastapi", "package"}
  BY DEF Setup
<1>. DEFINE Typed(r) == r.remembered \subseteq EventKey /\ r.handled \subseteq AppEvent
<1>5. Typed(Refused) /\ Typed(Duplicate)
  BY DEF Refused, Duplicate, Reply
<1>6. Typed(ExpressReceives(m))
  BY <1>2, <1>3, <1>5 DEF ExpressReceives, Reply
<1>7. Typed(FastApiReceives(m))
  BY <1>2, <1>3, <1>5 DEF FastApiReceives, Reply
<1>8. Typed(PackageReceives(m))
  BY <1>2, <1>3, <1>5 DEF PackageReceives, Reply
<1>. HIDE DEF Typed
<1>9. Typed(Respond(m))
  BY <1>4, <1>6, <1>7, <1>8 DEF Respond
<1>. QED  BY <1>9 DEF Typed

LEMMA NextWired ==
  ASSUME IInv, TInv, TInv', FInv', WInv, [Next]_vars
  PROVE  WInv'
<1>1. CASE Dispatching
  <2>1. PICK c \in Call : DispatchBatch(c) \/ BatchStep(c)
    BY <1>1 DEF Dispatching
  <2>2. UNCHANGED <<receiver, faults>>
    BY <1>1 DEF Dispatching
  <2>3. UNCHANGED stopped /\ \A m \in wire' : m \in Message /\ Len(m.events) > 0
    BY <2>1, BatchAdvances, WireTyped
  <2>. QED  BY <2>2, <2>3 DEF WInv
<1>2. ASSUME NEW m \in wire, Receive(m) PROVE WInv'
  <2>1. m \in Message /\ Len(m.events) > 0 /\ setup \in Setup /\ m.call \in Call
    BY DEF WInv, IInv, OnTheWire
  <2>2. \A x \in wire' : x \in Message /\ Len(x.events) > 0
    <3>1. CASE \E rest \in SUBSET wire : \E a : Advance(m.call, a, rest)
      BY <2>1, <3>1, WireTyped
    <3>2. CASE wire' \subseteq wire
      BY <3>2 DEF WInv
    <3>3. (\E rest \in SUBSET wire : \E a : Advance(m.call, a, rest)) \/ wire' \subseteq wire
      BY <1>2 DEF Receive
    <3>. QED  BY <3>1, <3>2, <3>3
  <2>3. /\ receiver'.processed = receiver.processed \cup Respond(m).remembered
        /\ receiver'.ever = receiver.ever \cup Respond(m).handled
    BY <1>2 DEF Receive, AfterReply, IInv, Remembers
  <2>4. receiver'.processed \subseteq EventKey /\ receiver'.ever \subseteq AppEvent
    BY <2>1, <2>3, ReplyTyped DEF WInv
  <2>. QED  BY <1>2, <2>2, <2>4 DEF WInv, Receive
<1>3. ASSUME NEW m \in wire, Alter(m) PROVE WInv'
  <2>1. m \in Message /\ Len(m.events) > 0
    BY DEF WInv
  <2>2. [m EXCEPT !.intact = FALSE] \in Message /\ [m EXCEPT !.intact = FALSE].events = m.events
    BY <2>1 DEF Message
  <2>3. \A x \in wire' : x \in wire \/ x = [m EXCEPT !.intact = FALSE]
    BY <1>3 DEF Alter
  <2>4. faults' \in 0 .. MaxFaults
    BY <1>3, DeliveryAssumption DEF Alter, Fault, WInv
  <2>. QED  BY <1>3, <2>1, <2>2, <2>3, <2>4 DEF Alter, WInv
<1>4. CASE Unsubscribe \/ Shutdown \/ Restart
  <2>1. faults' \in 0 .. MaxFaults
    BY <1>4, DeliveryAssumption DEF Unsubscribe, Shutdown, Restart, Fault, WInv
  <2>2. stopped' \in BOOLEAN /\ UNCHANGED wire
    BY <1>4 DEF Unsubscribe, Shutdown, Restart, Stop, WInv
  <2>3. receiver'.processed \subseteq EventKey /\ receiver'.ever \subseteq AppEvent
    <3>1. CASE UNCHANGED receiver
      BY <3>1 DEF WInv
    <3>2. CASE ReceiverRestarts
      <4>1. receiver'.processed = {} /\ receiver'.ever = receiver.ever
        BY <3>2 DEF ReceiverRestarts, Fresh
      <4>. QED  BY <4>1 DEF WInv
    <3>. QED  BY <1>4, <3>1, <3>2 DEF Unsubscribe, Shutdown, Restart
  <2>. QED  BY <2>1, <2>2, <2>3 DEF WInv
<1>5. CASE Clock \/ UNCHANGED vars
  BY <1>5 DEF Clock, vars, WInv
<1>. QED  BY <1>1, <1>2, <1>3, <1>4, <1>5 DEF Next

LEMMA InitWired == Init => WInv
<1>. SUFFICES ASSUME Init PROVE WInv
  OBVIOUS
<1>1. stopped = FALSE /\ wire = {} /\ faults = 0
  BY DEF Init, BatchInit
<1>2. receiver.processed = {} /\ receiver.ever = {}
  BY DEF Init, Fresh
<1>3. 0 \in 0 .. MaxFaults
  BY DeliveryAssumption
<1>. QED  BY <1>1, <1>2, <1>3 DEF WInv

LEMMA TypesFollow ==
  ASSUME IInv, CInv, TInv, WInv
  PROVE  TypeOK
<1>1. SubscriptionsTypeOK /\ SetupTypeOK
  BY DEF IInv, CInv, SubscriptionsTypeOK, SetupTypeOK
<1>2. BatchTypeOK
  BY DEF TInv, WInv, BatchTypeOK
<1>3. ReceiverTypeOK
  <2>1. \A e \in AppEvent : receiver.times[e] \in 0 .. 2
    BY DEF IInv, Remembers
  <2>2. receiver.times \in [AppEvent -> 0 .. 2]
    BY <2>1 DEF IInv, Remembers
  <2>. QED  BY <2>2 DEF IInv, WInv, Remembers, ReceiverTypeOK, Receiver
<1>. QED  BY <1>1, <1>2, <1>3 DEF TypeOK, WInv

(***************************************************************************)
(* Every variable keeps its type: a POST on the wire is a message of the   *)
(* call that sent it and never empty, a receiver remembers ids and events. *)
(***************************************************************************)
THEOREM BatchTypeCorrect == Spec => []TypeOK
<1>1. IInv /\ TInv /\ TInv' /\ FInv' /\ WInv /\ [Next]_vars => WInv'
  BY NextWired
<1>2. IInv /\ CInv /\ FInv /\ TInv /\ WInv => TypeOK
  BY TypesFollow
<1>. QED  BY <1>1, <1>2, InitWired, AlwaysTyped, PTL DEF Spec
=============================================================================
