---------------------------- MODULE BatchDispatch ----------------------------
(***************************************************************************)
(* dispatchBatch: the events for one subscription, cut into chunks of its  *)
(* batch size and delivered one chunk after the other, each with the whole *)
(* retry schedule, all on the record that was listed at the start.         *)
(*                                                                         *)
(*   idle -> listing -> listed -> next -> asleep | posting ... posting     *)
(*        -> reading -> writing -> reporting -> next -> ... -> done        *)
(*                                                                         *)
(* No event store is configured here: WebhookDispatcher has the log.       *)
(***************************************************************************)
EXTENDS SignedMessage, FiniteSetsExt

CONSTANTS RetrySchedule,       \* delay before each attempt; 0 = no await
          PauseAfterFailures,  \* failed chunks that pause
          MAX_BATCH_SIZE,      \* the dispatcher's own limit
          Addressee,           \* the subscription they are for
          MaxLate              \* bound: POSTs that outlive their attempt

ASSUME BatchAssumption ==
  /\ RetrySchedule \in Seq(Nat) /\ RetrySchedule # <<>>
  /\ PauseAfterFailures \in Nat \ {0}
  /\ MAX_BATCH_SIZE \in Nat \ {0}
  /\ Addressee \in SubId
  /\ IsFiniteSet(Call)
  /\ MaxLate \in Nat

MaxAttempts == Len(RetrySchedule)

VARIABLES calls,     \* every dispatchBatch call
          stopped,   \* stop() was called
          wire       \* the POSTs that have not ended yet

batchVars == <<table, calls, stopped, wire>>

\* The results of one chunk: one for each of its events, all the same.
ChunkResult == [events : Seq(AppEvent), outcome : {"delivered", "failed", "aborted"}]

(***************************************************************************)
(* at: the loop variable i, counted from 1; attempt, won and seen as in a  *)
(* single delivery; results: what dispatchBatch will return, by chunk.     *)
(***************************************************************************)
CallState ==
  [pc       : {"idle", "listing", "listed", "next", "asleep", "posting",
               "reading", "writing", "reporting", "done"},
   sub      : SubscriptionRecord,
   eligible : Seq(AppEvent),
   at       : Nat \ {0},
   attempt  : 1 .. MaxAttempts,
   won      : BOOLEAN,
   seen     : Nat,
   results  : Seq(ChunkResult)]

NoRecord == [webhook |-> FALSE, signable |-> FALSE, selects |-> {},
             status |-> "cancelled", failure_count |-> 0,
             expires_at |-> NoLease]

NoCall == [pc |-> "idle", sub |-> NoRecord, eligible |-> <<>>, at |-> 1,
           attempt |-> 1, won |-> FALSE, seen |-> 0, results |-> <<>>]

Limit == Max({1, Min({setup.max_batch_size, MAX_BATCH_SIZE})})

Batched == Limit > 1

SliceTooShort(d) ==                                              \* mutant
  SubSeq(d.eligible, d.at, Min({d.at + Max({Limit - 2, 0}), Len(d.eligible)}))

Chunk(d) == SubSeq(d.eligible, d.at, Min({d.at + Limit - 1, Len(d.eligible)}))

(***************************************************************************)
(* What is delivered together: the chunk, or without batching the one      *)
(* event, which is no array.                                               *)
(***************************************************************************)
Carried(d) == IF Batched THEN Chunk(d) ELSE <<d.eligible[d.at]>>

(***************************************************************************)
(* outcomeFor: one result for each of them, all with the same outcome.     *)
(***************************************************************************)
OutcomeFor(d, outcome) == [events |-> Carried(d), outcome |-> outcome]

Report(d, outcome) ==
  [d EXCEPT !.pc = "next", !.won = FALSE, !.seen = 0, !.attempt = 1,
            !.results = Append(@, OutcomeFor(d, outcome)), !.at = @ + Limit]

AttemptOrAbort(d) ==
  IF stopped THEN Report(d, "aborted") ELSE [d EXCEPT !.pc = "posting"]

EnterLoop(d, n) ==
  IF n > MaxAttempts THEN [d EXCEPT !.pc = "reading", !.won = FALSE]
  ELSE IF RetrySchedule[n] > 0 THEN [d EXCEPT !.pc = "asleep", !.attempt = n]
  ELSE AttemptOrAbort([d EXCEPT !.attempt = n])

FormOf == IF Batched THEN "batch" ELSE setup.format

(***************************************************************************)
(* attemptDelivery renders and signs anew for every attempt.               *)
(***************************************************************************)
MessageOf(c, d) ==
  [call |-> c, at |-> d.at, attempt |-> d.attempt, events |-> Carried(d),
   form |-> FormOf, timestamp |-> now, tokens |-> Signature, intact |-> TRUE]

IsCurrent(m) ==
  /\ calls[m.call].pc = "posting"
  /\ calls[m.call].at = m.at
  /\ calls[m.call].attempt = m.attempt

Late(msgs) == {m \in msgs : ~IsCurrent(m)'}

(***************************************************************************)
(* Call c goes on as d.  Reaching "posting" is calling fetch: the message  *)
(* is on the wire, unless it could not be signed.  "rest" is what else is  *)
(* there; a POST that the publisher gave up on may still arrive.           *)
(***************************************************************************)
Advance(c, d, rest) ==
  /\ calls' = [calls EXCEPT ![c] = d]
  /\ wire' = rest \cup (IF d.pc = "posting" /\ d.sub.signable
                        THEN {MessageOf(c, d)} ELSE {})
  /\ Cardinality(Late(wire')) <= MaxLate

\* What the end of an attempt may leave on the wire: its POST, or not.
MayRemain(c) ==
  {wire, {m \in wire : ~(m.call = c /\ IsCurrent(m))}}

DispatchBatch(c) ==
  /\ calls[c].pc = "idle"
  /\ Advance(c, [calls[c] EXCEPT
                   !.pc = IF setup.batch_of[c] = <<>> THEN "done" ELSE "listing"], wire)
  /\ UNCHANGED <<table, stopped>>

(***************************************************************************)
(* listSubscriptions() resolves; an unknown subscription ends the call.    *)
(***************************************************************************)
ListSubscription(c) ==
  /\ calls[c].pc = "listing"
  /\ Advance(c, IF Addressee \in DOMAIN table
                THEN [calls[c] EXCEPT !.pc = "listed", !.sub = table[Addressee]]
                ELSE [calls[c] EXCEPT !.pc = "done"], wire)
  /\ UNCHANGED <<table, stopped>>

(***************************************************************************)
(* The events this subscription takes, in the order they were given.       *)
(***************************************************************************)
Eligible(events, rec) ==
  LET taken[n \in 0 .. Len(events)] ==
        IF n = 0 THEN <<>>
        ELSE IF IsTarget(Addressee, rec, AppEventOf(events[n]))
             THEN Append(taken[n - 1], events[n]) ELSE taken[n - 1]
  IN taken[Len(events)]

SelectEligible(c) ==
  /\ calls[c].pc = "listed"
  /\ Advance(c, [calls[c] EXCEPT
                   !.pc = "next",
                   !.eligible = Eligible(setup.batch_of[c], calls[c].sub)], wire)
  /\ UNCHANGED <<table, stopped>>

(***************************************************************************)
(* The head of the loop over chunks.                                       *)
(***************************************************************************)
NextChunk(c) ==
  /\ calls[c].pc = "next"
  /\ Advance(c, IF calls[c].at > Len(calls[c].eligible)
                THEN [calls[c] EXCEPT !.pc = "done"]
                ELSE EnterLoop(calls[c], 1), wire)
  /\ UNCHANGED <<table, stopped>>

SleepsForGoodOnceStopped(c) ==                                   \* mutant
  /\ calls[c].pc = "asleep"
  /\ ~stopped
  /\ Advance(c, AttemptOrAbort(calls[c]), wire)
  /\ UNCHANGED <<table, stopped>>

Wake(c) ==
  /\ calls[c].pc = "asleep"
  /\ Advance(c, AttemptOrAbort(calls[c]), wire)
  /\ UNCHANGED <<table, stopped>>

AnyAnswerIsSuccess(d, ok) == [d EXCEPT !.pc = "reading", !.won = TRUE]   \* mutant

(***************************************************************************)
(* An attempt ended with a 2xx or with anything else.                      *)
(***************************************************************************)
AfterAttempt(d, ok) ==
  IF ok THEN [d EXCEPT !.pc = "reading", !.won = TRUE]
        ELSE EnterLoop(d, d.attempt + 1)

\* No answer within the time limit, no connection, nothing to sign with.
TimeOut(c) ==
  /\ calls[c].pc = "posting"
  /\ \E rest \in MayRemain(c) : Advance(c, AfterAttempt(calls[c], FALSE), rest)
  /\ UNCHANGED <<table, stopped>>

NothingToWrite(d) ==
  \/ Addressee \notin DOMAIN table
  \/ d.won /\ table[Addressee].failure_count = 0

OutcomeOf(d) == IF d.won THEN "delivered" ELSE "failed"

ReadRecord(c) ==
  /\ calls[c].pc = "reading"
  /\ Advance(c, IF NothingToWrite(calls[c])
                THEN Report(calls[c], OutcomeOf(calls[c]))
                ELSE [calls[c] EXCEPT !.pc = "writing",
                        !.seen = table[Addressee].failure_count], wire)
  /\ UNCHANGED <<table, stopped>>

CountsEveryEvent(d) ==                                           \* mutant
  LET count == d.seen + Len(Carried(d)) IN
  [table[Addressee] EXCEPT
     !.failure_count = IF d.won THEN 0 ELSE count,
     !.status = IF ~d.won /\ count >= PauseAfterFailures THEN "paused" ELSE @]

(***************************************************************************)
(* recordSuccess and recordFailure: a failed chunk is one failure.         *)
(***************************************************************************)
Recorded(d) ==
  LET count == d.seen + 1 IN
  [table[Addressee] EXCEPT
     !.failure_count = IF d.won THEN 0 ELSE count,
     !.status = IF ~d.won /\ count >= PauseAfterFailures THEN "paused" ELSE @]

WriteRecord(c) ==
  /\ calls[c].pc = "writing"
  /\ IF Addressee \in DOMAIN table
     THEN UpdateSubscription(Addressee, Recorded(calls[c]))
     ELSE UNCHANGED table
  /\ Advance(c, [calls[c] EXCEPT !.pc = "reporting", !.seen = 0], wire)
  /\ UNCHANGED stopped

(***************************************************************************)
(* The update's await returns and the chunk's results are made.            *)
(***************************************************************************)
ReportChunk(c) ==
  /\ calls[c].pc = "reporting"
  /\ Advance(c, Report(calls[c], OutcomeOf(calls[c])), wire)
  /\ UNCHANGED <<table, stopped>>

Stop ==
  /\ ~stopped
  /\ stopped' = TRUE
  /\ UNCHANGED <<table, calls, wire>>

BatchStep(c) ==
  \/ ListSubscription(c) \/ SelectEligible(c) \/ NextChunk(c) \/ Wake(c)
  \/ TimeOut(c) \/ ReadRecord(c) \/ WriteRecord(c) \/ ReportChunk(c)

BatchInit ==
  /\ calls = [c \in Call |-> NoCall]
  /\ stopped = FALSE
  /\ wire = {}

BatchTypeOK ==
  /\ calls \in [Call -> CallState]
  /\ stopped \in BOOLEAN
  /\ wire \subseteq Message
=============================================================================
