--------------------------- MODULE WebhookReceiver ---------------------------
(***************************************************************************)
(* The program behind a subscription's callback_url: the Express and the   *)
(* FastAPI example, and a subscriber that verifies with the signer package *)
(* and goes through a batch envelope by envelope.  A request is handled    *)
(* without an await, so receiving is one step; what the receiver remembers *)
(* lives in its memory and is gone when it restarts.                       *)
(***************************************************************************)
EXTENDS SignedMessage, FiniteSets

CONSTANTS DataId,   \* the "id" member of each event's data, or NoId
          NoId      \* the body has no "id" member

ASSUME ReceiverAssumption ==
  /\ DOMAIN DataId = AppEvent
  /\ NoId \notin AppEvent

VARIABLE receiver   \* see Receiver

EventKey == AppEvent \cup {NoId} \cup {DataId[e] : e \in AppEvent}

(***************************************************************************)
(* processed: the ids it remembers; times: how often each event reached    *)
(* its handler since the start (a second time is as far as we count);      *)
(* ever: the events that reached it at all.                                *)
(***************************************************************************)
Receiver ==
  [processed : SUBSET EventKey,
   times     : [AppEvent -> 0 .. 2],
   ever      : SUBSET AppEvent]

\* What a request leads to: a status, an id remembered, events handled.
Reply(ok, remembered, handled) ==
  [ok |-> ok, remembered |-> remembered, handled |-> handled]

Refused == Reply(FALSE, {}, {})
Duplicate == Reply(TRUE, {}, {})

ReceivedId(m) == IF m.form = "binary" THEN DataId[m.events[1]] ELSE m.events[1]

(***************************************************************************)
(* The Express receiver: express.raw takes application/json only, so the   *)
(* signature of a batch is checked over a body that was never read.        *)
(***************************************************************************)
ExpressVerifies(m) == m.form # "batch" /\ Age(m) <= Tolerance /\ HasHmac(m)

ForgetsToRemember(m) ==                                          \* mutant
  IF ~ExpressVerifies(m) THEN Refused
  ELSE IF ReceivedId(m) \in receiver.processed THEN Duplicate
  ELSE Reply(TRUE, {}, {m.events[1]})

(***************************************************************************)
(* The id is remembered before the handler runs.  Bare data has no type to *)
(* dispatch on: handleEvent throws and Express answers 500.                *)
(***************************************************************************)
ExpressReceives(m) ==
  IF ~ExpressVerifies(m) THEN Refused
  ELSE IF ReceivedId(m) \in receiver.processed THEN Duplicate
  ELSE IF m.form = "binary" THEN Reply(FALSE, {ReceivedId(m)}, {})
  ELSE Reply(TRUE, {ReceivedId(m)}, {m.events[1]})

FastApiVerifies(m) == Age(m) <= Tolerance /\ HasHmac(m)

(***************************************************************************)
(* The FastAPI receiver: an array has no .get, which is a 500; a body with *)
(* no id is a 400; bare data goes to no handler and is answered 200.       *)
(***************************************************************************)
FastApiReceives(m) ==
  IF ~FastApiVerifies(m) \/ m.form = "batch" THEN Refused
  ELSE IF ReceivedId(m) = NoId THEN Refused
  ELSE IF ReceivedId(m) \in receiver.processed THEN Duplicate
  ELSE Reply(TRUE, {ReceivedId(m)},
             IF m.form = "binary" THEN {} ELSE {m.events[1]})

Members(events) == {events[i] : i \in DOMAIN events}

(***************************************************************************)
(* A subscriber of the signer package that keeps the rules for batches:    *)
(* on a retry it discards the events it has and processes the rest.        *)
(***************************************************************************)
PackageReceives(m) ==
  IF ~verifyEEPWebhook(m) THEN Refused
  ELSE Reply(TRUE, Members(m.events), Members(m.events) \ receiver.processed)

Respond(m) ==
  CASE setup.receiver = "express" -> ExpressReceives(m)
    [] setup.receiver = "fastapi" -> FastApiReceives(m)
    [] setup.receiver = "package" -> PackageReceives(m)

\* The receiver after it gave reply r.
AfterReply(r) ==
  [receiver EXCEPT
     !.processed = @ \cup r.remembered,
     !.times = [e \in AppEvent |->
                  IF e \in r.handled /\ @[e] < 2 THEN @[e] + 1 ELSE @[e]],
     !.ever = @ \cup r.handled]

Fresh == [processed |-> {}, times |-> [e \in AppEvent |-> 0],
          ever |-> {}]

ReceiverRestarts == receiver' = [Fresh EXCEPT !.ever = receiver.ever]

ReceiverTypeOK == receiver \in Receiver
=============================================================================
