---------------------------- MODULE FailureStreak ----------------------------
(***************************************************************************)
(* What a subscriber is promised about failures: deliveries of a           *)
(* subscription end one after the other; the streak counts the failed      *)
(* ones since the last success or resume; the subscription is paused when  *)
(* the streak reaches Threshold, and only then or on request.              *)
(***************************************************************************)
EXTENDS Naturals

CONSTANTS Sub, Threshold

VARIABLES streak,      \* failures in a row: a function on the existing subs
          status,      \* "active" or "paused": likewise
          failed,      \* deliveries on record as failed, per sub
          delivered    \* deliveries on record as delivered, per sub

vars == <<streak, status, failed, delivered>>

Exists(s) == s \in DOMAIN streak

Init ==
  /\ \E S \in SUBSET Sub :
       streak = [s \in S |-> 0] /\ status = [s \in S |-> "active"]
  /\ failed = [s \in Sub |-> 0]
  /\ delivered = [s \in Sub |-> 0]

Fail(s) ==
  /\ failed' = [failed EXCEPT ![s] = @ + 1]
  /\ IF Exists(s)
     THEN /\ streak' = [streak EXCEPT ![s] = @ + 1]
          /\ status' = IF streak[s] + 1 >= Threshold
                       THEN [status EXCEPT ![s] = "paused"] ELSE status
     ELSE UNCHANGED <<streak, status>>
  /\ UNCHANGED delivered

Succeed(s) ==
  /\ delivered' = [delivered EXCEPT ![s] = @ + 1]
  /\ streak' = IF Exists(s) THEN [streak EXCEPT ![s] = 0] ELSE streak
  /\ UNCHANGED <<status, failed>>

Pause(s) ==
  /\ Exists(s)
  /\ status' = [status EXCEPT ![s] = "paused"]
  /\ UNCHANGED <<streak, failed, delivered>>

Resume(s) ==
  /\ Exists(s)
  /\ streak' = [streak EXCEPT ![s] = 0]
  /\ status' = [status EXCEPT ![s] = "active"]
  /\ UNCHANGED <<failed, delivered>>

Cancel(s) ==
  /\ Exists(s)
  /\ streak' = [i \in DOMAIN streak \ {s} |-> streak[i]]
  /\ status' = [i \in DOMAIN status \ {s} |-> status[i]]
  /\ UNCHANGED <<failed, delivered>>

Next == \E s \in Sub : Fail(s) \/ Succeed(s) \/ Pause(s) \/ Resume(s) \/ Cancel(s)

Spec == Init /\ [][Next]_vars
=============================================================================
