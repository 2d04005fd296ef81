----------------------------- MODULE GateAccess -----------------------------
(***************************************************************************)
(* resolveAccess: which tier of a gate configuration a set of proofs       *)
(* opens.  Every semantic check is an awaited call of the platform's       *)
(* verifier, whose verdict on a proof may change while the request is      *)
(* resolved; the nested requirements of a combined one are checked         *)
(* concurrently.  A refused request is answered by build402Response.       *)
(*                                                                         *)
(* A requirement is a node of a forest: a leaf of some type, or a combined *)
(* one with nested nodes.  Different tiers use different nodes.            *)
(***************************************************************************)
EXTENDS Naturals, Sequences, FiniteSets

CONSTANTS Requirement,      \* the nodes
          RequirementType,  \* the type of a leaf
          Nested,           \* the nodes below a combined one; {} for a leaf
          CombineMode,      \* "all" or "any"
          TierOrder,        \* the tier keys, in the order of the configuration
          default_tier,
          Configs,          \* the gate configurations considered
          Resources, NoResource,
          Proof,
          ProofType,
          Sound,            \* the proofs that pass validateProofStructure
          Verified,         \* the types that have a verifier
          MaxAccessPatterns,
          MaxChanges        \* bound: verdicts that change

Tier == {TierOrder[i] : i \in DOMAIN TierOrder}

Leaf == {r \in Requirement : Nested[r] = {}}

Pairs == {pl \in Sound \X Leaf : /\ ProofType[pl[1]] = RequirementType[pl[2]]
                                /\ RequirementType[pl[2]] \in Verified}

(***************************************************************************)
(* What parseGateConfig guarantees: the default tier exists and is public, *)
(* every tier opens something, a combined requirement nests at least two,  *)
(* and, a configuration being a JSON document, nesting ends somewhere.     *)
(***************************************************************************)
ASSUME GateAssumption ==
  /\ TierOrder \in Seq(Tier) /\ default_tier \in Tier
  /\ NoResource \notin Resources /\ Sound \subseteq Proof
  /\ \A c \in Configs :
       /\ c[default_tier].requirements = <<>>
       /\ \A tier \in Tier :
            /\ c[tier].requirements \in Seq(Requirement)
            /\ Len(c[tier].access) \in 1..MaxAccessPatterns
  /\ Nested \in [Requirement -> SUBSET Requirement]
  /\ \A r \in Requirement : r \notin Leaf => Cardinality(Nested[r]) >= 2
  /\ \A S \in SUBSET Requirement : S # {} => \E r \in S : Nested[r] \cap S = {}
  /\ MaxAccessPatterns \in Nat /\ MaxChanges \in Nat

NoAnswer == [granted |-> FALSE, tier |-> default_tier, unmet |-> {}, body |-> {}]

VARIABLES config,      \* the parsed gate configuration
          verdict,     \* the pairs of the request the verifiers would accept now
          changes,     \* how often a verdict changed
          always, ever,\* the pairs accepted throughout, and at some time, since the request
          request,     \* resource, proofs and strictSemanticVerification
          resolver     \* the local state of resolveAccess

vars == <<config, verdict, changes, always, ever, request, resolver>>

(***************************************************************************)
(* Patterns: a path, with or without a trailing ".*"; "*" is the empty     *)
(* path with a wildcard.                                                   *)
(***************************************************************************)
Universal == [path |-> <<>>, wild |-> TRUE]

matchResource(pattern, resource) ==
  IF pattern.wild
  THEN /\ Len(pattern.path) <= Len(resource)
       /\ SubSeq(resource, 1, Len(pattern.path)) = pattern.path
  ELSE pattern.path = resource

matchesAny(tier, resource) ==
  \E i \in DOMAIN config[tier].access : matchResource(config[tier].access[i], resource)

Relevant(tier) == request.resource = NoResource \/ matchesAny(tier, request.resource)

\* A pattern written twice counts twice.
accessCount(tier) ==
  IF \E i \in DOMAIN config[tier].access : config[tier].access[i] = Universal
  THEN MaxAccessPatterns + 1
  ELSE Len(config[tier].access)

Leaves[r \in Requirement] ==
  IF Nested[r] = {} THEN {r} ELSE UNION {Leaves[c] : c \in Nested[r]}

(***************************************************************************)
(* The unmet leaves of a requirement, given the leaves that are met.       *)
(***************************************************************************)
Unmet(met) ==
  LET unmet[r \in Requirement] ==
        IF Nested[r] = {} THEN {r} \ met
        ELSE IF CombineMode[r] = "any" /\ \E c \in Nested[r] : unmet[c] = {} THEN {}
        ELSE UNION {unmet[c] : c \in Nested[r]}
  IN unmet

(***************************************************************************)
(* The tiers a pass considers: the first leaves the default tier out, the  *)
(* second, for the explanation of a refusal, does not.                     *)
(***************************************************************************)
Considered(phase, tier) ==
  /\ config[tier].requirements # <<>>
  /\ IF phase = "tiers" THEN tier # default_tier /\ Relevant(tier)
     ELSE matchesAny(tier, request.resource)

NextTier(phase, i) ==
  CHOOSE j \in i .. Len(TierOrder) + 1 :
    /\ j <= Len(TierOrder) => Considered(phase, TierOrder[j])
    /\ \A k \in i .. j - 1 : ~Considered(phase, TierOrder[k])

requirements == config[TierOrder[resolver.tier]].requirements

ProofsFor(leaf) == {p \in request.proofs : ProofType[p] = RequirementType[leaf]}

(***************************************************************************)
(* A pass moves to the n-th requirement of a tier: its leaves that have    *)
(* proofs are open, each with the proofs it has still to try.              *)
(***************************************************************************)
Opened(r) ==
  [leaf \in {l \in Leaves[r] : ProofsFor(l) # {}} |-> ProofsFor(leaf)]

Checking(r, tier, n) ==
  LET reqs == IF tier > Len(TierOrder) THEN <<>> ELSE config[TierOrder[tier]].requirements
  IN [r EXCEPT !.tier = tier, !.req = n, !.met = {},
               !.open = IF n > Len(reqs) THEN [leaf \in {} |-> {}]
                        ELSE Opened(reqs[n])]

StartPass(r, phase) == Checking([r EXCEPT !.phase = phase, !.unmet = {}], NextTier(phase, 1), 1)

(***************************************************************************)
(* A request arrives, with some of the agent's proofs.  A verifier is only *)
(* asked about these, for the leaves of the configuration.  Requests share *)
(* no state, so one is enough.                                             *)
(***************************************************************************)
Idle ==
  [phase |-> "idle", tier |-> 1, req |-> 1, met |-> {}, unmet |-> {},
   open |-> [leaf \in {} |-> {}], best |-> default_tier, bestCount |-> 0,
   fewest |-> {}, found |-> FALSE, answer |-> NoAnswer]

Questions(proofs) ==
  {pl \in Pairs :
     /\ pl[1] \in proofs
     /\ \E tier \in Tier : \E n \in DOMAIN config[tier].requirements :
          pl[2] \in Leaves[config[tier].requirements[n]]}

resolveAccess(resource, proofs, strict) ==
  /\ resolver.phase = "idle"
  /\ request' = [resource |-> resource, proofs |-> proofs, strict |-> strict]
  /\ \E accepted \in SUBSET Questions(proofs) :
       verdict' = accepted /\ always' = accepted /\ ever' = accepted
  /\ changes' = 0
  /\ resolver' = [Idle EXCEPT !.phase = "received"]
  /\ UNCHANGED config

Receive ==
  /\ resolver.phase = "received"
  /\ resolver' = StartPass(resolver, "tiers")
  /\ UNCHANGED <<config, verdict, changes, always, ever, request>>

(***************************************************************************)
(* One proof is tried for one open leaf: the first that is accepted, or    *)
(* the last that is not, settles it.                                       *)
(***************************************************************************)
Accepted(p, leaf, pairs) ==
  /\ p \in Sound
  /\ IF RequirementType[leaf] \in Verified THEN <<p, leaf>> \in pairs
     ELSE ~request.strict

Without(f, leaf) == [l \in DOMAIN f \ {leaf} |-> f[l]]

Rejects(r, leaf, p) ==
  IF r.open[leaf] = {p} THEN [r EXCEPT !.open = Without(@, leaf)]
  ELSE [r EXCEPT !.open[leaf] = @ \ {p}]

Accepts(r, leaf) == [r EXCEPT !.open = Without(@, leaf), !.met = @ \cup {leaf}]

LastProofDecides(r, leaf, p) ==                                  \* mutant
  IF r.open[leaf] = {p} /\ Accepted(p, leaf, verdict) THEN Accepts(r, leaf)
  ELSE Rejects(r, leaf, p)

Tried(r, leaf, p) ==
  IF Accepted(p, leaf, verdict) THEN Accepts(r, leaf) ELSE Rejects(r, leaf, p)

checkOneRequirement(leaf, p) ==
  /\ leaf \in DOMAIN resolver.open /\ p \in resolver.open[leaf]
  /\ resolver' = Tried(resolver, leaf, p)
  /\ UNCHANGED <<config, verdict, changes, always, ever, request>>

(***************************************************************************)
(* checkRequirements: every requirement of a tier is checked in turn, and  *)
(* the unmet leaves are gathered.                                          *)
(***************************************************************************)
LastRequirementDecides(r) ==                                     \* mutant
  [r EXCEPT !.unmet = Unmet(r.met)[requirements[r.req]]]

Gathered(r) == [r EXCEPT !.unmet = @ \cup Unmet(r.met)[requirements[r.req]]]

RequirementDone ==
  /\ resolver.phase \in {"tiers", "report"}
  /\ resolver.tier <= Len(TierOrder) /\ resolver.req <= Len(requirements)
  /\ DOMAIN resolver.open = {}
  /\ resolver' = Checking(Gathered(resolver), resolver.tier, resolver.req + 1)
  /\ UNCHANGED <<config, verdict, changes, always, ever, request>>

LastTierWins(r, tier, count) ==                                  \* mutant
  IF r.unmet = {} THEN [r EXCEPT !.best = tier, !.bestCount = count] ELSE r

(***************************************************************************)
(* A tier all of whose requirements are met is kept if it opens more than  *)
(* the best so far.                                                        *)
(***************************************************************************)
BetterOf(r, tier, count) ==
  IF r.unmet = {} /\ count > r.bestCount
  THEN [r EXCEPT !.best = tier, !.bestCount = count] ELSE r

FewerThanNone(r) ==                                              \* mutant
  IF Cardinality(r.unmet) < Cardinality(r.fewest)
  THEN [r EXCEPT !.fewest = r.unmet, !.found = TRUE] ELSE r

FewerUnmet(r) ==
  IF ~r.found \/ Cardinality(r.unmet) < Cardinality(r.fewest)
  THEN [r EXCEPT !.fewest = r.unmet, !.found = TRUE] ELSE r

TierDone ==
  LET tier == TierOrder[resolver.tier]
      r    == IF resolver.phase = "tiers" THEN BetterOf(resolver, tier, accessCount(tier))
              ELSE FewerUnmet(resolver)
  IN
  /\ resolver.phase \in {"tiers", "report"}
  /\ resolver.tier <= Len(TierOrder) /\ resolver.req > Len(requirements)
  /\ resolver' = Checking([r EXCEPT !.unmet = {}],
                          NextTier(resolver.phase, resolver.tier + 1), 1)
  /\ UNCHANGED <<config, verdict, changes, always, ever, request>>

(***************************************************************************)
(* build402Response resolves the request once more, strictly and without   *)
(* the verifiers, so that no requirement is met.                           *)
(***************************************************************************)
build402Response ==
  LET all(i)  == UNION {Leaves[config[TierOrder[i]].requirements[n]] :
                          n \in DOMAIN config[TierOrder[i]].requirements}
      tiers   == {i \in DOMAIN TierOrder : Considered("report", TierOrder[i])}
      first   == CHOOSE i \in tiers : \A j \in tiers :
                   \/ Cardinality(all(i)) < Cardinality(all(j))
                   \/ Cardinality(all(i)) = Cardinality(all(j)) /\ i <= j
  IN IF tiers = {} THEN {} ELSE all(first)

Answer(r, granted, unmet, body) ==
  [Idle EXCEPT !.phase = "answered",
     !.answer = [granted |-> granted, tier |-> r.best, unmet |-> unmet, body |-> body]]

(***************************************************************************)
(* After the first pass the request is granted, or a second pass explains  *)
(* the refusal; after the second it is refused.                            *)
(***************************************************************************)
PassDone ==
  /\ resolver.tier > Len(TierOrder)
  /\ \/ /\ resolver.phase = "tiers"
        /\ resolver' = IF Relevant(resolver.best) THEN Answer(resolver, TRUE, {}, {})
                       ELSE StartPass(resolver, "report")
     \/ /\ resolver.phase = "report"
        /\ resolver' = Answer(resolver, FALSE, resolver.fewest, build402Response)
  /\ UNCHANGED <<config, verdict, changes, always, ever, request>>

(***************************************************************************)
(* A verifier changes its mind: a token runs out, a score rises.           *)
(***************************************************************************)
Change(pl) ==
  LET now == IF pl \in verdict THEN verdict \ {pl} ELSE verdict \cup {pl} IN
    /\ changes < MaxChanges
    /\ resolver.phase \in {"tiers", "report"}
    /\ changes' = changes + 1
    /\ verdict' = now
    /\ always' = always \cap now /\ ever' = ever \cup now
    /\ UNCHANGED <<config, request, resolver>>

Init ==
  /\ config \in Configs
  /\ verdict = {} /\ always = {} /\ ever = {}
  /\ changes = 0
  /\ request = [resource |-> NoResource, proofs |-> {}, strict |-> TRUE]
  /\ resolver = Idle

Resolve ==
  \/ Receive
  \/ \E leaf \in Leaf, p \in Proof : checkOneRequirement(leaf, p)
  \/ RequirementDone
  \/ TierDone
  \/ PassDone

Next ==
  \/ \E resource \in Resources \cup {NoResource}, proofs \in SUBSET Proof,
        strict \in BOOLEAN :
       resolveAccess(resource, proofs, strict)
  \/ Resolve
  \/ \E pl \in Questions(request.proofs) : Change(pl)

Spec == Init /\ [][Next]_vars

(***************************************************************************)
(* Every variable has its type.                                            *)
(***************************************************************************)
TypeOK ==
  /\ config \in Configs
  /\ verdict \subseteq Pairs /\ always \subseteq verdict /\ verdict \subseteq ever
  /\ ever \subseteq Pairs /\ changes \in Nat
  /\ request.resource \in Resources \cup {NoResource} /\ request.proofs \subseteq Proof
  /\ request.strict \in BOOLEAN
  /\ resolver.phase \in {"idle", "received", "tiers", "report", "answered"}
  /\ resolver.best \in Tier /\ resolver.answer.tier \in Tier
  /\ resolver.tier \in 1 .. Len(TierOrder) + 1
  /\ resolver.phase \in {"tiers", "report"} /\ resolver.tier <= Len(TierOrder) =>
       /\ Considered(resolver.phase, TierOrder[resolver.tier])
       /\ resolver.req \in 1 .. Len(requirements) + 1
       /\ resolver.req <= Len(requirements) =>
            resolver.met \cup DOMAIN resolver.open \subseteq Leaves[requirements[resolver.req]]
  /\ \A leaf \in DOMAIN resolver.open : resolver.open[leaf] \subseteq ProofsFor(leaf)
  /\ resolver.unmet \cup resolver.fewest \subseteq Leaf
-----------------------------------------------------------------------------
Gated(tier) == tier # default_tier /\ config[tier].requirements # <<>>

MetLeaves(pairs) ==
  {leaf \in Leaf : \E p \in ProofsFor(leaf) : Accepted(p, leaf, pairs)}

Holds(met) ==
  LET holds[r \in Requirement] ==
        IF Nested[r] = {} THEN r \in met
        ELSE IF CombineMode[r] = "any" THEN \E c \in Nested[r] : holds[c]
        ELSE \A c \in Nested[r] : holds[c]
  IN holds

Satisfied(tier, pairs) ==
  \A n \in DOMAIN config[tier].requirements :
    Holds(MetLeaves(pairs))[config[tier].requirements[n]]

Answered == resolver.phase = "answered"
Granted == Answered /\ resolver.answer.granted
Denied == Answered /\ ~resolver.answer.granted

(***************************************************************************)
(* A granted tier opens the resource, and unless it is the default tier    *)
(* each of its requirements is met by proofs the verifiers accepted while  *)
(* the request was resolved.                                               *)
(***************************************************************************)
GrantJustified ==
  Granted =>
    /\ Relevant(resolver.answer.tier)
    /\ resolver.answer.tier = default_tier \/ Satisfied(resolver.answer.tier, ever)

(***************************************************************************)
(* Nobody is refused who satisfied, throughout, a tier that opens the      *)
(* resource, whatever else they submitted and in whatever order it was     *)
(* tried.                                                                  *)
(***************************************************************************)
RefusalJustified ==
  Denied => \A tier \in Tier : Relevant(tier) => tier # default_tier /\
              (Gated(tier) => ~Satisfied(tier, always))

(***************************************************************************)
(* Of the gated tiers satisfied throughout, none opens more than the one   *)
(* that is granted.                                                        *)
(***************************************************************************)
MostPermissive ==
  Granted =>
    \A tier \in Tier :
      Gated(tier) /\ Relevant(tier) /\ Satisfied(tier, always) =>
        /\ resolver.answer.tier # default_tier
        /\ accessCount(tier) <= accessCount(resolver.answer.tier)

(***************************************************************************)
(* A refusal names only requirements that were not met all along; and when *)
(* no verdict changed and a gated tier opens the resource, it names one.   *)
(***************************************************************************)
RefusalExplained ==
  Denied =>
    /\ resolver.answer.unmet \cap MetLeaves(always) = {}
    /\ always = ever /\ (\E tier \in Tier : Gated(tier) /\ Relevant(tier)) =>
         resolver.answer.unmet # {}
=============================================================================
