-------------------------- MODULE GateAccessProofs --------------------------
(***************************************************************************)
(* The answers of resolveAccess, for every configuration, every forest of  *)
(* requirements and every change of a verdict while the request is         *)
(* resolved. The recursive definitions of GateAccess are unfolded by       *)
(* FunctionRecursion; what they compute is shown by taking a node none of  *)
(* whose nested nodes is a counterexample. The steps of the resolver are   *)
(* then proved of an arbitrary local state r, and hold of the variable     *)
(* because nothing else they read has changed.                             *)
(***************************************************************************)
EXTENDS GateAccess, FunctionRecursion, FiniteSetTheorems

-----------------------------------------------------------------------------
(***************************************************************************)
(* The recursive definitions over the forest of requirements satisfy their *)
(* equations, because nesting ends somewhere.                              *)
(***************************************************************************)
LEMMA Forest == Grounded(Requirement, Nested)
BY GateAssumption DEF Grounded

LEMMA LeavesEquation ==
  \A r \in Requirement :
    Leaves[r] = IF Nested[r] = {} THEN {r} ELSE UNION {Leaves[c] : c \in Nested[r]}
<1>. DEFINE V == SUBSET Requirement
            Body(f, r) == IF Nested[r] = {} THEN {r} ELSE UNION {f[c] : c \in Nested[r]}
            G == [r \in Requirement |-> [g \in [Requirement -> V] |-> Body(g, r)]]
            Def(f) == f = [r \in Requirement |-> Body(f, r)]
<1>1. Depends(Requirement, Nested, V, G)
  <2>1. ASSUME NEW r \in Requirement, NEW g \in [Requirement -> V]
        PROVE  Body(g, r) \in V
    BY <2>1, GateAssumption
  <2>2. G \in [Requirement -> [[Requirement -> V] -> V]]
    BY <2>1
  <2>3. ASSUME NEW r \in Requirement, NEW g \in [Requirement -> V], NEW h \in [Requirement -> V],
               \A c \in Nested[r] : g[c] = h[c]
        PROVE  Body(g, r) = Body(h, r)
    BY <2>3
  <2>. HIDE DEF Body, V
  <2>. QED  BY <2>2, <2>3 DEF Depends
<1>2. PICK f \in [Requirement -> V] : Satisfies(f, Requirement, G)
  <2>1. V # {}
    OBVIOUS
  <2>. HIDE DEF G, V
  <2>. QED  BY <1>1, <2>1, Forest, RecursionExists
<1>3. Def(f)
  <2>. HIDE DEF V, Body
  <2>. QED  BY <1>2 DEF Satisfies
<1>4. Leaves = CHOOSE g : Def(g)
  BY DEF Leaves
<1>5. Def(Leaves)
  <2>. HIDE DEF Def
  <2>. QED  BY <1>3, <1>4
<1>. HIDE DEF Body
<1>6. \A r \in Requirement : Leaves[r] = Body(Leaves, r)
  BY <1>5
<1>. QED  BY <1>6 DEF Body

LEMMA UnmetEquation ==
  ASSUME NEW met
  PROVE  \A r \in Requirement :
           Unmet(met)[r] =
             IF Nested[r] = {} THEN {r} \ met
             ELSE IF CombineMode[r] = "any" /\ \E c \in Nested[r] : Unmet(met)[c] = {} THEN {}
             ELSE UNION {Unmet(met)[c] : c \in Nested[r]}
<1>. DEFINE V == SUBSET Requirement
            Body(f, r) == IF Nested[r] = {} THEN {r} \ met
                          ELSE IF CombineMode[r] = "any" /\ \E c \in Nested[r] : f[c] = {} THEN {}
                          ELSE UNION {f[c] : c \in Nested[r]}
            G == [r \in Requirement |-> [g \in [Requirement -> V] |-> Body(g, r)]]
            Def(f) == f = [r \in Requirement |-> Body(f, r)]
<1>1. Depends(Requirement, Nested, V, G)
  <2>1. ASSUME NEW r \in Requirement, NEW g \in [Requirement -> V]
        PROVE  Body(g, r) \in V
    BY <2>1, GateAssumption
  <2>2. G \in [Requirement -> [[Requirement -> V] -> V]]
    BY <2>1
  <2>3. ASSUME NEW r \in Requirement, NEW g \in [Requirement -> V], NEW h \in [Requirement -> V],
               \A c \in Nested[r] : g[c] = h[c]
        PROVE  Body(g, r) = Body(h, r)
    BY <2>3
  <2>. HIDE DEF Body, V
  <2>. QED  BY <2>2, <2>3 DEF Depends
<1>2. PICK f \in [Requirement -> V] : Satisfies(f, Requirement, G)
  <2>1. V # {}
    OBVIOUS
  <2>. HIDE DEF G, V
  <2>. QED  BY <1>1, <2>1, Forest, RecursionExists
<1>3. Def(f)
  <2>. HIDE DEF V, Body
  <2>. QED  BY <1>2 DEF Satisfies
<1>4. Unmet(met) = CHOOSE g : Def(g)
  BY DEF Unmet
<1>5. Def(Unmet(met))
  <2>. HIDE DEF Def
  <2>. QED  BY <1>3, <1>4
<1>. HIDE DEF Body
<1>6. \A r \in Requirement : Unmet(met)[r] = Body(Unmet(met), r)
  BY <1>5
<1>. QED  BY <1>6 DEF Body

LEMMA HoldsEquation ==
  ASSUME NEW met
  PROVE  \A r \in Requirement :
           Holds(met)[r] =
             IF Nested[r] = {} THEN r \in met
             ELSE IF CombineMode[r] = "any" THEN \E c \in Nested[r] : Holds(met)[c]
             ELSE \A c \in Nested[r] : Holds(met)[c]
<1>. DEFINE Body(f, r) == IF Nested[r] = {} THEN r \in met
                          ELSE IF CombineMode[r] = "any" THEN \E c \in Nested[r] : f[c]
                          ELSE \A c \in Nested[r] : f[c]
            G == [r \in Requirement |-> [g \in [Requirement -> BOOLEAN] |-> Body(g, r)]]
            Def(f) == f = [r \in Requirement |-> Body(f, r)]
<1>1. Depends(Requirement, Nested, BOOLEAN, G)
  <2>1. ASSUME NEW r \in Requirement, NEW g \in [Requirement -> BOOLEAN]
        PROVE  Body(g, r) \in BOOLEAN
    <3>1. CASE Nested[r] = {}
      <4>1. Body(g, r) = (r \in met)
        BY <3>1
      <4>. HIDE DEF Body
      <4>. QED  BY <4>1
    <3>2. CASE Nested[r] # {} /\ CombineMode[r] = "any"
      <4>1. Body(g, r) = (\E c \in Nested[r] : g[c])
        BY <3>2
      <4>. HIDE DEF Body
      <4>. QED  BY <4>1
    <3>3. CASE Nested[r] # {} /\ CombineMode[r] # "any"
      <4>1. Body(g, r) = (\A c \in Nested[r] : g[c])
        BY <3>3
      <4>. HIDE DEF Body
      <4>. QED  BY <4>1
    <3>. QED  BY <3>1, <3>2, <3>3
  <2>2. G \in [Requirement -> [[Requirement -> BOOLEAN] -> BOOLEAN]]
    BY <2>1
  <2>3. ASSUME NEW r \in Requirement, NEW g \in [Requirement -> BOOLEAN],
               NEW h \in [Requirement -> BOOLEAN], \A c \in Nested[r] : g[c] = h[c]
        PROVE  Body(g, r) = Body(h, r)
    BY <2>3
  <2>. HIDE DEF Body
  <2>. QED  BY <2>2, <2>3 DEF Depends
<1>2. PICK f \in [Requirement -> BOOLEAN] : Satisfies(f, Requirement, G)
  <2>. HIDE DEF G
  <2>. QED  BY <1>1, Forest, RecursionExists
<1>3. Def(f)
  <2>. HIDE DEF Body
  <2>. QED  BY <1>2 DEF Satisfies
<1>4. Holds(met) = CHOOSE g : Def(g)
  BY DEF Holds
<1>5. Def(Holds(met))
  <2>. HIDE DEF Def
  <2>. QED  BY <1>3, <1>4
<1>. HIDE DEF Body
<1>6. \A r \in Requirement : Holds(met)[r] = Body(Holds(met), r)
  BY <1>5
<1>. QED  BY <1>6 DEF Body

(***************************************************************************)
(* The equations read case by case.                                        *)
(***************************************************************************)
LEMMA LeavesDef ==
  ASSUME NEW r \in Requirement
  PROVE  /\ Nested[r] = {} => Leaves[r] = {r}
         /\ Nested[r] # {} => \A l : l \in Leaves[r] <=> \E c \in Nested[r] : l \in Leaves[c]
<1>1. CASE Nested[r] = {}
  BY <1>1, LeavesEquation
<1>2. CASE Nested[r] # {}
  <2>1. Leaves[r] = UNION {Leaves[c] : c \in Nested[r]}
    BY <1>2, LeavesEquation
  <2>. QED  BY <1>2, <2>1
<1>. QED  BY <1>1, <1>2

LEMMA UnmetDef ==
  ASSUME NEW met, NEW r \in Requirement
  PROVE  /\ Nested[r] = {} => Unmet(met)[r] = {r} \ met
         /\ Nested[r] # {} =>
              \/ /\ CombineMode[r] = "any" /\ \E c \in Nested[r] : Unmet(met)[c] = {}
                 /\ Unmet(met)[r] = {}
              \/ /\ ~(CombineMode[r] = "any" /\ \E c \in Nested[r] : Unmet(met)[c] = {})
                 /\ \A l : l \in Unmet(met)[r] <=> \E c \in Nested[r] : l \in Unmet(met)[c]
<1>1. CASE Nested[r] = {}
  BY <1>1, UnmetEquation
<1>2. CASE Nested[r] # {} /\ CombineMode[r] = "any" /\ \E c \in Nested[r] : Unmet(met)[c] = {}
  BY <1>2, UnmetEquation
<1>3. CASE Nested[r] # {} /\ ~(CombineMode[r] = "any" /\ \E c \in Nested[r] : Unmet(met)[c] = {})
  <2>1. Unmet(met)[r] = UNION {Unmet(met)[c] : c \in Nested[r]}
    BY <1>3, UnmetEquation
  <2>. QED  BY <1>3, <2>1
<1>. QED  BY <1>1, <1>2, <1>3

LEMMA HoldsDef ==
  ASSUME NEW met, NEW r \in Requirement
  PROVE  /\ Nested[r] = {} => (Holds(met)[r] <=> r \in met)
         /\ Nested[r] # {} /\ CombineMode[r] = "any" =>
              (Holds(met)[r] <=> \E c \in Nested[r] : Holds(met)[c])
         /\ Nested[r] # {} /\ CombineMode[r] # "any" =>
              (Holds(met)[r] <=> \A c \in Nested[r] : Holds(met)[c])
BY HoldsEquation

-----------------------------------------------------------------------------
(***************************************************************************)
(* What the recursive definitions compute, by induction over the forest.   *)
(***************************************************************************)
LEMMA LeavesAreLeaves ==
  \A r \in Requirement : Leaves[r] \subseteq Leaf
<1>. DEFINE T == {r \in Requirement : ~(Leaves[r] \subseteq Leaf)}
<1>1. SUFFICES ASSUME T # {} PROVE FALSE
  OBVIOUS
<1>2. PICK r \in T : Nested[r] \cap T = {}
  BY <1>1, Forest DEF Grounded
<1>3. \A c \in Nested[r] : Leaves[c] \subseteq Leaf
  BY <1>2, GateAssumption
<1>. QED  BY <1>2, <1>3, LeavesDef DEF Leaf

(***************************************************************************)
(* The leaves of a nested node are leaves of the node it is nested in.     *)
(***************************************************************************)
LEMMA NestedLeaves ==
  \A r \in Requirement : Nested[r] # {} =>
    \A c \in Nested[r] : c \in Requirement /\ Leaves[c] \subseteq Leaves[r]
BY LeavesDef, GateAssumption

(***************************************************************************)
(* Unmet leaves are leaves of the requirement that are not met.            *)
(***************************************************************************)
LEMMA UnmetAreLeaves ==
  ASSUME NEW met
  PROVE  \A r \in Requirement : Unmet(met)[r] \subseteq Leaves[r] \ met
<1>. DEFINE T == {r \in Requirement : ~(Unmet(met)[r] \subseteq Leaves[r] \ met)}
<1>1. SUFFICES ASSUME T # {} PROVE FALSE
  OBVIOUS
<1>2. PICK r \in T : Nested[r] \cap T = {}
  BY <1>1, Forest DEF Grounded
<1>3. \A c \in Nested[r] : Unmet(met)[c] \subseteq Leaves[c] \ met
  BY <1>2, GateAssumption
<1>4. CASE Nested[r] = {}
  BY <1>2, <1>4, UnmetDef, LeavesDef
<1>5. CASE Nested[r] # {}
  <2>1. \A l : (\E c \in Nested[r] : l \in Unmet(met)[c]) => l \in Leaves[r] \ met
    BY <1>2, <1>3, <1>5, LeavesDef
  <2>. QED  BY <1>2, <1>5, <2>1, UnmetDef
<1>. QED  BY <1>4, <1>5

(***************************************************************************)
(* No leaf is reported unmet exactly when the requirement holds.           *)
(***************************************************************************)
LEMMA UnmetIffNotHolds ==
  ASSUME NEW met
  PROVE  \A r \in Requirement : Unmet(met)[r] = {} <=> Holds(met)[r]
<1>. DEFINE T == {r \in Requirement : ~(Unmet(met)[r] = {} <=> Holds(met)[r])}
<1>1. SUFFICES ASSUME T # {} PROVE FALSE
  OBVIOUS
<1>2. PICK r \in T : Nested[r] \cap T = {}
  BY <1>1, Forest DEF Grounded
<1>3. \A c \in Nested[r] : Unmet(met)[c] = {} <=> Holds(met)[c]
  BY <1>2, GateAssumption
<1>4. CASE Nested[r] = {}
  <2>1. Unmet(met)[r] = {r} \ met /\ (Holds(met)[r] <=> r \in met)
    BY <1>2, <1>4, UnmetDef, HoldsDef
  <2>. QED  BY <1>2, <2>1
<1>5. CASE Nested[r] # {} /\ CombineMode[r] = "any"
  <2>1. Holds(met)[r] <=> \E c \in Nested[r] : Holds(met)[c]
    BY <1>2, <1>5, HoldsDef
  <2>2. Unmet(met)[r] = {} <=> \E c \in Nested[r] : Unmet(met)[c] = {}
    <3>1. CASE \E c \in Nested[r] : Unmet(met)[c] = {}
      BY <1>2, <1>5, <3>1, UnmetDef
    <3>2. CASE ~\E c \in Nested[r] : Unmet(met)[c] = {}
      <4>1. \A l : l \in Unmet(met)[r] <=> \E c \in Nested[r] : l \in Unmet(met)[c]
        BY <1>2, <1>5, <3>2, UnmetDef
      <4>2. PICK c \in Nested[r] : Unmet(met)[c] # {}
        BY <1>5, <3>2
      <4>. QED  BY <3>2, <4>1, <4>2
    <3>. QED  BY <3>1, <3>2
  <2>. QED  BY <1>2, <1>3, <1>5, <2>1, <2>2
<1>6. CASE Nested[r] # {} /\ CombineMode[r] # "any"
  <2>1. Holds(met)[r] <=> \A c \in Nested[r] : Holds(met)[c]
    BY <1>2, <1>6, HoldsDef
  <2>2. Unmet(met)[r] = {} <=> \A c \in Nested[r] : Unmet(met)[c] = {}
    BY <1>2, <1>6, UnmetDef
  <2>. QED  BY <1>2, <1>3, <1>6, <2>1, <2>2
<1>. QED  BY <1>4, <1>5, <1>6

(***************************************************************************)
(* More met leaves never undo a requirement, and only its own count.       *)
(***************************************************************************)
LEMMA HoldsMonotone ==
  ASSUME NEW fewer, NEW more
  PROVE  \A r \in Requirement :
           fewer \cap Leaves[r] \subseteq more /\ Holds(fewer)[r] => Holds(more)[r]
<1>. DEFINE T == {r \in Requirement :
                    ~(fewer \cap Leaves[r] \subseteq more /\ Holds(fewer)[r] => Holds(more)[r])}
<1>1. SUFFICES ASSUME T # {} PROVE FALSE
  OBVIOUS
<1>2. PICK r \in T : Nested[r] \cap T = {}
  BY <1>1, Forest DEF Grounded
<1>3. fewer \cap Leaves[r] \subseteq more /\ Holds(fewer)[r] /\ ~Holds(more)[r] /\ r \in Requirement
  BY <1>2
<1>4. \A c \in Nested[r] : Holds(fewer)[c] => Holds(more)[c]
  <2>1. \A c \in Nested[r] : c \in Requirement /\ fewer \cap Leaves[c] \subseteq more
    BY <1>3, NestedLeaves
  <2>. QED  BY <1>2, <2>1
<1>5. CASE Nested[r] = {}
  <2>1. Leaves[r] = {r} /\ (Holds(fewer)[r] <=> r \in fewer) /\ (Holds(more)[r] <=> r \in more)
    BY <1>3, <1>5, LeavesDef, HoldsDef
  <2>. QED  BY <1>3, <2>1
<1>6. CASE Nested[r] # {} /\ CombineMode[r] = "any"
  <2>1. /\ Holds(fewer)[r] <=> \E c \in Nested[r] : Holds(fewer)[c]
        /\ Holds(more)[r] <=> \E c \in Nested[r] : Holds(more)[c]
    BY <1>3, <1>6, HoldsDef
  <2>. QED  BY <1>3, <1>4, <2>1
<1>7. CASE Nested[r] # {} /\ CombineMode[r] # "any"
  <2>1. /\ Holds(fewer)[r] <=> \A c \in Nested[r] : Holds(fewer)[c]
        /\ Holds(more)[r] <=> \A c \in Nested[r] : Holds(more)[c]
    BY <1>3, <1>7, HoldsDef
  <2>. QED  BY <1>3, <1>4, <2>1
<1>. QED  BY <1>5, <1>6, <1>7
-----------------------------------------------------------------------------
(***************************************************************************)
(* The inductive invariant.  What the verifiers accept is bracketed by     *)
(* what they accepted throughout and at some time.                         *)
(***************************************************************************)
Bracket ==
  /\ config \in Configs
  /\ request.resource \in Resources \cup {NoResource} /\ request.proofs \subseteq Proof
  /\ request.strict \in BOOLEAN
  /\ always \subseteq verdict /\ verdict \subseteq ever /\ ever \subseteq Pairs
  /\ changes \in Nat

IsResolver(r) ==
  r = [phase |-> r.phase, tier |-> r.tier, req |-> r.req, met |-> r.met,
       unmet |-> r.unmet, open |-> r.open, best |-> r.best, bestCount |-> r.bestCount,
       fewest |-> r.fewest, found |-> r.found, answer |-> r.answer]

Typed(r) ==
  /\ IsResolver(r)
  /\ r.best \in Tier /\ r.bestCount \in Nat
  /\ r.unmet \subseteq Leaf /\ r.fewest \subseteq Leaf
  /\ r.found \in BOOLEAN /\ r.answer.tier \in Tier

Received == [Idle EXCEPT !.phase = "received"]

Shape(r) ==
  /\ Typed(r)
  /\ r.phase \in {"idle", "received", "tiers", "report", "answered"}
  /\ r.tier \in 1 .. Len(TierOrder) + 1 /\ r.req \in Nat \ {0}
  /\ r.phase = "idle" => r = Idle
  /\ r.phase = "received" => r = Received

(***************************************************************************)
(* Where a pass is: at a tier it considers, at one of its requirements or  *)
(* behind the last; nothing is open elsewhere.                             *)
(***************************************************************************)
Of(r) == config[TierOrder[r.tier]].requirements

Working(r) == r.phase \in {"tiers", "report"}

InTier(r) == Working(r) /\ r.tier <= Len(TierOrder)

InRequirement(r) == InTier(r) /\ r.req <= Len(Of(r))

Position(r) ==
  /\ InTier(r) => Considered(r.phase, TierOrder[r.tier]) /\ r.req <= Len(Of(r)) + 1
  /\ ~InRequirement(r) => DOMAIN r.open = {}

(***************************************************************************)
(* The requirement being checked: a leaf that is met was accepted at some  *)
(* time, and a proof of one that is not, if it was accepted throughout,    *)
(* has still to be tried.                                                  *)
(***************************************************************************)
CheckedSoFar(r, node) ==
  /\ DOMAIN r.open \subseteq Leaves[node] /\ r.met \subseteq Leaves[node]
  /\ \A leaf \in DOMAIN r.open : r.open[leaf] \subseteq ProofsFor(leaf)
  /\ r.met \subseteq MetLeaves(ever)
  /\ \A leaf \in Leaves[node] \ r.met : \A p \in ProofsFor(leaf) :
       Accepted(p, leaf, always) => leaf \in DOMAIN r.open /\ p \in r.open[leaf]

(***************************************************************************)
(* The requirements of the tier that are done: no leaf gathered so far was *)
(* met throughout, and none was gathered only if each was met.             *)
(***************************************************************************)
Before(r, pairs) ==
  \A n \in 1 .. r.req - 1 : Holds(MetLeaves(pairs))[Of(r)[n]]

GatheredSoFar(r) ==
  /\ r.unmet = {} => Before(r, ever)
  /\ Before(r, always) => r.unmet = {}
  /\ r.unmet \cap MetLeaves(always) = {}

(***************************************************************************)
(* The tiers that are done: the best is satisfied, and opens as much as    *)
(* any that was satisfied throughout.                                      *)
(***************************************************************************)
BestSatisfied(r) ==
  \/ r.best = default_tier /\ r.bestCount = 0
  \/ /\ Gated(r.best) /\ Relevant(r.best) /\ Satisfied(r.best, ever)
     /\ r.bestCount = accessCount(r.best)

BestSoFar(r, tier) ==
  /\ \A i \in 1 .. tier - 1 :
       Considered("tiers", TierOrder[i]) /\ Satisfied(TierOrder[i], always) =>
         r.best # default_tier /\ accessCount(TierOrder[i]) <= r.bestCount
  /\ r.fewest = {} /\ ~r.found

(***************************************************************************)
(* The second pass runs only if no tier that opens the resource was        *)
(* satisfied throughout.                                                   *)
(***************************************************************************)
NoneSatisfied ==
  /\ ~Relevant(default_tier)
  /\ \A tier \in Tier : Gated(tier) /\ Relevant(tier) => ~Satisfied(tier, always)

ReportSoFar(r, tier) ==
  /\ r.best = default_tier /\ NoneSatisfied
  /\ r.fewest \cap MetLeaves(always) = {}
  /\ r.found /\ always = ever => r.fewest # {}
  /\ \A i \in 1 .. tier - 1 : Considered("report", TierOrder[i]) => r.found

Progress(r) ==
  /\ InRequirement(r) => CheckedSoFar(r, Of(r)[r.req])
  /\ InTier(r) => GatheredSoFar(r)
  /\ Working(r) => BestSatisfied(r)
  /\ r.phase = "tiers" => BestSoFar(r, r.tier)
  /\ r.phase = "report" => ReportSoFar(r, r.tier)

(***************************************************************************)
(* What the properties say of an answer.                                   *)
(***************************************************************************)
GrantIsRight(tier) ==
  /\ Relevant(tier) /\ (tier = default_tier \/ Satisfied(tier, ever))
  /\ \A other \in Tier : Gated(other) /\ Relevant(other) /\ Satisfied(other, always) =>
       tier # default_tier /\ accessCount(other) <= accessCount(tier)

RefusalIsRight(unmet) ==
  /\ NoneSatisfied /\ unmet \cap MetLeaves(always) = {}
  /\ always = ever /\ (\E tier \in Tier : Gated(tier) /\ Relevant(tier)) => unmet # {}

Outcome(r) ==
  r.phase = "answered" =>
    IF r.answer.granted THEN GrantIsRight(r.answer.tier) ELSE RefusalIsRight(r.answer.unmet)

ResolverInv(r) == Shape(r) /\ Position(r) /\ Progress(r) /\ Outcome(r)

IInv == Bracket /\ ResolverInv(resolver)

-----------------------------------------------------------------------------
(***************************************************************************)
(* The configuration, and the tiers a pass considers.                      *)
(***************************************************************************)
LEMMA ConfigFacts ==
  ASSUME Bracket
  PROVE  /\ default_tier \in Tier /\ config[default_tier].requirements = <<>>
         /\ TierOrder \in Seq(Tier) /\ Len(TierOrder) \in Nat
         /\ \A i \in 1 .. Len(TierOrder) : TierOrder[i] \in Tier
         /\ \A tier \in Tier : \E i \in 1 .. Len(TierOrder) : tier = TierOrder[i]
         /\ \A tier \in Tier : config[tier].requirements \in Seq(Requirement)
<1>1. TierOrder \in Seq(Tier)
  BY GateAssumption
<1>2. DOMAIN TierOrder = 1 .. Len(TierOrder)
  BY <1>1
<1>3. \A tier \in Tier : \E i \in 1 .. Len(TierOrder) : tier = TierOrder[i]
  BY <1>2 DEF Tier
<1>. QED  BY <1>1, <1>3, GateAssumption DEF Bracket

LEMMA CountFacts ==
  ASSUME Bracket, NEW tier \in Tier
  PROVE  accessCount(tier) \in Nat \ {0}
<1>1. Len(config[tier].access) \in 1..MaxAccessPatterns /\ MaxAccessPatterns \in Nat
  BY GateAssumption DEF Bracket
<1>. QED  BY <1>1 DEF accessCount

LEMMA NextTierFacts ==
  ASSUME Bracket, NEW phase, NEW i \in 1 .. Len(TierOrder) + 1
  PROVE  /\ NextTier(phase, i) \in i .. Len(TierOrder) + 1
         /\ NextTier(phase, i) <= Len(TierOrder) => Considered(phase, TierOrder[NextTier(phase, i)])
         /\ \A k \in i .. NextTier(phase, i) - 1 : ~Considered(phase, TierOrder[k])
<1>. DEFINE last == Len(TierOrder) + 1
            Ends(j) == j <= Len(TierOrder) => Considered(phase, TierOrder[j])
            Good(j) == Ends(j) /\ \A k \in i .. j - 1 : ~Considered(phase, TierOrder[k])
            S == {j \in i .. last : Ends(j)}
<1>1. Len(TierOrder) \in Nat /\ last \in Nat /\ i \in Nat
  BY ConfigFacts
<1>2. last \in S /\ S \in SUBSET Nat
  BY <1>1
<1>3. PICK j \in S : \A m \in S : j <= m
  BY <1>2, LeastElement
<1>4. ASSUME NEW k \in i .. j - 1 PROVE ~Considered(phase, TierOrder[k])
  <2>1. k \notin S
    BY <1>1, <1>2, <1>3, <1>4
  <2>. QED  BY <1>1, <1>3, <1>4, <2>1
<1>5. j \in i .. last /\ Good(j)
  BY <1>3, <1>4
<1>6. NextTier(phase, i) = CHOOSE m \in i .. last : Good(m)
  BY DEF NextTier
<1>. HIDE DEF Good, last
<1>7. NextTier(phase, i) \in i .. last /\ Good(NextTier(phase, i))
  BY <1>5, <1>6
<1>. QED  BY <1>7 DEF Good, last

-----------------------------------------------------------------------------
(***************************************************************************)
(* A proof that was accepted throughout is accepted now, and one that is   *)
(* accepted now was accepted at some time.                                 *)
(***************************************************************************)
LEMMA AcceptedMonotone ==
  ASSUME NEW fewer, NEW more, fewer \subseteq more, NEW p, NEW leaf, Accepted(p, leaf, fewer)
  PROVE  Accepted(p, leaf, more)
BY DEF Accepted

LEMMA MetMonotone ==
  ASSUME NEW fewer, NEW more, fewer \subseteq more
  PROVE  MetLeaves(fewer) \subseteq MetLeaves(more)
BY AcceptedMonotone DEF MetLeaves

LEMMA HoldsMore ==
  ASSUME NEW fewer, NEW more, fewer \subseteq more, NEW r \in Requirement,
         Holds(MetLeaves(fewer))[r]
  PROVE  Holds(MetLeaves(more))[r]
BY MetMonotone, HoldsMonotone

LEMMA SatisfiedMonotone ==
  ASSUME Bracket, NEW tier \in Tier, NEW fewer, NEW more, fewer \subseteq more,
         Satisfied(tier, fewer)
  PROVE  Satisfied(tier, more)
<1>. DEFINE reqs == config[tier].requirements
<1>1. \A n \in DOMAIN reqs : reqs[n] \in Requirement
  <2>1. reqs \in Seq(Requirement)
    BY ConfigFacts
  <2>. HIDE DEF reqs
  <2>. QED  BY <2>1
<1>2. ASSUME NEW n \in DOMAIN config[tier].requirements
      PROVE  Holds(MetLeaves(more))[config[tier].requirements[n]]
  <2>1. Holds(MetLeaves(fewer))[config[tier].requirements[n]]
    BY DEF Satisfied
  <2>. QED  BY <1>1, <2>1, HoldsMore
<1>. QED  BY <1>2 DEF Satisfied

(***************************************************************************)
(* A requirement of which everything was tried: what is left was not       *)
(* accepted throughout.                                                    *)
(***************************************************************************)
LEMMA CheckedWhole ==
  ASSUME NEW r, NEW node \in Requirement, CheckedSoFar(r, node), DOMAIN r.open = {}
  PROVE  /\ Unmet(r.met)[node] \subseteq Leaf
         /\ Unmet(r.met)[node] \cap MetLeaves(always) = {}
         /\ Holds(MetLeaves(always))[node] => Unmet(r.met)[node] = {}
         /\ Unmet(r.met)[node] = {} => Holds(MetLeaves(ever))[node]
<1>1. Unmet(r.met)[node] \subseteq Leaves[node] \ r.met /\ Leaves[node] \subseteq Leaf
  BY UnmetAreLeaves, LeavesAreLeaves
<1>2. MetLeaves(always) \cap Leaves[node] \subseteq r.met
  BY DEF CheckedSoFar, MetLeaves
<1>3. Holds(MetLeaves(always))[node] => Unmet(r.met)[node] = {}
  BY <1>2, HoldsMonotone, UnmetIffNotHolds
<1>4. Unmet(r.met)[node] = {} => Holds(MetLeaves(ever))[node]
  <2>1. r.met \cap Leaves[node] \subseteq MetLeaves(ever)
    BY DEF CheckedSoFar
  <2>. QED  BY <2>1, HoldsMonotone, UnmetIffNotHolds
<1>. QED  BY <1>1, <1>2, <1>3, <1>4

-----------------------------------------------------------------------------
(***************************************************************************)
(* A pass moves on: nothing of the next requirement has been tried.        *)
(***************************************************************************)
LEMMA CheckingFields ==
  ASSUME NEW r, IsResolver(r), NEW tier, NEW n \in Nat \ {0}, NEW c,
         c = Checking(r, tier, n)
  PROVE  /\ IsResolver(c)
         /\ c.phase = r.phase /\ c.tier = tier /\ c.req = n /\ c.met = {} /\ c.unmet = r.unmet
         /\ c.best = r.best /\ c.bestCount = r.bestCount /\ c.fewest = r.fewest
         /\ c.found = r.found /\ c.answer = r.answer
         /\ tier > Len(TierOrder) => DOMAIN c.open = {}
         /\ ~(tier > Len(TierOrder)) =>
              IF n > Len(config[TierOrder[tier]].requirements) THEN DOMAIN c.open = {}
              ELSE c.open = Opened(config[TierOrder[tier]].requirements[n])
<1>. DEFINE reqs == IF tier > Len(TierOrder) THEN <<>> ELSE config[TierOrder[tier]].requirements
            open == IF n > Len(reqs) THEN [leaf \in {} |-> {}] ELSE Opened(reqs[n])
<1>1. c = [r EXCEPT !.tier = tier, !.req = n, !.met = {}, !.open = open]
  BY DEF Checking
<1>. HIDE DEF open
<1>2. /\ IsResolver(c)
      /\ c.phase = r.phase /\ c.tier = tier /\ c.req = n /\ c.met = {} /\ c.unmet = r.unmet
      /\ c.best = r.best /\ c.bestCount = r.bestCount /\ c.fewest = r.fewest
      /\ c.found = r.found /\ c.answer = r.answer /\ c.open = open
  BY <1>1 DEF IsResolver
<1>3. tier > Len(TierOrder) => DOMAIN open = {}
  <2>1. tier > Len(TierOrder) => reqs = <<>> /\ n > Len(reqs)
    OBVIOUS
  <2>. QED  BY <2>1 DEF open
<1>4. ~(tier > Len(TierOrder)) =>
        IF n > Len(config[TierOrder[tier]].requirements) THEN DOMAIN open = {}
        ELSE open = Opened(config[TierOrder[tier]].requirements[n])
  BY DEF open
<1>. HIDE DEF reqs
<1>. QED  BY <1>2, <1>3, <1>4

LEMMA CheckingStarts ==
  ASSUME Bracket, NEW r, IsResolver(r), Working(r),
         NEW tier \in 1 .. Len(TierOrder) + 1, NEW n \in Nat \ {0},
         tier <= Len(TierOrder) =>
           /\ Considered(r.phase, TierOrder[tier])
           /\ n <= Len(config[TierOrder[tier]].requirements) + 1,
         NEW c, c = Checking(r, tier, n)
  PROVE  /\ Position(c)
         /\ InRequirement(c) => CheckedSoFar(c, Of(c)[c.req])
<1>1. Len(TierOrder) \in Nat /\ tier \in Nat
  BY ConfigFacts
<1>2. c.tier = tier /\ c.req = n /\ c.phase = r.phase /\ c.met = {}
  BY CheckingFields
<1>3. CASE tier > Len(TierOrder)
  <2>1. DOMAIN c.open = {}
    BY <1>3, CheckingFields
  <2>. QED  BY <1>1, <1>2, <1>3, <2>1 DEF Position, InRequirement, InTier
<1>4. CASE ~(tier > Len(TierOrder))
  <2>. DEFINE reqs == config[TierOrder[tier]].requirements
  <2>1. Len(reqs) \in Nat /\ Of(c) = reqs
    <3>1. TierOrder[tier] \in Tier
      BY <1>1, <1>4, ConfigFacts
    <3>2. reqs \in Seq(Requirement)
      BY <3>1, ConfigFacts
    <3>. QED  BY <1>2, <3>2 DEF Of
  <2>2. CASE n > Len(reqs)
    <3>1. DOMAIN c.open = {}
      BY <1>4, <2>2, CheckingFields
    <3>. HIDE DEF reqs
    <3>. QED  BY <1>1, <1>2, <1>4, <2>1, <2>2, <3>1 DEF Position, InRequirement, InTier, reqs
  <2>3. CASE ~(n > Len(reqs))
    <3>1. c.open = Opened(reqs[n])
      BY <1>4, <2>3, CheckingFields
    <3>2. DOMAIN c.open \subseteq Leaves[reqs[n]]
      BY <3>1 DEF Opened
    <3>3. \A leaf \in Leaves[reqs[n]] : \A p \in ProofsFor(leaf) :
            leaf \in DOMAIN c.open /\ p \in c.open[leaf]
      BY <3>1 DEF Opened
    <3>4. \A leaf \in DOMAIN c.open : c.open[leaf] \subseteq ProofsFor(leaf)
      BY <3>1 DEF Opened
    <3>5. CheckedSoFar(c, reqs[n])
      BY <1>2, <3>2, <3>3, <3>4 DEF CheckedSoFar
    <3>6. Position(c)
      BY <1>1, <1>2, <1>4, <2>1, <2>3 DEF Position, InRequirement, InTier, Working
    <3>. QED  BY <1>2, <2>1, <3>5, <3>6
  <2>. QED  BY <2>2, <2>3
<1>. QED  BY <1>3, <1>4

(***************************************************************************)
(* A pass moves to the next tier it considers: those it skips are not      *)
(* considered.                                                             *)
(***************************************************************************)
LEMMA TierStarts ==
  ASSUME Bracket, NEW r, Typed(r), Working(r), r.unmet = {},
         NEW i \in 1 .. Len(TierOrder) + 1, BestSatisfied(r),
         r.phase = "tiers" => BestSoFar(r, i), r.phase = "report" => ReportSoFar(r, i)
  PROVE  ResolverInv(Checking(r, NextTier(r.phase, i), 1))
<1>. DEFINE next == NextTier(r.phase, i)
            c == Checking(r, next, 1)
<1>1. Len(TierOrder) \in Nat /\ i \in Nat
  BY ConfigFacts
<1>2. /\ next \in i .. Len(TierOrder) + 1
      /\ next <= Len(TierOrder) => Considered(r.phase, TierOrder[next])
      /\ \A k \in i .. next - 1 : ~Considered(r.phase, TierOrder[k])
  BY NextTierFacts
<1>3. next \in 1 .. Len(TierOrder) + 1 /\ next \in Nat
  BY <1>1, <1>2
<1>4. IsResolver(r)
  BY DEF Typed
<1>. HIDE DEF next
<1>5. /\ IsResolver(c)
      /\ c.phase = r.phase /\ c.tier = next /\ c.req = 1 /\ c.met = {} /\ c.unmet = r.unmet
      /\ c.best = r.best /\ c.bestCount = r.bestCount /\ c.fewest = r.fewest
      /\ c.found = r.found /\ c.answer = r.answer
  BY <1>4, CheckingFields
<1>6. next <= Len(TierOrder) => 1 <= Len(config[TierOrder[next]].requirements) + 1
  <2>1. next <= Len(TierOrder) => TierOrder[next] \in Tier
    BY <1>1, <1>3, ConfigFacts
  <2>2. next <= Len(TierOrder) => config[TierOrder[next]].requirements \in Seq(Requirement)
    BY <2>1, ConfigFacts
  <2>. QED  BY <2>2
<1>7. Position(c) /\ (InRequirement(c) => CheckedSoFar(c, Of(c)[c.req]))
  BY <1>2, <1>3, <1>4, <1>6, CheckingStarts
<1>. HIDE DEF c
<1>8. Shape(c)
  BY <1>3, <1>5 DEF Shape, Typed, Working
<1>9. GatheredSoFar(c)
  BY <1>5 DEF GatheredSoFar, Before
<1>10. BestSatisfied(c)
  BY <1>5 DEF BestSatisfied
<1>11. c.phase = "tiers" => BestSoFar(c, c.tier)
  <2>1. SUFFICES ASSUME r.phase = "tiers" PROVE BestSoFar(c, next)
    BY <1>5
  <2>2. \A k \in 1 .. next - 1 : k \in 1 .. i - 1 \/ ~Considered("tiers", TierOrder[k])
    BY <1>1, <1>2, <1>3, <2>1
  <2>. QED  BY <1>5, <2>1, <2>2 DEF BestSoFar
<1>12. c.phase = "report" => ReportSoFar(c, c.tier)
  <2>1. SUFFICES ASSUME r.phase = "report" PROVE ReportSoFar(c, next)
    BY <1>5
  <2>2. \A k \in 1 .. next - 1 : k \in 1 .. i - 1 \/ ~Considered("report", TierOrder[k])
    BY <1>1, <1>2, <1>3, <2>1
  <2>. QED  BY <1>5, <2>1, <2>2 DEF ReportSoFar
<1>13. Progress(c)
  BY <1>7, <1>9, <1>10, <1>11, <1>12 DEF Progress
<1>14. Outcome(c)
  BY <1>5 DEF Outcome, Working
<1>. QED  BY <1>7, <1>8, <1>13, <1>14 DEF ResolverInv, c, next

-----------------------------------------------------------------------------
(***************************************************************************)
(* The resolver's steps, each for an arbitrary local state r.              *)
(***************************************************************************)
LEMMA NodeFacts ==
  ASSUME Bracket, NEW r, Shape(r), InTier(r)
  PROVE  /\ r.tier \in 1 .. Len(TierOrder) /\ r.tier \in Nat /\ Len(TierOrder) \in Nat
         /\ TierOrder[r.tier] \in Tier
         /\ Of(r) \in Seq(Requirement) /\ Len(Of(r)) \in Nat
         /\ r.req \in Nat \ {0}
         /\ InRequirement(r) => Of(r)[r.req] \in Requirement
<1>1. r.tier \in 1 .. Len(TierOrder) /\ Len(TierOrder) \in Nat /\ r.req \in Nat \ {0}
  <2>1. Len(TierOrder) \in Nat
    BY ConfigFacts
  <2>2. r.tier \in 1 .. Len(TierOrder) + 1 /\ r.req \in Nat \ {0}
    BY DEF Shape
  <2>3. r.tier <= Len(TierOrder)
    BY DEF InTier
  <2>. QED  BY <2>1, <2>2, <2>3
<1>2. TierOrder[r.tier] \in Tier
  BY <1>1, ConfigFacts
<1>3. Of(r) \in Seq(Requirement)
  BY <1>2, ConfigFacts DEF Of
<1>4. InRequirement(r) => r.req <= Len(Of(r))
  BY DEF InRequirement
<1>. QED  BY <1>1, <1>2, <1>3, <1>4

LEMMA IdleInv ==
  ASSUME NEW r, Shape(r), r.phase \in {"idle", "received"}
  PROVE  ResolverInv(r)
<1>1. DOMAIN r.open = {}
  BY DEF Shape, Received, Idle
<1>2. ~Working(r) /\ r.phase # "answered"
  BY DEF Working
<1>3. Position(r)
  BY <1>1, <1>2 DEF Position, InTier
<1>4. Progress(r)
  BY <1>2 DEF Progress, InRequirement, InTier, Working
<1>. QED  BY <1>2, <1>3, <1>4 DEF ResolverInv, Outcome

LEMMA ReceiveInv ==
  ASSUME Bracket, NEW r, Shape(r), r.phase = "received"
  PROVE  ResolverInv(StartPass(r, "tiers"))
<1>. DEFINE b == [r EXCEPT !.phase = "tiers", !.unmet = {}]
<1>1. Typed(r) /\ IsResolver(r)
  BY DEF Shape, Typed
<1>2. r.best = default_tier /\ r.bestCount = 0 /\ r.fewest = {} /\ r.found = FALSE
  BY DEF Shape, Received, Idle
<1>3. /\ IsResolver(b) /\ b.phase = "tiers" /\ b.unmet = {} /\ b.answer = r.answer
      /\ b.best = r.best /\ b.bestCount = r.bestCount /\ b.fewest = r.fewest
      /\ b.found = r.found
  <2>1. b = [r EXCEPT !.phase = "tiers", !.unmet = {}]
    OBVIOUS
  <2>. HIDE DEF b
  <2>. QED  BY <1>1, <2>1 DEF IsResolver
<1>. HIDE DEF b
<1>4. Typed(b) /\ Working(b)
  BY <1>1, <1>3 DEF Typed, Working
<1>5. BestSatisfied(b) /\ BestSoFar(b, 1)
  BY <1>2, <1>3 DEF BestSatisfied, BestSoFar
<1>6. 1 \in 1 .. Len(TierOrder) + 1
  BY ConfigFacts
<1>7. ResolverInv(Checking(b, NextTier(b.phase, 1), 1))
  BY <1>3, <1>4, <1>5, <1>6, TierStarts
<1>. QED  BY <1>3, <1>7 DEF StartPass, b

(***************************************************************************)
(* Trying a proof: only what was tried changes.                            *)
(***************************************************************************)
LEMMA TriedInv ==
  ASSUME Bracket, NEW r, ResolverInv(r), NEW leaf \in DOMAIN r.open, NEW p \in r.open[leaf]
  PROVE  ResolverInv(Tried(r, leaf, p))
<1>. DEFINE c == Tried(r, leaf, p)
            node == Of(r)[r.req]
<1>1. Shape(r) /\ Typed(r) /\ IsResolver(r) /\ Position(r) /\ Progress(r) /\ Outcome(r)
  BY DEF ResolverInv, Shape, Typed
<1>2. InRequirement(r) /\ InTier(r) /\ Working(r)
  BY <1>1 DEF Position, InRequirement, InTier
<1>3. CheckedSoFar(r, node) /\ node \in Requirement
  BY <1>1, <1>2, NodeFacts DEF Progress
<1>4. leaf \in Leaves[node] /\ leaf \in Leaf /\ p \in ProofsFor(leaf)
  BY <1>3, LeavesAreLeaves DEF CheckedSoFar
<1>. DEFINE Moved == /\ IsResolver(c) /\ c.phase = r.phase /\ c.tier = r.tier /\ c.req = r.req
                     /\ c.unmet = r.unmet /\ c.best = r.best /\ c.bestCount = r.bestCount
                     /\ c.fewest = r.fewest /\ c.found = r.found /\ c.answer = r.answer
<1>5. Moved /\ CheckedSoFar(c, node)
  <2>1. CASE Accepted(p, leaf, verdict)
    <3>1. c = [r EXCEPT !.open = Without(r.open, leaf), !.met = r.met \cup {leaf}]
      BY <2>1 DEF Tried, Accepts
    <3>2. Moved /\ c.open = Without(r.open, leaf) /\ c.met = r.met \cup {leaf}
      <4>. HIDE DEF c
      <4>. QED  BY <1>1, <3>1 DEF IsResolver
    <3>. HIDE DEF c
    <3>3. DOMAIN c.open = DOMAIN r.open \ {leaf} /\ \A l \in DOMAIN c.open : c.open[l] = r.open[l]
      BY <3>2 DEF Without
    <3>4. Accepted(p, leaf, ever)
      BY <2>1, AcceptedMonotone DEF Bracket
    <3>5. leaf \in MetLeaves(ever)
      BY <1>4, <3>4 DEF MetLeaves
    <3>. QED  BY <1>3, <1>4, <3>2, <3>3, <3>5 DEF CheckedSoFar
  <2>2. CASE ~Accepted(p, leaf, verdict)
    <3>1. ~Accepted(p, leaf, always)
      BY <2>2, AcceptedMonotone DEF Bracket
    <3>2. CASE r.open[leaf] = {p}
      <4>1. c = [r EXCEPT !.open = Without(r.open, leaf)]
        BY <2>2, <3>2 DEF Tried, Rejects
      <4>2. Moved /\ c.open = Without(r.open, leaf) /\ c.met = r.met
        <5>. HIDE DEF c
        <5>. QED  BY <1>1, <4>1 DEF IsResolver
      <4>. HIDE DEF c
      <4>3. DOMAIN c.open = DOMAIN r.open \ {leaf} /\ \A l \in DOMAIN c.open : c.open[l] = r.open[l]
        BY <4>2 DEF Without
      <4>. QED  BY <1>3, <3>1, <3>2, <4>2, <4>3 DEF CheckedSoFar
    <3>3. CASE r.open[leaf] # {p}
      <4>1. c = [r EXCEPT !.open = [r.open EXCEPT ![leaf] = r.open[leaf] \ {p}]]
        BY <2>2, <3>3 DEF Tried, Rejects
      <4>2. Moved /\ c.open = [r.open EXCEPT ![leaf] = r.open[leaf] \ {p}] /\ c.met = r.met
        <5>. HIDE DEF c
        <5>. QED  BY <1>1, <4>1 DEF IsResolver
      <4>. HIDE DEF c
      <4>3. /\ DOMAIN c.open = DOMAIN r.open /\ c.open[leaf] = r.open[leaf] \ {p}
            /\ \A l \in DOMAIN r.open : l # leaf => c.open[l] = r.open[l]
        BY <4>2
      <4>. QED  BY <1>3, <3>1, <4>2, <4>3 DEF CheckedSoFar
    <3>. QED  BY <3>2, <3>3
  <2>. QED  BY <2>1, <2>2
<1>. HIDE DEF c
<1>6. Of(c) = Of(r)
  BY <1>5 DEF Of
<1>7. Shape(c)
  BY <1>1, <1>2, <1>5 DEF Shape, Typed, Working
<1>8. InRequirement(c) /\ InTier(c) /\ Working(c)
  BY <1>2, <1>5, <1>6 DEF InRequirement, InTier, Working
<1>9. Position(c)
  BY <1>1, <1>2, <1>5, <1>6, <1>8 DEF Position
<1>10. GatheredSoFar(c)
  <2>1. GatheredSoFar(r)
    BY <1>1, <1>2 DEF Progress
  <2>. QED  BY <2>1, <1>5, <1>6 DEF GatheredSoFar, Before
<1>11. BestSatisfied(c)
  BY <1>1, <1>2, <1>5 DEF Progress, BestSatisfied
<1>12. c.phase = "tiers" => BestSoFar(c, c.tier)
  BY <1>1, <1>5 DEF Progress, BestSoFar
<1>13. c.phase = "report" => ReportSoFar(c, c.tier)
  BY <1>1, <1>5 DEF Progress, ReportSoFar
<1>14. Progress(c)
  BY <1>5, <1>6, <1>10, <1>11, <1>12, <1>13 DEF Progress
<1>15. Outcome(c)
  BY <1>8 DEF Outcome, Working
<1>. QED  BY <1>7, <1>9, <1>14, <1>15 DEF ResolverInv, c

(***************************************************************************)
(* A requirement is done: its unmet leaves are gathered.                   *)
(***************************************************************************)
GatheredIn(r) == [r EXCEPT !.unmet = @ \cup Unmet(r.met)[Of(r)[r.req]]]

LEMMA RequirementDoneInv ==
  ASSUME Bracket, NEW r, ResolverInv(r), InRequirement(r), DOMAIN r.open = {},
         NEW g, g = GatheredIn(r)
  PROVE  ResolverInv(Checking(g, r.tier, r.req + 1))
<1>. DEFINE n == r.req + 1
            c == Checking(g, r.tier, n)
            node == Of(r)[r.req]
            more == Unmet(r.met)[node]
            reqs == config[TierOrder[r.tier]].requirements
<1>1. Shape(r) /\ Typed(r) /\ IsResolver(r) /\ Position(r) /\ Progress(r)
  BY DEF ResolverInv, Shape, Typed
<1>2. InTier(r) /\ Working(r)
  BY DEF InRequirement, InTier
<1>3. /\ CheckedSoFar(r, node) /\ node \in Requirement
      /\ r.tier \in 1 .. Len(TierOrder) + 1 /\ r.req + 1 \in Nat \ {0}
      /\ r.tier <= Len(TierOrder) /\ Of(r) = reqs
      /\ Considered(r.phase, TierOrder[r.tier]) /\ r.req + 1 <= Len(reqs) + 1
      /\ r.req \in Nat /\ r.req >= 1 /\ Len(reqs) \in Nat
  <2>1. /\ r.tier \in 1 .. Len(TierOrder) /\ Len(TierOrder) \in Nat
        /\ Len(Of(r)) \in Nat /\ r.req \in Nat \ {0} /\ node \in Requirement
    BY <1>1, <1>2, NodeFacts
  <2>2. Of(r) = reqs /\ r.req <= Len(reqs)
    BY DEF Of, InRequirement
  <2>3. CheckedSoFar(r, node)
    BY <1>1 DEF Progress
  <2>4. Considered(r.phase, TierOrder[r.tier])
    BY <1>1, <1>2 DEF Position
  <2>. HIDE DEF node, reqs
  <2>. QED  BY <2>1, <2>2, <2>3, <2>4
<1>4. /\ more \subseteq Leaf /\ more \cap MetLeaves(always) = {}
      /\ Holds(MetLeaves(always))[node] => more = {}
      /\ more = {} => Holds(MetLeaves(ever))[node]
  BY <1>3, CheckedWhole
<1>. HIDE DEF node, more, reqs
<1>5. /\ IsResolver(g) /\ g.unmet = r.unmet \cup more /\ g.phase = r.phase /\ g.best = r.best
      /\ g.bestCount = r.bestCount /\ g.fewest = r.fewest /\ g.found = r.found
      /\ g.answer = r.answer
  <2>1. g = [r EXCEPT !.unmet = r.unmet \cup more]
    BY DEF GatheredIn, more, node
  <2>. QED  BY <1>1, <2>1 DEF IsResolver
<1>6. /\ IsResolver(c)
      /\ c.phase = r.phase /\ c.tier = r.tier /\ c.req = r.req + 1 /\ c.met = {}
      /\ c.unmet = r.unmet \cup more
      /\ c.best = r.best /\ c.bestCount = r.bestCount /\ c.fewest = r.fewest
      /\ c.found = r.found /\ c.answer = r.answer
  <2>1. n \in Nat \ {0} /\ n = r.req + 1 /\ c = Checking(g, r.tier, n)
    BY <1>3
  <2>. HIDE DEF c, n
  <2>. QED  BY <1>5, <2>1, CheckingFields
<1>7. Position(c) /\ (InRequirement(c) => CheckedSoFar(c, Of(c)[c.req]))
  <2>1. Working(g)
    BY <1>2, <1>5 DEF Working
  <2>. QED  BY <1>3, <1>5, <2>1, CheckingStarts DEF reqs
<1>. HIDE DEF c
<1>8. Shape(c)
  BY <1>1, <1>2, <1>3, <1>4, <1>6 DEF Shape, Typed, Working
<1>9. Of(c) = Of(r)
  BY <1>6 DEF Of
<1>10. GatheredSoFar(c)
  <2>1. GatheredSoFar(r)
    BY <1>1, <1>2 DEF Progress
  <2>2. ASSUME NEW pairs
        PROVE  Before(c, pairs) <=> Before(r, pairs) /\ Holds(MetLeaves(pairs))[node]
    <3>1. c.req - 1 = r.req /\ \A m : m \in 1 .. r.req <=> m \in 1 .. r.req - 1 \/ m = r.req
      BY <1>3, <1>6
    <3>2. Before(c, pairs) <=> \A m \in 1 .. r.req : Holds(MetLeaves(pairs))[Of(r)[m]]
      BY <1>9, <3>1 DEF Before
    <3>3. Before(r, pairs) <=> \A m \in 1 .. r.req - 1 : Holds(MetLeaves(pairs))[Of(r)[m]]
      BY DEF Before
    <3>. QED  BY <3>1, <3>2, <3>3 DEF node
  <2>. QED  BY <1>4, <1>6, <2>1, <2>2 DEF GatheredSoFar
<1>11. BestSatisfied(c)
  BY <1>1, <1>2, <1>6 DEF Progress, BestSatisfied
<1>12. c.phase = "tiers" => BestSoFar(c, c.tier)
  BY <1>1, <1>6 DEF Progress, BestSoFar
<1>13. c.phase = "report" => ReportSoFar(c, c.tier)
  BY <1>1, <1>6 DEF Progress, ReportSoFar
<1>14. Progress(c)
  BY <1>7, <1>10, <1>11, <1>12, <1>13 DEF Progress
<1>15. Outcome(c)
  BY <1>2, <1>6 DEF Outcome, Working
<1>. QED  BY <1>7, <1>8, <1>14, <1>15 DEF ResolverInv, c

(***************************************************************************)
(* A tier is done: what was gathered tells whether it is satisfied.        *)
(***************************************************************************)
LEMMA TierWhole ==
  ASSUME Bracket, NEW r, ResolverInv(r), InTier(r), ~InRequirement(r)
  PROVE  LET tier == TierOrder[r.tier] IN
         /\ r.unmet = {} => Satisfied(tier, ever)
         /\ Satisfied(tier, always) => r.unmet = {}
         /\ r.unmet \cap MetLeaves(always) = {}
<1>. DEFINE tier == TierOrder[r.tier]
            reqs == config[tier].requirements
<1>1. Shape(r) /\ Position(r) /\ GatheredSoFar(r)
  BY DEF ResolverInv, Progress
<1>2. /\ Of(r) = reqs /\ reqs \in Seq(Requirement) /\ Len(reqs) \in Nat
      /\ r.req \in Nat /\ r.req = Len(reqs) + 1
  BY <1>1, NodeFacts DEF Of, Position, InRequirement
<1>3. ASSUME NEW pairs PROVE Before(r, pairs) <=> Satisfied(tier, pairs)
  <2>1. DOMAIN reqs = 1 .. r.req - 1
    <3>. HIDE DEF reqs
    <3>. QED  BY <1>2
  <2>2. Before(r, pairs) <=> \A n \in 1 .. r.req - 1 : Holds(MetLeaves(pairs))[reqs[n]]
    BY <1>2 DEF Before
  <2>. QED  BY <2>1, <2>2 DEF Satisfied
<1>. QED  BY <1>1, <1>3 DEF GatheredSoFar

(***************************************************************************)
(* A tier is compared with the best so far, or with the one of fewest      *)
(* unmet leaves.                                                           *)
(***************************************************************************)
Compared(r) ==
  LET tier == TierOrder[r.tier] IN
    IF r.phase = "tiers" THEN BetterOf(r, tier, accessCount(tier)) ELSE FewerUnmet(r)

AfterTier(r) == [Compared(r) EXCEPT !.unmet = {}]

LEMMA TierDoneInv ==
  ASSUME Bracket, NEW r, ResolverInv(r), InTier(r), ~InRequirement(r)
  PROVE  ResolverInv(Checking(AfterTier(r), NextTier(r.phase, r.tier + 1), 1))
<1>. DEFINE tier == TierOrder[r.tier]
            count == accessCount(tier)
            m == Compared(r)
            b == AfterTier(r)
<1>1. Shape(r) /\ Typed(r) /\ IsResolver(r) /\ Position(r) /\ Progress(r)
  BY DEF ResolverInv, Shape, Typed
<1>2. /\ r.tier \in 1 .. Len(TierOrder) /\ r.tier \in Nat /\ Len(TierOrder) \in Nat /\ tier \in Tier
      /\ Considered(r.phase, tier) /\ r.phase \in {"tiers", "report"}
  BY <1>1, NodeFacts DEF Position, InTier, Working
<1>3. count \in Nat \ {0}
  BY <1>2, CountFacts
<1>4. /\ r.unmet = {} => Satisfied(tier, ever)
      /\ Satisfied(tier, always) => r.unmet = {}
      /\ r.unmet \cap MetLeaves(always) = {}
  BY TierWhole
<1>5. \A i : i \in 1 .. r.tier => i \in 1 .. r.tier - 1 \/ i = r.tier
  BY <1>2
<1>6. r.tier + 1 \in 1 .. Len(TierOrder) + 1 /\ (r.tier + 1) - 1 = r.tier
  BY <1>2
<1>7. BestSatisfied(r)
  BY <1>1, <1>2 DEF Progress, Working
<1>8. /\ IsResolver(m) => IsResolver(b)
      /\ IsResolver(m) => /\ b.unmet = {} /\ b.phase = m.phase /\ b.best = m.best
                          /\ b.bestCount = m.bestCount /\ b.fewest = m.fewest
                          /\ b.found = m.found /\ b.answer = m.answer
  <2>1. b = [m EXCEPT !.unmet = {}]
    BY DEF AfterTier
  <2>. HIDE DEF m, b
  <2>. QED  BY <2>1 DEF IsResolver
<1>9. CASE r.phase = "tiers"
  <2>1. BestSoFar(r, r.tier) /\ tier # default_tier /\ Gated(tier) /\ Relevant(tier)
    BY <1>1, <1>2, <1>9 DEF Progress, Considered, Gated
  <2>2. m = BetterOf(r, tier, count)
    BY <1>9 DEF Compared
  <2>. HIDE DEF tier, count, b
  <2>3. CASE r.unmet = {} /\ count > r.bestCount
    <3>1. m = [r EXCEPT !.best = tier, !.bestCount = count]
      BY <2>2, <2>3 DEF BetterOf
    <3>. HIDE DEF m
    <3>2. /\ IsResolver(m) /\ m.best = tier /\ m.bestCount = count /\ m.phase = r.phase
          /\ m.fewest = r.fewest /\ m.found = r.found /\ m.answer = r.answer
      BY <1>1, <3>1 DEF IsResolver
    <3>3. /\ IsResolver(b) /\ b.best = tier /\ b.bestCount = count /\ b.phase = r.phase
          /\ b.fewest = r.fewest /\ b.found = r.found /\ b.answer = r.answer /\ b.unmet = {}
      BY <1>8, <3>2
    <3>4. Typed(b) /\ Working(b)
      BY <1>1, <1>2, <1>3, <3>3 DEF Typed, Working
    <3>5. BestSatisfied(b)
      BY <1>4, <2>1, <2>3, <3>3 DEF BestSatisfied, count
    <3>6. BestSoFar(b, r.tier + 1)
      <4>1. ASSUME NEW i \in 1 .. r.tier, Considered("tiers", TierOrder[i]),
                   Satisfied(TierOrder[i], always)
            PROVE  tier # default_tier /\ accessCount(TierOrder[i]) <= count
        <5>1. CASE i \in 1 .. r.tier - 1
          <6>1. accessCount(TierOrder[i]) <= r.bestCount
            BY <2>1, <4>1, <5>1 DEF BestSoFar
          <6>2. TierOrder[i] \in Tier
            <7>1. i \in 1 .. Len(TierOrder)
              BY <1>2, <4>1
            <7>. QED  BY <7>1, ConfigFacts
          <6>3. accessCount(TierOrder[i]) \in Nat /\ r.bestCount \in Nat
            BY <1>1, <6>2, CountFacts DEF Typed
          <6>. QED  BY <1>3, <2>1, <2>3, <6>1, <6>3
        <5>2. CASE i = r.tier
          BY <1>3, <2>1, <5>2 DEF tier, count
        <5>. QED  BY <1>5, <4>1, <5>1, <5>2
      <4>. QED  BY <1>6, <2>1, <3>3, <4>1 DEF BestSoFar
    <3>7. ResolverInv(Checking(b, NextTier(b.phase, r.tier + 1), 1))
      BY <1>6, <1>9, <3>3, <3>4, <3>5, <3>6, TierStarts
    <3>. QED  BY <3>3, <3>7 DEF b
  <2>4. CASE ~(r.unmet = {} /\ count > r.bestCount)
    <3>1. m = r
      BY <2>2, <2>4 DEF BetterOf
    <3>. HIDE DEF m
    <3>2. /\ IsResolver(b) /\ b.best = r.best /\ b.bestCount = r.bestCount /\ b.phase = r.phase
          /\ b.fewest = r.fewest /\ b.found = r.found /\ b.answer = r.answer /\ b.unmet = {}
      BY <1>1, <1>8, <3>1
    <3>3. Typed(b) /\ Working(b)
      BY <1>1, <1>2, <3>2 DEF Typed, Working
    <3>4. BestSatisfied(b)
      BY <1>7, <3>2 DEF BestSatisfied
    <3>5. BestSoFar(b, r.tier + 1)
      <4>1. ASSUME Satisfied(tier, always)
            PROVE  r.best # default_tier /\ count <= r.bestCount
        <5>1. r.bestCount \in Nat /\ count <= r.bestCount
          BY <1>1, <1>3, <1>4, <2>4, <4>1 DEF Typed
        <5>2. r.bestCount # 0
          BY <1>3, <5>1
        <5>. QED  BY <1>7, <5>1, <5>2 DEF BestSatisfied, Gated
      <4>. QED  BY <1>5, <1>6, <2>1, <3>2, <4>1 DEF BestSoFar, tier, count
    <3>6. ResolverInv(Checking(b, NextTier(b.phase, r.tier + 1), 1))
      BY <1>6, <1>9, <3>2, <3>3, <3>4, <3>5, TierStarts
    <3>. QED  BY <3>2, <3>6 DEF b
  <2>. QED  BY <2>3, <2>4
<1>10. CASE r.phase = "report"
  <2>1. ReportSoFar(r, r.tier)
    BY <1>1, <1>10 DEF Progress
  <2>2. m = FewerUnmet(r)
    BY <1>10 DEF Compared
  <2>. HIDE DEF tier, count, b
  <2>3. /\ IsResolver(m) /\ m.found = TRUE /\ m.phase = r.phase /\ m.best = r.best
        /\ m.bestCount = r.bestCount /\ m.answer = r.answer
        /\ (m.fewest = r.unmet \/ (r.found /\ m.fewest = r.fewest))
    <3>1. CASE ~r.found \/ Cardinality(r.unmet) < Cardinality(r.fewest)
      <4>1. m = [r EXCEPT !.fewest = r.unmet, !.found = TRUE]
        BY <2>2, <3>1 DEF FewerUnmet
      <4>. HIDE DEF m
      <4>. QED  BY <1>1, <4>1 DEF IsResolver
    <3>2. CASE ~(~r.found \/ Cardinality(r.unmet) < Cardinality(r.fewest))
      <4>1. m = r /\ r.found
        BY <2>2, <3>2 DEF FewerUnmet
      <4>2. r.found \in BOOLEAN
        BY <1>1 DEF Typed
      <4>. HIDE DEF m
      <4>. QED  BY <1>1, <4>1, <4>2
    <3>. QED  BY <3>1, <3>2
  <2>. HIDE DEF m
  <2>4. /\ IsResolver(b) /\ b.found = TRUE /\ b.best = r.best /\ b.bestCount = r.bestCount
        /\ b.phase = r.phase /\ b.answer = r.answer /\ b.unmet = {}
        /\ (b.fewest = r.unmet \/ (r.found /\ b.fewest = r.fewest))
    BY <1>8, <2>3
  <2>5. Typed(b) /\ Working(b)
    <3>1. b.fewest \subseteq Leaf
      BY <1>1, <2>4 DEF Typed
    <3>. QED  BY <1>1, <1>2, <2>4, <3>1 DEF Typed, Working
  <2>6. BestSatisfied(b)
    BY <1>7, <2>4 DEF BestSatisfied
  <2>7. ReportSoFar(b, r.tier + 1)
    <3>1. ASSUME always = ever PROVE r.unmet # {}
      <4>1. Gated(tier) /\ Relevant(tier)
        BY <1>2, <1>10, ConfigFacts DEF Considered, Gated, Relevant
      <4>2. ~Satisfied(tier, always)
        BY <1>2, <2>1, <4>1 DEF ReportSoFar, NoneSatisfied
      <4>. QED  BY <1>4, <3>1, <4>2
    <3>2. b.fewest \cap MetLeaves(always) = {} /\ (always = ever => b.fewest # {})
      BY <1>4, <2>1, <2>4, <3>1 DEF ReportSoFar
    <3>. QED  BY <2>1, <2>4, <3>2 DEF ReportSoFar
  <2>8. ResolverInv(Checking(b, NextTier(b.phase, r.tier + 1), 1))
    BY <1>6, <1>10, <2>4, <2>5, <2>6, <2>7, TierStarts
  <2>. QED  BY <2>4, <2>8 DEF b
<1>. QED  BY <1>2, <1>9, <1>10

(***************************************************************************)
(* The first pass is done: the request is granted, or a second pass runs;  *)
(* after the second it is refused.                                         *)
(***************************************************************************)
LEMMA AnswerShape ==
  ASSUME Bracket, NEW r, Shape(r), NEW granted, NEW unmet, NEW body,
         NEW c, c = Answer(r, granted, unmet, body)
  PROVE  /\ Shape(c) /\ c.phase = "answered" /\ DOMAIN c.open = {}
         /\ c.answer.granted = granted /\ c.answer.tier = r.best /\ c.answer.unmet = unmet
<1>1. r.best \in Tier /\ Len(TierOrder) \in Nat /\ default_tier \in Tier
  BY ConfigFacts DEF Shape, Typed
<1>2. c = [phase |-> "answered", tier |-> 1, req |-> 1, met |-> {}, unmet |-> {},
           open |-> [leaf \in {} |-> {}], best |-> default_tier, bestCount |-> 0,
           fewest |-> {}, found |-> FALSE,
           answer |-> [granted |-> granted, tier |-> r.best, unmet |-> unmet, body |-> body]]
  BY DEF Answer, Idle
<1>3. IsResolver(c)
  BY <1>2 DEF IsResolver
<1>4. /\ c.phase = "answered" /\ c.tier = 1 /\ c.req = 1 /\ c.unmet = {} /\ DOMAIN c.open = {}
      /\ c.best = default_tier /\ c.bestCount = 0 /\ c.fewest = {} /\ c.found = FALSE
      /\ c.answer = [granted |-> granted, tier |-> r.best, unmet |-> unmet, body |-> body]
  BY <1>2
<1>5. Typed(c)
  <2>1. c.answer.tier \in Tier
    BY <1>1, <1>4
  <2>2. c.found \in BOOLEAN
    BY <1>4
  <2>3. c.best \in Tier
    BY <1>1, <1>4
  <2>4. c.unmet \subseteq Leaf /\ c.fewest \subseteq Leaf /\ c.bestCount \in Nat
    BY <1>4
  <2>. QED  BY <1>3, <2>1, <2>2, <2>3, <2>4 DEF Typed
<1>6. Shape(c)
  <2>1. 1 \in 1 .. Len(TierOrder) + 1
    BY <1>1
  <2>. QED  BY <1>4, <1>5, <2>1 DEF Shape
<1>. QED  BY <1>4, <1>6

LEMMA AnswerInv ==
  ASSUME Bracket, NEW r, Shape(r), NEW granted \in BOOLEAN, NEW unmet, NEW body,
         IF granted THEN GrantIsRight(r.best) ELSE RefusalIsRight(unmet)
  PROVE  ResolverInv(Answer(r, granted, unmet, body))
<1>. DEFINE c == Answer(r, granted, unmet, body)
<1>1. /\ Shape(c) /\ c.phase = "answered" /\ DOMAIN c.open = {}
      /\ c.answer.granted = granted /\ c.answer.tier = r.best /\ c.answer.unmet = unmet
  BY AnswerShape
<1>. HIDE DEF c
<1>2. ~Working(c)
  BY <1>1 DEF Working
<1>3. Position(c)
  BY <1>1, <1>2 DEF Position, InTier
<1>4. Progress(c)
  BY <1>1, <1>2 DEF Progress, InRequirement, InTier
<1>5. Outcome(c)
  BY <1>1 DEF Outcome
<1>. QED  BY <1>1, <1>3, <1>4, <1>5 DEF ResolverInv, c

LEMMA FirstPassInv ==
  ASSUME Bracket, NEW r, ResolverInv(r), r.phase = "tiers", r.tier > Len(TierOrder)
  PROVE  /\ Relevant(r.best) => ResolverInv(Answer(r, TRUE, {}, {}))
         /\ ~Relevant(r.best) => ResolverInv(StartPass(r, "report"))
<1>1. Shape(r) /\ Typed(r) /\ IsResolver(r) /\ BestSatisfied(r) /\ BestSoFar(r, r.tier)
  BY DEF ResolverInv, Shape, Typed, Progress, Working
<1>2. r.tier = Len(TierOrder) + 1 /\ Len(TierOrder) \in Nat
  <2>1. Len(TierOrder) \in Nat
    BY ConfigFacts
  <2>2. r.tier \in 1 .. Len(TierOrder) + 1
    BY <1>1 DEF Shape
  <2>. QED  BY <2>1, <2>2
<1>3. ASSUME NEW tier \in Tier, Gated(tier), Relevant(tier), Satisfied(tier, always)
      PROVE  r.best # default_tier /\ accessCount(tier) <= r.bestCount
  <2>1. PICK i \in 1 .. Len(TierOrder) : tier = TierOrder[i]
    BY ConfigFacts
  <2>2. Considered("tiers", TierOrder[i]) /\ i \in 1 .. r.tier - 1
    BY <1>2, <1>3, <2>1 DEF Considered, Gated
  <2>. QED  BY <1>1, <1>3, <2>1, <2>2 DEF BestSoFar
<1>4. ASSUME Relevant(r.best) PROVE ResolverInv(Answer(r, TRUE, {}, {}))
  <2>1. r.best # default_tier => r.bestCount = accessCount(r.best)
    BY <1>1 DEF BestSatisfied
  <2>2. GrantIsRight(r.best)
    BY <1>1, <1>3, <1>4, <2>1 DEF GrantIsRight, BestSatisfied
  <2>. QED  BY <1>1, <2>2, AnswerInv
<1>5. ASSUME ~Relevant(r.best) PROVE ResolverInv(StartPass(r, "report"))
  <2>. DEFINE b == [r EXCEPT !.phase = "report", !.unmet = {}]
  <2>1. r.best = default_tier /\ r.bestCount = 0
    BY <1>1, <1>5 DEF BestSatisfied
  <2>2. NoneSatisfied
    BY <1>3, <1>5, <2>1 DEF NoneSatisfied
  <2>3. /\ IsResolver(b) /\ b.phase = "report" /\ b.unmet = {} /\ b.answer = r.answer
        /\ b.best = r.best /\ b.bestCount = r.bestCount /\ b.fewest = r.fewest
        /\ b.found = r.found
    <3>1. b = [r EXCEPT !.phase = "report", !.unmet = {}]
      OBVIOUS
    <3>. HIDE DEF b
    <3>. QED  BY <1>1, <3>1 DEF IsResolver
  <2>. HIDE DEF b
  <2>4. Typed(b) /\ Working(b)
    BY <1>1, <2>3 DEF Typed, Working
  <2>5. BestSatisfied(b) /\ ReportSoFar(b, 1)
    BY <1>1, <2>1, <2>2, <2>3 DEF BestSatisfied, ReportSoFar, BestSoFar
  <2>6. 1 \in 1 .. Len(TierOrder) + 1
    BY <1>2
  <2>7. ResolverInv(Checking(b, NextTier(b.phase, 1), 1))
    BY <2>3, <2>4, <2>5, <2>6, TierStarts
  <2>. QED  BY <2>3, <2>7 DEF StartPass, b
<1>. QED  BY <1>4, <1>5

LEMMA SecondPassInv ==
  ASSUME Bracket, NEW r, ResolverInv(r), r.phase = "report", r.tier > Len(TierOrder), NEW body
  PROVE  ResolverInv(Answer(r, FALSE, r.fewest, body))
<1>1. Shape(r) /\ ReportSoFar(r, r.tier)
  BY DEF ResolverInv, Progress
<1>2. r.tier = Len(TierOrder) + 1 /\ Len(TierOrder) \in Nat
  <2>1. Len(TierOrder) \in Nat
    BY ConfigFacts
  <2>2. r.tier \in 1 .. Len(TierOrder) + 1
    BY <1>1 DEF Shape
  <2>. QED  BY <2>1, <2>2
<1>3. ASSUME NEW tier \in Tier, Gated(tier), Relevant(tier) PROVE r.found
  <2>1. PICK i \in 1 .. Len(TierOrder) : tier = TierOrder[i]
    BY ConfigFacts
  <2>2. request.resource # NoResource
    BY <1>1 DEF ReportSoFar, NoneSatisfied, Relevant
  <2>3. Considered("report", TierOrder[i]) /\ i \in 1 .. r.tier - 1
    BY <1>2, <1>3, <2>1, <2>2 DEF Considered, Gated, Relevant
  <2>. QED  BY <1>1, <2>3 DEF ReportSoFar
<1>4. RefusalIsRight(r.fewest)
  BY <1>1, <1>3 DEF RefusalIsRight, ReportSoFar
<1>. QED  BY <1>1, <1>4, AnswerInv

-----------------------------------------------------------------------------
(***************************************************************************)
(* What the invariant says depends on the configuration, the request and   *)
(* the bracket alone, which the resolver's own steps do not change.        *)
(***************************************************************************)
LEMMA SameTiers ==
  ASSUME UNCHANGED <<config, request>>
  PROVE  /\ \A tier : Relevant(tier)' <=> Relevant(tier)
         /\ \A tier : Gated(tier)' <=> Gated(tier)
         /\ \A tier : accessCount(tier)' = accessCount(tier)
         /\ \A phase, tier : Considered(phase, tier)' <=> Considered(phase, tier)
         /\ \A leaf : ProofsFor(leaf)' = ProofsFor(leaf)
         /\ \A p, leaf : Accepted(p, leaf, always)' <=> Accepted(p, leaf, always')
         /\ \A p, leaf : Accepted(p, leaf, ever)' <=> Accepted(p, leaf, ever')
<1>1. \A tier : Relevant(tier)' <=> Relevant(tier)
  BY DEF Relevant, matchesAny, matchResource
<1>2. \A tier : Gated(tier)' <=> Gated(tier)
  BY DEF Gated
<1>3. \A tier : accessCount(tier)' = accessCount(tier)
  BY DEF accessCount
<1>4. \A phase, tier : Considered(phase, tier)' <=> Considered(phase, tier)
  BY DEF Considered, Relevant, matchesAny, matchResource
<1>5. \A leaf : ProofsFor(leaf)' = ProofsFor(leaf)
  BY DEF ProofsFor
<1>6. /\ \A p, leaf : Accepted(p, leaf, always)' <=> Accepted(p, leaf, always')
      /\ \A p, leaf : Accepted(p, leaf, ever)' <=> Accepted(p, leaf, ever')
  BY DEF Accepted
<1>. QED  BY <1>1, <1>2, <1>3, <1>4, <1>5, <1>6

LEMMA SameLeaves ==
  ASSUME UNCHANGED <<config, request>>
  PROVE  /\ MetLeaves(always)' = MetLeaves(always')
         /\ MetLeaves(ever)' = MetLeaves(ever')
         /\ \A tier : Satisfied(tier, always)' <=> Satisfied(tier, always')
         /\ \A tier : Satisfied(tier, ever)' <=> Satisfied(tier, ever')
<1>1. MetLeaves(always)' = MetLeaves(always') /\ MetLeaves(ever)' = MetLeaves(ever')
  BY SameTiers DEF MetLeaves
<1>2. \A tier : Satisfied(tier, always)' <=> Satisfied(tier, always')
  BY <1>1 DEF Satisfied
<1>3. \A tier : Satisfied(tier, ever)' <=> Satisfied(tier, ever')
  BY <1>1 DEF Satisfied
<1>. QED  BY <1>1, <1>2, <1>3

LEMMA Frame ==
  ASSUME UNCHANGED <<config, request, always, ever>>, ResolverInv(resolver')
  PROVE  ResolverInv(resolver)'
<1>1. Shape(resolver)' <=> Shape(resolver')
  BY DEF Shape, Typed, IsResolver
<1>2. /\ Of(resolver)' = Of(resolver')
      /\ InTier(resolver)' <=> InTier(resolver')
      /\ Working(resolver)' <=> Working(resolver')
  BY DEF Of, InTier, Working
<1>3. InRequirement(resolver)' <=> InRequirement(resolver')
  BY <1>2 DEF InRequirement
<1>4. Position(resolver)' <=> Position(resolver')
  BY <1>2, <1>3, SameTiers DEF Position
<1>5. \A node : CheckedSoFar(resolver, node)' <=> CheckedSoFar(resolver', node)
  BY SameTiers, SameLeaves DEF CheckedSoFar
<1>6. (Before(resolver, ever)' <=> Before(resolver', ever))
      /\ (Before(resolver, always)' <=> Before(resolver', always))
  BY <1>2, SameLeaves DEF Before
<1>7. GatheredSoFar(resolver)' <=> GatheredSoFar(resolver')
  BY <1>6, SameLeaves DEF GatheredSoFar
<1>8. BestSatisfied(resolver)' <=> BestSatisfied(resolver')
  BY SameTiers, SameLeaves DEF BestSatisfied
<1>9. BestSoFar(resolver, resolver.tier)' <=> BestSoFar(resolver', resolver'.tier)
  BY SameTiers, SameLeaves DEF BestSoFar
<1>10. NoneSatisfied' <=> NoneSatisfied
  BY SameTiers, SameLeaves DEF NoneSatisfied
<1>11. ReportSoFar(resolver, resolver.tier)' <=> ReportSoFar(resolver', resolver'.tier)
  BY <1>10, SameTiers, SameLeaves DEF ReportSoFar
<1>12. Progress(resolver)' <=> Progress(resolver')
  BY <1>2, <1>3, <1>5, <1>7, <1>8, <1>9, <1>11 DEF Progress
<1>13. \A tier : GrantIsRight(tier)' <=> GrantIsRight(tier)
  BY SameTiers, SameLeaves DEF GrantIsRight
<1>14. \A unmet : RefusalIsRight(unmet)' <=> RefusalIsRight(unmet)
  BY <1>10, SameTiers, SameLeaves DEF RefusalIsRight
<1>15. Outcome(resolver)' <=> Outcome(resolver')
  BY <1>13, <1>14 DEF Outcome
<1>. QED  BY <1>1, <1>4, <1>12, <1>15 DEF ResolverInv

(***************************************************************************)
(* A verdict changes: what was accepted throughout shrinks, what was       *)
(* accepted at some time grows.                                            *)
(***************************************************************************)
LEMMA ChangeInv ==
  ASSUME IInv, NEW pl \in Questions(request.proofs), Change(pl)
  PROVE  IInv'
<1>. DEFINE r == resolver
<1>1. /\ Bracket /\ Shape(r) /\ Position(r) /\ Progress(r)
      /\ r.phase \in {"tiers", "report"} /\ Working(r)
  BY DEF IInv, ResolverInv, Change, Working
<1>2. /\ UNCHANGED <<config, request>> /\ resolver' = resolver
      /\ always' \subseteq always /\ ever \subseteq ever'
      /\ always' = always \cap verdict' /\ ever' = ever \cup verdict'
      /\ (verdict' = verdict \ {pl} \/ verdict' = verdict \cup {pl})
      /\ changes' = changes + 1
  BY DEF Change
<1>3. Bracket'
  <2>1. pl \in Pairs
    BY DEF Questions
  <2>2. verdict' \subseteq Pairs
    BY <1>1, <1>2, <2>1 DEF Bracket
  <2>3. changes' \in Nat
    BY <1>1 DEF Change, Bracket
  <2>4. /\ config' \in Configs /\ request'.resource \in Resources \cup {NoResource}
        /\ request'.proofs \subseteq Proof /\ request'.strict \in BOOLEAN
        /\ ever \subseteq Pairs
    BY <1>1, <1>2 DEF Bracket
  <2>5. always' \subseteq verdict' /\ verdict' \subseteq ever' /\ ever' \subseteq Pairs
    BY <1>2, <2>2, <2>4
  <2>. QED  BY <2>3, <2>4, <2>5 DEF Bracket, Pairs
<1>4. /\ MetLeaves(always') \subseteq MetLeaves(always) /\ MetLeaves(ever) \subseteq MetLeaves(ever')
      /\ MetLeaves(always)' = MetLeaves(always') /\ MetLeaves(ever)' = MetLeaves(ever')
  BY <1>2, MetMonotone, SameLeaves
<1>5. /\ \A tier \in Tier : Satisfied(tier, always)' => Satisfied(tier, always)
      /\ \A tier \in Tier : Satisfied(tier, ever) => Satisfied(tier, ever)'
  BY <1>1, <1>2, SatisfiedMonotone, SameLeaves
<1>6. always' = ever' => always = ever /\ always' = always
  <2>1. always \subseteq ever
    BY <1>1 DEF Bracket
  <2>. QED  BY <1>2, <2>1
<1>7. /\ Of(resolver)' = Of(r)
      /\ InTier(resolver)' <=> InTier(r)
      /\ Working(resolver)' <=> Working(r)
  BY <1>2 DEF Of, InTier, Working
<1>8. InRequirement(resolver)' <=> InRequirement(r)
  BY <1>2, <1>7 DEF InRequirement
<1>9. Shape(resolver)'
  BY <1>1, <1>2 DEF Shape, Typed, IsResolver
<1>10. Position(resolver)'
  BY <1>1, <1>2, <1>7, <1>8, SameTiers DEF Position
<1>11. ASSUME NEW node, CheckedSoFar(r, node) PROVE CheckedSoFar(resolver, node)'
  <2>1. \A p, leaf : Accepted(p, leaf, always)' => Accepted(p, leaf, always)
    BY <1>2, AcceptedMonotone, SameTiers
  <2>. QED  BY <1>2, <1>4, <1>11, <2>1, SameTiers DEF CheckedSoFar
<1>12. ASSUME InTier(r) PROVE GatheredSoFar(resolver)'
  <2>1. GatheredSoFar(r)
    BY <1>1, <1>12 DEF Progress
  <2>2. \A n \in 1 .. r.req - 1 : Of(r)[n] \in Requirement
    <3>1. Of(r) \in Seq(Requirement) /\ Len(Of(r)) \in Nat /\ r.req \in Nat /\ r.req <= Len(Of(r)) + 1
      BY <1>1, <1>12, NodeFacts DEF Position
    <3>. DEFINE s == Of(r)
                k == r.req
    <3>. HIDE DEF s, k
    <3>2. s \in Seq(Requirement) /\ Len(s) \in Nat /\ k \in Nat /\ k <= Len(s) + 1
      BY <3>1 DEF s, k
    <3>3. \A n \in 1 .. k - 1 : s[n] \in Requirement
      BY <3>2
    <3>. QED  BY <3>3 DEF s, k
  <2>3. Before(r, ever) => Before(resolver, ever)'
    <3>1. ASSUME Before(r, ever), NEW n \in 1 .. r.req - 1
          PROVE  Holds(MetLeaves(ever'))[Of(r)[n]]
      BY <1>2, <2>2, <3>1, HoldsMore DEF Before
    <3>. QED  BY <1>2, <1>4, <1>7, <3>1 DEF Before
  <2>4. Before(resolver, always)' => Before(r, always)
    <3>1. ASSUME Before(resolver, always)', NEW n \in 1 .. r.req - 1
          PROVE  Holds(MetLeaves(always))[Of(r)[n]]
      <4>1. Holds(MetLeaves(always'))[Of(r)[n]]
        BY <1>2, <1>4, <1>7, <3>1 DEF Before
      <4>. QED  BY <1>2, <2>2, <4>1, HoldsMore
    <3>. QED  BY <3>1 DEF Before
  <2>5. resolver'.unmet \cap MetLeaves(always)' = {}
    BY <1>2, <1>4, <2>1 DEF GatheredSoFar
  <2>. QED  BY <1>2, <2>1, <2>3, <2>4, <2>5 DEF GatheredSoFar
<1>13. BestSatisfied(resolver)'
  <2>1. BestSatisfied(r) /\ r.best \in Tier
    BY <1>1 DEF Progress, Shape, Typed
  <2>. QED  BY <1>2, <1>5, <2>1, SameTiers DEF BestSatisfied
<1>14. /\ Len(TierOrder) \in Nat /\ r.tier \in 1 .. Len(TierOrder) + 1
       /\ \A i \in 1 .. r.tier - 1 : TierOrder[i] \in Tier
  <2>1. Len(TierOrder) \in Nat /\ \A i \in 1 .. Len(TierOrder) : TierOrder[i] \in Tier
    BY <1>1, ConfigFacts
  <2>2. r.tier \in 1 .. Len(TierOrder) + 1
    BY <1>1 DEF Shape
  <2>3. \A i \in 1 .. r.tier - 1 : i \in 1 .. Len(TierOrder)
    BY <2>1, <2>2
  <2>. QED  BY <2>1, <2>2, <2>3
<1>15. ASSUME r.phase = "tiers" PROVE BestSoFar(resolver, resolver.tier)'
  <2>1. BestSoFar(r, r.tier)
    BY <1>1, <1>15 DEF Progress
  <2>. QED  BY <1>2, <1>5, <1>14, <2>1, SameTiers DEF BestSoFar
<1>16. ASSUME r.phase = "report" PROVE ReportSoFar(resolver, resolver.tier)'
  <2>1. ReportSoFar(r, r.tier)
    BY <1>1, <1>16 DEF Progress
  <2>2. NoneSatisfied'
    BY <1>2, <1>5, <2>1, SameTiers DEF ReportSoFar, NoneSatisfied, Tier
  <2>3. resolver'.fewest \cap MetLeaves(always)' = {}
    BY <1>2, <1>4, <2>1 DEF ReportSoFar
  <2>4. resolver'.found /\ always' = ever' => resolver'.fewest # {}
    BY <1>2, <1>6, <2>1 DEF ReportSoFar
  <2>. QED  BY <1>2, <2>1, <2>2, <2>3, <2>4, SameTiers DEF ReportSoFar
<1>17. Progress(resolver)'
  BY <1>1, <1>2, <1>7, <1>8, <1>11, <1>12, <1>13, <1>15, <1>16 DEF Progress
<1>18. Outcome(resolver)'
  BY <1>1, <1>2 DEF Outcome
<1>. QED  BY <1>3, <1>9, <1>10, <1>17, <1>18 DEF IInv, ResolverInv

(***************************************************************************)
(* A resolver that has not started, or has only received the request,      *)
(* satisfies the invariant whatever the request is.                        *)
(***************************************************************************)
LEMMA QuietInv ==
  Shape(resolver) /\ resolver.phase \in {"idle", "received"} => ResolverInv(resolver)
BY IdleInv

LEMMA IdleShape ==
  Shape(Idle) /\ Shape(Received) /\ Idle.phase = "idle" /\ Received.phase = "received"
<1>1. default_tier \in Tier /\ Len(TierOrder) \in Nat
  BY GateAssumption
<1>2. Typed(Idle) /\ Idle.phase = "idle" /\ Idle.tier = 1 /\ Idle.req = 1
  BY <1>1 DEF Typed, IsResolver, Idle, NoAnswer
<1>3. /\ Typed(Received) /\ Received.phase = "received"
      /\ Received.tier = 1 /\ Received.req = 1
  <2>. DEFINE c == Received
  <2>1. c = [Idle EXCEPT !.phase = "received"] /\ IsResolver(Idle)
    BY <1>2 DEF Received, Typed
  <2>. HIDE DEF c
  <2>2. /\ IsResolver(c) /\ c.phase = "received" /\ c.tier = Idle.tier /\ c.req = Idle.req
        /\ c.unmet = Idle.unmet /\ c.best = Idle.best /\ c.bestCount = Idle.bestCount
        /\ c.fewest = Idle.fewest /\ c.found = Idle.found /\ c.answer = Idle.answer
    <3>. DEFINE i == Idle
    <3>1. c = [i EXCEPT !.phase = "received"] /\ IsResolver(i)
      BY <2>1
    <3>. HIDE DEF i
    <3>2. /\ IsResolver(c) /\ c.phase = "received" /\ c.tier = i.tier /\ c.req = i.req
          /\ c.unmet = i.unmet /\ c.best = i.best /\ c.bestCount = i.bestCount
          /\ c.fewest = i.fewest /\ c.found = i.found /\ c.answer = i.answer
      BY <3>1 DEF IsResolver
    <3>. QED  BY <3>2 DEF i
  <2>. QED  BY <1>2, <2>2 DEF Typed, c
<1>4. 1 \in 1 .. Len(TierOrder) + 1
  BY <1>1
<1>. QED  BY <1>2, <1>3, <1>4 DEF Shape

(***************************************************************************)
(* IInv is inductive.                                                      *)
(***************************************************************************)
LEMMA InitIInv == Init => IInv
<1>1. SUFFICES ASSUME Init PROVE IInv
  OBVIOUS
<1>2. Bracket
  <2>1. config \in Configs /\ verdict = {} /\ always = {} /\ ever = {} /\ changes = 0
    BY <1>1 DEF Init
  <2>2. request.resource = NoResource /\ request.proofs = {} /\ request.strict \in BOOLEAN
    BY <1>1 DEF Init
  <2>. QED  BY <2>1, <2>2 DEF Bracket
<1>3. ResolverInv(resolver)
  <2>1. resolver = Idle
    BY <1>1 DEF Init
  <2>. QED  BY <2>1, IdleShape, QuietInv
<1>. QED  BY <1>2, <1>3 DEF IInv

(***************************************************************************)
(* The steps of the specification preserve the invariant.                  *)
(***************************************************************************)
LEMMA AskInv ==
  ASSUME IInv, NEW resource \in Resources \cup {NoResource}, NEW proofs \in SUBSET Proof,
         NEW strict \in BOOLEAN, resolveAccess(resource, proofs, strict)
  PROVE  IInv'
<1>1. Bracket'
  <2>1. PICK accepted \in SUBSET Questions(proofs) :
          verdict' = accepted /\ always' = accepted /\ ever' = accepted
    BY DEF resolveAccess
  <2>2. accepted \subseteq Pairs
    BY <2>1 DEF Questions
  <2>3. config' \in Configs /\ changes' \in Nat
    BY DEF IInv, Bracket, resolveAccess
  <2>4. /\ request'.resource \in Resources \cup {NoResource}
        /\ request'.proofs \subseteq Proof /\ request'.strict \in BOOLEAN
    BY DEF resolveAccess
  <2>. QED  BY <2>1, <2>2, <2>3, <2>4 DEF Bracket, Pairs
<1>2. Shape(resolver)' /\ resolver'.phase = "received"
  <2>1. resolver' = Received
    BY DEF resolveAccess, Received
  <2>. QED  BY <2>1, IdleShape DEF Shape, Typed, IsResolver
<1>3. (Shape(resolver) /\ resolver.phase \in {"idle", "received"} => ResolverInv(resolver))'
  BY QuietInv, PTL
<1>. QED  BY <1>1, <1>2, <1>3 DEF IInv

LEMMA ResolveInv ==
  ASSUME IInv, Resolve
  PROVE  IInv'
<1>1. /\ Bracket /\ ResolverInv(resolver) /\ Shape(resolver) /\ Position(resolver)
      /\ Of(resolver) = requirements
  BY DEF IInv, ResolverInv, Of, requirements
<1>2. UNCHANGED <<config, verdict, changes, always, ever, request>>
  BY DEF Resolve, Receive, checkOneRequirement, RequirementDone, TierDone, PassDone
<1>3. Bracket'
  BY <1>1, <1>2 DEF Bracket, Pairs
<1>4. ResolverInv(resolver')
  <2>1. CASE Receive
    BY <1>1, <2>1, ReceiveInv DEF Receive
  <2>2. ASSUME NEW leaf \in Leaf, NEW p \in Proof, checkOneRequirement(leaf, p)
        PROVE  ResolverInv(resolver')
    BY <1>1, <2>2, TriedInv DEF checkOneRequirement
  <2>3. CASE RequirementDone
    <3>1. InRequirement(resolver) /\ DOMAIN resolver.open = {}
      BY <1>1, <2>3 DEF RequirementDone, InRequirement, InTier, Working
    <3>2. Gathered(resolver) = GatheredIn(resolver)
      BY DEF Gathered, GatheredIn, requirements, Of
    <3>. QED  BY <1>1, <2>3, <3>1, <3>2, RequirementDoneInv DEF RequirementDone
  <2>4. CASE TierDone
    <3>1. InTier(resolver) /\ resolver.req > Len(Of(resolver))
      BY <1>1, <2>4 DEF TierDone, InTier, Working
    <3>2. ~InRequirement(resolver)
      BY <1>1, <3>1, NodeFacts DEF InRequirement
    <3>3. resolver' = Checking(AfterTier(resolver), NextTier(resolver.phase, resolver.tier + 1), 1)
      BY <2>4 DEF TierDone, AfterTier, Compared
    <3>. QED  BY <1>1, <3>1, <3>2, <3>3, TierDoneInv
  <2>5. CASE PassDone
    <3>1. CASE resolver.phase = "tiers"
      BY <1>1, <2>5, <3>1, FirstPassInv DEF PassDone
    <3>2. CASE resolver.phase = "report"
      BY <1>1, <2>5, <3>2, SecondPassInv DEF PassDone
    <3>. QED  BY <2>5, <3>1, <3>2 DEF PassDone
  <2>. QED  BY <2>1, <2>2, <2>3, <2>4, <2>5 DEF Resolve
<1>5. ResolverInv(resolver)'
  BY <1>2, <1>4, Frame
<1>. QED  BY <1>3, <1>5 DEF IInv

LEMMA StutterInv ==
  ASSUME IInv, UNCHANGED vars
  PROVE  IInv'
<1>1. Bracket'
  BY DEF IInv, Bracket, Pairs, vars
<1>2. ResolverInv(resolver')
  BY DEF IInv, vars
<1>3. ResolverInv(resolver)'
  BY <1>2, Frame DEF vars
<1>. QED  BY <1>1, <1>3 DEF IInv

LEMMA NextIInv == IInv /\ [Next]_vars => IInv'
<1>1. SUFFICES ASSUME IInv, [Next]_vars PROVE IInv'
  OBVIOUS
<1>2. CASE Resolve
  BY <1>1, <1>2, ResolveInv
<1>3. ASSUME NEW resource \in Resources \cup {NoResource}, NEW proofs \in SUBSET Proof,
             NEW strict \in BOOLEAN, resolveAccess(resource, proofs, strict)
      PROVE  IInv'
  BY <1>1, <1>3, AskInv
<1>4. ASSUME NEW pl \in Questions(request.proofs), Change(pl) PROVE IInv'
  BY <1>1, <1>4, ChangeInv
<1>5. CASE UNCHANGED vars
  BY <1>1, <1>5, StutterInv
<1>. QED  BY <1>1, <1>2, <1>3, <1>4, <1>5 DEF Next

(***************************************************************************)
(* Every reachable state satisfies the invariant.                          *)
(***************************************************************************)
THEOREM InvariantHolds == Spec => []IInv
BY InitIInv, NextIInv, PTL DEF Spec

-----------------------------------------------------------------------------
(***************************************************************************)
(* Every variable has its type.                                            *)
(***************************************************************************)
THEOREM TypeCorrect == Spec => []TypeOK
<1>1. ASSUME IInv PROVE TypeOK
  <2>1. Bracket /\ Shape(resolver) /\ Position(resolver) /\ Progress(resolver)
    BY <1>1 DEF IInv, ResolverInv
  <2>2. /\ resolver.phase \in {"idle", "received", "tiers", "report", "answered"}
        /\ resolver.best \in Tier /\ resolver.answer.tier \in Tier
        /\ resolver.tier \in 1 .. Len(TierOrder) + 1
        /\ resolver.unmet \cup resolver.fewest \subseteq Leaf
    BY <2>1 DEF Shape, Typed
  <2>3. ASSUME resolver.phase \in {"tiers", "report"}, resolver.tier <= Len(TierOrder)
        PROVE  /\ Considered(resolver.phase, TierOrder[resolver.tier])
               /\ resolver.req \in 1 .. Len(requirements) + 1
               /\ resolver.req <= Len(requirements) =>
                    resolver.met \cup DOMAIN resolver.open \subseteq Leaves[requirements[resolver.req]]
    <3>1. InTier(resolver) /\ Of(resolver) = requirements
      BY <2>3 DEF InTier, Working, Of, requirements
    <3>2. /\ Considered(resolver.phase, TierOrder[resolver.tier])
          /\ resolver.req <= Len(requirements) + 1
      BY <2>1, <3>1 DEF Position
    <3>3. resolver.req \in Nat \ {0} /\ Len(requirements) \in Nat
      BY <2>1, <3>1, NodeFacts
    <3>4. resolver.req <= Len(requirements) =>
            resolver.met \cup DOMAIN resolver.open \subseteq Leaves[requirements[resolver.req]]
      BY <2>1, <3>1 DEF Progress, InRequirement, CheckedSoFar
    <3>. QED  BY <3>2, <3>3, <3>4
  <2>4. \A leaf \in DOMAIN resolver.open : resolver.open[leaf] \subseteq ProofsFor(leaf)
    BY <2>1 DEF Position, Progress, CheckedSoFar
  <2>5. /\ config \in Configs
        /\ verdict \subseteq Pairs /\ always \subseteq verdict /\ verdict \subseteq ever
        /\ ever \subseteq Pairs /\ changes \in Nat
        /\ request.resource \in Resources \cup {NoResource} /\ request.proofs \subseteq Proof
        /\ request.strict \in BOOLEAN
    BY <2>1 DEF Bracket
  <2>. QED  BY <2>2, <2>3, <2>4, <2>5 DEF TypeOK
<1>. QED  BY <1>1, InvariantHolds, PTL

(***************************************************************************)
(* A granted tier opens the resource, and unless it is the default tier    *)
(* each of its requirements is met by proofs the verifiers accepted while  *)
(* the request was resolved.                                               *)
(***************************************************************************)
THEOREM GrantsAreJustified == Spec => []GrantJustified
<1>1. IInv => GrantJustified
  BY DEF IInv, ResolverInv, Outcome, GrantIsRight, GrantJustified, Granted, Answered
<1>. QED  BY <1>1, InvariantHolds, PTL

(***************************************************************************)
(* Nobody is refused who satisfied, throughout, a tier that opens the      *)
(* resource.                                                               *)
(***************************************************************************)
THEOREM RefusalsAreJustified == Spec => []RefusalJustified
<1>1. IInv => RefusalJustified
  BY DEF IInv, ResolverInv, Outcome, RefusalIsRight, NoneSatisfied, RefusalJustified, Denied,
         Answered
<1>. QED  BY <1>1, InvariantHolds, PTL

(***************************************************************************)
(* Of the gated tiers satisfied throughout, none opens more than the one   *)
(* that is granted.                                                        *)
(***************************************************************************)
THEOREM GrantIsMostPermissive == Spec => []MostPermissive
<1>1. IInv => MostPermissive
  BY DEF IInv, ResolverInv, Outcome, GrantIsRight, MostPermissive, Granted, Answered
<1>. QED  BY <1>1, InvariantHolds, PTL

(***************************************************************************)
(* A refusal names only requirements that were not met all along; and when *)
(* no verdict changed and a gated tier opens the resource, it names one.   *)
(***************************************************************************)
THEOREM RefusalsAreExplained == Spec => []RefusalExplained
<1>1. IInv => RefusalExplained
  BY DEF IInv, ResolverInv, Outcome, RefusalIsRight, RefusalExplained, Denied, Answered
<1>. QED  BY <1>1, InvariantHolds, PTL
-----------------------------------------------------------------------------
(***************************************************************************)
(* A resolution comes to its answer: each step enters a later phase, goes  *)
(* on to a later tier or to the next requirement of the tier, or leaves    *)
(* fewer proofs to try for the requirement in hand.  Phases, tiers,        *)
(* requirements and proofs are bounded, and a verdict that changes in      *)
(* between brings none of them back.                                       *)
(***************************************************************************)
PhaseNumber(phase) ==
  CASE phase = "idle" -> 0 [] phase = "received" -> 1 [] phase = "tiers" -> 2
    [] phase = "report" -> 3 [] phase = "answered" -> 4

FewerToTry(before, after) ==
  /\ DOMAIN after \subseteq DOMAIN before
  /\ \A leaf \in DOMAIN after : after[leaf] \subseteq before[leaf]
  /\ DOMAIN after # DOMAIN before \/ \E leaf \in DOMAIN after : after[leaf] # before[leaf]

Onward(r, s) ==
  \/ PhaseNumber(r.phase) < PhaseNumber(s.phase)
  \/ /\ s.phase = r.phase /\ Working(r)
     /\ \/ r.tier < s.tier /\ s.tier <= Len(TierOrder) + 1
        \/ s.tier = r.tier /\ s.req = r.req + 1 /\ s.req <= Len(Of(r)) + 1
        \/ s.tier = r.tier /\ s.req = r.req /\ FewerToTry(r.open, s.open)

ResolutionAdvances == [][resolver' # resolver => Onward(resolver, resolver')]_vars

(***************************************************************************)
(* A proof once tried for a leaf is not tried for it again.                *)
(***************************************************************************)
LEMMA TriedFewer ==
  ASSUME NEW r, Shape(r), NEW leaf \in DOMAIN r.open, NEW p \in r.open[leaf], NEW s,
         s \in {Accepts(r, leaf), Rejects(r, leaf, p)}
  PROVE  s.phase = r.phase /\ s.tier = r.tier /\ s.req = r.req /\ FewerToTry(r.open, s.open)
<1>. DEFINE gone == Without(r.open, leaf)
            less == [r.open EXCEPT ![leaf] = @ \ {p}]
<1>1. IsResolver(r)
  BY DEF Shape, Typed
<1>2. s.phase = r.phase /\ s.tier = r.tier /\ s.req = r.req
  BY <1>1 DEF Accepts, Rejects, IsResolver
<1>3. s.open = gone \/ s.open = less
  BY <1>1 DEF Accepts, Rejects, IsResolver
<1>4. FewerToTry(r.open, gone)
  BY DEF Without, FewerToTry
<1>5. FewerToTry(r.open, less)
  <2>1. DOMAIN less = DOMAIN r.open /\ less[leaf] = r.open[leaf] \ {p}
    OBVIOUS
  <2>2. \A l \in DOMAIN r.open : l # leaf => less[l] = r.open[l]
    OBVIOUS
  <2>3. less[leaf] # r.open[leaf]
    BY <2>1
  <2>. QED  BY <2>1, <2>2, <2>3 DEF FewerToTry
<1>. QED  BY <1>2, <1>3, <1>4, <1>5

LEMMA ResolveAdvances ==
  ASSUME IInv, Resolve
  PROVE  Onward(resolver, resolver')
<1>1. /\ Bracket /\ Shape(resolver) /\ Position(resolver) /\ IsResolver(resolver)
      /\ Of(resolver) = requirements /\ resolver.tier \in 1 .. Len(TierOrder) + 1
      /\ resolver.req \in Nat \ {0} /\ Len(TierOrder) \in Nat
  BY ConfigFacts DEF IInv, ResolverInv, Shape, Typed, Of, requirements
<1>2. CASE Receive
  <2>1. NextTier("tiers", 1) \in 1 .. Len(TierOrder) + 1
    BY <1>1, NextTierFacts
  <2>2. resolver'.phase = "tiers"
    BY <1>1, <1>2 DEF Receive, StartPass, Checking, IsResolver
  <2>. QED  BY <1>2, <2>2 DEF Receive, Onward, PhaseNumber
<1>3. ASSUME NEW leaf \in Leaf, NEW p \in Proof, checkOneRequirement(leaf, p)
      PROVE  Onward(resolver, resolver')
  <2>1. leaf \in DOMAIN resolver.open /\ p \in resolver.open[leaf]
    BY <1>3 DEF checkOneRequirement
  <2>2. resolver' \in {Accepts(resolver, leaf), Rejects(resolver, leaf, p)}
    BY <1>3 DEF checkOneRequirement, Tried
  <2>3. Working(resolver)
    BY <1>1, <2>1 DEF Position, InRequirement, InTier
  <2>. QED  BY <1>1, <2>1, <2>2, <2>3, TriedFewer DEF Onward
<1>4. CASE RequirementDone
  <2>1. IsResolver(Gathered(resolver)) /\ Gathered(resolver).phase = resolver.phase
    <3>. DEFINE more == Unmet(resolver.met)[requirements[resolver.req]]
    <3>1. Gathered(resolver) = [resolver EXCEPT !.unmet = @ \cup more]
      BY DEF Gathered
    <3>2. IsResolver(resolver)
      BY <1>1
    <3>. HIDE DEF more
    <3>. QED  BY <3>1, <3>2 DEF IsResolver
  <2>2. resolver' = Checking(Gathered(resolver), resolver.tier, resolver.req + 1)
    BY <1>4 DEF RequirementDone
  <2>3. resolver.req + 1 \in Nat \ {0}
    BY <1>1
  <2>4. resolver'.phase = resolver.phase /\ resolver'.tier = resolver.tier /\ resolver'.req = resolver.req + 1
    BY <2>1, <2>2, <2>3, CheckingFields
  <2>5. Working(resolver) /\ InTier(resolver) /\ resolver.req <= Len(Of(resolver))
    BY <1>1, <1>4 DEF RequirementDone, Working, InTier
  <2>6. Len(Of(resolver)) \in Nat
    BY <1>1, <2>5, ConfigFacts DEF InTier, Of
  <2>7. resolver'.req <= Len(Of(resolver)) + 1
    BY <1>1, <2>4, <2>5, <2>6
  <2>. QED  BY <2>4, <2>5, <2>7 DEF Onward
<1>5. CASE TierDone
  <2>1. PICK r : /\ IsResolver(r) /\ r.phase = resolver.phase
                 /\ resolver' = Checking(r, NextTier(resolver.phase, resolver.tier + 1), 1)
    <3>. DEFINE tier == TierOrder[resolver.tier]
                r == IF resolver.phase = "tiers" THEN BetterOf(resolver, tier, accessCount(tier))
                     ELSE FewerUnmet(resolver)
    <3>1. IsResolver(r) /\ r.phase = resolver.phase
      BY <1>1 DEF BetterOf, FewerUnmet, IsResolver
    <3>2. resolver' = Checking([r EXCEPT !.unmet = {}], NextTier(resolver.phase, resolver.tier + 1), 1)
      BY <1>5 DEF TierDone
    <3>3. IsResolver([r EXCEPT !.unmet = {}]) /\ [r EXCEPT !.unmet = {}].phase = resolver.phase
      BY <3>1 DEF IsResolver
    <3>. QED  BY <3>2, <3>3
  <2>2. resolver.tier + 1 \in 1 .. Len(TierOrder) + 1 /\ Working(resolver)
    BY <1>1, <1>5 DEF TierDone, Working
  <2>3. NextTier(resolver.phase, resolver.tier + 1) \in resolver.tier + 1 .. Len(TierOrder) + 1
    BY <1>1, <2>2, NextTierFacts
  <2>4. resolver'.phase = resolver.phase
        /\ resolver'.tier = NextTier(resolver.phase, resolver.tier + 1)
    BY <2>1, CheckingFields
  <2>5. resolver.tier < resolver'.tier /\ resolver'.tier <= Len(TierOrder) + 1
    BY <1>1, <2>3, <2>4
  <2>. QED  BY <2>2, <2>4, <2>5 DEF Onward
<1>6. CASE PassDone
  <2>1. CASE resolver.phase = "tiers"
    <3>1. resolver'.phase \in {"answered", "report"}
      BY <1>1, <1>6, <2>1 DEF PassDone, Answer, Idle, StartPass, Checking, IsResolver
    <3>. QED  BY <2>1, <3>1 DEF Onward, PhaseNumber
  <2>2. CASE resolver.phase = "report"
    <3>1. resolver'.phase = "answered"
      BY <1>6, <2>2 DEF PassDone, Answer, Idle
    <3>. QED  BY <2>2, <3>1 DEF Onward, PhaseNumber
  <2>. QED  BY <1>6, <2>1, <2>2 DEF PassDone
<1>. QED  BY <1>2, <1>3, <1>4, <1>5, <1>6 DEF Resolve

(***************************************************************************)
(* resolveAccess wastes no step, for any configuration, any proofs and any *)
(* number of verdicts that change while it waits for a verifier.           *)
(***************************************************************************)
THEOREM ResolutionsAdvance == Spec => ResolutionAdvances
<1>1. ASSUME IInv, [Next]_vars PROVE resolver' # resolver => Onward(resolver, resolver')
  <2>1. CASE Resolve
    BY <1>1, <2>1, ResolveAdvances
  <2>2. ASSUME NEW resource, NEW proofs, NEW strict, resolveAccess(resource, proofs, strict)
        PROVE  Onward(resolver, resolver')
    <3>1. resolver.phase = "idle" /\ resolver'.phase = "received"
      BY <2>2 DEF resolveAccess, Idle
    <3>. QED  BY <3>1 DEF Onward, PhaseNumber
  <2>3. CASE \E pl \in Questions(request.proofs) : Change(pl)
    BY <2>3 DEF Change
  <2>. QED  BY <1>1, <2>1, <2>2, <2>3 DEF Next, vars
<1>. QED  BY <1>1, InvariantHolds, PTL DEF Spec, ResolutionAdvances
=============================================================================
