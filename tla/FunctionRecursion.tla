-------------------------- MODULE FunctionRecursion --------------------------
(***************************************************************************)
(* A function defined by recursion, f[x \in S] == ... f[y] ..., exists     *)
(* when every value depends only on the values below it and nothing        *)
(* descends for ever.  The right-hand side is passed as a function G, so   *)
(* that the facts can be cited for a definition of a specification.        *)
(***************************************************************************)
EXTENDS WellFoundedInduction, TLAPS

(***************************************************************************)
(* Below[x] is what the value at x may depend on; every nonempty set of    *)
(* arguments has one that depends on none of the others.                   *)
(***************************************************************************)
Grounded(S, Below) ==
  /\ Below \in [S -> SUBSET S]
  /\ \A T \in SUBSET S : T # {} => \E x \in T : Below[x] \cap T = {}

Depends(S, Below, V, G) ==
  /\ G \in [S -> [[S -> V] -> V]]
  /\ \A x \in S : \A g, h \in [S -> V] :
       (\A y \in Below[x] : g[y] = h[y]) => G[x][g] = G[x][h]

LEMMA LeastElement ==
  ASSUME NEW S \in SUBSET Nat, S # {}
  PROVE  \E n \in S : \A m \in S : n <= m
<1>1. PICK n \in S : \A m \in S : <<m, n>> \notin OpToRel(<, Nat)
  BY NatLessThanWellFounded, WFMin
<1>2. \A m \in S : ~(m < n)
  BY <1>1 DEF OpToRel
<1>3. \A m \in S : m \in Nat /\ n \in Nat
  OBVIOUS
<1>4. \A m \in S : n <= m
  BY <1>2, <1>3
<1>. QED  BY <1>4

(***************************************************************************)
(* Two functions that satisfy the equation on a set that is closed         *)
(* downwards agree there.                                                  *)
(***************************************************************************)
Closed(D, Below) == \A x \in D : Below[x] \subseteq D

Satisfies(f, D, G) == \A x \in D : f[x] = G[x][f]

LEMMA RecursionUnique ==
  ASSUME NEW S, NEW Below, NEW V, NEW G, Grounded(S, Below), Depends(S, Below, V, G),
         NEW D \in SUBSET S, Closed(D, Below),
         NEW g \in [S -> V], NEW h \in [S -> V], Satisfies(g, D, G), Satisfies(h, D, G)
  PROVE  \A x \in D : g[x] = h[x]
<1>. DEFINE T == {x \in D : g[x] # h[x]}
<1>1. SUFFICES ASSUME T # {} PROVE FALSE
  OBVIOUS
<1>2. PICK x \in T : Below[x] \cap T = {}
  BY <1>1 DEF Grounded
<1>3. \A y \in Below[x] : g[y] = h[y]
  BY <1>2 DEF Closed
<1>4. G[x][g] = G[x][h]
  BY <1>2, <1>3 DEF Depends
<1>. QED  BY <1>2, <1>4 DEF Satisfies

(***************************************************************************)
(* There is a function that satisfies the equation everywhere, so that the *)
(* CHOOSE behind f[x \in S] == ... is one that does.                       *)
(***************************************************************************)
THEOREM RecursionExists ==
  ASSUME NEW S, NEW Below, NEW V, NEW G, Grounded(S, Below), Depends(S, Below, V, G), V # {}
  PROVE  \E f \in [S -> V] : Satisfies(f, S, G)
<1>. DEFINE Good(D, g) == D \in SUBSET S /\ Closed(D, Below) /\ g \in [S -> V] /\ Satisfies(g, D, G)
            U == {x \in S : \E D, g : Good(D, g) /\ x \in D}
            Value(x) == CHOOSE v \in V : \E D, g : Good(D, g) /\ x \in D /\ v = g[x]
            some == CHOOSE v \in V : TRUE
            f == [x \in S |-> IF x \in U THEN Value(x) ELSE some]
<1>1. ASSUME NEW D1, NEW g1, NEW D2, NEW g2, Good(D1, g1), Good(D2, g2),
             NEW x, x \in D1, x \in D2
      PROVE  g1[x] = g2[x]
  <2>. DEFINE D == D1 \cap D2
  <2>1. D \in SUBSET S /\ Closed(D, Below) /\ Satisfies(g1, D, G) /\ Satisfies(g2, D, G)
    BY <1>1 DEF Closed, Satisfies
  <2>2. \A y \in D : g1[y] = g2[y]
    <3>. HIDE DEF D
    <3>. QED  BY <1>1, <2>1, RecursionUnique
  <2>. QED  BY <1>1, <2>2
<1>2. ASSUME NEW D, NEW g, Good(D, g), NEW x \in D
      PROVE  x \in U /\ f[x] = g[x]
  <2>1. x \in U /\ x \in S /\ g[x] \in V
    BY <1>2
  <2>2. Value(x) = g[x]
    <3>1. \E v \in V : \E E, h : Good(E, h) /\ x \in E /\ v = h[x]
      <4>. HIDE DEF Good
      <4>. QED  BY <1>2, <2>1
    <3>2. \E E, h : Good(E, h) /\ x \in E /\ Value(x) = h[x]
      <4>. HIDE DEF Good
      <4>. QED  BY <3>1
    <3>3. PICK E, h : Good(E, h) /\ x \in E /\ Value(x) = h[x]
      <4>. HIDE DEF Good, Value
      <4>. QED  BY <3>2
    <3>. QED
      <4>. HIDE DEF Good, Value
      <4>. QED  BY <1>1, <1>2, <3>3
  <2>. HIDE DEF U, Value
  <2>. QED  BY <2>1, <2>2
<1>3. f \in [S -> V]
  <2>1. ASSUME NEW x \in U PROVE f[x] \in V
    <3>1. PICK D, g : Good(D, g) /\ x \in D
      BY <2>1
    <3>2. g[x] \in V
      BY <3>1
    <3>3. f[x] = g[x]
      <4>. HIDE DEF f, Good, U
      <4>. QED  BY <1>2, <3>1
    <3>. HIDE DEF f, U
    <3>. QED  BY <3>2, <3>3
  <2>2. some \in V
    OBVIOUS
  <2>3. ASSUME NEW x \in S, x \notin U PROVE f[x] \in V
    <3>. HIDE DEF U, Value, some
    <3>. QED  BY <2>2, <2>3
  <2>4. \A x \in S : f[x] \in V
    <3>. HIDE DEF U, f
    <3>. QED  BY <2>1, <2>3
  <2>5. f = [x \in S |-> f[x]]
    <3>. HIDE DEF U, Value, some
    <3>. QED  OBVIOUS
  <2>. HIDE DEF f
  <2>. QED  BY <2>4, <2>5
<1>4. Closed(U, Below) /\ Satisfies(f, U, G)
  <2>1. ASSUME NEW x \in U PROVE Below[x] \subseteq U /\ f[x] = G[x][f]
    <3>1. PICK D, g : Good(D, g) /\ x \in D
      BY <2>1
    <3>2. \A y \in D : y \in U /\ f[y] = g[y]
      <4>. HIDE DEF f, U, Good
      <4>. QED  BY <1>2, <3>1
    <3>3. Below[x] \subseteq D /\ g[x] = G[x][g] /\ x \in S /\ g \in [S -> V]
      BY <3>1 DEF Closed, Satisfies
    <3>4. G[x][f] = G[x][g]
      <4>. HIDE DEF f, U
      <4>. QED  BY <1>3, <3>2, <3>3 DEF Depends
    <3>. HIDE DEF f, U
    <3>. QED  BY <3>1, <3>2, <3>3, <3>4
  <2>. HIDE DEF f, U
  <2>. QED  BY <2>1 DEF Closed, Satisfies
<1>5. S \subseteq U
  <2>1. SUFFICES ASSUME S \ U # {} PROVE FALSE
    OBVIOUS
  <2>2. PICK x \in S \ U : Below[x] \cap (S \ U) = {}
    BY <2>1 DEF Grounded
  <2>3. Below[x] \subseteq U
    BY <2>2 DEF Grounded
  <2>. DEFINE D == U \cup {x}
              h == [f EXCEPT ![x] = G[x][f]]
  <2>4. h \in [S -> V] /\ G[x][f] \in V
    <3>. HIDE DEF f, U
    <3>. QED  BY <1>3, <2>2 DEF Depends
  <2>5. \A y \in U : h[y] = f[y]
    <3>. HIDE DEF f
    <3>. QED  BY <1>3, <2>2
  <2>6. h[x] = G[x][f]
    <3>. HIDE DEF f, U
    <3>. QED  BY <1>3, <2>2
  <2>7. Closed(D, Below)
    <3>. HIDE DEF f, U
    <3>. QED  BY <1>4, <2>3 DEF Closed
  <2>8. ASSUME NEW y \in D PROVE h[y] = G[y][h]
    <3>1. U \subseteq S
      OBVIOUS
    <3>2. y \in S /\ Below[y] \subseteq U
      <4>. HIDE DEF f, U
      <4>. QED  BY <1>4, <2>2, <2>3, <3>1 DEF Closed
    <3>3. G[y][f] = G[y][h]
      <4>. HIDE DEF f, U, h
      <4>1. \A z \in Below[y] : f[z] = h[z]
        BY <2>5, <3>2
      <4>. HIDE DEF D
      <4>. QED  BY <1>3, <2>4, <3>2, <4>1 DEF Depends
    <3>4. h[y] = G[y][f]
      <4>. HIDE DEF f, U, h
      <4>. QED  BY <1>4, <2>5, <2>6 DEF Satisfies
    <3>. QED  BY <3>3, <3>4
  <2>9. Good(D, h)
    <3>1. D \in SUBSET S
      BY <2>2
    <3>. HIDE DEF f, U, h, D
    <3>. QED  BY <2>4, <2>7, <2>8, <3>1 DEF Satisfies
  <2>10. x \in U
    <3>1. x \in D
      <4>. HIDE DEF U
      <4>. QED  OBVIOUS
    <3>2. \E E, g : Good(E, g) /\ x \in E
      <4>. HIDE DEF D, h, Good
      <4>. QED  BY <2>9, <3>1
    <3>. HIDE DEF D, h, Good
    <3>. QED  BY <2>2, <3>2
  <2>. HIDE DEF U
  <2>. QED  BY <2>2, <2>10
<1>6. U = S
  <2>1. U \subseteq S
    OBVIOUS
  <2>. HIDE DEF U
  <2>. QED  BY <1>5, <2>1
<1>. HIDE DEF f, U
<1>. QED  BY <1>3, <1>4, <1>6

(***************************************************************************)
(* A loop over lo .. n, each round of which depends on the one before.     *)
(***************************************************************************)
IsLoop(f, lo, n, first, round) ==
  \A i \in lo .. n : f[i] = IF i = lo THEN first ELSE round[i][f[i - 1]]

LEMMA LoopExists ==
  ASSUME NEW lo \in Nat, NEW n \in Nat, NEW V, NEW first \in V,
         NEW round \in [lo .. n -> [V -> V]]
  PROVE  \E f \in [lo .. n -> V] : IsLoop(f, lo, n, first, round)
<1>. DEFINE S == lo .. n
            Below == [i \in S |-> {j \in S : j = i - 1}]
            G == [i \in S |-> [g \in [S -> V] |->
                                 IF i = lo THEN first ELSE round[i][g[i - 1]]]]
<1>1. Grounded(S, Below)
  <2>1. Below \in [S -> SUBSET S]
    OBVIOUS
  <2>2. ASSUME NEW T \in SUBSET S, T # {} PROVE \E x \in T : Below[x] \cap T = {}
    <3>1. T \in SUBSET Nat
      BY <2>2
    <3>2. PICK x \in T : \A y \in T : x <= y
      BY <2>2, <3>1, LeastElement
    <3>3. \A y \in Below[x] : y = x - 1 /\ y \in Nat /\ x \in Nat
      BY <3>2
    <3>. QED  BY <3>2, <3>3
  <2>. QED  BY <2>1, <2>2 DEF Grounded
<1>2. ASSUME NEW i \in S, i # lo PROVE i - 1 \in S /\ i - 1 \in Below[i]
  BY <1>2
<1>3. \A i \in S : \A g \in [S -> V] :
        G[i][g] = IF i = lo THEN first ELSE round[i][g[i - 1]]
  OBVIOUS
<1>4. G \in [S -> [[S -> V] -> V]]
  <2>1. ASSUME NEW i \in S, NEW g \in [S -> V]
        PROVE  (IF i = lo THEN first ELSE round[i][g[i - 1]]) \in V
    <3>1. CASE i = lo
      BY <3>1
    <3>2. CASE i # lo
      <4>1. g[i - 1] \in V
        BY <1>2, <3>2
      <4>. QED  BY <3>2, <4>1
    <3>. QED  BY <3>1, <3>2
  <2>. QED  BY <2>1
<1>5. Depends(S, Below, V, G)
  <2>1. ASSUME NEW x \in S, NEW g \in [S -> V], NEW h \in [S -> V],
               \A y \in Below[x] : g[y] = h[y]
        PROVE  G[x][g] = G[x][h]
    <3>1. CASE x = lo
      BY <1>3, <3>1
    <3>2. CASE x # lo
      <4>1. g[x - 1] = h[x - 1]
        BY <1>2, <2>1, <3>2
      <4>2. G[x][g] = round[x][g[x - 1]] /\ G[x][h] = round[x][h[x - 1]]
        BY <1>3, <3>2
      <4>. QED  BY <4>1, <4>2
    <3>. QED  BY <3>1, <3>2
  <2>. HIDE DEF G, Below
  <2>. QED  BY <1>4, <2>1 DEF Depends
<1>6. PICK f \in [S -> V] : \A x \in S : f[x] = G[x][f]
  <2>. HIDE DEF G, Below, S
  <2>. QED  BY <1>1, <1>5, RecursionExists DEF Satisfies
<1>7. \A x \in S : f[x] = IF x = lo THEN first ELSE round[x][f[x - 1]]
  <2>. HIDE DEF G
  <2>. QED  BY <1>3, <1>6
<1>. HIDE DEF G, Below
<1>. QED  BY <1>6, <1>7 DEF IsLoop
=============================================================================
