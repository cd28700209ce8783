------------------------------ MODULE Recursion ------------------------------
(***************************************************************************)
(* A function defined by recursion over a set of numbered things is what   *)
(* its equation says, and a fold along a sequence goes element by element, *)
(* for any body.  The library's theorems take the body as a parameter of   *)
(* the theorem; here it is a constant of the module, so that an INSTANCE   *)
(* of it gives each recursion its equation and each fold its steps.  An    *)
(* environment stands for whatever else the body reads.                    *)
(***************************************************************************)
EXTENDS Integers, Sequences, WellFoundedInduction, TLAPS

CONSTANT Body(_, _, _)

\* A set of naturals that is not empty has a least one.
LEMMA LeastNatural ==
    ASSUME NEW S, S \subseteq Nat, S # {}
    PROVE  \E n \in S : \A m \in S : n <= m
<1>1. IsWellFoundedOn(OpToRel(<, Nat), Nat)
  BY NatLessThanWellFounded
<1>2. PICK n \in S : \A m \in S : ~ (<<m, n>> \in OpToRel(<, Nat))
  BY <1>1, WFMin
<1>3. OpToRel(<, Nat) = {ss \in Nat \X Nat : ss[1] < ss[2]}
  BY Zenon DEF OpToRel
<1>4. \A m \in S : ~ (<<m, n>> \in {ss \in Nat \X Nat : ss[1] < ss[2]})
  BY Zenon, <1>2, <1>3
<1>5. \A m \in S : ~ (m < n)
  <2>1. SUFFICES ASSUME NEW m \in S, m < n PROVE FALSE
    OBVIOUS
  <2>2. <<m, n>> \in {ss \in Nat \X Nat : ss[1] < ss[2]}
    BY <2>1, SMT
  <2>. QED  BY <1>4, <2>2
<1>. QED  BY <1>5

\* What holds at 0 and passes from each number to the next holds at n.
LEMMA StepsReach ==
    ASSUME NEW n \in Nat, NEW I, 0 \in I,
           \A k \in 1..n : k - 1 \in I => k \in I
    PROVE  n \in I
<1>. DEFINE Bad == {k \in 0..n : k \notin I}
<1>1. SUFFICES ASSUME Bad # {} PROVE FALSE
  OBVIOUS
<1>2. PICK k \in Bad : \A m \in Bad : k <= m
  <2>1. Bad \subseteq Nat
    OBVIOUS
  <2>. HIDE DEF Bad
  <2>. QED  BY <1>1, <2>1, LeastNatural
<1>3. k \in 1..n /\ k - 1 \in 0..n /\ k - 1 \notin Bad
  BY <1>2
<1>. QED  BY <1>2, <1>3

(* The body at n reads the function only where the rank is lower.            *)
ReadsBelow(env, D, rank) ==
    \A n \in D : \A f, g :
        (\A m \in D : rank[m] < rank[n] => f[m] = g[m]) => Body(env, f, n) = Body(env, g, n)

Upto(D, rank, k) == {n \in D : rank[n] < k}

\* Such a recursion has a solution.
THEOREM RecursionSolved ==
    ASSUME NEW env, NEW D, NEW rank \in [D -> Nat], NEW top \in Nat,
           \A n \in D : rank[n] < top,
           ReadsBelow(env, D, rank)
    PROVE  \E f : f = [n \in D |-> Body(env, f, n)]
<1>. DEFINE Solves(f, k) == \A n \in Upto(D, rank, k) : f[n] = Body(env, f, n)
            Without == {k \in Nat : ~ \E f : Solves(f, k)}
<1>1. ASSUME Without # {} PROVE FALSE
  <2>1. PICK k \in Without : \A m \in Without : k <= m
    <3>. HIDE DEF Without
    <3>. QED  BY <1>1, LeastNatural DEF Without
  <2>2. k # 0
    <3>1. Upto(D, rank, 0) = {}
      BY DEF Upto
    <3>. QED  BY <2>1, <3>1
  <2>3. k - 1 \in Nat /\ k - 1 \notin Without
    BY <2>1, <2>2
  <2>4. PICK g : Solves(g, k - 1)
    BY <2>3
  <2>. DEFINE f == [n \in D |-> IF rank[n] < k - 1 THEN g[n] ELSE Body(env, g, n)]
  <2>5. ASSUME NEW n \in Upto(D, rank, k) PROVE f[n] = Body(env, f, n)
    <3>1. n \in D /\ rank[n] < k /\ rank[n] \in Nat
      BY DEF Upto
    <3>2. \A m \in D : rank[m] < rank[n] => rank[m] < k - 1
      BY <3>1, <2>3
    <3>3. \A m \in D : rank[m] < rank[n] => f[m] = g[m]
      BY <3>2
    <3>4. Body(env, f, n) = Body(env, g, n)
      <4>. HIDE DEF f
      <4>. QED  BY <3>1, <3>3 DEF ReadsBelow
    <3>5. f[n] = Body(env, g, n)
      <4>1. CASE rank[n] < k - 1
        <5>1. n \in Upto(D, rank, k - 1)
          BY <3>1, <4>1 DEF Upto
        <5>. QED  BY <3>1, <4>1, <5>1, <2>4
      <4>2. CASE ~ (rank[n] < k - 1)
        BY <3>1, <4>2
      <4>. QED  BY <4>1, <4>2
    <3>. QED  BY <3>4, <3>5
  <2>6. Solves(f, k)
    <3>. HIDE DEF f
    <3>. QED  BY <2>5
  <2>. QED  BY <2>1, <2>6
<1>2. PICK g : Solves(g, top)
  BY <1>1
<1>. DEFINE f == [n \in D |-> g[n]]
<1>3. ASSUME NEW n \in D PROVE f[n] = Body(env, f, n)
  <2>1. g[n] = Body(env, g, n)
    BY <1>2 DEF Upto
  <2>2. \A m \in D : f[m] = g[m]
    OBVIOUS
  <2>3. Body(env, f, n) = Body(env, g, n)
    <3>. HIDE DEF f
    <3>. QED  BY <2>2 DEF ReadsBelow
  <2>. QED  BY <2>1, <2>2, <2>3
<1>4. f = [n \in D |-> f[n]]
  OBVIOUS
<1>5. f = [n \in D |-> Body(env, f, n)]
  <2>. HIDE DEF f
  <2>. QED  BY <1>3, <1>4
<1>. QED  BY <1>5
-----------------------------------------------------------------------------
(* A fold along a sequence, whose step takes what is folded so far and the   *)
(* next element: what FoldLeft comes to when its definition is unfolded.     *)
Largest(S) == CHOOSE x \in S : \A y \in S : x >= y
IsFolding(f, env, base, seq, D) ==
    f = [s \in SUBSET D |->
            IF s = {} THEN base
            ELSE Body(env, f[s \ {Largest(s)}], seq[Largest(s)])]
FoldOf(env, base, seq) ==
    (CHOOSE f : IsFolding(f, env, base, seq, DOMAIN seq))[DOMAIN seq]

\* The largest of a set of 1..k that holds k is k.
LEMMA LargestIsLast ==
    ASSUME NEW k \in Nat, NEW s \in SUBSET (1..k), k \in s
    PROVE  Largest(s) = k
<1>1. \A y \in s : k >= y
  OBVIOUS
<1>2. \A x \in s : (\A y \in s : x >= y) => x = k
  OBVIOUS
<1>3. Largest(s) \in s /\ \A y \in s : Largest(s) >= y
  BY <1>1 DEF Largest
<1>. QED  BY <1>2, <1>3

\* The recursion has a solution on the first n places, for every n.
LEMMA FoldingExists ==
    ASSUME NEW env, NEW base, NEW seq, NEW n \in Nat
    PROVE  \E f : IsFolding(f, env, base, seq, 1..n)
<1>. DEFINE Without == {k \in Nat : ~ \E f : IsFolding(f, env, base, seq, 1..k)}
<1>1. SUFFICES ASSUME Without # {} PROVE FALSE
  OBVIOUS
<1>2. PICK k \in Without : \A m \in Without : k <= m
  BY <1>1, LeastNatural
<1>3. CASE k = 0
  <2>. DEFINE f == [s \in SUBSET (1..0) |-> base]
  <2>1. IsFolding(f, env, base, seq, 1..0)
    BY DEF IsFolding
  <2>. QED  BY <1>3, <2>1
<1>4. CASE k # 0
  <2>1. k - 1 \in Nat /\ k - 1 \notin Without
    BY <1>2, <1>4
  <2>2. PICK g : IsFolding(g, env, base, seq, 1..(k - 1))
    BY <2>1
  <2>. DEFINE f == [s \in SUBSET (1..k) |->
                       IF k \in s THEN Body(env, g[s \ {k}], seq[k]) ELSE g[s]]
              body(s) == IF s = {} THEN base
                         ELSE Body(env, f[s \ {Largest(s)}], seq[Largest(s)])
  <2>3. ASSUME NEW s \in SUBSET (1..k) PROVE f[s] = body(s)
    <3>1. CASE s = {}
      BY <3>1, <2>2 DEF IsFolding
    <3>2. CASE k \in s
      <4>1. Largest(s) = k
        BY <3>2, <1>2, LargestIsLast
      <4>2. s \ {k} \in SUBSET (1..k) /\ k \notin s \ {k}
        OBVIOUS
      <4>3. f[s \ {k}] = g[s \ {k}]
        BY <4>2
      <4>. QED  BY <3>2, <4>1, <4>3
    <3>3. CASE s # {} /\ k \notin s
      <4>1. s \in SUBSET (1..(k - 1))
        BY <3>3
      <4>2. g[s] = Body(env, g[s \ {Largest(s)}], seq[Largest(s)])
        BY <2>2, <3>3, <4>1 DEF IsFolding
      <4>3. f[s \ {Largest(s)}] = g[s \ {Largest(s)}] /\ f[s] = g[s]
        BY <3>3
      <4>. QED  BY <3>3, <4>2, <4>3
    <3>. QED  BY <3>1, <3>2, <3>3
  <2>4. f = [s \in SUBSET (1..k) |-> body(s)]
    <3>. HIDE DEF body
    <3>. QED  BY <2>3
  <2>5. IsFolding(f, env, base, seq, 1..k)
    BY <2>4 DEF IsFolding
  <2>. QED  BY <2>5
<1>. QED  BY <1>3, <1>4

Unfolds(f, env, base, seq, n) ==
    /\ FoldOf(env, base, seq) = f[1..n]
    /\ f[{}] = base
    /\ \A k \in 1..n : f[1..k] = Body(env, f[1..(k - 1)], seq[k])

\* Some function of the prefixes unfolds the fold step by step.
LEMMA FoldUnfolds ==
    ASSUME NEW env, NEW base, NEW seq, NEW n \in Nat, DOMAIN seq = 1..n
    PROVE  \E f : Unfolds(f, env, base, seq, n)
<1>. DEFINE f == CHOOSE f : IsFolding(f, env, base, seq, 1..n)
<1>1. IsFolding(f, env, base, seq, 1..n)
  BY FoldingExists
<1>2. FoldOf(env, base, seq) = f[1..n]
  BY DEF FoldOf
<1>3. f[{}] = base
  BY <1>1 DEF IsFolding
<1>4. ASSUME NEW k \in 1..n PROVE f[1..k] = Body(env, f[1..(k - 1)], seq[k])
  <2>1. Largest(1..k) = k
    BY LargestIsLast
  <2>2. (1..k) \ {k} = 1..(k - 1) /\ 1..k # {} /\ 1..k \in SUBSET (1..n)
    OBVIOUS
  <2>. HIDE DEF f
  <2>. QED  BY <1>1, <2>1, <2>2 DEF IsFolding
<1>. HIDE DEF f
<1>. QED  BY <1>2, <1>3, <1>4 DEF Unfolds

\* A fold along a sequence stays in a set that holds its base and that every
\* step stays in.
THEOREM FoldKeeps ==
    ASSUME NEW env, NEW base, NEW seq, NEW n \in Nat, DOMAIN seq = 1..n,
           NEW G, base \in G,
           \A x \in G : \A k \in 1..n : Body(env, x, seq[k]) \in G
    PROVE  FoldOf(env, base, seq) \in G
<1>1. PICK f : Unfolds(f, env, base, seq, n)
  BY FoldUnfolds
<1>. DEFINE Bad == {k \in 0..n : f[1..k] \notin G}
<1>2. SUFFICES ASSUME Bad # {} PROVE FALSE
  BY <1>1 DEF Unfolds
<1>3. PICK k \in Bad : \A m \in Bad : k <= m
  <2>1. Bad \subseteq Nat
    OBVIOUS
  <2>. HIDE DEF Bad
  <2>. QED  BY <1>2, <2>1, LeastNatural
<1>4. CASE k = 0
  BY <1>1, <1>4 DEF Unfolds
<1>5. CASE k # 0
  <2>1. k \in 1..n /\ k - 1 \in 0..n /\ k - 1 \notin Bad
    BY <1>3, <1>5
  <2>2. f[1..(k - 1)] \in G
    BY <2>1
  <2>3. Body(env, f[1..(k - 1)], seq[k]) \in G
    BY <2>1, <2>2
  <2>. QED  BY <1>1, <2>1, <2>3 DEF Unfolds
<1>. QED  BY <1>4, <1>5

\* The fold of an empty sequence is the base.
THEOREM FoldOfNothing ==
    ASSUME NEW env, NEW base, NEW seq, DOMAIN seq = {}
    PROVE  FoldOf(env, base, seq) = base
<1>1. DOMAIN seq = 1..0 /\ 1..0 = {}
  OBVIOUS
<1>2. PICK f : Unfolds(f, env, base, seq, 0)
  BY <1>1, FoldUnfolds
<1>. QED  BY <1>1, <1>2 DEF Unfolds
=============================================================================
