---------------------------- MODULE SumTheorems ----------------------------
(***************************************************************************)
(* Induction over the naturals and over finite sets, stated with a set in  *)
(* place of a predicate, and what SumFunctionOnSet computes.               *)
(***************************************************************************)
EXTENDS Integers, FiniteSets, Functions, FiniteSetTheorems, TLAPS

\* A set of naturals with 0 and the successor of each of its members is Nat.
LEMMA NatClosed ==
    ASSUME NEW G \in SUBSET Nat, 0 \in G, \A n \in G : n + 1 \in G
    PROVE  G = Nat
<1> SUFFICES ASSUME Nat \ G # {} PROVE FALSE
  OBVIOUS
<1> DEFINE R == OpToRel(<, Nat)
<1>1. IsWellFoundedOn(R, Nat)
  BY NatLessThanWellFounded
<1>2. PICK x \in Nat \ G : \A y \in Nat \ G : ~ (<<y, x>> \in R)
  <2> HIDE DEF R
  <2> QED BY <1>1, WFMin
<1>3. x # 0 /\ x - 1 \in Nat
  OBVIOUS
<1>4. <<x - 1, x>> \in R
  BY <1>3 DEF OpToRel
<1> HIDE DEF R
<1> QED
  BY <1>2, <1>3, <1>4

\* A set of subsets of a finite S that has {} and with each member also that
\* member and one more element has S.
LEMMA SetClosed ==
    ASSUME NEW S, IsFiniteSet(S), NEW G \in SUBSET SUBSET S, {} \in G,
           \A T \in G : \A x \in S \ T : T \cup {x} \in G
    PROVE  G = SUBSET S
<1> SUFFICES ASSUME (SUBSET S) \ G # {} PROVE FALSE
  OBVIOUS
<1> DEFINE R == StrictSubsetOrdering(S)
<1>1. IsWellFoundedOn(R, SUBSET S)
  BY FS_StrictSubsetOrderingWellFounded, FS_FiniteSubsetsOfFinite
<1>2. PICK T \in (SUBSET S) \ G : \A U \in (SUBSET S) \ G : ~ (<<U, T>> \in R)
  <2> HIDE DEF R
  <2> QED BY <1>1, WFMin
<1>3. PICK x \in T : TRUE
  OBVIOUS
<1>4. <<T \ {x}, T>> \in R
  BY DEF StrictSubsetOrdering
<1>5. T \ {x} \in G
  BY <1>2, <1>4
<1> QED
  BY <1>3, <1>5
-----------------------------------------------------------------------------
(* The recursion of a sum.                                                 *)

Pick(s) == CHOOSE x \in s : TRUE

\* The subsets of S with at most n elements.
UpTo(n, S) == {s \in SUBSET S : Cardinality(s) <= n}

\* g gives the sum of f over each member of D.
SumsOver(g, f, D) ==
    g = [s \in D |-> IF s = {} THEN 0 ELSE f[Pick(s)] + g[s \ {Pick(s)}]]

LEMMA PickOne ==
    ASSUME NEW S, S # {}
    PROVE  Pick(S) \in S
BY DEF Pick

\* Removing an element of a set leaves fewer.
LEMMA DropOne ==
    ASSUME NEW S, IsFiniteSet(S), NEW n \in Nat, NEW s \in UpTo(n + 1, S), NEW x \in s
    PROVE  s \ {x} \in UpTo(n, S)
<1>1. IsFiniteSet(s)
  BY FS_Subset DEF UpTo
<1>2. Cardinality(s \ {x}) = Cardinality(s) - 1 /\ Cardinality(s) \in Nat
  BY <1>1, FS_RemoveElement, FS_CardinalityType
<1> QED
  BY <1>2 DEF UpTo

LEMMA PickLeaves ==
    ASSUME NEW S, IsFiniteSet(S), NEW n \in Nat, NEW s \in UpTo(n + 1, S), s # {}
    PROVE  s \ {Pick(s)} \in UpTo(n, S)
BY PickOne, DropOne

LEMMA NoneUpTo ==
    ASSUME NEW S, IsFiniteSet(S)
    PROVE  \A s \in UpTo(0, S) : s = {}
<1> SUFFICES ASSUME NEW s \in UpTo(0, S) PROVE s = {}
  OBVIOUS
<1>1. IsFiniteSet(s) /\ Cardinality(s) <= 0
  BY FS_Subset DEF UpTo
<1> QED
  BY <1>1, FS_EmptySet, FS_CardinalityType

LEMMA AllUpTo ==
    ASSUME NEW S, IsFiniteSet(S)
    PROVE  Cardinality(S) \in Nat /\ UpTo(Cardinality(S), S) = SUBSET S
BY FS_Subset, FS_CardinalityType DEF UpTo

\* The function of all partial sums exists.
LEMMA SumsExist ==
    ASSUME NEW S, IsFiniteSet(S), NEW f
    PROVE  \E g : SumsOver(g, f, SUBSET S)
<1> DEFINE G == {n \in Nat : \E g : SumsOver(g, f, UpTo(n, S))}
<1>1. 0 \in G
  <2> DEFINE g == [s \in UpTo(0, S) |-> 0]
  <2>1. \A s \in UpTo(0, S) : s = {}
    BY NoneUpTo
  <2>2. SumsOver(g, f, UpTo(0, S))
    BY <2>1 DEF SumsOver
  <2> QED
    BY <2>2
<1>2. ASSUME NEW n \in G PROVE n + 1 \in G
  <2>1. PICK g : SumsOver(g, f, UpTo(n, S))
    BY <1>2
  <2> DEFINE h == [s \in UpTo(n + 1, S) |-> IF s = {} THEN 0 ELSE f[Pick(s)] + g[s \ {Pick(s)}]]
  <2>2. ASSUME NEW s \in UpTo(n + 1, S), s # {} PROVE g[s \ {Pick(s)}] = h[s \ {Pick(s)}]
    <3> DEFINE t == s \ {Pick(s)}
    <3>1. t \in UpTo(n, S)
      BY <2>2, PickLeaves
    <3>2. t \in UpTo(n + 1, S)
      <4>1. IsFiniteSet(t)
        BY <3>1, FS_Subset DEF UpTo
      <4> QED
        BY <3>1, <4>1, FS_CardinalityType DEF UpTo
    <3> HIDE DEF t
    <3>3. g[t] = IF t = {} THEN 0 ELSE f[Pick(t)] + g[t \ {Pick(t)}]
      BY <2>1, <3>1 DEF SumsOver
    <3> QED
      BY <3>2, <3>3 DEF t
  <2>3. SumsOver(h, f, UpTo(n + 1, S))
    BY <2>2 DEF SumsOver
  <2> QED
    BY <2>3
<1>3. G = Nat
  BY <1>1, <1>2, NatClosed
<1>4. Cardinality(S) \in Nat /\ UpTo(Cardinality(S), S) = SUBSET S
  BY AllUpTo
<1>5. Cardinality(S) \in G
  BY <1>3, <1>4
<1> QED
  BY <1>4, <1>5

\* On the sets they share, two such functions agree.
LEMMA SumsAgree ==
    ASSUME NEW S, IsFiniteSet(S), NEW T \in SUBSET S, NEW f, NEW g, NEW h,
           SumsOver(g, f, SUBSET S), SumsOver(h, f, SUBSET T)
    PROVE  g[T] = h[T]
<1> DEFINE G == {n \in Nat : \A s \in UpTo(n, T) : g[s] = h[s]}
<1>0. IsFiniteSet(T)
  BY FS_Subset
<1>1. ASSUME NEW s \in SUBSET T
      PROVE  /\ g[s] = IF s = {} THEN 0 ELSE f[Pick(s)] + g[s \ {Pick(s)}]
             /\ h[s] = IF s = {} THEN 0 ELSE f[Pick(s)] + h[s \ {Pick(s)}]
  BY DEF SumsOver
<1>2. 0 \in G
  <2>1. \A s \in UpTo(0, T) : s = {}
    BY <1>0, NoneUpTo
  <2> QED
    BY <1>1, <2>1
<1>3. ASSUME NEW n \in G PROVE n + 1 \in G
  <2> SUFFICES ASSUME NEW s \in UpTo(n + 1, T), s # {} PROVE g[s] = h[s]
    BY <1>1
  <2>1. s \in SUBSET T
    BY DEF UpTo
  <2>2. g[s \ {Pick(s)}] = h[s \ {Pick(s)}]
    BY <1>0, PickLeaves
  <2> QED
    BY <1>1, <2>1, <2>2
<1>4. G = Nat
  BY <1>2, <1>3, NatClosed
<1>5. Cardinality(T) \in G /\ T \in UpTo(Cardinality(T), T)
  BY <1>0, <1>4, AllUpTo
<1> QED
  BY <1>5

\* SumFunctionOnSet is one of them.
LEMMA SumsDefined ==
    ASSUME NEW S, IsFiniteSet(S), NEW f
    PROVE  \E h : SumsOver(h, f, SUBSET S) /\ SumFunctionOnSet(f, S) = h[S]
<1> DEFINE Q(h) == h = [s \in SUBSET S |-> IF s = {} THEN 0 ELSE f[Pick(s)] + h[s \ {Pick(s)}]]
<1>1. PICK g : SumsOver(g, f, SUBSET S)
  BY SumsExist
<1>3. Q(g)
  BY <1>1 DEF SumsOver
<1>2. SumFunctionOnSet(f, S) = (CHOOSE h : Q(h))[S]
  BY DEF SumFunctionOnSet, FoldFunctionOnSet, MapThenFoldSet, Pick
<1> QED
  BY <1>2, <1>3 DEF SumsOver

\* SumFunctionOnSet unfolds: the picked element and the sum of the others.
LEMMA SumUnfold ==
    ASSUME NEW S, IsFiniteSet(S), NEW f
    PROVE  SumFunctionOnSet(f, S) =
             IF S = {} THEN 0 ELSE f[Pick(S)] + SumFunctionOnSet(f, S \ {Pick(S)})
<1>1. \A T \in SUBSET S : \E h : SumsOver(h, f, SUBSET T) /\ SumFunctionOnSet(f, T) = h[T]
  BY SumsDefined, FS_Subset
<1>2. PICK g : SumsOver(g, f, SUBSET S) /\ SumFunctionOnSet(f, S) = g[S]
  BY <1>1
<1>3. ASSUME NEW T \in SUBSET S PROVE SumFunctionOnSet(f, T) = g[T]
  <2>1. PICK h : SumsOver(h, f, SUBSET T) /\ SumFunctionOnSet(f, T) = h[T]
    BY <1>1
  <2> QED
    BY <1>2, <2>1, SumsAgree
<1>4. g[S] = IF S = {} THEN 0 ELSE f[Pick(S)] + g[S \ {Pick(S)}]
  BY <1>2 DEF SumsOver
<1> QED
  BY <1>2, <1>3, <1>4
-----------------------------------------------------------------------------
(* What sums of integers are.                                              *)

\* f gives integers on S.
Ints(f, S) == \A x \in S : f[x] \in Int

LEMMA SumEmpty == \A f : SumFunctionOnSet(f, {}) = 0
BY SumUnfold, FS_EmptySet

\* The sum does not depend on the order in which the elements are taken.
LEMMA SumPartsOut ==
    ASSUME NEW S, IsFiniteSet(S), NEW f, Ints(f, S)
    PROVE  /\ SumFunctionOnSet(f, S) \in Int
           /\ \A x \in S : SumFunctionOnSet(f, S) = f[x] + SumFunctionOnSet(f, S \ {x})
<1> DEFINE Sum(s) == SumFunctionOnSet(f, s)
           Parts(s) == Sum(s) \in Int /\ \A x \in s : Sum(s) = f[x] + Sum(s \ {x})
           G == {n \in Nat : \A s \in UpTo(n, S) : Parts(s)}
<1>0. Parts({})
  BY SumEmpty
<1>1. 0 \in G
  BY <1>0, NoneUpTo
<1>2. ASSUME NEW n \in G PROVE n + 1 \in G
  <2> SUFFICES ASSUME NEW s \in UpTo(n + 1, S) PROVE Parts(s)
    OBVIOUS
  <2> SUFFICES ASSUME s # {} PROVE Parts(s)
    BY <1>0
  <2> DEFINE p == Pick(s)
  <2>0. IsFiniteSet(s) /\ s \subseteq S /\ p \in s
    BY FS_Subset, PickOne DEF UpTo
  <2>1. s \ {p} \in UpTo(n, S)
    BY PickLeaves
  <2>2. Sum(s) = f[p] + Sum(s \ {p})
    BY <2>0, SumUnfold
  <2>3. Parts(s \ {p})
    BY <2>1
  <2>4. Sum(s) \in Int
    BY <2>0, <2>2, <2>3 DEF Ints
  <2>5. ASSUME NEW x \in s, x # p PROVE Sum(s) = f[x] + Sum(s \ {x})
    <3>1. Sum(s \ {p}) = f[x] + Sum((s \ {p}) \ {x})
      BY <2>3, <2>5
    <3>2. s \ {x} \in UpTo(n, S) /\ p \in s \ {x}
      BY <2>0, <2>5, DropOne
    <3>3. (s \ {x}) \ {p} = (s \ {p}) \ {x}
      OBVIOUS
    <3>4. Sum(s \ {x}) = f[p] + Sum((s \ {p}) \ {x})
      BY <3>2, <3>3
    <3>5. (s \ {p}) \ {x} \in UpTo(n, S)
      BY <2>0, <2>1, <2>5, FS_RemoveElement, FS_CardinalityType, FS_Subset DEF UpTo
    <3>6. Sum((s \ {p}) \ {x}) \in Int /\ f[x] \in Int /\ f[p] \in Int
      BY <2>0, <3>5 DEF Ints
    <3> HIDE DEF Sum, p, G
    <3> QED
      BY <2>2, <3>1, <3>4, <3>6
  <2> QED
    BY <2>2, <2>4, <2>5
<1>3. G = Nat
  BY <1>1, <1>2, NatClosed
<1>4. Cardinality(S) \in G /\ S \in UpTo(Cardinality(S), S)
  BY <1>3, AllUpTo
<1> QED
  BY <1>4

LEMMA SumInt ==
    ASSUME NEW S, IsFiniteSet(S), NEW f, Ints(f, S)
    PROVE  SumFunctionOnSet(f, S) \in Int
BY SumPartsOut

\* One more element.
LEMMA SumAdd ==
    ASSUME NEW S, IsFiniteSet(S), NEW x, x \notin S, NEW f, Ints(f, S \cup {x})
    PROVE  SumFunctionOnSet(f, S \cup {x}) = f[x] + SumFunctionOnSet(f, S)
<1>1. IsFiniteSet(S \cup {x})
  BY FS_AddElement
<1>2. (S \cup {x}) \ {x} = S
  OBVIOUS
<1> QED
  BY <1>1, <1>2, SumPartsOut

\* Functions that agree on a set have the same sum over it.
LEMMA SumSame ==
    ASSUME NEW S, IsFiniteSet(S), NEW f, NEW g, Ints(f, S), \A x \in S : f[x] = g[x]
    PROVE  SumFunctionOnSet(f, S) = SumFunctionOnSet(g, S)
<1> DEFINE G == {T \in SUBSET S : SumFunctionOnSet(f, T) = SumFunctionOnSet(g, T)}
<1>1. {} \in G
  BY SumEmpty
<1>2. ASSUME NEW T \in G, NEW x \in S \ T PROVE T \cup {x} \in G
  <2>1. IsFiniteSet(T) /\ Ints(f, T \cup {x}) /\ Ints(g, T \cup {x})
    BY FS_Subset DEF Ints
  <2> QED
    BY <2>1, SumAdd
<1>3. G = SUBSET S
  <2>1. G \in SUBSET SUBSET S
    OBVIOUS
  <2> HIDE DEF G
  <2> QED
    BY <1>1, <1>2, <2>1, SetClosed
<1> QED
  BY <1>3

\* Functions that differ at one element.
LEMMA SumChange ==
    ASSUME NEW S, IsFiniteSet(S), NEW f, NEW g, Ints(f, S), Ints(g, S),
           NEW x \in S, \A y \in S \ {x} : f[y] = g[y]
    PROVE  SumFunctionOnSet(g, S) = SumFunctionOnSet(f, S) - f[x] + g[x]
<1>1. IsFiniteSet(S \ {x}) /\ Ints(f, S \ {x}) /\ Ints(g, S \ {x})
  BY FS_Subset DEF Ints
<1>2. SumFunctionOnSet(f, S \ {x}) = SumFunctionOnSet(g, S \ {x})
  BY <1>1, SumSame
<1>3. /\ SumFunctionOnSet(f, S) = f[x] + SumFunctionOnSet(f, S \ {x})
      /\ SumFunctionOnSet(g, S) = g[x] + SumFunctionOnSet(g, S \ {x})
  BY SumPartsOut
<1>4. SumFunctionOnSet(f, S \ {x}) \in Int /\ f[x] \in Int /\ g[x] \in Int
  BY <1>1, SumInt DEF Ints
<1> QED
  BY <1>2, <1>3, <1>4

\* A sum of naturals is a natural, and at least each of them.
LEMMA SumNat ==
    ASSUME NEW S, IsFiniteSet(S), NEW f, \A x \in S : f[x] \in Nat
    PROVE  /\ SumFunctionOnSet(f, S) \in Nat
           /\ \A x \in S : f[x] <= SumFunctionOnSet(f, S)
<1> DEFINE G == {T \in SUBSET S : SumFunctionOnSet(f, T) \in Nat}
<1>1. {} \in G
  BY SumEmpty
<1>2. ASSUME NEW T \in G, NEW x \in S \ T PROVE T \cup {x} \in G
  <2>1. IsFiniteSet(T) /\ Ints(f, T \cup {x})
    BY FS_Subset DEF Ints
  <2>2. SumFunctionOnSet(f, T \cup {x}) = f[x] + SumFunctionOnSet(f, T)
    BY <2>1, SumAdd
  <2> QED
    BY <2>2
<1>3. G = SUBSET S
  <2>1. G \in SUBSET SUBSET S
    OBVIOUS
  <2> HIDE DEF G
  <2> QED
    BY <1>1, <1>2, <2>1, SetClosed
<1>4. ASSUME NEW x \in S PROVE f[x] <= SumFunctionOnSet(f, S)
  <2>1. SumFunctionOnSet(f, S) = f[x] + SumFunctionOnSet(f, S \ {x})
    BY SumPartsOut DEF Ints
  <2>2. SumFunctionOnSet(f, S \ {x}) \in Nat
    BY <1>3
  <2> QED
    BY <2>1, <2>2
<1> QED
  BY <1>3, <1>4

\* The sum of pointwise sums.
LEMMA SumPlus ==
    ASSUME NEW S, IsFiniteSet(S), NEW f, NEW g, NEW h, Ints(f, S), Ints(g, S),
           \A x \in S : h[x] = f[x] + g[x]
    PROVE  SumFunctionOnSet(h, S) = SumFunctionOnSet(f, S) + SumFunctionOnSet(g, S)
<1> DEFINE F(T) == SumFunctionOnSet(f, T)
           H(T) == SumFunctionOnSet(g, T)
           B(T) == SumFunctionOnSet(h, T)
           G == {T \in SUBSET S : B(T) = F(T) + H(T)}
<1>1. {} \in G
  BY SumEmpty
<1>2. ASSUME NEW T \in G, NEW x \in S \ T PROVE T \cup {x} \in G
  <2>1. /\ IsFiniteSet(T) /\ Ints(f, T \cup {x}) /\ Ints(g, T \cup {x})
        /\ Ints(h, T \cup {x}) /\ Ints(f, T) /\ Ints(g, T)
    BY FS_Subset DEF Ints
  <2>2. F(T) \in Int /\ H(T) \in Int
    BY <2>1, SumInt
  <2>3. /\ F(T \cup {x}) = f[x] + F(T)
        /\ H(T \cup {x}) = g[x] + H(T)
        /\ B(T \cup {x}) = h[x] + B(T)
    BY <2>1, SumAdd
  <2>4. f[x] \in Int /\ g[x] \in Int /\ h[x] = f[x] + g[x]
    BY DEF Ints
  <2> HIDE DEF F, H, B
  <2> QED
    BY <2>2, <2>3, <2>4
<1>3. G = SUBSET S
  <2>1. G \in SUBSET SUBSET S
    OBVIOUS
  <2> HIDE DEF G
  <2> QED
    BY <1>1, <1>2, <2>1, SetClosed
<1> QED
  BY <1>3

\* SumFunction is the sum over the whole domain.
LEMMA SumWhole == \A f : SumFunction(f) = SumFunctionOnSet(f, DOMAIN f)
BY DEF SumFunction, SumFunctionOnSet, FoldFunction

\* Only one element counts.
LEMMA SumOnly ==
    ASSUME NEW S, IsFiniteSet(S), NEW f, NEW x \in S, f[x] \in Int,
           \A y \in S \ {x} : f[y] = 0
    PROVE  SumFunctionOnSet(f, S) = f[x]
<1> DEFINE G == {T \in SUBSET (S \ {x}) : SumFunctionOnSet(f, T) = 0}
<1>0. IsFiniteSet(S \ {x})
  BY FS_Subset
<1>1. {} \in G
  BY SumEmpty
<1>2. ASSUME NEW T \in G, NEW y \in (S \ {x}) \ T PROVE T \cup {y} \in G
  <2>1. IsFiniteSet(T) /\ Ints(f, T \cup {y})
    BY <1>0, FS_Subset DEF Ints
  <2>2. SumFunctionOnSet(f, T \cup {y}) = f[y] + SumFunctionOnSet(f, T)
    BY <2>1, SumAdd
  <2> QED
    BY <2>2
<1>3. G = SUBSET (S \ {x})
  <2>1. G \in SUBSET SUBSET (S \ {x})
    OBVIOUS
  <2> HIDE DEF G
  <2> QED
    BY <1>0, <1>1, <1>2, <2>1, SetClosed
<1>4. SumFunctionOnSet(f, S) = f[x] + SumFunctionOnSet(f, S \ {x})
  BY SumPartsOut DEF Ints
<1> QED
  BY <1>3, <1>4

LEMMA SumZero ==
    ASSUME NEW S, IsFiniteSet(S), NEW f, \A x \in S : f[x] = 0
    PROVE  SumFunctionOnSet(f, S) = 0
<1>1. CASE S = {}
  BY <1>1, SumEmpty
<1>2. CASE S # {}
  <2>1. PICK x \in S : TRUE
    BY <1>2
  <2> QED
    BY <2>1, SumOnly
<1> QED
  BY <1>1, <1>2

\* Elements at which f is 0 do not count.
LEMMA SumPart ==
    ASSUME NEW T, IsFiniteSet(T), NEW S \in SUBSET T, NEW f, Ints(f, T),
           \A x \in T \ S : f[x] = 0
    PROVE  SumFunctionOnSet(f, T) = SumFunctionOnSet(f, S)
<1> DEFINE G == {U \in SUBSET (T \ S) : SumFunctionOnSet(f, S \cup U) = SumFunctionOnSet(f, S)}
<1>0. IsFiniteSet(T \ S) /\ IsFiniteSet(S)
  BY FS_Subset
<1>1. {} \in G
  OBVIOUS
<1>2. ASSUME NEW U \in G, NEW x \in (T \ S) \ U PROVE U \cup {x} \in G
  <2>1. /\ IsFiniteSet(S \cup U) /\ Ints(f, (S \cup U) \cup {x}) /\ x \notin S \cup U
        /\ Ints(f, S \cup U)
    BY FS_Subset DEF Ints
  <2>2. SumFunctionOnSet(f, (S \cup U) \cup {x}) = f[x] + SumFunctionOnSet(f, S \cup U)
    BY <2>1, SumAdd
  <2>3. SumFunctionOnSet(f, S \cup U) \in Int /\ f[x] = 0
    BY <2>1, SumInt
  <2>4. (S \cup U) \cup {x} = S \cup (U \cup {x})
    OBVIOUS
  <2>5. SumFunctionOnSet(f, S \cup U) \in Int /\ SumFunctionOnSet(f, S) \in Int
    BY <1>0, <2>1, SumInt DEF Ints
  <2>6. SumFunctionOnSet(f, (S \cup U) \cup {x}) = SumFunctionOnSet(f, S)
    BY <2>2, <2>3, <2>5
  <2>7. SumFunctionOnSet(f, S \cup (U \cup {x})) = SumFunctionOnSet(f, S)
    BY <2>4, <2>6, Zenon
  <2> QED
    BY <2>7, Zenon
<1>3. G = SUBSET (T \ S)
  <2>1. G \in SUBSET SUBSET (T \ S)
    OBVIOUS
  <2> HIDE DEF G
  <2> QED
    BY <1>0, <1>1, <1>2, <2>1, SetClosed
<1>4. S \cup (T \ S) = T
  OBVIOUS
<1>5. T \ S \in G
  BY <1>3
<1>6. SumFunctionOnSet(f, S \cup (T \ S)) = SumFunctionOnSet(f, S)
  BY <1>5, Zenon
<1> QED
  BY <1>4, <1>6, Zenon

\* At most one element counts, for one.
LEMMA SumOneOrNone ==
    ASSUME NEW S, IsFiniteSet(S), NEW f, \A x \in S : f[x] \in {0, 1},
           \A x, y \in S : f[x] = 1 /\ f[y] = 1 => x = y
    PROVE  SumFunctionOnSet(f, S) = IF \E x \in S : f[x] = 1 THEN 1 ELSE 0
<1>1. ASSUME NEW x \in S, f[x] = 1 PROVE SumFunctionOnSet(f, S) = 1
  BY <1>1, SumOnly
<1> QED
  BY <1>1, SumZero

\* The sum over T, taken along b, a function from S that meets every element
\* of T exactly once.
LEMMA SumAlong ==
    ASSUME NEW S, IsFiniteSet(S), NEW T, IsFiniteSet(T), NEW b \in [S -> T],
           \A x, y \in S : b[x] = b[y] => x = y, \A z \in T : \E x \in S : b[x] = z,
           NEW f, NEW g, Ints(f, S), \A x \in S : f[x] = g[b[x]]
    PROVE  SumFunctionOnSet(f, S) = SumFunctionOnSet(g, T)
<1> DEFINE Image(U) == {b[x] : x \in U}
           G == {U \in SUBSET S : SumFunctionOnSet(f, U) = SumFunctionOnSet(g, Image(U))}
<1>1. {} \in G
  BY SumEmpty
<1>2. ASSUME NEW U \in G, NEW x \in S \ U PROVE U \cup {x} \in G
  <2>1. IsFiniteSet(U) /\ Ints(f, U \cup {x})
    BY FS_Subset DEF Ints
  <2>2. /\ Image(U \cup {x}) = Image(U) \cup {b[x]}
        /\ b[x] \notin Image(U) /\ Image(U) \subseteq T
    OBVIOUS
  <2>3. IsFiniteSet(Image(U)) /\ Ints(g, Image(U) \cup {b[x]})
    BY <2>1, <2>2, FS_Subset DEF Ints
  <2>4. SumFunctionOnSet(f, U \cup {x}) = f[x] + SumFunctionOnSet(f, U)
    BY <2>1, SumAdd
  <2> HIDE DEF Image
  <2>5. SumFunctionOnSet(g, Image(U) \cup {b[x]}) = g[b[x]] + SumFunctionOnSet(g, Image(U))
    BY <2>2, <2>3, SumAdd
  <2> QED
    BY <2>2, <2>4, <2>5
<1>3. G = SUBSET S
  <2>1. G \in SUBSET SUBSET S
    OBVIOUS
  <2> HIDE DEF G
  <2> QED
    BY <1>1, <1>2, <2>1, SetClosed
<1>4. Image(S) = T
  OBVIOUS
<1> QED
  BY <1>3, <1>4

\* Sums over an interval, by its last and by its first element.
LEMMA SumLast ==
    ASSUME NEW n \in Nat \ {0}, NEW f, Ints(f, 1 .. n)
    PROVE  SumFunctionOnSet(f, 1 .. n) = SumFunctionOnSet(f, 1 .. n - 1) + f[n]
<1> DEFINE A == 1 .. n
<1>1. n \in A /\ A \ {n} = 1 .. n - 1
  OBVIOUS
<1>2. IsFiniteSet(A) /\ Ints(f, A)
  BY FS_Interval
<1>3. f[n] \in Int /\ SumFunctionOnSet(f, A \ {n}) \in Int
  BY <1>1, <1>2, SumInt, FS_Subset DEF Ints
<1> HIDE DEF A
<1>4. SumFunctionOnSet(f, A) = f[n] + SumFunctionOnSet(f, A \ {n})
  BY <1>1, <1>2, SumPartsOut
<1>5. SumFunctionOnSet(f, A) = SumFunctionOnSet(f, A \ {n}) + f[n]
  BY <1>3, <1>4
<1> QED
  BY <1>1, <1>5, Zenon DEF A

LEMMA SumFirst ==
    ASSUME NEW n \in Nat \ {0}, NEW f, Ints(f, 1 .. n),
           NEW g, \A i \in 1 .. n - 1 : g[i] = f[i + 1]
    PROVE  SumFunctionOnSet(f, 1 .. n) = f[1] + SumFunctionOnSet(g, 1 .. n - 1)
<1> DEFINE A == 1 .. n
           S == 1 .. n - 1
           T == 2 .. n
           b == [i \in S |-> i + 1]
<1>1. 1 \in A /\ A \ {1} = T
  OBVIOUS
<1>2. IsFiniteSet(A) /\ Ints(f, A) /\ IsFiniteSet(S) /\ IsFiniteSet(T)
  BY FS_Interval
<1>3. /\ b \in [S -> T] /\ \A i \in S : b[i] = i + 1
      /\ \A x, y \in S : b[x] = b[y] => x = y
  OBVIOUS
<1>4. \A z \in T : z - 1 \in S /\ b[z - 1] = z
  OBVIOUS
<1>5. \A i \in S : i + 1 \in A /\ g[i] = f[i + 1]
  OBVIOUS
<1>6. Ints(g, S)
  BY <1>2, <1>5 DEF Ints
<1> HIDE DEF A, S, T, b
<1>7. SumFunctionOnSet(f, A) = f[1] + SumFunctionOnSet(f, A \ {1})
  BY <1>1, <1>2, SumPartsOut
<1>8. \A z \in T : \E x \in S : b[x] = z
  BY <1>4
<1>9. \A i \in S : g[i] = f[b[i]]
  BY <1>3, <1>5
<1>10. SumFunctionOnSet(g, S) = SumFunctionOnSet(f, T)
  BY <1>2, <1>3, <1>6, <1>8, <1>9, SumAlong
<1>11. SumFunctionOnSet(f, A) = f[1] + SumFunctionOnSet(g, S)
  BY <1>1, <1>7, <1>10
<1> QED
  BY <1>11, Zenon DEF A, S
=============================================================================
