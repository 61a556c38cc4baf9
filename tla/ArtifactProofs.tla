-------------------------- MODULE ArtifactProofs --------------------------
(***************************************************************************)
(* That the accounting of the artifact cache is exact, that its rows can be *)
(* evicted in the order of their last use, that an eviction ends within the *)
(* limits and that nobody waits in vain for an ingest or a remap, for every *)
(* set of artifacts and of calls, every size and every limit; that the jars *)
(* extracted from a shell jar are whole and a class is found in them; and   *)
(* that an artifact that is resolved is what it is labelled.                *)
(*                                                                         *)
(* First induction on data, for sets T and not for operators; then what the *)
(* sum over a function and the deletion from a list are; then the store,    *)
(* the calls, and the steps; then the lookups in bundled jars; and last the *)
(* resolution of a target.                                                  *)
(***************************************************************************)
EXTENDS ArtifactCache, NestedJars, ArtifactResolution, FiniteSetTheorems, TLAPS

(* Of some subsets of a finite set one has none of the others inside it. *)
LEMMA SmallestCounterexample ==
  ASSUME NEW S, IsFiniteSet(S), NEW T, T \subseteq SUBSET S, T # {}
  PROVE  \E s \in T : \A t \in T : ~(t \subseteq s /\ t # s)
<1>1. IsWellFoundedOn(StrictSubsetOrdering(S), SUBSET S)
  BY FS_StrictSubsetOrderingWellFounded, FS_FiniteSubsetsOfFinite
<1>2. PICK s \in T : \A t \in T : ~ (<<t, s>> \in StrictSubsetOrdering(S))
  BY <1>1, WFMin
<1> QED
  BY <1>2 DEF StrictSubsetOrdering

(* Induction over the subsets of a finite set: T has all of them when it has the empty
   one, and every one that it has without some one element of it. *)
LEMMA OnSets ==
  ASSUME NEW S, IsFiniteSet(S), NEW T, {} \in T,
         \A s \in SUBSET S : \A x \in s : s \ {x} \in T => s \in T
  PROVE  SUBSET S \subseteq T
<1> DEFINE Bad == {s \in SUBSET S : s \notin T}
<1>1. SUFFICES ASSUME Bad # {} PROVE FALSE
  OBVIOUS
<1>2. PICK s \in Bad : \A t \in Bad : ~(t \subseteq s /\ t # s)
  <2>1. Bad \subseteq SUBSET S
    OBVIOUS
  <2> HIDE DEF Bad
  <2> QED
    BY <1>1, <2>1, SmallestCounterexample
<1>3. PICK x \in s : TRUE
  BY <1>2
<1>4. s \ {x} \notin Bad
  BY <1>2
<1> QED
  BY <1>2, <1>3, <1>4

(* Induction over the numbers, for a set T and not for an operator. *)
LEMMA OnNumbers ==
  ASSUME NEW T, 0 \in T, \A n \in Nat : n \in T => n + 1 \in T
  PROVE  Nat \subseteq T
<1>1. SUFFICES ASSUME NEW m \in Nat, m \notin T PROVE FALSE
  OBVIOUS
<1> DEFINE Left == {n \in 0 .. m : n \notin T}
           Bad == {0 .. n : n \in Left}
<1>2. IsFiniteSet(0 .. m) /\ Bad \subseteq SUBSET (0 .. m) /\ 0 .. m \in Bad
  <2>1. IsFiniteSet(0 .. m)
    BY FS_Interval
  <2>2. \A n \in Left : 0 .. n \subseteq 0 .. m
    OBVIOUS
  <2>3. m \in Left
    BY <1>1
  <2> QED
    BY <2>1, <2>2, <2>3
<1>3. PICK s \in Bad : \A t \in Bad : ~(t \subseteq s /\ t # s)
  <2> DEFINE S == 0 .. m
  <2>1. IsFiniteSet(S) /\ Bad \subseteq SUBSET S /\ Bad # {}
    BY <1>2
  <2> HIDE DEF Bad, S
  <2> QED
    BY <2>1, SmallestCounterexample
<1>4. PICK n \in Left : s = 0 .. n
  BY <1>3
<1>5. n \in Nat /\ n # 0 /\ n \notin T /\ n \in 0 .. m
  BY <1>4
<1>6. n - 1 \in Nat /\ (n - 1) + 1 = n /\ n - 1 \in 0 .. m
  BY <1>5
<1>7. n - 1 \in Left
  BY <1>5, <1>6
<1>8. 0 .. (n - 1) \in Bad
  BY <1>7
<1>9. 0 .. (n - 1) \subseteq 0 .. n /\ 0 .. (n - 1) # 0 .. n
  <2>1. n \in 0 .. n /\ n \notin 0 .. (n - 1)
    BY <1>5
  <2> QED
    BY <1>5, <2>1
<1> QED
  BY <1>3, <1>4, <1>8, <1>9

(* A sequence that is not empty is another one with an element appended. *)
LEMMA LastTaken ==
  ASSUME NEW X, NEW s \in Seq(X), s # <<>>
  PROVE  \E r \in Seq(X), a \in X : s = Append(r, a) /\ Len(s) = Len(r) + 1
<1> DEFINE n == Len(s)
           r == [i \in 1 .. n - 1 |-> s[i]]
           a == s[n]
<1>1. n \in Nat /\ n # 0 /\ s = [i \in 1 .. n |-> s[i]] /\ \A i \in 1 .. n : s[i] \in X
  OBVIOUS
<1>2. r \in Seq(X) /\ Len(r) = n - 1 /\ a \in X
  BY <1>1
<1>3. \A i \in 1 .. n : Append(r, a)[i] = s[i]
  BY <1>1, <1>2
<1>4. Append(r, a) \in Seq(X) /\ Len(Append(r, a)) = n
  BY <1>1, <1>2
<1>5. Append(r, a) = s
  <2> DEFINE t == Append(r, a)
  <2>1. t = [i \in 1 .. n |-> t[i]]
    BY <1>4
  <2>2. \A i \in 1 .. n : t[i] = s[i]
    BY <1>3
  <2>3. t = s
    <3> HIDE DEF t, r, a, n
    <3> QED
      BY <1>1, <2>1, <2>2
  <2> QED
    BY <2>3
<1>6. Len(s) = Len(r) + 1
  BY <1>1, <1>2
<1> HIDE DEF r, a
<1> QED
  BY <1>2, <1>5, <1>6

(* Induction over sequences, by what is appended. *)
LEMMA OnSequences ==
  ASSUME NEW X, NEW T, <<>> \in T,
         \A r \in Seq(X), a \in X : r \in T => Append(r, a) \in T
  PROVE  Seq(X) \subseteq T
<1> DEFINE Lengths == {n \in Nat : \A s \in Seq(X) : Len(s) = n => s \in T}
<1>1. 0 \in Lengths
  <2>1. \A s \in Seq(X) : Len(s) = 0 => s = <<>>
    OBVIOUS
  <2> QED
    BY <2>1
<1>2. ASSUME NEW n \in Nat, n \in Lengths
      PROVE  n + 1 \in Lengths
  <2>1. ASSUME NEW s \in Seq(X), Len(s) = n + 1
        PROVE  s \in T
    <3>1. s # <<>>
      BY <2>1
    <3>2. PICK r \in Seq(X), a \in X : s = Append(r, a) /\ Len(s) = Len(r) + 1
      BY <3>1, LastTaken
    <3>3. Len(r) = n
      BY <2>1, <3>2
    <3> QED
      BY <1>2, <3>2, <3>3
  <2> QED
    BY <2>1
<1>3. Nat \subseteq Lengths
  <2> HIDE DEF Lengths
  <2> QED
    BY <1>1, <1>2, OnNumbers
<1> QED
  BY <1>3

-----------------------------------------------------------------------------
(* Sums over functions. The element that the recursion takes, its body and its value *)
First(s) == CHOOSE x \in s : TRUE
Body(f, S, g) == [s \in SUBSET S |-> IF s = {} THEN 0 ELSE f[First(s)] + g[s \ {First(s)}]]
Iter(f, S) == CHOOSE g : g = Body(f, S, g)

(* The sum, with the recursive function it is the value of. *)
LEMMA SumIter ==
  ASSUME NEW f, NEW S
  PROVE  SumFunctionOnSet(f, S) = Iter(f, S)[S]
  BY DEF SumFunctionOnSet, FoldFunctionOnSet, MapThenFoldSet, Iter, Body, First

(* CHOOSE takes an element when there is one. *)
LEMMA FirstIn == ASSUME NEW s, s # {} PROVE First(s) \in s
  BY DEF First

(* What satisfies the recursion over the subsets of S *)
Solves(f, S, g) == g = Body(f, S, g)

(* g on the subsets of T only *)
CutTo(g, T) == [s \in SUBSET T |-> g[s]]

(* A solution for S is one for each subset of S. *)
LEMMA Narrower ==
  ASSUME NEW f, NEW S, NEW T \in SUBSET S, NEW g, Solves(f, S, g)
  PROVE  Solves(f, T, CutTo(g, T))
<1> DEFINE h == [s \in SUBSET T |-> g[s]]
<1>1. \A s \in SUBSET S : g[s] = IF s = {} THEN 0 ELSE f[First(s)] + g[s \ {First(s)}]
  BY DEF Solves, Body
<1>2. \A s \in SUBSET T : s \in SUBSET S /\ s \ {First(s)} \in SUBSET T
  OBVIOUS
<1>3. \A s \in SUBSET T : h[s] = IF s = {} THEN 0 ELSE f[First(s)] + h[s \ {First(s)}]
  BY <1>1, <1>2
<1> QED
  BY <1>3 DEF Solves, Body, CutTo

(* The recursion of the sum has one solution at most, ... *)
LEMMA OneSolution ==
  ASSUME NEW f, NEW S, IsFiniteSet(S), NEW g, NEW h, Solves(f, S, g), Solves(f, S, h)
  PROVE  g = h
<1> DEFINE Bad == {s \in SUBSET S : g[s] # h[s]}
<1>1. SUFFICES Bad = {}
  BY DEF Solves, Body
<1>2. SUFFICES ASSUME Bad # {} PROVE FALSE
  OBVIOUS
<1>3. PICK s \in Bad : \A t \in Bad : ~(t \subseteq s /\ t # s)
  <2>1. Bad \subseteq SUBSET S
    OBVIOUS
  <2> HIDE DEF Bad
  <2> QED
    BY <1>2, <2>1, SmallestCounterexample
<1>4. \A t \in SUBSET S : /\ g[t] = IF t = {} THEN 0 ELSE f[First(t)] + g[t \ {First(t)}]
                          /\ h[t] = IF t = {} THEN 0 ELSE f[First(t)] + h[t \ {First(t)}]
  BY DEF Solves, Body
<1>5. s # {} /\ First(s) \in s
  BY <1>3, <1>4, FirstIn
<1>6. s \ {First(s)} \in SUBSET S /\ s \ {First(s)} \notin Bad
  BY <1>3, <1>5
<1> QED
  BY <1>3, <1>4, <1>5, <1>6

(* ... and at least one. *)
LEMMA SolutionExists ==
  ASSUME NEW f, NEW S, IsFiniteSet(S)
  PROVE  \E g : Solves(f, S, g)
<1> DEFINE Bad == {s \in SUBSET S : ~ \E g : Solves(f, s, g)}
<1>2. SUFFICES ASSUME Bad # {} PROVE FALSE
  OBVIOUS
<1>3. PICK s \in Bad : \A t \in Bad : ~(t \subseteq s /\ t # s)
  <2>1. Bad \subseteq SUBSET S
    OBVIOUS
  <2> HIDE DEF Bad
  <2> QED
    BY <1>2, <2>1, SmallestCounterexample
<1>4. \A t \in SUBSET s : IsFiniteSet(t)
  BY FS_Subset
<1>5. \A t \in SUBSET s : t # s => \E g : Solves(f, t, g)
  BY <1>3
<1> DEFINE G(t) == CHOOSE g : Solves(f, t, g)
<1> DEFINE h == [t \in SUBSET s |-> IF t = {} THEN 0 ELSE f[First(t)] + G(t \ {First(t)})[t \ {First(t)}]]
<1>6. \A t \in SUBSET s : t # s => Solves(f, t, G(t))
  BY <1>5
<1>7. ASSUME NEW t \in SUBSET s, t # {}
      PROVE  h[t \ {First(t)}] = G(t \ {First(t)})[t \ {First(t)}]
  <2> DEFINE r == t \ {First(t)}
  <2>1. r \in SUBSET s /\ r # s
    BY <1>7, FirstIn
  <2>2. Solves(f, r, G(r))
    BY <1>6, <2>1
  <2>3. G(r)[r] = IF r = {} THEN 0 ELSE f[First(r)] + G(r)[r \ {First(r)}]
    BY <2>2 DEF Solves, Body
  <2>4. CASE r = {}
    BY <2>1, <2>3, <2>4
  <2>5. CASE r # {}
    <3> DEFINE q == r \ {First(r)}
    <3>1. q \in SUBSET r /\ q # r
      BY <2>5, FirstIn
    <3>2. Solves(f, q, CutTo(G(r), q))
      <4>1. q \in SUBSET r
        BY <3>1
      <4> HIDE DEF q, r, G
      <4> QED
        BY <2>2, <4>1, Narrower
    <3>3. q \in SUBSET s /\ q # s /\ IsFiniteSet(q)
      BY <2>1, <3>1, <1>4
    <3>4. Solves(f, q, G(q))
      BY <1>6, <3>3
    <3>5. G(q) = CutTo(G(r), q)
      BY <3>2, <3>3, <3>4, OneSolution
    <3>6. G(q)[q] = G(r)[q]
      BY <3>5 DEF CutTo
    <3> QED
      BY <2>1, <2>3, <2>5, <3>6
  <2> QED
    BY <2>4, <2>5
<1>8. ASSUME NEW t \in SUBSET s
      PROVE  h[t] = IF t = {} THEN 0 ELSE f[First(t)] + h[t \ {First(t)}]
  <2>1. CASE t = {}
    BY <2>1
  <2>2. CASE t # {}
    <3>1. h[t] = f[First(t)] + G(t \ {First(t)})[t \ {First(t)}]
      BY <2>2
    <3>2. h[t \ {First(t)}] = G(t \ {First(t)})[t \ {First(t)}]
      BY <1>7, <2>2
    <3> HIDE DEF h, G
    <3> QED
      BY <2>2, <3>1, <3>2
  <2> QED
    BY <2>1, <2>2
<1>9. Solves(f, s, h)
  <2>1. h = [t \in SUBSET s |-> h[t]]
    OBVIOUS
  <2> HIDE DEF h
  <2> QED
    BY <1>8, <2>1 DEF Solves, Body
<1> QED
  BY <1>3, <1>9

(* The sum takes its elements one after the other. *)
LEMMA SumStep ==
  ASSUME NEW f, NEW S, IsFiniteSet(S)
  PROVE  SumFunctionOnSet(f, S) =
           IF S = {} THEN 0 ELSE f[First(S)] + SumFunctionOnSet(f, S \ {First(S)})
<1> DEFINE r == S \ {First(S)}
<1>1. IsFiniteSet(r) /\ r \in SUBSET S
  BY FS_Subset
<1>2. Solves(f, S, Iter(f, S)) /\ Solves(f, r, Iter(f, r))
  BY <1>1, SolutionExists DEF Iter, Solves
<1>3. Iter(f, r) = CutTo(Iter(f, S), r)
  BY <1>1, <1>2, Narrower, OneSolution
<1>4. Iter(f, r)[r] = Iter(f, S)[r]
  BY <1>3 DEF CutTo
<1>5. Iter(f, S)[S] = IF S = {} THEN 0 ELSE f[First(S)] + Iter(f, S)[r]
  BY <1>2 DEF Solves, Body
<1> QED
  BY <1>4, <1>5, SumIter

(* The sum of nothing *)
LEMMA SumOfNone == ASSUME NEW f PROVE SumFunctionOnSet(f, {}) = 0
  BY SumStep, FS_EmptySet


(* A sum of numbers is a number. *)
LEMMA SumNat ==
  ASSUME NEW f, NEW S, IsFiniteSet(S), \A x \in S : f[x] \in Nat
  PROVE  SumFunctionOnSet(f, S) \in Nat
<1> DEFINE Bad == {s \in SUBSET S : SumFunctionOnSet(f, s) \notin Nat}
<1>1. SUFFICES ASSUME Bad # {} PROVE FALSE
  OBVIOUS
<1>2. PICK s \in Bad : \A t \in Bad : ~(t \subseteq s /\ t # s)
  <2>1. Bad \subseteq SUBSET S
    OBVIOUS
  <2> HIDE DEF Bad
  <2> QED
    BY <1>1, <2>1, SmallestCounterexample
<1>3. IsFiniteSet(s) /\ s \in SUBSET S
  BY FS_Subset
<1>4. s # {}
  <2>1. SumFunctionOnSet(f, s) \notin Nat
    BY <1>2
  <2>2. SumFunctionOnSet(f, {}) \in Nat
    BY SumOfNone
  <2> QED
    BY <2>1, <2>2
<1>5. First(s) \in s
  BY <1>4, FirstIn
<1>6. SumFunctionOnSet(f, s) = f[First(s)] + SumFunctionOnSet(f, s \ {First(s)})
  BY <1>3, <1>4, SumStep
<1>7. SumFunctionOnSet(f, s \ {First(s)}) \in Nat
  BY <1>2, <1>3, <1>5
<1>8. f[First(s)] \in Nat
  BY <1>3, <1>5
<1> QED
  BY <1>2, <1>6, <1>7, <1>8

(* The order in which the elements are taken does not matter: any of them may be first. *)
LEMMA SumTakes ==
  ASSUME NEW f, NEW S, IsFiniteSet(S), \A x \in S : f[x] \in Nat, NEW x \in S
  PROVE  SumFunctionOnSet(f, S) = f[x] + SumFunctionOnSet(f, S \ {x})
<1> DEFINE Good(s) == \A y \in s : SumFunctionOnSet(f, s) = f[y] + SumFunctionOnSet(f, s \ {y})
<1> DEFINE Bad == {s \in SUBSET S : ~Good(s)}
<1>1. SUFFICES ASSUME Bad # {} PROVE FALSE
  BY DEF Good
<1>2. PICK s \in Bad : \A t \in Bad : ~(t \subseteq s /\ t # s)
  <2>1. Bad \subseteq SUBSET S
    OBVIOUS
  <2> HIDE DEF Bad
  <2> QED
    BY <1>1, <2>1, SmallestCounterexample
<1>3. IsFiniteSet(s) /\ s \in SUBSET S /\ ~Good(s)
  BY <1>2, FS_Subset
<1>4. PICK y \in s : SumFunctionOnSet(f, s) # f[y] + SumFunctionOnSet(f, s \ {y})
  BY <1>3
<1>5. PICK a \in s : a = First(s)
  BY <1>4, FirstIn
<1>6. SumFunctionOnSet(f, s) = f[a] + SumFunctionOnSet(f, s \ {a})
  BY <1>3, <1>4, <1>5, SumStep
<1>7. a # y
  BY <1>4, <1>6
<1>8. \A t \in SUBSET s : t # s => Good(t)
  BY <1>2, <1>3
<1>9. SumFunctionOnSet(f, s \ {a}) = f[y] + SumFunctionOnSet(f, (s \ {a}) \ {y})
  <2>1. s \ {a} \in SUBSET s /\ s \ {a} # s /\ y \in s \ {a}
    BY <1>7
  <2> QED
    BY <1>8, <2>1
<1>10. SumFunctionOnSet(f, s \ {y}) = f[a] + SumFunctionOnSet(f, (s \ {y}) \ {a})
  <2>1. s \ {y} \in SUBSET s /\ s \ {y} # s /\ a \in s \ {y}
    BY <1>7
  <2> QED
    BY <1>8, <2>1
<1>11. (s \ {y}) \ {a} = (s \ {a}) \ {y}
  OBVIOUS
<1>12. f[a] \in Nat /\ f[y] \in Nat /\ SumFunctionOnSet(f, (s \ {a}) \ {y}) \in Nat
  <2>1. (s \ {a}) \ {y} \in SUBSET s
    OBVIOUS
  <2>2. IsFiniteSet((s \ {a}) \ {y})
    BY <1>3, <2>1, FS_Subset
  <2> QED
    BY <1>3, <2>1, <2>2, SumNat
<1>13. PICK p \in Nat, q \in Nat, w \in Nat :
         p = f[a] /\ q = f[y] /\ w = SumFunctionOnSet(f, (s \ {a}) \ {y})
  BY <1>12
<1>14. SumFunctionOnSet(f, s) = p + (q + w) /\ SumFunctionOnSet(f, s \ {y}) = p + w
  BY <1>6, <1>9, <1>10, <1>11, <1>13
<1>15. q + (p + w) = p + (q + w)
  OBVIOUS
<1> QED
  BY <1>4, <1>13, <1>14, <1>15


(* The summands are numbers. *)
Naturals(f, S) == \A x \in S : f[x] \in Nat

(* the same with an element in hand, for every subset *)
LEMMA SumsTake ==
  ASSUME NEW f, NEW S, IsFiniteSet(S), Naturals(f, S)
  PROVE  \A s \in SUBSET S :
            /\ IsFiniteSet(s) /\ Naturals(f, s) /\ SumFunctionOnSet(f, s) \in Nat
            /\ \A x \in s : SumFunctionOnSet(f, s) = f[x] + SumFunctionOnSet(f, s \ {x})
<1> TAKE s \in SUBSET S
<1>1. IsFiniteSet(s) /\ Naturals(f, s)
  BY FS_Subset DEF Naturals
<1> QED
  BY <1>1, SumNat, SumTakes DEF Naturals

(* The sum depends on the summands only. *)
LEMMA SumSame ==
  ASSUME NEW f, NEW g, NEW S, IsFiniteSet(S), Naturals(f, S), \A x \in S : g[x] = f[x]
  PROVE  SumFunctionOnSet(g, S) = SumFunctionOnSet(f, S)
<1> DEFINE T == {s \in SUBSET S : SumFunctionOnSet(g, s) = SumFunctionOnSet(f, s)}
<1>1. {} \in T
  BY SumOfNone
<1>2. ASSUME NEW s \in SUBSET S, NEW x \in s, s \ {x} \in T
      PROVE  s \in T
  <2>1. Naturals(g, S)
    BY DEF Naturals
  <2>2. /\ SumFunctionOnSet(f, s) = f[x] + SumFunctionOnSet(f, s \ {x})
        /\ SumFunctionOnSet(g, s) = g[x] + SumFunctionOnSet(g, s \ {x})
    BY <2>1, SumsTake
  <2>3. g[x] = f[x]
    OBVIOUS
  <2> QED
    BY <1>2, <2>2, <2>3
<1>3. SUBSET S \subseteq T
  <2> HIDE DEF T
  <2> QED
    BY <1>1, <1>2, OnSets
<1>4. S \in SUBSET S
  OBVIOUS
<1> QED
  BY <1>3, <1>4

(* The sum of two functions *)
LEMMA SumAdds ==
  ASSUME NEW f, NEW g, NEW h, NEW S, IsFiniteSet(S), Naturals(f, S), Naturals(g, S),
         \A x \in S : h[x] = f[x] + g[x]
  PROVE  SumFunctionOnSet(h, S) = SumFunctionOnSet(f, S) + SumFunctionOnSet(g, S)
<1> DEFINE T == {s \in SUBSET S : SumFunctionOnSet(h, s) = SumFunctionOnSet(f, s) + SumFunctionOnSet(g, s)}
<1>1. {} \in T
  BY SumOfNone
<1>2. ASSUME NEW s \in SUBSET S, NEW x \in s, s \ {x} \in T
      PROVE  s \in T
  <2>1. Naturals(h, S)
    BY DEF Naturals
  <2>2. /\ SumFunctionOnSet(f, s) = f[x] + SumFunctionOnSet(f, s \ {x})
        /\ SumFunctionOnSet(g, s) = g[x] + SumFunctionOnSet(g, s \ {x})
        /\ SumFunctionOnSet(h, s) = h[x] + SumFunctionOnSet(h, s \ {x})
    BY <2>1, SumsTake
  <2>3. /\ h[x] = f[x] + g[x] /\ f[x] \in Nat /\ g[x] \in Nat
        /\ SumFunctionOnSet(f, s \ {x}) \in Nat /\ SumFunctionOnSet(g, s \ {x}) \in Nat
        /\ SumFunctionOnSet(h, s \ {x}) = SumFunctionOnSet(f, s \ {x}) + SumFunctionOnSet(g, s \ {x})
    <3>1. x \in S /\ s \ {x} \in SUBSET S
      OBVIOUS
    <3> QED
      BY <1>2, <3>1, SumsTake DEF Naturals
  <2> QED
    BY <2>2, <2>3
<1>3. SUBSET S \subseteq T
  <2> HIDE DEF T
  <2> QED
    BY <1>1, <1>2, OnSets
<1>4. S \in SUBSET S
  OBVIOUS
<1> QED
  BY <1>3, <1>4

(* The sum over a set is that over a part of it and over the rest. *)
LEMMA SumSplits ==
  ASSUME NEW f, NEW S, IsFiniteSet(S), Naturals(f, S), NEW R \in SUBSET S
  PROVE  SumFunctionOnSet(f, S) = SumFunctionOnSet(f, R) + SumFunctionOnSet(f, S \ R)
<1> DEFINE T == {s \in SUBSET R :
                   SumFunctionOnSet(f, S) = SumFunctionOnSet(f, s) + SumFunctionOnSet(f, S \ s)}
<1>0. IsFiniteSet(R)
  BY FS_Subset
<1>1. {} \in T
  <2>1. S \in SUBSET S /\ S \ {} = S
    OBVIOUS
  <2>2. SumFunctionOnSet(f, S) \in Nat
    BY <2>1, SumsTake
  <2> QED
    BY <2>1, <2>2, SumOfNone
<1>2. ASSUME NEW s \in SUBSET R, NEW x \in s, s \ {x} \in T
      PROVE  s \in T
  <2>1. SumFunctionOnSet(f, S) = SumFunctionOnSet(f, s \ {x}) + SumFunctionOnSet(f, S \ (s \ {x}))
    BY <1>2
  <2>2. SumFunctionOnSet(f, s) = f[x] + SumFunctionOnSet(f, s \ {x})
    BY SumsTake
  <2>3. SumFunctionOnSet(f, S \ (s \ {x})) = f[x] + SumFunctionOnSet(f, S \ s)
    <3>1. S \ (s \ {x}) \in SUBSET S /\ x \in S \ (s \ {x})
          /\ (S \ (s \ {x})) \ {x} = S \ s
      OBVIOUS
    <3> QED
      BY <3>1, SumsTake
  <2>4. /\ f[x] \in Nat /\ SumFunctionOnSet(f, s \ {x}) \in Nat
        /\ SumFunctionOnSet(f, S \ s) \in Nat
    <3>1. s \ {x} \in SUBSET S /\ S \ s \in SUBSET S /\ x \in S
      OBVIOUS
    <3> QED
      BY <3>1, SumsTake DEF Naturals
  <2> QED
    BY <2>1, <2>2, <2>3, <2>4
<1>3. SUBSET R \subseteq T
  <2> HIDE DEF T
  <2> QED
    BY <1>0, <1>1, <1>2, OnSets
<1>4. R \in SUBSET R
  OBVIOUS
<1> QED
  BY <1>3, <1>4

(* A sum of zeros *)
LEMMA SumZero ==
  ASSUME NEW f, NEW S, IsFiniteSet(S), \A x \in S : f[x] = 0
  PROVE  SumFunctionOnSet(f, S) = 0
<1> DEFINE T == {s \in SUBSET S : SumFunctionOnSet(f, s) = 0}
<1>1. {} \in T
  BY SumOfNone
<1>2. ASSUME NEW s \in SUBSET S, NEW x \in s, s \ {x} \in T
      PROVE  s \in T
  <2>1. Naturals(f, S)
    BY DEF Naturals
  <2>2. SumFunctionOnSet(f, s) = f[x] + SumFunctionOnSet(f, s \ {x})
    BY <2>1, SumsTake
  <2> QED
    BY <1>2, <2>2
<1>3. SUBSET S \subseteq T
  <2> HIDE DEF T
  <2> QED
    BY <1>1, <1>2, OnSets
<1>4. S \in SUBSET S
  OBVIOUS
<1> QED
  BY <1>3, <1>4

(* one entry replaced, and all entries of a set cleared *)
LEMMA SumChanged ==
  ASSUME NEW f, NEW g, NEW S, IsFiniteSet(S), Naturals(f, S), Naturals(g, S), NEW x \in S,
         \A y \in S \ {x} : g[y] = f[y]
  PROVE  SumFunctionOnSet(g, S) = (SumFunctionOnSet(f, S) - f[x]) + g[x]
         /\ f[x] <= SumFunctionOnSet(f, S)
<1>1. S \in SUBSET S /\ S \ {x} \in SUBSET S
  OBVIOUS
<1>2. /\ SumFunctionOnSet(f, S) = f[x] + SumFunctionOnSet(f, S \ {x})
      /\ SumFunctionOnSet(g, S) = g[x] + SumFunctionOnSet(g, S \ {x})
      /\ IsFiniteSet(S \ {x}) /\ Naturals(f, S \ {x}) /\ SumFunctionOnSet(f, S \ {x}) \in Nat
  BY <1>1, SumsTake
<1>3. SumFunctionOnSet(g, S \ {x}) = SumFunctionOnSet(f, S \ {x})
  BY <1>2, SumSame
<1>4. f[x] \in Nat /\ g[x] \in Nat
  BY DEF Naturals
<1> QED
  BY <1>2, <1>3, <1>4

(* The summands in R are set to zero. *)
LEMMA SumCleared ==
  ASSUME NEW f, NEW g, NEW S, IsFiniteSet(S), Naturals(f, S), NEW R \in SUBSET S,
         \A y \in S : g[y] = IF y \in R THEN 0 ELSE f[y]
  PROVE  SumFunctionOnSet(f, S) = SumFunctionOnSet(g, S) + SumFunctionOnSet(f, R)
<1>1. R \in SUBSET S /\ S \ R \in SUBSET S
  OBVIOUS
<1>2. /\ IsFiniteSet(R) /\ IsFiniteSet(S \ R) /\ Naturals(f, S \ R)
      /\ SumFunctionOnSet(f, R) \in Nat /\ SumFunctionOnSet(f, S \ R) \in Nat
  BY <1>1, SumsTake
<1>3. Naturals(g, S)
  BY DEF Naturals
<1>4. /\ SumFunctionOnSet(f, S) = SumFunctionOnSet(f, R) + SumFunctionOnSet(f, S \ R)
      /\ SumFunctionOnSet(g, S) = SumFunctionOnSet(g, R) + SumFunctionOnSet(g, S \ R)
  BY <1>3, SumSplits
<1>5. SumFunctionOnSet(g, R) = 0
  <2>1. \A y \in R : g[y] = 0
    OBVIOUS
  <2> QED
    BY <1>2, <2>1, SumZero
<1>6. SumFunctionOnSet(g, S \ R) = SumFunctionOnSet(f, S \ R)
  <2>1. \A y \in S \ R : g[y] = f[y]
    OBVIOUS
  <2> QED
    BY <1>2, <2>1, SumSame
<1> QED
  BY <1>2, <1>4, <1>5, <1>6
(* No element twice *)
NoRepeats(s) == \A i, j \in 1 .. Len(s) : s[i] = s[j] => i = j

(* The recursion of Keep over the first N elements, and what satisfies it *)
KeepBody(s, S, N, g) ==
    [n \in 0 .. N |-> IF n = 0 THEN <<>>
                      ELSE IF s[n] \in S THEN Append(g[n - 1], s[n]) ELSE g[n - 1]]
Keeps(s, S, N, g) == g = KeepBody(s, S, N, g)

(* Keep, with the recursive function it is the value of *)
LEMMA KeepOf ==
  ASSUME NEW s, NEW S
  PROVE  Keep(s, S) = (CHOOSE g : Keeps(s, S, Len(s), g))[Len(s)]
BY DEF Keep, Keeps, KeepBody

(* What that function is at a number *)
LEMMA KeepsAt ==
  ASSUME NEW s, NEW S, NEW N \in Nat, NEW g, Keeps(s, S, N, g)
  PROVE  \A n \in 0 .. N :
            g[n] = IF n = 0 THEN <<>>
                   ELSE IF s[n] \in S THEN Append(g[n - 1], s[n]) ELSE g[n - 1]
BY DEF Keeps, KeepBody

(* There is such a function for every length. *)
LEMMA KeepsExists ==
  ASSUME NEW s, NEW S
  PROVE  \A N \in Nat : \E g : Keeps(s, S, N, g)
<1> DEFINE T == {N \in Nat : \E g : Keeps(s, S, N, g)}
<1>1. 0 \in T
  <2>1. Keeps(s, S, 0, [n \in 0 .. 0 |-> <<>>])
    BY DEF Keeps, KeepBody
  <2> QED
    BY <2>1
<1>2. ASSUME NEW N \in Nat, N \in T
      PROVE  N + 1 \in T
  <2>1. PICK g : Keeps(s, S, N, g)
    BY <1>2
  <2> DEFINE last == IF s[N + 1] \in S THEN Append(g[N], s[N + 1]) ELSE g[N]
             h == [n \in 0 .. N + 1 |-> IF n = N + 1 THEN last ELSE g[n]]
  <2>2. \A n \in 0 .. N : h[n] = g[n]
    OBVIOUS
  <2>3. \A n \in 0 .. N + 1 : n # 0 => n - 1 \in 0 .. N
    OBVIOUS
  <2>4. \A n \in 0 .. N : g[n] = IF n = 0 THEN <<>>
                                 ELSE IF s[n] \in S THEN Append(g[n - 1], s[n]) ELSE g[n - 1]
    BY <2>1 DEF Keeps, KeepBody
  <2>5. h[N + 1] = IF s[N + 1] \in S THEN Append(h[N], s[N + 1]) ELSE h[N]
    BY <2>2
  <2>6. ASSUME NEW n \in 0 .. N + 1
        PROVE  h[n] = IF n = 0 THEN <<>>
                      ELSE IF s[n] \in S THEN Append(h[n - 1], s[n]) ELSE h[n - 1]
    <3>1. CASE n = N + 1
      <4>1. n # 0 /\ n - 1 = N
        BY <3>1
      <4> HIDE DEF h, last
      <4> QED
        BY <2>5, <3>1, <4>1
    <3>2. CASE n # N + 1
      <4>1. n \in 0 .. N /\ (n # 0 => n - 1 \in 0 .. N)
        BY <3>2
      <4> HIDE DEF h, last
      <4> QED
        BY <2>2, <2>4, <4>1
    <3> QED
      BY <3>1, <3>2
  <2>7. h = KeepBody(s, S, N + 1, h)
    <3>1. h = [n \in 0 .. N + 1 |-> h[n]]
      OBVIOUS
    <3> HIDE DEF h
    <3> QED
      BY <2>6, <3>1 DEF KeepBody
  <2> QED
    BY <2>7 DEF Keeps
<1>3. Nat \subseteq T
  <2> HIDE DEF T
  <2> QED
    BY <1>1, <1>2, OnNumbers
<1> QED
  BY <1>3

(* Two lists begin alike. *)
Alike(s, t, N) == \A n \in 1 .. N : s[n] = t[n]

(* Two that keep of sequences that begin alike are alike *)
LEMMA KeepsAlike ==
  ASSUME NEW s, NEW t, NEW S, NEW M \in Nat, NEW N \in Nat, N <= M, NEW g, NEW h,
         Keeps(s, S, M, g), Keeps(t, S, N, h), Alike(s, t, N)
  PROVE  \A n \in 0 .. N : g[n] = h[n]
<1> DEFINE T == {n \in Nat : n <= N => g[n] = h[n]}
<1>0. /\ \A n \in 0 .. N : h[n] = IF n = 0 THEN <<>>
                                  ELSE IF t[n] \in S THEN Append(h[n - 1], t[n]) ELSE h[n - 1]
      /\ \A n \in 0 .. M : g[n] = IF n = 0 THEN <<>>
                                  ELSE IF s[n] \in S THEN Append(g[n - 1], s[n]) ELSE g[n - 1]
  BY DEF Keeps, KeepBody
<1>1. 0 \in T
  BY <1>0
<1>2. ASSUME NEW n \in Nat, n \in T
      PROVE  n + 1 \in T
  <2>1. SUFFICES ASSUME n + 1 <= N PROVE g[n + 1] = h[n + 1]
    OBVIOUS
  <2>2. /\ n + 1 \in 0 .. N /\ n + 1 \in 0 .. M /\ n + 1 \in 1 .. N /\ n + 1 # 0
        /\ (n + 1) - 1 = n /\ n <= N
    BY <2>1
  <2>3. g[n] = h[n] /\ s[n + 1] = t[n + 1]
    BY <1>2, <2>2 DEF Alike
  <2>4. h[n + 1] = IF t[n + 1] \in S THEN Append(h[n], t[n + 1]) ELSE h[n]
    BY <1>0, <2>2
  <2>5. g[n + 1] = IF s[n + 1] \in S THEN Append(g[n], s[n + 1]) ELSE g[n]
    BY <1>0, <2>2
  <2> QED
    BY <2>3, <2>4, <2>5
<1>3. Nat \subseteq T
  <2> HIDE DEF T
  <2> QED
    BY <1>1, <1>2, OnNumbers
<1> QED
  BY <1>3

(* Nothing is left of nothing. *)
LEMMA KeepNothing == ASSUME NEW S PROVE Keep(<<>>, S) = <<>>
<1>1. Len(<<>>) = 0 /\ 0 \in Nat /\ 0 \in 0 .. 0
  OBVIOUS
<1>2. Keeps(<<>>, S, 0, CHOOSE g : Keeps(<<>>, S, 0, g))
  BY KeepsExists
<1> DEFINE g == CHOOSE f : Keeps(<<>>, S, 0, f)
<1>3. Keep(<<>>, S) = g[0]
  BY <1>1, KeepOf
<1> HIDE DEF g
<1>4. g[0] = <<>>
  <2>1. Keeps(<<>>, S, 0, g)
    BY <1>2 DEF g
  <2> QED
    BY <1>1, <2>1 DEF Keeps, KeepBody
<1> QED
  BY <1>3, <1>4

(* What is left of a longer list (LruList.append, after remove) *)
LEMMA KeepAppend ==
  ASSUME NEW X, NEW s \in Seq(X), NEW a \in X, NEW S
  PROVE  Keep(Append(s, a), S) = IF a \in S THEN Append(Keep(s, S), a) ELSE Keep(s, S)
<1> DEFINE t == Append(s, a)
           N == Len(s)
<1>1. /\ N \in Nat /\ N + 1 \in Nat /\ N <= N + 1 /\ Len(t) = N + 1 /\ t[N + 1] = a
      /\ \A n \in 1 .. N : t[n] = s[n]
      /\ N + 1 \in 0 .. N + 1 /\ N + 1 # 0 /\ (N + 1) - 1 = N /\ N \in 0 .. N
  OBVIOUS
<1>2. PICK h : Keeps(s, S, N, h) /\ Keep(s, S) = h[N]
  BY <1>1, KeepsExists, KeepOf
<1>3. PICK g : Keeps(t, S, N + 1, g) /\ Keep(t, S) = g[N + 1]
  <2> HIDE DEF t, N
  <2> QED
    BY <1>1, KeepsExists, KeepOf
<1> HIDE DEF t, N
<1>4. \A n \in 0 .. N : g[n] = h[n]
  <2>1. Alike(t, s, N)
    BY <1>1 DEF Alike
  <2> QED
    BY <1>1, <1>2, <1>3, <2>1, KeepsAlike
<1>5. g[N + 1] = IF a \in S THEN Append(g[N], a) ELSE g[N]
  BY <1>1, <1>3, KeepsAt
<1> QED
  BY <1>1, <1>2, <1>3, <1>4, <1>5 DEF t

(* ------ *)
LEMMA ToSetAppend ==
  ASSUME NEW X, NEW s \in Seq(X), NEW a \in X
  PROVE  ToSet(Append(s, a)) = ToSet(s) \cup {a}
<1> DEFINE t == Append(s, a)
           N == Len(s)
<1>1. /\ N \in Nat /\ DOMAIN t = 1 .. N + 1 /\ DOMAIN s = 1 .. N
      /\ t[N + 1] = a /\ \A n \in 1 .. N : t[n] = s[n]
  OBVIOUS
<1> HIDE DEF t, N
<1>2. 1 .. N + 1 = (1 .. N) \cup {N + 1}
  BY <1>1
<1>3. ToSet(t) = ToSet(s) \cup {a}
  BY <1>1, <1>2 DEF ToSet
<1> QED
  BY <1>3 DEF t

(* Nothing is in an empty list. *)
LEMMA ToSetEmpty == ToSet(<<>>) = {}
BY DEF ToSet

(* To be contained in a list is to be in its set. *)
LEMMA ContainsIs ==
  ASSUME NEW X, NEW s \in Seq(X), NEW a
  PROVE  Contains(s, a) <=> a \in ToSet(s)
<1>1. DOMAIN s = 1 .. Len(s)
  OBVIOUS
<1> QED
  BY <1>1 DEF Contains, ToSet

(* What is left has those elements of the list that may stay. *)
LEMMA KeepIn ==
  ASSUME NEW X, NEW S
  PROVE  \A s \in Seq(X) : Keep(s, S) \in Seq(X) /\ ToSet(Keep(s, S)) = ToSet(s) \cap S
<1> DEFINE T == {s \in Seq(X) : Keep(s, S) \in Seq(X) /\ ToSet(Keep(s, S)) = ToSet(s) \cap S}
<1>1. <<>> \in T
  <2>1. <<>> \in Seq(X) /\ Keep(<<>>, S) = <<>> /\ ToSet(<<>>) = {}
    BY KeepNothing, ToSetEmpty
  <2>2. ToSet(Keep(<<>>, S)) = {}
    BY <2>1
  <2> QED
    BY <2>1, <2>2
<1>2. ASSUME NEW r \in Seq(X), NEW a \in X, r \in T
      PROVE  Append(r, a) \in T
  <2>1. Keep(r, S) \in Seq(X) /\ ToSet(Keep(r, S)) = ToSet(r) \cap S
    BY <1>2
  <2>2. /\ ToSet(Append(r, a)) = ToSet(r) \cup {a}
        /\ ToSet(Append(Keep(r, S), a)) = ToSet(Keep(r, S)) \cup {a}
    BY <2>1, ToSetAppend
  <2>3. Keep(Append(r, a), S) = IF a \in S THEN Append(Keep(r, S), a) ELSE Keep(r, S)
    BY KeepAppend
  <2>4. Append(r, a) \in Seq(X) /\ Append(Keep(r, S), a) \in Seq(X)
    BY <2>1
  <2>5. Keep(Append(r, a), S) \in Seq(X)
    BY <2>1, <2>3, <2>4
  <2>6. ToSet(Keep(Append(r, a), S)) = ToSet(Append(r, a)) \cap S
    <3>1. CASE a \in S
      BY <2>1, <2>2, <2>3, <3>1
    <3>2. CASE a \notin S
      BY <2>1, <2>2, <2>3, <3>2
    <3> QED
      BY <3>1, <3>2
  <2> QED
    BY <2>4, <2>5, <2>6
<1>3. Seq(X) \subseteq T
  <2> HIDE DEF T
  <2> QED
    BY <1>1, <1>2, OnSequences
<1> QED
  BY <1>3

(* Only what becomes of the list's own elements matters. *)
LEMMA KeepSame ==
  ASSUME NEW X, NEW S, NEW R
  PROVE  \A s \in Seq(X) :
            (\A x \in ToSet(s) : x \in S <=> x \in R) => Keep(s, S) = Keep(s, R)
<1> DEFINE T == {s \in Seq(X) : (\A x \in ToSet(s) : x \in S <=> x \in R) => Keep(s, S) = Keep(s, R)}
<1>1. <<>> \in T
  BY KeepNothing
<1>2. ASSUME NEW r \in Seq(X), NEW a \in X, r \in T
      PROVE  Append(r, a) \in T
  <2>1. Append(r, a) \in Seq(X)
    OBVIOUS
  <2>2. ASSUME \A x \in ToSet(Append(r, a)) : x \in S <=> x \in R
        PROVE  Keep(Append(r, a), S) = Keep(Append(r, a), R)
    <3>1. ToSet(Append(r, a)) = ToSet(r) \cup {a}
      BY ToSetAppend
    <3>2. Keep(r, S) = Keep(r, R) /\ (a \in S <=> a \in R)
      BY <1>2, <2>2, <3>1
    <3>3. /\ Keep(Append(r, a), S) = IF a \in S THEN Append(Keep(r, S), a) ELSE Keep(r, S)
          /\ Keep(Append(r, a), R) = IF a \in R THEN Append(Keep(r, R), a) ELSE Keep(r, R)
      BY KeepAppend
    <3> QED
      BY <3>2, <3>3
  <2> QED
    BY <2>1, <2>2
<1>3. Seq(X) \subseteq T
  <2> HIDE DEF T
  <2> QED
    BY <1>1, <1>2, OnSequences
<1> QED
  BY <1>3

(* Two deletions are one. *)
LEMMA KeepTwice ==
  ASSUME NEW X, NEW S, NEW R
  PROVE  \A s \in Seq(X) : Keep(Keep(s, S), R) = Keep(s, S \cap R)
<1> DEFINE T == {s \in Seq(X) : Keep(Keep(s, S), R) = Keep(s, S \cap R)}
<1>1. <<>> \in T
  BY KeepNothing
<1>2. ASSUME NEW r \in Seq(X), NEW a \in X, r \in T
      PROVE  Append(r, a) \in T
  <2>1. Append(r, a) \in Seq(X) /\ Keep(r, S) \in Seq(X)
    BY KeepIn
  <2>2. Keep(Keep(r, S), R) = Keep(r, S \cap R)
    BY <1>2
  <2>3. /\ Keep(Append(r, a), S) = IF a \in S THEN Append(Keep(r, S), a) ELSE Keep(r, S)
        /\ Keep(Append(r, a), S \cap R) =
              IF a \in S \cap R THEN Append(Keep(r, S \cap R), a) ELSE Keep(r, S \cap R)
        /\ Keep(Append(Keep(r, S), a), R) =
              IF a \in R THEN Append(Keep(Keep(r, S), R), a) ELSE Keep(Keep(r, S), R)
    BY <2>1, KeepAppend
  <2>4. Keep(Keep(Append(r, a), S), R) = Keep(Append(r, a), S \cap R)
    <3>1. CASE a \in S
      <4>1. Keep(Append(r, a), S) = Append(Keep(r, S), a)
        BY <2>3, <3>1
      <4>2. Keep(Keep(Append(r, a), S), R) = Keep(Append(Keep(r, S), a), R)
        BY <4>1
      <4> QED
        BY <2>2, <2>3, <3>1, <4>2
    <3>2. CASE a \notin S
      <4>1. Keep(Append(r, a), S) = Keep(r, S)
        BY <2>3, <3>2
      <4>2. Keep(Keep(Append(r, a), S), R) = Keep(Keep(r, S), R)
        BY <4>1
      <4> QED
        BY <2>2, <2>3, <3>2, <4>2
    <3> QED
      BY <3>1, <3>2
  <2> QED
    BY <2>1, <2>4
<1>3. Seq(X) \subseteq T
  <2> HIDE DEF T
  <2> QED
    BY <1>1, <1>2, OnSequences
<1> QED
  BY <1>3

(* Nothing is deleted. *)
LEMMA KeepAll ==
  ASSUME NEW X
  PROVE  \A s \in Seq(X) : Keep(s, X) = s
<1> DEFINE T == {s \in Seq(X) : Keep(s, X) = s}
<1>1. <<>> \in T
  BY KeepNothing
<1>2. ASSUME NEW r \in Seq(X), NEW a \in X, r \in T
      PROVE  Append(r, a) \in T
  <2>1. Append(r, a) \in Seq(X)
    OBVIOUS
  <2>2. Keep(Append(r, a), X) = Append(Keep(r, X), a)
    BY KeepAppend
  <2> QED
    BY <1>2, <2>1, <2>2
<1>3. Seq(X) \subseteq T
  <2> HIDE DEF T
  <2> QED
    BY <1>1, <1>2, OnSequences
<1> QED
  BY <1>3

(* An element that was not in the list may be appended to it. *)
LEMMA AppendDistinct ==
  ASSUME NEW X, NEW s \in Seq(X), NEW a \in X
  PROVE  NoRepeats(Append(s, a)) <=> NoRepeats(s) /\ a \notin ToSet(s)
<1> DEFINE t == Append(s, a)
           N == Len(s)
<1>1. /\ N \in Nat /\ Len(t) = N + 1 /\ DOMAIN s = 1 .. N
      /\ t[N + 1] = a /\ \A n \in 1 .. N : t[n] = s[n]
  OBVIOUS
<1> HIDE DEF t
<1>2. 1 .. N + 1 = (1 .. N) \cup {N + 1} /\ N + 1 \notin 1 .. N
  BY <1>1
<1>3. NoRepeats(t) <=> \A i, j \in (1 .. N) \cup {N + 1} : t[i] = t[j] => i = j
  BY <1>1, <1>2 DEF NoRepeats
<1>4. NoRepeats(s) <=> \A i, j \in 1 .. N : t[i] = t[j] => i = j
  BY <1>1 DEF NoRepeats
<1>5. a \in ToSet(s) <=> \E i \in 1 .. N : t[i] = t[N + 1]
  BY <1>1 DEF ToSet
<1> HIDE DEF N
<1>6. NoRepeats(t) <=> NoRepeats(s) /\ a \notin ToSet(s)
  BY <1>2, <1>3, <1>4, <1>5
<1> QED
  BY <1>6 DEF t

(* Deletions repeat nothing. *)
LEMMA KeepDistinct ==
  ASSUME NEW X, NEW S
  PROVE  \A s \in Seq(X) : NoRepeats(s) => NoRepeats(Keep(s, S))
<1> DEFINE T == {s \in Seq(X) : NoRepeats(s) => NoRepeats(Keep(s, S))}
<1>1. <<>> \in T
  BY KeepNothing
<1>2. ASSUME NEW r \in Seq(X), NEW a \in X, r \in T
      PROVE  Append(r, a) \in T
  <2>1. Append(r, a) \in Seq(X) /\ Keep(r, S) \in Seq(X) /\ ToSet(Keep(r, S)) = ToSet(r) \cap S
    BY KeepIn
  <2>2. ASSUME NoRepeats(Append(r, a)) PROVE NoRepeats(Keep(Append(r, a), S))
    <3>1. NoRepeats(r) /\ a \notin ToSet(r)
      BY <2>2, AppendDistinct
    <3>2. NoRepeats(Keep(r, S)) /\ a \notin ToSet(Keep(r, S))
      BY <1>2, <2>1, <3>1
    <3>3. NoRepeats(Append(Keep(r, S), a))
      BY <2>1, <3>2, AppendDistinct
    <3>4. Keep(Append(r, a), S) = IF a \in S THEN Append(Keep(r, S), a) ELSE Keep(r, S)
      BY KeepAppend
    <3> QED
      BY <3>2, <3>3, <3>4
  <2> QED
    BY <2>1, <2>2
<1>3. Seq(X) \subseteq T
  <2> HIDE DEF T
  <2> QED
    BY <1>1, <1>2, OnSequences
<1> QED
  BY <1>3

(* The first n elements, as a set *)
FirstOf(s, n) == {s[i] : i \in 1 .. n}

(* Without its first n elements a list is n shorter. *)
LEMMA KeepRest ==
  ASSUME NEW X
  PROVE  \A s \in Seq(X) : NoRepeats(s) =>
            \A n \in 0 .. Len(s) : Len(Keep(s, X \ FirstOf(s, n))) = Len(s) - n
<1> DEFINE T == {s \in Seq(X) : NoRepeats(s) =>
                    \A n \in 0 .. Len(s) : Len(Keep(s, X \ FirstOf(s, n))) = Len(s) - n}
<1>1. <<>> \in T
  <2>1. Len(<<>>) = 0 /\ <<>> \in Seq(X)
    OBVIOUS
  <2> QED
    BY <2>1, KeepNothing
<1>2. ASSUME NEW r \in Seq(X), NEW a \in X, r \in T
      PROVE  Append(r, a) \in T
  <2> DEFINE t == Append(r, a)
  <2>1. t \in Seq(X) /\ Len(t) = Len(r) + 1 /\ Len(r) \in Nat /\ t[Len(r) + 1] = a
        /\ DOMAIN r = 1 .. Len(r) /\ \A i \in 1 .. Len(r) : t[i] = r[i]
    OBVIOUS
  <2>2. ASSUME NoRepeats(t), NEW n \in 0 .. Len(t)
        PROVE  Len(Keep(t, X \ FirstOf(t, n))) = Len(t) - n
    <3>1. NoRepeats(r) /\ a \notin ToSet(r)
      BY <2>2, AppendDistinct
    <3> HIDE DEF t
    <3>2. CASE n \in 0 .. Len(r)
      <4>1. \A i \in 1 .. n : i \in 1 .. Len(r)
        BY <2>1, <3>2
      <4>2. FirstOf(t, n) = FirstOf(r, n) /\ FirstOf(r, n) \subseteq ToSet(r)
        BY <2>1, <4>1 DEF FirstOf, ToSet
      <4> DEFINE S == X \ FirstOf(r, n)
      <4>3. a \in S /\ Keep(r, S) \in Seq(X)
        BY <3>1, <4>2, KeepIn
      <4>4. Len(Keep(r, S)) = Len(r) - n
        BY <1>2, <3>1, <3>2
      <4> HIDE DEF S
      <4>5. Keep(t, S) = Append(Keep(r, S), a)
        BY <4>3, KeepAppend DEF t
      <4>6. Len(Keep(t, S)) = Len(Keep(r, S)) + 1
        BY <4>3, <4>5
      <4>7. Len(Keep(t, S)) = Len(t) - n
        BY <2>1, <3>2, <4>4, <4>6
      <4> QED
        BY <4>2, <4>7 DEF S
    <3>3. CASE n = Len(t)
      <4>1. FirstOf(t, n) = ToSet(t)
        <5>1. DOMAIN t = 1 .. Len(t)
          BY <2>1
        <5> QED
          BY <3>3, <5>1 DEF FirstOf, ToSet
      <4> DEFINE k == Keep(t, X \ FirstOf(t, n))
      <4>2. k \in Seq(X) /\ ToSet(k) = {}
        BY <2>1, <4>1, KeepIn
      <4> HIDE DEF k
      <4>3. Len(k) = 0
        <5>1. DOMAIN k = 1 .. Len(k) /\ Len(k) \in Nat
          BY <4>2
        <5>2. \A i \in 1 .. Len(k) : k[i] \in ToSet(k)
          BY <5>1 DEF ToSet
        <5>3. 1 \notin 1 .. Len(k)
          BY <4>2, <5>2
        <5> QED
          BY <5>1, <5>3
      <4>4. Len(t) - n = 0
        BY <2>1, <3>3
      <4> QED
        BY <4>3, <4>4 DEF k
    <3> QED
      BY <2>1, <2>2, <3>2, <3>3
  <2> QED
    BY <2>1, <2>2
<1>3. Seq(X) \subseteq T
  <2> HIDE DEF T
  <2> QED
    BY <1>1, <1>2, OnSequences
<1> QED
  BY <1>3

-----------------------------------------------------------------------------
(* Stores without the bound on the lengths of the lists *)
StoreSet ==
    [table : Seq(Artifacts), current : SUBSET Artifacts, bytes : [Artifacts -> Nat],
     jar : [Artifacts -> {"none", "good", "corrupt"}], lru : Seq(Artifacts),
     lruBytes : [Artifacts -> Nat], jarBytes : [Artifacts -> Nat], total : Nat]

(* The table is what is left of the order of the list. *)
Follows(table, lru) == NoRepeats(lru) /\ table = Keep(lru, ToSet(table))

(* The total is what the two maps hold. *)
Exact(k) ==
    k.total = SumFunctionOnSet(k.lruBytes, Artifacts) + SumFunctionOnSet(k.jarBytes, Artifacts)

(* The invariant of the store *)
StoreInv(k) == k \in StoreSet /\ Follows(k.table, k.lru) /\ Exact(k)

(* Deleting from the table alone, or from both, leaves the rows in the list's order. *)
LEMMA KeepFollows ==
  ASSUME NEW table \in Seq(Artifacts), NEW lru \in Seq(Artifacts), Follows(table, lru), NEW S
  PROVE  Follows(Keep(table, S), lru) /\ Follows(Keep(table, S), Keep(lru, S))
<1> DEFINE R == ToSet(table)
<1>1. NoRepeats(lru) /\ table = Keep(lru, R)
  BY DEF Follows
<1> HIDE DEF R
<1>2. ToSet(Keep(table, S)) = R \cap S
  BY KeepIn DEF R
<1>3. Keep(table, S) = Keep(lru, R \cap S)
  BY <1>1, KeepTwice
<1>4. Keep(Keep(lru, S), R \cap S) = Keep(lru, S \cap (R \cap S))
  BY KeepTwice
<1>5. S \cap (R \cap S) = R \cap S
  OBVIOUS
<1>6. NoRepeats(Keep(lru, S))
  BY <1>1, KeepDistinct
<1> QED
  BY <1>1, <1>2, <1>3, <1>4, <1>5, <1>6 DEF Follows

(* What moveToTail leaves has the artifact, and has it last. *)
LEMMA ToEndIn ==
  ASSUME NEW s \in Seq(Artifacts), NEW a \in Artifacts
  PROVE  /\ ToEnd(s, a) \in Seq(Artifacts) /\ ToSet(ToEnd(s, a)) = ToSet(s) \cup {a}
         /\ Len(ToEnd(s, a)) \in Nat /\ Len(ToEnd(s, a)) > 0 /\ ToEnd(s, a)[Len(ToEnd(s, a))] = a
<1> DEFINE r == Keep(s, Artifacts \ {a})
<1>1. r \in Seq(Artifacts) /\ ToSet(r) = ToSet(s) \cap (Artifacts \ {a})
  BY KeepIn
<1>2. ToSet(s) \subseteq Artifacts
  BY DEF ToSet
<1> HIDE DEF r
<1>3. ToEnd(s, a) = Append(r, a)
  BY DEF ToEnd, r
<1>4. ToSet(Append(r, a)) = ToSet(r) \cup {a}
  BY <1>1, ToSetAppend
<1>5. Append(r, a) \in Seq(Artifacts) /\ Len(Append(r, a)) = Len(r) + 1 /\ Len(r) \in Nat
      /\ Append(r, a)[Len(r) + 1] = a
  BY <1>1
<1> QED
  BY <1>1, <1>2, <1>3, <1>4, <1>5

(* An artifact moved to the end of both stays in order; one without a row may be moved
   to the end of the list alone. *)
LEMMA ToEndFollows ==
  ASSUME NEW table \in Seq(Artifacts), NEW lru \in Seq(Artifacts), Follows(table, lru),
         NEW a \in Artifacts
  PROVE  /\ Follows(ToEnd(table, a), ToEnd(lru, a))
         /\ a \notin ToSet(table) => Follows(table, ToEnd(lru, a))
<1> DEFINE R == ToSet(table)
           r == Keep(lru, Artifacts \ {a})
<1>1. NoRepeats(lru) /\ table = Keep(lru, R)
  BY DEF Follows
<1>2. r \in Seq(Artifacts) /\ NoRepeats(r) /\ a \notin ToSet(r)
  BY <1>1, KeepIn, KeepDistinct
<1>3. ToSet(ToEnd(table, a)) = R \cup {a}
  BY ToEndIn
<1>4. R \subseteq Artifacts
  BY DEF ToSet
<1> HIDE DEF R
<1>5. NoRepeats(ToEnd(lru, a))
  BY <1>2, AppendDistinct DEF ToEnd
<1>6. \A S : /\ Keep(r, S) = Keep(lru, (Artifacts \ {a}) \cap S)
             /\ Keep(ToEnd(lru, a), S) = IF a \in S THEN Append(Keep(r, S), a) ELSE Keep(r, S)
  <2> TAKE S
  <2>1. Keep(r, S) = Keep(lru, (Artifacts \ {a}) \cap S)
    BY KeepTwice
  <2> HIDE DEF r
  <2>2. Keep(Append(r, a), S) = IF a \in S THEN Append(Keep(r, S), a) ELSE Keep(r, S)
    BY <1>2, KeepAppend
  <2>3. ToEnd(lru, a) = Append(r, a)
    BY DEF ToEnd, r
  <2> QED
    BY <2>1, <2>2, <2>3
<1>7. Keep(table, Artifacts \ {a}) = Keep(lru, R \cap (Artifacts \ {a}))
  BY <1>1, KeepTwice
<1>8. (Artifacts \ {a}) \cap (R \cup {a}) = R \cap (Artifacts \ {a})
  OBVIOUS
<1>9. Keep(ToEnd(lru, a), R \cup {a}) = Append(Keep(table, Artifacts \ {a}), a)
  BY <1>6, <1>7, <1>8
<1>10. ASSUME a \notin R
       PROVE  Keep(ToEnd(lru, a), R) = table
  <2>1. (Artifacts \ {a}) \cap R = R
    BY <1>4, <1>10
  <2> QED
    BY <1>1, <1>6, <1>10, <2>1
<1> QED
  BY <1>3, <1>5, <1>9, <1>10 DEF Follows, ToEnd, R

(* A list filled from the table (refreshCacheMetrics) is in its order. *)
LEMMA SelfFollows ==
  ASSUME NEW table \in Seq(Artifacts), NEW lru \in Seq(Artifacts), Follows(table, lru)
  PROVE  Follows(table, table)
<1>1. NoRepeats(table)
  BY KeepDistinct DEF Follows
<1>2. \A x \in ToSet(table) : x \in ToSet(table) <=> x \in Artifacts
  BY DEF ToSet
<1>3. Keep(table, ToSet(table)) = Keep(table, Artifacts)
  BY <1>2, KeepSame
<1> QED
  BY <1>1, <1>3, KeepAll DEF Follows

-----------------------------------------------------------------------------
(* Math.max(0, m - n) is m - n when n is not larger. *)
LEMMA MinusOf == \A m, n \in Nat : Minus(m, n) \in Nat /\ (n <= m => Minus(m, n) = m - n)
BY DEF Minus

(* The sums of the accounting are numbers. *)
LEMMA SumsNat ==
  ASSUME NEW f \in [Artifacts -> Nat]
  PROVE  /\ IsFiniteSet(Artifacts) /\ Naturals(f, Artifacts)
         /\ SumFunctionOnSet(f, Artifacts) \in Nat /\ SumFunction(f) = SumFunctionOnSet(f, Artifacts)
BY ArtifactAssumption, SumNat DEF Naturals, SumFunction

(* f has its entry of a replaced *)
LEMMA EntryReplaced ==
  ASSUME NEW f \in [Artifacts -> Nat], NEW a \in Artifacts, NEW size \in Nat
  PROVE  /\ [f EXCEPT ![a] = size] \in [Artifacts -> Nat]
         /\ f[a] \in Nat /\ f[a] <= SumFunctionOnSet(f, Artifacts)
         /\ SumFunctionOnSet([f EXCEPT ![a] = size], Artifacts) =
              (SumFunctionOnSet(f, Artifacts) - f[a]) + size
<1> DEFINE g == [f EXCEPT ![a] = size]
<1>1. g \in [Artifacts -> Nat] /\ g[a] = size /\ \A y \in Artifacts \ {a} : g[y] = f[y]
  OBVIOUS
<1> HIDE DEF g
<1>2. IsFiniteSet(Artifacts) /\ Naturals(f, Artifacts) /\ Naturals(g, Artifacts)
  BY <1>1, SumsNat
<1>3. SumFunctionOnSet(g, Artifacts) = (SumFunctionOnSet(f, Artifacts) - f[a]) + g[a]
      /\ f[a] <= SumFunctionOnSet(f, Artifacts)
  BY <1>1, <1>2, SumChanged
<1> QED
  BY <1>1, <1>3 DEF g

(* recordRemappedJarBytes keeps the total exact: what it takes off is at most the total. *)
LEMMA RecordJarKeeps ==
  ASSUME NEW k, StoreInv(k), NEW a \in Artifacts, NEW size \in Nat
  PROVE  StoreInv(RecordJar(k, a, size))
<1> DEFINE l == RecordJar(k, a, size)
           g == [k.jarBytes EXCEPT ![a] = size]
<1>1. k \in StoreSet /\ k.jarBytes \in [Artifacts -> Nat] /\ k.lruBytes \in [Artifacts -> Nat] /\ k.total \in Nat
  BY DEF StoreInv, StoreSet
<1>2. /\ g \in [Artifacts -> Nat] /\ k.jarBytes[a] \in Nat
      /\ k.jarBytes[a] <= SumFunctionOnSet(k.jarBytes, Artifacts)
      /\ SumFunctionOnSet(g, Artifacts) = (SumFunctionOnSet(k.jarBytes, Artifacts) - k.jarBytes[a]) + size
  BY <1>1, EntryReplaced
<1>3. /\ SumFunctionOnSet(k.jarBytes, Artifacts) \in Nat /\ SumFunctionOnSet(k.lruBytes, Artifacts) \in Nat
  BY <1>1, SumsNat
<1> HIDE DEF g
<1>4. Minus(k.total, k.jarBytes[a]) + size \in Nat
  <2>1. Minus(k.total, k.jarBytes[a]) \in Nat
    BY <1>1, <1>2, MinusOf
  <2> QED
    BY <2>1
<1>5. /\ l \in StoreSet /\ l.table = k.table /\ l.lru = k.lru /\ l.lruBytes = k.lruBytes
      /\ l.jarBytes = g /\ l.total = Minus(k.total, k.jarBytes[a]) + size
  BY <1>1, <1>2, <1>4 DEF RecordJar, StoreSet, g
<1> HIDE DEF l
<1>6. Exact(l)
  <2>1. PICK p \in Nat, q \in Nat, e \in Nat :
          /\ p = SumFunctionOnSet(k.lruBytes, Artifacts)
          /\ q = SumFunctionOnSet(k.jarBytes, Artifacts) /\ e = k.jarBytes[a]
    BY <1>2, <1>3
  <2>2. k.total = p + q /\ e <= q
    BY <1>2, <2>1 DEF StoreInv, Exact
  <2>3. Minus(k.total, e) = (p + q) - e
    BY <2>2, MinusOf
  <2>4. l.total = ((p + q) - e) + size
    BY <1>5, <2>1, <2>3
  <2>5. ((p + q) - e) + size = p + ((q - e) + size)
    BY <2>2
  <2> QED
    BY <1>2, <1>5, <2>1, <2>4, <2>5 DEF Exact
<1> QED
  BY <1>5, <1>6 DEF StoreInv, l

(* So does releaseRemappedJarBytes, which records nothing. *)
LEMMA ReleaseJarKeeps ==
  ASSUME NEW k, StoreInv(k), NEW a \in Artifacts
  PROVE  StoreInv(ReleaseJar(k, a))
<1>1. StoreInv(RecordJar(k, a, 0))
  BY RecordJarKeeps
<1>2. k \in StoreSet /\ k.jarBytes[a] \in Nat /\ k.total \in Nat
  BY DEF StoreInv, StoreSet
<1>3. Minus(k.total, k.jarBytes[a]) + 0 = Minus(k.total, k.jarBytes[a])
  BY <1>2, MinusOf
<1>4. RecordJar(k, a, 0) = ReleaseJar(k, a)
  BY <1>2, <1>3 DEF RecordJar, ReleaseJar, StoreSet
<1> QED
  BY <1>1, <1>4

(* the row is written, and its bytes are counted *)
LEMMA PersistedKeeps ==
  ASSUME NEW k, StoreInv(k), NEW a \in Artifacts, NEW size \in Nat
  PROVE  /\ StoreInv(Persisted(k, a, size))
         /\ Persisted(k, a, size).table = ToEnd(k.table, a) /\ Persisted(k, a, size).lru = ToEnd(k.lru, a)
<1> DEFINE l == Persisted(k, a, size)
           g == [k.lruBytes EXCEPT ![a] = size]
           m == [k EXCEPT !.table = ToEnd(@, a), !.current = @ \cup {a}, !.bytes[a] = size]
<1>0. k.jarBytes \in [Artifacts -> Nat] /\ k.lruBytes \in [Artifacts -> Nat] /\ k.total \in Nat
  BY DEF StoreInv, StoreSet
<1>1. k \in StoreSet /\ k.table \in Seq(Artifacts) /\ k.lru \in Seq(Artifacts)
  BY DEF StoreInv, StoreSet
<1> HIDE DEF l, m
<1> HIDE DEF g
<1>2. /\ g \in [Artifacts -> Nat] /\ k.lruBytes[a] \in Nat
      /\ k.lruBytes[a] <= SumFunctionOnSet(k.lruBytes, Artifacts)
      /\ SumFunctionOnSet(g, Artifacts) = (SumFunctionOnSet(k.lruBytes, Artifacts) - k.lruBytes[a]) + size
  BY <1>0, EntryReplaced DEF g
<1>3. /\ SumFunctionOnSet(k.jarBytes, Artifacts) \in Nat /\ SumFunctionOnSet(k.lruBytes, Artifacts) \in Nat
  BY <1>0, SumsNat
<1>4. ToEnd(k.table, a) \in Seq(Artifacts) /\ ToEnd(k.lru, a) \in Seq(Artifacts)
  BY <1>1, ToEndIn
<1>5. Minus(k.total, k.lruBytes[a]) + size \in Nat
  <2>1. k.total \in Nat /\ k.lruBytes[a] \in Nat
    BY <1>0, <1>2
  <2>2. Minus(k.total, k.lruBytes[a]) \in Nat
    BY <2>1, MinusOf
  <2> QED
    BY <2>2
<1>6. m \in StoreSet /\ m.table = ToEnd(k.table, a) /\ m.lru = k.lru /\ m.lruBytes = k.lruBytes
      /\ m.jarBytes = k.jarBytes /\ m.total = k.total
  BY <1>1, <1>4 DEF StoreSet, m
<1>7. l = UpsertMetrics(m, a, size)
  BY DEF Persisted, l, m
<1>8. /\ l \in StoreSet /\ l.table = ToEnd(k.table, a) /\ l.lru = ToEnd(k.lru, a) /\ l.lruBytes = g
      /\ l.jarBytes = k.jarBytes /\ l.total = Minus(k.total, k.lruBytes[a]) + size
  BY <1>2, <1>4, <1>5, <1>6, <1>7 DEF UpsertMetrics, StoreSet, g
<1> HIDE DEF l
<1>9. Exact(l)
  <2>1. PICK p \in Nat, q \in Nat, e \in Nat :
          /\ p = SumFunctionOnSet(k.lruBytes, Artifacts)
          /\ q = SumFunctionOnSet(k.jarBytes, Artifacts) /\ e = k.lruBytes[a]
    BY <1>2, <1>3
  <2>2. k.total = p + q /\ e <= p
    BY <1>2, <2>1 DEF StoreInv, Exact
  <2>3. Minus(k.total, e) = (p + q) - e
    BY <2>2, MinusOf
  <2>4. l.total = ((p + q) - e) + size
    BY <1>8, <2>1, <2>3
  <2>5. ((p + q) - e) + size = ((p - e) + size) + q
    BY <2>2
  <2> QED
    BY <1>2, <1>8, <2>1, <2>4, <2>5 DEF Exact
<1>10. Follows(l.table, l.lru)
  BY <1>1, <1>8, ToEndFollows DEF StoreInv
<1> QED
  BY <1>8, <1>9, <1>10 DEF StoreInv, l

(* The list and the bytes are read again. *)
LEMMA RefreshKeeps ==
  ASSUME NEW k, k \in StoreSet, Follows(k.table, k.table)
  PROVE  /\ StoreInv(Refresh(k)) /\ Refresh(k).table = k.table
<1> DEFINE l == Refresh(k)
           jars == [a \in Artifacts |->
                      IF Contains(k.table, a) /\ k.jar[a] # "none" THEN JarSize ELSE 0]
<1>1. jars \in [Artifacts -> Nat] /\ k.bytes \in [Artifacts -> Nat]
  BY ArtifactAssumption DEF StoreSet
<1>2. /\ SumFunction(jars) \in Nat /\ SumFunction(k.bytes) \in Nat
      /\ SumFunction(jars) = SumFunctionOnSet(jars, Artifacts)
      /\ SumFunction(k.bytes) = SumFunctionOnSet(k.bytes, Artifacts)
  <2> HIDE DEF jars
  <2> QED
    BY <1>1, SumsNat
<1>3. l = [k EXCEPT !.lru = k.table, !.lruBytes = k.bytes, !.jarBytes = jars,
                    !.total = SumFunction(k.bytes) + SumFunction(jars)]
  BY DEF Refresh
<1> HIDE DEF l, jars
<1>4. SumFunction(k.bytes) + SumFunction(jars) \in Nat
  BY <1>2
<1>5. /\ l \in StoreSet /\ l.table = k.table /\ l.lru = k.table /\ l.lruBytes = k.bytes
      /\ l.jarBytes = jars /\ l.total = SumFunction(k.bytes) + SumFunction(jars)
  BY <1>1, <1>3, <1>4 DEF StoreSet
<1>6. Exact(l)
  BY <1>2, <1>5 DEF Exact
<1> QED
  BY <1>5, <1>6 DEF StoreInv, l

(* A jar on disk comes, goes or breaks. *)
LEMMA JarKeeps ==
  ASSUME NEW k, StoreInv(k), NEW a \in Artifacts, NEW jar \in {"none", "good", "corrupt"}
  PROVE  StoreInv([k EXCEPT !.jar[a] = jar])
<1> DEFINE l == [k EXCEPT !.jar[a] = jar]
<1>1. k \in StoreSet
  BY DEF StoreInv
<1>2. /\ l \in StoreSet /\ l.table = k.table /\ l.lru = k.lru /\ l.lruBytes = k.lruBytes
      /\ l.jarBytes = k.jarBytes /\ l.total = k.total
  BY <1>1 DEF StoreSet
<1> HIDE DEF l
<1>3. StoreInv(l)
  BY <1>2 DEF StoreInv, Exact
<1> QED
  BY <1>3 DEF l

(* The row is deleted by somebody else. *)
LEMMA PruneKeeps ==
  ASSUME NEW k, StoreInv(k), NEW a \in Artifacts
  PROVE  StoreInv([k EXCEPT !.table = Keep(@, Artifacts \ {a}), !.current = @ \ {a}, !.bytes[a] = 0])
<1> DEFINE theRows == Keep(k.table, Artifacts \ {a})
           l == [k EXCEPT !.table = theRows, !.current = @ \ {a}, !.bytes[a] = 0]
<1>1. k \in StoreSet /\ k.table \in Seq(Artifacts) /\ k.lru \in Seq(Artifacts) /\ Follows(k.table, k.lru)
  BY DEF StoreInv, StoreSet
<1>2. theRows \in Seq(Artifacts) /\ Follows(theRows, k.lru)
  BY <1>1, KeepIn, KeepFollows
<1> HIDE DEF theRows
<1>3. /\ l \in StoreSet /\ l.table = theRows /\ l.lru = k.lru /\ l.lruBytes = k.lruBytes
      /\ l.jarBytes = k.jarBytes /\ l.total = k.total
  BY <1>1, <1>2 DEF StoreSet
<1> HIDE DEF l
<1>4. StoreInv(l)
  BY <1>2, <1>3 DEF StoreInv, Exact
<1> QED
  BY <1>4 DEF l, theRows

(* The row and its place in the list are the latest. *)
LEMMA TouchKeeps ==
  ASSUME NEW k, StoreInv(k), NEW a \in Artifacts
  PROVE  StoreInv(Touch(k, a))
<1> DEFINE theRows == IF Contains(k.table, a) THEN ToEnd(k.table, a) ELSE k.table
           touched == [k EXCEPT !.table = theRows]
           moved == [touched EXCEPT !.lru = ToEnd(@, a)]
<1>1. k \in StoreSet /\ k.table \in Seq(Artifacts) /\ k.lru \in Seq(Artifacts) /\ Follows(k.table, k.lru)
  BY DEF StoreInv, StoreSet
<1>2. theRows \in Seq(Artifacts) /\ ToEnd(k.lru, a) \in Seq(Artifacts) /\ Follows(theRows, ToEnd(k.lru, a))
  <2>1. Contains(k.table, a) <=> a \in ToSet(k.table)
    BY <1>1, ContainsIs
  <2>2. CASE Contains(k.table, a)
    BY <1>1, <2>2, ToEndIn, ToEndFollows
  <2>3. CASE ~Contains(k.table, a)
    BY <1>1, <2>1, <2>3, ToEndIn, ToEndFollows
  <2> QED
    BY <2>2, <2>3
<1>3. Touch(k, a) = IF Contains(k.lru, a) THEN moved ELSE Refresh(touched)
  BY DEF Touch
<1> HIDE DEF theRows
<1>4. touched \in StoreSet /\ touched.table = theRows
  BY <1>1, <1>2 DEF StoreSet
<1>5. CASE Contains(k.lru, a)
  <2>1. /\ moved \in StoreSet /\ moved.table = theRows /\ moved.lru = ToEnd(k.lru, a)
        /\ moved.lruBytes = k.lruBytes /\ moved.jarBytes = k.jarBytes /\ moved.total = k.total
    BY <1>1, <1>2 DEF StoreSet
  <2> HIDE DEF moved, touched
  <2>2. StoreInv(moved)
    BY <1>2, <2>1 DEF StoreInv, Exact
  <2> QED
    BY <1>3, <1>5, <2>2
<1>6. CASE ~Contains(k.lru, a)
  <2> HIDE DEF touched, moved
  <2>1. Follows(theRows, theRows)
    BY <1>2, SelfFollows
  <2>2. StoreInv(Refresh(touched))
    BY <1>4, <2>1, RefreshKeeps
  <2> QED
    BY <1>3, <1>6, <2>2
<1> QED
  BY <1>5, <1>6

(* Artifacts are evicted: rows, jars and bytes. *)
LEMMA WithoutKeeps ==
  ASSUME NEW k, StoreInv(k), NEW out \in SUBSET Artifacts, NEW stuck
  PROVE  /\ StoreInv(Without(k, out, stuck))
         /\ Without(k, out, stuck).table = Keep(k.table, Artifacts \ out)
         /\ Without(k, out, stuck).lru = Keep(k.lru, Artifacts \ out)
         /\ Without(k, out, stuck).total =
              Minus(k.total, SumFunctionOnSet([a \in Artifacts |-> Weight(k, a)], out))
<1> DEFINE l == Without(k, out, stuck)
           theRows == Keep(k.table, Artifacts \ out)
           list == Keep(k.lru, Artifacts \ out)
           weights == [a \in Artifacts |-> Weight(k, a)]
           f == [a \in Artifacts |-> IF a \in out THEN 0 ELSE k.lruBytes[a]]
           g == [a \in Artifacts |-> IF a \in out THEN 0 ELSE k.jarBytes[a]]
           b == [a \in Artifacts |-> IF a \in out THEN 0 ELSE k.bytes[a]]
           jars == [a \in Artifacts |-> IF a \in out \ stuck THEN "none" ELSE k.jar[a]]
           total == Minus(k.total, SumFunctionOnSet(weights, out))
<1>1. k \in StoreSet /\ k.table \in Seq(Artifacts) /\ k.lru \in Seq(Artifacts) /\ Follows(k.table, k.lru)
  BY DEF StoreInv, StoreSet
<1>2. /\ k.jarBytes \in [Artifacts -> Nat] /\ k.lruBytes \in [Artifacts -> Nat] /\ k.total \in Nat
      /\ k.bytes \in [Artifacts -> Nat] /\ k.jar \in [Artifacts -> {"none", "good", "corrupt"}]
  BY DEF StoreInv, StoreSet
<1>3. theRows \in Seq(Artifacts) /\ list \in Seq(Artifacts) /\ Follows(theRows, list)
  BY <1>1, KeepIn, KeepFollows
<1>4. /\ f \in [Artifacts -> Nat] /\ g \in [Artifacts -> Nat] /\ b \in [Artifacts -> Nat]
      /\ jars \in [Artifacts -> {"none", "good", "corrupt"}]
      /\ weights \in [Artifacts -> Nat]
  BY <1>2 DEF Weight
<1>5. /\ SumFunctionOnSet(k.lruBytes, Artifacts) =
           SumFunctionOnSet(f, Artifacts) + SumFunctionOnSet(k.lruBytes, out)
      /\ SumFunctionOnSet(k.jarBytes, Artifacts) =
           SumFunctionOnSet(g, Artifacts) + SumFunctionOnSet(k.jarBytes, out)
  <2>1. IsFiniteSet(Artifacts) /\ Naturals(k.lruBytes, Artifacts) /\ Naturals(k.jarBytes, Artifacts)
    BY <1>2, SumsNat
  <2>2. /\ \A y \in Artifacts : f[y] = IF y \in out THEN 0 ELSE k.lruBytes[y]
        /\ \A y \in Artifacts : g[y] = IF y \in out THEN 0 ELSE k.jarBytes[y]
    OBVIOUS
  <2> HIDE DEF f, g
  <2> QED
    BY <2>1, <2>2, SumCleared
<1>6. SumFunctionOnSet(weights, out) = SumFunctionOnSet(k.lruBytes, out) + SumFunctionOnSet(k.jarBytes, out)
  <2>1. IsFiniteSet(out) /\ Naturals(k.lruBytes, out) /\ Naturals(k.jarBytes, out)
    BY <1>2, ArtifactAssumption, FS_Subset DEF Naturals
  <2>2. \A x \in out : weights[x] = k.lruBytes[x] + k.jarBytes[x]
    BY DEF Weight
  <2> HIDE DEF weights
  <2> QED
    BY <2>1, <2>2, SumAdds
<1>7. /\ SumFunctionOnSet(f, Artifacts) \in Nat /\ SumFunctionOnSet(g, Artifacts) \in Nat
      /\ SumFunctionOnSet(k.lruBytes, out) \in Nat /\ SumFunctionOnSet(k.jarBytes, out) \in Nat
  <2>1. IsFiniteSet(out) /\ Naturals(k.lruBytes, out) /\ Naturals(k.jarBytes, out)
    BY <1>2, ArtifactAssumption, FS_Subset DEF Naturals
  <2> HIDE DEF f, g
  <2> QED
    BY <1>4, <2>1, SumsNat, SumNat DEF Naturals
<1>8. /\ total \in Nat
      /\ total = SumFunctionOnSet(f, Artifacts) + SumFunctionOnSet(g, Artifacts)
  <2> HIDE DEF f, g, weights
  <2>1. PICK p \in Nat, q \in Nat, e \in Nat, d \in Nat :
          /\ p = SumFunctionOnSet(f, Artifacts) /\ q = SumFunctionOnSet(g, Artifacts)
          /\ e = SumFunctionOnSet(k.lruBytes, out) /\ d = SumFunctionOnSet(k.jarBytes, out)
    BY <1>7
  <2>2. k.total = (p + e) + (q + d) /\ SumFunctionOnSet(weights, out) = e + d
    BY <1>5, <1>6, <2>1 DEF StoreInv, Exact
  <2>3. total = Minus((p + e) + (q + d), e + d)
    BY <2>2
  <2>4. Minus((p + e) + (q + d), e + d) = p + q
    BY DEF Minus
  <2> QED
    BY <2>1, <2>3, <2>4
<1>9. l = [k EXCEPT !.table = theRows, !.current = @ \ out, !.bytes = b, !.jar = jars, !.lru = list,
                    !.lruBytes = f, !.jarBytes = g, !.total = total]
  BY DEF Without
<1> HIDE DEF l, theRows, list, f, g, b, jars, total, weights
<1>10. /\ l \in StoreSet /\ l.table = theRows /\ l.lru = list /\ l.lruBytes = f /\ l.jarBytes = g
       /\ l.total = total
  BY <1>1, <1>3, <1>4, <1>8, <1>9 DEF StoreSet
<1>11. StoreInv(l)
  BY <1>3, <1>8, <1>10 DEF StoreInv, Exact
<1> QED
  BY <1>10, <1>11 DEF l, theRows, list, total, weights

-----------------------------------------------------------------------------
(* The n oldest artifacts *)
LEMMA FirstsAre ==
  ASSUME NEW s \in Seq(Artifacts), NEW n \in 0 .. Len(s)
  PROVE  ToSet(SubSeq(s, 1, n)) = FirstOf(s, n) /\ FirstOf(s, n) \in SUBSET Artifacts
<1>1. n \in Nat /\ n <= Len(s) /\ DOMAIN SubSeq(s, 1, n) = 1 .. n
      /\ \A i \in 1 .. n : SubSeq(s, 1, n)[i] = s[i] /\ s[i] \in Artifacts
  OBVIOUS
<1> QED
  BY <1>1 DEF ToSet, FirstOf

(* What an index leaves, and what an ingest leaves after its eviction. *)
LEMMA PersistKeeps ==
  ASSUME StoreInv(store), NEW c \in Workers, work[c].art \in Artifacts, NEW size \in Nat,
         Persist(c, size)
  PROVE  /\ StoreInv(store')
         /\ Ingests(c) =>
              /\ Contains(store'.table, work[c].art)
              /\ \/ Len(store'.lru) = 1
                 \/ Len(store'.lru) <= MaxArtifacts /\ store'.total <= MaxCacheBytes
<1>0. PICK a \in Artifacts : a = work[c].art
  OBVIOUS
<1> DEFINE k == Persisted(store, a, size)
<1>1. /\ StoreInv(k) /\ k.table = ToEnd(store.table, a) /\ k.lru = ToEnd(store.lru, a)
  BY <1>0, PersistedKeeps
<1>2. store.table \in Seq(Artifacts) /\ store.lru \in Seq(Artifacts)
  BY DEF StoreInv, StoreSet
<1>3. IF Ingests(c)
      THEN \E n \in 0 .. Len(k.lru), stuck \in {{}, Artifacts} :
              Evicts(k, n) /\ store' = Without(k, ToSet(SubSeq(k.lru, 1, n)), stuck)
      ELSE store' = k
  BY <1>0 DEF Persist
<1> HIDE DEF k
<1>4. CASE ~Ingests(c)
  BY <1>1, <1>3, <1>4
<1>5. CASE Ingests(c)
  <2>1. PICK n \in 0 .. Len(k.lru), stuck \in {{}, Artifacts} :
           Evicts(k, n) /\ store' = Without(k, ToSet(SubSeq(k.lru, 1, n)), stuck)
    BY <1>3, <1>5
  <2> DEFINE out == FirstOf(k.lru, n)
             weights == [x \in Artifacts |-> Weight(k, x)]
  <2>2. k.lru \in Seq(Artifacts) /\ k.table \in Seq(Artifacts) /\ NoRepeats(k.lru) /\ k.total \in Nat
    BY <1>1 DEF StoreInv, StoreSet, Follows
  <2>3. ToSet(SubSeq(k.lru, 1, n)) = out /\ out \in SUBSET Artifacts
    BY <2>2, FirstsAre
  <2>4. /\ a \in ToSet(k.table) /\ k.lru[Len(k.lru)] = a /\ Len(k.lru) \in Nat /\ Len(k.lru) > 0
    BY <1>1, <1>2, ToEndIn
  <2> HIDE DEF weights
  <2>5. /\ StoreInv(store') /\ store'.table = Keep(k.table, Artifacts \ out)
        /\ store'.lru = Keep(k.lru, Artifacts \ out)
        /\ store'.total = Minus(k.total, SumFunctionOnSet(weights, out))
    <3> HIDE DEF out
    <3> QED
      BY <1>1, <2>1, <2>3, WithoutKeeps DEF weights
  <2>6. Len(store'.lru) = Len(k.lru) - n
    <3>1. Len(Keep(k.lru, Artifacts \ out)) = Len(k.lru) - n
      BY <2>2, KeepRest
    <3> QED
      BY <2>5, <3>1
  <2>7. /\ n <= Len(k.lru) - 1
        /\ \/ n = Len(k.lru) - 1
           \/ /\ Len(k.lru) - n <= MaxArtifacts
              /\ Minus(k.total, SumFunctionOnSet(weights, out)) <= MaxCacheBytes
    <3>1. Minus(Len(k.lru), 1) = Len(k.lru) - 1
      <4>1. PICK m \in Nat : m = Len(k.lru) /\ m > 0
        BY <2>4
      <4>2. Minus(m, 1) = m - 1
        BY <4>1 DEF Minus
      <4> QED
        BY <4>1, <4>2
    <3> HIDE DEF out
    <3> QED
      BY <2>1, <2>3, <3>1 DEF Evicts, weights
  <2>8. a \notin out
    <3>1. \A i \in 1 .. n : i \in 1 .. Len(k.lru) /\ i # Len(k.lru)
      BY <2>1, <2>4, <2>7
    <3>2. Len(k.lru) \in 1 .. Len(k.lru)
      BY <2>4
    <3> QED
      BY <2>2, <2>4, <3>1, <3>2 DEF NoRepeats, FirstOf
  <2>9. Contains(store'.table, a)
    <3>1. a \in Artifacts \ out
      BY <2>8
    <3> HIDE DEF out
    <3>2. Keep(k.table, Artifacts \ out) \in Seq(Artifacts) /\ a \in ToSet(Keep(k.table, Artifacts \ out))
      BY <2>2, <2>4, <3>1, KeepIn
    <3> QED
      BY <2>5, <3>2, ContainsIs
  <2>10. \/ Len(store'.lru) = 1
         \/ Len(store'.lru) <= MaxArtifacts /\ store'.total <= MaxCacheBytes
    <3>1. PICK m \in Nat : m = Len(k.lru)
      BY <2>4
    <3>2. n = m - 1 => m - n = 1
      BY <2>1, <3>1
    <3> QED
      BY <2>5, <2>6, <2>7, <3>1, <3>2
  <2> QED
    BY <1>0, <2>5, <2>9, <2>10
<1> QED
  BY <1>4, <1>5

-----------------------------------------------------------------------------
(* Ingests, of a record *)
IngestsIn(w) == w.leg = "rebuild" /\ w.op = "resolve"

(* What a record of a call is by itself *)
WorkInv(w) ==
    /\ w \in Works
    /\ w.pc # "idle" => w.art \in Artifacts /\ w.leg # "none"
    /\ w.pc = "idle" => w.leg = "none" /\ ~w.own
    /\ w.own => w.pc \in {"remapping", "sizing", "recording"}
    /\ w.pc = "remapping" => w.own
    /\ w.pc \in {"inspecting", "decompiling"} => w.leg = "rebuild"
    /\ w.pc = "finishing" => w.leg = "warm"
    /\ w.pc \in {"joined", "awaitIngest"} => w.leg = "joined"

(* What two records of calls have to do with each other when one awaits the other. *)
AwaitsIn(w, o) ==
    /\ w.pc = "awaitIngest" => IngestsIn(o) /\ o.art = w.art
    /\ w.pc = "awaitRemap" => o.pc = "remapping" /\ o.art = w.art

(* The types of what the joins are made of *)
JoinsTyped ==
    /\ work \in [Workers -> Works]
    /\ ingesting \in [Artifacts -> Workers \cup {Nobody}]
    /\ remapping \in [Artifacts -> Workers \cup {Nobody}]

(* The invariant of the calls: a call that ingests is the one that the map names, and
   whose promise is awaited works on the same artifact. *)
JoinsInv ==
    /\ JoinsTyped
    /\ \A c \in Workers :
          /\ WorkInv(work[c])
          /\ IngestsIn(work[c]) => ingesting[work[c].art] = c
          /\ work[c].pc \in {"awaitIngest", "awaitRemap"} =>
                work[c].on \in Workers /\ AwaitsIn(work[c], work[work[c].on])
    /\ \A a \in Artifacts :
          /\ ingesting[a] # Nobody => IngestsIn(work[ingesting[a]]) /\ work[ingesting[a]].art = a
          /\ remapping[a] # Nobody => work[remapping[a]].own /\ work[remapping[a]].art = a

(* A call that has ended is none of those that the invariant speaks of. *)
LEMMA IdleIs ==
  /\ IdleWork \in Works /\ WorkInv(IdleWork) /\ ~IngestsIn(IdleWork) /\ ~IdleWork.own
  /\ IdleWork.pc = "idle"
<1>1. IdleWork \in Works
  BY DEF IdleWork, Works
<1> QED
  BY <1>1 DEF IdleWork, WorkInv, IngestsIn

(* One call goes on from w to r, and the maps with it. *)
GoesOn(c, r) ==
    /\ WorkInv(r)
    /\ work' = [work EXCEPT ![c] = r]
    /\ IngestsIn(r) <=> IngestsIn(work[c])
    /\ IngestsIn(r) => r.art = work[c].art
    /\ r.pc = "awaitIngest" => r.on \in Workers \ {c} /\ AwaitsIn(r, work[r.on])
    /\ r.pc = "awaitRemap" => r.on \in Workers \ {c} /\ AwaitsIn(r, work[r.on])

(* A call that goes on keeps the invariant, when the map of remaps loses only entries of
   its own and gains only the one of its own remap. *)
LEMMA GoesKeeps ==
  ASSUME JoinsInv, NEW c \in Workers, NEW r, GoesOn(c, r), work[c].pc # "remapping",
         UNCHANGED ingesting, remapping' \in [Artifacts -> Workers \cup {Nobody}],
         \A a \in Artifacts :
            \/ remapping'[a] = Nobody
            \/ remapping'[a] = c /\ r.own /\ r.art = a
            \/ remapping'[a] = remapping[a] /\ remapping[a] # c
  PROVE  JoinsInv'
<1>1. /\ work' = [work EXCEPT ![c] = r] /\ r \in Works /\ work \in [Workers -> Works]
  BY DEF GoesOn, JoinsInv, JoinsTyped, WorkInv
<1>2. JoinsTyped'
  BY <1>1 DEF JoinsInv, JoinsTyped
<1>3. \A d \in Workers : work'[d] = IF d = c THEN r ELSE work[d]
  BY <1>1
<1>4. ASSUME NEW d \in Workers
      PROVE  WorkInv(work'[d]) /\ (IngestsIn(work'[d]) => ingesting'[work'[d].art] = d)
  BY <1>3 DEF GoesOn, JoinsInv
<1>5. ASSUME NEW d \in Workers, work'[d].pc \in {"awaitIngest", "awaitRemap"}
      PROVE  work'[d].on \in Workers /\ AwaitsIn(work'[d], work'[work'[d].on])
  <2>1. CASE d = c
    <3>1. r.pc \in {"awaitIngest", "awaitRemap"} /\ r.on \in Workers \ {c} /\ AwaitsIn(r, work[r.on])
      BY <1>3, <1>5, <2>1 DEF GoesOn
    <3> QED
      BY <1>3, <2>1, <3>1
  <2>2. CASE d # c
    <3>1. work'[d] = work[d] /\ work[d].on \in Workers /\ AwaitsIn(work[d], work[work[d].on])
      BY <1>3, <1>5, <2>2 DEF JoinsInv
    <3>2. CASE work[d].on # c
      BY <1>3, <3>1, <3>2
    <3>3. CASE work[d].on = c
      <4>1. work[d].pc = "awaitIngest" => IngestsIn(work[c]) /\ work[c].art = work[d].art
        BY <3>1, <3>3 DEF AwaitsIn
      <4>2. work[d].pc # "awaitRemap"
        BY <3>1, <3>3 DEF AwaitsIn
      <4>3. work[d].pc = "awaitIngest" => IngestsIn(r) /\ r.art = work[d].art
        BY <4>1 DEF GoesOn
      <4>4. AwaitsIn(work[d], r)
        BY <4>2, <4>3 DEF AwaitsIn
      <4> QED
        BY <1>3, <3>1, <3>3, <4>4
    <3> QED
      BY <3>2, <3>3
  <2> QED
    BY <2>1, <2>2
<1>6. ASSUME NEW a \in Artifacts, ingesting'[a] # Nobody
      PROVE  IngestsIn(work'[ingesting'[a]]) /\ work'[ingesting'[a]].art = a
  <2>1. PICK o \in Workers : o = ingesting[a] /\ ingesting'[a] = o
    BY <1>6 DEF JoinsInv, JoinsTyped
  <2>2. IngestsIn(work[o]) /\ work[o].art = a
    BY <1>6, <2>1 DEF JoinsInv
  <2>3. IngestsIn(work'[o]) /\ work'[o].art = a
    BY <1>3, <2>2 DEF GoesOn
  <2> QED
    BY <2>1, <2>3
<1>7. ASSUME NEW a \in Artifacts, remapping'[a] # Nobody
      PROVE  work'[remapping'[a]].own /\ work'[remapping'[a]].art = a
  <2>1. CASE remapping'[a] = c /\ r.own /\ r.art = a
    BY <1>3, <2>1
  <2>2. CASE remapping'[a] = remapping[a] /\ remapping[a] # c
    <3>1. PICK o \in Workers : o = remapping[a] /\ o # c
      BY <1>7, <2>2 DEF JoinsInv, JoinsTyped
    <3>2. work[o].own /\ work[o].art = a
      BY <1>7, <2>2, <3>1 DEF JoinsInv
    <3> QED
      BY <1>3, <2>2, <3>1, <3>2
  <2> QED
    BY <1>7, <2>1, <2>2
<1> QED
  BY <1>2, <1>4, <1>5, <1>6, <1>7 DEF JoinsInv

(* What a step does to a call without ending it, told by the record alone. *)
SameIngest(w, r) == (IngestsIn(r) <=> IngestsIn(w)) /\ r.art = w.art

(* Its ingest ends with a call, and those who await it are told. *)
LEMMA EndKeeps ==
  ASSUME JoinsInv, NEW c \in Workers, ~work[c].own, NEW pc \in {"joined", "failing"},
         work' = Settled(c, [work EXCEPT ![c] = IdleWork], pc), ingesting' = Forget(c),
         UNCHANGED remapping
  PROVE  JoinsInv'
<1> DEFINE told(d) == work[d].pc = "awaitIngest" /\ work[d].on = c
           answered(d) == [work[d] EXCEPT !.pc = pc, !.on = Nobody]
<1>1. /\ work \in [Workers -> Works] /\ ingesting \in [Artifacts -> Workers \cup {Nobody}]
      /\ remapping \in [Artifacts -> Workers \cup {Nobody}] /\ Nobody \notin Workers
  BY ArtifactAssumption DEF JoinsInv, JoinsTyped
<1>2. \A d \in Workers :
         work'[d] = IF d = c THEN IdleWork ELSE IF told(d) THEN answered(d) ELSE work[d]
  BY <1>1, IdleIs DEF Settled
<1>3. \A d \in Workers : WorkInv(work[d])
  BY DEF JoinsInv
<1>4. \A d \in Workers : told(d) =>
         /\ WorkInv(answered(d)) /\ ~IngestsIn(work[d]) /\ ~IngestsIn(answered(d)) /\ ~work[d].own
         /\ answered(d).pc = pc /\ work[d].pc # "remapping"
  <2> TAKE d \in Workers
  <2> HAVE told(d)
  <2>1. work[d] \in Works /\ WorkInv(work[d]) /\ work[d].pc = "awaitIngest"
    BY <1>1, <1>3
  <2>2. work[d].leg = "joined" /\ ~work[d].own /\ work[d].art \in Artifacts
    BY <2>1 DEF WorkInv
  <2>3. /\ answered(d) \in Works /\ answered(d).pc = pc /\ answered(d).leg = "joined"
        /\ answered(d).own = work[d].own /\ answered(d).art = work[d].art
    BY <2>1, <2>2 DEF Works
  <2> HIDE DEF answered
  <2> QED
    BY <2>1, <2>2, <2>3 DEF WorkInv, IngestsIn
<1>5. JoinsTyped'
  <2>1. \A d \in Workers : work'[d] \in Works
    BY <1>1, <1>2, <1>4, IdleIs DEF WorkInv
  <2>2. work' \in [Workers -> Works]
    BY <2>1 DEF Settled
  <2>3. ingesting' \in [Artifacts -> Workers \cup {Nobody}]
    BY <1>1 DEF Forget
  <2> QED
    BY <1>1, <2>2, <2>3 DEF JoinsTyped
<1>6. \A a \in Artifacts :
         ingesting'[a] = IF IngestsIn(work[c]) /\ ingesting[a] = c THEN Nobody ELSE ingesting[a]
  BY DEF Forget, Ingests, IngestsIn
<1> HIDE DEF told, answered
<1>7. ASSUME NEW d \in Workers
      PROVE  WorkInv(work'[d]) /\ (IngestsIn(work'[d]) => ingesting'[work'[d].art] = d)
  <2>1. WorkInv(work'[d])
    BY <1>2, <1>3, <1>4, IdleIs
  <2>2. ASSUME IngestsIn(work'[d]) PROVE ingesting'[work'[d].art] = d
    <3>1. d # c /\ work'[d] = work[d]
      BY <1>2, <1>4, <2>2, IdleIs
    <3>2. ingesting[work[d].art] = d /\ work[d].art \in Artifacts
      BY <1>3, <2>2, <3>1 DEF JoinsInv, IngestsIn, WorkInv
    <3> QED
      BY <1>6, <3>1, <3>2
  <2> QED
    BY <2>1, <2>2
<1>8. ASSUME NEW d \in Workers, work'[d].pc \in {"awaitIngest", "awaitRemap"}
      PROVE  work'[d].on \in Workers /\ AwaitsIn(work'[d], work'[work'[d].on])
  <2>1. d # c /\ ~told(d) /\ work'[d] = work[d]
    BY <1>2, <1>4, <1>8, IdleIs
  <2>2. PICK o \in Workers : o = work[d].on
    BY <1>8, <2>1 DEF JoinsInv
  <2>3. AwaitsIn(work[d], work[o])
    BY <1>8, <2>1, <2>2 DEF JoinsInv
  <2>4. o # c
    <3>1. work[c].pc # "remapping"
      BY <1>3 DEF WorkInv
    <3> QED
      BY <1>8, <2>1, <2>2, <2>3, <3>1 DEF told, AwaitsIn
  <2>5. ~told(o)
    BY <1>4, <1>8, <2>1, <2>3 DEF AwaitsIn
  <2>6. work'[o] = work[o]
    BY <1>2, <2>4, <2>5
  <2> QED
    BY <2>1, <2>2, <2>3, <2>6
<1>9. ASSUME NEW a \in Artifacts, ingesting'[a] # Nobody
      PROVE  IngestsIn(work'[ingesting'[a]]) /\ work'[ingesting'[a]].art = a
  <2>1. PICK o \in Workers : o = ingesting[a] /\ ingesting'[a] = o /\ ~(IngestsIn(work[c]) /\ o = c)
    BY <1>1, <1>6, <1>9
  <2>2. IngestsIn(work[o]) /\ work[o].art = a
    BY <1>1, <2>1 DEF JoinsInv
  <2>3. o # c /\ ~told(o)
    BY <1>4, <2>1, <2>2
  <2>4. work'[o] = work[o]
    BY <1>2, <2>3
  <2> QED
    BY <2>1, <2>2, <2>4
<1>10. ASSUME NEW a \in Artifacts, remapping'[a] # Nobody
       PROVE  work'[remapping'[a]].own /\ work'[remapping'[a]].art = a
  <2>1. PICK o \in Workers : o = remapping[a] /\ remapping'[a] = o
    BY <1>1, <1>10
  <2>2. work[o].own /\ work[o].art = a
    BY <1>1, <2>1 DEF JoinsInv
  <2>3. o # c /\ ~told(o)
    BY <1>4, <2>2
  <2>4. work'[o] = work[o]
    BY <1>2, <2>3
  <2> QED
    BY <2>1, <2>2, <2>4
<1> QED
  BY <1>5, <1>7, <1>8, <1>9, <1>10 DEF JoinsInv

(* The calls that await the remap of c go on at pc. *)
Told(c, w, pc) ==
    [d \in Workers |-> IF w[d].pc = "awaitRemap" /\ w[d].on = c
                       THEN [w[d] EXCEPT !.pc = pc, !.on = Nobody] ELSE w[d]]

(* A remap ends, and those who await it are told. *)
LEMMA RemapKeeps ==
  ASSUME JoinsInv, NEW c \in Workers, Remap(c)
  PROVE  JoinsInv'
<1>1. /\ work \in [Workers -> Works] /\ ingesting \in [Artifacts -> Workers \cup {Nobody}]
      /\ remapping \in [Artifacts -> Workers \cup {Nobody}] /\ Nobody \notin Workers
  BY ArtifactAssumption DEF JoinsInv, JoinsTyped
<1>2. \A d \in Workers : WorkInv(work[d])
  BY DEF JoinsInv
<1>3. PICK pc \in {"returned", "failing"}, r \in {[work[c] EXCEPT !.pc = "sizing"],
                                                    [work[c] EXCEPT !.pc = "failing", !.own = FALSE]} :
         /\ work' = Told(c, [work EXCEPT ![c] = r], pc)
         /\ r.own \/ remapping' = [remapping EXCEPT ![work[c].art] = Nobody]
         /\ remapping' \in {remapping, [remapping EXCEPT ![work[c].art] = Nobody]}
  <2>1. work[c].own
    BY <1>2 DEF Remap, WorkInv
  <2> DEFINE r1 == [work[c] EXCEPT !.pc = "sizing"]
             r2 == [work[c] EXCEPT !.pc = "failing", !.own = FALSE]
  <2>2. r1.own
    BY <1>1, <2>1 DEF Works
  <2>3. /\ [work EXCEPT ![c] = r1] = [work EXCEPT ![c].pc = "sizing"]
        /\ [work EXCEPT ![c] = r2] = [work EXCEPT ![c].pc = "failing", ![c].own = FALSE]
    BY <1>1 DEF Works
  <2> HIDE DEF r1, r2
  <2>4. \/ work' = Told(c, [work EXCEPT ![c] = r1], "returned") /\ UNCHANGED remapping
        \/ /\ work' = Told(c, [work EXCEPT ![c] = r2], "failing")
           /\ remapping' = [remapping EXCEPT ![work[c].art] = Nobody]
    <3>1. \/ work' = Told(c, [work EXCEPT ![c].pc = "sizing"], "returned") /\ UNCHANGED remapping
          \/ /\ work' = Told(c, [work EXCEPT ![c].pc = "failing", ![c].own = FALSE], "failing")
             /\ remapping' = [remapping EXCEPT ![work[c].art] = Nobody]
      BY Zenon DEF Remap, Told
    <3> QED
      BY <2>3, <3>1, Zenon
  <2>5. CASE work' = Told(c, [work EXCEPT ![c] = r1], "returned") /\ UNCHANGED remapping
    BY <2>2, <2>5 DEF r1
  <2>6. CASE /\ work' = Told(c, [work EXCEPT ![c] = r2], "failing")
             /\ remapping' = [remapping EXCEPT ![work[c].art] = Nobody]
    BY <2>6 DEF r2
  <2> QED
    BY <2>4, <2>5, <2>6
<1>4. work[c].pc = "remapping" /\ UNCHANGED ingesting
  BY DEF Remap
<1> DEFINE told(d) == work[d].pc = "awaitRemap" /\ work[d].on = c
           answered(d) == [work[d] EXCEPT !.pc = pc, !.on = Nobody]
<1>5. /\ WorkInv(r) /\ SameIngest(work[c], r) /\ r.pc \in {"sizing", "failing"}
      /\ work[c].art \in Artifacts
  <2>1. /\ work[c] \in Works /\ work[c].art \in Artifacts /\ work[c].leg # "none" /\ work[c].own \in BOOLEAN
    BY <1>1, <1>2, <1>4 DEF WorkInv, Works
  <2>2. /\ r \in Works /\ r.art = work[c].art /\ r.leg = work[c].leg /\ r.op = work[c].op
        /\ r.pc \in {"sizing", "failing"} /\ (r.pc = "failing" => ~r.own)
    BY <2>1 DEF Works
  <2> QED
    BY <2>1, <2>2 DEF WorkInv, SameIngest, IngestsIn
<1>6. \A d \in Workers :
         work'[d] = IF d = c THEN r ELSE IF told(d) THEN answered(d) ELSE work[d]
  <2> TAKE d \in Workers
  <2> DEFINE w == [work EXCEPT ![c] = r]
  <2>1. w[d] = IF d = c THEN r ELSE work[d]
    BY <1>1
  <2>2. work'[d] = IF w[d].pc = "awaitRemap" /\ w[d].on = c
                   THEN [w[d] EXCEPT !.pc = pc, !.on = Nobody] ELSE w[d]
    BY <1>3 DEF Told
  <2>3. r.pc # "awaitRemap"
    BY <1>5
  <2> HIDE DEF w
  <2>4. CASE d = c
    BY <2>1, <2>2, <2>3, <2>4
  <2>5. CASE d # c
    BY <2>1, <2>2, <2>5
  <2> QED
    BY <2>4, <2>5
<1>7. \A d \in Workers : told(d) =>
         /\ WorkInv(answered(d)) /\ SameIngest(work[d], answered(d)) /\ ~work[d].own
         /\ answered(d).pc = pc
  <2> TAKE d \in Workers
  <2> HAVE told(d)
  <2>1. work[d] \in Works /\ WorkInv(work[d]) /\ work[d].pc = "awaitRemap"
    BY <1>1, <1>2
  <2>2. work[d].leg # "none" /\ ~work[d].own /\ work[d].art \in Artifacts
    BY <2>1 DEF WorkInv
  <2>3. /\ answered(d) \in Works /\ answered(d).pc = pc /\ answered(d).leg = work[d].leg
        /\ answered(d).own = work[d].own /\ answered(d).art = work[d].art
        /\ answered(d).op = work[d].op
    BY <2>1, <2>2 DEF Works
  <2> HIDE DEF answered
  <2> QED
    BY <2>2, <2>3 DEF WorkInv, IngestsIn, SameIngest
<1> HIDE DEF told, answered
<1>8. JoinsTyped'
  <2>1. \A d \in Workers : work'[d] \in Works
    BY <1>1, <1>5, <1>6, <1>7 DEF WorkInv
  <2>2. work' \in [Workers -> Works]
    BY <1>3, <2>1 DEF Told
  <2>3. remapping' \in [Artifacts -> Workers \cup {Nobody}]
    BY <1>1, <1>3
  <2> QED
    BY <1>1, <1>4, <2>2, <2>3 DEF JoinsTyped
<1>9. \A d \in Workers : SameIngest(work[d], work'[d]) /\ WorkInv(work'[d])
  BY <1>2, <1>5, <1>6, <1>7 DEF SameIngest
<1>10. ASSUME NEW d \in Workers
       PROVE  IngestsIn(work'[d]) => ingesting'[work'[d].art] = d
  BY <1>4, <1>9 DEF SameIngest, JoinsInv
<1>11. ASSUME NEW d \in Workers, work'[d].pc \in {"awaitIngest", "awaitRemap"}
       PROVE  work'[d].on \in Workers /\ AwaitsIn(work'[d], work'[work'[d].on])
  <2>1. d # c /\ ~told(d) /\ work'[d] = work[d]
    BY <1>5, <1>6, <1>7, <1>11
  <2>2. PICK o \in Workers : o = work[d].on
    BY <1>11, <2>1 DEF JoinsInv
  <2>3. AwaitsIn(work[d], work[o])
    BY <1>11, <2>1, <2>2 DEF JoinsInv
  <2>4. SameIngest(work[o], work'[o])
    BY <1>9
  <2>5. work[d].pc = "awaitRemap" => work'[o] = work[o]
    <3>1. ASSUME work[d].pc = "awaitRemap" PROVE o # c /\ ~told(o)
      BY <2>1, <2>2, <2>3, <3>1 DEF told, AwaitsIn
    <3> QED
      BY <1>6, <3>1
  <2>6. AwaitsIn(work[d], work'[o])
    BY <2>3, <2>4, <2>5 DEF AwaitsIn, SameIngest
  <2> QED
    BY <2>1, <2>2, <2>6
<1>12. ASSUME NEW a \in Artifacts, ingesting'[a] # Nobody
       PROVE  IngestsIn(work'[ingesting'[a]]) /\ work'[ingesting'[a]].art = a
  <2>1. PICK o \in Workers : o = ingesting[a] /\ ingesting'[a] = o
    BY <1>1, <1>4, <1>12
  <2>2. IngestsIn(work[o]) /\ work[o].art = a
    BY <1>1, <2>1 DEF JoinsInv
  <2> QED
    BY <1>9, <2>1, <2>2 DEF SameIngest
<1>13. ASSUME NEW a \in Artifacts, remapping'[a] # Nobody
       PROVE  work'[remapping'[a]].own /\ work'[remapping'[a]].art = a
  <2>1. PICK o \in Workers : o = remapping[a] /\ remapping'[a] = o
    BY <1>1, <1>3, <1>5, <1>13
  <2>2. work[o].own /\ work[o].art = a
    BY <1>1, <2>1 DEF JoinsInv
  <2>3. CASE o = c
    <3>1. r.own
      BY <1>1, <1>3, <1>13, <2>2, <2>3
    <3> QED
      BY <1>5, <1>6, <2>1, <2>2, <2>3, <3>1 DEF SameIngest
  <2>4. CASE o # c
    BY <1>6, <1>7, <2>1, <2>2, <2>4
  <2> QED
    BY <2>3, <2>4
<1> QED
  BY <1>8, <1>9, <1>10, <1>11, <1>12, <1>13 DEF JoinsInv

(* A call that has no remap of its own is in no map of remaps. *)
LEMMA NotMapped ==
  ASSUME JoinsInv, NEW c \in Workers, ~work[c].own
  PROVE  /\ work[c].pc # "remapping"
         /\ \A a \in Artifacts : remapping[a] \in Workers \cup {Nobody} /\ remapping[a] # c
<1>1. Nobody \notin Workers /\ remapping \in [Artifacts -> Workers \cup {Nobody}] /\ WorkInv(work[c])
  BY ArtifactAssumption DEF JoinsInv, JoinsTyped
<1> QED
  BY <1>1 DEF JoinsInv, WorkInv

(* A record r that a call may go on to from what it is. *)
MayGoOn(c, r) ==
    /\ r \in Works /\ r.art \in Artifacts /\ r.leg # "none" /\ ~r.own /\ ~work[c].own
    /\ IngestsIn(r) <=> IngestsIn(work[c])
    /\ IngestsIn(r) => r.art = work[c].art

(* A call without a remap goes on by itself. *)
LEMMA MovesKeeps ==
  ASSUME JoinsInv, NEW c \in Workers, NEW r, MayGoOn(c, r), WorkInv(r),
         r.pc \notin {"awaitIngest", "awaitRemap"}, Update(c, r), UNCHANGED <<ingesting, remapping>>
  PROVE  JoinsInv'
<1>1. GoesOn(c, r)
  BY DEF GoesOn, MayGoOn, Update
<1>2. /\ work[c].pc # "remapping"
      /\ \A a \in Artifacts : remapping[a] \in Workers \cup {Nobody} /\ remapping[a] # c
  BY NotMapped DEF MayGoOn
<1>3. remapping \in [Artifacts -> Workers \cup {Nobody}]
  BY DEF JoinsInv, JoinsTyped
<1> QED
  BY <1>1, <1>2, <1>3, GoesKeeps

(* It starts a remap and registers it. *)
LEMMA StartRemapKeeps ==
  ASSUME JoinsInv, NEW c \in Workers, NEW r, MayGoOn(c, r), StartRemap(c, r), UNCHANGED ingesting
  PROVE  JoinsInv'
<1> DEFINE q == [r EXCEPT !.pc = "remapping", !.own = TRUE]
<1>1. /\ q \in Works /\ q.pc = "remapping" /\ q.own /\ q.art = r.art /\ q.leg = r.leg /\ q.op = r.op
      /\ r.art \in Artifacts /\ r.leg # "none"
  BY DEF MayGoOn, Works
<1>2. /\ work' = [work EXCEPT ![c] = q]
      /\ remapping' = [remapping EXCEPT ![r.art] = c]
  BY DEF StartRemap, Update
<1> HIDE DEF q
<1>3. GoesOn(c, q)
  BY <1>1, <1>2 DEF GoesOn, MayGoOn, WorkInv, IngestsIn
<1>4. /\ work[c].pc # "remapping"
      /\ \A a \in Artifacts : remapping[a] \in Workers \cup {Nobody} /\ remapping[a] # c
  BY NotMapped DEF MayGoOn
<1>5. remapping' \in [Artifacts -> Workers \cup {Nobody}]
  BY <1>2 DEF JoinsInv, JoinsTyped
<1>6. \A a \in Artifacts : remapping'[a] = IF a = r.art THEN c ELSE remapping[a]
  BY <1>2 DEF JoinsInv, JoinsTyped
<1> QED
  BY <1>1, <1>3, <1>4, <1>5, <1>6, GoesKeeps

(* It joins the remap in flight, has its jar at once, asks for the original or starts one. *)
LEMMA RemapOrJoinKeeps ==
  ASSUME JoinsInv, NEW c \in Workers, NEW r, MayGoOn(c, r), RemapOrJoin(c, r), UNCHANGED ingesting
  PROVE  JoinsInv'
<1>1. r \in Works /\ r.art \in Artifacts /\ r.leg # "none" /\ ~r.own
  BY DEF MayGoOn
<1>2. /\ work[c].pc # "remapping"
      /\ \A a \in Artifacts : remapping[a] \in Workers \cup {Nobody} /\ remapping[a] # c
  BY NotMapped DEF MayGoOn
<1>3. CASE remapping[r.art] # Nobody
  <2>1. PICK o \in Workers : o = remapping[r.art] /\ o # c
    BY <1>1, <1>2, <1>3
  <2>2. work[o].own /\ work[o].art = r.art
    BY <1>1, <1>3, <2>1 DEF JoinsInv
  <2> DEFINE waits == [r EXCEPT !.pc = "awaitRemap", !.on = o]
             gets == [r EXCEPT !.pc = "returned"]
  <2>3. UNCHANGED remapping /\ Update(c, IF work[o].pc = "remapping" THEN waits ELSE gets)
    BY <1>3, <2>1 DEF RemapOrJoin
  <2>4. /\ waits \in Works /\ waits.pc = "awaitRemap" /\ waits.on = o /\ waits.art = r.art
        /\ waits.leg = r.leg /\ waits.op = r.op /\ ~waits.own
    BY <1>1 DEF Works
  <2>5. /\ gets \in Works /\ gets.pc = "returned" /\ gets.art = r.art /\ gets.leg = r.leg
        /\ gets.op = r.op /\ ~gets.own
    BY <1>1 DEF Works
  <2> HIDE DEF waits, gets
  <2>6. CASE work[o].pc = "remapping"
    <3>1. GoesOn(c, waits)
      <4>1. WorkInv(waits)
        BY <1>1, <2>4 DEF WorkInv
      <4>2. work' = [work EXCEPT ![c] = waits]
        BY <2>3, <2>6 DEF Update
      <4>3. (IngestsIn(waits) <=> IngestsIn(work[c])) /\ (IngestsIn(waits) => waits.art = work[c].art)
        BY <2>4 DEF MayGoOn, IngestsIn
      <4>4. AwaitsIn(waits, work[waits.on])
        BY <2>2, <2>4, <2>6 DEF AwaitsIn
      <4> QED
        BY <2>1, <2>4, <4>1, <4>2, <4>3, <4>4 DEF GoesOn
    <3>2. remapping' \in [Artifacts -> Workers \cup {Nobody}] /\ UNCHANGED remapping
      BY <2>3 DEF JoinsInv, JoinsTyped
    <3> QED
      BY <1>2, <3>1, <3>2, GoesKeeps
  <2>7. CASE work[o].pc # "remapping"
    <3>1. WorkInv(gets)
      BY <1>1, <2>5 DEF WorkInv
    <3>2. MayGoOn(c, gets)
      BY <2>5 DEF MayGoOn, IngestsIn
    <3>3. Update(c, gets)
      BY <2>3, <2>7
    <3> QED
      BY <2>3, <2>5, <3>1, <3>2, <3>3, MovesKeeps
  <2> QED
    BY <2>6, <2>7
<1>4. CASE remapping[r.art] = Nobody /\ r.op = "index"
  <2> DEFINE locates == [r EXCEPT !.pc = "locating"]
  <2>1. UNCHANGED remapping /\ Update(c, locates)
    BY <1>4 DEF RemapOrJoin
  <2>2. /\ locates \in Works /\ locates.pc = "locating" /\ locates.art = r.art
        /\ locates.leg = r.leg /\ locates.op = r.op /\ ~locates.own
    BY <1>1 DEF Works
  <2> HIDE DEF locates
  <2>3. WorkInv(locates) /\ MayGoOn(c, locates)
    BY <1>1, <2>2 DEF WorkInv, MayGoOn, IngestsIn
  <2> QED
    BY <2>1, <2>2, <2>3, MovesKeeps
<1>5. CASE remapping[r.art] = Nobody /\ r.op # "index"
  BY <1>5, StartRemapKeeps DEF RemapOrJoin
<1> QED
  BY <1>3, <1>4, <1>5

(* maybeRemapBinaryForMojang, with the jar in the cache or without *)
LEMMA EnterRemapKeeps ==
  ASSUME JoinsInv, NEW c \in Workers, NEW r, MayGoOn(c, r), EnterRemap(c, r), UNCHANGED ingesting
  PROVE  JoinsInv'
<1>1. CASE store.jar[r.art] # "none"
  <2> DEFINE checks == [r EXCEPT !.pc = "checking"]
  <2>1. UNCHANGED remapping /\ Update(c, checks)
    BY <1>1 DEF EnterRemap
  <2>2. /\ checks \in Works /\ checks.pc = "checking" /\ checks.art = r.art
        /\ checks.leg = r.leg /\ checks.op = r.op /\ ~checks.own /\ r.art \in Artifacts /\ r.leg # "none"
    BY DEF MayGoOn, Works
  <2> HIDE DEF checks
  <2>3. WorkInv(checks) /\ MayGoOn(c, checks)
    BY <2>2 DEF WorkInv, MayGoOn, IngestsIn
  <2> QED
    BY <2>1, <2>2, <2>3, MovesKeeps
<1>2. CASE store.jar[r.art] = "none"
  BY <1>2, RemapOrJoinKeeps DEF EnterRemap
<1> QED
  BY <1>1, <1>2

(* What a call that is not idle is, for the steps below. *)
LEMMA BusyIs ==
  ASSUME JoinsInv, NEW c \in Workers, work[c].pc # "idle"
  PROVE  /\ work[c] \in Works /\ WorkInv(work[c]) /\ work[c].art \in Artifacts /\ work[c].leg # "none"
         /\ ~work[c].own => MayGoOn(c, work[c])
<1>1. WorkInv(work[c])
  BY DEF JoinsInv
<1> QED
  BY <1>1 DEF WorkInv, MayGoOn

(* A record of a call that differs in its pc and its size only. *)
LEMMA StepsKeeps ==
  ASSUME JoinsInv, NEW c \in Workers, work[c].pc \notin {"idle", "remapping"}, NEW r,
         r \in Works, r.art = work[c].art, r.leg = work[c].leg, r.op = work[c].op, r.own = work[c].own,
         r.pc \in {"removing", "removed", "sizing", "decompiling", "recording"},
         r.pc = "decompiling" => r.leg = "rebuild", r.own => r.pc \in {"sizing", "recording"},
         Update(c, r), UNCHANGED <<ingesting, remapping>>
  PROVE  JoinsInv'
<1>1. work[c].art \in Artifacts /\ work[c].leg # "none"
  BY BusyIs
<1>2. WorkInv(r)
  BY <1>1 DEF WorkInv
<1>3. GoesOn(c, r)
  BY <1>2 DEF GoesOn, Update, IngestsIn
<1>4. remapping \in [Artifacts -> Workers \cup {Nobody}] /\ Nobody \notin Workers
  BY ArtifactAssumption DEF JoinsInv, JoinsTyped
<1>5. \A a \in Artifacts :
         \/ remapping'[a] = Nobody
         \/ remapping'[a] = c /\ r.own /\ r.art = a
         \/ remapping'[a] = remapping[a] /\ remapping[a] # c
  <2> TAKE a \in Artifacts
  <2>1. remapping[a] # Nobody => work[remapping[a]].own /\ work[remapping[a]].art = a
    BY DEF JoinsInv
  <2> QED
    BY <2>1
<1> QED
  BY <1>3, <1>4, <1>5, GoesKeeps

(* A call has its jar. *)
LEMMA AfterRemapKeeps ==
  ASSUME JoinsInv, NEW c \in Workers, work[c].pc \notin {"idle", "remapping"},
         Update(c, AfterRemap(work[c])), UNCHANGED ingesting,
         remapping' = IF work[c].own THEN [remapping EXCEPT ![work[c].art] = Nobody] ELSE remapping
  PROVE  JoinsInv'
<1> DEFINE r == AfterRemap(work[c])
           goes == [work[c] EXCEPT !.pc = IF work[c].leg = "warm" THEN "finishing" ELSE "decompiling",
                                   !.on = Nobody, !.own = FALSE, !.size = 0]
<1>1. work[c] \in Works /\ work[c].art \in Artifacts /\ work[c].leg # "none"
  BY BusyIs
<1>2. /\ goes \in Works /\ goes.art = work[c].art /\ goes.leg = work[c].leg /\ goes.op = work[c].op
      /\ ~goes.own /\ goes.pc = IF work[c].leg = "warm" THEN "finishing" ELSE "decompiling"
  BY <1>1 DEF Works
<1>3. r = IF work[c].leg = "joined" THEN IdleWork ELSE goes
  BY DEF AfterRemap
<1>4. work[c].leg \in {"warm", "joined", "rebuild"}
  BY <1>1 DEF Works
<1> HIDE DEF goes
<1>5. WorkInv(r) /\ ~r.own /\ (IngestsIn(r) <=> IngestsIn(work[c]))
      /\ (IngestsIn(r) => r.art = work[c].art) /\ r.pc \notin {"awaitIngest", "awaitRemap"}
  <2>1. CASE work[c].leg = "joined"
    BY <1>3, <2>1, IdleIs DEF IngestsIn
  <2>2. CASE work[c].leg # "joined"
    BY <1>1, <1>2, <1>3, <1>4, <2>2 DEF IngestsIn, WorkInv
  <2> QED
    BY <2>1, <2>2
<1> HIDE DEF r
<1>6. GoesOn(c, r)
  BY <1>5 DEF GoesOn, Update, r
<1>7. remapping \in [Artifacts -> Workers \cup {Nobody}] /\ Nobody \notin Workers
  BY ArtifactAssumption DEF JoinsInv, JoinsTyped
<1>8. remapping' \in [Artifacts -> Workers \cup {Nobody}]
  BY <1>7
<1>9. \A a \in Artifacts : remapping'[a] = Nobody \/ (remapping'[a] = remapping[a] /\ remapping[a] # c)
  <2> TAKE a \in Artifacts
  <2>1. remapping[a] # Nobody => work[remapping[a]].own /\ work[remapping[a]].art = a
    BY DEF JoinsInv
  <2>2. remapping'[a] = IF work[c].own /\ a = work[c].art THEN Nobody ELSE remapping[a]
    BY <1>1, <1>7
  <2> QED
    BY <2>1, <2>2
<1> QED
  BY <1>6, <1>8, <1>9, GoesKeeps

-----------------------------------------------------------------------------
(* The inductive invariant *)
CacheInv == StoreInv(store) /\ JoinsInv

(* A call starts an ingest and registers it. Nobody awaited it, since it was idle. *)
LEMMA StartIngestKeeps ==
  ASSUME JoinsInv, NEW c \in Workers, work[c].pc = "idle", NEW a \in Artifacts, ingesting[a] = Nobody,
         NEW r, WorkInv(r), IngestsIn(r), r.art = a, r.pc = "inspecting",
         ingesting' = [ingesting EXCEPT ![a] = c], Update(c, r), UNCHANGED remapping
  PROVE  JoinsInv'
<1>1. /\ work \in [Workers -> Works] /\ ingesting \in [Artifacts -> Workers \cup {Nobody}]
      /\ remapping \in [Artifacts -> Workers \cup {Nobody}] /\ Nobody \notin Workers
  BY ArtifactAssumption DEF JoinsInv, JoinsTyped
<1>2. \A d \in Workers : work'[d] = IF d = c THEN r ELSE work[d]
  BY <1>1 DEF Update
<1>3. \A b \in Artifacts : ingesting'[b] = IF b = a THEN c ELSE ingesting[b]
  BY <1>1
<1>4. ~IngestsIn(work[c]) /\ ~work[c].own /\ work[c].pc # "remapping"
  BY DEF JoinsInv, WorkInv, IngestsIn
<1>5. JoinsTyped'
  BY <1>1 DEF JoinsTyped, Update, WorkInv
<1>6. ASSUME NEW d \in Workers
      PROVE  WorkInv(work'[d]) /\ (IngestsIn(work'[d]) => ingesting'[work'[d].art] = d)
  <2>1. CASE d = c
    BY <1>2, <1>3, <2>1
  <2>2. CASE d # c
    <3>1. work'[d] = work[d] /\ WorkInv(work[d])
      BY <1>2, <2>2 DEF JoinsInv
    <3>2. IngestsIn(work[d]) => work[d].art \in Artifacts /\ ingesting[work[d].art] = d
      BY <3>1 DEF JoinsInv, WorkInv, IngestsIn
    <3> QED
      BY <1>1, <1>3, <2>2, <3>1, <3>2
  <2> QED
    BY <2>1, <2>2
<1>7. ASSUME NEW d \in Workers, work'[d].pc \in {"awaitIngest", "awaitRemap"}
      PROVE  work'[d].on \in Workers /\ AwaitsIn(work'[d], work'[work'[d].on])
  <2>1. d # c /\ work'[d] = work[d]
    BY <1>2, <1>7
  <2>2. PICK o \in Workers : o = work[d].on /\ AwaitsIn(work[d], work[o])
    BY <1>7, <2>1 DEF JoinsInv
  <2>3. o # c
    BY <1>4, <1>7, <2>1, <2>2 DEF AwaitsIn
  <2> QED
    BY <1>2, <2>1, <2>2, <2>3
<1>8. ASSUME NEW b \in Artifacts, ingesting'[b] # Nobody
      PROVE  IngestsIn(work'[ingesting'[b]]) /\ work'[ingesting'[b]].art = b
  <2>1. CASE b = a
    BY <1>2, <1>3, <2>1
  <2>2. CASE b # a
    <3>1. PICK o \in Workers : o = ingesting[b] /\ ingesting'[b] = o
      BY <1>1, <1>3, <1>8, <2>2
    <3>2. IngestsIn(work[o]) /\ work[o].art = b
      BY <1>1, <3>1 DEF JoinsInv
    <3>3. o # c
      BY <1>4, <3>2
    <3> QED
      BY <1>2, <3>1, <3>2, <3>3
  <2> QED
    BY <2>1, <2>2
<1>9. ASSUME NEW b \in Artifacts, remapping'[b] # Nobody
      PROVE  work'[remapping'[b]].own /\ work'[remapping'[b]].art = b
  <2>1. PICK o \in Workers : o = remapping[b] /\ remapping'[b] = o
    BY <1>1, <1>9
  <2>2. work[o].own /\ work[o].art = b
    BY <1>1, <2>1 DEF JoinsInv
  <2>3. o # c
    BY <1>4, <2>2
  <2> QED
    BY <1>2, <2>1, <2>2, <2>3
<1> QED
  BY <1>5, <1>6, <1>7, <1>8, <1>9 DEF JoinsInv

(* What a call is asked. *)
LEMMA AsksIs ==
  ASSUME NEW a \in Artifacts, NEW op \in Operations
  PROVE  LET r == [IdleWork EXCEPT !.art = a, !.op = op]
         IN  r.pc = "idle" /\ r.art = a /\ r.op = op /\ r.leg = "none" /\ ~r.own /\ r \in Works
<1>1. /\ IdleWork \in Works /\ IdleWork.pc = "idle" /\ ~IdleWork.own /\ IdleWork.leg = "none"
  BY IdleIs DEF WorkInv
<1> QED
  BY <1>1 DEF Works

(* Resolve keeps the invariant. *)
LEMMA ResolveKeeps ==
  ASSUME CacheInv, NEW c \in Workers, NEW a \in Artifacts, Resolve(c, a)
  PROVE  CacheInv'
<1> DEFINE r == [IdleWork EXCEPT !.art = a, !.op = "resolve"]
           warm == [r EXCEPT !.leg = "warm"]
           done == [r EXCEPT !.leg = "warm", !.pc = "finishing"]
           joins == [r EXCEPT !.leg = "joined", !.pc = "awaitIngest", !.on = ingesting[a]]
           first == [r EXCEPT !.leg = "rebuild", !.pc = "inspecting"]
<1>1. /\ work[c].pc = "idle" /\ UNCHANGED store /\ "resolve" \in Operations
      /\ \/ a \in Remapped /\ EnterRemap(c, warm) /\ UNCHANGED ingesting
         \/ Update(c, done) /\ UNCHANGED <<ingesting, remapping>>
         \/ /\ JoinIngest(c, a) /\ Update(c, joins) /\ UNCHANGED <<ingesting, remapping>>
         \/ /\ ~JoinIngest(c, a) /\ ingesting' = [ingesting EXCEPT ![a] = c]
            /\ Update(c, first) /\ UNCHANGED remapping
  BY DEF Resolve
<1>2. JoinsInv /\ StoreInv(store)'
  BY <1>1 DEF CacheInv
<1>3. ~IngestsIn(work[c]) /\ ~work[c].own
  BY <1>1, <1>2 DEF JoinsInv, WorkInv, IngestsIn
<1>4. ingesting[a] \in Workers \cup {Nobody}
  BY <1>2 DEF JoinsInv, JoinsTyped
<1>5. r.pc = "idle" /\ r.art = a /\ r.op = "resolve" /\ r.leg = "none" /\ ~r.own /\ r \in Works
  BY <1>1, AsksIs
<1> HIDE DEF r
<1>6. /\ warm \in Works /\ warm.pc = "idle" /\ warm.art = a /\ warm.leg = "warm" /\ ~warm.own
      /\ warm.op = "resolve"
  BY <1>5 DEF Works
<1>7. /\ done \in Works /\ done.pc = "finishing" /\ done.art = a /\ done.leg = "warm" /\ ~done.own
      /\ done.op = "resolve"
  BY <1>5 DEF Works
<1>8. /\ joins \in Works /\ joins.pc = "awaitIngest" /\ joins.art = a /\ joins.leg = "joined"
      /\ ~joins.own /\ joins.op = "resolve" /\ joins.on = ingesting[a]
  BY <1>4, <1>5 DEF Works
<1>9. /\ first \in Works /\ first.pc = "inspecting" /\ first.art = a /\ first.leg = "rebuild"
      /\ ~first.own /\ first.op = "resolve"
  BY <1>5 DEF Works
<1> HIDE DEF warm, done, joins, first
<1>10. CASE a \in Remapped /\ EnterRemap(c, warm) /\ UNCHANGED ingesting
  <2>1. MayGoOn(c, warm)
    BY <1>3, <1>6 DEF MayGoOn, IngestsIn
  <2> QED
    BY <1>2, <1>10, <2>1, EnterRemapKeeps DEF CacheInv
<1>11. CASE Update(c, done) /\ UNCHANGED <<ingesting, remapping>>
  <2>1. MayGoOn(c, done) /\ WorkInv(done)
    BY <1>3, <1>7 DEF MayGoOn, IngestsIn, WorkInv
  <2> QED
    BY <1>2, <1>7, <1>11, <2>1, MovesKeeps DEF CacheInv
<1>12. CASE JoinIngest(c, a) /\ Update(c, joins) /\ UNCHANGED <<ingesting, remapping>>
  <2>1. PICK o \in Workers : o = ingesting[a]
    BY <1>4, <1>12 DEF JoinIngest
  <2>2. IngestsIn(work[o]) /\ work[o].art = a
    BY <1>2, <1>12, <2>1 DEF JoinsInv, JoinIngest
  <2>3. GoesOn(c, joins)
    <3>1. WorkInv(joins) /\ ~IngestsIn(joins)
      BY <1>8 DEF WorkInv, IngestsIn
    <3>2. o \in Workers \ {c} /\ AwaitsIn(joins, work[o])
      BY <1>3, <1>8, <2>1, <2>2 DEF AwaitsIn
    <3> QED
      BY <1>3, <1>8, <1>12, <2>1, <3>1, <3>2 DEF GoesOn, Update
  <2>4. /\ work[c].pc # "remapping" /\ \A b \in Artifacts : remapping[b] # c
        /\ remapping' \in [Artifacts -> Workers \cup {Nobody}]
    BY <1>2, <1>3, <1>12, NotMapped DEF JoinsInv, JoinsTyped
  <2> QED
    BY <1>2, <1>12, <2>3, <2>4, GoesKeeps DEF CacheInv
<1>13. CASE /\ ~JoinIngest(c, a) /\ ingesting' = [ingesting EXCEPT ![a] = c]
            /\ Update(c, first) /\ UNCHANGED remapping
  <2>1. ingesting[a] = Nobody /\ WorkInv(first) /\ IngestsIn(first)
    BY <1>9, <1>13 DEF JoinIngest, WorkInv, IngestsIn
  <2> QED
    BY <1>1, <1>2, <1>9, <1>13, <2>1, StartIngestKeeps DEF CacheInv
<1> QED
  BY <1>1, <1>10, <1>11, <1>12, <1>13

(* Index keeps it: it registers nothing and nobody joins it. *)
LEMMA IndexKeeps ==
  ASSUME CacheInv, NEW c \in Workers, NEW a \in Artifacts, Index(c, a)
  PROVE  CacheInv'
<1> DEFINE r == [IdleWork EXCEPT !.art = a, !.op = "index", !.leg = "rebuild", !.pc = "inspecting"]
<1>1. /\ work[c].pc = "idle" /\ UNCHANGED <<store, ingesting, remapping>> /\ "index" \in Operations
      /\ Update(c, r)
  BY DEF Index
<1>2. JoinsInv /\ StoreInv(store)'
  BY <1>1 DEF CacheInv
<1>3. ~IngestsIn(work[c]) /\ ~work[c].own
  BY <1>1, <1>2 DEF JoinsInv, WorkInv, IngestsIn
<1>4. r = [[IdleWork EXCEPT !.art = a, !.op = "index"] EXCEPT !.leg = "rebuild", !.pc = "inspecting"]
  OBVIOUS
<1> DEFINE asks == [IdleWork EXCEPT !.art = a, !.op = "index"]
<1>5. r.pc = "inspecting" /\ r.art = a /\ r.op = "index" /\ r.leg = "rebuild" /\ ~r.own /\ r \in Works
  <2>1. asks \in Works /\ asks.art = a /\ asks.op = "index" /\ ~asks.own
    BY <1>1, AsksIs
  <2>2. r = [asks EXCEPT !.leg = "rebuild", !.pc = "inspecting"]
    BY <1>4
  <2> HIDE DEF r, asks
  <2> QED
    BY <2>1, <2>2 DEF Works
<1> HIDE DEF r
<1>6. MayGoOn(c, r) /\ WorkInv(r)
  BY <1>3, <1>5 DEF MayGoOn, WorkInv, IngestsIn
<1>7. JoinsInv'
  BY <1>1, <1>2, <1>5, <1>6, MovesKeeps
<1> QED
  BY <1>2, <1>7 DEF CacheInv

(* The index is written, the ingest fails. *)
LEMMA PersistStep ==
  ASSUME CacheInv, NEW c \in Workers, work[c].pc \in {"inspecting", "decompiling"},
         NEW size \in Nat, Persist(c, size)
  PROVE  CacheInv'
<1>1. JoinsInv /\ StoreInv(store) /\ work[c].art \in Artifacts /\ ~work[c].own
  BY BusyIs DEF CacheInv, WorkInv
<1>2. StoreInv(store')
  BY <1>1, PersistKeeps
<1>3. /\ work' = Settled(c, [work EXCEPT ![c] = IdleWork], "joined") /\ ingesting' = Forget(c)
      /\ UNCHANGED remapping
  BY DEF Persist
<1>4. JoinsInv'
  BY <1>1, <1>3, EndKeeps
<1> QED
  BY <1>2, <1>4 DEF CacheInv

(* ... or it fails. *)
LEMMA FailStep ==
  ASSUME JoinsInv, NEW c \in Workers, ~work[c].own, Fail(c), UNCHANGED remapping
  PROVE  JoinsInv'
BY EndKeeps DEF Fail

(* A call that ingests nothing ends. *)
LEMMA IdleKeeps ==
  ASSUME JoinsInv, NEW c \in Workers, work[c].leg # "rebuild", ~work[c].own, Update(c, IdleWork),
         UNCHANGED <<ingesting, remapping>>
  PROVE  JoinsInv'
<1>1. GoesOn(c, IdleWork)
  BY IdleIs DEF GoesOn, Update, IngestsIn
<1>2. /\ work[c].pc # "remapping"
      /\ \A a \in Artifacts : remapping[a] \in Workers \cup {Nobody} /\ remapping[a] # c
  BY NotMapped
<1>3. remapping' \in [Artifacts -> Workers \cup {Nobody}]
  BY DEF JoinsInv, JoinsTyped
<1> QED
  BY <1>1, <1>2, <1>3, GoesKeeps

(* Every step of a call that is at work keeps the invariant. *)
LEMMA AdvanceKeeps ==
  ASSUME CacheInv, NEW c \in Workers, Advance(c)
  PROVE  CacheInv'
<1>1. JoinsInv /\ StoreInv(store)
  BY DEF CacheInv
<1>2. work[c].pc # "idle" => /\ work[c] \in Works /\ WorkInv(work[c]) /\ work[c].art \in Artifacts
                             /\ work[c].leg # "none" /\ (~work[c].own => MayGoOn(c, work[c]))
  BY <1>1, BusyIs
<1>3. CASE Inspect(c)
  <2>1. work[c].pc = "inspecting" /\ ~work[c].own /\ work[c].leg = "rebuild" /\ MayGoOn(c, work[c])
    BY <1>2, <1>3 DEF Inspect, WorkInv
  <2>2. CASE Persist(c, 0)
    BY <2>1, <2>2, PersistStep
  <2>3. CASE EnterRemap(c, work[c]) /\ UNCHANGED <<store, ingesting>>
    <3>1. JoinsInv'
      BY <1>1, <2>1, <2>3, EnterRemapKeeps
    <3>2. StoreInv(store')
      BY <1>1, <2>3
    <3> QED
      BY <3>1, <3>2 DEF CacheInv
  <2>4. CASE /\ Update(c, [work[c] EXCEPT !.pc = "decompiling"])
             /\ UNCHANGED <<store, ingesting, remapping>>
    <3> DEFINE r == [work[c] EXCEPT !.pc = "decompiling"]
    <3>1. /\ r \in Works /\ r.art = work[c].art /\ r.leg = work[c].leg /\ r.op = work[c].op
          /\ r.own = work[c].own /\ r.pc = "decompiling"
      BY <1>2, <2>1 DEF Works
    <3> HIDE DEF r
    <3>2. JoinsInv'
      BY <1>1, <2>1, <2>4, <3>1, StepsKeeps DEF r
    <3>3. StoreInv(store')
      BY <1>1, <2>4
    <3> QED
      BY <3>2, <3>3 DEF CacheInv
  <2>5. CASE Fail(c) /\ UNCHANGED <<store, remapping>>
    BY <1>1, <2>1, <2>5, FailStep DEF CacheInv
  <2> QED
    BY <1>3, <2>2, <2>3, <2>4, <2>5 DEF Inspect
<1>4. CASE Check(c)
  <2> DEFINE r == [work[c] EXCEPT !.pc = IF store.jar[work[c].art] = "good" THEN "sizing" ELSE "removing"]
  <2>1. /\ work[c].pc = "checking" /\ Update(c, r) /\ UNCHANGED <<store, ingesting, remapping>>
    BY <1>4 DEF Check
  <2>2. ~work[c].own
    BY <1>2, <2>1 DEF WorkInv
  <2>3. /\ r \in Works /\ r.art = work[c].art /\ r.leg = work[c].leg /\ r.op = work[c].op
        /\ r.own = work[c].own /\ r.pc \in {"sizing", "removing"}
    BY <1>2, <2>1 DEF Works
  <2> HIDE DEF r
  <2>4. JoinsInv'
    BY <1>1, <2>1, <2>2, <2>3, StepsKeeps
  <2> QED
    BY <1>1, <2>1, <2>4 DEF CacheInv
<1>5. CASE RemoveJar(c)
  <2>1. work[c].pc = "removing"
    BY <1>5 DEF RemoveJar
  <2>2. ~work[c].own /\ work[c].art \in Artifacts /\ work[c] \in Works
    BY <1>2, <2>1 DEF WorkInv
  <2>3. CASE /\ store' = [store EXCEPT !.jar[work[c].art] = "none"]
             /\ Update(c, [work[c] EXCEPT !.pc = "removed"])
             /\ UNCHANGED <<ingesting, remapping>>
    <3> DEFINE r == [work[c] EXCEPT !.pc = "removed"]
    <3>1. /\ r \in Works /\ r.art = work[c].art /\ r.leg = work[c].leg /\ r.op = work[c].op
          /\ r.own = work[c].own /\ r.pc = "removed"
      BY <2>2 DEF Works
    <3> HIDE DEF r
    <3>2. JoinsInv'
      BY <1>1, <2>1, <2>2, <2>3, <3>1, StepsKeeps DEF r
    <3>3. StoreInv(store')
      BY <1>1, <2>2, <2>3, JarKeeps
    <3> QED
      BY <3>2, <3>3 DEF CacheInv
  <2>4. CASE store' = ReleaseJar(store, work[c].art) /\ Fail(c) /\ UNCHANGED remapping
    <3>1. JoinsInv'
      BY <1>1, <2>2, <2>4, FailStep
    <3>2. StoreInv(store')
      BY <1>1, <2>2, <2>4, ReleaseJarKeeps
    <3> QED
      BY <3>1, <3>2 DEF CacheInv
  <2> QED
    BY <1>5, <2>3, <2>4 DEF RemoveJar
<1>6. CASE JarRemoved(c)
  <2>1. /\ work[c].pc = "removed" /\ store' = ReleaseJar(store, work[c].art)
        /\ RemapOrJoin(c, work[c]) /\ UNCHANGED ingesting
    BY <1>6 DEF JarRemoved
  <2>2. ~work[c].own /\ work[c].art \in Artifacts /\ MayGoOn(c, work[c])
    BY <1>2, <2>1 DEF WorkInv
  <2>3. JoinsInv'
    BY <1>1, <2>1, <2>2, RemapOrJoinKeeps
  <2>4. StoreInv(store')
    BY <1>1, <2>1, <2>2, ReleaseJarKeeps
  <2> QED
    BY <2>3, <2>4 DEF CacheInv
<1>7. CASE Locate(c)
  <2>1. work[c].pc = "locating"
    BY <1>7 DEF Locate
  <2>2. ~work[c].own /\ MayGoOn(c, work[c])
    BY <1>2, <2>1 DEF WorkInv
  <2>3. CASE StartRemap(c, work[c]) /\ UNCHANGED <<store, ingesting>>
    <3>1. JoinsInv'
      BY <1>1, <2>2, <2>3, StartRemapKeeps
    <3> QED
      BY <1>1, <2>3, <3>1 DEF CacheInv
  <2>4. CASE Fail(c) /\ UNCHANGED <<store, remapping>>
    BY <1>1, <2>2, <2>4, FailStep DEF CacheInv
  <2> QED
    BY <1>7, <2>3, <2>4 DEF Locate
<1>8. CASE Remap(c)
  <2>1. JoinsInv'
    BY <1>1, <1>8, RemapKeeps
  <2>2. work[c].art \in Artifacts
    BY <1>2, <1>8 DEF Remap
  <2>3. store' = [store EXCEPT !.jar[work[c].art] = "good"] \/ store' = store
    BY <1>8 DEF Remap
  <2>4. StoreInv(store')
    BY <1>1, <2>2, <2>3, JarKeeps
  <2> QED
    BY <2>1, <2>4 DEF CacheInv
<1>9. CASE RemapJoined(c)
  <2>1. /\ work[c].pc = "returned" /\ Update(c, AfterRemap(work[c]))
        /\ UNCHANGED <<store, ingesting, remapping>>
    BY <1>9 DEF RemapJoined
  <2>2. ~work[c].own
    BY <1>2, <2>1 DEF WorkInv
  <2>3. JoinsInv'
    BY <1>1, <2>1, <2>2, AfterRemapKeeps
  <2> QED
    BY <1>1, <2>1, <2>3 DEF CacheInv
<1>10. CASE GiveUp(c)
  <2>1. work[c].pc = "failing" /\ Fail(c) /\ UNCHANGED <<store, remapping>>
    BY <1>10 DEF GiveUp
  <2>2. ~work[c].own
    BY <1>2, <2>1 DEF WorkInv
  <2> QED
    BY <1>1, <2>1, <2>2, FailStep DEF CacheInv
<1>11. CASE Stat(c)
  <2> DEFINE r == [work[c] EXCEPT !.pc = "recording",
                                  !.size = IF store.jar[work[c].art] = "none" THEN 0 ELSE JarSize]
  <2>1. work[c].pc = "sizing" /\ Update(c, r) /\ UNCHANGED <<store, ingesting, remapping>>
    BY <1>11 DEF Stat
  <2>2. /\ r \in Works /\ r.art = work[c].art /\ r.leg = work[c].leg /\ r.op = work[c].op
        /\ r.own = work[c].own /\ r.pc = "recording"
    BY <1>2, <2>1 DEF Works
  <2> HIDE DEF r
  <2>3. JoinsInv'
    BY <1>1, <2>1, <2>2, StepsKeeps
  <2> QED
    BY <1>1, <2>1, <2>3 DEF CacheInv
<1>12. CASE Record(c)
  <2>1. /\ work[c].pc = "recording" /\ Update(c, AfterRemap(work[c])) /\ UNCHANGED ingesting
        /\ store' = IF work[c].size = 0 THEN store ELSE RecordJar(store, work[c].art, work[c].size)
        /\ remapping' = IF work[c].own THEN [remapping EXCEPT ![work[c].art] = Nobody] ELSE remapping
    BY <1>12 DEF Record
  <2>2. work[c].art \in Artifacts /\ work[c].size \in Nat
    BY <1>2, <2>1, ArtifactAssumption DEF Works
  <2>3. JoinsInv'
    BY <1>1, <2>1, AfterRemapKeeps
  <2>4. StoreInv(store')
    BY <1>1, <2>1, <2>2, RecordJarKeeps
  <2> QED
    BY <2>3, <2>4 DEF CacheInv
<1>13. CASE Decompile(c)
  <2>1. work[c].pc = "decompiling"
    BY <1>13 DEF Decompile
  <2>2. ~work[c].own
    BY <1>2, <2>1 DEF WorkInv
  <2>3. CASE \E size \in ContentSizes : Persist(c, size)
    <3>1. PICK size \in Nat : Persist(c, size)
      BY <2>3, ArtifactAssumption
    <3> QED
      BY <2>1, <3>1, PersistStep
  <2>4. CASE Fail(c) /\ UNCHANGED <<store, remapping>>
    BY <1>1, <2>2, <2>4, FailStep DEF CacheInv
  <2> QED
    BY <1>13, <2>3, <2>4 DEF Decompile
<1>14. CASE FinishWarm(c)
  <2>1. /\ work[c].pc = "finishing" /\ store' = Touch(store, work[c].art) /\ Update(c, IdleWork)
        /\ UNCHANGED <<ingesting, remapping>>
    BY <1>14 DEF FinishWarm
  <2>2. work[c].leg = "warm" /\ ~work[c].own /\ work[c].art \in Artifacts
    BY <1>2, <2>1 DEF WorkInv
  <2>3. JoinsInv'
    BY <1>1, <2>1, <2>2, IdleKeeps
  <2>4. StoreInv(store')
    BY <1>1, <2>1, <2>2, TouchKeeps
  <2> QED
    BY <2>3, <2>4 DEF CacheInv
<1>15. CASE ReconcileJoined(c)
  <2>1. work[c].pc = "joined" /\ UNCHANGED <<store, ingesting>>
    BY <1>15 DEF ReconcileJoined
  <2>2. work[c].leg = "joined" /\ ~work[c].own /\ MayGoOn(c, work[c])
    BY <1>2, <2>1 DEF WorkInv
  <2>3. EnterRemap(c, work[c]) \/ (Update(c, IdleWork) /\ UNCHANGED remapping)
    BY <1>15 DEF ReconcileJoined
  <2>4. JoinsInv'
    BY <1>1, <2>1, <2>2, <2>3, EnterRemapKeeps, IdleKeeps
  <2> QED
    BY <1>1, <2>1, <2>4 DEF CacheInv
<1> QED
  BY <1>3, <1>4, <1>5, <1>6, <1>7, <1>8, <1>9, <1>10, <1>11, <1>12, <1>13, <1>14, <1>15 DEF Advance

(* Rows and jars that disappear from outside leave the accounting as exact as it was: it
   is of what the lists hold, and not of what is on disk. *)
LEMMA TamperKeeps ==
  ASSUME CacheInv, Tamper
  PROVE  CacheInv'
<1>1. UNCHANGED <<ingesting, remapping, work>>
  BY DEF Tamper
<1>2. JoinsInv /\ StoreInv(store)
  BY DEF CacheInv
<1>3. JoinsInv'
  BY <1>1, <1>2 DEF JoinsInv, JoinsTyped
<1>4. PICK a \in Artifacts :
         \/ store' = [store EXCEPT !.table = Keep(@, Artifacts \ {a}), !.current = @ \ {a}, !.bytes[a] = 0]
         \/ \E jar \in {"none", "corrupt"} : store' = [store EXCEPT !.jar[a] = jar]
  BY DEF Tamper
<1>5. StoreInv(store')
  <2>1. CASE store' = [store EXCEPT !.table = Keep(@, Artifacts \ {a}), !.current = @ \ {a}, !.bytes[a] = 0]
    BY <1>2, <2>1, PruneKeeps
  <2>2. CASE \E jar \in {"none", "corrupt"} : store' = [store EXCEPT !.jar[a] = jar]
    <3>1. PICK jar \in {"none", "good", "corrupt"} : store' = [store EXCEPT !.jar[a] = jar]
      BY <2>2
    <3> QED
      BY <1>2, <3>1, JarKeeps
  <2> QED
    BY <1>4, <2>1, <2>2
<1> QED
  BY <1>3, <1>5 DEF CacheInv

(* Nobody works, and the maps are empty. *)
LEMMA NobodyWorks ==
  ASSUME work = [c \in Workers |-> IdleWork], ingesting = [a \in Artifacts |-> Nobody],
         remapping = [a \in Artifacts |-> Nobody]
  PROVE  JoinsInv
<1>1. JoinsTyped
  BY IdleIs DEF JoinsTyped
<1>2. \A c \in Workers : work[c] = IdleWork
  OBVIOUS
<1>3. \A a \in Artifacts : ingesting[a] = Nobody /\ remapping[a] = Nobody
  OBVIOUS
<1> QED
  BY <1>1, <1>2, <1>3, IdleIs DEF JoinsInv

(* A new process takes its lists from the table. *)
LEMMA RestartKeeps ==
  ASSUME CacheInv, Restart
  PROVE  CacheInv'
<1>1. store \in StoreSet /\ Follows(store.table, store.lru) /\ store' = Refresh(store)
  BY DEF CacheInv, StoreInv, Restart
<1>2. store.table \in Seq(Artifacts) /\ store.lru \in Seq(Artifacts)
  BY <1>1 DEF StoreSet
<1>3. StoreInv(store')
  BY <1>1, <1>2, SelfFollows, RefreshKeeps
<1>4. JoinsInv'
  BY IdleIs DEF Restart, JoinsInv, JoinsTyped
<1> QED
  BY <1>3, <1>4 DEF CacheInv

(* The constructor of the SourceService establishes the invariant. *)
LEMMA CacheInitInv ==
  ASSUME CacheInit
  PROVE  CacheInv
<1>1. JoinsInv
  BY NobodyWorks DEF CacheInit
<1>2. PICK jar \in [Remapped -> {"none", "good", "corrupt"}] :
         store = Refresh([table |-> <<>>, current |-> {}, bytes |-> NoBytes,
                          jar |-> [a \in Artifacts |-> IF a \in Remapped THEN jar[a] ELSE "none"],
                          lru |-> <<>>, lruBytes |-> NoBytes, jarBytes |-> NoBytes, total |-> 0])
  BY DEF CacheInit
<1> DEFINE jars == [a \in Artifacts |-> IF a \in Remapped THEN jar[a] ELSE "none"]
           k == [table |-> <<>>, current |-> {}, bytes |-> NoBytes, jar |-> jars,
                 lru |-> <<>>, lruBytes |-> NoBytes, jarBytes |-> NoBytes, total |-> 0]
<1>3. jars \in [Artifacts -> {"none", "good", "corrupt"}]
  OBVIOUS
<1>4. NoBytes \in [Artifacts -> Nat]
  BY DEF NoBytes
<1> HIDE DEF jars
<1>5. k \in StoreSet /\ k.table = <<>>
  BY <1>3, <1>4 DEF StoreSet
<1>6. store = Refresh(k)
  BY <1>2 DEF jars
<1> HIDE DEF k
<1>7. Follows(<<>>, <<>>)
  BY KeepNothing DEF Follows, NoRepeats
<1> QED
  BY <1>1, <1>5, <1>6, <1>7, RefreshKeeps DEF CacheInv

(* Every step keeps it. *)
LEMMA CacheStep ==
  ASSUME CacheInv, [CacheNext]_cacheVars
  PROVE  CacheInv'
<1>1. CASE \E c \in Workers : Advance(c)
  BY <1>1, AdvanceKeeps
<1>2. CASE \E c \in Workers, a \in Artifacts : (Resolve(c, a) \/ Index(c, a)) /\ UNCHANGED tampers
  BY <1>2, ResolveKeeps, IndexKeeps
<1>3. CASE Tamper
  BY <1>3, TamperKeeps
<1>4. CASE Restart
  BY <1>4, RestartKeeps
<1>5. CASE UNCHANGED cacheVars
  <2>1. UNCHANGED <<store, ingesting, remapping, work>>
    BY <1>5 DEF cacheVars
  <2> QED
    BY <2>1 DEF CacheInv, JoinsInv, JoinsTyped
<1> QED
  BY <1>1, <1>2, <1>3, <1>4, <1>5 DEF CacheNext

(* The invariant is as strong as what the cache promises. *)
LEMMA CacheInvImplies ==
  ASSUME CacheInv
  PROVE  TotalExact /\ RowsEvictable /\ JoinsRight
<1>1. StoreInv(store) /\ JoinsInv
  BY DEF CacheInv
<1>2. TotalExact
  <2>1. store.lruBytes \in [Artifacts -> Nat] /\ store.jarBytes \in [Artifacts -> Nat]
    BY <1>1 DEF StoreInv, StoreSet
  <2> QED
    BY <1>1, <2>1, SumsNat DEF StoreInv, Exact, TotalExact
<1>3. RowsEvictable
  BY <1>1 DEF StoreInv, Follows, RowsEvictable
<1>4. JoinsRight
  <2>1. /\ ingesting \in [Artifacts -> Workers \cup {Nobody}]
        /\ remapping \in [Artifacts -> Workers \cup {Nobody}]
    BY <1>1 DEF JoinsInv, JoinsTyped
  <2>2. \A c : Ingests(c) <=> IngestsIn(work[c])
    BY DEF Ingests, IngestsIn
  <2>3. ASSUME NEW c \in Workers
        PROVE  /\ work[c].pc = "awaitIngest" =>
                     Ingests(work[c].on) /\ work[work[c].on].art = work[c].art
               /\ work[c].pc = "awaitRemap" =>
                     work[work[c].on].pc = "remapping" /\ work[work[c].on].art = work[c].art
    BY <1>1, <2>2 DEF JoinsInv, AwaitsIn
  <2>4. ASSUME NEW a \in Artifacts
        PROVE  /\ ingesting[a] # Nobody => Ingests(ingesting[a]) /\ work[ingesting[a]].art = a
               /\ remapping[a] # Nobody => work[remapping[a]].own /\ work[remapping[a]].art = a
    BY <1>1, <2>2 DEF JoinsInv
  <2>5. OneIngest
    BY <1>1, <2>2 DEF JoinsInv, OneIngest
  <2> QED
    BY <2>3, <2>4, <2>5 DEF JoinsRight, AwaitsSomebody
<1> QED
  BY <1>2, <1>3, <1>4

(* What a call writes when its ingest comes to an end. *)
Evicted(c) ==
    Ingests(c) /\ (Inspect(c) \/ Decompile(c)) /\ store' # store =>
       /\ Contains(store'.table, work[c].art)
       /\ \/ Len(store'.lru) = 1
          \/ Len(store'.lru) <= MaxArtifacts /\ store'.total <= MaxCacheBytes

(* Whoever's ingest ends, the limits hold then and what it ingested is still there. *)
LEMMA EvictsRight ==
  ASSUME CacheInv, NEW c \in Workers
  PROVE  Evicted(c)
<1> SUFFICES ASSUME Ingests(c), Inspect(c) \/ Decompile(c), store' # store
             PROVE  /\ Contains(store'.table, work[c].art)
                    /\ \/ Len(store'.lru) = 1
                       \/ Len(store'.lru) <= MaxArtifacts /\ store'.total <= MaxCacheBytes
  BY DEF Evicted
<1>1. PICK size \in Nat : Persist(c, size)
  <2>1. CASE Inspect(c)
    BY <2>1 DEF Inspect
  <2>2. CASE Decompile(c)
    BY <2>2, ArtifactAssumption DEF Decompile
  <2> QED
    BY <2>1, <2>2
<1>2. work[c].pc # "idle"
  BY DEF Inspect, Decompile
<1>3. StoreInv(store) /\ work[c].art \in Artifacts
  BY <1>2, BusyIs DEF CacheInv
<1> QED
  BY <1>1, <1>3, PersistKeeps

(* The same, as the step that EvictionRight speaks of *)
LEMMA EvictionStep ==
  ASSUME CacheInv
  PROVE  [\A c \in Workers :
            Ingests(c) /\ (Inspect(c) \/ Decompile(c)) /\ store' # store =>
               /\ Contains(store'.table, work[c].art)
               /\ \/ Len(store'.lru) = 1
                  \/ Len(store'.lru) <= MaxArtifacts /\ store'.total <= MaxCacheBytes]_cacheVars
BY EvictsRight DEF Evicted

(* The store is in order and exact, and the joins are among calls at work on the same
   artifact, whatever the artifacts, sizes, limits and numbers of calls (indexer.ts,
   cache-metrics.ts, state.ts). *)
THEOREM CacheInvariant == CacheSpec => []CacheInv
<1>1. CacheInit => CacheInv
  BY CacheInitInv
<1>2. CacheInv /\ [CacheNext]_cacheVars => CacheInv'
  BY CacheStep
<1> QED
  BY <1>1, <1>2, PTL DEF CacheSpec

(* cacheTotalContentBytes is exact, every row can be evicted in the order of its last use,
   and who joins an ingest or a remap joins one that is under way (cache-metrics.ts,
   ingestIfNeeded, maybeRemapBinaryForMojang). *)
THEOREM CacheRight == CacheSpec => [](TotalExact /\ RowsEvictable /\ JoinsRight)
<1>1. CacheInv => TotalExact /\ RowsEvictable /\ JoinsRight
  BY CacheInvImplies
<1> QED
  BY <1>1, CacheInvariant, PTL

(* An ingest leaves the cache within its limits or with one artifact, and never evicts what
   it has just ingested (enforceCacheLimits). *)
THEOREM CacheEviction == CacheSpec => EvictionRight
<1>1. CacheInv => [\A c \in Workers :
            Ingests(c) /\ (Inspect(c) \/ Decompile(c)) /\ store' # store =>
               /\ Contains(store'.table, work[c].art)
               /\ \/ Len(store'.lru) = 1
                  \/ Len(store'.lru) <= MaxArtifacts /\ store'.total <= MaxCacheBytes]_cacheVars
  BY EvictionStep
<1> QED
  BY <1>1, CacheInvariant, PTL DEF EvictionRight

(* A list without repetitions is no longer than there are artifacts. *)
LEMMA InOrders ==
  ASSUME NEW s \in Seq(Artifacts), NoRepeats(s)
  PROVE  s \in Orders
<1>1. PICK n \in Nat : n = Len(s) /\ s \in [1 .. n -> Artifacts]
  OBVIOUS
<1>2. IsFiniteSet(Artifacts) /\ Cardinality(Artifacts) \in Nat
  BY ArtifactAssumption, FS_CardinalityType
<1>3. s \in Injection(1 .. n, Artifacts)
  BY <1>1 DEF NoRepeats, Injection, IsInjective
<1>4. Cardinality(1 .. n) <= Cardinality(Artifacts)
  BY <1>2, <1>3, FS_Injection
<1>5. Cardinality(1 .. n) = IF 1 > n THEN 0 ELSE n - 1 + 1
  BY FS_Interval
<1>6. n \in 0 .. Cardinality(Artifacts)
  BY <1>1, <1>2, <1>4, <1>5
<1> QED
  BY <1>1, <1>6 DEF Orders, SeqOf

(* The lists have no artifact twice, so they are no longer than there are artifacts, and
   every variable has its type. *)
THEOREM CacheTyped == CacheSpec => []ArtifactTypeOK
<1> DEFINE Inv == CacheInv /\ tampers \in 0 .. MaxTampers
<1>1. CacheInit => Inv
  <2>1. CacheInit => tampers = 0
    BY DEF CacheInit
  <2>2. 0 \in 0 .. MaxTampers
    BY ArtifactAssumption
  <2> QED
    BY <2>1, <2>2, CacheInitInv
<1>2. Inv /\ [CacheNext]_cacheVars => Inv'
  <2> SUFFICES ASSUME Inv, [CacheNext]_cacheVars PROVE tampers' \in 0 .. MaxTampers
    BY CacheStep
  <2>1. tampers' = tampers \/ (tampers < MaxTampers /\ tampers' = tampers + 1)
    BY DEF CacheNext, Advance, Tamper, Restart, cacheVars
  <2>2. tampers \in 0 .. MaxTampers /\ MaxTampers \in Nat
    BY ArtifactAssumption
  <2> QED
    BY <2>1, <2>2
<1>3. Inv => ArtifactTypeOK
  <2> SUFFICES ASSUME Inv PROVE ArtifactTypeOK
    OBVIOUS
  <2>1. store \in StoreSet /\ Follows(store.table, store.lru)
    BY DEF CacheInv, StoreInv
  <2>2. store.table \in Seq(Artifacts) /\ store.lru \in Seq(Artifacts)
    BY <2>1 DEF StoreSet
  <2>3. NoRepeats(store.lru) /\ NoRepeats(store.table)
    BY <2>1, <2>2, KeepDistinct DEF Follows
  <2>4. store.table \in Orders /\ store.lru \in Orders
    BY <2>2, <2>3, InOrders
  <2>5. store \in Stores
    BY <2>1, <2>4 DEF StoreSet, Stores
  <2> QED
    BY <2>5 DEF ArtifactTypeOK, CacheInv, JoinsInv, JoinsTyped
<1> QED
  BY <1>1, <1>2, <1>3, PTL DEF CacheSpec

-----------------------------------------------------------------------------
(* A bundled jar that is kept as a file: it could be read. *)
WholeJar == [holds : BOOLEAN, state : WholeFiles]

(* A call that looks for a class *)
LookupStates ==
    [at : {"access", "read", "write", "rename", "access again", "list", "answered"},
     task : {"find", "unique"}, entry : Nat, matches : SUBSET Nat, passed : SUBSET Nat,
     bytes : {Absent} \cup Bundled]

NestedTyped ==
    /\ shell \in Seq(Bundled) /\ extracted \in [1 .. Len(shell) -> {Absent} \cup WholeJar]
    /\ leftovers \subseteq NestedCalls \X Nat /\ classSets \in Seq(Nat \X BOOLEAN)
    /\ mishaps \in Seq(Mishaps) /\ nestedCall \in [NestedCalls -> {NotCalled} \cup LookupStates]

(* The jar a call is at is one of the shell, and what it has read of it is whole. *)
LookupTyped(w) ==
    /\ w \in LookupStates /\ w.entry \in 1 .. Len(shell)
    /\ w.at \in {"write", "rename"} => w.bytes \in WholeJar

(* A file beside the final one is of a call that will rename or remove it. *)
LeftoverExplained(l) ==
    \/ Seeking(l[1], "rename") /\ BundledAt(l[1]) = l[2]
    \/ Seeking(l[1], "access again") /\ BundledAt(l[1]) = l[2]
    \/ Occurred("killed") \/ Occurred("not written")

(* The jars that a lookup may find the class in, and those it has looked at *)
HasClass(i) == shell[i].holds /\ shell[i].state = "fine"
LookedAt(w, i) == i \in 1 .. Len(shell) /\ (i < w.entry \/ (w.at = "answered" /\ i = w.entry))

(* What a lookup has found so far, in a shell that was not rewritten, *)
LookupFound(w) ==
    /\ \A i \in w.matches : LookedAt(w, i) /\ HasClass(i)
    /\ \A i \in w.passed : LookedAt(w, i) /\ i \notin w.matches
    /\ \A i \in 1 .. Len(shell) : LookedAt(w, i) /\ HasClass(i) => i \in w.matches \cup w.passed
    /\ w.task = "find" => w.matches = {} \/ (w.at = "answered" /\ w.matches = {w.entry})
    /\ w.at = "answered" /\ (w.task = "unique" \/ w.matches = {}) => w.entry = Len(shell)
    /\ w.at \in {"write", "rename"} => w.bytes = shell[w.entry]

(* and what it did not look at if nothing went wrong *)
LookupClean(w) ==
    mishaps = <<>> =>
       /\ \A i \in w.passed : shell[i].state # "fine"
       /\ w.at # "access again" /\ (w.at = "list" => extracted[w.entry] # Absent)

(* What the files and the lists say of the bundled jars is so. *)
FilesTrue == \A i \in 1 .. Len(shell) : extracted[i] # Absent => extracted[i] = shell[i]
SetTrue(s) == s[1] \in 1 .. Len(shell) /\ shell[s[1]].state = "fine" /\ s[2] = shell[s[1]].holds
SetsTrue == \A n \in 1 .. Len(classSets) : SetTrue(classSets[n])

NestedInv ==
    /\ NestedTyped
    /\ \A c \in NestedCalls : nestedCall[c] # NotCalled => LookupTyped(nestedCall[c])
    /\ \A l \in leftovers : LeftoverExplained(l)
    /\ ~Occurred("rewritten") =>
         /\ FilesTrue /\ SetsTrue
         /\ \A c \in NestedCalls :
              nestedCall[c] # NotCalled => LookupFound(nestedCall[c]) /\ LookupClean(nestedCall[c])

-----------------------------------------------------------------------------
(* What went wrong stays so, and one more thing may. *)
GoesWrong(what) == mishaps' = mishaps \/ (what \in Mishaps /\ mishaps' = Append(mishaps, what))

(* A mishap that occurred has occurred. *)
LEMMA MishapsGrow ==
  ASSUME NestedTyped, NEW what, GoesWrong(what)
  PROVE  /\ mishaps' \in Seq(Mishaps) /\ (mishaps' = <<>> => mishaps = <<>>)
         /\ \A other : Occurred(other) => Occurred(other)'
         /\ mishaps' = Append(mishaps, what) => mishaps' # <<>> /\ Occurred(what)'
         /\ \A other : other # what => (Occurred(other)' <=> Occurred(other))
<1>1. mishaps \in Seq(Mishaps)
  BY DEF NestedTyped
<1>2. CASE mishaps' = mishaps /\ mishaps' # Append(mishaps, what)
  BY <1>1, <1>2 DEF Occurred
<1>3. CASE what \in Mishaps /\ mishaps' = Append(mishaps, what)
  <2> DEFINE n == Len(mishaps)
  <2>1. /\ n \in Nat /\ DOMAIN mishaps = 1 .. n /\ DOMAIN mishaps' = 1 .. n + 1
        /\ mishaps'[n + 1] = what /\ \A i \in 1 .. n : mishaps'[i] = mishaps[i]
        /\ mishaps' \in Seq(Mishaps) /\ mishaps' # <<>>
    BY <1>1, <1>3
  <2> HIDE DEF n
  <2>2. 1 .. n + 1 = (1 .. n) \cup {n + 1}
    BY <2>1
  <2>3. \A other : Occurred(other)' <=> (Occurred(other) \/ other = what)
    <3> TAKE other
    <3>1. Occurred(other)' <=> \E i \in 1 .. n + 1 : mishaps'[i] = other
      BY <2>1 DEF Occurred, Range
    <3>2. Occurred(other) <=> \E i \in 1 .. n : mishaps[i] = other
      BY <2>1 DEF Occurred, Range
    <3> QED
      BY <2>1, <2>2, <3>1, <3>2
  <2> QED
    BY <1>3, <2>1, <2>3
<1>4. mishaps' # Append(mishaps, what) \/ what \in Mishaps
  BY <1>1 DEF GoesWrong
<1> QED
  BY <1>2, <1>3, <1>4 DEF GoesWrong

(* What a call has found depends on the shell only. *)
LEMMA FoundKept ==
  ASSUME NEW w, LookupFound(w), UNCHANGED shell PROVE LookupFound(w)'
<1>1. \A i : (LookedAt(w, i)' <=> LookedAt(w, i)) /\ (HasClass(i)' <=> HasClass(i))
  BY DEF LookedAt, HasClass
<1> QED
  BY <1>1 DEF LookupFound

(* A call goes on. What its files and its record become keeps the invariant when the
   others lose nothing by it. *)
LEMMA LookupGoes ==
  ASSUME NestedInv, NEW c \in NestedCalls, NEW w, LookupTyped(w), NEW what, GoesWrong(what),
         what # "rewritten",
         nestedCall' = [nestedCall EXCEPT ![c] = w], UNCHANGED shell,
         extracted' \in [1 .. Len(shell) -> {Absent} \cup WholeJar],
         \A i \in 1 .. Len(shell) : extracted[i] # Absent => extracted'[i] # Absent,
         \A l \in leftovers' : l \in leftovers \/ (l \in NestedCalls \X Nat /\ l[1] = c),
         \A l \in leftovers' : l[1] = c =>
            \/ Occurred("killed")' \/ Occurred("not written")'
            \/ w.at \in {"rename", "access again"} /\ l[2] = w.entry,
         classSets' \in Seq(Nat \X BOOLEAN),
         ~Occurred("rewritten") => FilesTrue' /\ SetsTrue' /\ LookupFound(w)' /\ LookupClean(w)'
  PROVE  NestedInv'
<1>1. /\ NestedTyped /\ shell' = shell /\ nestedCall \in [NestedCalls -> {NotCalled} \cup LookupStates]
      /\ leftovers \subseteq NestedCalls \X Nat
  BY DEF NestedInv, NestedTyped
<1>2. /\ mishaps' \in Seq(Mishaps) /\ (mishaps' = <<>> => mishaps = <<>>)
      /\ \A other : Occurred(other) => Occurred(other)'
      /\ Occurred("rewritten")' <=> Occurred("rewritten")
  BY <1>1, MishapsGrow
<1>3. w \in LookupStates /\ w.entry \in Nat
  BY DEF LookupTyped, LookupStates
<1>4. \A d \in NestedCalls : nestedCall'[d] = IF d = c THEN w ELSE nestedCall[d]
  BY <1>1
<1>5. \A l \in leftovers' : l \in NestedCalls \X Nat /\ (l[1] # c => l \in leftovers)
  BY <1>1
<1>6. NestedTyped'
  <2>1. nestedCall' \in [NestedCalls -> {NotCalled} \cup LookupStates]
    BY <1>1, <1>3
  <2>2. leftovers' \subseteq NestedCalls \X Nat
    BY <1>5
  <2>3. classSets' \in Seq(Nat \X BOOLEAN) /\ extracted' \in [1 .. Len(shell) -> {Absent} \cup WholeJar]
    OBVIOUS
  <2> QED
    BY <1>1, <1>2, <2>1, <2>2, <2>3 DEF NestedTyped
<1>7. ASSUME NEW d \in NestedCalls PROVE (nestedCall[d] # NotCalled => LookupTyped(nestedCall[d]))'
  <2>1. CASE d = c
    <3>1. nestedCall'[d] = w
      BY <1>4, <2>1
    <3>2. LookupTyped(w)
      OBVIOUS
    <3> QED
      BY <1>1, <3>1, <3>2 DEF LookupTyped
  <2>2. CASE d # c
    <3>1. nestedCall'[d] = nestedCall[d]
      BY <1>4, <2>2
    <3>2. nestedCall[d] # NotCalled => LookupTyped(nestedCall[d])
      BY DEF NestedInv
    <3> QED
      BY <1>1, <3>1, <3>2 DEF LookupTyped
  <2> QED
    BY <2>1, <2>2
<1>8. ASSUME NEW l \in leftovers' PROVE LeftoverExplained(l)'
  <2>1. l[1] \in NestedCalls
    BY <1>5
  <2>2. CASE l[1] = c
    <3>1. \/ Occurred("killed")' \/ Occurred("not written")'
          \/ w.at \in {"rename", "access again"} /\ l[2] = w.entry
      BY <2>2
    <3>2. nestedCall'[l[1]] = w
      BY <1>4, <2>2
    <3> QED
      BY <3>1, <3>2 DEF LeftoverExplained, Seeking, BundledAt
  <2>3. CASE l[1] # c
    <3>1. l \in leftovers
      BY <1>5, <2>3
    <3>2. LeftoverExplained(l)
      BY <3>1 DEF NestedInv
    <3>3. nestedCall'[l[1]] = nestedCall[l[1]]
      BY <1>4, <2>1, <2>3
    <3> QED
      BY <1>2, <3>2, <3>3 DEF LeftoverExplained, Seeking, BundledAt
  <2> QED
    BY <2>2, <2>3
<1>9. ASSUME ~Occurred("rewritten"), NEW d \in NestedCalls
      PROVE  (nestedCall[d] # NotCalled => LookupFound(nestedCall[d]) /\ LookupClean(nestedCall[d]))'
  <2>1. CASE d = c
    <3>1. nestedCall'[d] = w
      BY <1>4, <2>1
    <3>2. LookupFound(w)' /\ LookupClean(w)'
      BY <1>9
    <3>3. LookupFound(nestedCall[d])'
      BY <3>1, <3>2 DEF LookupFound, LookedAt, HasClass
    <3>4. LookupClean(nestedCall[d])'
      BY <3>1, <3>2 DEF LookupClean
    <3> QED
      BY <3>3, <3>4
  <2>2. CASE d # c
    <3>1. nestedCall'[d] = nestedCall[d]
      BY <1>4, <2>2
    <3>2. SUFFICES ASSUME nestedCall[d] # NotCalled
                   PROVE  LookupFound(nestedCall[d])' /\ LookupClean(nestedCall[d])'
      BY <3>1
    <3>3. /\ LookupFound(nestedCall[d]) /\ LookupClean(nestedCall[d])
          /\ nestedCall[d].entry \in 1 .. Len(shell)
      BY <1>9, <3>2 DEF NestedInv, LookupTyped
    <3>4. LookupFound(nestedCall[d])'
      <4>1. PICK v : v = nestedCall[d]
        OBVIOUS
      <4>2. LookupFound(v)'
        BY <1>1, <3>3, <4>1, FoundKept
      <4>3. v = nestedCall'[d]
        BY <3>1, <4>1
      <4> QED
        BY <4>2, <4>3 DEF LookupFound, LookedAt, HasClass
    <3>5. \A i \in 1 .. Len(shell) : extracted[i] # Absent => extracted'[i] # Absent
      OBVIOUS
    <3>6. LookupClean(nestedCall[d])'
      BY <1>1, <1>2, <3>1, <3>3, <3>5 DEF LookupClean
    <3> QED
      BY <3>4, <3>6
  <2> QED
    BY <2>1, <2>2
<1>10. ~Occurred("rewritten")' => FilesTrue' /\ SetsTrue'
  BY <1>2
<1>11. \A d \in NestedCalls : (nestedCall[d] # NotCalled => LookupTyped(nestedCall[d]))'
  BY <1>7
<1>12. ~Occurred("rewritten")' =>
         \A d \in NestedCalls :
            (nestedCall[d] # NotCalled => LookupFound(nestedCall[d]) /\ LookupClean(nestedCall[d]))'
  BY <1>2, <1>9
<1> QED
  BY <1>6, <1>8, <1>10, <1>11, <1>12 DEF NestedInv

(* What a call is that has begun *)
LEMMA LookupIs ==
  ASSUME NestedInv, NEW c \in NestedCalls, nestedCall[c].at # "idle"
  PROVE  /\ nestedCall[c] # NotCalled /\ LookupTyped(nestedCall[c]) /\ nestedCall[c] \in LookupStates
         /\ BundledAt(c) = nestedCall[c].entry /\ BundledAt(c) \in 1 .. Len(shell)
         /\ shell[BundledAt(c)] \in Bundled /\ extracted[BundledAt(c)] \in {Absent} \cup WholeJar
         /\ ~Occurred("rewritten") =>
               LookupFound(nestedCall[c]) /\ LookupClean(nestedCall[c]) /\ FilesTrue /\ SetsTrue
<1>1. nestedCall[c] # NotCalled
  BY DEF NotCalled
<1>2. LookupTyped(nestedCall[c])
  BY <1>1 DEF NestedInv
<1>3. shell \in Seq(Bundled) /\ extracted \in [1 .. Len(shell) -> {Absent} \cup WholeJar]
  BY DEF NestedInv, NestedTyped
<1>4. BundledAt(c) = nestedCall[c].entry /\ BundledAt(c) \in 1 .. Len(shell)
  BY <1>2 DEF LookupTyped, BundledAt
<1>5. shell[BundledAt(c)] \in Bundled /\ extracted[BundledAt(c)] \in {Absent} \cup WholeJar
  BY <1>3, <1>4
<1> QED
  BY <1>1, <1>2, <1>4, <1>5 DEF NestedInv, LookupTyped

(* A call that has no file of its own goes on, and touches no file. *)
LEMMA LookupGoesOn ==
  ASSUME NestedInv, NEW c \in NestedCalls, NEW w, LookupTyped(w), NEW what, GoesWrong(what),
         what # "rewritten",
         nestedCall' = [nestedCall EXCEPT ![c] = w], UNCHANGED <<shell, extracted, leftovers>>,
         \/ nestedCall[c].at \notin {"rename", "access again"}
         \/ nestedCall[c].at = "rename" /\ w.at = "access again" /\ w.entry = nestedCall[c].entry,
         classSets' \in Seq(Nat \X BOOLEAN),
         ~Occurred("rewritten") => SetsTrue' /\ LookupFound(w) /\ LookupClean(w)'
  PROVE  NestedInv'
<1>1. /\ extracted' \in [1 .. Len(shell) -> {Absent} \cup WholeJar]
      /\ \A i \in 1 .. Len(shell) : extracted[i] # Absent => extracted'[i] # Absent
  BY DEF NestedInv, NestedTyped
<1>2. \A other : Occurred(other) => Occurred(other)'
  BY MishapsGrow DEF NestedInv
<1>3. ASSUME NEW l \in leftovers, l[1] = c
      PROVE  \/ Occurred("killed")' \/ Occurred("not written")'
             \/ w.at \in {"rename", "access again"} /\ l[2] = w.entry
  <2>1. LeftoverExplained(l)
    BY DEF NestedInv
  <2> QED
    BY <1>2, <1>3, <2>1 DEF LeftoverExplained, Seeking, BundledAt
<1>4. ~Occurred("rewritten") => FilesTrue' /\ LookupFound(w)'
  BY DEF NestedInv, FilesTrue, LookupFound, LookedAt, HasClass
<1> QED
  BY <1>1, <1>3, <1>4, LookupGoes

(* What a call becomes when it is done with a bundled jar *)
MovedOn(r, m, p) ==
    LET done == r.entry = Len(shell) \/ (r.task = "find" /\ m # {}) IN
    [r EXCEPT !.matches = m, !.passed = p, !.at = IF done THEN "answered" ELSE "access",
              !.entry = r.entry + (IF done THEN 0 ELSE 1)]

(* A lookup moves on to the next entry of the shell. *)
LEMMA MovesTo ==
  ASSUME NEW c, NEW m, NEW p, Moves(c, m, p)
  PROVE  nestedCall' = [nestedCall EXCEPT ![c] = MovedOn(nestedCall[c], m, p)]
BY DEF Moves, MovedOn, BundledAt, Stops

(* Where a lookup is that has moved on. *)
LEMMA MovedOnIs ==
  ASSUME NestedTyped, NEW r, LookupTyped(r), NEW m \in SUBSET Nat, NEW p \in SUBSET Nat
  PROVE  /\ LookupTyped(MovedOn(r, m, p))
         /\ MovedOn(r, m, p).matches = m /\ MovedOn(r, m, p).passed = p /\ MovedOn(r, m, p).task = r.task
         /\ \/ /\ r.entry = Len(shell) \/ (r.task = "find" /\ m # {})
               /\ MovedOn(r, m, p).at = "answered" /\ MovedOn(r, m, p).entry = r.entry
            \/ /\ r.entry # Len(shell) /\ (r.task = "find" => m = {})
               /\ MovedOn(r, m, p).at = "access" /\ MovedOn(r, m, p).entry = r.entry + 1
<1>1. r \in LookupStates /\ r.entry \in 1 .. Len(shell) /\ Len(shell) \in Nat
  BY DEF LookupTyped, NestedTyped
<1>2. CASE r.entry = Len(shell) \/ (r.task = "find" /\ m # {})
  <2> DEFINE w == [r EXCEPT !.matches = m, !.passed = p, !.at = "answered"]
  <2>1. MovedOn(r, m, p) = w
    <3>1. r.entry + 0 = r.entry
      BY <1>1
    <3>2. MovedOn(r, m, p) = [r EXCEPT !.matches = m, !.passed = p, !.at = "answered", !.entry = r.entry]
      BY <1>2, <3>1 DEF MovedOn
    <3> QED
      BY <1>1, <3>2 DEF LookupStates
  <2>2. /\ w \in LookupStates /\ w.matches = m /\ w.passed = p /\ w.at = "answered"
        /\ w.entry = r.entry /\ w.task = r.task
    BY <1>1 DEF LookupStates
  <2> HIDE DEF w
  <2> QED
    BY <1>1, <1>2, <2>1, <2>2 DEF LookupTyped
<1>3. CASE ~(r.entry = Len(shell) \/ (r.task = "find" /\ m # {}))
  <2> DEFINE w == [r EXCEPT !.matches = m, !.passed = p, !.at = "access", !.entry = r.entry + 1]
  <2>1. MovedOn(r, m, p) = w
    BY <1>1, <1>3 DEF MovedOn, LookupStates
  <2>2. /\ w \in LookupStates /\ w.matches = m /\ w.passed = p /\ w.at = "access"
        /\ w.entry = r.entry + 1 /\ w.task = r.task
    <3>1. r.entry + 1 \in Nat
      BY <1>1
    <3> QED
      BY <1>1, <3>1 DEF LookupStates
  <2> HIDE DEF w
  <2>3. w.entry \in 1 .. Len(shell)
    BY <1>1, <1>3, <2>2
  <2> QED
    BY <1>1, <1>3, <2>1, <2>2, <2>3 DEF LookupTyped
<1> QED
  BY <1>2, <1>3

(* It has found what there is, whether it counted the jar or passed it over. *)
LEMMA MovedOnFinds ==
  ASSUME NestedTyped, NEW r, LookupTyped(r), LookupFound(r), r.at # "answered",
         NEW m \in SUBSET Nat, NEW p \in SUBSET Nat,
         \/ m = r.matches /\ p = r.passed \cup {r.entry}
         \/ m = r.matches /\ p = r.passed /\ ~HasClass(r.entry)
         \/ m = r.matches \cup {r.entry} /\ p = r.passed /\ HasClass(r.entry)
  PROVE  LookupFound(MovedOn(r, m, p))
<1> DEFINE w == MovedOn(r, m, p)
<1>1. /\ w.matches = m /\ w.passed = p /\ w.task = r.task
      /\ \/ /\ r.entry = Len(shell) \/ (r.task = "find" /\ m # {})
            /\ w.at = "answered" /\ w.entry = r.entry
         \/ /\ r.entry # Len(shell) /\ (r.task = "find" => m = {})
            /\ w.at = "access" /\ w.entry = r.entry + 1
  BY MovedOnIs
<1> HIDE DEF w
<1>2. Len(shell) \in Nat /\ r.entry \in 1 .. Len(shell) /\ r.entry \in Nat
  BY DEF NestedTyped, LookupTyped
<1>3. \A i : LookedAt(w, i) <=> LookedAt(r, i) \/ i = r.entry
  BY <1>1, <1>2 DEF LookedAt
<1>4. \A i \in w.matches : LookedAt(w, i) /\ HasClass(i)
  BY <1>1, <1>3 DEF LookupFound
<1>5. \A i \in 1 .. Len(shell) : LookedAt(w, i) /\ HasClass(i) => i \in w.matches \cup w.passed
  BY <1>1, <1>3 DEF LookupFound
<1>6. w.task = "find" => w.matches = {} \/ (w.at = "answered" /\ w.matches = {w.entry})
  <2>1. r.task = "find" => r.matches = {}
    BY DEF LookupFound
  <2> QED
    BY <1>1, <2>1
<1>7. w.at = "answered" /\ (w.task = "unique" \/ w.matches = {}) => w.entry = Len(shell)
  BY <1>1
<1>8. w.at \notin {"write", "rename"}
  BY <1>1
<1>9. \A i \in w.passed : LookedAt(w, i) /\ i \notin w.matches
  <2>1. ~LookedAt(r, r.entry)
    BY <1>2 DEF LookedAt
  <2>2. /\ \A i \in r.matches : LookedAt(r, i)
        /\ \A i \in r.passed : LookedAt(r, i) /\ i \notin r.matches
    BY DEF LookupFound
  <2>3. r.entry \notin r.matches /\ r.entry \notin r.passed
    BY <2>1, <2>2
  <2>4. \/ w.passed = r.passed \cup {r.entry} /\ w.matches = r.matches
        \/ w.passed = r.passed /\ w.matches = r.matches
        \/ w.passed = r.passed /\ w.matches = r.matches \cup {r.entry}
    BY <1>1
  <2> QED
    BY <1>3, <2>2, <2>3, <2>4
<1>10. LookupFound(w)
  BY <1>4, <1>5, <1>6, <1>7, <1>8, <1>9 DEF LookupFound
<1> QED
  BY <1>10 DEF w

(* A call that goes on to another place *)
GoneTo(r, place) == [r EXCEPT !.at = place]
LookupPlaces == {"access", "read", "write", "rename", "access again", "list"}

(* Where a lookup is that goes on with its entry. *)
LEMMA GoneToIs ==
  ASSUME NestedTyped, NEW r, LookupTyped(r), r.at # "answered", NEW place \in LookupPlaces,
         place \in {"write", "rename"} => r.bytes \in WholeJar
  PROVE  /\ LookupTyped(GoneTo(r, place)) /\ GoneTo(r, place).at = place /\ GoneTo(r, place).entry = r.entry
         /\ GoneTo(r, place).passed = r.passed
         /\ LookupFound(r) /\ (place \in {"write", "rename"} => r.bytes = shell[r.entry])
               => LookupFound(GoneTo(r, place))
<1> DEFINE w == GoneTo(r, place)
<1>1. r \in LookupStates /\ r.entry \in 1 .. Len(shell)
  BY DEF LookupTyped
<1>2. /\ w \in LookupStates /\ w.at = place /\ w.entry = r.entry /\ w.task = r.task
      /\ w.matches = r.matches /\ w.passed = r.passed /\ w.bytes = r.bytes
  BY <1>1 DEF LookupStates, GoneTo, LookupPlaces
<1> HIDE DEF w
<1>3. place # "answered"
  BY DEF LookupPlaces
<1>4. \A i : LookedAt(w, i) <=> LookedAt(r, i)
  BY <1>2, <1>3 DEF LookedAt
<1>5. LookupTyped(w)
  BY <1>1, <1>2 DEF LookupTyped
<1>6. ASSUME LookupFound(r), place \in {"write", "rename"} => r.bytes = shell[r.entry]
      PROVE  LookupFound(w)
  BY <1>2, <1>3, <1>4, <1>6 DEF LookupFound
<1>7. w = GoneTo(r, place)
  BY DEF w
<1> QED
  BY <1>2, <1>5, <1>6, <1>7

(* It is as clean as it was when it passes over only what is not fine. *)
LEMMA MovedOnClean ==
  ASSUME NestedTyped, NEW r, LookupTyped(r), LookupClean(r), NEW m \in SUBSET Nat, NEW p \in SUBSET Nat,
         UNCHANGED shell, mishaps' = <<>> => mishaps = <<>>,
         p = r.passed \/ (p = r.passed \cup {r.entry}
                          /\ (mishaps' = <<>> => shell[r.entry].state # "fine"))
  PROVE  LookupClean(MovedOn(r, m, p))'
<1> DEFINE w == MovedOn(r, m, p)
<1>1. w.passed = p /\ w.at \in {"access", "answered"}
  BY MovedOnIs
<1>2. \A v : v = w => LookupClean(v)'
  BY <1>1 DEF LookupClean
<1>3. shell' = shell
  OBVIOUS
<1>4. MovedOn(r, m, p)' = MovedOn(r, m, p)
  BY <1>3 DEF MovedOn
<1> HIDE DEF w
<1>5. PICK v : v = w
  OBVIOUS
<1>6. LookupClean(v)'
  BY <1>2, <1>5
<1>7. v = MovedOn(r, m, p)' 
  BY <1>4, <1>5 DEF w
<1> QED
  BY <1>6, <1>7 DEF LookupClean

-----------------------------------------------------------------------------
(* What a call becomes that passes over its bundled jar, ... *)
LEMMA PassingIs ==
  ASSUME NestedInv, NEW c \in NestedCalls, nestedCall[c].at \in LookupPlaces, PassesOver(c),
         UNCHANGED shell, mishaps' = <<>> => mishaps = <<>>,
         ~Occurred("rewritten") /\ mishaps' = <<>> => shell[BundledAt(c)].state # "fine"
  PROVE  \E w : /\ nestedCall' = [nestedCall EXCEPT ![c] = w] /\ LookupTyped(w)
                /\ ~Occurred("rewritten") => LookupFound(w) /\ LookupClean(w)'
<1>1. PICK r : r = nestedCall[c]
  OBVIOUS
<1>2. PICK p : p = r.passed \cup {r.entry}
  OBVIOUS
<1>3. PICK w : w = MovedOn(r, r.matches, p)
  OBVIOUS
<1>4. r.at # "idle" /\ r.at # "answered"
  BY <1>1 DEF LookupPlaces
<1>5. /\ LookupTyped(r) /\ r \in LookupStates /\ BundledAt(c) = r.entry
      /\ ~Occurred("rewritten") => LookupFound(r) /\ LookupClean(r)
  BY <1>1, <1>4, LookupIs
<1>6. NestedTyped
  BY DEF NestedInv
<1>7. r.matches \in SUBSET Nat /\ p \in SUBSET Nat
  BY <1>2, <1>5 DEF LookupStates
<1>8. nestedCall' = [nestedCall EXCEPT ![c] = w]
  BY <1>1, <1>2, <1>3, <1>5, MovesTo DEF PassesOver
<1>9. LookupTyped(w)
  BY <1>3, <1>5, <1>6, <1>7, MovedOnIs
<1>10. ~Occurred("rewritten") => LookupFound(w)
  BY <1>2, <1>3, <1>4, <1>5, <1>6, <1>7, MovedOnFinds
<1>11. ASSUME ~Occurred("rewritten") PROVE LookupClean(w)'
  <2>1. LookupClean(r) /\ (mishaps' = <<>> => shell[r.entry].state # "fine")
    BY <1>5, <1>11
  <2>2. LookupClean(MovedOn(r, r.matches, p))'
    BY <1>2, <1>5, <1>6, <1>7, <2>1, MovedOnClean
  <2>3. w = MovedOn(r, r.matches, p)'
    BY <1>3 DEF MovedOn
  <2> QED
    BY <2>2, <2>3 DEF LookupClean
<1> QED
  BY <1>8, <1>9, <1>10, <1>11

(* ... counts what it has found in it, ... *)
LEMMA CountingIs ==
  ASSUME NestedInv, NEW c \in NestedCalls, nestedCall[c].at \in LookupPlaces, NEW holds \in BOOLEAN,
         Counting(c, holds), UNCHANGED <<shell, mishaps>>,
         ~Occurred("rewritten") => (holds <=> HasClass(BundledAt(c)))
  PROVE  \E w : /\ nestedCall' = [nestedCall EXCEPT ![c] = w] /\ LookupTyped(w)
                /\ ~Occurred("rewritten") => LookupFound(w) /\ LookupClean(w)'
<1>1. PICK r : r = nestedCall[c]
  OBVIOUS
<1>2. PICK m : m = r.matches \cup (IF holds THEN {r.entry} ELSE {})
  OBVIOUS
<1>3. PICK w : w = MovedOn(r, m, r.passed)
  OBVIOUS
<1>4. r.at # "idle" /\ r.at # "answered"
  BY <1>1 DEF LookupPlaces
<1>5. /\ LookupTyped(r) /\ r \in LookupStates /\ BundledAt(c) = r.entry
      /\ ~Occurred("rewritten") => LookupFound(r) /\ LookupClean(r)
  BY <1>1, <1>4, LookupIs
<1>6. NestedTyped
  BY DEF NestedInv
<1>7. m \in SUBSET Nat /\ r.passed \in SUBSET Nat
  BY <1>2, <1>5 DEF LookupStates
<1>8. nestedCall' = [nestedCall EXCEPT ![c] = w]
  BY <1>1, <1>2, <1>3, <1>5, MovesTo DEF Counting
<1>9. LookupTyped(w)
  BY <1>3, <1>5, <1>6, <1>7, MovedOnIs
<1>10. ~Occurred("rewritten") => LookupFound(w)
  <2>1. SUFFICES ASSUME ~Occurred("rewritten") PROVE LookupFound(w)
    OBVIOUS
  <2>2. \/ m = r.matches /\ ~HasClass(r.entry)
        \/ m = r.matches \cup {r.entry} /\ HasClass(r.entry)
    BY <1>2, <1>5, <2>1
  <2> QED
    BY <1>3, <1>4, <1>5, <1>6, <1>7, <2>1, <2>2, MovedOnFinds
<1>11. ASSUME ~Occurred("rewritten") PROVE LookupClean(w)'
  <2>1. LookupClean(r)
    BY <1>5, <1>11
  <2>2. LookupClean(MovedOn(r, m, r.passed))'
    BY <1>5, <1>6, <1>7, <2>1, MovedOnClean
  <2>3. w = MovedOn(r, m, r.passed)'
    BY <1>3 DEF MovedOn
  <2> QED
    BY <2>2, <2>3 DEF LookupClean
<1> QED
  BY <1>8, <1>9, <1>10, <1>11

(* ... or goes on with it. *)
LEMMA GoingIs ==
  ASSUME NestedInv, NEW c \in NestedCalls, nestedCall[c].at \in LookupPlaces, NEW place \in LookupPlaces,
         Goes(c, place), place \in {"write", "rename"} => nestedCall[c].at = "write",
         UNCHANGED shell, mishaps' = <<>> => mishaps = <<>>,
         ~Occurred("rewritten") /\ mishaps' = <<>> =>
            place # "access again" /\ (place = "list" => extracted'[BundledAt(c)] # Absent)
  PROVE  \E w : /\ nestedCall' = [nestedCall EXCEPT ![c] = w] /\ LookupTyped(w)
                /\ w.at = place /\ w.entry = nestedCall[c].entry
                /\ ~Occurred("rewritten") => LookupFound(w) /\ LookupClean(w)'
<1>1. PICK r : r = nestedCall[c]
  OBVIOUS
<1>2. PICK w : w = GoneTo(r, place)
  OBVIOUS
<1>3. r.at # "idle" /\ r.at # "answered"
  BY <1>1 DEF LookupPlaces
<1>4. /\ LookupTyped(r) /\ r \in LookupStates /\ BundledAt(c) = r.entry
      /\ ~Occurred("rewritten") => LookupFound(r) /\ LookupClean(r)
  BY <1>1, <1>3, LookupIs
<1>5. NestedTyped
  BY DEF NestedInv
<1>6. nestedCall' = [nestedCall EXCEPT ![c] = w]
  <2>1. nestedCall' = [nestedCall EXCEPT ![c].at = place]
    BY DEF Goes
  <2> QED
    BY <1>1, <1>2, <2>1 DEF GoneTo
<1>7. place \in {"write", "rename"} => r.bytes \in WholeJar
  BY <1>1, <1>4 DEF LookupTyped
<1>8. /\ LookupTyped(w) /\ w.at = place /\ w.entry = r.entry /\ w.passed = r.passed
      /\ LookupFound(r) /\ (place \in {"write", "rename"} => r.bytes = shell[r.entry]) => LookupFound(w)
  BY <1>2, <1>3, <1>4, <1>5, <1>7, GoneToIs
<1>9. ~Occurred("rewritten") => LookupFound(w)
  BY <1>1, <1>4, <1>8 DEF LookupFound
<1>10. ASSUME ~Occurred("rewritten") PROVE LookupClean(w)'
  <2>1. LookupClean(r)
    BY <1>4, <1>10
  <2>2. mishaps' = <<>> => \A i \in w.passed : shell[i].state # "fine"
    BY <1>8, <2>1 DEF LookupClean
  <2>3. mishaps' = <<>> => w.at # "access again" /\ (w.at = "list" => extracted'[w.entry] # Absent)
    BY <1>4, <1>8, <1>10
  <2> QED
    BY <2>2, <2>3 DEF LookupClean
<1> QED
  BY <1>1, <1>6, <1>8, <1>9, <1>10

-----------------------------------------------------------------------------
(* The steps *)
LEMMA StartLookupRight ==
  ASSUME NestedInv, NEW c \in NestedCalls, StartLookup(c) PROVE NestedInv'
<1>1. PICK task \in {"find", "unique"} :
        /\ nestedCall[c].at = "idle" /\ Len(shell) > 0
        /\ nestedCall' = [nestedCall EXCEPT ![c] =
              [at |-> "access", task |-> task, entry |-> 1, matches |-> {}, passed |-> {},
               bytes |-> Absent]]
        /\ UNCHANGED <<shell, extracted, leftovers, classSets, mishaps>>
  BY DEF StartLookup, Seeking
<1>2. PICK w : w = [at |-> "access", task |-> task, entry |-> 1, matches |-> {}, passed |-> {},
                    bytes |-> Absent]
  OBVIOUS
<1>3. Len(shell) \in Nat /\ classSets \in Seq(Nat \X BOOLEAN)
  BY DEF NestedInv, NestedTyped
<1>4. w \in LookupStates /\ w.at = "access" /\ w.entry = 1 /\ w.matches = {} /\ w.passed = {}
  BY <1>2 DEF LookupStates
<1>5. LookupTyped(w)
  BY <1>1, <1>3, <1>4 DEF LookupTyped
<1>6. \A i : ~LookedAt(w, i)
  BY <1>3, <1>4 DEF LookedAt
<1>7. LookupFound(w) /\ LookupClean(w)'
  BY <1>4, <1>6 DEF LookupFound, LookupClean
<1>8. ~Occurred("rewritten") => SetsTrue'
  BY <1>1 DEF NestedInv, SetsTrue, SetTrue
<1>9. GoesWrong("deleted") /\ nestedCall[c].at \notin {"rename", "access again"}
  BY <1>1 DEF GoesWrong
<1>10. nestedCall' = [nestedCall EXCEPT ![c] = w] /\ UNCHANGED <<shell, extracted, leftovers>>
  BY <1>1, <1>2
<1>11. classSets' \in Seq(Nat \X BOOLEAN)
  BY <1>1, <1>3
<1> QED
  BY <1>5, <1>7, <1>8, <1>9, <1>10, <1>11, LookupGoesOn

(* A call that goes on, touches no file and keeps the lists or adds a true one. *)
LEMMA GoneOn ==
  ASSUME NestedInv, NEW c \in NestedCalls, NEW what, GoesWrong(what), what # "rewritten",
         \E w : /\ nestedCall' = [nestedCall EXCEPT ![c] = w] /\ LookupTyped(w)
                /\ ~Occurred("rewritten") => LookupFound(w) /\ LookupClean(w)',
         UNCHANGED <<shell, extracted, leftovers>>,
         nestedCall[c].at \notin {"rename", "access again"},
         UNCHANGED classSets \/ (classSets' \in Seq(Nat \X BOOLEAN)
                                 /\ (~Occurred("rewritten") => SetsTrue'))
  PROVE  NestedInv'
<1>1. PICK w : /\ nestedCall' = [nestedCall EXCEPT ![c] = w] /\ LookupTyped(w)
               /\ ~Occurred("rewritten") => LookupFound(w) /\ LookupClean(w)'
  OBVIOUS
<1>2. classSets' \in Seq(Nat \X BOOLEAN) /\ (~Occurred("rewritten") => SetsTrue')
  BY DEF NestedInv, NestedTyped, SetsTrue, SetTrue
<1> QED
  BY <1>1, <1>2, LookupGoesOn

(* A call looks whether the jar was extracted before. *)
LEMMA AccessFinalRight ==
  ASSUME NestedInv, NEW c \in NestedCalls, AccessFinal(c) PROVE NestedInv'
<1>1. PICK place \in {"list", "read"} :
        /\ nestedCall[c].at = "access" /\ Goes(c, place)
        /\ place = "list" => extracted[BundledAt(c)] # Absent
        /\ UNCHANGED <<shell, extracted, leftovers, classSets, mishaps>>
  BY DEF AccessFinal, Seeking
<1>2. \E w : /\ nestedCall' = [nestedCall EXCEPT ![c] = w] /\ LookupTyped(w)
             /\ w.at = place /\ w.entry = nestedCall[c].entry
             /\ ~Occurred("rewritten") => LookupFound(w) /\ LookupClean(w)'
  <2>1. /\ nestedCall[c].at \in LookupPlaces /\ place \in LookupPlaces /\ place \notin {"write", "rename"}
        /\ UNCHANGED shell /\ (mishaps' = <<>> => mishaps = <<>>) /\ place # "access again"
        /\ place = "list" => extracted'[BundledAt(c)] # Absent
    BY <1>1 DEF LookupPlaces
  <2> QED
    BY <1>1, <2>1, GoingIs
<1>3. GoesWrong("deleted")
  BY <1>1 DEF GoesWrong
<1> QED
  BY <1>1, <1>2, <1>3, GoneOn

(* A call reads the bytes of the entry. *)
LEMMA ReadEntryRight ==
  ASSUME NestedInv, NEW c \in NestedCalls, ReadEntry(c) PROVE NestedInv'
<1>1. nestedCall[c].at = "read" /\ UNCHANGED <<shell, extracted, leftovers, classSets, mishaps>>
  BY DEF ReadEntry, Seeking
<1>2. GoesWrong("deleted")
  BY <1>1 DEF GoesWrong
<1>3. CASE shell[BundledAt(c)].state = "refused"
  <2>1. PassesOver(c)
    BY <1>3 DEF ReadEntry
  <2>2. \E w : /\ nestedCall' = [nestedCall EXCEPT ![c] = w] /\ LookupTyped(w)
               /\ ~Occurred("rewritten") => LookupFound(w) /\ LookupClean(w)'
    BY <1>1, <1>3, <2>1, PassingIs DEF LookupPlaces
  <2> QED
    BY <1>1, <1>2, <2>2, GoneOn
<1>4. CASE shell[BundledAt(c)].state # "refused"
  <2>1. PICK r : r = nestedCall[c]
    OBVIOUS
  <2>2. PICK whole : whole = shell[BundledAt(c)]
    OBVIOUS
  <2>3. PICK w : w = [r EXCEPT !.at = "write", !.bytes = whole]
    OBVIOUS
  <2>4. nestedCall' = [nestedCall EXCEPT ![c] = w]
    <3>1. nestedCall' = [nestedCall EXCEPT ![c].at = "write", ![c].bytes = whole]
      BY <1>4, <2>2 DEF ReadEntry
    <3> QED
      BY <2>1, <2>3, <3>1
  <2>5. /\ r \in LookupStates /\ r.entry \in 1 .. Len(shell) /\ BundledAt(c) = r.entry
        /\ whole \in Bundled
        /\ ~Occurred("rewritten") => LookupFound(r) /\ LookupClean(r)
    BY <1>1, <2>1, <2>2, LookupIs DEF LookupTyped
  <2>6. whole \in WholeJar
    BY <1>4, <2>2, <2>5 DEF WholeJar, Bundled, WholeFiles
  <2>7. /\ w \in LookupStates /\ w.at = "write" /\ w.bytes = whole /\ w.entry = r.entry
        /\ w.task = r.task /\ w.matches = r.matches /\ w.passed = r.passed
    <3>1. whole \in Bundled
      BY <2>5
    <3> QED
      BY <2>3, <2>5, <3>1 DEF LookupStates
  <2>8. LookupTyped(w)
    BY <2>5, <2>6, <2>7 DEF LookupTyped
  <2>9. \A i : LookedAt(w, i) <=> LookedAt(r, i)
    BY <1>1, <2>1, <2>7 DEF LookedAt
  <2>10. ASSUME ~Occurred("rewritten") PROVE LookupFound(w) /\ LookupClean(w)'
    <3>1. LookupFound(r) /\ LookupClean(r)
      BY <2>5, <2>10
    <3>2. w.bytes = shell[w.entry]
      BY <2>2, <2>5, <2>7
    <3>3. LookupFound(w)
      BY <1>1, <2>1, <2>7, <2>9, <3>1, <3>2 DEF LookupFound
    <3>4. LookupClean(w)'
      BY <1>1, <2>7, <3>1 DEF LookupClean
    <3> QED
      BY <3>3, <3>4
  <2> QED
    BY <1>1, <1>2, <2>4, <2>8, <2>10, GoneOn
<1> QED
  BY <1>3, <1>4

(* A call writes them to a temporary file. *)
LEMMA WriteTempRight ==
  ASSUME NestedInv, NEW c \in NestedCalls, WriteTemp(c) PROVE NestedInv'
<1>1. /\ nestedCall[c].at = "write" /\ UNCHANGED <<shell, extracted, classSets>>
      /\ leftovers' = leftovers \cup {<<c, BundledAt(c)>>}
      /\ \/ Goes(c, "rename") /\ UNCHANGED mishaps
         \/ PassesOver(c) /\ mishaps' = Append(mishaps, "not written")
  BY DEF WriteTemp, Seeking, Beside, Happens
<1>2. GoesWrong("not written")
  BY <1>1 DEF GoesWrong, Mishaps
<1>3. NestedTyped
  BY DEF NestedInv
<1>4. /\ mishaps' = <<>> => mishaps = <<>>
      /\ \A other : Occurred(other) => Occurred(other)'
      /\ mishaps' = Append(mishaps, "not written") => mishaps' # <<>> /\ Occurred("not written")'
  BY <1>2, <1>3, MishapsGrow
<1>5. PICK w : /\ nestedCall' = [nestedCall EXCEPT ![c] = w] /\ LookupTyped(w)
               /\ ~Occurred("rewritten") => LookupFound(w) /\ LookupClean(w)'
               /\ \/ w.at = "rename" /\ w.entry = nestedCall[c].entry
                  \/ Occurred("not written")'
  <2>1. CASE Goes(c, "rename")
    <3>1. \E w : /\ nestedCall' = [nestedCall EXCEPT ![c] = w] /\ LookupTyped(w)
                 /\ w.at = "rename" /\ w.entry = nestedCall[c].entry
                 /\ ~Occurred("rewritten") => LookupFound(w) /\ LookupClean(w)'
      BY <1>1, <1>4, <2>1, GoingIs DEF LookupPlaces
    <3> QED
      BY <3>1
  <2>2. CASE PassesOver(c) /\ mishaps' = Append(mishaps, "not written")
    <3>1. \E w : /\ nestedCall' = [nestedCall EXCEPT ![c] = w] /\ LookupTyped(w)
                 /\ ~Occurred("rewritten") => LookupFound(w) /\ LookupClean(w)'
      BY <1>1, <1>4, <2>2, PassingIs DEF LookupPlaces
    <3> QED
      BY <1>4, <2>2, <3>1
  <2> QED
    BY <1>1, <2>1, <2>2
<1>6. BundledAt(c) = nestedCall[c].entry /\ BundledAt(c) \in Nat
  <2>1. nestedCall[c].at # "idle" /\ Len(shell) \in Nat
    <3>1. nestedCall[c].at # "idle"
      BY <1>1
    <3>2. Len(shell) \in Nat
      BY <1>3 DEF NestedTyped
    <3> QED
      BY <3>1, <3>2
  <2>2. BundledAt(c) = nestedCall[c].entry /\ BundledAt(c) \in 1 .. Len(shell)
    BY <2>1, LookupIs
  <2> QED
    BY <2>1, <2>2
<1>7. \A l \in leftovers' : l \in leftovers \/ (l \in NestedCalls \X Nat /\ l[1] = c)
  <2>1. PICK b \in Nat : b = BundledAt(c)
    BY <1>6
  <2>2. leftovers' = leftovers \cup {<<c, b>>}
    BY <1>1, <2>1
  <2> QED
    BY <2>2
<1>8. ASSUME NEW l \in leftovers', l[1] = c
      PROVE  \/ Occurred("killed")' \/ Occurred("not written")'
             \/ w.at \in {"rename", "access again"} /\ l[2] = w.entry
  <2>1. CASE l \in leftovers
    <3>1. LeftoverExplained(l)
      BY <2>1 DEF NestedInv
    <3> QED
      BY <1>1, <1>4, <1>8, <3>1 DEF LeftoverExplained, Seeking
  <2>2. CASE l = <<c, BundledAt(c)>>
    BY <1>5, <1>6, <2>2
  <2> QED
    BY <1>1, <2>1, <2>2
<1>9. /\ extracted' \in [1 .. Len(shell) -> {Absent} \cup WholeJar] /\ classSets' \in Seq(Nat \X BOOLEAN)
      /\ \A i \in 1 .. Len(shell) : extracted[i] # Absent => extracted'[i] # Absent
      /\ ~Occurred("rewritten") => FilesTrue' /\ SetsTrue'
  BY <1>1 DEF NestedInv, NestedTyped, FilesTrue, SetsTrue, SetTrue
<1>10. LookupFound(w) => LookupFound(w)'
  BY <1>1 DEF LookupFound, LookedAt, HasClass
<1> QED
  BY <1>1, <1>2, <1>5, <1>7, <1>8, <1>9, <1>10, LookupGoes

(* A call gives the file its final name. *)
LEMMA RenameTempRight ==
  ASSUME NestedInv, NEW c \in NestedCalls, RenameTemp(c) PROVE NestedInv'
<1>1. /\ nestedCall[c].at = "rename" /\ UNCHANGED <<shell, classSets>>
      /\ \/ /\ extracted' = [extracted EXCEPT ![BundledAt(c)] = nestedCall[c].bytes]
            /\ leftovers' = leftovers \ {<<c, BundledAt(c)>>}
            /\ Goes(c, "list") /\ UNCHANGED mishaps
         \/ /\ mishaps' = Append(mishaps, "not renamed")
            /\ Goes(c, "access again") /\ UNCHANGED <<extracted, leftovers>>
  BY DEF RenameTemp, Seeking, Happens
<1>2. GoesWrong("not renamed") /\ NestedTyped
  BY <1>1 DEF GoesWrong, Mishaps, NestedInv
<1>3. /\ mishaps' = <<>> => mishaps = <<>>
      /\ \A other : Occurred(other) => Occurred(other)'
      /\ mishaps' = Append(mishaps, "not renamed") => mishaps' # <<>>
  BY <1>2, MishapsGrow
<1>4. nestedCall[c].at \in LookupPlaces /\ nestedCall[c].at # "idle"
  BY <1>1 DEF LookupPlaces
<1>5. /\ extracted \in [1 .. Len(shell) -> {Absent} \cup WholeJar] /\ classSets \in Seq(Nat \X BOOLEAN)
      /\ leftovers \subseteq NestedCalls \X Nat
  BY <1>2 DEF NestedTyped
<1>6. ~Occurred("rewritten") => SetsTrue'
  BY <1>1 DEF NestedInv, SetsTrue, SetTrue
<1>7. CASE Goes(c, "access again") /\ UNCHANGED <<extracted, leftovers>>
           /\ mishaps' = Append(mishaps, "not renamed")
  <2>1. PICK w : /\ nestedCall' = [nestedCall EXCEPT ![c] = w] /\ LookupTyped(w)
                 /\ w.at = "access again" /\ w.entry = nestedCall[c].entry
                 /\ ~Occurred("rewritten") => LookupFound(w) /\ LookupClean(w)'
    <3>1. "access again" \in LookupPlaces /\ mishaps' # <<>>
      BY <1>3, <1>7 DEF LookupPlaces
    <3>2. \E w : /\ nestedCall' = [nestedCall EXCEPT ![c] = w] /\ LookupTyped(w)
                 /\ w.at = "access again" /\ w.entry = nestedCall[c].entry
                 /\ ~Occurred("rewritten") => LookupFound(w) /\ LookupClean(w)'
      BY <1>1, <1>3, <1>4, <1>7, <3>1, GoingIs
    <3> QED
      BY <3>2
  <2> QED
    BY <1>1, <1>2, <1>5, <1>6, <1>7, <2>1, LookupGoesOn
<1>8. CASE /\ extracted' = [extracted EXCEPT ![BundledAt(c)] = nestedCall[c].bytes]
           /\ leftovers' = leftovers \ {<<c, BundledAt(c)>>}
           /\ Goes(c, "list") /\ UNCHANGED mishaps
  <2>1. PICK bytes : bytes = nestedCall[c].bytes
    OBVIOUS
  <2>2. PICK b : b = BundledAt(c)
    OBVIOUS
  <2>3. /\ LookupTyped(nestedCall[c]) /\ b = nestedCall[c].entry /\ b \in 1 .. Len(shell)
        /\ ~Occurred("rewritten") => LookupFound(nestedCall[c]) /\ FilesTrue
    BY <1>4, <2>2, LookupIs
  <2>4. bytes \in WholeJar /\ (~Occurred("rewritten") => bytes = shell[b])
    BY <1>1, <2>1, <2>3 DEF LookupTyped, LookupFound
  <2>5. bytes # Absent
    BY <2>4 DEF WholeJar, WholeFiles, Absent
  <2>6. extracted' = [extracted EXCEPT ![b] = bytes] /\ leftovers' = leftovers \ {<<c, b>>}
    BY <1>8, <2>1, <2>2
  <2>7. /\ extracted' \in [1 .. Len(shell) -> {Absent} \cup WholeJar]
        /\ \A i \in 1 .. Len(shell) : extracted'[i] = IF i = b THEN bytes ELSE extracted[i]
    BY <1>5, <2>3, <2>4, <2>6
  <2>8. ~Occurred("rewritten") => FilesTrue'
    BY <1>1, <2>3, <2>4, <2>7 DEF FilesTrue
  <2>9. PICK w : /\ nestedCall' = [nestedCall EXCEPT ![c] = w] /\ LookupTyped(w)
                 /\ w.at = "list" /\ w.entry = nestedCall[c].entry
                 /\ ~Occurred("rewritten") => LookupFound(w) /\ LookupClean(w)'
    <3>1. /\ "list" \in LookupPlaces /\ "list" \notin {"write", "rename"} /\ "list" # "access again"
          /\ extracted'[BundledAt(c)] # Absent
      BY <2>2, <2>3, <2>5, <2>7 DEF LookupPlaces
    <3>2. \E w : /\ nestedCall' = [nestedCall EXCEPT ![c] = w] /\ LookupTyped(w)
                 /\ w.at = "list" /\ w.entry = nestedCall[c].entry
                 /\ ~Occurred("rewritten") => LookupFound(w) /\ LookupClean(w)'
      BY <1>1, <1>3, <1>4, <1>8, <3>1, GoingIs
    <3> QED
      BY <3>2
  <2>10. ASSUME NEW l \in leftovers', l[1] = c
         PROVE  Occurred("killed")' \/ Occurred("not written")'
    <3>1. l \in leftovers /\ l # <<c, b>> /\ l \in NestedCalls \X Nat
      BY <1>5, <2>6
    <3>2. l[2] # b
      BY <2>10, <3>1
    <3>3. LeftoverExplained(l)
      BY <3>1 DEF NestedInv
    <3> QED
      BY <1>1, <1>3, <2>2, <2>10, <3>2, <3>3 DEF LeftoverExplained, Seeking
  <2>11. LookupFound(w) => LookupFound(w)'
    BY <1>1 DEF LookupFound, LookedAt, HasClass
  <2>12. \A i \in 1 .. Len(shell) : extracted[i] # Absent => extracted'[i] # Absent
    BY <2>5, <2>7
  <2>13. \A l \in leftovers' : l \in leftovers
    BY <2>6
  <2> QED
    BY <1>1, <1>2, <1>5, <1>6, <2>7, <2>8, <2>9, <2>10, <2>11, <2>12, <2>13, LookupGoes
<1> QED
  BY <1>1, <1>7, <1>8

(* A call whose rename failed looks whether another one was faster. *)
LEMMA AccessAgainRight ==
  ASSUME NestedInv, NEW c \in NestedCalls, AccessAgain(c) PROVE NestedInv'
<1>1. /\ nestedCall[c].at = "access again" /\ UNCHANGED <<shell, extracted, classSets, mishaps>>
      /\ leftovers' = leftovers \ {<<c, BundledAt(c)>>}
      /\ IF extracted[BundledAt(c)] = Absent THEN PassesOver(c) ELSE Goes(c, "list")
  BY DEF AccessAgain, Seeking, Cleans
<1>2. GoesWrong("not renamed") /\ NestedTyped
  BY <1>1 DEF GoesWrong, NestedInv
<1>3. nestedCall[c].at \in LookupPlaces /\ nestedCall[c].at # "idle"
  BY <1>1 DEF LookupPlaces
<1>4. /\ extracted \in [1 .. Len(shell) -> {Absent} \cup WholeJar] /\ classSets \in Seq(Nat \X BOOLEAN)
      /\ leftovers \subseteq NestedCalls \X Nat
  BY <1>2 DEF NestedTyped
<1>5. /\ ~Occurred("rewritten") => LookupFound(nestedCall[c]) /\ LookupClean(nestedCall[c])
      /\ BundledAt(c) = nestedCall[c].entry
  BY <1>3, LookupIs
<1>6. ~Occurred("rewritten") => mishaps' # <<>>
  BY <1>1, <1>5 DEF LookupClean
<1>7. PICK w : /\ nestedCall' = [nestedCall EXCEPT ![c] = w] /\ LookupTyped(w)
               /\ ~Occurred("rewritten") => LookupFound(w) /\ LookupClean(w)'
  <2>1. CASE extracted[BundledAt(c)] = Absent
    <3>1. \E w : /\ nestedCall' = [nestedCall EXCEPT ![c] = w] /\ LookupTyped(w)
                 /\ ~Occurred("rewritten") => LookupFound(w) /\ LookupClean(w)'
      BY <1>1, <1>3, <1>6, <2>1, PassingIs
    <3> QED
      BY <3>1
  <2>2. CASE extracted[BundledAt(c)] # Absent
    <3>1. "list" \in LookupPlaces /\ "list" \notin {"write", "rename"} /\ "list" # "access again"
      BY DEF LookupPlaces
    <3>2. \E w : /\ nestedCall' = [nestedCall EXCEPT ![c] = w] /\ LookupTyped(w)
                 /\ w.at = "list" /\ w.entry = nestedCall[c].entry
                 /\ ~Occurred("rewritten") => LookupFound(w) /\ LookupClean(w)'
      BY <1>1, <1>3, <1>6, <2>2, <3>1, GoingIs
    <3> QED
      BY <3>2
  <2> QED
    BY <2>1, <2>2
<1>8. ASSUME NEW l \in leftovers', l[1] = c
      PROVE  Occurred("killed")' \/ Occurred("not written")'
  <2>1. PICK b : b = BundledAt(c)
    OBVIOUS
  <2>2. l \in leftovers /\ l # <<c, b>> /\ l \in NestedCalls \X Nat
    BY <1>1, <1>4, <2>1
  <2>3. l[2] # b
    BY <1>8, <2>2
  <2>4. LeftoverExplained(l)
    BY <2>2 DEF NestedInv
  <2>5. Occurred("killed") \/ Occurred("not written")
    BY <1>1, <1>8, <2>1, <2>3, <2>4 DEF LeftoverExplained, Seeking
  <2> QED
    BY <1>1, <2>5 DEF Occurred
<1>9. /\ LookupFound(w) => LookupFound(w)'
      /\ ~Occurred("rewritten") => FilesTrue' /\ SetsTrue'
  BY <1>1 DEF LookupFound, LookedAt, HasClass, NestedInv, FilesTrue, SetsTrue, SetTrue
<1>10. \A l \in leftovers' : l \in leftovers
  BY <1>1
<1> QED
  BY <1>1, <1>2, <1>4, <1>7, <1>8, <1>9, <1>10, LookupGoes

(* What is remembered of the classes of jars. *)
LEMMA RememberIs ==
  ASSUME classSets \in Seq(Nat \X BOOLEAN), NEW i \in Nat, NEW holds \in BOOLEAN
  PROVE  /\ Remember(i, holds) \in Seq(Nat \X BOOLEAN)
         /\ \A n \in 1 .. Len(Remember(i, holds)) :
              \/ Remember(i, holds)[n] = <<i, holds>>
              \/ \E k \in 1 .. Len(classSets) : Remember(i, holds)[n] = classSets[k]
<1>1. PICK T : T = Nat \X BOOLEAN
  OBVIOUS
<1>2. PICK s : s = <<i, holds>>
  OBVIOUS
<1>3. s \in T /\ classSets \in Seq(T)
  BY <1>1, <1>2
<1>4. PICK all : all = Append(classSets, s)
  OBVIOUS
<1>5. PICK k \in Nat : k = Len(classSets)
  BY <1>3
<1>6. /\ all \in Seq(T) /\ Len(all) = k + 1 /\ all[k + 1] = s
      /\ \A n \in 1 .. k : all[n] = classSets[n]
  BY <1>3, <1>4, <1>5
<1>7. \A n \in 1 .. k + 1 : all[n] = s \/ \E j \in 1 .. Len(classSets) : all[n] = classSets[j]
  BY <1>5, <1>6
<1>8. CASE Len(all) > MaxSets
  <2>1. Remember(i, holds) = Tail(all)
    BY <1>2, <1>4, <1>8 DEF Remember
  <2>2. /\ Tail(all) \in Seq(T) /\ Len(Tail(all)) = k
        /\ \A n \in 1 .. k : Tail(all)[n] = all[n + 1]
    BY <1>5, <1>6
  <2>3. \A n \in 1 .. k : n + 1 \in 1 .. k + 1
    BY <1>5
  <2>4. \A n \in 1 .. k : Tail(all)[n] = s \/ \E j \in 1 .. Len(classSets) : Tail(all)[n] = classSets[j]
    BY <1>7, <2>2, <2>3
  <2> QED
    BY <1>1, <1>2, <2>1, <2>2, <2>4
<1>9. CASE ~(Len(all) > MaxSets)
  <2>1. Remember(i, holds) = all
    BY <1>2, <1>4, <1>9 DEF Remember
  <2> QED
    BY <1>1, <1>2, <1>6, <1>7, <2>1
<1> QED
  BY <1>8, <1>9

(* A call lists the classes of the jar it has extracted or found. *)
LEMMA ListClassesRight ==
  ASSUME NestedInv, NEW c \in NestedCalls, ListClasses(c) PROVE NestedInv'
<1>1. PICK file : file = extracted[BundledAt(c)]
  OBVIOUS
<1>2. PICK b : b = BundledAt(c)
  OBVIOUS
<1>3. nestedCall[c].at = "list" /\ UNCHANGED <<shell, extracted, leftovers, mishaps>>
  BY DEF ListClasses, Seeking
<1>4. \/ /\ KeptOf(b) # {} /\ UNCHANGED classSets
         /\ Counting(c, (CHOOSE s \in KeptOf(b) : TRUE)[2])
      \/ file.state # "fine" /\ PassesOver(c) /\ UNCHANGED classSets
      \/ file.state = "fine" /\ Counting(c, file.holds) /\ classSets' = Remember(b, file.holds)
  BY <1>1, <1>2 DEF ListClasses
<1>5. GoesWrong("not renamed") /\ NestedTyped
  BY <1>3 DEF GoesWrong, NestedInv
<1>6. nestedCall[c].at \in LookupPlaces /\ nestedCall[c].at # "idle"
  BY <1>3 DEF LookupPlaces
<1>7. /\ b = nestedCall[c].entry /\ b \in 1 .. Len(shell) /\ file \in {Absent} \cup WholeJar
      /\ ~Occurred("rewritten") =>
            LookupFound(nestedCall[c]) /\ LookupClean(nestedCall[c]) /\ FilesTrue /\ SetsTrue
  BY <1>1, <1>2, <1>6, LookupIs
<1>8. ~Occurred("rewritten") => /\ file # Absent => file = shell[b]
                                /\ mishaps = <<>> => file # Absent
  BY <1>1, <1>2, <1>3, <1>7 DEF FilesTrue, LookupClean
<1>9. classSets \in Seq(Nat \X BOOLEAN)
  BY <1>5 DEF NestedTyped
<1>10. CASE KeptOf(b) # {} /\ UNCHANGED classSets /\ Counting(c, (CHOOSE s \in KeptOf(b) : TRUE)[2])
  <2>1. PICK s : s = CHOOSE t \in KeptOf(b) : TRUE
    OBVIOUS
  <2>2. s \in KeptOf(b)
    BY <1>10, <2>1
  <2>3. PICK n \in 1 .. Len(classSets) : classSets[n] = s /\ s[1] = b
    BY <1>9, <2>2 DEF KeptOf, Range
  <2>4. s \in Nat \X BOOLEAN
    BY <1>9, <2>3
  <2>5. ~Occurred("rewritten") => (s[2] <=> HasClass(b))
    BY <1>7, <2>3, <2>4 DEF SetsTrue, SetTrue, HasClass
  <2>6. s[2] \in BOOLEAN /\ Counting(c, s[2])
    BY <1>10, <2>1, <2>4
  <2>7. \E w : /\ nestedCall' = [nestedCall EXCEPT ![c] = w] /\ LookupTyped(w)
               /\ ~Occurred("rewritten") => LookupFound(w) /\ LookupClean(w)'
    BY <1>2, <1>3, <1>6, <2>5, <2>6, CountingIs
  <2> QED
    BY <1>3, <1>5, <1>10, <2>7, GoneOn
<1>11. CASE file.state # "fine" /\ PassesOver(c) /\ UNCHANGED classSets
  <2>1. ~Occurred("rewritten") /\ mishaps' = <<>> => shell[b].state # "fine"
    BY <1>3, <1>8, <1>11
  <2>2. \E w : /\ nestedCall' = [nestedCall EXCEPT ![c] = w] /\ LookupTyped(w)
               /\ ~Occurred("rewritten") => LookupFound(w) /\ LookupClean(w)'
    BY <1>2, <1>3, <1>6, <1>11, <2>1, PassingIs
  <2> QED
    BY <1>3, <1>5, <1>11, <2>2, GoneOn
<1>12. CASE file.state = "fine" /\ Counting(c, file.holds) /\ classSets' = Remember(b, file.holds)
  <2>1. file \in WholeJar
    BY <1>7, <1>12 DEF Absent
  <2>2. PICK holds \in BOOLEAN : holds = file.holds
    BY <2>1 DEF WholeJar
  <2>3. ~Occurred("rewritten") => file = shell[b]
    <3>1. file # Absent
      BY <1>12 DEF Absent
    <3> QED
      BY <1>8, <3>1
  <2>4. ~Occurred("rewritten") => (holds <=> HasClass(b))
    BY <1>12, <2>2, <2>3 DEF HasClass
  <2>5. \E w : /\ nestedCall' = [nestedCall EXCEPT ![c] = w] /\ LookupTyped(w)
               /\ ~Occurred("rewritten") => LookupFound(w) /\ LookupClean(w)'
    BY <1>2, <1>3, <1>6, <1>12, <2>2, <2>4, CountingIs
  <2>6. b \in Nat
    <3>1. shell \in Seq(Bundled)
      BY <1>5 DEF NestedTyped
    <3>2. PICK n \in Nat : n = Len(shell)
      BY <3>1
    <3> QED
      BY <1>7, <3>2
  <2>7. PICK after : after = classSets'
    OBVIOUS
  <2>8. /\ after \in Seq(Nat \X BOOLEAN)
        /\ \A n \in 1 .. Len(after) :
             after[n] = <<b, holds>> \/ \E k \in 1 .. Len(classSets) : after[n] = classSets[k]
    BY <1>9, <1>12, <2>2, <2>6, <2>7, RememberIs
  <2>9. ASSUME ~Occurred("rewritten") PROVE SetsTrue'
    <3>1. SetTrue(<<b, holds>>)
      BY <1>7, <1>12, <2>2, <2>3, <2>9 DEF SetTrue
    <3>2. \A k \in 1 .. Len(classSets) : SetTrue(classSets[k])
      BY <1>7, <2>9 DEF SetsTrue
    <3>3. \A n \in 1 .. Len(after) : SetTrue(after[n])
      BY <2>8, <3>1, <3>2
    <3> QED
      BY <1>3, <2>7, <3>3 DEF SetsTrue, SetTrue
  <2>10. classSets' \in Seq(Nat \X BOOLEAN)
    BY <2>7, <2>8
  <2> QED
    BY <1>3, <1>5, <2>5, <2>9, <2>10, GoneOn
<1> QED
  BY <1>4, <1>10, <1>11, <1>12

(* A file is deleted. *)
LEMMA DeleteExtractedRight ==
  ASSUME NestedInv, NEW i \in DOMAIN extracted, DeleteExtracted(i) PROVE NestedInv'
<1>1. /\ extracted' = [extracted EXCEPT ![i] = Absent] /\ mishaps' = Append(mishaps, "deleted")
      /\ UNCHANGED <<shell, leftovers, classSets, nestedCall>>
  BY DEF DeleteExtracted, Happens
<1>2. GoesWrong("deleted") /\ NestedTyped
  BY <1>1 DEF GoesWrong, Mishaps, NestedInv
<1>3. /\ mishaps' \in Seq(Mishaps) /\ mishaps' # <<>>
      /\ \A other : Occurred(other) => Occurred(other)'
      /\ Occurred("rewritten")' <=> Occurred("rewritten")
  BY <1>1, <1>2, MishapsGrow
<1>4. /\ extracted' \in [1 .. Len(shell) -> {Absent} \cup WholeJar]
      /\ \A j \in 1 .. Len(shell) : extracted'[j] = extracted[j] \/ extracted'[j] = Absent
  BY <1>1, <1>2 DEF NestedTyped
<1>5. NestedTyped'
  BY <1>1, <1>2, <1>3, <1>4 DEF NestedTyped
<1>6. \A c \in NestedCalls : (nestedCall[c] # NotCalled => LookupTyped(nestedCall[c]))'
  BY <1>1 DEF NestedInv, LookupTyped
<1>7. \A l \in leftovers' : LeftoverExplained(l)'
  <2> TAKE l \in leftovers'
  <2>1. LeftoverExplained(l)
    BY <1>1 DEF NestedInv
  <2> QED
    BY <1>1, <1>3, <2>1 DEF LeftoverExplained, Seeking, BundledAt
<1>8. ASSUME ~Occurred("rewritten")
      PROVE  /\ FilesTrue' /\ SetsTrue'
             /\ \A c \in NestedCalls :
                  (nestedCall[c] # NotCalled => LookupFound(nestedCall[c]) /\ LookupClean(nestedCall[c]))'
  <2>1. FilesTrue'
    BY <1>1, <1>4, <1>8 DEF NestedInv, FilesTrue
  <2>2. SetsTrue'
    BY <1>1, <1>8 DEF NestedInv, SetsTrue, SetTrue
  <2>3. \A c \in NestedCalls : nestedCall[c] # NotCalled => LookupFound(nestedCall[c])'
    BY <1>1, <1>8 DEF NestedInv, LookupFound, LookedAt, HasClass
  <2>4. \A c \in NestedCalls : LookupClean(nestedCall[c])'
    BY <1>3 DEF LookupClean
  <2> QED
    BY <1>1, <2>1, <2>2, <2>3, <2>4
<1> QED
  BY <1>3, <1>5, <1>6, <1>7, <1>8 DEF NestedInv

(* Once the shell is rewritten, only the files' wholeness is left to keep. *)
LEMMA RewriteShellRight ==
  ASSUME NestedInv, RewriteShell PROVE NestedInv'
<1>1. /\ shell' \in ShellJars /\ Len(shell') = Len(shell) /\ mishaps' = Append(mishaps, "rewritten")
      /\ UNCHANGED <<extracted, leftovers, classSets, nestedCall>>
  BY DEF RewriteShell, Happens
<1>2. GoesWrong("rewritten") /\ NestedTyped
  BY <1>1 DEF GoesWrong, Mishaps, NestedInv
<1>3. /\ mishaps' \in Seq(Mishaps) /\ Occurred("rewritten")'
      /\ \A other : Occurred(other) => Occurred(other)'
  BY <1>1, <1>2, MishapsGrow
<1>4. shell' \in Seq(Bundled)
  BY <1>1, ShellAssumption
<1>5. NestedTyped'
  BY <1>1, <1>2, <1>3, <1>4 DEF NestedTyped
<1>6. \A c \in NestedCalls : (nestedCall[c] # NotCalled => LookupTyped(nestedCall[c]))'
  BY <1>1 DEF NestedInv, LookupTyped
<1>7. \A l \in leftovers' : LeftoverExplained(l)'
  <2> TAKE l \in leftovers'
  <2>1. LeftoverExplained(l)
    BY <1>1 DEF NestedInv
  <2> QED
    BY <1>1, <1>3, <2>1 DEF LeftoverExplained, Seeking, BundledAt
<1> QED
  BY <1>3, <1>5, <1>6, <1>7 DEF NestedInv

(* The process is killed. *)
LEMMA KillProcessRight ==
  ASSUME NestedInv, KillProcess PROVE NestedInv'
<1>1. /\ mishaps' = Append(mishaps, "killed") /\ classSets' = <<>>
      /\ nestedCall' = [c \in NestedCalls |-> NotCalled]
      /\ UNCHANGED <<shell, extracted, leftovers>>
  BY DEF KillProcess, Happens
<1>2. GoesWrong("killed") /\ NestedTyped
  BY <1>1 DEF GoesWrong, Mishaps, NestedInv
<1>3. /\ mishaps' \in Seq(Mishaps) /\ Occurred("killed")'
      /\ Occurred("rewritten")' <=> Occurred("rewritten")
  BY <1>1, <1>2, MishapsGrow
<1>4. classSets' \in Seq(Nat \X BOOLEAN) /\ nestedCall' \in [NestedCalls -> {NotCalled} \cup LookupStates]
  BY <1>1
<1>5. NestedTyped'
  BY <1>1, <1>2, <1>3, <1>4 DEF NestedTyped
<1>6. \A c \in NestedCalls : nestedCall'[c] = NotCalled
  BY <1>1
<1>7. \A l \in leftovers' : LeftoverExplained(l)'
  BY <1>3 DEF LeftoverExplained
<1>8. ~Occurred("rewritten")' => FilesTrue' /\ SetsTrue'
  BY <1>1, <1>3 DEF NestedInv, FilesTrue, SetsTrue
<1> QED
  BY <1>5, <1>6, <1>7, <1>8 DEF NestedInv

(* Nothing was extracted yet. *)
LEMMA NestedStarts ==
  ASSUME shell \in Seq(Bundled), extracted \in [1 .. Len(shell) -> {Absent}], leftovers = {},
         classSets = <<>>, mishaps = <<>>, nestedCall = [c \in NestedCalls |-> NotCalled]
  PROVE  NestedInv
<1>1. \A i \in 1 .. Len(shell) : extracted[i] = Absent
  OBVIOUS
<1>2. extracted \in [1 .. Len(shell) -> {Absent} \cup WholeJar]
  OBVIOUS
<1>3. nestedCall \in [NestedCalls -> {NotCalled} \cup LookupStates]
  OBVIOUS
<1>4. classSets \in Seq(Nat \X BOOLEAN) /\ mishaps \in Seq(Mishaps)
  OBVIOUS
<1>5. NestedTyped
  BY <1>2, <1>3, <1>4 DEF NestedTyped
<1>6. \A c \in NestedCalls : nestedCall[c] = NotCalled
  OBVIOUS
<1>7. FilesTrue
  BY <1>1 DEF FilesTrue
<1>8. SetsTrue
  BY DEF SetsTrue
<1> QED
  BY <1>5, <1>6, <1>7, <1>8 DEF NestedInv

(* A step of another part. *)
LEMMA NestedStutters ==
  ASSUME NestedInv, UNCHANGED nestedVars PROVE NestedInv'
<1>1. UNCHANGED <<shell, extracted, leftovers, classSets, nestedCall, mishaps>>
  BY DEF nestedVars
<1>2. NestedTyped'
  BY <1>1 DEF NestedInv, NestedTyped
<1>3. \A c \in NestedCalls : (nestedCall[c] # NotCalled => LookupTyped(nestedCall[c]))'
  BY <1>1 DEF NestedInv, LookupTyped
<1>4. \A l \in leftovers' : LeftoverExplained(l)'
  BY <1>1 DEF NestedInv, LeftoverExplained, Seeking, BundledAt, Occurred
<1>5. Occurred("rewritten")' <=> Occurred("rewritten")
  BY <1>1 DEF Occurred
<1>6. ASSUME ~Occurred("rewritten")
      PROVE  /\ FilesTrue' /\ SetsTrue'
             /\ \A c \in NestedCalls :
                  (nestedCall[c] # NotCalled => LookupFound(nestedCall[c]) /\ LookupClean(nestedCall[c]))'
  <2>1. FilesTrue' /\ SetsTrue'
    BY <1>1, <1>6 DEF NestedInv, FilesTrue, SetsTrue, SetTrue
  <2>2. ASSUME NEW c \in NestedCalls, nestedCall[c] # NotCalled
        PROVE  LookupFound(nestedCall[c])' /\ LookupClean(nestedCall[c])'
    <3>1. LookupFound(nestedCall[c]) /\ LookupClean(nestedCall[c])
      BY <1>6, <2>2 DEF NestedInv
    <3>2. LookupFound(nestedCall[c])'
      BY <1>1, <3>1 DEF LookupFound, LookedAt, HasClass
    <3>3. LookupClean(nestedCall[c])'
      BY <1>1, <3>1 DEF LookupClean
    <3> QED
      BY <3>2, <3>3
  <2> QED
    BY <1>1, <2>1, <2>2
<1> QED
  BY <1>2, <1>3, <1>4, <1>5, <1>6 DEF NestedInv

(* Every step keeps the invariant. *)
LEMMA NestedKept ==
  ASSUME NestedInv, [NestedNext]_nestedVars PROVE NestedInv'
<1>1. ASSUME NEW c \in NestedCalls,
             \/ StartLookup(c) \/ AccessFinal(c) \/ ReadEntry(c) \/ WriteTemp(c)
             \/ RenameTemp(c) \/ AccessAgain(c) \/ ListClasses(c)
      PROVE  NestedInv'
  BY <1>1, StartLookupRight, AccessFinalRight, ReadEntryRight, WriteTempRight, RenameTempRight,
     AccessAgainRight, ListClassesRight
<1>2. ASSUME NEW i \in DOMAIN extracted, DeleteExtracted(i) PROVE NestedInv'
  BY <1>2, DeleteExtractedRight
<1>3. CASE RewriteShell
  BY <1>3, RewriteShellRight
<1>4. CASE KillProcess
  BY <1>4, KillProcessRight
<1>5. CASE UNCHANGED nestedVars
  BY <1>5, NestedStutters
<1> QED
  BY <1>1, <1>2, <1>3, <1>4, <1>5 DEF NestedNext

(* What follows from the invariant *)
LEMMA NestedIsRight ==
  ASSUME NestedInv PROVE NestedRight
<1>1. NestedTyped
  BY DEF NestedInv
<1>2. ExtractionRight
  <2>1. \A i \in DOMAIN extracted : extracted[i] = Absent \/ extracted[i].state \in WholeFiles
    <3>1. \A i \in DOMAIN extracted : extracted[i] \in {Absent} \cup WholeJar
      BY <1>1 DEF NestedTyped
    <3> QED
      BY <3>1 DEF WholeJar
  <2>2. \A l \in leftovers : LeftoverExplained(l)
    BY DEF NestedInv
  <2> QED
    BY <2>1, <2>2 DEF ExtractionRight, LeftoverExplained
<1>3. ASSUME NEW c \in NestedCalls, Seeking(c, "answered"), ~Occurred("rewritten"),
             NEW holders, holders = {i \in DOMAIN shell : shell[i].holds /\ shell[i].state = "fine"}
      PROVE  /\ nestedCall[c].matches \subseteq holders
             /\ nestedCall[c].task = "unique" =>
                  holders \ nestedCall[c].passed = nestedCall[c].matches
             /\ nestedCall[c].task = "find" =>
                  /\ Cardinality(nestedCall[c].matches) <= 1
                  /\ \A i \in holders \ nestedCall[c].passed : \E m \in nestedCall[c].matches : m <= i
             /\ mishaps = <<>> => \A i \in nestedCall[c].passed : shell[i].state # "fine"
  <2>1. PICK w : w = nestedCall[c]
    OBVIOUS
  <2>2. w.at = "answered"
    BY <1>3, <2>1 DEF Seeking
  <2>3. LookupFound(w) /\ LookupClean(w) /\ LookupTyped(w)
    <3>1. nestedCall[c].at # "idle"
      BY <2>1, <2>2
    <3> QED
      BY <1>3, <2>1, <3>1, LookupIs
  <2>4. w \in LookupStates /\ w.entry \in 1 .. Len(shell)
    BY <2>3 DEF LookupTyped
  <2>5. DOMAIN shell = 1 .. Len(shell) /\ Len(shell) \in Nat
    BY <1>1 DEF NestedTyped
  <2>6. \A i : i \in holders <=> i \in 1 .. Len(shell) /\ HasClass(i)
    BY <1>3, <2>5 DEF HasClass
  <2>7. \A i : LookedAt(w, i) <=> i \in 1 .. Len(shell) /\ i <= w.entry
    BY <2>2, <2>4, <2>5 DEF LookedAt
  <2>8. w.matches \subseteq holders
    BY <2>3, <2>6, <2>7 DEF LookupFound
  <2>9. w.task = "unique" => holders \ w.passed = w.matches
    <3>1. w.task = "unique" => w.entry = Len(shell)
      BY <2>2, <2>3 DEF LookupFound
    <3>2. \A i \in 1 .. Len(shell) : w.task = "unique" => LookedAt(w, i)
      BY <2>5, <2>7, <3>1
    <3>3. w.task = "unique" => \A i \in holders : i \in w.matches \cup w.passed
      BY <2>3, <2>6, <3>2 DEF LookupFound
    <3>4. \A i \in w.passed : i \notin w.matches
      BY <2>3 DEF LookupFound
    <3> QED
      BY <2>8, <3>3, <3>4
  <2>10. w.task = "find" => /\ Cardinality(w.matches) <= 1
                            /\ \A i \in holders \ w.passed : \E m \in w.matches : m <= i
    <3>1. SUFFICES ASSUME w.task = "find"
                   PROVE  /\ Cardinality(w.matches) <= 1
                          /\ \A i \in holders \ w.passed : \E m \in w.matches : m <= i
      OBVIOUS
    <3>2. w.matches = {} \/ w.matches = {w.entry}
      BY <2>3, <3>1 DEF LookupFound
    <3>3. Cardinality(w.matches) <= 1
      <4>1. w.matches = {} => Cardinality(w.matches) = 0
        BY FS_EmptySet
      <4>2. w.matches = {w.entry} => Cardinality(w.matches) = 1
        BY FS_Singleton
      <4> QED
        BY <3>2, <4>1, <4>2
    <3>4. ASSUME NEW i \in holders \ w.passed PROVE \E m \in w.matches : m <= i
      <4>1. i \in 1 .. Len(shell) /\ HasClass(i)
        BY <2>6
      <4>2. LookedAt(w, i) => i \in w.matches
        BY <2>3, <3>4, <4>1 DEF LookupFound
      <4>3. CASE LookedAt(w, i)
        BY <2>5, <4>1, <4>2, <4>3
      <4>4. CASE ~LookedAt(w, i)
        <5>1. i > w.entry /\ w.entry # Len(shell)
          BY <2>4, <2>5, <2>7, <4>1, <4>4
        <5>2. w.matches # {}
          BY <2>2, <2>3, <5>1 DEF LookupFound
        <5>3. w.entry \in w.matches
          BY <3>2, <5>2
        <5> QED
          BY <2>4, <2>5, <4>1, <5>1, <5>3
      <4> QED
        BY <4>3, <4>4
    <3> QED
      BY <3>3, <3>4
  <2>11. mishaps = <<>> => \A i \in w.passed : shell[i].state # "fine"
    BY <2>3 DEF LookupClean
  <2> QED
    BY <2>1, <2>8, <2>9, <2>10, <2>11
<1> QED
  BY <1>2, <1>3 DEF NestedRight, NestedLookupRight

(* A file of a bundled jar is whole under its final name, whatever fails while it is
   written, and a lookup finds the class where it is, whatever the shell bundles and
   whichever calls look in it at the same time (extractNestedJar,
   findNestedJarsContainingClass, resolveUniqueNestedJarForClass). *)
THEOREM NestedAlwaysRight == NestedSpec => []NestedRight
<1>1. NestedInit => NestedInv
  <2> SUFFICES ASSUME NestedInit PROVE NestedInv
    OBVIOUS
  <2>1. /\ shell \in Seq(Bundled) /\ extracted = [i \in DOMAIN shell |-> Absent] /\ leftovers = {}
        /\ classSets = <<>> /\ mishaps = <<>> /\ nestedCall = [c \in NestedCalls |-> NotCalled]
    BY ShellAssumption DEF NestedInit
  <2>2. extracted \in [1 .. Len(shell) -> {Absent}]
    BY <2>1
  <2> QED
    BY <2>1, <2>2, NestedStarts
<1>2. NestedInv /\ [NestedNext]_nestedVars => NestedInv'
  BY NestedKept
<1>3. NestedInv => NestedRight
  BY NestedIsRight
<1> QED
  BY <1>1, <1>2, <1>3, PTL DEF NestedSpec

-----------------------------------------------------------------------------
(* A set of numbers has a least one. *)
LEMMA LeastOf ==
  ASSUME NEW S \in SUBSET Nat, S # {}
  PROVE  \E n \in S : \A m \in S : n <= m
<1> DEFINE T == {n \in Nat : \A m \in 0 .. n : m \notin S}
<1>1. SUFFICES ASSUME \A n \in S : \E m \in S : ~(n <= m) PROVE FALSE
  OBVIOUS
<1>2. 0 \in T
  <2>1. 0 \notin S
    BY <1>1
  <2> QED
    BY <2>1
<1>3. ASSUME NEW n \in Nat, n \in T PROVE n + 1 \in T
  <2>1. \A m \in 0 .. n : m \notin S
    BY <1>3
  <2>2. n + 1 \notin S
    <3>1. SUFFICES ASSUME n + 1 \in S PROVE FALSE
      OBVIOUS
    <3>2. PICK m \in S : ~(n + 1 <= m)
      BY <1>1, <3>1
    <3>3. m \in 0 .. n
      BY <3>2
    <3> QED
      BY <2>1, <3>3
  <2>3. \A m \in 0 .. n + 1 : m \in 0 .. n \/ m = n + 1
    OBVIOUS
  <2> QED
    BY <2>1, <2>2, <2>3
<1> HIDE DEF T
<1>4. Nat \subseteq T
  BY <1>2, <1>3, OnNumbers
<1>5. \A n \in Nat : n \notin S
  BY <1>4 DEF T
<1> QED
  BY <1>5

-----------------------------------------------------------------------------
(* discoverVersionSourceJar *)
LEMMA ScoreIs ==
  ASSUME NEW c \in Sources, NEW release
  PROVE  /\ Score(c, release) \in Nat /\ Score(c, release) <= 40000
         /\ c.minecraft /\ ~c.merged /\ c.release = release => Score(c, release) > 31000
         /\ c.minecraft /\ ~c.merged /\ c.release # release => Score(c, release) <= 30500
<1>1. PICK k : k = CappedEntries(c.entries)
  OBVIOUS
<1>2. k \in Nat /\ 1 <= k /\ k <= 500
  <2>1. c.entries \in {1, 500, 900}
    BY DEF Sources
  <2>2. CappedEntries(c.entries) \in {1, 500}
    BY <2>1 DEF CappedEntries
  <2> QED
    BY <1>1, <2>2
<1>3. PICK l \in {0, 20000} : l = IF LooksLikeMinecraft(c) THEN 20000 ELSE 0
  OBVIOUS
<1>4. PICK m \in {0, 10000} : m = IF c.minecraft THEN 10000 ELSE 0
  OBVIOUS
<1>5. PICK n \in {0, 2000} : n = IF c.merged THEN 2000 ELSE 0
  OBVIOUS
<1>6. PICK r \in {0, 1000} : r = IF c.release = release THEN 1000 ELSE 0
  OBVIOUS
<1>7. Score(c, release) = l + m + n + r + k
  BY <1>1, <1>3, <1>4, <1>5, <1>6 DEF Score
<1>8. c.minecraft /\ ~c.merged => l = 20000 /\ m = 10000 /\ n = 0
  BY <1>3, <1>4, <1>5 DEF LooksLikeMinecraft
<1>9. (c.release = release => r = 1000) /\ (c.release # release => r = 0)
  BY <1>6
<1>10. l + m + n + r + k \in Nat /\ l + m + n + r + k <= 40000
  BY <1>2
<1>11. l = 20000 /\ m = 10000 /\ n = 0 /\ r = 1000 => l + m + n + r + k > 31000
  BY <1>2
<1>12. l = 20000 /\ m = 10000 /\ n = 0 /\ r = 0 => l + m + n + r + k <= 30500
  BY <1>2
<1> QED
  BY <1>7, <1>8, <1>9, <1>10, <1>11, <1>12

(* The best of some candidates is one of them, and none has a better score. *)
LEMMA BestIs ==
  ASSUME NEW candidates \in SUBSET Sources, candidates # {}, NEW release
  PROVE  /\ BestOf(candidates, release) \in candidates
         /\ \A d \in candidates : Score(d, release) <= Score(BestOf(candidates, release), release)
<1>1. PICK S \in [candidates -> Nat] : \A c \in candidates : S[c] = Score(c, release) /\ S[c] <= 40000
  <2> DEFINE F == [c \in candidates |-> Score(c, release)]
  <2>1. \A c \in candidates : Score(c, release) \in Nat /\ Score(c, release) <= 40000
    BY ScoreIs
  <2>2. F \in [candidates -> Nat] /\ \A c \in candidates : F[c] = Score(c, release)
    BY <2>1
  <2>3. \A c \in candidates : F[c] <= 40000
    BY <2>1, <2>2
  <2> HIDE DEF F
  <2> QED
    BY <2>2, <2>3
<1>2. \A c \in candidates : c.path \in Nat
  <2> TAKE c \in candidates
  <2>1. c.path \in 1 .. 3
    BY DEF Sources
  <2> QED
    BY <2>1
<1> DEFINE Lacks == {40000 - S[c] : c \in candidates}
<1>3. Lacks \in SUBSET Nat /\ Lacks # {}
  <2>1. \A c \in candidates : 40000 - S[c] \in Nat
    <3> TAKE c \in candidates
    <3>1. S[c] \in Nat /\ S[c] <= 40000
      BY <1>1
    <3> QED
      BY <3>1
  <2> QED
    BY <2>1
<1> HIDE DEF Lacks
<1>4. PICK lack \in Lacks : \A m \in Lacks : lack <= m
  BY <1>3, LeastOf
<1>5. PICK top \in candidates : lack = 40000 - S[top]
  BY <1>4 DEF Lacks
<1>6. \A c \in candidates : S[c] <= S[top]
  <2> TAKE c \in candidates
  <2>1. 40000 - S[c] \in Lacks
    BY DEF Lacks
  <2>2. 40000 - S[top] <= 40000 - S[c]
    BY <1>4, <1>5, <2>1
  <2>3. S[c] \in Nat /\ S[top] \in Nat
    BY <1>1
  <2> QED
    BY <2>2, <2>3
<1> DEFINE Ties == {c \in candidates : S[c] = S[top]}
           Paths == {c.path : c \in Ties}
<1>7. Paths \in SUBSET Nat /\ Paths # {}
  BY <1>2
<1> HIDE DEF Paths
<1>8. PICK path \in Paths : \A m \in Paths : path <= m
  BY <1>7, LeastOf
<1>9. PICK best \in Ties : path = best.path
  BY <1>8 DEF Paths
<1>10. \A c \in Ties : best.path <= c.path
  BY <1>8, <1>9 DEF Paths
<1> DEFINE Wins(c) == \A d \in candidates :
        \/ Score(c, release) > Score(d, release)
        \/ (Score(c, release) = Score(d, release) /\ c.path <= d.path)
<1>11. best \in candidates /\ S[best] = S[top]
  BY <1>9
<1>12. ASSUME NEW d \in candidates
       PROVE  S[best] > S[d] \/ (S[best] = S[d] /\ best.path <= d.path)
  <2>1. CASE S[d] = S[top]
    BY <1>10, <1>11, <2>1
  <2>2. CASE S[d] # S[top]
    <3>1. PICK m \in Nat, n \in Nat : m = S[d] /\ n = S[top]
      BY <1>1
    <3>2. m # n /\ m <= n
      BY <1>6, <2>2, <3>1
    <3>3. n > m
      BY <3>2
    <3> QED
      BY <1>11, <3>1, <3>3
  <2> QED
    BY <2>1, <2>2
<1>13. best \in candidates /\ Wins(best)
  BY <1>1, <1>11, <1>12
<1>14. BestOf(candidates, release) \in candidates /\ Wins(BestOf(candidates, release))
  BY <1>13 DEF BestOf
<1> HIDE DEF Ties
<1>15. PICK b \in candidates : b = BestOf(candidates, release)
  BY <1>14
<1>16. ASSUME NEW d \in candidates PROVE Score(d, release) <= Score(b, release)
  <2>1. PICK m \in Nat, n \in Nat : m = Score(d, release) /\ n = Score(b, release)
    BY <1>1
  <2>2. n > m \/ n = m
    BY <1>14, <1>15, <2>1
  <2>3. m <= n
    BY <2>2
  <2> QED
    BY <2>1, <2>3
<1> QED
  BY <1>15, <1>16

(* Two halves that are indexed together are of the release that was asked for. *)
LEMMA HalvesAgree ==
  ASSUME IsMachine(machine), NEW release
  PROVE  \/ SelectedSources(release) = {} /\ Companions(SelectedSources(release), release) = {}
         \/ \E s \in Sources : /\ SelectedSources(release) = {s}
                               /\ \A c \in Companions(SelectedSources(release), release) :
                                     c \in Sources /\ c.release = s.release
<1> DEFINE looking == {c \in JarCandidates(release) : LooksLikeMinecraft(c)}
           named == {c \in looking : c.minecraft}
           picked == SelectedSources(release)
           others == {c \in JarCandidates(release) \ picked :
                        /\ LooksLikeMinecraft(c) /\ c.half # Unset /\ c.release = release
                        /\ \A s \in picked : s.half \notin {Unset, c.half}}
<1>1. looking \in SUBSET Sources /\ named \in SUBSET looking /\ others \in SUBSET looking
  BY DEF IsMachine, JarCandidates
<1>2. \A c \in looking : c.half # Unset => c.minecraft /\ ~c.merged
  BY DEF IsMachine, JarCandidates
<1>3. picked = IF named # {} THEN {BestOf(named, release)}
               ELSE IF looking # {} THEN {BestOf(looking, release)} ELSE {}
  BY DEF SelectedSources
<1>4. Companions(picked, release) =
         IF picked = {} \/ others = {} THEN {} ELSE {BestOf(others, release)}
  BY DEF Companions
<1> HIDE DEF looking, named, picked
<1>5. CASE picked = {}
  BY <1>4, <1>5 DEF picked
<1>6. CASE picked # {}
  <2>1. PICK s \in looking : /\ picked = {s}
                             /\ named # {} => s \in named /\ \A d \in named : Score(d, release) <= Score(s, release)
    <3>1. CASE named # {}
      <4>1. named \in SUBSET Sources
        BY <1>1
      <4> QED
        BY <1>1, <1>3, <3>1, <4>1, BestIs
    <3>2. CASE named = {}
      BY <1>1, <1>3, <1>6, <3>2, BestIs
    <3> QED
      BY <3>1, <3>2
  <2>2. ASSUME NEW c \in Companions(picked, release) PROVE c \in Sources /\ c.release = s.release
    <3>1. c \in others
      <4>1. others # {} /\ c = BestOf(others, release) /\ others \in SUBSET Sources
        BY <1>1, <1>4, <2>2
      <4> HIDE DEF others
      <4> QED
        BY <4>1, BestIs
    <3>2. c \in looking /\ c.half # Unset /\ c.release = release /\ s.half # Unset
      BY <1>1, <2>1, <3>1
    <3>3. c.minecraft /\ ~c.merged /\ s.minecraft /\ ~s.merged
      BY <1>2, <3>2
    <3>4. c \in named
      BY <3>2, <3>3 DEF named
    <3>5. Score(c, release) <= Score(s, release)
      BY <2>1, <3>4
    <3>6. s \in Sources /\ c \in Sources
      BY <1>1, <3>2
    <3>7. s.release = release
      <4>1. Score(c, release) \in Nat /\ Score(s, release) \in Nat
        BY <3>6, ScoreIs
      <4>2. PICK m \in Nat, n \in Nat : m = Score(c, release) /\ n = Score(s, release)
        BY <4>1
      <4>3. m > 31000
        BY <3>2, <3>3, <3>6, <4>2, ScoreIs
      <4>4. s.release # release => n <= 30500
        BY <3>3, <3>6, <4>2, ScoreIs
      <4>5. m <= n
        BY <3>5, <4>2
      <4>6. ~(n <= 30500)
        BY <4>3, <4>5
      <4> QED
        BY <4>4, <4>6
    <3> QED
      BY <3>2, <3>6, <3>7
  <2>3. s \in Sources
    BY <1>1
  <2> QED
    BY <2>1, <2>2, <2>3 DEF picked
<1> QED
  BY <1>5, <1>6

-----------------------------------------------------------------------------
(* A call, after the synthesis of its target *)
LEMMA MeantIs ==
  ASSUME IsMachine(machine), NEW asked, IsCall(asked),
         asked.kind = "workspace" => machine.project.version # Unset
  PROVE  /\ IsCall(Meant(asked)) /\ Meant(asked).kind \in {"version", "jar", "coordinate"}
         /\ Meant(asked).strict = asked.strict
         /\ asked.kind = "dependency" =>
               Meant(asked).kind = "coordinate" /\ Meant(asked).value.kind = "library"
<1>1. asked \in [kind : {"version", "jar", "coordinate", "workspace", "dependency"}, value : Jars,
                 label : Labels \cup {Unset}, scope : {Unset, "vanilla", "merged"},
                 project : BOOLEAN, prefer : BOOLEAN, strict : BOOLEAN, decompile : BOOLEAN]
  BY DEF IsCall
<1>2. /\ machine.project.version \in Releases \cup {Unset}
      /\ machine.project.mapping \in Labels \cup {Unset} /\ machine.project.loader \in BOOLEAN
  BY DEF IsMachine
<1>3. PICK client \in Jars : client = Client(machine.project.version) /\ client.kind = "client"
  <2>1. Client(machine.project.version) = [kind |-> "client", release |-> machine.project.version, path |-> 0]
    BY DEF Client, Jar
  <2> QED
    BY <1>2, <2>1 DEF Jars
<1>4. CASE asked.kind = "workspace"
  <2>1. PICK label \in Labels \cup {Unset} :
          label = IF asked.label # Unset THEN asked.label
                  ELSE IF machine.project.mapping # Unset THEN machine.project.mapping
                  ELSE "obfuscated"
    BY <1>1, <1>2 DEF Labels
  <2>2. PICK scope \in {Unset, "vanilla", "merged"} :
          scope = IF asked.scope # Unset THEN asked.scope
                  ELSE IF machine.project.loader THEN "merged" ELSE "vanilla"
    BY <1>1, <1>2
  <2>3. PICK call : call = [asked EXCEPT !.kind = "version", !.value = client, !.label = label, !.scope = scope]
    OBVIOUS
  <2>4. Meant(asked) = call
    BY <1>1, <1>3, <1>4, <2>1, <2>2, <2>3 DEF Meant, OfWorkspace
  <2>5. /\ call \in [kind : {"version", "jar", "coordinate", "workspace", "dependency"}, value : Jars,
                     label : Labels \cup {Unset}, scope : {Unset, "vanilla", "merged"},
                     project : BOOLEAN, prefer : BOOLEAN, strict : BOOLEAN, decompile : BOOLEAN]
        /\ call.kind = "version" /\ call.value = client /\ call.strict = asked.strict
    BY <1>1, <2>3
  <2> QED
    BY <1>3, <1>4, <2>4, <2>5 DEF IsCall
<1>5. CASE asked.kind = "dependency"
  <2>1. PICK call : call = [asked EXCEPT !.kind = "coordinate"]
    OBVIOUS
  <2>2. Meant(asked) = call
    BY <1>5, <2>1 DEF Meant
  <2>3. /\ call \in [kind : {"version", "jar", "coordinate", "workspace", "dependency"}, value : Jars,
                     label : Labels \cup {Unset}, scope : {Unset, "vanilla", "merged"},
                     project : BOOLEAN, prefer : BOOLEAN, strict : BOOLEAN, decompile : BOOLEAN]
        /\ call.kind = "coordinate" /\ call.value = asked.value /\ call.strict = asked.strict
    BY <1>1, <2>1
  <2>4. asked.value.kind = "library"
    BY <1>5 DEF IsCall
  <2> QED
    BY <2>2, <2>3, <2>4 DEF IsCall
<1>6. CASE asked.kind \notin {"workspace", "dependency"}
  <2>1. asked.kind \in {"version", "jar", "coordinate"}
    BY <1>1, <1>6
  <2>2. CASE Meant(asked) = asked
    BY <1>6, <2>1, <2>2
  <2>3. CASE Meant(asked) = [asked EXCEPT !.value = client]
    <3>1. PICK call : call = [asked EXCEPT !.value = client]
      OBVIOUS
    <3>2. /\ call \in [kind : {"version", "jar", "coordinate", "workspace", "dependency"}, value : Jars,
                       label : Labels \cup {Unset}, scope : {Unset, "vanilla", "merged"},
                       project : BOOLEAN, prefer : BOOLEAN, strict : BOOLEAN, decompile : BOOLEAN]
          /\ call.kind = asked.kind /\ call.value = client /\ call.strict = asked.strict
      BY <1>1, <3>1
    <3>3. Meant(asked) = call
      BY <2>3, <3>1
    <3> QED
      BY <1>3, <1>6, <2>1, <3>2, <3>3 DEF IsCall
  <2>4. Meant(asked) = asked \/ Meant(asked) = [asked EXCEPT !.value = client]
    BY <1>3, <1>6 DEF Meant
  <2> QED
    BY <2>2, <2>3, <2>4
<1> QED
  BY <1>4, <1>5, <1>6

(* What a refused caller is told to ask is a call. *)
LEMMA SuggestionIs ==
  ASSUME IsMachine(machine), NEW call, IsCall(call), call.kind \in {"version", "jar", "coordinate"},
         NEW label, NEW context
  PROVE  IsCall(Suggestion(call, label, context))
<1>1. /\ call.value \in Jars /\ call.scope \in {Unset, "vanilla", "merged"}
      /\ call.kind = "version" => call.value.kind = "client"
  BY DEF IsCall
<1>2. NoJar \in Jars
  BY DEF NoJar, Jar, Jars
<1>3. CASE WorkspaceRetry(call, context)
  <2>1. machine.project.mapping \in Labels \cup {Unset}
    BY DEF IsMachine
  <2>2. Suggestion(call, label, context) =
          [kind |-> "workspace", value |-> NoJar, label |-> machine.project.mapping, scope |-> Unset,
           project |-> TRUE, prefer |-> FALSE, strict |-> FALSE, decompile |-> TRUE]
    BY <1>3 DEF Suggestion, Call
  <2> QED
    BY <1>2, <2>1, <2>2 DEF IsCall
<1>4. CASE ~WorkspaceRetry(call, context)
  <2>1. \E l \in {"mojang", "obfuscated"}, s \in {Unset, "vanilla", "merged"}, p \in BOOLEAN :
          Suggestion(call, label, context) =
            [kind |-> call.kind, value |-> call.value, label |-> l, scope |-> s,
             project |-> p, prefer |-> FALSE, strict |-> FALSE, decompile |-> TRUE]
    BY <1>1, <1>4 DEF Suggestion, LegacyFallback, Call
  <2>2. PICK l \in {"mojang", "obfuscated"}, s \in {Unset, "vanilla", "merged"}, p \in BOOLEAN :
          Suggestion(call, label, context) =
            [kind |-> call.kind, value |-> call.value, label |-> l, scope |-> s,
             project |-> p, prefer |-> FALSE, strict |-> FALSE, decompile |-> TRUE]
    BY <2>1
  <2>3. l \in Labels \cup {Unset}
    BY DEF Labels
  <2> QED
    BY <1>1, <2>2, <2>3 DEF IsCall
<1> QED
  BY <1>3, <1>4

-----------------------------------------------------------------------------
(* What the database has of the artifacts *)
Ids == [space : {"coord", "jar"}, jar : Jars, decompile : BOOLEAN,
        variant : {"mojang-remapped", "pass"}]
IdRows == [label : Labels, jar : Jars, companions : SUBSET Jars, remapped : BOOLEAN,
           unobfuscated : BOOLEAN,
           alias : [kind : {"version", "jar", "coordinate"}, of : Ids]]

(* The names that the text of an id is in *)
TextNames(id) ==
    IF id.variant = "mojang-remapped" \/ Unobfuscated(id.jar.release) THEN "mojang" ELSE "obfuscated"

RowTrue(id, row) ==
    /\ row \in IdRows
    /\ id.jar.kind = "client" =>
         /\ row.jar = id.jar /\ (row.remapped <=> id.variant = "mojang-remapped")
         /\ (row.unobfuscated <=> Unobfuscated(id.jar.release))
         /\ Reported(row.label, row.unobfuscated) = TextNames(id)

RowsTrue == \A id \in DOMAIN rows : RowTrue(id, rows[id])

ReplyTrue ==
    /\ reply.status = "not applied" => IsCall(reply.suggested)
    /\ reply.status = "resolved" =>
         /\ reply.id \in DOMAIN rows
         /\ reply.id.jar.kind = "client" =>
               Reported(reply.applied, reply.unobfuscated) = TextNames(reply.id)
    /\ ReleasesTrue

(* The invariant of the resolution. *)
ResolveInv == IsMachine(machine) /\ RowsTrue /\ ReplyTrue

(* The invariant is what the property says, and more. *)
LEMMA ResolveInvImplies ==
  ASSUME ResolveInv PROVE ResolutionRight
<1>1. LabelsTrue
  <2>1. SUFFICES ASSUME reply.status = "resolved", reply.id.jar.kind = "client"
                 PROVE  /\ Reported(reply.applied, reply.unobfuscated) = NamesOf(rows[reply.id])
                        /\ Reported(rows[reply.id].label, rows[reply.id].unobfuscated)
                              = NamesOf(rows[reply.id])
    BY DEF LabelsTrue
  <2>2. /\ reply.id \in DOMAIN rows
        /\ Reported(reply.applied, reply.unobfuscated) = TextNames(reply.id)
    BY <2>1 DEF ResolveInv, ReplyTrue
  <2>3. RowTrue(reply.id, rows[reply.id])
    BY <2>2 DEF ResolveInv, RowsTrue
  <2>4. NamesOf(rows[reply.id]) = TextNames(reply.id)
    BY <2>1, <2>3 DEF RowTrue, NamesOf, TextNames
  <2> QED
    BY <2>1, <2>2, <2>3, <2>4 DEF RowTrue
<1> QED
  BY <1>1 DEF ResolutionRight, ResolveInv, ReplyTrue

(* A call that is not served leaves the rows. *)
LEMMA NotServed ==
  ASSUME ResolveInv, UNCHANGED <<machine, rows>>,
         reply'.status = "refused" \/ (reply'.status = "not applied" /\ IsCall(reply'.suggested))
  PROVE  ResolveInv'
<1>1. IsMachine(machine)'
  BY DEF ResolveInv
<1>2. RowsTrue'
  BY DEF ResolveInv, RowsTrue, RowTrue, TextNames, Unobfuscated
<1>3. ReplyTrue'
  BY DEF ReplyTrue, ReleasesTrue
<1> QED
  BY <1>1, <1>2, <1>3 DEF ResolveInv

(* A row that is there keeps its text and its label, and one that is not is put. *)
LEMMA IngestedTrue ==
  ASSUME RowsTrue, NEW id \in Ids, NEW row, RowTrue(id, row)
  PROVE  /\ DOMAIN Ingested(id, row) = DOMAIN rows \cup {id}
         /\ \A i \in DOMAIN Ingested(id, row) : RowTrue(i, Ingested(id, row)[i])
<1>1. row \in IdRows
  BY DEF RowTrue
<1>2. CASE id \in DOMAIN rows
  <2>1. PICK old : old = rows[id]
    OBVIOUS
  <2>2. RowTrue(id, old)
    BY <1>2, <2>1 DEF RowsTrue
  <2>3. PICK also \in BOOLEAN : also = (old.unobfuscated \/ row.unobfuscated)
    OBVIOUS
  <2>4. PICK new : new = [old EXCEPT !.alias = row.alias, !.unobfuscated = also]
    OBVIOUS
  <2>5. Ingested(id, row) = [rows EXCEPT ![id] = new]
    BY <1>2, <2>1, <2>3, <2>4 DEF Ingested
  <2>6. old \in IdRows
    BY <2>2 DEF RowTrue
  <2>7. /\ new \in IdRows /\ new.label = old.label /\ new.jar = old.jar /\ new.remapped = old.remapped
        /\ new.unobfuscated = also
    BY <1>1, <2>4, <2>6 DEF IdRows
  <2>8. RowTrue(id, new)
    <3>1. id.jar.kind = "client" => (also <=> old.unobfuscated)
      <4>1. id.jar.kind = "client" => (old.unobfuscated <=> Unobfuscated(id.jar.release))
        BY <2>2 DEF RowTrue
      <4>2. id.jar.kind = "client" => (row.unobfuscated <=> Unobfuscated(id.jar.release))
        BY DEF RowTrue
      <4> QED
        BY <2>3, <4>1, <4>2
    <3>2. old.unobfuscated \in BOOLEAN
      BY <2>6 DEF IdRows
    <3>3. id.jar.kind = "client" => also = old.unobfuscated
      BY <3>1, <3>2
    <3> QED
      BY <2>2, <2>7, <3>3 DEF RowTrue
  <2>9. /\ DOMAIN Ingested(id, row) = DOMAIN rows
        /\ \A i \in DOMAIN rows : Ingested(id, row)[i] = IF i = id THEN new ELSE rows[i]
    BY <2>5
  <2> QED
    BY <1>2, <2>8, <2>9 DEF RowsTrue
<1>3. CASE id \notin DOMAIN rows
  <2>1. Ingested(id, row) = [i \in DOMAIN rows \cup {id} |-> IF i = id THEN row ELSE rows[i]]
    BY <1>3 DEF Ingested
  <2>2. /\ DOMAIN Ingested(id, row) = DOMAIN rows \cup {id}
        /\ \A i \in DOMAIN rows \cup {id} : Ingested(id, row)[i] = IF i = id THEN row ELSE rows[i]
    BY <2>1
  <2> QED
    BY <2>2 DEF RowsTrue
<1> QED
  BY <1>2, <1>3

(* What is served is labelled with the names it is in, and its halves are of one release. *)
LEMMA ServeRight ==
  ASSUME ResolveInv, UNCHANGED machine, NEW asked, NEW call, call = Meant(asked), IsCall(call),
         call.kind \in {"version", "jar", "coordinate"}, call.strict = asked.strict,
         NEW jar \in Jars, NEW applied \in Labels, NEW unobfuscated \in BOOLEAN,
         NEW discovered, NEW remapped \in BOOLEAN,
         jar.kind = "client" =>
            /\ unobfuscated <=> Unobfuscated(jar.release)
            /\ Reported(applied, unobfuscated)
                  = IF remapped \/ Unobfuscated(jar.release) THEN "mojang" ELSE "obfuscated",
         \/ discovered = {} /\ (jar.kind = "loom" => call.kind # "version")
         \/ \E s \in Sources : /\ discovered = {s} /\ jar = Loom(s)
                               /\ \A c \in Companions(discovered, call.value.release) :
                                     c \in Sources /\ c.release = s.release,
         Serve(asked, call, jar, applied, unobfuscated, discovered, remapped)
  PROVE  ResolveInv'
<1>1. PICK id : id = ArtifactId(call, jar, remapped)
  OBVIOUS
<1>2. PICK elsewhere \in BOOLEAN : elsewhere = \E c \in discovered : c.release # call.value.release
  OBVIOUS
<1>3. PICK companions : companions = {Loom(c) : c \in Companions(discovered, call.value.release)}
  OBVIOUS
<1>4. PICK alias : alias = Alias(call, id)
  OBVIOUS
<1>5. CASE elsewhere /\ call.strict
  <2>1. TurnAway(asked, "another version")
    BY <1>2, <1>5 DEF Serve
  <2>2. reply'.status = "refused" /\ UNCHANGED rows
    BY <2>1 DEF TurnAway
  <2> QED
    BY <2>2, NotServed
<1>6. CASE ~(elsewhere /\ call.strict)
  <2>1. PICK row : row = Row(applied, jar, companions, remapped, unobfuscated, alias)
    OBVIOUS
  <2>2. /\ rows' = Ingested(id, row)
        /\ reply' = [status |-> "resolved", asked |-> asked, id |-> id, applied |-> applied,
                     unobfuscated |-> unobfuscated, approximated |-> elsewhere,
                     companions |-> companions, alias |-> alias]
    BY <1>1, <1>2, <1>3, <1>4, <1>6, <2>1 DEF Serve
  <2>3. id \in Ids /\ id.jar = jar /\ (remapped <=> id.variant = "mojang-remapped")
    <3>1. PICK d \in BOOLEAN : d = ~HasSources(jar)
      OBVIOUS
    <3>2. id = [space |-> IF call.kind = "coordinate" THEN "coord" ELSE "jar", jar |-> jar,
                decompile |-> d, variant |-> IF remapped THEN "mojang-remapped" ELSE "pass"]
      BY <1>1, <3>1 DEF ArtifactId
    <3> QED
      BY <3>2 DEF Ids
  <2>4. /\ companions \in SUBSET Jars /\ \A half \in companions : half.release = jar.release
        /\ discovered = {} => ~elsewhere
        /\ discovered # {} => elsewhere = (jar.release # call.value.release)
        /\ jar.kind = "loom" /\ call.kind = "version" => discovered # {}
    <3>1. CASE discovered = {} /\ (jar.kind = "loom" => call.kind # "version")
      <4>1. Companions(discovered, call.value.release) = {}
        BY <3>1 DEF Companions
      <4>2. companions = {}
        BY <1>3, <4>1
      <4> QED
        BY <1>2, <3>1, <4>2
    <3>2. CASE discovered # {}
      <4>1. PICK s \in Sources : /\ discovered = {s} /\ jar = Loom(s)
                                 /\ \A c \in Companions(discovered, call.value.release) :
                                       c \in Sources /\ c.release = s.release
        BY <3>2
      <4>2. \A c \in Sources : Loom(c) \in Jars /\ Loom(c).release = c.release
        <5> TAKE c \in Sources
        <5>1. c.release \in Releases \cup {Unset} /\ c.path \in 0 .. 3
          BY DEF Sources
        <5> QED
          BY <5>1 DEF Loom, Jar, Jars
      <4>3. companions \in SUBSET Jars /\ \A half \in companions : half.release = jar.release
        BY <1>3, <4>1, <4>2
      <4>4. elsewhere = (jar.release # call.value.release)
        BY <1>2, <4>1, <4>2
      <4> QED
        BY <3>2, <4>3, <4>4
    <3> QED
      BY <3>1, <3>2
  <2>5. Reported(applied, unobfuscated) = TextNames(id) \/ jar.kind # "client"
    BY <2>3 DEF TextNames
  <2>6. RowTrue(id, row)
    <3>1. alias \in [kind : {"version", "jar", "coordinate"}, of : Ids]
      BY <1>4, <2>3 DEF Alias
    <3>2. row = [label |-> applied, jar |-> jar, companions |-> companions, remapped |-> remapped,
                 unobfuscated |-> unobfuscated, alias |-> alias]
      BY <2>1 DEF Row
    <3>3. /\ row \in IdRows /\ row.jar = jar /\ row.remapped = remapped
          /\ row.unobfuscated = unobfuscated /\ row.label = applied
      BY <2>4, <3>1, <3>2 DEF IdRows
    <3> QED
      BY <2>3, <2>5, <3>3 DEF RowTrue
  <2>7. RowsTrue
    BY DEF ResolveInv
  <2>8. /\ DOMAIN rows' = DOMAIN rows \cup {id}
        /\ \A i \in DOMAIN rows' : RowTrue(i, rows'[i])
    BY <2>2, <2>3, <2>6, <2>7, IngestedTrue
  <2>9. RowsTrue'
    BY <2>8 DEF RowsTrue, RowTrue, TextNames, Unobfuscated
  <2>10. IsMachine(machine)'
    BY DEF ResolveInv
  <2>11. ReleasesTrue'
    <3>1. Meant(asked)' = Meant(asked)
      BY DEF Meant, OfWorkspace
    <3>2. \A half \in companions : half.release = id.jar.release
      BY <2>3, <2>4
    <3>3. id.jar.kind = "loom" /\ call.kind = "version" /\ id.jar.release # call.value.release
             => elsewhere /\ ~asked.strict
      BY <1>6, <2>3, <2>4
    <3> QED
      BY <2>2, <3>1, <3>2, <3>3 DEF ReleasesTrue
  <2>12. ReplyTrue'
    <3>1. id \in DOMAIN rows'
      BY <2>8
    <3>2. id.jar.kind = "client" => Reported(applied, unobfuscated) = TextNames(id)'
      BY <2>3, <2>5 DEF TextNames, Unobfuscated
    <3> QED
      BY <2>2, <2>11, <3>1, <3>2 DEF ReplyTrue, Reported, TextNames, Unobfuscated
  <2> QED
    BY <2>9, <2>10, <2>12 DEF ResolveInv
<1> QED
  BY <1>5, <1>6

(* The label that is in effect is one, whatever was asked for. *)
LEMMA EffectiveIs ==
  ASSUME NEW call, IsCall(call), NEW unobfuscated \in BOOLEAN
  PROVE  /\ Effective(call, unobfuscated) \in Labels
         /\ Effective(call, unobfuscated) = "mojang" <=> Label(call) = "mojang"
<1>1. call.label \in Labels \cup {Unset}
  BY DEF IsCall
<1>2. Label(call) \in Labels
  BY <1>1 DEF Label, Labels
<1> QED
  BY <1>2 DEF Effective, Labels

(* resolveArtifact once the target is known: the text of the game's own jar is labelled
   with the names it is in, whether it is served as it is or remapped. *)
LEMMA ResolveCallRight ==
  ASSUME ResolveInv, UNCHANGED machine, NEW asked, NEW call, call = Meant(asked), IsCall(call),
         call.kind \in {"version", "jar", "coordinate"}, call.strict = asked.strict,
         asked.kind = "dependency" => call.kind = "coordinate" /\ call.value.kind = "library",
         NEW context, NEW ready \in BOOLEAN, NEW mapped \in BOOLEAN,
         ResolveCall(asked, call, context, ready, mapped)
  PROVE  ResolveInv'
<1>1. PICK early \in BOOLEAN : early = NamesUnobfuscated(call, asked.kind, FALSE)
  BY DEF NamesUnobfuscated
<1>2. PICK wanted : wanted = Effective(call, early)
  OBVIOUS
<1>3. PICK discovered :
        discovered = IF call.kind = "version" /\ wanted = "mojang" /\ ~early /\ call.scope # "vanilla"
                     THEN SelectedSources(call.value.release) ELSE {}
  OBVIOUS
<1>4. PICK jar : jar = IF discovered = {} THEN call.value ELSE Loom(CHOOSE c \in discovered : TRUE)
  OBVIOUS
<1>5. PICK remap \in BOOLEAN :
        remap = (discovered = {} /\ RemapAllowed(call, asked.kind, wanted, early, ready))
  BY DEF RemapAllowed
<1>6. PICK sources \in BOOLEAN : sources = HasSources(jar)
  BY DEF HasSources
<1>7. PICK unobfuscated \in BOOLEAN : unobfuscated = NamesUnobfuscated(call, asked.kind, ~sources)
  BY DEF NamesUnobfuscated
<1>8. PICK label : label = Effective(call, unobfuscated)
  OBVIOUS
<1>9. PICK applied : applied = Applied(label, unobfuscated, sources, remap)
  OBVIOUS
<1>10. PICK remapped \in BOOLEAN : remapped = (remap /\ ~sources)
  OBVIOUS
<1>11. PICK suggested : suggested = Suggestion(call, label, context)
  OBVIOUS
<1>12. \/ TurnAway(asked, "no sources")
       \/ TurnAway(asked, "no mappings")
       \/ applied # Unset /\ Serve(asked, call, jar, applied, unobfuscated, discovered, remapped)
       \/ asked.kind = "dependency" /\ Serve(asked, call, jar, "obfuscated", unobfuscated, {}, FALSE)
       \/ Suggest(asked, suggested)
  BY <1>1, <1>2, <1>3, <1>4, <1>5, <1>6, <1>7, <1>8, <1>9, <1>10, <1>11 DEF ResolveCall
<1>13. call.value \in Jars /\ (call.kind = "version" => call.value.kind = "client")
  BY DEF IsCall
<1>14. IsMachine(machine)
  BY DEF ResolveInv
<1>15. \/ discovered = {} /\ jar = call.value
       \/ /\ call.kind = "version"
          /\ \E s \in Sources : /\ discovered = {s} /\ jar = Loom(s)
                                /\ \A c \in Companions(discovered, call.value.release) :
                                      c \in Sources /\ c.release = s.release
  <2>1. CASE discovered = {}
    BY <1>4, <2>1
  <2>2. CASE discovered # {}
    <3>1. call.kind = "version" /\ discovered = SelectedSources(call.value.release)
      BY <1>3, <2>2
    <3>2. PICK s \in Sources : /\ discovered = {s}
                               /\ \A c \in Companions(discovered, call.value.release) :
                                     c \in Sources /\ c.release = s.release
      BY <1>14, <2>2, <3>1, HalvesAgree
    <3>3. jar = Loom(s)
      BY <1>4, <3>2
    <3> QED
      BY <3>1, <3>2, <3>3
  <2> QED
    BY <2>1, <2>2
<1>16. \A s \in Sources : Loom(s) \in Jars /\ Loom(s).kind = "loom"
  <2> TAKE s \in Sources
  <2>1. s.release \in Releases \cup {Unset} /\ s.path \in 0 .. 3
    BY DEF Sources
  <2> QED
    BY <2>1 DEF Loom, Jar, Jars
<1>17. jar \in Jars /\ (jar.kind = "client" => discovered = {} /\ jar = call.value)
  BY <1>13, <1>15, <1>16
<1>18. \/ discovered = {} /\ (jar.kind = "loom" => call.kind # "version")
       \/ \E s \in Sources : /\ discovered = {s} /\ jar = Loom(s)
                             /\ \A c \in Companions(discovered, call.value.release) :
                                   c \in Sources /\ c.release = s.release
  BY <1>13, <1>15
<1>19. CASE TurnAway(asked, "no sources") \/ TurnAway(asked, "no mappings")
  <2>1. reply'.status = "refused" /\ UNCHANGED rows
    <3>1. ASSUME NEW why, TurnAway(asked, why)
          PROVE  reply'.status = "refused" /\ UNCHANGED rows
      BY <3>1 DEF TurnAway
    <3> QED
      BY <1>19, <3>1
  <2> QED
    BY <2>1, NotServed
<1>20. CASE Suggest(asked, suggested)
  <2>1. IsCall(suggested)
    BY <1>11, <1>14, SuggestionIs
  <2>2. reply'.status = "not applied" /\ reply'.suggested = suggested /\ UNCHANGED rows
    BY <1>20 DEF Suggest
  <2> QED
    BY <2>1, <2>2, NotServed
<1>21. CASE applied # Unset /\ Serve(asked, call, jar, applied, unobfuscated, discovered, remapped)
  <2>1. label \in Labels /\ (wanted = "mojang" <=> label = "mojang")
    BY <1>2, <1>8, EffectiveIs
  <2>2. applied \in Labels
    BY <1>9, <1>21, <2>1 DEF Applied, Labels, Unset
  <2>3. ASSUME jar.kind = "client"
        PROVE  /\ unobfuscated <=> Unobfuscated(jar.release)
               /\ Reported(applied, unobfuscated)
                     = IF remapped \/ Unobfuscated(jar.release) THEN "mojang" ELSE "obfuscated"
    <3>1. ~sources /\ jar = call.value /\ asked.kind # "dependency"
      BY <1>6, <1>17, <2>3 DEF HasSources
    <3>2. unobfuscated <=> Unobfuscated(jar.release)
      BY <1>7, <2>3, <3>1 DEF NamesUnobfuscated
    <3>3. remap => label = "mojang" /\ ~unobfuscated
      <4>1. remap => wanted = "mojang" /\ ~early /\ call.kind = "version"
        BY <1>5 DEF RemapAllowed
      <4>2. call.kind = "version" => (early <=> Unobfuscated(jar.release))
        BY <1>1, <2>3, <3>1 DEF NamesUnobfuscated
      <4> QED
        BY <2>1, <3>2, <4>1, <4>2
    <3>4. remapped <=> remap
      BY <1>10, <3>1
    <3>5. \/ label = "obfuscated" /\ applied = "obfuscated"
          \/ label = "mojang" /\ unobfuscated /\ applied = "mojang"
          \/ label = "mojang" /\ remap /\ applied = "mojang"
      BY <1>9, <1>21, <3>1 DEF Applied
    <3>6. Reported(applied, unobfuscated) = IF remapped \/ unobfuscated THEN "mojang" ELSE "obfuscated"
      BY <3>3, <3>4, <3>5 DEF Reported
    <3> QED
      BY <3>2, <3>6
  <2> QED
    BY <1>17, <1>18, <1>21, <2>2, <2>3, ServeRight
<1>22. CASE asked.kind = "dependency" /\ Serve(asked, call, jar, "obfuscated", unobfuscated, {}, FALSE)
  <2>1. discovered = {} /\ jar.kind = "library"
    BY <1>15, <1>22
  <2>2. "obfuscated" \in Labels
    BY DEF Labels
  <2>3. PICK none : none = {}
    OBVIOUS
  <2>4. Serve(asked, call, jar, "obfuscated", unobfuscated, none, FALSE)
    BY <1>22, <2>3
  <2> QED
    BY <1>17, <2>1, <2>2, <2>3, <2>4, ServeRight
<1> QED
  BY <1>12, <1>19, <1>20, <1>21, <1>22

(* A call: what is meant is known, or the call is turned away. *)
LEMMA AskRight ==
  ASSUME ResolveInv, NEW asked, IsCall(asked), Ask(asked)
  PROVE  ResolveInv'
<1>1. UNCHANGED machine /\ IsMachine(machine)
  BY DEF Ask, ResolveInv
<1>2. \/ TurnAway(asked, "no version")
      \/ /\ asked.kind = "workspace" => machine.project.version # Unset
         /\ \E ready, mapped \in BOOLEAN :
               ResolveCall(asked, Meant(asked), Detected(asked), ready, mapped)
  BY DEF Ask
<1>3. CASE TurnAway(asked, "no version")
  BY <1>1, <1>3, NotServed DEF TurnAway
<1>4. CASE /\ asked.kind = "workspace" => machine.project.version # Unset
           /\ \E ready, mapped \in BOOLEAN :
                 ResolveCall(asked, Meant(asked), Detected(asked), ready, mapped)
  <2>1. PICK ready \in BOOLEAN, mapped \in BOOLEAN :
           ResolveCall(asked, Meant(asked), Detected(asked), ready, mapped)
    BY <1>4
  <2>2. PICK call : call = Meant(asked)
    OBVIOUS
  <2>3. PICK context : context = Detected(asked)
    OBVIOUS
  <2>4. /\ IsCall(call) /\ call.kind \in {"version", "jar", "coordinate"}
        /\ call.strict = asked.strict
        /\ asked.kind = "dependency" => call.kind = "coordinate" /\ call.value.kind = "library"
    BY <1>1, <1>4, <2>2, MeantIs
  <2>5. ResolveCall(asked, call, context, ready, mapped)
    BY <2>1, <2>2, <2>3
  <2> QED
    BY <1>1, <2>2, <2>4, <2>5, ResolveCallRight
<1> QED
  BY <1>2, <1>3, <1>4

(* Nothing was resolved yet. *)
LEMMA ResolveStarts ==
  ASSUME IsMachine(machine), rows = [i \in {} |-> NoReply], reply = NoReply
  PROVE  ResolveInv
<1>1. DOMAIN rows = {} /\ reply.status = "none"
  BY DEF NoReply
<1> QED
  BY <1>1 DEF ResolveInv, RowsTrue, ReplyTrue, ReleasesTrue

(* A step is a call, of the client or of a client that follows a suggestion. *)
LEMMA ResolveKept ==
  ASSUME ResolveInv, [ResolveNext]_resolveVars
  PROVE  ResolveInv'
<1>1. CASE ResolveNext
  <2>1. PICK asked \in Asked \cup Followed : Ask(asked)
    BY <1>1 DEF ResolveNext
  <2>2. IsCall(asked)
    <3>1. CASE asked \in Asked
      BY <3>1, ResolutionAssumption
    <3>2. CASE asked \in Followed
      <4>1. reply.status = "not applied" /\ asked = reply.suggested
        BY <3>2 DEF Followed
      <4> QED
        BY <4>1 DEF ResolveInv, ReplyTrue
    <3> QED
      BY <3>1, <3>2
  <2> QED
    BY <2>1, <2>2, AskRight
<1>2. CASE UNCHANGED resolveVars
  <2>1. UNCHANGED <<machine, rows, reply>>
    BY <1>2 DEF resolveVars
  <2>2. Meant(reply.asked)' = Meant(reply.asked)
    BY <2>1 DEF Meant, OfWorkspace
  <2>3. IsMachine(machine)' /\ RowsTrue'
    BY <2>1 DEF ResolveInv, RowsTrue, RowTrue, TextNames, Unobfuscated
  <2>4. ReleasesTrue'
    BY <2>1, <2>2 DEF ResolveInv, ReplyTrue, ReleasesTrue
  <2>5. ReplyTrue'
    BY <2>1, <2>4 DEF ResolveInv, ReplyTrue, TextNames, Unobfuscated
  <2> QED
    BY <2>3, <2>5 DEF ResolveInv
<1> QED
  BY <1>1, <1>2

(* The label of what was resolved, in the reply and in the row that later calls are served
   from, tells the names that the text of the jar is in; the text is of the version that was
   asked for unless the reply says that it is approximate; what a strict call gets is of its
   version; and a refused call is told something else than what it asked (resolveArtifact,
   discoverVersionSourceJar). *)
THEOREM ResolvedAlwaysRight == ResolveSpec => []ResolutionRight
<1>1. ResolveInit => ResolveInv
  <2>1. ResolveInit => IsMachine(machine) /\ rows = [i \in {} |-> NoReply] /\ reply = NoReply
    BY ResolutionAssumption DEF ResolveInit
  <2> QED
    BY <2>1, ResolveStarts
<1>2. ResolveInv /\ [ResolveNext]_resolveVars => ResolveInv'
  BY ResolveKept
<1>3. ResolveInv => ResolutionRight
  BY ResolveInvImplies
<1> QED
  BY <1>1, <1>2, <1>3, PTL DEF ResolveSpec

=============================================================================
