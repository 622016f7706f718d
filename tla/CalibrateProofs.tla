---------------------------- MODULE CalibrateProofs ----------------------------
(***************************************************************************)
(* Proofs about Calibrate, for any command lines, measurement files and    *)
(* design data.  First what folds over sets and sequences, filters and     *)
(* quantiles return; then the inductive invariant, part by part: the       *)
(* models and the files (IInv), the data, the correction, the artifact,    *)
(* the folds and the report (AllKept); then what follows from it.          *)
(***************************************************************************)
EXTENDS Calibrate, FiniteSetTheorems, SequenceTheorems, TLAPS

(* A non-empty set of natural numbers has a least element. *)
LEMMA LeastOfNaturals ==
  ASSUME NEW T \in SUBSET Nat, T # {}
  PROVE  \E x \in T : \A y \in T : x <= y
<1>1. PICK x \in T : \A y \in T : ~ (<<y, x>> \in OpToRel(<, Nat))
  BY WFMin, NatLessThanWellFounded
<1>2. \A y \in T : ~ (y < x)
  BY <1>1 DEF OpToRel
<1> QED
  BY <1>2

-----------------------------------------------------------------------------
(* Folds.  What they compute is a function on the subsets of a finite set: *)
(* an element is picked, and added to what is computed of the others.      *)
FoldsBy(D, base, pick, step, g) ==
  /\ g[{}] = base
  /\ \A s \in SUBSET D : s # {} => g[s] = step[<<pick[s], g[s \ {pick[s]}]>>]

(* As far as the subsets of at most n elements. *)
FoldsUpTo(D, V, base, pick, step, n, g) ==
  /\ g \in [SUBSET D -> V]
  /\ g[{}] = base
  /\ \A s \in SUBSET D :
       s # {} /\ Cardinality(s) <= n => g[s] = step[<<pick[s], g[s \ {pick[s]}]>>]

(* There is such a function, as the elements run out. *)
LEMMA FoldExists ==
  ASSUME NEW D, IsFiniteSet(D), NEW V, NEW base \in V,
         NEW pick, \A s \in SUBSET D : s # {} => pick[s] \in s,
         NEW step \in [D \X V -> V]
  PROVE  \E g \in [SUBSET D -> V] : FoldsBy(D, base, pick, step, g)
<1>1. \A s \in SUBSET D : IsFiniteSet(s) /\ Cardinality(s) \in Nat
                          /\ Cardinality(s) <= Cardinality(D)
  BY FS_Subset, FS_CardinalityType
<1>2. \A s \in SUBSET D : s # {} =>
        /\ pick[s] \in D /\ s \ {pick[s]} \in SUBSET D
        /\ Cardinality(s \ {pick[s]}) = Cardinality(s) - 1
  BY <1>1, FS_RemoveElement
<1>3. \A n \in Nat : \E g : FoldsUpTo(D, V, base, pick, step, n, g)
  <2> DEFINE Stuck == {n \in Nat : ~ \E g : FoldsUpTo(D, V, base, pick, step, n, g)}
  <2> SUFFICES ASSUME Stuck # {} PROVE FALSE
    OBVIOUS
  <2>1. PICK n \in Stuck : \A y \in Stuck : n <= y
    BY LeastOfNaturals
  <2>2. n \in Nat /\ ~ \E g : FoldsUpTo(D, V, base, pick, step, n, g)
    BY <2>1
  <2>3. CASE n = 0
    <3> DEFINE g == [s \in SUBSET D |-> base]
    <3>1. \A s \in SUBSET D : s # {} => ~(Cardinality(s) <= 0)
      BY <1>1, FS_EmptySet
    <3>2. g \in [SUBSET D -> V] /\ g[{}] = base
      OBVIOUS
    <3> HIDE DEF g
    <3>3. FoldsUpTo(D, V, base, pick, step, 0, g)
      BY <3>1, <3>2 DEF FoldsUpTo
    <3> QED
      BY <2>2, <2>3, <3>3
  <2>4. CASE n > 0
    <3>1. n - 1 \in Nat /\ n - 1 \notin Stuck
      BY <2>1, <2>2, <2>4
    <3>2. PICK g : FoldsUpTo(D, V, base, pick, step, n - 1, g)
      BY <3>1
    <3> DEFINE more(s) == step[<<pick[s], g[s \ {pick[s]}]>>]
               h == [s \in SUBSET D |-> IF s = {} THEN base ELSE more(s)]
    <3>3. g \in [SUBSET D -> V] /\ g[{}] = base
      BY <3>2 DEF FoldsUpTo
    <3>4. \A s \in SUBSET D : s # {} => more(s) \in V
      BY <1>2, <3>3
    <3>5. \A s \in SUBSET D : s # {} /\ Cardinality(s) <= n - 1 => g[s] = more(s)
      BY <3>2 DEF FoldsUpTo
    <3> HIDE DEF more
    <3>6. h \in [SUBSET D -> V] /\ h[{}] = base /\ \A s \in SUBSET D : s # {} => h[s] = more(s)
      BY <3>4
    <3> HIDE DEF h
    <3>7. \A t \in SUBSET D : Cardinality(t) <= n - 1 => h[t] = g[t]
      BY <3>3, <3>5, <3>6
    <3>8. ASSUME NEW s \in SUBSET D, s # {}, Cardinality(s) <= n
          PROVE  h[s] = step[<<pick[s], h[s \ {pick[s]}]>>]
      <4>1. s \ {pick[s]} \in SUBSET D /\ Cardinality(s \ {pick[s]}) <= n - 1
        BY <1>1, <1>2, <2>2, <3>8
      <4>2. h[s \ {pick[s]}] = g[s \ {pick[s]}]
        BY <3>7, <4>1
      <4> QED
        BY <3>6, <3>8, <4>2 DEF more
    <3>9. FoldsUpTo(D, V, base, pick, step, n, h)
      BY <3>6, <3>8 DEF FoldsUpTo
    <3> QED
      BY <2>2, <3>9
  <2> QED
    BY <2>2, <2>3, <2>4
<1>4. PICK g : FoldsUpTo(D, V, base, pick, step, Cardinality(D), g)
  BY <1>1, <1>3
<1>5. g \in [SUBSET D -> V] /\ FoldsBy(D, base, pick, step, g)
  BY <1>1, <1>4 DEF FoldsUpTo, FoldsBy
<1> QED
  BY <1>5

(* g adds up the weights of the elements of each subset.                   *)
Sums(S, w, g) ==
  /\ g[{}] = 0
  /\ \A s \in SUBSET S : s # {} => \E x \in s : g[s] = w[x] + g[s \ {x}]

(* It matters not which element is taken first.                            *)
LEMMA SumFacts ==
  ASSUME NEW S, IsFiniteSet(S), NEW w, \A x \in S : w[x] \in Nat, NEW g, Sums(S, w, g)
  PROVE  \A s \in SUBSET S : g[s] \in Nat /\ \A x \in s : g[s] = w[x] + g[s \ {x}]
<1> DEFINE Good(s) == g[s] \in Nat /\ \A x \in s : g[s] = w[x] + g[s \ {x}]
           Sizes == {n \in Nat : \E s \in SUBSET S : Cardinality(s) = n /\ ~Good(s)}
<1>1. \A s \in SUBSET S : IsFiniteSet(s) /\ Cardinality(s) \in Nat
  BY FS_Subset, FS_CardinalityType
<1>2. \A s \in SUBSET S : \A x \in s :
        s \ {x} \in SUBSET S /\ Cardinality(s \ {x}) = Cardinality(s) - 1
  BY <1>1, FS_RemoveElement
<1> HIDE DEF Good
<1>3. ASSUME Sizes # {} PROVE FALSE
  <2>1. PICK n \in Sizes : \A y \in Sizes : n <= y
    BY <1>3, LeastOfNaturals
  <2>2. PICK s \in SUBSET S : Cardinality(s) = n /\ ~Good(s)
    BY <2>1
  <2>3. \A t \in SUBSET S : Cardinality(t) < n => Good(t)
    <3> SUFFICES ASSUME NEW t \in SUBSET S, Cardinality(t) < n, ~Good(t) PROVE FALSE
      OBVIOUS
    <3>1. Cardinality(t) \in Sizes
      BY <1>1
    <3> QED
      BY <1>1, <2>1, <3>1
  <2>4. s # {}
    BY <2>2 DEF Good, Sums
  <2>5. PICK y \in s : g[s] = w[y] + g[s \ {y}]
    BY <2>4 DEF Sums
  <2>6. Good(s \ {y})
    BY <1>1, <1>2, <2>2, <2>3
  <2>7. g[s \ {y}] \in Nat /\ w[y] \in Nat
    BY <2>6 DEF Good
  <2>8. ASSUME NEW x \in s PROVE g[s] = w[x] + g[s \ {x}]
    <3>1. CASE x = y
      BY <2>5, <3>1
    <3>2. CASE x # y
      <4>1. Good(s \ {x})
        BY <1>1, <1>2, <2>2, <2>3
      <4>2. x \in s \ {y} /\ y \in s \ {x} /\ (s \ {y}) \ {x} = (s \ {x}) \ {y}
        BY <3>2
      <4> DEFINE rest == (s \ {x}) \ {y}
      <4>3. g[s \ {y}] = w[x] + g[rest] /\ g[s \ {x}] = w[y] + g[rest]
        BY <2>6, <4>1, <4>2 DEF Good
      <4>4. Good(rest)
        <5>1. s \ {x} \in SUBSET S /\ rest \in SUBSET S /\ Cardinality(s \ {x}) = n - 1
              /\ Cardinality(rest) = (n - 1) - 1
          BY <1>2, <2>2, <4>2
        <5> QED
          BY <2>1, <2>3, <5>1
      <4>5. g[rest] \in Nat /\ w[x] \in Nat
        BY <4>4 DEF Good
      <4> HIDE DEF rest
      <4> QED
        BY <2>5, <2>7, <4>3, <4>5
    <3> QED
      BY <3>1, <3>2
  <2>9. g[s] \in Nat
    BY <2>5, <2>7
  <2> QED
    BY <2>2, <2>8, <2>9 DEF Good
<1>4. \A s \in SUBSET S : Good(s)
  <2> SUFFICES ASSUME NEW s \in SUBSET S, ~Good(s) PROVE FALSE
    OBVIOUS
  <2>1. Cardinality(s) \in Sizes
    BY <1>1
  <2> QED
    BY <1>3, <2>1
<1> QED
  BY <1>4 DEF Good

(* Two sums of the same weights agree.                                     *)
LEMMA SumsAgree ==
  ASSUME NEW S, IsFiniteSet(S), NEW T \in SUBSET S, NEW w, NEW v,
         \A x \in S : w[x] \in Nat, \A x \in T : v[x] = w[x],
         NEW g, Sums(S, w, g), NEW h, Sums(T, v, h)
  PROVE  g[T] = h[T]
<1> DEFINE Sizes == {n \in Nat : \E s \in SUBSET T : Cardinality(s) = n /\ g[s] # h[s]}
<1>1. \A s \in SUBSET T : IsFiniteSet(s) /\ Cardinality(s) \in Nat
  BY FS_Subset, FS_CardinalityType
<1>2. \A s \in SUBSET T : \A x \in s :
        s \ {x} \in SUBSET T /\ Cardinality(s \ {x}) = Cardinality(s) - 1
  BY <1>1, FS_RemoveElement
<1>3. IsFiniteSet(T) /\ \A x \in T : v[x] \in Nat
  BY FS_Subset
<1>4. ASSUME Sizes # {} PROVE FALSE
  <2>1. PICK n \in Sizes : \A y \in Sizes : n <= y
    BY <1>4, LeastOfNaturals
  <2>2. PICK s \in SUBSET T : Cardinality(s) = n /\ g[s] # h[s]
    BY <2>1
  <2>3. PICK x \in s : TRUE
    BY <2>2 DEF Sums
  <2>4. g[s] = w[x] + g[s \ {x}]
    <3>1. s \in SUBSET S
      OBVIOUS
    <3> QED
      BY <2>3, <3>1, SumFacts
  <2>5. h[s] = v[x] + h[s \ {x}]
    BY <1>3, <2>3, SumFacts
  <2>6. g[s \ {x}] # h[s \ {x}]
    BY <2>2, <2>3, <2>4, <2>5
  <2>7. n - 1 \in Sizes /\ n \in Nat
    BY <1>1, <1>2, <2>1, <2>2, <2>3, <2>6
  <2> QED
    BY <2>1, <2>7
<1>5. Cardinality(T) \in Nat
  BY <1>1
<1> QED
  BY <1>4, <1>5

(* What the community module's fold computes of the points of a set of     *)
(* results is their sum.                                                   *)
LEMMA PointsAreSummed ==
  ASSUME NEW S, IsFiniteSet(S), \A r \in S : r.points \in Nat
  PROVE  \E g : Sums(S, [r \in S |-> r.points], g) /\ PointsIn(S) = g[S]
<1> DEFINE pick == [s \in SUBSET S |-> CHOOSE x \in s : TRUE]
           step == [p \in S \X Nat |-> p[1].points + p[2]]
           Body(f) == [s \in SUBSET S |-> IF s = {} THEN 0
                         ELSE LET x == CHOOSE x \in s : TRUE IN x.points + f[s \ {x}]]
           iter == CHOOSE f : f = Body(f)
<1>1. PointsIn(S) = iter[S]
  BY DEF PointsIn, MapThenSumSet, MapThenFoldSet
<1>2. \A s \in SUBSET S : s # {} => (CHOOSE x \in s : TRUE) \in s /\ pick[s] = CHOOSE x \in s : TRUE
  OBVIOUS
<1>3. step \in [S \X Nat -> Nat] /\ \A x \in S, k \in Nat : step[<<x, k>>] = x.points + k
  OBVIOUS
<1>4. iter = Body(iter)
  <2>1. \A s \in SUBSET S : s # {} => pick[s] \in s
    BY <1>2
  <2> HIDE DEF pick, step
  <2>2. PICK g \in [SUBSET S -> Nat] : FoldsBy(S, 0, pick, step, g)
    BY <1>3, <2>1, FoldExists
  <2>3. \A s \in SUBSET S : g[s] = Body(g)[s]
    <3> SUFFICES ASSUME NEW s \in SUBSET S, s # {}
                 PROVE  g[s] = LET x == CHOOSE x \in s : TRUE IN x.points + g[s \ {x}]
      BY <2>2 DEF FoldsBy
    <3> DEFINE x == CHOOSE x \in s : TRUE
    <3>1. x \in S /\ pick[s] = x /\ g[s \ {x}] \in Nat
      BY <1>2, <2>2
    <3> HIDE DEF x
    <3>2. g[s] = step[<<x, g[s \ {x}]>>]
      BY <2>2, <3>1 DEF FoldsBy
    <3>3. g[s] = x.points + g[s \ {x}]
      BY <1>3, <3>1, <3>2
    <3> QED
      BY <3>3 DEF x
  <2>4. g = Body(g)
    <3>1. g = [s \in SUBSET S |-> g[s]] /\ Body(g) = [s \in SUBSET S |-> Body(g)[s]]
      BY <2>2
    <3> HIDE DEF Body
    <3> QED
      BY <2>3, <3>1
  <2> HIDE DEF Body
  <2> QED
    BY <2>4
<1>5. \A s \in SUBSET S : iter[s] = Body(iter)[s]
  <2> HIDE DEF iter, Body
  <2> QED
    BY <1>4
<1> HIDE DEF iter
<1>6. Sums(S, [r \in S |-> r.points], iter)
  <2>1. iter[{}] = 0
    BY <1>5
  <2>2. ASSUME NEW s \in SUBSET S, s # {}
        PROVE  \E x \in s : iter[s] = [r \in S |-> r.points][x] + iter[s \ {x}]
    <3> DEFINE x == CHOOSE x \in s : TRUE
    <3>1. x \in s /\ x \in S
      BY <1>2, <2>2
    <3>2. iter[s] = x.points + iter[s \ {x}]
      BY <1>5, <2>2
    <3> HIDE DEF x
    <3>3. [r \in S |-> r.points][x] = x.points
      BY <3>1
    <3> QED
      BY <3>1, <3>2, <3>3
  <2> QED
    BY <2>1, <2>2 DEF Sums
<1> QED
  BY <1>1, <1>6

(* And likewise of the points that failed folds were not trained on.       *)
LEMMA LeftOutAreSummed ==
  ASSUME NEW pts, NEW S, IsFiniteSet(S), \A r \in S : Len(pts) - r.training \in Nat
  PROVE  \E g : Sums(S, [r \in S |-> Len(pts) - r.training], g) /\ PointsLeftOut(pts, S) = g[S]
<1> DEFINE pick == [s \in SUBSET S |-> CHOOSE x \in s : TRUE]
           step == [p \in S \X Nat |-> (Len(pts) - p[1].training) + p[2]]
           Body(f) == [s \in SUBSET S |-> IF s = {} THEN 0
                         ELSE LET x == CHOOSE x \in s : TRUE IN (Len(pts) - x.training) + f[s \ {x}]]
           iter == CHOOSE f : f = Body(f)
<1>1. PointsLeftOut(pts, S) = iter[S]
  BY DEF PointsLeftOut, MapThenSumSet, MapThenFoldSet
<1>2. \A s \in SUBSET S : s # {} => (CHOOSE x \in s : TRUE) \in s /\ pick[s] = CHOOSE x \in s : TRUE
  OBVIOUS
<1>3. step \in [S \X Nat -> Nat] /\ \A x \in S, k \in Nat : step[<<x, k>>] = (Len(pts) - x.training) + k
  OBVIOUS
<1>4. iter = Body(iter)
  <2>1. \A s \in SUBSET S : s # {} => pick[s] \in s
    BY <1>2
  <2> HIDE DEF pick, step
  <2>2. PICK g \in [SUBSET S -> Nat] : FoldsBy(S, 0, pick, step, g)
    BY <1>3, <2>1, FoldExists
  <2>3. \A s \in SUBSET S : g[s] = Body(g)[s]
    <3> SUFFICES ASSUME NEW s \in SUBSET S, s # {}
                 PROVE  g[s] = LET x == CHOOSE x \in s : TRUE IN (Len(pts) - x.training) + g[s \ {x}]
      BY <2>2 DEF FoldsBy
    <3> DEFINE x == CHOOSE x \in s : TRUE
    <3>1. x \in S /\ pick[s] = x /\ g[s \ {x}] \in Nat
      BY <1>2, <2>2
    <3> HIDE DEF x
    <3>2. g[s] = step[<<x, g[s \ {x}]>>]
      BY <2>2, <3>1 DEF FoldsBy
    <3>3. g[s] = (Len(pts) - x.training) + g[s \ {x}]
      BY <1>3, <3>1, <3>2
    <3> QED
      BY <3>3 DEF x
  <2>4. g = Body(g)
    <3>1. g = [s \in SUBSET S |-> g[s]] /\ Body(g) = [s \in SUBSET S |-> Body(g)[s]]
      BY <2>2
    <3> HIDE DEF Body
    <3> QED
      BY <2>3, <3>1
  <2> HIDE DEF Body
  <2> QED
    BY <2>4
<1>5. \A s \in SUBSET S : iter[s] = Body(iter)[s]
  <2> HIDE DEF iter, Body
  <2> QED
    BY <1>4
<1> HIDE DEF iter
<1>6. Sums(S, [r \in S |-> Len(pts) - r.training], iter)
  <2>1. iter[{}] = 0
    BY <1>5
  <2>2. ASSUME NEW s \in SUBSET S, s # {}
        PROVE  \E x \in s : iter[s] = [r \in S |-> Len(pts) - r.training][x] + iter[s \ {x}]
    <3> DEFINE x == CHOOSE x \in s : TRUE
    <3>1. x \in s /\ x \in S
      BY <1>2, <2>2
    <3>2. iter[s] = (Len(pts) - x.training) + iter[s \ {x}]
      BY <1>5, <2>2
    <3> HIDE DEF x
    <3>3. [r \in S |-> Len(pts) - r.training][x] = (Len(pts) - x.training)
      BY <3>1
    <3> QED
      BY <3>1, <3>2, <3>3
  <2> QED
    BY <2>1, <2>2 DEF Sums
<1> QED
  BY <1>1, <1>6

(* The sum of none is zero, one more adds its points, and each of several  *)
(* counts.                                                                 *)
LEMMA PointsFacts ==
  ASSUME NEW S, IsFiniteSet(S), \A r \in S : r.points \in Nat
  PROVE  /\ PointsIn(S) \in Nat
         /\ S = {} => PointsIn(S) = 0
         /\ \A y \in S : PointsIn(S) = y.points + PointsIn(S \ {y}) /\ PointsIn(S \ {y}) \in Nat
<1> DEFINE weight == [r \in S |-> r.points]
<1>1. \A x \in S : weight[x] = x.points /\ weight[x] \in Nat
  OBVIOUS
<1>2. PICK g : Sums(S, weight, g) /\ PointsIn(S) = g[S]
  BY PointsAreSummed
<1> HIDE DEF weight
<1>3. \A s \in SUBSET S : g[s] \in Nat /\ \A x \in s : g[s] = weight[x] + g[s \ {x}]
  <2>1. IsFiniteSet(S) /\ (\A x \in S : weight[x] \in Nat) /\ Sums(S, weight, g)
    BY <1>1, <1>2
  <2> QED
    BY ONLY <2>1, SumFacts
<1>4. ASSUME NEW y \in S PROVE g[S \ {y}] = PointsIn(S \ {y})
  <2> DEFINE rest == S \ {y}
             left == [r \in rest |-> r.points]
  <2>1. rest \in SUBSET S /\ IsFiniteSet(rest) /\ \A r \in rest : r.points \in Nat
    BY FS_Subset
  <2>2. \A x \in rest : left[x] = weight[x]
    BY <1>1
  <2> HIDE DEF rest
  <2>3. PICK h : Sums(rest, left, h) /\ PointsIn(rest) = h[rest]
    BY <2>1, PointsAreSummed
  <2> HIDE DEF left
  <2>4. \A x \in S : weight[x] \in Nat
    BY <1>1
  <2>5. Sums(S, weight, g) /\ Sums(rest, left, h) /\ rest \in SUBSET S
    BY <1>2, <2>1, <2>3
  <2>6. g[rest] = h[rest]
    <3>1. IsFiniteSet(S)
      OBVIOUS
    <3> QED
      BY ONLY <3>1, <2>2, <2>4, <2>5, SumsAgree
  <2> QED
    BY <2>3, <2>6 DEF rest
<1>5. g[{}] = 0
  BY <1>2 DEF Sums
<1> QED
  BY <1>1, <1>2, <1>3, <1>4, <1>5

(* One result more. *)
LEMMA PointsMore ==
  ASSUME NEW S, IsFiniteSet(S), NEW y, y \notin S, \A r \in S \cup {y} : r.points \in Nat
  PROVE  PointsIn(S \cup {y}) = PointsIn(S) + y.points
<1> DEFINE T == S \cup {y}
<1>1. IsFiniteSet(T) /\ y \in T /\ T \ {y} = S
  BY FS_AddElement
<1>2. \A r \in T : r.points \in Nat
  OBVIOUS
<1> HIDE DEF T
<1>3. PointsIn(T) = y.points + PointsIn(T \ {y}) /\ PointsIn(T \ {y}) \in Nat
  BY <1>1, <1>2, PointsFacts
<1>4. y.points \in Nat
  BY <1>1, <1>2
<1>5. PointsIn(T) = PointsIn(S) + y.points
  BY <1>1, <1>3, <1>4
<1> QED
  BY <1>5 DEF T

(* The same of the failed folds.                                           *)
LEMMA LeftOutFacts ==
  ASSUME NEW pts, NEW S, IsFiniteSet(S), \A r \in S : Len(pts) - r.training \in Nat
  PROVE  /\ PointsLeftOut(pts, S) \in Nat
         /\ S = {} => PointsLeftOut(pts, S) = 0
         /\ \A y \in S :
              /\ PointsLeftOut(pts, S) = (Len(pts) - y.training) + PointsLeftOut(pts, S \ {y})
              /\ PointsLeftOut(pts, S \ {y}) \in Nat
<1> DEFINE weight == [r \in S |-> Len(pts) - r.training]
<1>1. \A x \in S : weight[x] = Len(pts) - x.training /\ weight[x] \in Nat
  OBVIOUS
<1>2. PICK g : Sums(S, weight, g) /\ PointsLeftOut(pts, S) = g[S]
  BY LeftOutAreSummed
<1> HIDE DEF weight
<1>3. \A s \in SUBSET S : g[s] \in Nat /\ \A x \in s : g[s] = weight[x] + g[s \ {x}]
  <2>1. IsFiniteSet(S) /\ (\A x \in S : weight[x] \in Nat) /\ Sums(S, weight, g)
    BY <1>1, <1>2
  <2> QED
    BY ONLY <2>1, SumFacts
<1>4. ASSUME NEW y \in S PROVE g[S \ {y}] = PointsLeftOut(pts, S \ {y})
  <2> DEFINE rest == S \ {y}
             left == [r \in rest |-> Len(pts) - r.training]
  <2>1. rest \in SUBSET S /\ IsFiniteSet(rest) /\ \A r \in rest : Len(pts) - r.training \in Nat
    BY FS_Subset
  <2>2. \A x \in rest : left[x] = weight[x]
    BY <1>1
  <2> HIDE DEF rest
  <2>3. PICK h : Sums(rest, left, h) /\ PointsLeftOut(pts, rest) = h[rest]
    BY <2>1, LeftOutAreSummed
  <2> HIDE DEF left
  <2>4. \A x \in S : weight[x] \in Nat
    BY <1>1
  <2>5. Sums(S, weight, g) /\ Sums(rest, left, h) /\ rest \in SUBSET S
    BY <1>2, <2>1, <2>3
  <2>6. g[rest] = h[rest]
    <3>1. IsFiniteSet(S)
      OBVIOUS
    <3> QED
      BY ONLY <3>1, <2>2, <2>4, <2>5, SumsAgree
  <2> QED
    BY <2>3, <2>6 DEF rest
<1>5. g[{}] = 0
  BY <1>2 DEF Sums
<1> QED
  BY <1>1, <1>2, <1>3, <1>4, <1>5

(* One failed fold more. *)
LEMMA LeftOutMore ==
  ASSUME NEW pts, NEW S, IsFiniteSet(S), NEW y, y \notin S,
         \A r \in S \cup {y} : Len(pts) - r.training \in Nat
  PROVE  PointsLeftOut(pts, S \cup {y}) = PointsLeftOut(pts, S) + (Len(pts) - y.training)
<1> DEFINE T == S \cup {y}
<1>1. IsFiniteSet(T) /\ y \in T /\ T \ {y} = S
  BY FS_AddElement
<1>2. \A r \in T : Len(pts) - r.training \in Nat
  OBVIOUS
<1> HIDE DEF T
<1>3. /\ PointsLeftOut(pts, T) = (Len(pts) - y.training) + PointsLeftOut(pts, T \ {y})
      /\ PointsLeftOut(pts, T \ {y}) \in Nat
  BY <1>1, <1>2, LeftOutFacts
<1>4. Len(pts) - y.training \in Nat
  BY <1>1, <1>2
<1>5. PointsLeftOut(pts, T) = PointsLeftOut(pts, S) + (Len(pts) - y.training)
  <2>1. /\ PointsLeftOut(pts, T) = (Len(pts) - y.training) + PointsLeftOut(pts, S)
        /\ PointsLeftOut(pts, S) \in Nat
    BY <1>1, <1>3
  <2> HIDE <1>1
  <2> QED
    BY <2>1, <1>4
<1> QED
  BY <1>5 DEF T

(* Finitely many integers have a greatest.                                 *)
LEMMA Greatest ==
  ASSUME NEW N \in Nat, N > 0, NEW f, \A i \in 1..N : f[i] \in Int
  PROVE  \E i \in 1..N : \A j \in 1..N : f[j] <= f[i]
<1> DEFINE Tops(n) == \E i \in 1..n : \A j \in 1..n : f[j] <= f[i]
           Bad == {n \in Nat : n > 0 /\ n <= N /\ ~Tops(n)}
<1>1. Tops(1)
  <2>1. \A j \in 1..1 : f[j] <= f[1]
    OBVIOUS
  <2> QED
    BY <2>1
<1>2. ASSUME NEW n \in Nat, n > 0, n < N, Tops(n) PROVE Tops(n + 1)
  <2>1. PICK i \in 1..n : \A j \in 1..n : f[j] <= f[i]
    BY <1>2
  <2>2. f[n + 1] \in Int /\ f[i] \in Int /\ \A j \in 1..n : f[j] \in Int
    BY <1>2
  <2>3. \A j \in 1..(n + 1) : j \in 1..n \/ j = n + 1
    BY <1>2
  <2>4. i \in 1..(n + 1) /\ n + 1 \in 1..(n + 1)
    BY <1>2
  <2>5. CASE f[n + 1] <= f[i]
    BY <2>1, <2>3, <2>4, <2>5
  <2>6. CASE ~(f[n + 1] <= f[i])
    <3>1. \A j \in 1..(n + 1) : f[j] <= f[n + 1]
      BY <2>1, <2>2, <2>3, <2>6
    <3> QED
      BY <2>4, <3>1
  <2> QED
    BY <2>5, <2>6
<1> HIDE DEF Tops
<1>3. ASSUME Bad # {} PROVE FALSE
  <2>1. PICK n \in Bad : \A y \in Bad : n <= y
    BY <1>3, LeastOfNaturals
  <2>2. n \in Nat /\ n > 1 /\ n <= N /\ ~Tops(n)
    BY <1>1, <2>1
  <2>3. n - 1 \in Nat /\ n - 1 > 0 /\ n - 1 < N /\ n - 1 \notin Bad
    BY <2>1, <2>2
  <2>4. Tops(n - 1)
    BY <2>3
  <2>5. Tops((n - 1) + 1)
    BY <1>2, <2>3, <2>4
  <2> QED
    BY <2>2, <2>5
<1>4. Tops(N)
  BY <1>3
<1> QED
  BY <1>4 DEF Tops

(* A finite set of integers has a greatest and a least element.            *)
LEMMA Extremes ==
  ASSUME NEW S \in SUBSET Int, IsFiniteSet(S), S # {}
  PROVE  /\ Max(S) \in S /\ \A y \in S : y <= Max(S)
         /\ Min(S) \in S /\ \A y \in S : Min(S) <= y
<1> DEFINE N == Cardinality(S)
<1>1. N \in Nat /\ ExistsBijection(1..N, S)
  BY FS_CardinalityType
<1>2. PICK f \in [1..N -> S] : \A y \in S : \E i \in 1..N : f[i] = y
  BY <1>1 DEF ExistsBijection, Bijection, Injection, Surjection
<1>3. N > 0
  BY <1>1, FS_EmptySet
<1> HIDE DEF N
<1>4. \A i \in 1..N : f[i] \in Int
  BY <1>2
<1>5. PICK i \in 1..N : \A j \in 1..N : f[j] <= f[i]
  BY <1>1, <1>3, <1>4, Greatest
<1> DEFINE g == [j \in 1..N |-> -f[j]]
<1>6. \A j \in 1..N : g[j] \in Int /\ g[j] = -f[j]
  BY <1>4
<1> HIDE DEF g
<1>7. PICK k \in 1..N : \A j \in 1..N : g[j] <= g[k]
  BY <1>1, <1>3, <1>6, Greatest
<1>8. \A j \in 1..N : f[k] <= f[j]
  BY <1>4, <1>6, <1>7
<1>9. f[i] \in S /\ \A y \in S : f[i] >= y
  BY <1>2, <1>4, <1>5
<1>10. f[k] \in S /\ \A y \in S : f[k] =< y
  BY <1>2, <1>8
<1>11. Max(S) \in S /\ \A y \in S : Max(S) >= y
  BY <1>9 DEF Max
<1>12. Min(S) \in S /\ \A y \in S : Min(S) =< y
  BY <1>10 DEF Min
<1> QED
  BY <1>11, <1>12

(* it[k] holds the elements that pass the test among the first k.          *)
Keeps(n, seq, test, it) ==
  /\ it[0] = <<>>
  /\ \A k \in 1..n : it[k] = IF test[k] THEN Append(it[k - 1], seq[k]) ELSE it[k - 1]

(* What is kept comes from the sequence and passed, and all that passed is *)
(* kept, once each.                                                        *)
KeptOf(k, V, seq, test, out) ==
  /\ out \in Seq(V)
  /\ Len(out) = Cardinality({j \in 1..k : test[j]})
  /\ \A j \in 1..k : test[j] => \E m \in 1..Len(out) : out[m] = seq[j]
  /\ \A m \in 1..Len(out) : \E j \in 1..k : test[j] /\ out[m] = seq[j]

(* Element by element, what passes is kept. *)
LEMMA KeepsFacts ==
  ASSUME NEW V, NEW n \in Nat, NEW seq, \A k \in 1..n : seq[k] \in V,
         NEW test, NEW it, Keeps(n, seq, test, it)
  PROVE  \A k \in 0..n : KeptOf(k, V, seq, test, it[k])
<1> DEFINE Bad == {k \in Nat : k <= n /\ ~KeptOf(k, V, seq, test, it[k])}
<1>1. KeptOf(0, V, seq, test, it[0])
  <2>1. {j \in 1..0 : test[j]} = {} /\ it[0] = <<>>
    BY DEF Keeps
  <2> QED
    BY <2>1, FS_EmptySet DEF KeptOf
<1>2. ASSUME NEW k \in 1..n, KeptOf(k - 1, V, seq, test, it[k - 1])
      PROVE  KeptOf(k, V, seq, test, it[k])
  <2> DEFINE old == it[k - 1]
             passed(i) == {j \in 1..i : test[j]}
  <2>1. /\ old \in Seq(V) /\ Len(old) \in Nat /\ Len(old) = Cardinality(passed(k - 1))
        /\ \A j \in 1..(k - 1) : test[j] => \E m \in 1..Len(old) : old[m] = seq[j]
        /\ \A m \in 1..Len(old) : \E j \in 1..(k - 1) : test[j] /\ old[m] = seq[j]
    BY <1>2 DEF KeptOf
  <2>2. IsFiniteSet(passed(k - 1))
    <3>1. IsFiniteSet(1..(k - 1)) /\ passed(k - 1) \in SUBSET (1..(k - 1))
      BY FS_Interval
    <3> QED
      BY <3>1, FS_Subset
  <2>3. CASE test[k]
    <3>1. it[k] = Append(old, seq[k]) /\ seq[k] \in V
      BY <2>3 DEF Keeps
    <3>2. /\ it[k] \in Seq(V) /\ Len(it[k]) = Len(old) + 1
          /\ \A m \in 1..Len(old) : it[k][m] = old[m]
          /\ it[k][Len(old) + 1] = seq[k]
      <4>1. old \in Seq(V)
        BY <2>1
      <4> HIDE DEF old
      <4> QED
        BY <3>1, <4>1, AppendProperties
    <3>3. passed(k) = passed(k - 1) \cup {k} /\ k \notin passed(k - 1)
      BY <2>3
    <3>4. Cardinality(passed(k)) = Len(old) + 1
      BY <2>1, <2>2, <3>3, FS_AddElement
    <3>5. \A j \in 1..k : test[j] => \E m \in 1..Len(it[k]) : it[k][m] = seq[j]
      <4> SUFFICES ASSUME NEW j \in 1..k, test[j]
                   PROVE  \E m \in 1..Len(it[k]) : it[k][m] = seq[j]
        OBVIOUS
      <4>1. CASE j = k
        <5>1. Len(old) + 1 \in 1..Len(it[k])
          BY <2>1, <3>2
        <5> QED
          BY <3>2, <4>1, <5>1
      <4>2. CASE j # k
        <5>1. j \in 1..(k - 1)
          BY <4>2
        <5>2. PICK m \in 1..Len(old) : old[m] = seq[j]
          BY <2>1, <5>1
        <5>3. m \in 1..Len(it[k]) /\ it[k][m] = seq[j]
          BY <2>1, <3>2, <5>2
        <5> QED
          BY <5>3
      <4> QED
        BY <4>1, <4>2
    <3>6. \A m \in 1..Len(it[k]) : \E j \in 1..k : test[j] /\ it[k][m] = seq[j]
      <4> SUFFICES ASSUME NEW m \in 1..Len(it[k])
                   PROVE  \E j \in 1..k : test[j] /\ it[k][m] = seq[j]
        OBVIOUS
      <4>1. CASE m = Len(old) + 1
        BY <2>3, <3>2, <4>1
      <4>2. CASE m # Len(old) + 1
        <5>1. m \in 1..Len(old)
          BY <2>1, <3>2, <4>2
        <5>2. PICK j \in 1..(k - 1) : test[j] /\ old[m] = seq[j]
          BY <2>1, <5>1
        <5> QED
          BY <3>2, <5>1, <5>2
      <4> QED
        BY <4>1, <4>2
    <3> QED
      BY <3>2, <3>4, <3>5, <3>6 DEF KeptOf
  <2>4. CASE ~test[k]
    <3>1. it[k] = old
      BY <2>4 DEF Keeps
    <3>2. passed(k) = passed(k - 1)
      BY <2>4
    <3>3. \A j \in 1..k : test[j] => j \in 1..(k - 1)
      BY <2>4
    <3>4. \A m \in 1..Len(old) : \E j \in 1..k : test[j] /\ old[m] = seq[j]
      BY <2>1
    <3>5. \A j \in 1..k : test[j] => \E m \in 1..Len(old) : old[m] = seq[j]
      BY <2>1, <3>3
    <3>6. Len(old) = Cardinality(passed(k))
      BY <2>1, <3>2
    <3> HIDE DEF old
    <3> QED
      BY <2>1, <3>1, <3>4, <3>5, <3>6 DEF KeptOf
  <2> QED
    BY <2>3, <2>4
<1>3. ASSUME Bad # {} PROVE FALSE
  <2>1. PICK k \in Bad : \A y \in Bad : k <= y
    BY <1>3, LeastOfNaturals
  <2>2. k \in Nat /\ k <= n /\ ~KeptOf(k, V, seq, test, it[k]) /\ k # 0
    BY <1>1, <2>1
  <2>3. k - 1 \in Nat /\ k - 1 <= n /\ k - 1 \notin Bad
    BY <2>1, <2>2
  <2>4. KeptOf(k - 1, V, seq, test, it[k - 1])
    BY <2>3
  <2> QED
    BY <1>2, <2>2, <2>4
<1> QED
  BY <1>3

(* The greatest index is that of the last of the first elements.           *)
LEMMA TopOfPrefix ==
  ASSUME NEW k \in Nat \ {0}
  PROVE  Max(1..k) = k /\ (1..k) \ {k} = 1..(k - 1)
<1>1. 1..k \in SUBSET Int /\ IsFiniteSet(1..k) /\ k \in 1..k
  BY FS_Interval
<1>2. Max(1..k) \in 1..k /\ \A y \in 1..k : y <= Max(1..k)
  BY <1>1, Extremes
<1>3. Max(1..k) = k
  BY <1>1, <1>2
<1>4. (1..k) \ {k} = 1..(k - 1)
  OBVIOUS
<1> QED
  BY <1>3, <1>4

(* A left fold takes the last index last.                                  *)
FoldsLeft(D, base, step, g) ==
  /\ g[{}] = base
  /\ \A s \in SUBSET D : s # {} =>
       /\ Max(s) \in s
       /\ g[s] = step[<<Max(s), g[s \ {Max(s)}]>>]

(* There is such a fold, given what it does with an element.               *)
LEMMA LeftFold ==
  ASSUME NEW n \in Nat, NEW D, D = 1..n, NEW W, NEW base \in W, NEW step \in [D \X W -> W]
  PROVE  \E g \in [SUBSET D -> W] : FoldsLeft(D, base, step, g)
<1> DEFINE pick == [s \in SUBSET D |-> Max(s)]
<1>1. IsFiniteSet(D) /\ D \in SUBSET Int
  BY FS_Interval
<1>2. \A s \in SUBSET D : s # {} => Max(s) \in s
  <2> SUFFICES ASSUME NEW s \in SUBSET D, s # {} PROVE Max(s) \in s
    OBVIOUS
  <2>1. s \in SUBSET Int /\ IsFiniteSet(s)
    BY <1>1, FS_Subset
  <2> QED
    BY <2>1, Extremes
<1>3. \A s \in SUBSET D : pick[s] = Max(s)
  OBVIOUS
<1> HIDE DEF pick
<1>4. \A s \in SUBSET D : s # {} => pick[s] \in s
  BY <1>2, <1>3
<1>6. PICK g \in [SUBSET D -> W] : FoldsBy(D, base, pick, step, g)
  BY <1>1, <1>4, FoldExists
<1>7. \A s \in SUBSET D : s # {} => g[s] = step[<<Max(s), g[s \ {Max(s)}]>>]
  BY <1>3, <1>6 DEF FoldsBy
<1>8. g[{}] = base
  BY <1>6 DEF FoldsBy
<1> QED
  BY <1>2, <1>6, <1>7, <1>8 DEF FoldsLeft

(* Only keeps the wanted elements.                                         *)
LEMMA OnlyKeeps ==
  ASSUME NEW V, NEW seq \in Seq(V), NEW wanted
  PROVE  KeptOf(Len(seq), V, seq, [k \in 1..Len(seq) |-> seq[k] \in wanted], Only(wanted, seq))
<1> DEFINE n == Len(seq)
           D == DOMAIN seq
           step == [p \in D \X Seq(V) |->
                      IF seq[p[1]] \in wanted THEN Append(p[2], seq[p[1]]) ELSE p[2]]
           Body(f) == [s \in SUBSET D |-> IF s = {} THEN <<>>
                         ELSE LET x == Max(s) IN
                              IF seq[x] \in wanted THEN Append(f[s \ {x}], seq[x]) ELSE f[s \ {x}]]
           iter == CHOOSE f : f = Body(f)
           test == [k \in 1..n |-> seq[k] \in wanted]
           it == [k \in 0..n |-> iter[1..k]]
<1>1. Only(wanted, seq) = iter[D]
  BY DEF Only, FoldLeft, MapThenFoldSet
<1>2. n \in Nat /\ D = 1..n /\ \A k \in 1..n : seq[k] \in V
  BY LenProperties
<1> HIDE DEF n, D
<1>3. step \in [D \X Seq(V) -> Seq(V)]
  BY <1>2, AppendProperties
<1>4. \A k \in D, w \in Seq(V) : step[<<k, w>>] = IF seq[k] \in wanted THEN Append(w, seq[k]) ELSE w
  OBVIOUS
<1> HIDE DEF step
<1>5. iter = Body(iter)
  <2>2. PICK g \in [SUBSET D -> Seq(V)] :
           /\ g[{}] = <<>>
           /\ \A s \in SUBSET D : s # {} =>
                /\ Max(s) \in s
                /\ g[s] = step[<<Max(s), g[s \ {Max(s)}]>>]
    <3> DEFINE W == Seq(V)
               none == <<>>
    <3>1. n \in Nat /\ D = 1..n /\ none \in W /\ step \in [D \X W -> W]
      BY <1>2, <1>3
    <3> HIDE DEF W, none
    <3>2. PICK g \in [SUBSET D -> W] :
 FoldsLeft(D, none, step, g)
      BY ONLY <3>1, LeftFold
    <3> QED
      BY <3>2 DEF W, none, FoldsLeft
  <2>3. \A s \in SUBSET D : g[s] = Body(g)[s]
    <3> SUFFICES ASSUME NEW s \in SUBSET D, s # {}
                 PROVE  g[s] = LET x == Max(s) IN
                              IF seq[x] \in wanted THEN Append(g[s \ {x}], seq[x]) ELSE g[s \ {x}]
      BY <2>2
    <3> DEFINE x == Max(s)
    <3>1. x \in D /\ g[s \ {x}] \in Seq(V) /\ g[s] = step[<<x, g[s \ {x}]>>]
      BY <1>2, <2>2
    <3> HIDE DEF x
    <3>2. g[s] = IF seq[x] \in wanted THEN Append(g[s \ {x}], seq[x]) ELSE g[s \ {x}]
      BY <1>4, <3>1
    <3> QED
      BY <3>2 DEF x
  <2>4. g = Body(g)
    <3>1. g = [s \in SUBSET D |-> g[s]] /\ Body(g) = [s \in SUBSET D |-> Body(g)[s]]
      BY <1>2, <2>2
    <3> HIDE DEF Body
    <3> QED
      BY <2>3, <3>1
  <2> HIDE DEF Body
  <2> QED
    BY <2>4
<1>6. \A s \in SUBSET D : iter[s] = Body(iter)[s]
  <2> HIDE DEF iter, Body
  <2> QED
    BY <1>5
<1> HIDE DEF iter
<1>7. iter[1..0] = <<>>
  <2>1. 1..0 = {} /\ {} \in SUBSET D
    OBVIOUS
  <2> QED
    BY <1>6, <2>1
<1>8. ASSUME NEW k \in 1..n
      PROVE  iter[1..k] = IF seq[k] \in wanted THEN Append(iter[1..(k - 1)], seq[k])
                          ELSE iter[1..(k - 1)]
  <2>1. k \in Nat \ {0} /\ k \in 1..k
    BY <1>2
  <2>0. 1..k \in SUBSET D
    <3>1. \A j \in 1..k : j \in 1..n
      BY <1>2
    <3> QED
      BY <1>2, <3>1
  <2>2. Max(1..k) = k /\ (1..k) \ {k} = 1..(k - 1)
    BY <2>1, TopOfPrefix
  <2> QED
    BY <1>6, <2>0, <2>1, <2>2
<1> HIDE DEF Body
<1>9. Keeps(n, seq, test, it)
  <2>1. it[0] = <<>> /\ \A k \in 0..n : it[k] = iter[1..k]
    BY <1>2, <1>7
  <2>2. \A k \in 1..n : k \in 0..n /\ k - 1 \in 0..n /\ test[k] = (seq[k] \in wanted)
    BY <1>2
  <2> HIDE DEF it, test
  <2>3. \A k \in 1..n : it[k] = IF test[k] THEN Append(it[k - 1], seq[k]) ELSE it[k - 1]
    BY <1>8, <2>1, <2>2
  <2> QED
    BY <2>1, <2>3 DEF Keeps
<1>10. it[n] = iter[D] /\ n \in 0..n
  BY <1>2
<1> HIDE DEF it, test
<1>11. KeptOf(n, V, seq, test, it[n])
  BY <1>2, <1>9, <1>10, KeepsFacts
<1> QED
  BY <1>1, <1>10, <1>11 DEF n, test

(* Thin, element by element: what is far enough from the last one kept is. *)
Thinned(seq, spacing, it) ==
  /\ it[0] = <<>>
  /\ \A k \in 1..Len(seq) :
       it[k] = IF it[k - 1] = <<>> \/ seq[k] - Last(it[k - 1]) >= spacing
               THEN Append(it[k - 1], seq[k]) ELSE it[k - 1]
  /\ it[Len(seq)] = Thin(seq, spacing)

(* The fold is that. *)
LEMMA ThinIs ==
  ASSUME NEW V, NEW seq \in Seq(V), NEW spacing
  PROVE  \E it : Thinned(seq, spacing, it)
<1> DEFINE n == Len(seq)
           Far(w, k) == w = <<>> \/ seq[k] - Last(w) >= spacing
           D == DOMAIN seq
           step == [p \in D \X Seq(V) |->
                      IF Far(p[2], p[1]) THEN Append(p[2], seq[p[1]]) ELSE p[2]]
           Body(f) == [s \in SUBSET D |-> IF s = {} THEN <<>>
                         ELSE LET x == Max(s) IN
                              IF Far(f[s \ {x}], x) THEN Append(f[s \ {x}], seq[x]) ELSE f[s \ {x}]]
           iter == CHOOSE f : f = Body(f)
           it == [k \in 0..n |-> iter[1..k]]
<1>1. Thin(seq, spacing) = iter[D]
  BY DEF Thin, FoldLeft, MapThenFoldSet
<1>2. n \in Nat /\ D = 1..n /\ \A k \in 1..n : seq[k] \in V
  BY LenProperties
<1> HIDE DEF n, D
<1>3. step \in [D \X Seq(V) -> Seq(V)]
  BY <1>2, AppendProperties
<1>4. \A k \in D, w \in Seq(V) : step[<<k, w>>] = IF Far(w, k) THEN Append(w, seq[k]) ELSE w
  OBVIOUS
<1> HIDE DEF step
<1>5. iter = Body(iter)
  <2>2. PICK g \in [SUBSET D -> Seq(V)] :
           /\ g[{}] = <<>>
           /\ \A s \in SUBSET D : s # {} =>
                /\ Max(s) \in s
                /\ g[s] = step[<<Max(s), g[s \ {Max(s)}]>>]
    <3> DEFINE W == Seq(V)
               none == <<>>
    <3>1. n \in Nat /\ D = 1..n /\ none \in W /\ step \in [D \X W -> W]
      BY <1>2, <1>3
    <3> HIDE DEF W, none
    <3>2. PICK g \in [SUBSET D -> W] :
 FoldsLeft(D, none, step, g)
      BY ONLY <3>1, LeftFold
    <3> QED
      BY <3>2 DEF W, none, FoldsLeft
  <2>3. \A s \in SUBSET D : g[s] = Body(g)[s]
    <3> SUFFICES ASSUME NEW s \in SUBSET D, s # {}
                 PROVE  g[s] = LET x == Max(s) IN
                              IF Far(g[s \ {x}], x) THEN Append(g[s \ {x}], seq[x]) ELSE g[s \ {x}]
      BY <2>2
    <3> DEFINE x == Max(s)
    <3>1. x \in D /\ g[s \ {x}] \in Seq(V) /\ g[s] = step[<<x, g[s \ {x}]>>]
      BY <1>2, <2>2
    <3> HIDE DEF x
    <3>2. g[s] = IF Far(g[s \ {x}], x) THEN Append(g[s \ {x}], seq[x]) ELSE g[s \ {x}]
      BY <1>4, <3>1
    <3> QED
      BY <3>2 DEF x
  <2>4. g = Body(g)
    <3>1. g = [s \in SUBSET D |-> g[s]] /\ Body(g) = [s \in SUBSET D |-> Body(g)[s]]
      BY <1>2, <2>2
    <3> HIDE DEF Body
    <3> QED
      BY <2>3, <3>1
  <2> HIDE DEF Body
  <2> QED
    BY <2>4
<1>6. \A s \in SUBSET D : iter[s] = Body(iter)[s]
  <2> HIDE DEF iter, Body
  <2> QED
    BY <1>5
<1> HIDE DEF iter
<1>7. iter[1..0] = <<>>
  <2>1. 1..0 = {} /\ {} \in SUBSET D
    OBVIOUS
  <2> QED
    BY <1>6, <2>1
<1>8. ASSUME NEW k \in 1..n
      PROVE  iter[1..k] = IF Far(iter[1..(k - 1)], k) THEN Append(iter[1..(k - 1)], seq[k])
                          ELSE iter[1..(k - 1)]
  <2>1. k \in Nat \ {0} /\ k \in 1..k
    BY <1>2
  <2>0. 1..k \in SUBSET D
    <3>1. \A j \in 1..k : j \in 1..n
      BY <1>2
    <3> QED
      BY <1>2, <3>1
  <2>2. Max(1..k) = k /\ (1..k) \ {k} = 1..(k - 1)
    BY <2>1, TopOfPrefix
  <2> QED
    BY <1>6, <2>0, <2>1, <2>2
<1> HIDE DEF Body
<1>9. it[0] = <<>> /\ \A k \in 0..n : it[k] = iter[1..k]
  BY <1>2, <1>7
<1> HIDE DEF it
<1>10. \A k \in 1..n : k \in 0..n /\ k - 1 \in 0..n
  BY <1>2
<1>11. \A k \in 1..n : it[k] = IF Far(it[k - 1], k) THEN Append(it[k - 1], seq[k]) ELSE it[k - 1]
  BY <1>8, <1>9, <1>10
<1>12. it[n] = iter[D]
  BY <1>2, <1>9
<1> QED
  BY <1>1, <1>9, <1>11, <1>12 DEF n, Thinned

(* Thin keeps some of the elements.                                        *)
LEMMA ThinKeeps ==
  ASSUME NEW V, NEW seq \in Seq(V), NEW spacing
  PROVE  \E test : KeptOf(Len(seq), V, seq, test, Thin(seq, spacing))
<1> DEFINE n == Len(seq)
<1>1. PICK it : Thinned(seq, spacing, it)
  BY ThinIs
<1>2. n \in Nat /\ n \in 0..n /\ \A k \in 1..n : seq[k] \in V
  BY LenProperties
<1> DEFINE Far(k) == it[k - 1] = <<>> \/ seq[k] - Last(it[k - 1]) >= spacing
           test == [k \in 1..n |-> Far(k)]
<1>3. \A k \in 1..n : test[k] = Far(k)
  OBVIOUS
<1> HIDE DEF test
<1>4. Keeps(n, seq, test, it)
  BY <1>1, <1>3 DEF Keeps, Thinned
<1> HIDE DEF n
<1>5. KeptOf(n, V, seq, test, it[n])
  BY <1>2, <1>4, KeepsFacts
<1> QED
  BY <1>1, <1>5 DEF n, Thinned

(* A sequence of integers that rises from each to the next.                *)
Rises(w) == w \in Seq(Int) /\ \A i, j \in 1..Len(w) : i < j => w[i] < w[j]

(* What is kept at a distance rises.                                       *)
LEMMA ThinRises ==
  ASSUME NEW seq \in Seq(Int), NEW spacing \in Nat \ {0}
  PROVE  Rises(Thin(seq, spacing))
<1> DEFINE n == Len(seq)
<1>1. PICK it : Thinned(seq, spacing, it)
  BY ThinIs
<1>2. n \in Nat /\ \A k \in 1..n : seq[k] \in Int
  BY LenProperties
<1>3. /\ it[0] = <<>> /\ it[n] = Thin(seq, spacing)
      /\ \A k \in 1..n :
           it[k] = IF it[k - 1] = <<>> \/ seq[k] - Last(it[k - 1]) >= spacing
                   THEN Append(it[k - 1], seq[k]) ELSE it[k - 1]
  BY <1>1 DEF Thinned
<1> HIDE DEF n
<1> DEFINE Bad == {k \in Nat : k <= n /\ ~Rises(it[k])}
<1>4. Rises(it[0])
  <2>1. it[0] \in Seq(Int) /\ Len(it[0]) = 0
    BY <1>3
  <2> QED
    BY <2>1 DEF Rises
<1>5. ASSUME NEW k \in 1..n, Rises(it[k - 1]) PROVE Rises(it[k])
  <2> DEFINE w == it[k - 1]
             e == seq[k]
             m == Len(w)
  <2>1. w \in Seq(Int) /\ e \in Int /\ m \in Nat /\ \A i \in 1..m : w[i] \in Int
    BY <1>2, <1>5, LenProperties DEF Rises
  <2>2. \A i, j \in 1..m : i < j => w[i] < w[j]
    BY <1>5 DEF Rises
  <2>3. it[k] = IF w = <<>> \/ e - Last(w) >= spacing THEN Append(w, e) ELSE w
    BY <1>3
  <2>4. Last(w) = w[m]
    BY DEF Last
  <2>5. w = <<>> <=> m = 0
    BY <2>1, EmptySeq
  <2> HIDE DEF w, e
  <2>6. CASE w = <<>> \/ e - Last(w) >= spacing
    <3>1. /\ it[k] = Append(w, e) /\ it[k] \in Seq(Int) /\ Len(it[k]) = m + 1
          /\ \A i \in 1..m : it[k][i] = w[i]
          /\ it[k][m + 1] = e
      BY <2>1, <2>3, <2>6, AppendProperties
    <3> HIDE DEF m
    <3>2. \A i \in 1..m : w[i] < e
      <4> SUFFICES ASSUME NEW i \in 1..m PROVE w[i] < e
        OBVIOUS
      <4>1. m # 0 /\ m \in 1..m /\ w[m] \in Int /\ w[i] \in Int
        BY <2>1
      <4>2. e - w[m] >= spacing
        BY <2>4, <2>5, <2>6, <4>1
      <4>3. w[m] < e
        BY <2>1, <4>1, <4>2
      <4>4. w[i] <= w[m]
        BY <2>1, <2>2, <4>1
      <4> QED
        BY <2>1, <4>1, <4>3, <4>4
    <3>3. ASSUME NEW i \in 1..m + 1, NEW j \in 1..m + 1, i < j PROVE it[k][i] < it[k][j]
      <4>1. i \in 1..m
        BY <2>1, <3>3
      <4>2. CASE j = m + 1
        BY <3>1, <3>2, <4>1, <4>2
      <4>3. CASE j # m + 1
        <5>1. j \in 1..m
          BY <2>1, <4>3
        <5> QED
          BY <2>2, <3>1, <3>3, <4>1, <5>1
      <4> QED
        BY <4>2, <4>3
    <3> QED
      BY <3>1, <3>3 DEF Rises
  <2>7. CASE ~(w = <<>> \/ e - Last(w) >= spacing)
    BY <1>5, <2>3, <2>7 DEF w
  <2> QED
    BY <2>6, <2>7
<1>6. ASSUME Bad # {} PROVE FALSE
  <2>1. PICK k \in Bad : \A y \in Bad : k <= y
    BY <1>6, LeastOfNaturals
  <2>2. k \in Nat /\ k <= n /\ ~Rises(it[k]) /\ k # 0
    BY <1>4, <2>1
  <2>3. k - 1 \in Nat /\ k - 1 <= n /\ k - 1 \notin Bad
    BY <1>2, <2>1, <2>2
  <2>4. Rises(it[k - 1])
    BY <2>3
  <2> QED
    BY <1>2, <1>5, <2>2, <2>4
<1>7. Rises(it[n])
  BY <1>2, <1>6
<1> QED
  BY <1>3, <1>7

-----------------------------------------------------------------------------
(* Some value is at or beyond any rank, with no more than that many before *)
(* it.                                                                     *)
LEMMA QuantileFound ==
  ASSUME NEW pts, NEW rows, IsFiniteSet(rows), NEW axis, \A i \in rows : pts[i][axis] \in Int,
         NEW rank \in Nat, rank < Cardinality(rows)
  PROVE  Quantile(pts, rows, axis, rank) \in Values(pts, rows, axis)
<1> DEFINE V == Values(pts, rows, axis)
           below(v) == {i \in rows : pts[i][axis] < v}
           upto(v) == {i \in rows : pts[i][axis] <= v}
           reach == {v \in V : rank < Cardinality(upto(v))}
<1>1. V \in SUBSET Int /\ IsFiniteSet(V) /\ \A i \in rows : pts[i][axis] \in V
  <2>1. [i \in rows |-> pts[i][axis]] \in Surjection(rows, V)
    BY DEF Values, Surjection
  <2>2. IsFiniteSet(V)
    BY <2>1, FS_Surjection
  <2> QED
    BY <2>2 DEF Values
<1>2. V # {}
  <2>1. rows # {}
    <3>1. Cardinality({}) = 0
      BY FS_EmptySet
    <3> QED
      BY <3>1
  <2> QED
    BY <1>1, <2>1
<1>3. \A v \in Int : IsFiniteSet(below(v)) /\ Cardinality(below(v)) \in Nat
  BY FS_Subset, FS_CardinalityType
<1> HIDE DEF V
<1>4. Max(V) \in reach
  <2>1. Max(V) \in V /\ \A y \in V : y <= Max(V)
    BY <1>1, <1>2, Extremes
  <2>2. upto(Max(V)) = rows
    BY <1>1, <2>1
  <2> QED
    BY <2>1, <2>2
<1>5. reach \in SUBSET Int /\ IsFiniteSet(reach) /\ reach # {}
  BY <1>1, <1>4, FS_Subset
<1> DEFINE v == Min(reach)
<1>6. v \in reach /\ \A y \in reach : v <= y
  <2> HIDE DEF reach
  <2> QED
    BY <1>5, Extremes
<1> HIDE DEF v
<1>7. v \in V /\ v \in Int /\ rank < Cardinality(upto(v))
  BY <1>1, <1>6
<1>8. Cardinality(below(v)) <= rank
  <2>0. Cardinality(below(v)) \in Nat
    BY <1>3, <1>7
  <2> SUFFICES ASSUME rank < Cardinality(below(v)) PROVE FALSE
    BY <2>0
  <2> DEFINE earlier == {y \in V : y < v}
  <2>1. below(v) # {}
    BY FS_EmptySet
  <2>2. PICK i \in rows : pts[i][axis] < v
    BY <2>1
  <2>3. earlier # {} /\ earlier \in SUBSET Int /\ earlier \in SUBSET V
    BY <1>1, <2>2
  <2>4. IsFiniteSet(earlier)
    BY <1>1, <2>3, FS_Subset
  <2> HIDE DEF earlier
  <2>5. Max(earlier) \in earlier /\ \A y \in earlier : y <= Max(earlier)
    BY <2>3, <2>4, Extremes
  <2> DEFINE u == Max(earlier)
  <2>6. u \in V /\ u \in Int /\ u < v /\ \A y \in V : y < v => y <= u
    BY <1>1, <2>3, <2>5 DEF earlier
  <2> HIDE DEF u
  <2>7. upto(u) = below(v)
    BY <1>1, <1>7, <2>6
  <2>8. u \in reach
    BY <2>6, <2>7
  <2> QED
    BY <1>6, <1>7, <2>6, <2>8
<1>9. \E x \in V : Cardinality(below(x)) <= rank /\ rank < Cardinality(upto(x))
  BY <1>7, <1>8
<1> QED
  BY <1>9 DEF Quantile, V

(* A measured axis has an extent of integers, and integers for knots.      *)
LEMMA AxisFitted ==
  ASSUME NEW pts, NEW rows, IsFiniteSet(rows), rows # {}, NEW axis \in Axes,
         \A i \in rows : pts[i][axis] \in Int
  PROVE  /\ MeasuredDomain(pts, rows)[axis].lo \in Int
         /\ MeasuredDomain(pts, rows)[axis].hi \in Int
         /\ \A i \in rows : /\ MeasuredDomain(pts, rows)[axis].lo <= pts[i][axis]
                            /\ pts[i][axis] <= MeasuredDomain(pts, rows)[axis].hi
         /\ InteriorKnots(pts, rows, axis) \in Seq(Int)
         /\ MeasuredDomain(pts, rows)[axis].lo \in Values(pts, rows, axis)
         /\ MeasuredDomain(pts, rows)[axis].hi \in Values(pts, rows, axis)
         /\ InteriorKnots(pts, rows, axis) \in Seq(Values(pts, rows, axis))
         /\ Rises(InteriorKnots(pts, rows, axis))
<1> DEFINE V == Values(pts, rows, axis)
           dom == MeasuredDomain(pts, rows)
           candidates == Quantiles(pts, rows, axis)
           n == Cardinality(rows)
           num == NumKnots[axis]
           step == n \div (num + 1)
<1>1. V \in SUBSET Int /\ IsFiniteSet(V) /\ V # {} /\ \A i \in rows : pts[i][axis] \in V
  <2>1. [i \in rows |-> pts[i][axis]] \in Surjection(rows, V)
    BY DEF Values, Surjection
  <2>2. IsFiniteSet(V)
    BY <2>1, FS_Surjection
  <2> QED
    BY <2>2 DEF Values
<1>2. dom[axis].lo = Min(V) /\ dom[axis].hi = Max(V)
  BY DEF MeasuredDomain, Extent
<1> HIDE DEF V, dom
<1>3. Max(V) \in V /\ Min(V) \in V /\ \A y \in V : Min(V) <= y /\ y <= Max(V)
  BY <1>1, Extremes
<1>4. dom[axis].lo \in Int /\ dom[axis].hi \in Int
      /\ \A i \in rows : dom[axis].lo <= pts[i][axis] /\ pts[i][axis] <= dom[axis].hi
  BY <1>1, <1>2, <1>3
<1>5. num \in Nat
  BY FitAssumption
<1>6. n \in Nat /\ n > 0
  BY FS_CardinalityType, FS_EmptySet
<1>7. step \in Nat
  <2> HIDE DEF n, num
  <2> QED
    BY <1>5, <1>6
<1>8. candidates = [k \in 1..num |-> Quantile(pts, rows, axis, Min({k * step, n - 1}))]
  BY DEF Quantiles
<1> HIDE DEF candidates, step, num, n
<1>9. ASSUME NEW k \in 1..num PROVE Quantile(pts, rows, axis, Min({k * step, n - 1})) \in V
  <2> DEFINE ranks == {k * step, n - 1}
  <2>1. k * step \in Nat /\ n - 1 \in Nat
    BY <1>5, <1>6, <1>7
  <2>2. ranks \in SUBSET Int /\ ranks # {} /\ IsFiniteSet(ranks)
    <3>1. IsFiniteSet({k * step}) /\ ranks = {k * step} \cup {n - 1}
      BY FS_Singleton
    <3>2. IsFiniteSet(ranks)
      BY <3>1, FS_AddElement
    <3> QED
      BY <2>1, <3>2
  <2>3. Min(ranks) \in ranks /\ \A y \in ranks : Min(ranks) <= y
    <3> HIDE DEF ranks
    <3> QED
      BY <2>2, Extremes
  <2>4. Min(ranks) \in Nat /\ Min(ranks) <= n - 1
    BY <2>1, <2>3
  <2> DEFINE rank == Min(ranks)
  <2>5. rank \in Nat /\ rank < Cardinality(rows)
    BY <1>6, <2>4 DEF n
  <2> HIDE DEF rank
  <2>6. Quantile(pts, rows, axis, rank) \in V
    BY <2>5, QuantileFound DEF V
  <2> QED
    BY <1>1, <2>6 DEF rank
<1>10. candidates \in Seq(V)
  <2> DEFINE q(k) == Quantile(pts, rows, axis, Min({k * step, n - 1}))
  <2>1. \A k \in 1..num : q(k) \in V
    BY <1>9
  <2>2. candidates = [k \in 1..num |-> q(k)]
    BY <1>8
  <2> HIDE DEF q
  <2> QED
    BY <1>5, <2>1, <2>2
<1>11. \A wanted : Only(wanted, candidates) \in Seq(V)
  BY <1>10, OnlyKeeps DEF KeptOf
<1>12. \A wanted, spacing : Thin(Only(wanted, candidates), spacing) \in Seq(V)
  BY <1>11, ThinKeeps DEF KeptOf
<1>13. ASSUME NEW w \in Seq(V) PROVE w \in Seq(Int)
  <2>1. /\ Len(w) \in Nat /\ w = [i \in 1..Len(w) |-> w[i]]
        /\ \A i \in 1..Len(w) : w[i] \in Int
    BY <1>1, LenProperties
  <2> DEFINE v == [i \in 1..Len(w) |-> w[i]]
  <2>2. v \in Seq(Int)
    BY <2>1
  <2> QED
    BY <2>1, <2>2
<1>14. \A wanted : Rises(Thin(Only(wanted, candidates), MinSpacing[axis]))
  BY <1>11, <1>13, ThinRises, FitAssumption
<1>15. InteriorKnots(pts, rows, axis) \in Seq(V) /\ Rises(InteriorKnots(pts, rows, axis))
  BY <1>12, <1>14 DEF InteriorKnots, candidates
<1> QED
  BY <1>2, <1>3, <1>4, <1>13, <1>15 DEF dom, V

-----------------------------------------------------------------------------
(* The models and the files.  A model as Nominal and the searches make it. *)
Shaped(m) ==
  m = [rms |-> m.rms, q |-> m.q, spacing |-> m.spacing, wire |-> m.wire,
       asym |-> m.asym, position |-> 0, gates |-> m.gates]

(* Fitting has not begun; a correction is being judged; or all is ready.   *)
Unfitted == {"start", "parse", "class", "specs", "sweep", "pass1", "pass2"}
Fitting  == {"tune", "predict", "fit"}
Judging  == {"folds", "score", "assess"}
Ready    == {"build", "export", "done"}

ModelsKept ==
  /\ pc \in Unfitted \cup Fitting \cup Judging \cup Ready \cup {"refused"}
  /\ pc \in Unfitted \cup Fitting => surface = {}
  /\ pc \in Judging => surface # {}
  /\ pc \in Fitting \cup Judging => Shaped(fitted) /\ fitted.gates = FALSE
  /\ pc = "pass2" => Shaped(first) /\ first.gates = TRUE
  /\ pc \in Ready => Shaped(fitted) /\ fitted.gates = (surface = {})
  /\ \A s \in surface : s.slab = fitted
  /\ pc \notin {"export", "done", "refused"} => artifact = {}
  /\ ModelServedAsFitted

Untouched == \A o \in Outputs : disk[o] = "old"

FilesKept ==
  /\ disk \in [Outputs -> {"old", "torn", "new"}]
  /\ pc \notin {"export", "done", "refused"} => Untouched
  /\ pc = "refused" /\ stage # "export" => Untouched
  /\ pc \in {"export", "done"} \/ ~Untouched => artifact # {}
  /\ pc = "export" =>
       \A o \in Outputs : disk[o] = "old" \/ (disk[o] = "new" /\ Requested(o))
  /\ \A o \in Outputs \ {"artifact"} : disk[o] # "old" => disk["artifact"] = "new"
  /\ pc = "done" => \A o \in Outputs : disk[o] = IF Requested(o) THEN "new" ELSE "old"

IInv == ModelsKept /\ FilesKept

-----------------------------------------------------------------------------
(* Nothing is there at first. *)
LEMMA InitKept == Init => IInv
  BY DEF Init, IInv, ModelsKept, FilesKept, ModelServedAsFitted, Untouched, Outputs,
         Unfitted, Fitting, Judging, Ready

(* A refusal before the first write touches nothing. *)
LEMMA RefuseKept ==
  ASSUME IInv, Refuse, pc \notin {"export", "done", "refused"}
  PROVE  IInv'
<1>1. /\ pc' = "refused" /\ stage' = pc
      /\ UNCHANGED <<job, points, first, fitted, surface, cv, artifact, disk>>
  BY DEF Refuse
<1>2. ModelsKept'
  BY <1>1 DEF IInv, ModelsKept, ModelServedAsFitted, Unfitted, Fitting, Judging, Ready
<1>3. FilesKept'
  BY <1>1 DEF IInv, FilesKept, Untouched
<1> QED
  BY <1>2, <1>3 DEF IInv

(* A step before the export leaves the files as they are. *)
LEMMA FilesUntouched ==
  ASSUME IInv, pc \notin {"export", "done", "refused"},
         UNCHANGED <<artifact, disk>>,
         pc' \notin {"export", "done", "refused"}
  PROVE  FilesKept'
BY DEF IInv, ModelsKept, FilesKept, Untouched

(* A step that goes on without fitting anything. *)
LEMMA Onward ==
  ASSUME IInv, UNCHANGED <<job, first, fitted, surface, artifact, disk>>,
         \/ pc \in Unfitted /\ pc' \in Unfitted \ {"pass2"}
         \/ pc \in Fitting /\ pc' \in Fitting
         \/ pc \in Judging /\ pc' \in Judging \cup {"build"}
  PROVE  IInv'
<1>1. ModelsKept'
  <2>1. ModelServedAsFitted'
    BY DEF IInv, ModelsKept, ModelServedAsFitted
  <2> QED
    BY <2>1 DEF IInv, ModelsKept, Unfitted, Fitting, Judging, Ready, Shaped
<1>2. FilesKept'
  BY FilesUntouched DEF Unfitted, Fitting, Judging
<1> QED
  BY <1>1, <1>2 DEF IInv

-----------------------------------------------------------------------------
(* Searches move a model's parameters, never its feed or its gates.        *)
LEMMA ParametersShaped ==
  ASSUME NEW d, NEW gates, NEW r, NEW q, NEW s, NEW w
  PROVE  /\ Shaped(WithParameters(d, gates, r, q, s, w))
         /\ WithParameters(d, gates, r, q, s, w).gates = gates
BY DEF Shaped, WithParameters

(* So has the nominal model its feed at the focus. *)
LEMMA NominalShaped ==
  ASSUME NEW d, NEW gates
  PROVE  Shaped(Nominal(d, gates)) /\ Nominal(d, gates).gates = gates
BY ParametersShaped DEF Nominal

(* And every model the search of full mode may return. *)
LEMMA ClassProbesShaped ==
  ASSUME NEW d, NEW gates, NEW tuning, NEW m \in ClassProbes(d, gates, tuning)
  PROVE  Shaped(m) /\ m.gates = gates
<1>1. PICK r \in Bracket(d.rms), s \in SpacingProbes(d, tuning), w \in WireProbes(d, tuning) :
        m = WithParameters(d, gates, r, d.q, s, w)
  BY SMT DEF ClassProbes
<1> QED
  BY <1>1, ParametersShaped

(* And every one that boresight tuning may. *)
LEMMA TunedShaped ==
  ASSUME NEW gates, NEW m \in Tuned(gates)
  PROVE  Shaped(m) /\ m.gates = gates
<1> DEFINE d == job.design
<1>1. m \in SpecsProbes(d, gates)
  BY DEF Tuned
<1>2. PICK r \in {3 * (d.rms \div 10), d.rms, d.rms * 3}, q \in HalfToDouble(d.q),
           s \in HalfToDouble(d.spacing), w \in HalfToDouble(d.wire) :
        m = WithParameters(d, gates, r, q, s, w)
  BY <1>1, SMT DEF SpecsProbes
<1> QED
  BY <1>2, ParametersShaped

(* A step that fits a model, in any of the ways there are: the class's own *)
(* or a tuned one is taken, a correction is fitted to it, or pass 1 or 2   *)
(* of boresight tuning ends.                                               *)
LEMMA Fitted ==
  ASSUME IInv, UNCHANGED <<job, artifact, disk>>,
         pc \in Unfitted \cup Fitting, Shaped(fitted'),
         \/ /\ pc' \in Fitting /\ surface' = {} /\ fitted'.gates = FALSE
         \/ /\ pc' \in Judging /\ surface' # {} /\ fitted'.gates = FALSE
            /\ \A s \in surface' : s.slab = fitted'
         \/ /\ pc' = "build" /\ fitted'.gates = (surface' = {})
            /\ \A s \in surface' : s.slab = fitted'
  PROVE  IInv'
<1>1. /\ pc \notin {"export", "done", "refused"} /\ pc' \notin {"export", "done", "refused"}
      /\ pc' \in Fitting \cup Judging \cup {"build"}
  BY DEF Unfitted, Fitting, Judging
<1>2. artifact' = {}
  BY <1>1 DEF IInv, ModelsKept
<1>3. ModelServedAsFitted'
  BY <1>2 DEF ModelServedAsFitted
<1>4. ModelsKept'
  BY <1>1, <1>2, <1>3 DEF ModelsKept, Unfitted, Fitting, Judging, Ready
<1>5. FilesKept'
  BY <1>1, FilesUntouched
<1> QED
  BY <1>4, <1>5 DEF IInv

(* The steps of full mode. *)
LEMMA FullSteps ==
  ASSUME IInv,
         Dispatch \/ Parse \/ LoadClass \/ TuneClass \/ Predict \/ Fit
           \/ StartFolds \/ ScoreFold \/ CollectFolds \/ Assess
  PROVE  IInv'
<1>1. CASE Refuse
  <2>1. pc \notin {"export", "done", "refused"}
    BY DEF Dispatch, Parse, LoadClass, TuneClass, Predict, Fit,
           StartFolds, ScoreFold, CollectFolds, Assess
  <2> QED
    BY <1>1, <2>1, RefuseKept
<1>2. CASE (Dispatch \/ Parse) /\ ~Refuse
  BY <1>2, Onward DEF Dispatch, Parse, Goto, Unfitted
<1>3. CASE LoadClass /\ ~Refuse
  <2>1. /\ pc = "class" /\ fitted' = Nominal(job.design, FALSE)
        /\ pc' \in Fitting
        /\ UNCHANGED <<job, points, first, surface, cv, artifact, disk>>
    BY <1>3 DEF LoadClass, Goto, Fitting
  <2>2. surface' = {} /\ pc \in Unfitted
    BY <2>1 DEF IInv, ModelsKept, Unfitted
  <2> QED
    BY <2>1, <2>2, NominalShaped, Fitted
<1>4. CASE TuneClass /\ ~Refuse
  <2>1. PICK m \in ClassProbes(job.design, FALSE, job.tuning) : fitted' = m
    BY <1>4 DEF TuneClass
  <2>2. /\ pc = "tune" /\ pc' = "predict"
        /\ UNCHANGED <<job, points, first, surface, cv, artifact, disk>>
    BY <1>4 DEF TuneClass, Goto
  <2>3. surface' = {} /\ pc \in Fitting /\ pc' \in Fitting
    BY <2>2 DEF IInv, ModelsKept, Fitting
  <2> QED
    BY <2>1, <2>2, <2>3, ClassProbesShaped, Fitted
<1>5. CASE Predict /\ ~Refuse
  BY <1>5, Onward DEF Predict, Goto, Fitting
<1>6. CASE Fit /\ ~Refuse
  <2>1. /\ pc = "fit" /\ pc' \in Judging
        /\ surface' = {[axes |-> FittedAxes(points, DOMAIN points), order |-> SplineOrder,
                        slab |-> fitted]}
        /\ UNCHANGED <<job, points, first, fitted, cv, artifact, disk>>
    BY <1>6 DEF Fit, Goto, Judging
  <2>2. surface' # {} /\ \A s \in surface' : s.slab = fitted'
    BY <2>1
  <2>3. Shaped(fitted) /\ fitted.gates = FALSE /\ pc \in Fitting
    BY <2>1 DEF IInv, ModelsKept, Fitting
  <2> QED
    BY <2>1, <2>2, <2>3, Fitted
<1>7. CASE (StartFolds \/ CollectFolds \/ Assess) /\ ~Refuse
  BY <1>7, Onward DEF StartFolds, CollectFolds, Assess, Goto, Judging
<1>8. CASE ScoreFold /\ ~Refuse
  <2>1. pc = "score" /\ UNCHANGED <<job, pc, stage, points, first, fitted, surface, artifact, disk>>
    BY <1>8 DEF ScoreFold
  <2> QED
    BY <2>1, Onward DEF Judging
<1> QED
  BY <1>1, <1>2, <1>3, <1>4, <1>5, <1>6, <1>7, <1>8

(* The steps of boresight mode. *)
LEMMA SweepSteps ==
  ASSUME IInv, LoadSpecs \/ ParseSweep \/ TunePass1 \/ TunePass2
  PROVE  IInv'
<1>1. CASE Refuse
  <2>1. pc \notin {"export", "done", "refused"}
    BY DEF LoadSpecs, ParseSweep, TunePass1, TunePass2
  <2> QED
    BY <1>1, <2>1, RefuseKept
<1>2. CASE (LoadSpecs \/ ParseSweep) /\ ~Refuse
  BY <1>2, Onward DEF LoadSpecs, ParseSweep, Goto, Unfitted
<1>3. CASE TunePass1 /\ ~Refuse
  <2>1. PICK m \in Tuned(TRUE), large \in BOOLEAN :
          /\ first' = m
          /\ fitted' = IF large THEN fitted ELSE m
          /\ pc' = IF large THEN "pass2" ELSE "build"
    BY <1>3 DEF TunePass1, Goto
  <2>2. pc = "pass1" /\ UNCHANGED <<job, points, surface, cv, artifact, disk>>
    BY <1>3 DEF TunePass1
  <2>3. Shaped(m) /\ m.gates = TRUE
    BY TunedShaped
  <2>4. surface = {} /\ artifact = {} /\ pc \in Unfitted
    BY <2>2 DEF IInv, ModelsKept, Unfitted
  <2>5. CASE large
    <3>1. pc' = "pass2" /\ Shaped(first') /\ first'.gates = TRUE
      BY <2>1, <2>3, <2>5
    <3>2. ModelsKept'
      BY <2>2, <2>4, <3>1
      DEF ModelsKept, ModelServedAsFitted, Unfitted, Fitting, Judging, Ready
    <3>3. FilesKept'
      BY <2>2, <3>1, FilesUntouched
    <3> QED
      BY <3>2, <3>3 DEF IInv
  <2>6. CASE ~large
    <3>1. pc' = "build" /\ fitted' = m /\ surface' = {}
      BY <2>1, <2>2, <2>4, <2>6
    <3> QED
      BY <2>2, <2>3, <2>4, <3>1, Fitted
  <2> QED
    BY <2>5, <2>6
<1>4. CASE TunePass2 /\ ~Refuse
  <2>1. PICK m \in Tuned(FALSE) :
          IF SweepUsable /\ LayoutValid(FlatSurface(m).axes, BoresightOrder)
          THEN fitted' = m /\ surface' = {FlatSurface(m)}
          ELSE fitted' = WithoutCorrection(first, m) /\ UNCHANGED surface
    BY <1>4 DEF TunePass2
  <2>2. /\ pc = "pass2" /\ pc' = "build"
        /\ UNCHANGED <<job, points, first, cv, artifact, disk>>
    BY <1>4 DEF TunePass2, Goto
  <2>3. Shaped(m) /\ m.gates = FALSE
    BY TunedShaped
  <2>4. Shaped(first) /\ first.gates = TRUE /\ surface = {} /\ pc \in Unfitted
    BY <2>2 DEF IInv, ModelsKept, Unfitted
  <2>5. CASE fitted' = m /\ surface' = {FlatSurface(m)}
    <3>1. FlatSurface(m).slab = m
      BY DEF FlatSurface
    <3>2. surface' # {} /\ \A s \in surface' : s.slab = fitted'
      BY <2>5, <3>1
    <3> QED
      BY <2>2, <2>3, <2>4, <2>5, <3>2, Fitted
  <2>6. CASE fitted' = first /\ UNCHANGED surface
    BY <2>2, <2>4, <2>6, Fitted
  <2> QED
    BY <2>1, <2>5, <2>6 DEF WithoutCorrection
<1> QED
  BY <1>1, <1>2, <1>3, <1>4

-----------------------------------------------------------------------------
(* The artifact is made of the model that was fitted. *)
LEMMA BuildKept ==
  ASSUME IInv, Build
  PROVE  IInv'
<1>1. CASE Refuse
  BY <1>1, RefuseKept DEF Build
<1>2. CASE ~Refuse
  <2> DEFINE built == [model |-> Stamped, coverage |-> Coverage,
                       surface |-> Written(surface), resolution |-> Assessed]
  <2>1. /\ pc = "build" /\ pc' = "export" /\ artifact' = {built}
        /\ UNCHANGED <<job, points, first, fitted, surface, cv, disk>>
    BY <1>2 DEF Build, Goto
  <2>2. /\ Shaped(fitted) /\ fitted.gates = (surface = {})
        /\ \A s \in surface : s.slab = fitted
    BY <2>1 DEF IInv, ModelsKept, Ready
  <2>3. built.model = Stamped /\ (built.surface = {}) = (surface = {})
    BY DEF Written
  <2>4. Stamped.gates = (surface = {})
    BY <2>2 DEF Stamped, Shaped
  <2>5. ASSUME job.design.position = 0 PROVE Stamped = fitted
    <3>1. Stamped = [rms |-> fitted.rms, q |-> fitted.q, spacing |-> fitted.spacing,
                     wire |-> fitted.wire, asym |-> fitted.asym, position |-> 0,
                     gates |-> fitted.gates]
      BY <2>2, <2>5 DEF Stamped
    <3> QED
      BY <2>2, <3>1 DEF Shaped
  <2> HIDE DEF built
  <2>6. ModelServedAsFitted'
    <3> SUFFICES ASSUME NEW a \in artifact'
                 PROVE  /\ job.design.position = 0 => a.model = fitted
                        /\ (a.surface = {}) = (surface = {})
                        /\ \A s \in surface :
                             /\ s.slab.gates = a.model.gates
                             /\ job.design.position = 0 => s.slab = a.model
      BY <2>1 DEF ModelServedAsFitted
    <3>1. a = built
      BY <2>1
    <3> QED
      BY <2>2, <2>3, <2>4, <2>5, <3>1
  <2>7. ModelsKept'
    BY <2>1, <2>6 DEF IInv, ModelsKept, Unfitted, Fitting, Judging, Ready, Shaped
  <2>8. FilesKept'
    <3>1. Untouched
      BY <2>1 DEF IInv, FilesKept
    <3>2. artifact' # {}
      BY <2>1
    <3>3. disk \in [Outputs -> {"old", "torn", "new"}] /\ disk' = disk
      BY <2>1 DEF IInv, FilesKept
    <3> QED
      BY <2>1, <3>1, <3>2, <3>3 DEF FilesKept, Untouched, Outputs
  <2> QED
    BY <2>7, <2>8 DEF IInv
<1> QED
  BY <1>1, <1>2

(* The files that are still due come after those that are written. *)
LEMMA ExportKept ==
  ASSUME IInv, NEW o \in Outputs, Export(o)
  PROVE  IInv'
<1>1. /\ pc = "export" /\ artifact # {}
      /\ disk \in [Outputs -> {"old", "torn", "new"}]
      /\ UNCHANGED <<job, points, first, fitted, surface, cv, artifact>>
  BY DEF IInv, FilesKept, Export
<1>2. Requested(o) /\ disk[o] = "old"
  BY DEF Export, Pending
<1>3. o # "artifact" => disk["artifact"] = "new"
  <2>1. CASE o # "artifact" /\ "artifact" \in Pending
    <3>1. ExportOrder[o] <= ExportOrder["artifact"]
      BY <2>1 DEF Export
    <3> QED
      BY <2>1, <3>1 DEF ExportOrder, Outputs
  <2>2. CASE "artifact" \notin Pending
    <3>1. Requested("artifact") /\ "artifact" \in Outputs
      BY DEF Requested, Outputs
    <3>2. disk["artifact"] # "old"
      BY <2>2, <3>1 DEF Pending
    <3> QED
      BY <1>1, <3>1, <3>2 DEF IInv, FilesKept
  <2> QED
    BY <2>1, <2>2
<1>4. \A p \in Outputs \ {"artifact"} : disk[p] # "old" => disk["artifact"] = "new"
  BY DEF IInv, FilesKept
<1>5. \A p : Requested(p)' = Requested(p)
  BY <1>1 DEF Requested
<1>6. ModelServedAsFitted'
  BY <1>1 DEF IInv, ModelsKept, ModelServedAsFitted
<1>7. CASE disk' = [disk EXCEPT ![o] = "new"] /\ UNCHANGED <<pc, stage>>
  <2>1. ModelsKept'
    BY <1>1, <1>6, <1>7 DEF IInv, ModelsKept, Ready, Shaped, Unfitted, Fitting, Judging
  <2>2. \A p \in Outputs : disk'[p] = IF p = o THEN "new" ELSE disk[p]
    BY <1>1, <1>7
  <2>3. \A p \in Outputs : disk[p] = "old" \/ (disk[p] = "new" /\ Requested(p))
    BY <1>1 DEF IInv, FilesKept
  <2>4. \A p \in Outputs : disk'[p] = "old" \/ (disk'[p] = "new" /\ Requested(p)')
    BY <1>2, <1>5, <2>2, <2>3
  <2>5. \A p \in Outputs \ {"artifact"} : disk'[p] # "old" => disk'["artifact"] = "new"
    BY <1>3, <1>4, <2>2 DEF Outputs
  <2>6. disk' \in [Outputs -> {"old", "torn", "new"}]
    BY <1>1, <1>7
  <2>7. FilesKept'
    BY <1>1, <1>7, <2>4, <2>5, <2>6 DEF FilesKept
  <2> QED
    BY <2>1, <2>7 DEF IInv
<1>8. CASE /\ disk' \in {disk, [disk EXCEPT ![o] = "torn"]}
           /\ pc' = "refused" /\ stage' = pc
  <2>1. ModelsKept'
    BY <1>1, <1>6, <1>8 DEF IInv, ModelsKept, Ready, Shaped, Unfitted, Fitting, Judging
  <2>2. CASE disk' = disk
    <3>1. FilesKept'
      BY <1>1, <1>4, <1>8, <2>2 DEF FilesKept, Untouched
    <3> QED
      BY <2>1, <3>1 DEF IInv
  <2>3. CASE disk' = [disk EXCEPT ![o] = "torn"]
    <3>1. \A p \in Outputs : disk'[p] = IF p = o THEN "torn" ELSE disk[p]
      BY <1>1, <2>3
    <3>2. \A p \in Outputs \ {"artifact"} : disk'[p] # "old" => disk'["artifact"] = "new"
      <4>1. CASE o = "artifact"
        <5>1. \A p \in Outputs \ {"artifact"} : disk[p] = "old" /\ disk'[p] = "old"
          BY <1>2, <1>4, <3>1, <4>1
        <5> QED
          BY <5>1
      <4>2. CASE o # "artifact"
        <5>1. disk'["artifact"] = "new"
          BY <1>3, <3>1, <4>2 DEF Outputs
        <5> QED
          BY <5>1
      <4> QED
        BY <4>1, <4>2
    <3>3. disk' \in [Outputs -> {"old", "torn", "new"}]
      BY <1>1, <2>3
    <3>4. FilesKept'
      BY <1>1, <1>8, <3>2, <3>3 DEF FilesKept, Untouched
    <3> QED
      BY <2>1, <3>4 DEF IInv
  <2> QED
    BY <1>8, <2>2, <2>3
<1> QED
  BY <1>7, <1>8 DEF Export

(* When nothing is due, everything requested was written. *)
LEMMA FinishKept ==
  ASSUME IInv, Finish
  PROVE  IInv'
<1>1. /\ pc = "export" /\ Pending = {} /\ pc' = "done"
      /\ UNCHANGED <<job, points, first, fitted, surface, cv, artifact, disk>>
  BY DEF Finish, Goto
<1>2. \A o \in Outputs : disk[o] = IF Requested(o) THEN "new" ELSE "old"
  <2> SUFFICES ASSUME NEW o \in Outputs
               PROVE  disk[o] = IF Requested(o) THEN "new" ELSE "old"
    OBVIOUS
  <2>1. disk[o] = "old" \/ (disk[o] = "new" /\ Requested(o))
    BY <1>1 DEF IInv, FilesKept
  <2>2. ~(Requested(o) /\ disk[o] = "old")
    BY <1>1 DEF Pending
  <2> QED
    BY <2>1, <2>2
<1>3. \A o : Requested(o)' = Requested(o)
  BY <1>1 DEF Requested
<1>4. FilesKept'
  BY <1>1, <1>2, <1>3 DEF IInv, FilesKept, Untouched
<1>5. ModelServedAsFitted'
  BY <1>1 DEF IInv, ModelsKept, ModelServedAsFitted
<1>6. ModelsKept'
  BY <1>1, <1>5 DEF IInv, ModelsKept, Ready, Shaped, Unfitted, Fitting, Judging
<1> QED
  BY <1>4, <1>6 DEF IInv

(* Every step keeps the models and the files in order. *)
LEMMA NextKept == IInv /\ [Next]_vars => IInv'
<1> SUFFICES ASSUME IInv, [Next]_vars PROVE IInv'
  OBVIOUS
<1>1. CASE UNCHANGED vars
  <2>1. ModelsKept'
    BY <1>1 DEF vars, IInv, ModelsKept, ModelServedAsFitted, Shaped
  <2>2. FilesKept'
    BY <1>1 DEF vars, IInv, FilesKept, Untouched, Requested
  <2> QED
    BY <2>1, <2>2 DEF IInv
<1> QED
  BY <1>1, FullSteps, SweepSteps, BuildKept, ExportKept, FinishKept DEF Next

(* They always are. *)
LEMMA Kept == Spec => []IInv
  BY InitKept, NextKept, PTL DEF Spec

-----------------------------------------------------------------------------
(* Every measurement is held out by exactly one fold, and every fold but   *)
(* that one is trained on it, whether or not the number of folds divides   *)
(* the number of points.                                                   *)
THEOREM FoldsPartition ==
  ASSUME NEW pts \in Seq(Points), NEW n \in Nat \ {0}, NEW i \in DOMAIN pts
  PROVE  \E fold \in 0..n-1 :
           /\ i \in HeldOut(pts, fold, n)
           /\ \A other \in 0..n-1 \ {fold} :
                i \notin HeldOut(pts, other, n) /\ i \in Training(pts, other, n)
<1>1. i - 1 \in Nat /\ (i - 1) % n \in 0..n-1
  OBVIOUS
<1>2. \A f \in 0..n-1 : i \in HeldOut(pts, f, n) <=> f = (i - 1) % n
  BY DEF HeldOut, IsHeldOut
<1>3. \A f \in 0..n-1 : i \in Training(pts, f, n) <=> i \notin HeldOut(pts, f, n)
  BY DEF Training
<1> WITNESS (i - 1) % n \in 0..n-1
<1> QED
  BY <1>1, <1>2, <1>3

(* There are no more fold numbers than results. *)
LEMMA FoldNumbers ==
  ASSUME NEW results, IsFiniteSet(results)
  PROVE  /\ IsFiniteSet({r.fold : r \in results})
         /\ Cardinality({r.fold : r \in results}) <= Cardinality(results)
<1> DEFINE number == [r \in results |-> r.fold]
<1>1. number \in Surjection(results, {r.fold : r \in results})
  BY DEF Surjection
<1> QED
  BY <1>1, FS_Surjection

(* A record in the older form does not say which folds its figures are of. *)
(* They are the folds that did not fail, and no other reading of it fits.  *)
THEOREM LegacyNamesScored ==
  ASSUME NEW scored, NEW failed, IsFiniteSet(scored), IsFiniteSet(failed),
         FoldsComplete(scored, failed)
  PROVE  LegacyScored(ScoredRecord(scored, failed)) = {r.fold : r \in scored}
<1> DEFINE S == {r.fold : r \in scored}
           F == {r.fold : r \in failed}
           n == Cardinality(scored) + Cardinality(failed)
<1>1. /\ IsFiniteSet(S) /\ Cardinality(S) <= Cardinality(scored)
      /\ IsFiniteSet(F) /\ Cardinality(F) <= Cardinality(failed)
  BY FoldNumbers
<1>2. Cardinality(S \cup F) = n /\ S \cup F = 1..n
  BY DEF FoldsComplete
<1>3. Cardinality(S \cup F) = Cardinality(S) + Cardinality(F) - Cardinality(S \cap F)
  BY <1>1, FS_Union
<1>4. /\ Cardinality(scored) \in Nat /\ Cardinality(failed) \in Nat
      /\ Cardinality(S) \in Nat /\ Cardinality(F) \in Nat
      /\ IsFiniteSet(S \cap F) /\ Cardinality(S \cap F) \in Nat
  BY <1>1, FS_CardinalityType, FS_Intersection
<1> HIDE DEF S, F
<1>5. Cardinality(S \cap F) = 0
  BY <1>1, <1>2, <1>3, <1>4
<1>6. S \cap F = {}
  BY <1>4, <1>5, FS_EmptySet
<1>7. LegacyScored(ScoredRecord(scored, failed)) = 1..n \ F
  BY DEF LegacyScored, ScoredRecord, F
<1> QED
  BY <1>2, <1>6, <1>7 DEF S

-----------------------------------------------------------------------------
(* A usable row is a point of the polar convention, under one of its names. *)
LEMMA RowIsPolar ==
  ASSUME NEW row \in Row, RowValid(row)
  PROVE  ToPolar(row) \in PolarPoints /\ ToPolar(row) \in Namings(row)
<1>1. row.clock \in 0..360 /\ row.cone \in -90..90 /\ row.freq \in Int
  BY DEF Row, RowValid
<1>2. (row.clock + 180) % 360 \in 0..359
  BY <1>1
<1>3. CASE row.cone >= 0
  BY <1>1, <1>3 DEF ToPolar, PolarPoints, Namings
<1>4. CASE ~(row.cone >= 0)
  <2>1. (row.clock + 180) % 360 # row.clock
    <3>1. CASE row.clock < 180
      <4>1. (row.clock + 180) % 360 = row.clock + 180
        BY <1>1, <3>1
      <4> QED
        BY <1>1, <4>1
    <3>2. CASE ~(row.clock < 180)
      BY <1>1, <3>2
    <3> QED
      BY <3>1, <3>2
  <2>2. -row.cone \in 0..90 /\ row.cone # -row.cone
    BY <1>1, <1>4
  <2> DEFINE turned == (row.clock + 180) % 360
  <2>3. ToPolar(row) = [clock |-> turned, cone |-> -row.cone, freq |-> row.freq]
    BY <1>4 DEF ToPolar
  <2>4. turned \in 0..360 /\ turned # row.clock
    BY <1>2, <2>1
  <2> HIDE DEF turned
  <2>5. ToPolar(row) \in PolarPoints
    BY <1>1, <2>2, <2>3, <2>4 DEF PolarPoints
  <2>6. ToPolar(row) \in Namings(row)
    BY <2>3, <2>4 DEF Namings, turned
  <2> QED
    BY <2>5, <2>6
<1> QED
  BY <1>3, <1>4

(* Parsing keeps the usable rows, each once.                               *)
KeptRows(rows) == Only({row \in ToSet(rows) : RowValid(row)}, rows)

PolarRows(rows) == [i \in DOMAIN KeptRows(rows) |-> ToPolar(KeptRows(rows)[i])]

UsableOf(rows) == {i \in DOMAIN rows : RowValid(rows[i])}

(* Parsing makes one point of the polar convention of each usable row, and *)
(* no others.                                                              *)
LEMMA RowsArePolar ==
  ASSUME NEW rows \in Seq(Row)
  PROVE  /\ PolarRows(rows) \in Seq(PolarPoints)
         /\ KeptRows(rows) # <<>> => PolarRows(rows) # <<>>
         /\ Len(PolarRows(rows)) = Cardinality(UsableOf(rows))
         /\ \A i \in UsableOf(rows) :
              \E m \in 1..Len(PolarRows(rows)) : PolarRows(rows)[m] = ToPolar(rows[i])
<1> DEFINE wanted == {row \in ToSet(rows) : RowValid(row)}
           test == [k \in 1..Len(rows) |-> rows[k] \in wanted]
           kept == KeptRows(rows)
           polar == PolarRows(rows)
<1>1. KeptOf(Len(rows), Row, rows, test, kept)
  BY OnlyKeeps DEF KeptRows
<1>0. polar = [i \in DOMAIN kept |-> ToPolar(kept[i])]
  BY DEF PolarRows
<1>2. Len(rows) \in Nat /\ DOMAIN rows = 1..Len(rows) /\ \A k \in 1..Len(rows) : rows[k] \in Row
  BY LenProperties
<1>3. \A k \in 1..Len(rows) : test[k] = RowValid(rows[k])
  <2>1. \A k \in 1..Len(rows) : rows[k] \in ToSet(rows)
    BY <1>2 DEF ToSet
  <2>2. \A k \in 1..Len(rows) : RowValid(rows[k]) \in BOOLEAN
    BY DEF RowValid
  <2> QED
    BY <2>1, <2>2
<1> HIDE DEF test, wanted, kept, polar
<1>4. /\ kept \in Seq(Row)
      /\ Len(kept) = Cardinality({j \in 1..Len(rows) : test[j]})
      /\ \A j \in 1..Len(rows) : test[j] => \E m \in 1..Len(kept) : kept[m] = rows[j]
      /\ \A m \in 1..Len(kept) : \E j \in 1..Len(rows) : test[j] /\ kept[m] = rows[j]
  BY <1>1 DEF KeptOf
<1>5. Len(kept) \in Nat /\ DOMAIN kept = 1..Len(kept)
  BY <1>4, LenProperties
<1>6. \A m \in 1..Len(kept) : ToPolar(kept[m]) \in PolarPoints
  BY <1>2, <1>3, <1>4, RowIsPolar
<1>7. polar \in Seq(PolarPoints) /\ Len(polar) = Len(kept) /\ \A m \in 1..Len(kept) : polar[m] = ToPolar(kept[m])
  <2> HIDE DEF ToPolar
  <2> QED
    BY <1>0, <1>5, <1>6
<1>8. kept # <<>> => polar # <<>>
  <2>1. kept # <<>> => Len(kept) # 0
    BY <1>4, EmptySeq
  <2> QED
    BY <1>7, <2>1
<1>9. {j \in 1..Len(rows) : test[j]} = UsableOf(rows)
  BY <1>2, <1>3 DEF UsableOf
<1>10. \A i \in UsableOf(rows) :
         \E m \in 1..Len(polar) : polar[m] = ToPolar(rows[i])
  <2> SUFFICES ASSUME NEW i \in DOMAIN rows, RowValid(rows[i])
               PROVE  \E m \in 1..Len(polar) : polar[m] = ToPolar(rows[i])
    BY DEF UsableOf
  <2>1. PICK m \in 1..Len(kept) : kept[m] = rows[i]
    BY <1>2, <1>3, <1>4
  <2>2. m \in 1..Len(polar) /\ polar[m] = ToPolar(rows[i])
    BY <1>7, <2>1
  <2> QED
    BY <2>2
<1> QED
  BY <1>4, <1>7, <1>8, <1>9, <1>10 DEF kept, polar

(* Whatever is tuned has the type of a model.                              *)
LEMMA ModelTyped ==
  ASSUME NEW d \in Design, NEW gates \in BOOLEAN, NEW r \in Nat, NEW q \in Nat,
         NEW s \in Nat, NEW w \in Nat
  PROVE  WithParameters(d, gates, r, q, s, w) \in Models
  BY DEF WithParameters, Models, Design

(* Searches stay among the natural numbers. *)
LEMMA ProbesTyped ==
  ASSUME NEW d \in Design, NEW gates \in BOOLEAN
  PROVE  /\ Nominal(d, gates) \in Models
         /\ \A tuning : ClassProbes(d, gates, tuning) \subseteq Models
         /\ SpecsProbes(d, gates) \subseteq Models
<1>1. d.rms \in Nat /\ d.q \in Nat /\ d.spacing \in Nat /\ d.wire \in Nat
  BY DEF Design
<1>2. \A n \in Nat : n \div 5 \in Nat /\ n * 5 \in Nat /\ n \div 2 \in Nat /\ n * 2 \in Nat
                     /\ n * 3 \in Nat /\ 3 * (n \div 10) \in Nat
  OBVIOUS
<1>3. \A n \in Nat : Bracket(n) \subseteq Nat /\ HalfToDouble(n) \subseteq Nat
  BY <1>2 DEF Bracket, HalfToDouble
<1>4. Nominal(d, gates) \in Models
  BY <1>1, ModelTyped DEF Nominal
<1>5. \A tuning : SpacingProbes(d, tuning) \subseteq Nat /\ WireProbes(d, tuning) \subseteq Nat
  BY <1>1, <1>3 DEF SpacingProbes, WireProbes
<1>6. \A tuning : ClassProbes(d, gates, tuning) \subseteq Models
  BY <1>1, <1>3, <1>5, ModelTyped DEF ClassProbes
<1>7. {3 * (d.rms \div 10), d.rms, d.rms * 3} \subseteq Nat
  BY <1>1, <1>2
<1>8. SpecsProbes(d, gates) \subseteq Models
  BY <1>1, <1>3, <1>7, ModelTyped DEF SpecsProbes
<1> QED
  BY <1>4, <1>6, <1>8

-----------------------------------------------------------------------------
(* What the steps of each mode know of the job, and of what was read.      *)
FullModeSteps  == {"parse", "class", "tune", "predict", "fit", "folds", "score", "assess"}
BoresightModeSteps == {"specs", "sweep", "pass1", "pass2"}
Measured   == (FullModeSteps \ {"parse"}) \cup {"pass1", "pass2"} \cup Ready

RowsParsed ==
  /\ Len(points) = Cardinality(UsableRows)
  /\ \A i \in UsableRows : \E m \in 1..Len(points) : points[m] = ToPolar(job.rows[i])

DataKept ==
  /\ job \in Jobs
  /\ pc \in Steps \cup {"done", "refused"}
  /\ stage \in Steps \cup {""} /\ (stage = "") = (pc # "refused")
  /\ pc \in FullModeSteps => job.mode = "full"
  /\ pc \in BoresightModeSteps => job.mode # "full"
  /\ points \in Seq(PolarPoints)
  /\ pc \in Measured => points # <<>>
  /\ job.mode = "full" /\ points # <<>> => RowsParsed
  /\ first \in Models \cup {None} /\ fitted \in Models \cup {None}
  /\ pc \in Fitting \cup Judging \cup Ready => fitted \in Models
  /\ pc = "pass2" => first \in Models

(* A correction is one surface of integer knots that can be evaluated;     *)
(* that of full mode was fitted to all measurements and reaches them.      *)
Surfaced(s) ==
  /\ s = [axes |-> s.axes, order |-> s.order, slab |-> s.slab]
  /\ s.axes = [a \in Axes |-> ClampedAxis(s.axes[a].lower, s.axes[a].upper, s.axes[a].interior)]
  /\ \A a \in Axes : /\ s.axes[a].lower \in Int /\ s.axes[a].upper \in Int
                     /\ s.axes[a].interior \in Seq(Int)
  /\ s.slab \in Models
  /\ LayoutValid(s.axes, s.order)
  /\ job.mode = "full" =>
       \A i \in DOMAIN points : \A a \in Axes :
         s.axes[a].lower <= points[i][a] /\ points[i][a] <= s.axes[a].upper

SurfaceKept ==
  /\ \A s, t \in surface : s = t
  /\ \A s \in surface : Surfaced(s)

(* The artifact is made of what the run still holds.                       *)
BuiltKept ==
  /\ \A a, b \in artifact : a = b
  /\ \A a \in artifact :
       /\ a = [model |-> Stamped, coverage |-> Coverage,
               surface |-> Written(surface), resolution |-> Assessed]
       /\ ArtifactSound(a)
       /\ points # <<>>

(* The folds so far are numbered without gaps, and dealt their points.     *)
Dealt(k) == {i \in DOMAIN points : (i - 1) % cv.n < k}

FoldsCounted ==
  /\ cv = [n |-> cv.n, scored |-> cv.scored, failed |-> cv.failed]
  /\ cv.n = WantedFolds /\ cv.n \in 2..Len(points)
  /\ IsFiniteSet(cv.scored) /\ IsFiniteSet(cv.failed)
  /\ NextFold <= cv.n
  /\ \A r \in cv.scored : r.fold \in 1..NextFold /\ r = ScoredFold(points, r.fold - 1, cv.n)
  /\ \A r \in cv.failed : r.fold \in 1..NextFold /\ r = FailedFold(points, r.fold - 1, cv.n)
  /\ {r.fold : r \in cv.scored} \cup {r.fold : r \in cv.failed} = 1..NextFold
  /\ PointsIn(cv.scored) + PointsLeftOut(points, cv.failed) = Cardinality(Dealt(NextFold))

FoldsKept ==
  /\ pc \in Unfitted \cup Fitting \cup {"folds"} => cv = None
  /\ pc \in {"folds", "score"} => WantedFolds > 1
  /\ pc = "score" => cv # None
  /\ pc = "assess" /\ WantedFolds > 1 => cv # None
  /\ cv # None => FoldsCounted
  /\ cv # None /\ pc \notin {"score", "refused"} => NextFold = cv.n
  /\ stage \notin {"score", "assess"}
  /\ stage = "folds" => job.validate /\ job.folds > Len(points)

(* The report is of what the run still holds.                              *)
ReportKept ==
  /\ pc \notin Ready \cup {"refused"} => report = {}
  /\ \A r, t \in report : r = t
  /\ report # {} => job.mode = "full" /\ points # <<>>
  /\ \A r \in report : \E errors \in Errors, s \in surface :
       r = Report(points, [i \in DOMAIN points |-> errors[points[i].cone]], s.axes,
                  IF WantedFolds > 1 THEN cv ELSE None)

AllKept == DataKept /\ SurfaceKept /\ BuiltKept /\ FoldsKept /\ ReportKept

-----------------------------------------------------------------------------
(* A refusal keeps what was read. *)
LEMMA DataRefused ==
  ASSUME DataKept, Refuse, pc \in Steps
  PROVE  DataKept'
<1>1. RowsParsed' = RowsParsed
  BY DEF Refuse, RowsParsed, UsableRows
<1>2. pc' = "refused" /\ stage' = pc /\ UNCHANGED <<job, points, first, fitted>>
  BY DEF Refuse
<1>3. stage' # "" /\ stage' \in Steps
  BY <1>2 DEF Steps
<1> QED
  BY <1>1, <1>2, <1>3
  DEF DataKept, FullModeSteps, BoresightModeSteps, Measured, Fitting, Judging, Ready

(* So does a step that goes on as the mode allows. *)
LEMMA DataOnward ==
  ASSUME DataKept, pc \in Steps, pc' \in Steps \cup {"done"}, UNCHANGED <<job, points, stage>>,
         pc' \in FullModeSteps => job.mode = "full",
         pc' \in BoresightModeSteps => job.mode # "full",
         pc' \in Measured => points # <<>>,
         first' \in Models \cup {None}, fitted' \in Models \cup {None},
         pc' \in Fitting \cup Judging \cup Ready => fitted' \in Models,
         pc' = "pass2" => first' \in Models
  PROVE  DataKept'
<1>1. RowsParsed' = RowsParsed
  BY DEF RowsParsed, UsableRows
<1>2. pc # "refused" /\ pc' # "refused"
  BY DEF Steps
<1> QED
  BY <1>1, <1>2 DEF DataKept

(* What the job guarantees. *)
LEMMA JobTyped ==
  ASSUME job \in Jobs
  PROVE  job.rows \in Seq(Row) /\ job.design \in Design /\ job.folds \in Nat
         /\ job.validate \in BOOLEAN
  BY JobsAssumption

(* The steps that neither read measurements nor choose a model.            *)
LEMMA DataPassed ==
  ASSUME DataKept,
         \/ Dispatch \/ Predict \/ Fit \/ StartFolds \/ ScoreFold \/ CollectFolds \/ Assess
         \/ LoadSpecs \/ Build \/ (\E o \in Outputs : Export(o)) \/ Finish
  PROVE  DataKept'
<1>1. pc \in Steps
  BY DEF Dispatch, Predict, Fit, StartFolds, ScoreFold, CollectFolds, Assess,
         LoadSpecs, Build, Export, Finish, Steps
<1>2. CASE Refuse
  BY <1>1, <1>2, DataRefused
<1>3. CASE Dispatch /\ ~Refuse
  <2>1. /\ pc' = IF job.mode = "full" THEN "parse" ELSE "specs"
        /\ UNCHANGED <<job, points, stage, first, fitted>>
    BY <1>3 DEF Dispatch, Goto
  <2> QED
    BY <1>1, <2>1, DataOnward
    DEF DataKept, FullModeSteps, BoresightModeSteps, Measured, Fitting, Judging, Ready, Steps
<1>4. CASE (LoadSpecs \/ Predict \/ Fit) /\ ~Refuse
  <2>1. /\ \/ pc = "specs" /\ pc' = "sweep"
           \/ pc = "predict" /\ pc' = "fit"
           \/ pc = "fit" /\ pc' \in {"folds", "assess"}
        /\ UNCHANGED <<job, points, stage, first, fitted>>
    BY <1>4 DEF LoadSpecs, Predict, Fit, Goto
  <2> QED
    BY <1>1, <2>1, DataOnward
    DEF DataKept, FullModeSteps, BoresightModeSteps, Measured, Fitting, Judging, Ready, Steps
<1>5. CASE (StartFolds \/ ScoreFold \/ CollectFolds \/ Assess) /\ ~Refuse
  <2>1. /\ \/ pc = "folds" /\ pc' = "score"
           \/ pc = "score" /\ pc' \in {"score", "assess"}
           \/ pc = "assess" /\ pc' = "build"
        /\ UNCHANGED <<job, points, stage, first, fitted>>
    BY <1>5 DEF StartFolds, ScoreFold, CollectFolds, Assess, Goto
  <2> QED
    BY <1>1, <2>1, DataOnward
    DEF DataKept, FullModeSteps, BoresightModeSteps, Measured, Fitting, Judging, Ready, Steps
<1>6. CASE (Build \/ Finish) /\ ~Refuse
  <2>1. /\ \/ pc = "build" /\ pc' = "export"
           \/ pc = "export" /\ pc' = "done"
        /\ UNCHANGED <<job, points, stage, first, fitted>>
    BY <1>6 DEF Build, Finish, Goto
  <2> QED
    BY <1>1, <2>1, DataOnward
    DEF DataKept, FullModeSteps, BoresightModeSteps, Measured, Fitting, Judging, Ready, Steps
<1>7. CASE \E o \in Outputs : Export(o)
  <2>1. pc = "export" /\ UNCHANGED <<job, points, first, fitted>>
    BY <1>7 DEF Export
  <2>2. UNCHANGED <<pc, stage>> \/ (pc' = "refused" /\ stage' = pc)
    BY <1>7 DEF Export
  <2>3. RowsParsed' = RowsParsed
    BY <2>1 DEF RowsParsed, UsableRows
  <2>4. CASE UNCHANGED <<pc, stage>>
    BY <2>1, <2>3, <2>4 DEF DataKept
  <2>5. CASE pc' = "refused" /\ stage' = pc
    BY <2>1, <2>3, <2>5
    DEF DataKept, FullModeSteps, BoresightModeSteps, Measured, Fitting, Judging, Ready, Steps
  <2> QED
    BY <2>2, <2>4, <2>5
<1> QED
  BY <1>2, <1>3, <1>4, <1>5, <1>6, <1>7

(* The steps that choose a model. *)
LEMMA DataTuned ==
  ASSUME DataKept, LoadClass \/ TuneClass \/ TunePass1 \/ TunePass2
  PROVE  DataKept'
<1>1. pc \in Steps /\ job.design \in Design
  BY JobTyped DEF LoadClass, TuneClass, TunePass1, TunePass2, Steps, DataKept
<1>2. /\ Nominal(job.design, FALSE) \in Models
      /\ ClassProbes(job.design, FALSE, job.tuning) \subseteq Models
      /\ Tuned(TRUE) \subseteq Models /\ Tuned(FALSE) \subseteq Models
  BY <1>1, ProbesTyped DEF Tuned
<1>3. CASE Refuse
  BY <1>1, <1>3, DataRefused
<1>4. CASE LoadClass /\ ~Refuse
  <2>1. /\ pc = "class" /\ pc' \in {"tune", "predict"} /\ fitted' = Nominal(job.design, FALSE)
        /\ UNCHANGED <<job, points, stage, first>>
    BY <1>4 DEF LoadClass, Goto
  <2> QED
    BY <1>1, <1>2, <2>1, DataOnward
    DEF DataKept, FullModeSteps, BoresightModeSteps, Measured, Fitting, Judging, Ready, Steps
<1>5. CASE TuneClass /\ ~Refuse
  <2>1. /\ pc = "tune" /\ pc' = "predict"
        /\ fitted' \in ClassProbes(job.design, FALSE, job.tuning)
        /\ UNCHANGED <<job, points, stage, first>>
    BY <1>5 DEF TuneClass, Goto
  <2> QED
    BY <1>1, <1>2, <2>1, DataOnward
    DEF DataKept, FullModeSteps, BoresightModeSteps, Measured, Fitting, Judging, Ready, Steps
<1>6. CASE TunePass1 /\ ~Refuse
  <2>1. PICK m \in Tuned(TRUE), large \in BOOLEAN :
          /\ first' = m
          /\ fitted' = IF large THEN fitted ELSE m
          /\ pc' = IF large THEN "pass2" ELSE "build"
    BY <1>6 DEF TunePass1, Goto
  <2>2. pc = "pass1" /\ UNCHANGED <<job, points, stage>>
    BY <1>6 DEF TunePass1, Goto
  <2>3. m \in Models /\ fitted \in Models \cup {None} /\ points # <<>> /\ job.mode # "full"
    BY <1>2, <2>1, <2>2 DEF DataKept, Measured, BoresightModeSteps
  <2>4. first' \in Models /\ fitted' \in Models \cup {None} /\ (pc' = "build" => fitted' \in Models)
    BY <2>1, <2>3
  <2>5. pc' \in {"pass2", "build"}
    BY <2>1
  <2> QED
    BY <1>1, <2>2, <2>3, <2>4, <2>5, DataOnward
    DEF FullModeSteps, Fitting, Judging, Ready, Steps
<1>7. CASE TunePass2 /\ ~Refuse
  <2>1. /\ pc = "pass2" /\ pc' = "build" /\ UNCHANGED <<job, points, stage, first>>
        /\ fitted' \in Tuned(FALSE) \cup {first}
    BY <1>7 DEF TunePass2, Goto, WithoutCorrection
  <2>2. first \in Models /\ fitted' \in Models /\ points # <<>> /\ job.mode # "full"
    BY <1>2, <2>1 DEF DataKept, Measured, BoresightModeSteps
  <2> QED
    BY <1>1, <2>1, <2>2, DataOnward DEF FullModeSteps, Fitting, Judging, Ready, Steps
<1> QED
  BY <1>3, <1>4, <1>5, <1>6, <1>7

(* The steps that read measurements. *)
LEMMA DataRead ==
  ASSUME DataKept, Parse \/ ParseSweep
  PROVE  DataKept'
<1>1. pc \in Steps /\ job.rows \in Seq(Row)
  BY JobTyped DEF Parse, ParseSweep, Steps, DataKept
<1>2. CASE Refuse
  BY <1>1, <1>2, DataRefused
<1>3. CASE Parse /\ ~Refuse
  <2>1. /\ pc = "parse" /\ pc' = "class"
        /\ KeptRows(job.rows) # <<>> /\ points' = PolarRows(job.rows)
        /\ UNCHANGED <<job, stage, first, fitted>>
    BY <1>3 DEF Parse, Goto, KeptRows, PolarRows
  <2>2. /\ points' \in Seq(PolarPoints) /\ points' # <<>>
        /\ Len(points') = Cardinality(UsableOf(job.rows))
        /\ \A i \in UsableOf(job.rows) :
             \E m \in 1..Len(points') : points'[m] = ToPolar(job.rows[i])
    BY <1>1, <2>1, RowsArePolar
  <2>3. UsableRows' = UsableOf(job.rows)
    BY <2>1 DEF UsableRows, UsableOf
  <2>4. RowsParsed'
    BY <2>1, <2>2, <2>3 DEF RowsParsed
  <2> QED
    BY <1>1, <2>1, <2>2, <2>4
    DEF DataKept, FullModeSteps, BoresightModeSteps, Measured, Fitting, Judging, Ready, Steps
<1>4. CASE ParseSweep /\ ~Refuse
  <2> DEFINE swept == [i \in DOMAIN job.rows |-> OnBoresight(job.rows[i])]
  <2>1. /\ pc = "sweep" /\ pc' = "pass1" /\ job.rows # <<>> /\ points' = swept
        /\ UNCHANGED <<job, stage, first, fitted>>
    BY <1>4 DEF ParseSweep, Goto
  <2>2. Len(job.rows) \in Nat /\ DOMAIN job.rows = 1..Len(job.rows) /\ Len(job.rows) # 0
        /\ \A i \in 1..Len(job.rows) : job.rows[i] \in Row
    BY <1>1, <2>1, LenProperties, EmptySeq
  <2>3. \A i \in 1..Len(job.rows) : OnBoresight(job.rows[i]) \in PolarPoints
    BY <2>2 DEF OnBoresight, Row, PolarPoints
  <2>4. swept \in Seq(PolarPoints) /\ Len(swept) = Len(job.rows)
    BY <2>2, <2>3
  <2>5. swept # <<>>
    <3> HIDE DEF swept
    <3> QED
      BY <2>2, <2>4
  <2> HIDE DEF swept
  <2>6. job.mode # "full"
    BY <2>1 DEF DataKept, BoresightModeSteps
  <2> QED
    BY <1>1, <2>1, <2>4, <2>5, <2>6
    DEF DataKept, FullModeSteps, BoresightModeSteps, Measured, Fitting, Judging, Ready, Steps
<1> QED
  BY <1>2, <1>3, <1>4

(* Every step keeps the data in order. *)
LEMMA DataNext ==
  ASSUME DataKept, [Next]_vars
  PROVE  DataKept'
<1>1. CASE UNCHANGED vars
  <2>1. RowsParsed' = RowsParsed
    BY <1>1 DEF vars, RowsParsed, UsableRows
  <2> QED
    BY <1>1, <2>1 DEF vars, DataKept
<1> QED
  BY <1>1, DataPassed, DataTuned, DataRead DEF Next

(* So they are at first. *)
LEMMA DataInit == Init => DataKept
<1> SUFFICES ASSUME Init PROVE DataKept
  OBVIOUS
<1>1. points = <<>> /\ points \in Seq(PolarPoints)
  BY EmptySeq DEF Init
<1> QED
  BY <1>1 DEF Init, DataKept, FullModeSteps, BoresightModeSteps, Measured, Fitting, Judging,
              Ready, Steps

-----------------------------------------------------------------------------
(* What can be fitted can be evaluated wherever it was measured.           *)
LEMMA FittedSurfaced ==
  ASSUME DataKept, pc = "fit", FitRefusal(points, DOMAIN points) = "none"
  PROVE  Surfaced([axes |-> FittedAxes(points, DOMAIN points), order |-> SplineOrder,
                   slab |-> fitted])
<1> DEFINE rows == DOMAIN points
           axes == FittedAxes(points, rows)
           dom == MeasuredDomain(points, rows)
           s == [axes |-> axes, order |-> SplineOrder, slab |-> fitted]
<1>1. points \in Seq(PolarPoints) /\ points # <<>> /\ fitted \in Models
  BY DEF DataKept, Measured, FullModeSteps, Fitting
<1>2. rows = 1..Len(points) /\ Len(points) \in Nat /\ Len(points) # 0
  BY <1>1, LenProperties, EmptySeq
<1>3. IsFiniteSet(rows) /\ rows # {}
  <2>1. 1 \in rows
    BY <1>2
  <2>2. IsFiniteSet(1..Len(points))
    BY <1>2, FS_Interval
  <2> QED
    BY <1>2, <2>1, <2>2
<1>4. \A i \in rows : points[i] \in PolarPoints
  BY <1>1, <1>2
<1>5. \A i \in rows : \A a \in Axes : points[i][a] \in Int
  BY <1>4 DEF PolarPoints, Axes
<1> HIDE DEF rows
<1>6. \A a \in Axes :
        /\ dom[a].lo \in Int /\ dom[a].hi \in Int
        /\ \A i \in rows : dom[a].lo <= points[i][a] /\ points[i][a] <= dom[a].hi
        /\ InteriorKnots(points, rows, a) \in Seq(Int)
  BY <1>3, <1>5, AxisFitted
<1> HIDE DEF dom
<1>7. axes = [a \in Axes |-> ClampedAxis(dom[a].lo, dom[a].hi, InteriorKnots(points, rows, a))]
  BY DEF FittedAxes, dom
<1>8. LayoutValid(axes, SplineOrder)
  BY DEF FitRefusal, rows
<1> HIDE DEF axes
<1>9. \A a \in Axes : /\ axes[a].lower = dom[a].lo /\ axes[a].upper = dom[a].hi
                      /\ axes[a].interior = InteriorKnots(points, rows, a)
  BY <1>7 DEF ClampedAxis
<1>10. axes = [a \in Axes |-> ClampedAxis(axes[a].lower, axes[a].upper, axes[a].interior)]
  BY <1>7, <1>9
<1>11. s.axes = axes /\ s.order = SplineOrder /\ s.slab = fitted
  OBVIOUS
<1>12. s = [axes |-> s.axes, order |-> s.order, slab |-> s.slab]
  OBVIOUS
<1> HIDE DEF s
<1>13. Surfaced(s)
  BY <1>1, <1>6, <1>8, <1>9, <1>10, <1>11, <1>12 DEF Surfaced, rows
<1> QED
  BY <1>13 DEF s, axes, rows

(* The knots of a sweep of n frequencies are the second to the last but    *)
(* one but one of them.                                                    *)
LEMMA SweepKnots ==
  ASSUME NEW freqs \in Seq(Int), Len(freqs) >= 4
  PROVE  /\ FrequencyAxis(freqs, 3).lower \in Int /\ FrequencyAxis(freqs, 3).upper \in Int
         /\ FrequencyAxis(freqs, 3).interior \in Seq(Int)
         /\ FrequencyAxis(freqs, 3) =
              ClampedAxis(FrequencyAxis(freqs, 3).lower, FrequencyAxis(freqs, 3).upper,
                          FrequencyAxis(freqs, 3).interior)
<1> DEFINE n == Len(freqs)
           at(i) == (i * (n - 1)) \div (n - 3 + 1)
           interior == [i \in 1..(n - 3) |-> freqs[1 + at(i)]]
<1>1. n \in Nat /\ n >= 4 /\ DOMAIN freqs = 1..n /\ \A i \in 1..n : freqs[i] \in Int
  BY LenProperties
<1>2. FrequencyAxis(freqs, 3) = ClampedAxis(Head(freqs), Last(freqs), interior)
  BY DEF FrequencyAxis
<1>3. Head(freqs) \in Int /\ Last(freqs) \in Int
  BY <1>1 DEF Last
<1> HIDE DEF n
<1>4. ASSUME NEW i \in 1..(n - 3) PROVE at(i) = i
  <2> DEFINE m == n - 2
  <2>1. m \in Nat /\ m > 0 /\ i \in Nat /\ i < m
    BY <1>1
  <2>2. i * (n - 1) = i * m + i /\ n - 3 + 1 = m
    BY <1>1
  <2> HIDE DEF m
  <2>3. (i * m + i) \div m = i
    BY <2>1
  <2> QED
    BY <2>2, <2>3
<1> HIDE DEF at
<1>5. \A i \in 1..(n - 3) : freqs[1 + at(i)] \in Int
  BY <1>1, <1>4
<1>6. interior \in Seq(Int)
  BY <1>1, <1>5
<1> HIDE DEF interior
<1> QED
  BY <1>2, <1>3, <1>6 DEF ClampedAxis

(* A usable sweep has a correction that can be evaluated.                  *)
LEMMA SweepSurfaced ==
  ASSUME DataKept, pc = "pass2", NEW m \in Models, SweepUsable,
         LayoutValid(FlatSurface(m).axes, BoresightOrder)
  PROVE  Surfaced(FlatSurface(m))
<1> DEFINE freqs == [i \in DOMAIN points |-> points[i].freq]
           axis == FrequencyAxis(freqs, BoresightOrder)
           s == FlatSurface(m)
<1>1. /\ Len(points) \in Nat /\ DOMAIN points = 1..Len(points) /\ Len(points) >= 4
      /\ \A i \in 1..Len(points) : points[i] \in PolarPoints
  BY LenProperties DEF DataKept, SweepUsable
<1>2. \A i \in 1..Len(points) : points[i].freq \in Int
  BY <1>1 DEF PolarPoints
<1>3. freqs \in Seq(Int) /\ Len(freqs) = Len(points)
  BY <1>1, <1>2
<1> HIDE DEF freqs
<1>4. /\ axis.lower \in Int /\ axis.upper \in Int /\ axis.interior \in Seq(Int)
      /\ axis = ClampedAxis(axis.lower, axis.upper, axis.interior)
  BY <1>1, <1>3, SweepKnots DEF BoresightOrder
<1>5. s = [axes |-> [clock |-> FlatAxis(0, 360), cone |-> FlatAxis(0, 180), freq |-> axis],
           order |-> BoresightOrder, slab |-> m]
  BY DEF FlatSurface, freqs
<1> HIDE DEF axis
<1>6. /\ s.axes = [clock |-> FlatAxis(0, 360), cone |-> FlatAxis(0, 180), freq |-> axis]
      /\ s.order = BoresightOrder /\ s.slab = m
      /\ s = [axes |-> s.axes, order |-> s.order, slab |-> s.slab]
  BY <1>5
<1>7. LayoutValid(s.axes, s.order)
  BY <1>6
<1> HIDE DEF s
<1>8. /\ s.axes["clock"] = FlatAxis(0, 360) /\ s.axes["cone"] = FlatAxis(0, 180)
      /\ s.axes["freq"] = axis /\ DOMAIN s.axes = Axes
  BY <1>6 DEF Axes
<1>9. \A l, u \in Int : <<(l + u) \div 2>> \in Seq(Int)
  OBVIOUS
<1>10. \A l, u \in Int :
         /\ FlatAxis(l, u).lower \in Int /\ FlatAxis(l, u).upper \in Int
         /\ FlatAxis(l, u).interior \in Seq(Int)
         /\ FlatAxis(l, u) = ClampedAxis(FlatAxis(l, u).lower, FlatAxis(l, u).upper,
                                         FlatAxis(l, u).interior)
  BY <1>9 DEF FlatAxis, ClampedAxis
<1>11. \A a \in Axes :
         /\ s.axes[a].lower \in Int /\ s.axes[a].upper \in Int /\ s.axes[a].interior \in Seq(Int)
         /\ s.axes[a] = ClampedAxis(s.axes[a].lower, s.axes[a].upper, s.axes[a].interior)
  BY <1>4, <1>8, <1>10 DEF Axes
<1>12. s.axes = [a \in Axes |-> s.axes[a]]
  BY <1>6 DEF Axes
<1>13. s.axes = [a \in Axes |-> ClampedAxis(s.axes[a].lower, s.axes[a].upper, s.axes[a].interior)]
  BY <1>11, <1>12
<1>14. job.mode # "full"
  BY DEF DataKept, BoresightModeSteps
<1>15. Surfaced(s)
  BY <1>6, <1>7, <1>11, <1>13, <1>14 DEF Surfaced
<1> QED
  BY <1>15 DEF s

(* Every step keeps the correction one that can be evaluated. *)
LEMMA SurfaceNext ==
  ASSUME DataKept, IInv, SurfaceKept, [Next]_vars
  PROVE  SurfaceKept'
<1>1. ASSUME UNCHANGED <<job, points, surface>> PROVE SurfaceKept'
  BY <1>1 DEF SurfaceKept, Surfaced
<1>2. CASE Parse \/ ParseSweep
  <2>1. surface = {} /\ surface' = {}
    BY <1>2 DEF Parse, ParseSweep, Refuse, IInv, ModelsKept, Unfitted
  <2> QED
    BY <2>1 DEF SurfaceKept
<1>3. CASE Fit /\ ~Refuse
  <2>1. /\ FitRefusal(points, DOMAIN points) = "none" /\ pc = "fit"
        /\ surface' = {[axes |-> FittedAxes(points, DOMAIN points), order |-> SplineOrder,
                        slab |-> fitted]}
        /\ UNCHANGED <<job, points>>
    BY <1>3 DEF Fit
  <2> DEFINE s == [axes |-> FittedAxes(points, DOMAIN points), order |-> SplineOrder,
                   slab |-> fitted]
  <2>2. Surfaced(s) /\ surface' = {s}
    BY <2>1, FittedSurfaced
  <2> HIDE DEF s
  <2>3. \A t \in surface' : Surfaced(t)'
    BY <2>1, <2>2 DEF Surfaced
  <2> QED
    BY <2>2, <2>3 DEF SurfaceKept
<1>4. CASE TunePass2 /\ ~Refuse
  <2>1. PICK m \in Tuned(FALSE) :
          IF SweepUsable /\ LayoutValid(FlatSurface(m).axes, BoresightOrder)
          THEN fitted' = m /\ surface' = {FlatSurface(m)}
          ELSE fitted' = WithoutCorrection(first, m) /\ UNCHANGED surface
    BY <1>4 DEF TunePass2
  <2>2. pc = "pass2" /\ UNCHANGED <<job, points>>
    BY <1>4 DEF TunePass2
  <2>3. m \in Models
    BY <2>1, JobTyped, ProbesTyped DEF Tuned, DataKept
  <2>4. CASE SweepUsable /\ LayoutValid(FlatSurface(m).axes, BoresightOrder)
    <3> DEFINE s == FlatSurface(m)
    <3>1. Surfaced(s) /\ surface' = {s}
      BY <2>1, <2>2, <2>3, <2>4, SweepSurfaced
    <3> HIDE DEF s
    <3>2. \A t \in surface' : Surfaced(t)'
      BY <2>2, <3>1 DEF Surfaced
    <3> QED
      BY <3>1, <3>2 DEF SurfaceKept
  <2>5. CASE UNCHANGED surface
    BY <1>1, <2>2, <2>5
  <2> QED
    BY <2>1, <2>4, <2>5
<1>5. CASE Refuse
  BY <1>1, <1>5 DEF Refuse
<1>6. CASE \/ Dispatch \/ LoadClass \/ TuneClass \/ Predict \/ StartFolds \/ ScoreFold
           \/ CollectFolds \/ Assess \/ LoadSpecs \/ TunePass1 \/ Build
           \/ (\E o \in Outputs : Export(o)) \/ Finish
  <2>1. UNCHANGED <<job, points, surface>>
    BY <1>6 DEF Dispatch, LoadClass, TuneClass, Predict, StartFolds, ScoreFold,
                CollectFolds, Assess, LoadSpecs, TunePass1, Build, Export, Finish, Refuse
  <2> QED
    BY <1>1, <2>1
<1>7. CASE UNCHANGED vars
  BY <1>1, <1>7 DEF vars
<1> QED
  BY <1>2, <1>3, <1>4, <1>5, <1>6, <1>7 DEF Next

-----------------------------------------------------------------------------
(* Once built, the artifact stays what it was made of. *)
LEMMA BuiltNext ==
  ASSUME DataKept, IInv, BuiltKept, [Next]_vars
  PROVE  BuiltKept'
<1>1. ASSUME UNCHANGED <<job, points, fitted, surface, artifact>> PROVE BuiltKept'
  <2>1. /\ Stamped' = Stamped /\ Coverage' = Coverage /\ Assessed' = Assessed
        /\ Written(surface)' = Written(surface)
    BY <1>1 DEF Stamped, Coverage, ConeCoverage, Assessed, Written, TemperatureAxis
  <2> QED
    BY <1>1, <2>1 DEF BuiltKept
<1>2. CASE \/ Dispatch \/ Parse \/ LoadClass \/ TuneClass \/ Predict \/ Fit \/ StartFolds
           \/ ScoreFold \/ CollectFolds \/ Assess \/ LoadSpecs \/ ParseSweep \/ TunePass1
           \/ TunePass2
  <2>1. pc \notin {"export", "done", "refused"} /\ artifact' = artifact
    BY <1>2 DEF Dispatch, Parse, LoadClass, TuneClass, Predict, Fit, StartFolds, ScoreFold,
                CollectFolds, Assess, LoadSpecs, ParseSweep, TunePass1, TunePass2, Refuse
  <2>2. artifact' = {}
    BY <2>1 DEF IInv, ModelsKept
  <2> QED
    BY <2>2 DEF BuiltKept
<1>3. CASE Build /\ ~Refuse
  <2> DEFINE built == [model |-> Stamped, coverage |-> Coverage,
                       surface |-> Written(surface), resolution |-> Assessed]
  <2>1. /\ artifact' = {built} /\ ArtifactSound(built) /\ pc = "build"
        /\ UNCHANGED <<job, points, fitted, surface>>
    BY <1>3 DEF Build
  <2>2. /\ Stamped' = Stamped /\ Coverage' = Coverage /\ Assessed' = Assessed
        /\ Written(surface)' = Written(surface)
    BY <2>1 DEF Stamped, Coverage, ConeCoverage, Assessed, Written, TemperatureAxis
  <2>3. points' # <<>>
    BY <2>1 DEF DataKept, Measured, Ready
  <2> DEFINE again == [model |-> Stamped', coverage |-> Coverage',
                       surface |-> Written(surface)', resolution |-> Assessed']
  <2>4. again = built
    BY <2>2
  <2> HIDE DEF built
  <2>5. \A a \in artifact' : a = again /\ ArtifactSound(a)
    BY <2>1, <2>4
  <2>6. \A a, b \in artifact' : a = b
    BY <2>1
  <2> QED
    BY <2>3, <2>5, <2>6 DEF BuiltKept
<1>4. CASE Refuse \/ (\E o \in Outputs : Export(o)) \/ Finish \/ UNCHANGED vars
  BY <1>1, <1>4 DEF Refuse, Export, Finish, vars
<1> QED
  BY <1>2, <1>3, <1>4 DEF Next

-----------------------------------------------------------------------------
(* Cross-validation never has an impossible outcome.                       *)
LEMMA CountedComplete ==
  ASSUME FoldsCounted
  PROVE  FoldsComplete(cv.scored, cv.failed)
<1>1. NextFold \in Nat
  BY FS_CardinalityType DEF FoldsCounted, NextFold
<1>2. Cardinality(1..NextFold) = NextFold
  BY <1>1, FS_Interval
<1> QED
  BY <1>2 DEF FoldsCounted, FoldsComplete, NextFold

(* Both kinds of result of a fold count the points it holds out.           *)
LEMMA FoldCounts ==
  ASSUME NEW pts, NEW V, pts \in Seq(V), NEW n \in Nat, NEW fold \in Nat
  PROVE  /\ IsFiniteSet(HeldOut(pts, fold, n))
         /\ ScoredFold(pts, fold, n).points = Cardinality(HeldOut(pts, fold, n))
         /\ Len(pts) - FailedFold(pts, fold, n).training = Cardinality(HeldOut(pts, fold, n))
         /\ Cardinality(HeldOut(pts, fold, n)) \in Nat
         /\ FailedFold(pts, fold, n).training \in Nat
         /\ ScoredFold(pts, fold, n).outside \in Nat
         /\ ScoredFold(pts, fold, n).outside <= Cardinality(HeldOut(pts, fold, n))
<1> DEFINE D == DOMAIN pts
           H == HeldOut(pts, fold, n)
           T == Training(pts, fold, n)
           O == OutOfSupport(pts, fold, n)
<1>1. D = 1..Len(pts) /\ Len(pts) \in Nat
  BY LenProperties
<1>2. IsFiniteSet(D) /\ Cardinality(D) = Len(pts)
  <2> HIDE DEF D
  <2> QED
    BY <1>1, FS_Interval
<1>3. H \in SUBSET D /\ T = D \ H /\ O \in SUBSET H
  BY DEF HeldOut, Training, OutOfSupport
<1>4. ScoredFold(pts, fold, n).points = Cardinality(H)
      /\ ScoredFold(pts, fold, n).outside = Cardinality(O)
      /\ FailedFold(pts, fold, n).training = Cardinality(T)
  BY DEF ScoredFold, FailedFold
<1> HIDE DEF D, H, T, O
<1>5. IsFiniteSet(H) /\ IsFiniteSet(T) /\ IsFiniteSet(O) /\ Cardinality(O) <= Cardinality(H)
  <2>1. IsFiniteSet(H) /\ IsFiniteSet(T)
    BY <1>2, <1>3, FS_Subset, FS_Difference
  <2> QED
    BY <1>3, <2>1, FS_Subset
<1>6. D \cap H = H
  BY <1>3
<1>7. Cardinality(T) = Cardinality(D) - Cardinality(H)
  <2>1. Cardinality(D \ H) = Cardinality(D) - Cardinality(D \cap H)
    BY <1>2, FS_Difference
  <2> QED
    BY <1>3, <1>6, <2>1
<1>8. Cardinality(H) \in Nat /\ Cardinality(T) \in Nat /\ Cardinality(O) \in Nat
  BY <1>5, FS_CardinalityType
<1>9. Len(pts) - Cardinality(T) = Cardinality(H)
  BY <1>1, <1>2, <1>7, <1>8
<1> QED
  BY <1>4, <1>5, <1>8, <1>9 DEF H

(* The next fold is dealt every point that leaves that remainder.          *)
LEMMA DealtMore ==
  ASSUME points \in Seq(PolarPoints), NEW k \in Nat, cv.n \in Nat \ {0}, k < cv.n
  PROVE  /\ Cardinality(Dealt(k + 1)) =
              Cardinality(Dealt(k)) + Cardinality(HeldOut(points, k, cv.n))
         /\ Cardinality(Dealt(k)) \in Nat
<1> DEFINE n == cv.n
           H == HeldOut(points, k, n)
<1>1. DOMAIN points = 1..Len(points) /\ Len(points) \in Nat
  BY LenProperties
<1>2. \A i \in DOMAIN points : (i - 1) % n \in Int
  <2>1. n \in Nat \ {0}
    OBVIOUS
  <2> HIDE DEF n
  <2> QED
    BY <1>1, <2>1
<1>3. H = {i \in DOMAIN points : (i - 1) % n = k}
  BY DEF HeldOut, IsHeldOut
<1>4. /\ Dealt(k) = {i \in DOMAIN points : (i - 1) % n < k}
      /\ Dealt(k + 1) = {i \in DOMAIN points : (i - 1) % n < k + 1}
  BY DEF Dealt
<1> HIDE DEF n, H
<1>5. Dealt(k + 1) = Dealt(k) \cup H /\ Dealt(k) \cap H = {}
  BY <1>2, <1>3, <1>4
<1>6. IsFiniteSet(DOMAIN points)
  BY <1>1, FS_Interval
<1>7. IsFiniteSet(Dealt(k)) /\ IsFiniteSet(H)
  BY <1>3, <1>4, <1>6, FS_Subset
<1>8. /\ Cardinality(Dealt(k) \cup H) =
           Cardinality(Dealt(k)) + Cardinality(H) - Cardinality(Dealt(k) \cap H)
      /\ Cardinality(Dealt(k)) \in Nat /\ Cardinality(H) \in Nat
  BY <1>7, FS_Union, FS_CardinalityType
<1>9. Cardinality(Dealt(k) \cap H) = 0
  BY <1>5, FS_EmptySet
<1>10. Cardinality(Dealt(k + 1)) = Cardinality(Dealt(k)) + Cardinality(H)
  <2>1. Cardinality(Dealt(k + 1)) = Cardinality(Dealt(k) \cup H)
    BY <1>5
  <2> QED
    BY ONLY <2>1, <1>8, <1>9
<1> QED
  BY <1>8, <1>10 DEF H, n

-----------------------------------------------------------------------------
(* What a fold counts of its points.                                       *)
LEMMA ResultsCount ==
  ASSUME FoldsCounted, points \in Seq(PolarPoints)
  PROVE  /\ \A r \in cv.scored : r.points \in Nat
         /\ \A r \in cv.failed : Len(points) - r.training \in Nat
         /\ NextFold \in Nat
<1>1. \A r \in cv.scored :
        /\ r.fold - 1 \in Nat /\ r = ScoredFold(points, r.fold - 1, cv.n) /\ cv.n \in Nat
  BY DEF FoldsCounted
<1>2. \A r \in cv.failed :
        /\ r.fold - 1 \in Nat /\ r = FailedFold(points, r.fold - 1, cv.n) /\ cv.n \in Nat
  BY DEF FoldsCounted
<1>3. \A k, n \in Nat : ScoredFold(points, k, n).points \in Nat
                        /\ Len(points) - FailedFold(points, k, n).training \in Nat
  <2> SUFFICES ASSUME NEW k \in Nat, NEW n \in Nat
               PROVE  /\ ScoredFold(points, k, n).points \in Nat
                      /\ Len(points) - FailedFold(points, k, n).training \in Nat
    OBVIOUS
  <2>1. /\ ScoredFold(points, k, n).points = Cardinality(HeldOut(points, k, n))
        /\ Len(points) - FailedFold(points, k, n).training = Cardinality(HeldOut(points, k, n))
        /\ Cardinality(HeldOut(points, k, n)) \in Nat
    BY FoldCounts
  <2> QED
    BY <2>1
<1>4. ASSUME NEW r \in cv.scored PROVE r.points \in Nat
  <2>1. ScoredFold(points, r.fold - 1, cv.n).points \in Nat
    BY <1>1, <1>3
  <2> QED
    BY <1>1, <2>1
<1>5. ASSUME NEW r \in cv.failed PROVE Len(points) - r.training \in Nat
  <2>1. Len(points) - FailedFold(points, r.fold - 1, cv.n).training \in Nat
    BY <1>2, <1>3
  <2> QED
    BY <1>2, <2>1
<1>6. NextFold \in Nat
  BY FS_CardinalityType DEF FoldsCounted, NextFold
<1> QED
  BY <1>4, <1>5, <1>6

(* One more fold, scored or failed, is counted once.                       *)
LEMMA OneMoreFold ==
  ASSUME FoldsCounted, points \in Seq(PolarPoints), NextFold < cv.n, UNCHANGED <<job, points>>,
         \/ cv' = [cv EXCEPT !.scored = @ \cup {ScoredFold(points, NextFold, cv.n)}]
         \/ cv' = [cv EXCEPT !.failed = @ \cup {FailedFold(points, NextFold, cv.n)}]
  PROVE  FoldsCounted'
<1>0. PICK n, k : n = cv.n /\ k = NextFold
  OBVIOUS
<1> DEFINE A == cv.scored
           B == cv.failed
           a == ScoredFold(points, k, n)
           b == FailedFold(points, k, n)
           size == Cardinality(HeldOut(points, k, n))
<1>1. /\ cv = [n |-> n, scored |-> A, failed |-> B]
      /\ n = WantedFolds /\ n \in 2..Len(points)
      /\ IsFiniteSet(A) /\ IsFiniteSet(B) /\ k < n /\ k \in Nat
      /\ \A r \in A : r.fold \in 1..k /\ r = ScoredFold(points, r.fold - 1, n)
      /\ \A r \in B : r.fold \in 1..k /\ r = FailedFold(points, r.fold - 1, n)
      /\ {r.fold : r \in A} \cup {r.fold : r \in B} = 1..k
      /\ PointsIn(A) + PointsLeftOut(points, B) = Cardinality(Dealt(k))
      /\ k = Cardinality(A) + Cardinality(B)
  BY <1>0, ResultsCount DEF FoldsCounted, NextFold
<1>2. Len(points) \in Nat
  BY LenProperties
<1>3. /\ \A r \in A : r.points \in Nat
      /\ \A r \in B : Len(points) - r.training \in Nat
  BY ResultsCount
<1>4. a.fold = k + 1 /\ b.fold = k + 1
  BY DEF ScoredFold, FailedFold
<1>5. a.points = size /\ Len(points) - b.training = size /\ size \in Nat
  <2>1. n \in Nat
    BY <1>1, <1>2
  <2> QED
    BY <1>1, <2>1, FoldCounts
<1>6. a \notin A /\ b \notin B
  <2>1. \A r \in A \cup B : r.fold \in 1..k
    BY <1>1
  <2>2. k + 1 \notin 1..k
    BY <1>1
  <2> QED
    BY <1>4, <2>1, <2>2
<1>7. /\ PointsIn(A) \in Nat /\ PointsLeftOut(points, B) \in Nat
      /\ PointsIn(A \cup {a}) = PointsIn(A) + size
      /\ PointsLeftOut(points, B \cup {b}) = PointsLeftOut(points, B) + size
  <2> HIDE DEF A, B, a, b, size
  <2>1. PointsIn(A) \in Nat /\ PointsLeftOut(points, B) \in Nat
    BY <1>1, <1>3, PointsFacts, LeftOutFacts
  <2>2. \A r \in A \cup {a} : r.points \in Nat
    BY <1>3, <1>5
  <2>3. \A r \in B \cup {b} : Len(points) - r.training \in Nat
    BY <1>3, <1>5
  <2>4. PointsIn(A \cup {a}) = PointsIn(A) + a.points
    BY <1>1, <1>6, <2>2, PointsMore
  <2>5. PointsLeftOut(points, B \cup {b}) = PointsLeftOut(points, B) + (Len(points) - b.training)
    BY <1>1, <1>6, <2>3, LeftOutMore
  <2> QED
    BY <1>5, <2>1, <2>4, <2>5
<1>8. Cardinality(Dealt(k + 1)) = Cardinality(Dealt(k)) + size
  <2>1. cv.n \in Nat \ {0} /\ k < cv.n /\ k \in Nat
    BY <1>0, <1>1, <1>2
  <2> QED
    BY <1>0, <2>1, DealtMore
<1>9. /\ IsFiniteSet(A \cup {a}) /\ Cardinality(A \cup {a}) = Cardinality(A) + 1
      /\ IsFiniteSet(B \cup {b}) /\ Cardinality(B \cup {b}) = Cardinality(B) + 1
      /\ Cardinality(A) \in Nat /\ Cardinality(B) \in Nat
  <2> HIDE DEF A, B, a, b
  <2> QED
    BY <1>1, <1>6, FS_AddElement, FS_CardinalityType
<1>10. WantedFolds' = WantedFolds /\ points' = points
  BY DEF WantedFolds
<1>11. \A j : cv'.n = n => Dealt(j)' = Dealt(j)
  BY <1>0 DEF Dealt
<1>12. (1..k) \cup {k + 1} = 1..(k + 1)
  BY <1>1
<1> HIDE DEF a, b, size
<1>13. CASE cv' = [cv EXCEPT !.scored = @ \cup {a}]
  <2>1. cv'.n = n /\ cv'.scored = A \cup {a} /\ cv'.failed = B
        /\ cv' = [n |-> cv'.n, scored |-> cv'.scored, failed |-> cv'.failed]
    BY <1>0, <1>1, <1>13
  <2> HIDE DEF A, B
  <2>2. NextFold' = k + 1
    BY <1>1, <1>9, <2>1 DEF NextFold
  <2>3. \A r \in A \cup {a} : r.fold \in 1..(k + 1) /\ r = ScoredFold(points, r.fold - 1, n)
    <3>1. a = ScoredFold(points, a.fold - 1, n)
      BY <1>1, <1>4 DEF a
    <3> QED
      BY <1>1, <1>4, <3>1
  <2>4. \A r \in B : r.fold \in 1..(k + 1) /\ r = FailedFold(points, r.fold - 1, n)
    BY <1>1
  <2>5. {r.fold : r \in A \cup {a}} \cup {r.fold : r \in B} = 1..(k + 1)
    BY <1>1, <1>4, <1>12
  <2>6. PointsIn(A \cup {a}) + PointsLeftOut(points, B) = Cardinality(Dealt(k + 1))
    BY <1>1, <1>5, <1>7, <1>8
  <2>7. Dealt(k + 1)' = Dealt(k + 1)
    BY <1>11, <2>1
  <2>8. k + 1 <= n /\ n = WantedFolds'
    BY <1>1, <1>2, <1>10
  <2> QED
    BY <1>1, <1>9, <1>10, <2>1, <2>2, <2>3, <2>4, <2>5, <2>6, <2>7, <2>8 DEF FoldsCounted
<1>14. CASE cv' = [cv EXCEPT !.failed = @ \cup {b}]
  <2>1. cv'.n = n /\ cv'.scored = A /\ cv'.failed = B \cup {b}
        /\ cv' = [n |-> cv'.n, scored |-> cv'.scored, failed |-> cv'.failed]
    BY <1>0, <1>1, <1>14
  <2> HIDE DEF A, B
  <2>2. NextFold' = k + 1
    BY <1>1, <1>9, <2>1 DEF NextFold
  <2>3. \A r \in A : r.fold \in 1..(k + 1) /\ r = ScoredFold(points, r.fold - 1, n)
    BY <1>1
  <2>4. \A r \in B \cup {b} : r.fold \in 1..(k + 1) /\ r = FailedFold(points, r.fold - 1, n)
    <3>1. b = FailedFold(points, b.fold - 1, n)
      BY <1>1, <1>4 DEF b
    <3> QED
      BY <1>1, <1>4, <3>1
  <2>5. {r.fold : r \in A} \cup {r.fold : r \in B \cup {b}} = 1..(k + 1)
    BY <1>1, <1>4, <1>12
  <2>6. PointsIn(A) + PointsLeftOut(points, B \cup {b}) = Cardinality(Dealt(k + 1))
    BY <1>1, <1>5, <1>7, <1>8
  <2>7. Dealt(k + 1)' = Dealt(k + 1)
    BY <1>11, <2>1
  <2>8. k + 1 <= n /\ n = WantedFolds'
    BY <1>1, <1>2, <1>10
  <2> QED
    BY <1>1, <1>9, <1>10, <2>1, <2>2, <2>3, <2>4, <2>5, <2>6, <2>7, <2>8 DEF FoldsCounted
<1> QED
  BY <1>0, <1>13, <1>14 DEF a, b

-----------------------------------------------------------------------------
(* The folds depend on the job, the points and the results alone. *)
LEMMA FoldsSame ==
  ASSUME UNCHANGED <<job, points, cv>>
  PROVE  FoldsCounted' = FoldsCounted /\ NextFold' = NextFold /\ WantedFolds' = WantedFolds
<1>1. NextFold' = NextFold /\ WantedFolds' = WantedFolds
  BY DEF NextFold, WantedFolds
<1>2. \A k : Dealt(k)' = Dealt(k)
  BY DEF Dealt
<1>3. Dealt(NextFold)' = Dealt(NextFold)
  BY <1>1 DEF Dealt
<1> QED
  BY <1>1, <1>3 DEF FoldsCounted

(* A fold is scored, and results are there.                                *)
LEMMA CountedIsResult ==
  ASSUME FoldsCounted, points \in Seq(PolarPoints)
  PROVE  cv # None
<1>1. cv.n \in Nat /\ cv = [n |-> cv.n, scored |-> cv.scored, failed |-> cv.failed]
  BY LenProperties DEF FoldsCounted
<1>2. \A k \in Nat : /\ ScoredFold(points, k, cv.n) \in [fold : Nat, points : Nat, outside : Nat]
                     /\ FailedFold(points, k, cv.n) \in [fold : Nat, training : Nat]
  <2> SUFFICES ASSUME NEW k \in Nat
               PROVE  /\ ScoredFold(points, k, cv.n) \in [fold : Nat, points : Nat, outside : Nat]
                      /\ FailedFold(points, k, cv.n) \in [fold : Nat, training : Nat]
    OBVIOUS
  <2>1. /\ ScoredFold(points, k, cv.n).points = Cardinality(HeldOut(points, k, cv.n))
        /\ Cardinality(HeldOut(points, k, cv.n)) \in Nat
        /\ FailedFold(points, k, cv.n).training \in Nat
        /\ ScoredFold(points, k, cv.n).outside \in Nat
    BY <1>1, FoldCounts
  <2> QED
    BY <2>1 DEF ScoredFold, FailedFold
<1>3. \A r \in cv.scored : r.fold - 1 \in Nat /\ r = ScoredFold(points, r.fold - 1, cv.n)
  BY DEF FoldsCounted
<1>4. \A r \in cv.failed : r.fold - 1 \in Nat /\ r = FailedFold(points, r.fold - 1, cv.n)
  BY DEF FoldsCounted
<1>5. cv.scored \subseteq [fold : Nat, points : Nat, outside : Nat]
  BY <1>2, <1>3
<1>6. cv.failed \subseteq [fold : Nat, training : Nat]
  BY <1>2, <1>4
<1>7. cv \in [n : Nat, scored : SUBSET [fold : Nat, points : Nat, outside : Nat],
              failed : SUBSET [fold : Nat, training : Nat]]
  BY <1>1, <1>5, <1>6
<1> QED
  BY <1>7, NoneAssumption

(* Before the first fold nothing is counted, and nothing dealt. *)
LEMMA FoldsStarted ==
  ASSUME DataKept, pc = "folds", WantedFolds > 1, WantedFolds <= Len(points),
         cv' = [n |-> WantedFolds, scored |-> {}, failed |-> {}], UNCHANGED <<job, points>>
  PROVE  FoldsCounted'
<1>1. WantedFolds' = WantedFolds /\ WantedFolds \in Nat /\ Len(points) \in Nat
  BY JobTyped, LenProperties DEF WantedFolds, DataKept
<1>2. /\ cv'.n = WantedFolds /\ cv'.scored = {} /\ cv'.failed = {}
      /\ cv' = [n |-> cv'.n, scored |-> cv'.scored, failed |-> cv'.failed]
  OBVIOUS
<1>3. IsFiniteSet({}) /\ Cardinality({}) = 0
  BY FS_EmptySet
<1>4. NextFold' = 0
  BY <1>2, <1>3 DEF NextFold
<1>5. PointsIn({}) = 0 /\ PointsLeftOut(points, {}) = 0
  BY <1>3, PointsFacts, LeftOutFacts
<1>6. \A i \in DOMAIN points : ~((i - 1) % cv'.n < 0)
  <2> SUFFICES ASSUME NEW i \in DOMAIN points PROVE ~((i - 1) % cv'.n < 0)
    OBVIOUS
  <2>1. i \in 1..Len(points)
    BY LenProperties DEF DataKept
  <2> DEFINE n == WantedFolds
  <2>2. n \in Nat \ {0} /\ cv'.n = n
    BY <1>1, <1>2
  <2> HIDE DEF n
  <2>3. (i - 1) % n \in 0..(n - 1)
    BY <1>1, <2>1, <2>2
  <2> QED
    BY <2>2, <2>3
<1>7. Dealt(NextFold)' = {}
  BY <1>4, <1>6 DEF Dealt
<1>8. {r.fold : r \in {}} \cup {r.fold : r \in {}} = 1..0
  OBVIOUS
<1>9. points' = points /\ cv'.n \in 2..Len(points) /\ NextFold' <= cv'.n
  BY <1>1, <1>2, <1>4
<1>10. PointsIn(cv'.scored) + PointsLeftOut(points, cv'.failed) = Cardinality(Dealt(NextFold)')
  BY <1>2, <1>3, <1>5, <1>7
<1>11. /\ \A r \in cv'.scored : FALSE
       /\ \A r \in cv'.failed : FALSE
       /\ {r.fold : r \in cv'.scored} \cup {r.fold : r \in cv'.failed} = 1..NextFold'
  BY <1>2, <1>4, <1>8
<1> QED
  BY <1>1, <1>2, <1>3, <1>9, <1>10, <1>11 DEF FoldsCounted

(* Every step keeps the folds counted. *)
LEMMA FoldsNext ==
  ASSUME DataKept, IInv, FoldsKept, [Next]_vars
  PROVE  FoldsKept'
<1>1. points \in Seq(PolarPoints) /\ job \in Jobs /\ job.folds \in Nat
  BY JobTyped DEF DataKept
<1>2. ASSUME UNCHANGED <<job, points, cv, stage>>, pc \notin {"folds", "score", "assess"},
             pc' \notin {"folds", "score", "assess", "refused"},
             pc \in Unfitted \cup Fitting \/ pc' \notin Unfitted \cup Fitting,
             pc # "refused"
      PROVE  FoldsKept'
  BY <1>2, FoldsSame DEF FoldsKept
<1>3. ASSUME Refuse, pc \notin {"score", "assess"},
             pc = "folds" => WantedFolds > Len(points) /\ WantedFolds > 1
      PROVE  FoldsKept'
  <2>1. pc' = "refused" /\ stage' = pc /\ UNCHANGED <<job, points, cv>>
    BY <1>3 DEF Refuse
  <2>2. pc = "folds" => job'.validate /\ job'.folds > Len(points')
    BY <1>3, <2>1 DEF WantedFolds
  <2> QED
    BY <1>3, <2>1, <2>2, FoldsSame DEF FoldsKept, Unfitted, Fitting
<1>4. CASE Parse \/ ParseSweep
  <2>1. pc \in {"parse", "sweep"}
    BY <1>4 DEF Parse, ParseSweep
  <2>2. cv = None
    BY <2>1 DEF FoldsKept, Unfitted
  <2>3. CASE Refuse
    BY <1>3, <2>1, <2>3
  <2>4. CASE ~Refuse
    <3>1. pc' \in {"class", "pass1"} /\ cv' = None /\ stage' = stage
      BY <1>4, <2>2, <2>4 DEF Parse, ParseSweep, Goto
    <3>2. stage = ""
      BY <2>1 DEF DataKept
    <3> QED
      BY <3>1, <3>2 DEF FoldsKept
  <2> QED
    BY <2>3, <2>4
<1>5. CASE Dispatch \/ LoadClass \/ TuneClass \/ Predict \/ LoadSpecs \/ TunePass1 \/ TunePass2
  <2>1. pc \in (Unfitted \cup Fitting) \ {"fit"}
    BY <1>5 DEF Dispatch, LoadClass, TuneClass, Predict, LoadSpecs, TunePass1, TunePass2,
                Unfitted, Fitting
  <2>2. CASE Refuse
    BY <1>3, <2>1, <2>2 DEF Unfitted, Fitting
  <2>3. CASE ~Refuse
    <3>1. UNCHANGED <<job, points, cv, stage>> /\ pc' \in Unfitted \cup Fitting \cup {"build"}
      BY <1>5, <2>3 DEF Dispatch, LoadClass, TuneClass, Predict, LoadSpecs, TunePass1,
                        TunePass2, Goto, Unfitted, Fitting
    <3> QED
      BY <1>2, <2>1, <3>1 DEF Unfitted, Fitting
  <2> QED
    BY <2>2, <2>3
<1>6. CASE Fit
  <2>1. pc = "fit" /\ cv = None /\ stage = ""
    BY <1>6 DEF Fit, FoldsKept, DataKept, Fitting
  <2>2. CASE Refuse
    BY <1>3, <2>1, <2>2
  <2>3. CASE ~Refuse
    <3>1. /\ pc' = IF WantedFolds > 1 THEN "folds" ELSE "assess"
          /\ UNCHANGED <<job, points, cv, stage>>
      BY <1>6, <2>3 DEF Fit, Goto
    <3>2. WantedFolds' = WantedFolds
      BY <3>1, FoldsSame
    <3> QED
      BY <2>1, <3>1, <3>2 DEF FoldsKept, Unfitted, Fitting
  <2> QED
    BY <2>2, <2>3
<1>7. CASE StartFolds
  <2>1. pc = "folds" /\ cv = None /\ stage = "" /\ WantedFolds > 1
    BY <1>7 DEF StartFolds, FoldsKept, DataKept
  <2>2. CASE WantedFolds > Len(points)
    BY <1>3, <1>7, <2>1, <2>2 DEF StartFolds
  <2>3. CASE ~(WantedFolds > Len(points))
    <3>1. /\ cv' = [n |-> WantedFolds, scored |-> {}, failed |-> {}]
          /\ pc' = "score" /\ UNCHANGED <<job, points, stage>>
      BY <1>7, <2>3 DEF StartFolds, Goto
    <3>2. WantedFolds \in Int /\ Len(points) \in Int
      BY <1>1, LenProperties DEF WantedFolds
    <3>3. FoldsCounted'
      <4>1. WantedFolds <= Len(points)
        BY <2>3, <3>2
      <4> QED
        BY <2>1, <3>1, <4>1, FoldsStarted
    <3>4. cv' # None
      <4>1. ASSUME cv' = None PROVE FALSE
        <5>1. {} \in SUBSET [fold : Nat, points : Nat, outside : Nat]
              /\ {} \in SUBSET [fold : Nat, training : Nat] /\ WantedFolds \in Nat
          BY <1>1 DEF WantedFolds
        <5>2. cv' \in [n : Nat, scored : SUBSET [fold : Nat, points : Nat, outside : Nat],
                       failed : SUBSET [fold : Nat, training : Nat]]
          BY <3>1, <5>1
        <5> QED
          BY <4>1, <5>2, NoneAssumption
      <4> QED
        BY <4>1
    <3>5. WantedFolds' = WantedFolds
      BY <3>1 DEF WantedFolds
    <3> QED
      BY <2>1, <3>1, <3>3, <3>4, <3>5 DEF FoldsKept, Unfitted, Fitting
  <2> QED
    BY <2>2, <2>3
<1>8. CASE ScoreFold
  <2>1. /\ pc = "score" /\ cv # None /\ stage = "" /\ WantedFolds > 1 /\ FoldsCounted
        /\ NextFold < cv.n /\ UNCHANGED <<job, points, pc, stage>>
    BY <1>8 DEF ScoreFold, FoldsKept, DataKept
  <2>2. \/ cv' = [cv EXCEPT !.scored = @ \cup {ScoredFold(points, NextFold, cv.n)}]
        \/ cv' = [cv EXCEPT !.failed = @ \cup {FailedFold(points, NextFold, cv.n)}]
    BY <1>8 DEF ScoreFold
  <2>3. FoldsCounted'
    BY <1>1, <2>1, <2>2, OneMoreFold
  <2>4. cv' # None
    <3>1. points' \in Seq(PolarPoints)
      BY <1>1, <2>1
    <3>2. (FoldsCounted /\ points \in Seq(PolarPoints) => cv # None)'
      BY CountedIsResult, PTL
    <3> QED
      BY <2>3, <3>1, <3>2
  <2>5. WantedFolds' = WantedFolds
    BY <2>1 DEF WantedFolds
  <2> QED
    BY <2>1, <2>3, <2>4, <2>5 DEF FoldsKept, Unfitted, Fitting
<1>9. CASE CollectFolds
  <2>1. /\ pc = "score" /\ cv # None /\ stage = "" /\ FoldsCounted /\ NextFold = cv.n
    BY <1>9 DEF CollectFolds, FoldsKept, DataKept
  <2>2. FoldsComplete(cv.scored, cv.failed)
    BY <2>1, CountedComplete
  <2>3. pc' = "assess" /\ UNCHANGED <<job, points, cv, stage>>
    BY <1>9, <2>2 DEF CollectFolds, Goto
  <2>4. FoldsCounted' /\ NextFold' = NextFold
    BY <2>1, <2>3, FoldsSame
  <2> QED
    BY <2>1, <2>3, <2>4 DEF FoldsKept, Unfitted, Fitting
<1>10. CASE Assess
  <2>1. pc = "assess" /\ stage = ""
    BY <1>10 DEF Assess, DataKept
  <2>2. WantedFolds > 1 => cv # None /\ NextFold = cv.n /\ cv.n = WantedFolds
    BY <2>1 DEF FoldsKept, FoldsCounted
  <2>3. pc' = "build" /\ UNCHANGED <<job, points, cv, stage>>
    BY <1>10, <2>2 DEF Assess, Goto
  <2> QED
    BY <2>1, <2>3, FoldsSame DEF FoldsKept, Unfitted, Fitting
<1>11. CASE Build
  <2>1. pc = "build" /\ stage = ""
    BY <1>11 DEF Build, DataKept
  <2>2. CASE Refuse
    BY <1>3, <2>1, <2>2
  <2>3. CASE ~Refuse
    <3>1. pc' = "export" /\ UNCHANGED <<job, points, cv, stage>>
      BY <1>11, <2>3 DEF Build, Goto
    <3> QED
      BY <1>2, <2>1, <3>1 DEF Unfitted, Fitting
  <2> QED
    BY <2>2, <2>3
<1>12. CASE Finish
  <2>1. pc = "export" /\ stage = "" /\ pc' = "done" /\ UNCHANGED <<job, points, cv, stage>>
    BY <1>12 DEF Finish, Goto, DataKept
  <2> QED
    BY <1>2, <2>1 DEF Unfitted, Fitting
<1>13. CASE \E o \in Outputs : Export(o)
  <2>1. pc = "export" /\ stage = "" /\ UNCHANGED <<job, points, cv>>
    BY <1>13 DEF Export, DataKept
  <2>2. UNCHANGED <<pc, stage>> \/ (pc' = "refused" /\ stage' = "export")
    BY <1>13, <2>1 DEF Export
  <2> QED
    BY <2>1, <2>2, FoldsSame DEF FoldsKept, Unfitted, Fitting
<1>14. CASE UNCHANGED vars
  BY <1>14, FoldsSame DEF FoldsKept, vars
<1> QED
  BY <1>4, <1>5, <1>6, <1>7, <1>8, <1>9, <1>10, <1>11, <1>12, <1>13, <1>14 DEF Next

-----------------------------------------------------------------------------
(* A run that ends well wrote every file it was asked for and no other; a  *)
(* sidecar on disk has its artifact beside it; a run that was refused      *)
(* before its first write left everything as it was.                       *)
THEOREM OutcomeIsHonest == Spec => []OutcomeHonest
<1>1. IInv => OutcomeHonest
  BY DEF IInv, FilesKept, Untouched, OutcomeHonest
<1> QED
  BY <1>1, Kept, PTL

(* The artifact's model is the one the residuals were taken of, its gates  *)
(* those of that model, and a correction is applied to what it corrects.   *)
THEOREM ModelAsFitted == Spec => []ModelServedAsFitted
<1>1. IInv => ModelServedAsFitted
  BY DEF IInv, ModelsKept
<1> QED
  BY <1>1, Kept, PTL

-----------------------------------------------------------------------------
(* Every step keeps the report one of what the run holds. *)
LEMMA ReportNext ==
  ASSUME DataKept, ReportKept, [Next]_vars
  PROVE  ReportKept'
<1>1. ASSUME UNCHANGED <<job, points, surface, cv, report>>,
             report = {} \/ pc' \in Ready \cup {"refused"}
      PROVE  ReportKept'
  <2>1. WantedFolds' = WantedFolds
    BY <1>1 DEF WantedFolds
  <2> QED
    BY <1>1, <2>1 DEF ReportKept
<1>2. CASE \/ Dispatch \/ Parse \/ LoadClass \/ TuneClass \/ Predict \/ Fit \/ StartFolds
           \/ ScoreFold \/ CollectFolds \/ LoadSpecs \/ ParseSweep \/ TunePass1 \/ TunePass2
           \/ (Assess /\ Refuse)
  <2>1. pc \notin Ready \cup {"refused"} /\ report' = report
    BY <1>2 DEF Dispatch, Parse, LoadClass, TuneClass, Predict, Fit, StartFolds, ScoreFold,
                CollectFolds, Assess, LoadSpecs, ParseSweep, TunePass1, TunePass2, Refuse, Ready
  <2>2. report' = {}
    BY <2>1 DEF ReportKept
  <2> QED
    BY <2>2 DEF ReportKept
<1>3. CASE Assess /\ ~Refuse
  <2>1. PICK errors \in Errors, s \in surface :
          report' = {Report(points, [i \in DOMAIN points |-> errors[points[i].cone]], s.axes,
                            IF WantedFolds > 1 THEN cv ELSE None)}
    BY <1>3 DEF Assess
  <2>2. pc = "assess" /\ pc' = "build" /\ UNCHANGED <<job, points, surface, cv>>
    BY <1>3 DEF Assess, Goto
  <2>3. WantedFolds' = WantedFolds
    BY <2>2 DEF WantedFolds
  <2>4. job'.mode = "full" /\ points' # <<>> /\ pc' \in Ready
    BY <2>2 DEF DataKept, FullModeSteps, Ready, Measured
  <2> DEFINE made == Report(points, [i \in DOMAIN points |-> errors[points[i].cone]], s.axes,
                            IF WantedFolds > 1 THEN cv ELSE None)
             again == Report(points', [i \in DOMAIN points' |-> errors[points'[i].cone]], s.axes,
                             IF WantedFolds' > 1 THEN cv' ELSE None)
  <2>5. made = again
    BY <2>2, <2>3
  <2> HIDE DEF made
  <2>6. report' = {made}
    BY <2>1 DEF made
  <2>7. \A r \in report' : r = again
    BY <2>5, <2>6
  <2>8. \A r \in report' : \E e \in Errors', t \in surface' :
          r = Report(points', [i \in DOMAIN points' |-> e[points'[i].cone]], t.axes,
                     IF WantedFolds' > 1 THEN cv' ELSE None)
    BY <2>2, <2>7
  <2>9. \A r, t \in report' : r = t
    BY <2>6
  <2> QED
    BY <2>4, <2>8, <2>9 DEF ReportKept
<1>4. CASE (Build \/ (\E o \in Outputs : Export(o)) \/ Finish)
  <2>1. UNCHANGED <<job, points, surface, cv, report>> /\ pc' \in Ready \cup {"refused"}
    BY <1>4 DEF Build, Export, Finish, Refuse, Goto, Ready
  <2> QED
    BY <1>1, <2>1
<1>5. CASE UNCHANGED vars
  BY <1>5 DEF vars, ReportKept, WantedFolds
<1> QED
  BY <1>2, <1>3, <1>4, <1>5 DEF Next

-----------------------------------------------------------------------------
(* All of it holds at first. *)
LEMMA AllInit == Init => AllKept
  BY DataInit DEF Init, AllKept, SurfaceKept, BuiltKept, FoldsKept, ReportKept

(* And after every step. *)
LEMMA AllNext == IInv /\ AllKept /\ [Next]_vars => AllKept'
  BY DataNext, SurfaceNext, BuiltNext, FoldsNext, ReportNext DEF AllKept

(* Hence always: the inductive invariant of the whole run. *)
LEMMA AllIsKept == Spec => [](IInv /\ AllKept)
<1>1. Init => IInv /\ AllKept
  BY InitKept, AllInit
<1>2. IInv /\ AllKept /\ [Next]_vars => (IInv /\ AllKept)'
  BY NextKept, AllNext
<1> QED
  BY <1>1, <1>2, PTL DEF Spec

(* One or none. *)
LEMMA AtMostOne ==
  ASSUME NEW S, \A a, b \in S : a = b
  PROVE  IsFiniteSet(S) /\ Cardinality(S) <= 1
<1>1. S = {} \/ \E a \in S : S = {a}
  OBVIOUS
<1>2. CASE S = {}
  BY <1>2, FS_EmptySet
<1>3. CASE \E a \in S : S = {a}
  <2>1. PICK a \in S : S = {a}
    BY <1>3
  <2>2. IsFiniteSet({a}) /\ Cardinality({a}) = 1
    BY FS_Singleton
  <2> QED
    BY <2>1, <2>2
<1> QED
  BY <1>1, <1>2, <1>3

(* The variables have their types; every measurement that is fitted is in  *)
(* the polar convention, every surface can be evaluated, and there are at  *)
(* least two folds and no more than measurements.                          *)
THEOREM TypeCorrect == Spec => []CalibrateTypeOK
<1>1. IInv /\ AllKept => CalibrateTypeOK
  <2> SUFFICES ASSUME IInv, AllKept PROVE CalibrateTypeOK
    OBVIOUS
  <2>1. DataKept /\ SurfaceKept /\ BuiltKept /\ FoldsKept /\ ReportKept /\ FilesKept
    BY DEF AllKept, IInv
  <2>2. Cardinality(surface) <= 1 /\ Cardinality(artifact) <= 1 /\ Cardinality(report) <= 1
    BY <2>1, AtMostOne DEF SurfaceKept, BuiltKept, ReportKept
  <2>3. \A s \in surface : s.slab \in Models /\ LayoutValid(s.axes, s.order)
    BY <2>1 DEF SurfaceKept, Surfaced
  <2>4. cv = None \/ cv.n \in 2..Len(points)
    BY <2>1 DEF FoldsKept, FoldsCounted
  <2>5. disk \in [Outputs -> {"old", "torn", "new"}]
    BY <2>1 DEF FilesKept
  <2>6. /\ job \in Jobs /\ pc \in Steps \cup {"done", "refused"}
        /\ stage \in Steps \cup {""} /\ (stage = "") = (pc # "refused")
        /\ points \in Seq(PolarPoints) /\ {first, fitted} \subseteq Models \cup {None}
    BY <2>1 DEF DataKept
  <2> QED
    BY <2>2, <2>3, <2>4, <2>5, <2>6 DEF CalibrateTypeOK
<1> QED
  BY <1>1, AllIsKept, PTL

-----------------------------------------------------------------------------
(* Once all folds are dealt, every point is.                               *)
LEMMA AllDealt ==
  ASSUME points \in Seq(PolarPoints), cv.n \in Nat \ {0}
  PROVE  Cardinality(Dealt(cv.n)) = Len(points)
<1>1. DOMAIN points = 1..Len(points) /\ Len(points) \in Nat
  BY LenProperties
<1>2. \A i \in DOMAIN points : (i - 1) % cv.n < cv.n
  <2> SUFFICES ASSUME NEW i \in DOMAIN points PROVE (i - 1) % cv.n < cv.n
    OBVIOUS
  <2> DEFINE n == cv.n
  <2>1. n \in Nat \ {0} /\ i - 1 \in Nat
    BY <1>1
  <2> HIDE DEF n
  <2>2. (i - 1) % n < n
    BY <2>1
  <2> QED
    BY <2>2 DEF n
<1>3. Dealt(cv.n) = 1..Len(points)
  BY <1>1, <1>2 DEF Dealt
<1>4. Cardinality(1..Len(points)) = Len(points)
  <2> DEFINE m == Len(points)
  <2>1. m \in Nat
    BY <1>1
  <2> HIDE DEF m
  <2>2. Cardinality(1..m) = m
    BY <2>1, FS_Interval
  <2> QED
    BY <2>2 DEF m
<1> QED
  BY <1>3, <1>4

(* A fold of a validation that has more points than folds holds out one.   *)
LEMMA FoldHasPoints ==
  ASSUME NEW pts, NEW V, pts \in Seq(V), NEW n \in Nat, n <= Len(pts), NEW fold \in 0..(n - 1)
  PROVE  Cardinality(HeldOut(pts, fold, n)) > 0
<1>1. DOMAIN pts = 1..Len(pts) /\ Len(pts) \in Nat
  BY LenProperties
<1>2. fold + 1 \in DOMAIN pts /\ (fold + 1) - 1 = fold /\ fold % n = fold
  BY <1>1
<1>3. fold + 1 \in HeldOut(pts, fold, n)
  BY <1>2 DEF HeldOut, IsHeldOut
<1>4. IsFiniteSet(HeldOut(pts, fold, n)) /\ Cardinality(HeldOut(pts, fold, n)) \in Nat
  <2>1. fold \in Nat
    OBVIOUS
  <2> QED
    BY <2>1, FoldCounts
<1>5. Cardinality(HeldOut(pts, fold, n)) # 0
  BY <1>3, <1>4, FS_EmptySet
<1> QED
  BY <1>4, <1>5

(* Each result is of a fold of its own.                                    *)
LEMMA NumbersOwn ==
  ASSUME NEW scored, NEW failed, IsFiniteSet(scored), IsFiniteSet(failed),
         FoldsComplete(scored, failed)
  PROVE  Cardinality({r.fold : r \in scored}) = Cardinality(scored)
<1> DEFINE S == {r.fold : r \in scored}
           F == {r.fold : r \in failed}
<1>1. /\ IsFiniteSet(S) /\ Cardinality(S) <= Cardinality(scored)
      /\ IsFiniteSet(F) /\ Cardinality(F) <= Cardinality(failed)
  BY FoldNumbers
<1>2. Cardinality(S \cup F) = Cardinality(scored) + Cardinality(failed)
  BY DEF FoldsComplete
<1> HIDE DEF S, F
<1>3. Cardinality(S \cup F) = Cardinality(S) + Cardinality(F) - Cardinality(S \cap F)
  BY <1>1, FS_Union
<1>4. /\ Cardinality(scored) \in Nat /\ Cardinality(failed) \in Nat
      /\ Cardinality(S) \in Nat /\ Cardinality(F) \in Nat
      /\ Cardinality(S \cap F) \in Nat
  <2>1. IsFiniteSet(S \cap F)
    BY <1>1, FS_Intersection
  <2> QED
    BY <1>1, <2>1, FS_CardinalityType
<1>5. Cardinality(S) = Cardinality(scored)
  BY <1>1, <1>2, <1>3, <1>4
<1> QED
  BY <1>5 DEF S

(* After the last fold every point was dealt, and the record says so. *)
LEMMA FoldsAccounted ==
  ASSUME FoldsCounted, points \in Seq(PolarPoints), NextFold = cv.n
  PROVE  /\ PointsIn(cv.scored) + PointsLeftOut(points, cv.failed) = Len(points)
         /\ HasFigure(cv.scored, cv.failed) <=> PointsIn(cv.scored) = Len(points)
         /\ RecordReadable(ScoredRecord(cv.scored, cv.failed))
         /\ LegacyReadable(ScoredRecord(cv.scored, cv.failed))
         /\ LegacyScored(ScoredRecord(cv.scored, cv.failed)) = {r.fold : r \in cv.scored}
<1> DEFINE A == cv.scored
           B == cv.failed
           n == cv.n
           record == ScoredRecord(A, B)
<1>1. /\ n \in 2..Len(points) /\ Len(points) \in Nat
      /\ IsFiniteSet(A) /\ IsFiniteSet(B) /\ NextFold = n
      /\ \A r \in A : r.fold \in 1..n /\ r = ScoredFold(points, r.fold - 1, n)
      /\ \A r \in B : r.fold \in 1..n /\ r = FailedFold(points, r.fold - 1, n)
      /\ PointsIn(A) + PointsLeftOut(points, B) = Cardinality(Dealt(n))
      /\ n = Cardinality(A) + Cardinality(B)
  BY LenProperties DEF FoldsCounted, NextFold
<1>2. n \in Nat \ {0} /\ n <= Len(points)
  BY <1>1
<1>3. PointsIn(A) + PointsLeftOut(points, B) = Len(points)
  BY <1>1, <1>2, AllDealt
<1>4. FoldsComplete(A, B)
  BY CountedComplete
<1>5. /\ \A r \in A : r.points \in Nat
      /\ \A r \in B : Len(points) - r.training \in Nat
  BY ResultsCount
<1>6. \A r \in A : FoldReadable(r)
  <2> SUFFICES ASSUME NEW r \in A PROVE FoldReadable(r)
    OBVIOUS
  <2> DEFINE f == r.fold - 1
  <2>1. f \in 0..(n - 1) /\ f \in Nat /\ r.fold > 0 /\ r = ScoredFold(points, f, n)
    BY <1>1, <1>2
  <2> HIDE DEF f, n
  <2>2. Cardinality(HeldOut(points, f, n)) > 0
    BY <1>2, <2>1, FoldHasPoints
  <2>3. /\ ScoredFold(points, f, n).points = Cardinality(HeldOut(points, f, n))
        /\ ScoredFold(points, f, n).outside <= Cardinality(HeldOut(points, f, n))
    BY <1>2, <2>1, FoldCounts
  <2> QED
    BY <2>1, <2>2, <2>3 DEF FoldReadable
<1>7. \A r \in B : Len(points) - r.training > 0
  <2> SUFFICES ASSUME NEW r \in B PROVE Len(points) - r.training > 0
    OBVIOUS
  <2> DEFINE f == r.fold - 1
  <2>1. f \in 0..(n - 1) /\ f \in Nat /\ r = FailedFold(points, f, n)
    BY <1>1, <1>2
  <2> HIDE DEF f, n
  <2>2. Cardinality(HeldOut(points, f, n)) > 0
    BY <1>2, <2>1, FoldHasPoints
  <2>3. Len(points) - FailedFold(points, f, n).training = Cardinality(HeldOut(points, f, n))
    BY <1>2, <2>1, FoldCounts
  <2> QED
    BY <2>1, <2>2, <2>3
<1> HIDE DEF A, B, n
<1>8. PointsIn(A) \in Nat /\ PointsLeftOut(points, B) \in Nat
  BY <1>1, <1>5, PointsFacts, LeftOutFacts
<1>9. B = {} <=> PointsLeftOut(points, B) = 0
  <2>1. CASE B = {}
    BY <1>1, <1>5, <2>1, LeftOutFacts
  <2>2. CASE B # {}
    <3>1. PICK y \in B : TRUE
      BY <2>2
    <3>2. /\ PointsLeftOut(points, B) = (Len(points) - y.training) + PointsLeftOut(points, B \ {y})
          /\ PointsLeftOut(points, B \ {y}) \in Nat
      BY <1>1, <1>5, <3>1, LeftOutFacts
    <3>3. Len(points) - y.training > 0 /\ Len(points) - y.training \in Nat
      BY <1>5, <1>7, <3>1
    <3>4. PointsLeftOut(points, B) # 0
      BY ONLY <3>2, <3>3
    <3> QED
      BY <2>2, <3>4
  <2> QED
    BY <2>1, <2>2
<1>10. HasFigure(A, B) <=> PointsIn(A) = Len(points)
  <2>1. Len(points) > 0
    BY <1>1
  <2>2. PointsLeftOut(points, B) = 0 <=> PointsIn(A) = Len(points)
    BY <1>1, <1>3, <1>8
  <2> QED
    BY <1>9, <2>1, <2>2 DEF HasFigure
<1>11. LegacyScored(record) = {r.fold : r \in A}
  BY <1>1, <1>4, LegacyNamesScored
<1>12. RecordReadable(record)
  BY <1>4, <1>6 DEF RecordReadable, ScoredRecord
<1>13. LegacyReadable(record)
  <2>1. Cardinality({r.fold : r \in A}) = Cardinality(A)
    BY <1>1, <1>4, NumbersOwn
  <2>2. record.figures = Cardinality(A) /\ record.failed = B
        /\ record.num_folds = Cardinality(A) + Cardinality(B)
    BY DEF ScoredRecord
  <2> QED
    BY <1>11, <2>1, <2>2 DEF LegacyReadable
<1> QED
  BY <1>3, <1>10, <1>11, <1>12, <1>13 DEF A, B

-----------------------------------------------------------------------------
(* The report: three lobes, and five regions, one after another.           *)

(* The rows of some indices, and their number.                             *)
LEMMA RowSets ==
  ASSUME NEW pts \in Seq(PolarPoints), NEW S \in SUBSET DOMAIN pts
  PROVE  IsFiniteSet(S) /\ Cardinality(S) \in Nat
<1>1. DOMAIN pts = 1..Len(pts) /\ Len(pts) \in Nat
  BY LenProperties
<1>2. IsFiniteSet(1..Len(pts))
  BY <1>1, FS_Interval
<1>3. IsFiniteSet(S)
  BY <1>1, <1>2, FS_Subset
<1> QED
  BY <1>3, FS_CardinalityType

(* Indices in two sets that share none are counted once. *)
LEMMA DisjointRows ==
  ASSUME NEW pts \in Seq(PolarPoints), NEW S \in SUBSET DOMAIN pts, NEW T \in SUBSET DOMAIN pts,
         S \cap T = {}
  PROVE  Cardinality(S \cup T) = Cardinality(S) + Cardinality(T)
<1>1. IsFiniteSet(S) /\ IsFiniteSet(T) /\ Cardinality(S) \in Nat /\ Cardinality(T) \in Nat
  BY RowSets
<1>2. Cardinality(S \cup T) = Cardinality(S) + Cardinality(T) - Cardinality(S \cap T)
  BY <1>1, FS_Union
<1>3. Cardinality(S \cap T) = 0
  BY FS_EmptySet
<1> QED
  BY <1>1, <1>2, <1>3

(* All rows have a cone angle of the polar convention. *)
LEMMA AllRows ==
  ASSUME NEW pts \in Seq(PolarPoints)
  PROVE  /\ Cardinality(DOMAIN pts) = Len(pts) /\ Len(pts) \in Nat
         /\ \A i \in DOMAIN pts :
              /\ pts[i] \in PolarPoints
              /\ pts[i].cone \in Int /\ 0 <= pts[i].cone /\ pts[i].cone <= 90
<1> DEFINE m == Len(pts)
<1>1. DOMAIN pts = 1..m /\ m \in Nat /\ \A i \in 1..m : pts[i] \in PolarPoints
  BY LenProperties
<1>2. \A i \in 1..m : pts[i].cone \in Int /\ 0 <= pts[i].cone /\ pts[i].cone <= 90
  <2> SUFFICES ASSUME NEW i \in 1..m
               PROVE  pts[i].cone \in Int /\ 0 <= pts[i].cone /\ pts[i].cone <= 90
    OBVIOUS
  <2> DEFINE c == pts[i].cone
  <2>1. c \in 0..90
    BY <1>1 DEF PolarPoints
  <2> HIDE DEF c
  <2>2. c \in Int /\ 0 <= c /\ c <= 90
    BY <2>1
  <2> QED
    BY <2>2 DEF c
<1> HIDE DEF m
<1>3. Cardinality(1..m) = m
  BY <1>1, FS_Interval
<1> QED
  BY <1>1, <1>2, <1>3 DEF m

(* A lobe is a range of cone angles. *)
LEMMA LobeByCone ==
  ASSUME NEW p, p.cone \in Int
  PROVE  /\ Lobe(p) = "Main Lobe" <=> p.cone <= 2
         /\ Lobe(p) = "First Sidelobe" <=> p.cone > 2 /\ p.cone <= 5
         /\ Lobe(p) = "Far Field" <=> p.cone > 5
<1> DEFINE c == p.cone
<1>1. c \in Int /\ MainLobeEnd = 2 /\ FirstSidelobeEnd = 5
  BY DEF MainLobeEnd, FirstSidelobeEnd
<1>2. Lobe(p) = CASE c <= MainLobeEnd -> "Main Lobe"
                  [] c \in (MainLobeEnd + 1)..FirstSidelobeEnd -> "First Sidelobe"
                  [] OTHER -> "Far Field"
  BY DEF Lobe
<1> HIDE DEF c
<1>3. c <= 2 => Lobe(p) = "Main Lobe"
  <2>0. HAVE c <= 2
  <2>1. c <= MainLobeEnd /\ c \notin (MainLobeEnd + 1)..FirstSidelobeEnd
    BY <1>1, <2>0
  <2>2. Lobe(p) = "Main Lobe"
    BY ONLY <1>2, <2>1
  <2> QED
    BY <2>2
<1>4. c > 2 /\ c <= 5 => Lobe(p) = "First Sidelobe"
  <2>0. HAVE c > 2 /\ c <= 5
  <2>1. ~(c <= MainLobeEnd) /\ c \in (MainLobeEnd + 1)..FirstSidelobeEnd
    BY <1>1, <2>0
  <2>2. Lobe(p) = "First Sidelobe"
    BY ONLY <1>2, <2>1
  <2> QED
    BY <2>2
<1>5. c > 5 => Lobe(p) = "Far Field"
  <2>0. HAVE c > 5
  <2>1. ~(c <= MainLobeEnd) /\ c \notin (MainLobeEnd + 1)..FirstSidelobeEnd
    BY <1>1, <2>0
  <2>2. Lobe(p) = "Far Field"
    BY ONLY <1>2, <2>1
  <2> QED
    BY <2>2
<1>6. /\ Lobe(p) = "Main Lobe" <=> c <= 2
      /\ Lobe(p) = "First Sidelobe" <=> c > 2 /\ c <= 5
      /\ Lobe(p) = "Far Field" <=> c > 5
  <2>1. c <= 2 \/ (c > 2 /\ c <= 5) \/ c > 5
    BY <1>1
  <2>2. /\ ~(c <= 2 /\ c > 2) /\ ~(c <= 5 /\ c > 5)
        /\ c <= 2 => c <= 5
    BY <1>1
  <2> QED
    BY ONLY <1>3, <1>4, <1>5, <2>1, <2>2
<1> QED
  BY <1>6 DEF c

(* Every point is in one of the three lobes. *)
LEMMA LobesPartition ==
  ASSUME NEW pts \in Seq(PolarPoints)
  PROVE  Cardinality(InLobe(pts, "Main Lobe")) + Cardinality(InLobe(pts, "First Sidelobe"))
           + Cardinality({i \in DOMAIN pts : pts[i].cone > FirstSidelobeEnd}) = Len(pts)
<1> DEFINE M == InLobe(pts, "Main Lobe")
           S == InLobe(pts, "First Sidelobe")
           F == {i \in DOMAIN pts : pts[i].cone > FirstSidelobeEnd}
<1>1. \A i \in DOMAIN pts : pts[i].cone \in Int
  BY AllRows
<1>2. \A i \in DOMAIN pts :
        /\ Lobe(pts[i]) = "Main Lobe" <=> pts[i].cone <= 2
        /\ Lobe(pts[i]) = "First Sidelobe" <=> pts[i].cone > 2 /\ pts[i].cone <= 5
  BY <1>1, LobeByCone
<1>3. /\ M = {i \in DOMAIN pts : pts[i].cone <= 2}
      /\ S = {i \in DOMAIN pts : pts[i].cone > 2 /\ pts[i].cone <= 5}
      /\ F = {i \in DOMAIN pts : pts[i].cone > 5}
  BY <1>2 DEF InLobe, FirstSidelobeEnd
<1> HIDE DEF M, S, F
<1>4. /\ M \in SUBSET DOMAIN pts /\ S \in SUBSET DOMAIN pts /\ F \in SUBSET DOMAIN pts
      /\ M \cap S = {} /\ (M \cup S) \cap F = {} /\ (M \cup S) \cup F = DOMAIN pts
  <2>2. M \cap S = {}
    BY <1>1, <1>3
  <2>3. (M \cup S) \cap F = {}
    BY <1>1, <1>3
  <2>4. (M \cup S) \cup F = DOMAIN pts
    <3>1. \A i \in DOMAIN pts :
            pts[i].cone <= 2 \/ (pts[i].cone > 2 /\ pts[i].cone <= 5) \/ pts[i].cone > 5
      BY <1>1
    <3> QED
      BY <1>3, <3>1
  <2> QED
    BY <1>3, <2>2, <2>3, <2>4
<1>5. Cardinality(M \cup S) = Cardinality(M) + Cardinality(S)
  BY <1>4, DisjointRows
<1>6. Cardinality((M \cup S) \cup F) = Cardinality(M \cup S) + Cardinality(F)
  <2>1. M \cup S \in SUBSET DOMAIN pts
    BY <1>4
  <2> QED
    BY <1>4, <2>1, DisjointRows
<1>7. Cardinality(DOMAIN pts) = Len(pts)
  BY AllRows
<1> QED
  BY <1>4, <1>5, <1>6, <1>7 DEF M, S, F

(* An entry without points may be left out.                                *)
LEMMA EntryAdds ==
  ASSUME NEW S, IsFiniteSet(S), NEW y, y \notin S, \A r \in S \cup {y} : r.points \in Nat,
         NEW T, T = IF y.points > 0 THEN S \cup {y} ELSE S
  PROVE  /\ IsFiniteSet(T) /\ T \subseteq S \cup {y}
         /\ PointsIn(T) = PointsIn(S) + y.points /\ PointsIn(T) \in Nat
<1>1. y.points \in Nat /\ PointsIn(S) \in Nat
  BY PointsFacts
<1>2. CASE y.points > 0
  <2>1. PointsIn(S \cup {y}) = PointsIn(S) + y.points
    BY PointsMore
  <2>2. IsFiniteSet(S \cup {y})
    BY FS_AddElement
  <2> QED
    BY <1>1, <1>2, <2>1, <2>2
<1>3. CASE ~(y.points > 0)
  BY <1>1, <1>3
<1> QED
  BY <1>2, <1>3

(* Neighbouring regions share no rows. *)
ConeRows(pts, l, h) == {i \in DOMAIN pts : l <= pts[i].cone /\ pts[i].cone < h}

(* Rows in two intervals that meet are the rows in both together. *)
LEMMA RegionsMeet ==
  ASSUME NEW pts \in Seq(PolarPoints), NEW l \in Int, NEW m \in Int, NEW h \in Int,
         l <= m, m <= h
  PROVE  /\ Cardinality(ConeRows(pts, l, h)) =
              Cardinality(ConeRows(pts, l, m)) + Cardinality(ConeRows(pts, m, h))
         /\ Cardinality(ConeRows(pts, l, m)) \in Nat
         /\ Cardinality(ConeRows(pts, m, h)) \in Nat
<1> DEFINE A == ConeRows(pts, l, m)
           B == ConeRows(pts, m, h)
<1>1. \A i \in DOMAIN pts : pts[i].cone \in Int
  BY AllRows
<1>2. A \cap B = {}
  BY <1>1 DEF ConeRows
<1>3. A \cup B = ConeRows(pts, l, h)
  BY <1>1 DEF ConeRows
<1>4. A \in SUBSET DOMAIN pts /\ B \in SUBSET DOMAIN pts
  BY DEF ConeRows
<1> HIDE DEF A, B
<1>5. Cardinality(A \cup B) = Cardinality(A) + Cardinality(B)
  BY <1>2, <1>4, DisjointRows
<1>6. Cardinality(A) \in Nat /\ Cardinality(B) \in Nat
  BY <1>4, RowSets
<1> QED
  BY <1>3, <1>5, <1>6 DEF A, B

(* The regions meet, and end short of 90 degrees.                          *)
LEMMA RegionsPartition ==
  ASSUME NEW pts \in Seq(PolarPoints)
  PROVE  PointsIn(Analysis(pts, "cone", AngularRegions))
           = Len(pts) - Cardinality({i \in DOMAIN pts : pts[i].cone = 90})
<1> DEFINE rows(l, h) == ConeRows(pts, l, h)
           counted(r) == [interval |-> r,
                          points |-> Cardinality({i \in DOMAIN pts : Within(pts[i]["cone"], r)})]
           entry(l, h) == [interval |-> [lo |-> l, hi |-> h], points |-> Cardinality(rows(l, h))]
           grow(S, y) == IF y.points > 0 THEN S \cup {y} ELSE S
           e1 == entry(0, 2)
           e2 == entry(2, 5)
           e3 == entry(5, 10)
           e4 == entry(10, 20)
           e5 == entry(20, 90)
           R1 == grow({}, e1)
           R2 == grow(R1, e2)
           R3 == grow(R2, e3)
           R4 == grow(R3, e4)
           R5 == grow(R4, e5)
           edge == {i \in DOMAIN pts : pts[i].cone = 90}
<1>1. \A i \in DOMAIN pts : pts[i].cone \in Int /\ 0 <= pts[i].cone /\ pts[i].cone <= 90
  BY AllRows
<1>2. Analysis(pts, "cone", AngularRegions) = {e \in {e1, e2, e3, e4, e5} : e.points > 0}
  <2>1. Analysis(pts, "cone", AngularRegions)
          = {e \in {counted(r) : r \in AngularRegions} : e.points > 0}
    BY DEF Analysis
  <2>2. \A l, h : counted([lo |-> l, hi |-> h]) = entry(l, h)
    BY DEF Within, ConeRows
  <2> HIDE DEF counted, entry
  <2>3. {counted(r) : r \in AngularRegions}
          = {entry(0, 2), entry(2, 5), entry(5, 10), entry(10, 20), entry(20, 90)}
    BY <2>2 DEF AngularRegions
  <2> QED
    BY <2>1, <2>3
<1>3. \A l, h : rows(l, h) \in SUBSET DOMAIN pts /\ Cardinality(rows(l, h)) \in Nat
  BY RowSets DEF ConeRows
<1>4. /\ e1.points = Cardinality(rows(0, 2)) /\ e2.points = Cardinality(rows(2, 5))
      /\ e3.points = Cardinality(rows(5, 10)) /\ e4.points = Cardinality(rows(10, 20))
      /\ e5.points = Cardinality(rows(20, 90))
  OBVIOUS
<1>5. /\ e1.interval.hi = 2 /\ e2.interval.hi = 5 /\ e3.interval.hi = 10
      /\ e4.interval.hi = 20 /\ e5.interval.hi = 90
  OBVIOUS
<1>6. \A e \in {e1, e2, e3, e4, e5} : e.points \in Nat
  <2> HIDE DEF e1, e2, e3, e4, e5, entry, rows
  <2> QED
    BY <1>3, <1>4
<1> HIDE DEF e1, e2, e3, e4, e5, entry
<1>7. /\ e2 \notin {e1} /\ e3 \notin {e1, e2} /\ e4 \notin {e1, e2, e3}
      /\ e5 \notin {e1, e2, e3, e4}
  BY <1>5
<1>8. IsFiniteSet({}) /\ PointsIn({}) = 0
  BY FS_EmptySet, PointsFacts
<1>9. IsFiniteSet(R1) /\ R1 \subseteq {e1} /\ PointsIn(R1) = e1.points /\ PointsIn(R1) \in Nat
  <2>1. /\ IsFiniteSet(R1) /\ R1 \subseteq {} \cup {e1}
        /\ PointsIn(R1) = PointsIn({}) + e1.points /\ PointsIn(R1) \in Nat
    <3>1. \A r \in {} \cup {e1} : r.points \in Nat
      BY <1>6
    <3> QED
      BY <1>8, <3>1, EntryAdds
  <2> QED
    BY <1>6, <1>8, <2>1
<1> HIDE DEF R1
<1>10. /\ IsFiniteSet(R2) /\ R2 \subseteq {e1, e2}
       /\ PointsIn(R2) = PointsIn(R1) + e2.points /\ PointsIn(R2) \in Nat
  <2>1. e2 \notin R1 /\ \A r \in R1 \cup {e2} : r.points \in Nat
    BY <1>6, <1>7, <1>9
  <2>2. /\ IsFiniteSet(R2) /\ R2 \subseteq R1 \cup {e2}
        /\ PointsIn(R2) = PointsIn(R1) + e2.points /\ PointsIn(R2) \in Nat
    BY <1>9, <2>1, EntryAdds
  <2> QED
    BY <1>9, <2>2
<1>11. R2 = {e \in {e1, e2} : e.points > 0}
  BY <1>9 DEF R1
<1> HIDE DEF R2
<1>12. /\ IsFiniteSet(R3) /\ R3 \subseteq {e1, e2, e3}
       /\ PointsIn(R3) = PointsIn(R2) + e3.points /\ PointsIn(R3) \in Nat
  <2>1. e3 \notin R2 /\ \A r \in R2 \cup {e3} : r.points \in Nat
    BY <1>6, <1>7, <1>10
  <2>2. /\ IsFiniteSet(R3) /\ R3 \subseteq R2 \cup {e3}
        /\ PointsIn(R3) = PointsIn(R2) + e3.points /\ PointsIn(R3) \in Nat
    BY <1>10, <2>1, EntryAdds
  <2> QED
    BY <1>10, <2>2
<1>13. R3 = {e \in {e1, e2, e3} : e.points > 0}
  BY <1>11
<1> HIDE DEF R3
<1>14. /\ IsFiniteSet(R4) /\ R4 \subseteq {e1, e2, e3, e4}
       /\ PointsIn(R4) = PointsIn(R3) + e4.points /\ PointsIn(R4) \in Nat
  <2>1. e4 \notin R3 /\ \A r \in R3 \cup {e4} : r.points \in Nat
    BY <1>6, <1>7, <1>12
  <2>2. /\ IsFiniteSet(R4) /\ R4 \subseteq R3 \cup {e4}
        /\ PointsIn(R4) = PointsIn(R3) + e4.points /\ PointsIn(R4) \in Nat
    BY <1>12, <2>1, EntryAdds
  <2> QED
    BY <1>12, <2>2
<1>15. R4 = {e \in {e1, e2, e3, e4} : e.points > 0}
  BY <1>13
<1> HIDE DEF R4
<1>16. PointsIn(R5) = PointsIn(R4) + e5.points /\ PointsIn(R5) \in Nat
  <2>1. e5 \notin R4 /\ \A r \in R4 \cup {e5} : r.points \in Nat
    BY <1>6, <1>7, <1>14
  <2> QED
    BY <1>14, <2>1, EntryAdds
<1>17. R5 = {e \in {e1, e2, e3, e4, e5} : e.points > 0}
  BY <1>15
<1> HIDE DEF R5, grow
<1>18. DOMAIN pts = rows(0, 90) \cup edge /\ rows(0, 90) \cap edge = {}
  <2>1. \A i \in DOMAIN pts : (0 <= pts[i].cone /\ pts[i].cone < 90) # (pts[i].cone = 90)
    BY <1>1
  <2>2. rows(0, 90) = {i \in DOMAIN pts : 0 <= pts[i].cone /\ pts[i].cone < 90}
    BY DEF ConeRows
  <2> HIDE DEF rows
  <2> QED
    BY <2>1, <2>2
<1>19. edge \in SUBSET DOMAIN pts /\ Cardinality(edge) \in Nat
  BY RowSets
<1> HIDE DEF rows, edge
<1>20. Cardinality(DOMAIN pts) = Cardinality(rows(0, 90)) + Cardinality(edge)
  BY <1>3, <1>18, <1>19, DisjointRows
<1>21. Cardinality(DOMAIN pts) = Len(pts)
  BY AllRows
<1>22. /\ Cardinality(rows(0, 5)) = Cardinality(rows(0, 2)) + Cardinality(rows(2, 5))
       /\ Cardinality(rows(0, 10)) = Cardinality(rows(0, 5)) + Cardinality(rows(5, 10))
       /\ Cardinality(rows(0, 20)) = Cardinality(rows(0, 10)) + Cardinality(rows(10, 20))
       /\ Cardinality(rows(0, 90)) = Cardinality(rows(0, 20)) + Cardinality(rows(20, 90))
       /\ Cardinality(rows(0, 2)) \in Nat /\ Cardinality(rows(2, 5)) \in Nat
       /\ Cardinality(rows(5, 10)) \in Nat /\ Cardinality(rows(10, 20)) \in Nat
       /\ Cardinality(rows(20, 90)) \in Nat
  <2>1. /\ Cardinality(rows(0, 5)) = Cardinality(rows(0, 2)) + Cardinality(rows(2, 5))
        /\ Cardinality(rows(0, 2)) \in Nat /\ Cardinality(rows(2, 5)) \in Nat
    <3>1. 0 \in Int /\ 2 \in Int /\ 5 \in Int /\ 0 <= 2 /\ 2 <= 5
      OBVIOUS
    <3> QED
      BY ONLY <3>1, RegionsMeet, pts \in Seq(PolarPoints) DEF rows
  <2>2. /\ Cardinality(rows(0, 10)) = Cardinality(rows(0, 5)) + Cardinality(rows(5, 10))
        /\ Cardinality(rows(5, 10)) \in Nat
    <3>1. 0 \in Int /\ 5 \in Int /\ 10 \in Int /\ 0 <= 5 /\ 5 <= 10
      OBVIOUS
    <3> QED
      BY ONLY <3>1, RegionsMeet, pts \in Seq(PolarPoints) DEF rows
  <2>3. /\ Cardinality(rows(0, 20)) = Cardinality(rows(0, 10)) + Cardinality(rows(10, 20))
        /\ Cardinality(rows(10, 20)) \in Nat
    <3>1. 0 \in Int /\ 10 \in Int /\ 20 \in Int /\ 0 <= 10 /\ 10 <= 20
      OBVIOUS
    <3> QED
      BY ONLY <3>1, RegionsMeet, pts \in Seq(PolarPoints) DEF rows
  <2>4. /\ Cardinality(rows(0, 90)) = Cardinality(rows(0, 20)) + Cardinality(rows(20, 90))
        /\ Cardinality(rows(20, 90)) \in Nat
    <3>1. 0 \in Int /\ 20 \in Int /\ 90 \in Int /\ 0 <= 20 /\ 20 <= 90
      OBVIOUS
    <3> QED
      BY ONLY <3>1, RegionsMeet, pts \in Seq(PolarPoints) DEF rows
  <2> QED
    BY <2>1, <2>2, <2>3, <2>4
<1>23. PointsIn(R5) = Len(pts) - Cardinality(edge)
  <2>1. PointsIn(R5) = (((e1.points + e2.points) + e3.points) + e4.points) + e5.points
    BY ONLY <1>9, <1>10, <1>12, <1>14, <1>16
  <2>2. PointsIn(R5) = Cardinality(rows(0, 90))
    BY ONLY <1>4, <1>22, <2>1
  <2>3. Cardinality(rows(0, 90)) \in Nat
    BY <1>3
  <2> QED
    BY ONLY <1>19, <1>20, <1>21, <2>2, <2>3
<1> QED
  BY <1>2, <1>17, <1>23 DEF edge

-----------------------------------------------------------------------------
(* An outlier misses the target of the lobe it is in, since every error is *)
(* in the lobe's greatest one.                                             *)
LEMMA OutliersMiss ==
  ASSUME NEW pts \in Seq(PolarPoints), NEW errors, errors \in [DOMAIN pts -> Int],
         NEW i \in OutlierRows(errors)
  PROVE  ~MeetsTarget(pts, errors, Lobe(pts[i]))
<1> DEFINE rows == InLobe(pts, Lobe(pts[i]))
           S == {errors[j] : j \in rows}
<1>1. i \in DOMAIN pts /\ errors[i] > 3 /\ errors[i] \in Int
  BY DEF OutlierRows, OutlierThreshold
<1>2. rows \in SUBSET DOMAIN pts /\ i \in rows
  BY <1>1 DEF InLobe
<1>3. IsFiniteSet(rows)
  BY <1>2, RowSets
<1> HIDE DEF rows
<1>4. IsFiniteSet(S)
  <2> DEFINE error == [j \in rows |-> errors[j]]
  <2>1. error \in Surjection(rows, S)
    BY DEF Surjection
  <2> QED
    BY <1>3, <2>1, FS_Surjection
<1>5. S \in SUBSET Int /\ errors[i] \in S
  BY <1>2
<1> DEFINE T == S \cup {0}
<1>6. IsFiniteSet(T)
  BY <1>4, FS_AddElement
<1>7. T \in SUBSET Int /\ T # {} /\ errors[i] \in T
  BY <1>5
<1> HIDE DEF T, S
<1>8. Max(T) \in Int /\ errors[i] <= Max(T)
  BY <1>6, <1>7, Extremes
<1>9. ~(Max(T) <= 1)
  BY <1>1, <1>8
<1> QED
  BY <1>9 DEF MeetsTarget, MaxError, Target, T, S, rows

(* There is no fourth lobe. *)
LEMMA LobeNames ==
  ASSUME NEW p, p.cone \in Int
  PROVE  Lobe(p) \in {"Main Lobe", "First Sidelobe", "Far Field"}
<1>1. p.cone <= 2 \/ (p.cone > 2 /\ p.cone <= 5) \/ p.cone > 5
  OBVIOUS
<1> QED
  BY <1>1, LobeByCone

(* A report of these points is complete, serves them all and is honest.    *)
Complete(r, pts, folds) ==
  /\ r.points = Len(pts) /\ r.unserved = 0 /\ r.folds = folds
  /\ r.main + r.sidelobe + Cardinality({i \in DOMAIN pts : pts[i].cone > FirstSidelobeEnd})
       = r.points
  /\ PointsIn(r.regions) = r.points - Cardinality({i \in DOMAIN pts : pts[i].cone = 90})
  /\ r.accurate => \A o \in r.outliers : o.lobe = "Far Field"

(* It is made so. *)
LEMMA ReportComplete ==
  ASSUME NEW pts \in Seq(PolarPoints), NEW errors, errors \in [DOMAIN pts -> Int], NEW folds,
         NEW axes, \A i \in DOMAIN pts : \A a \in Axes :
                     axes[a].lower <= pts[i][a] /\ pts[i][a] <= axes[a].upper,
         NEW r, r = Report(pts, errors, axes, folds)
  PROVE  Complete(r, pts, folds)
<1> DEFINE support == [a \in Axes |-> [lo |-> axes[a].lower, hi |-> axes[a].upper]]
           unserved == {i \in DOMAIN pts : ~Inside(pts[i], support)}
<1>1. /\ r.points = Len(pts) /\ r.unserved = Cardinality(unserved) /\ r.folds = folds
      /\ r.main = Cardinality(InLobe(pts, "Main Lobe"))
      /\ r.sidelobe = Cardinality(InLobe(pts, "First Sidelobe"))
      /\ r.regions = Analysis(pts, "cone", AngularRegions)
      /\ r.outliers = {[row |-> i, lobe |-> Lobe(pts[i])] : i \in OutlierRows(errors)}
      /\ r.accurate = (/\ MeetsTarget(pts, errors, "Main Lobe")
                       /\ MeetsTarget(pts, errors, "First Sidelobe"))
  BY DEF Report
<1>2. unserved = {}
  <2>1. \A i \in DOMAIN pts : Inside(pts[i], support)
    BY DEF Inside
  <2> QED
    BY <2>1
<1>3. r.unserved = 0
  BY <1>1, <1>2, FS_EmptySet
<1>4. r.main + r.sidelobe + Cardinality({i \in DOMAIN pts : pts[i].cone > FirstSidelobeEnd})
        = r.points
  BY <1>1, LobesPartition
<1>5. PointsIn(r.regions) = r.points - Cardinality({i \in DOMAIN pts : pts[i].cone = 90})
  BY <1>1, RegionsPartition
<1>6. r.accurate => \A o \in r.outliers : o.lobe = "Far Field"
  <2> SUFFICES ASSUME r.accurate, NEW o \in r.outliers PROVE o.lobe = "Far Field"
    OBVIOUS
  <2>1. PICK i \in OutlierRows(errors) : o = [row |-> i, lobe |-> Lobe(pts[i])]
    BY <1>1
  <2>2. ~MeetsTarget(pts, errors, Lobe(pts[i]))
    BY OutliersMiss
  <2>3. pts[i].cone \in Int
    BY AllRows DEF OutlierRows
  <2>4. Lobe(pts[i]) \in {"Main Lobe", "First Sidelobe", "Far Field"}
    BY <2>3, LobeNames
  <2>5. Lobe(pts[i]) = "Far Field"
    BY <1>1, <2>2, <2>4
  <2> QED
    BY <2>1, <2>5
<1> QED
  BY <1>1, <1>3, <1>4, <1>5, <1>6 DEF Complete

(* And the run's report is of all its usable rows. *)
LEMMA ReportsComplete ==
  ASSUME AllKept
  PROVE  ReportCountsEveryPoint
<1> SUFFICES ASSUME NEW r \in report
             PROVE  LET beyond == {i \in DOMAIN points : points[i].cone > FirstSidelobeEnd}
                        edge   == {i \in DOMAIN points : points[i].cone = 90}
                    IN  /\ r.points = Cardinality(UsableRows) /\ r.unserved = 0
                        /\ r.main + r.sidelobe + Cardinality(beyond) = r.points
                        /\ PointsIn(r.regions) = r.points - Cardinality(edge)
                        /\ r.accurate => \A o \in r.outliers : o.lobe = "Far Field"
                        /\ r.folds = IF WantedFolds > 1 THEN cv ELSE None
  BY DEF ReportCountsEveryPoint
<1> DEFINE kept == IF WantedFolds > 1 THEN cv ELSE None
<1>1. /\ job.mode = "full" /\ points # <<>> /\ points \in Seq(PolarPoints)
      /\ Len(points) = Cardinality(UsableRows)
  BY DEF AllKept, ReportKept, DataKept, RowsParsed
<1>2. PICK e \in Errors, s \in surface :
        r = Report(points, [i \in DOMAIN points |-> e[points[i].cone]], s.axes, kept)
  BY DEF AllKept, ReportKept
<1>3. \A i \in DOMAIN points : \A a \in Axes :
        s.axes[a].lower <= points[i][a] /\ points[i][a] <= s.axes[a].upper
  BY <1>1 DEF AllKept, SurfaceKept, Surfaced
<1> HIDE DEF kept
<1> DEFINE errors == [i \in DOMAIN points |-> e[points[i].cone]]
<1>4. errors \in [DOMAIN points -> Int]
  <2> SUFFICES ASSUME NEW i \in DOMAIN points PROVE e[points[i].cone] \in Int
    OBVIOUS
  <2>0. points[i].cone \in Int /\ 0 <= points[i].cone /\ points[i].cone <= 90
    BY <1>1, AllRows
  <2>1. points[i].cone \in 0..90
    BY <2>0
  <2>2. e \in [0..90 -> Nat]
    BY ErrorsAssumption
  <2> QED
    BY <2>1, <2>2
<1>5. r = Report(points, errors, s.axes, kept)
  BY <1>2
<1> HIDE DEF errors
<1> DEFINE axes == s.axes
<1>6. /\ r = Report(points, errors, axes, kept)
      /\ \A i \in DOMAIN points : \A a \in Axes :
           axes[a].lower <= points[i][a] /\ points[i][a] <= axes[a].upper
  BY <1>3, <1>5
<1> HIDE DEF axes
<1>7. Complete(r, points, kept)
  BY ONLY <1>1, <1>4, <1>6, ReportComplete
<1> QED
  BY <1>1, <1>7 DEF kept, Complete

(* The folds of a run that got past them account for every point. *)
LEMMA FoldsReported ==
  ASSUME AllKept
  PROVE  FoldsAccountForEveryPoint
<1>1. stage \notin {"score", "assess"} /\ (stage = "folds" => job.validate /\ job.folds > Len(points))
  BY DEF AllKept, FoldsKept
<1>2. ASSUME cv # None, pc \notin {"score", "refused"}
      PROVE  /\ PointsIn(cv.scored) + PointsLeftOut(points, cv.failed) = Len(points)
             /\ HasFigure(cv.scored, cv.failed) <=> PointsIn(cv.scored) = Len(points)
             /\ RecordReadable(ScoredRecord(cv.scored, cv.failed))
             /\ LegacyReadable(ScoredRecord(cv.scored, cv.failed))
             /\ LegacyScored(ScoredRecord(cv.scored, cv.failed)) = {r.fold : r \in cv.scored}
  <2>1. FoldsCounted /\ NextFold = cv.n /\ points \in Seq(PolarPoints)
    BY <1>2 DEF AllKept, FoldsKept, DataKept
  <2> QED
    BY ONLY <2>1, FoldsAccounted
<1> QED
  BY <1>1, <1>2 DEF FoldsAccountForEveryPoint

(* No measurement is lost between the file and the report: the folds score *)
(* it or name the fold that failed with it, the report deals it to a lobe  *)
(* and a region, and a record of the folds is read back as it was written. *)
THEOREM EveryPointIsAccounted == Spec => []EveryPointAccounted
<1>1. AllKept => EveryPointAccounted
  BY FoldsReported, ReportsComplete DEF EveryPointAccounted
<1> QED
  BY <1>1, AllIsKept, PTL

-----------------------------------------------------------------------------
(* The wire form of a surface, and what is read of it.                     *)

(* The knots of an axis, one by one. *)
KnotsClamp(axis, order, K, n) ==
  /\ n \in Nat /\ K \in Seq(Int) /\ Len(K) = n + order + order
  /\ K[1] = axis.lower /\ K[order] = axis.lower
  /\ \A i \in 1..n : K[order + i] = axis.interior[i]
  /\ K[n + order + 1] = axis.upper /\ K[Len(K)] = axis.upper

(* They are made so. *)
LEMMA KnotsAre ==
  ASSUME NEW axis, axis.lower \in Int, axis.upper \in Int, axis.interior \in Seq(Int),
         NEW order \in Nat, order >= 1
  PROVE  KnotsClamp(axis, order, KnotVector(axis, order), Len(axis.interior))
<1> DEFINE K == KnotVector(axis, order)
           n == Len(axis.interior)
           below == [i \in 1..order |-> axis.lower]
           inside == axis.interior
           above == [i \in 1..order |-> axis.upper]
           start == below \o inside
<1>1. below \in Seq(Int) /\ Len(below) = order /\ \A i \in 1..order : below[i] = axis.lower
  OBVIOUS
<1>2. above \in Seq(Int) /\ Len(above) = order /\ \A i \in 1..order : above[i] = axis.upper
  OBVIOUS
<1>3. inside \in Seq(Int) /\ Len(inside) = n /\ n \in Nat
  BY LenProperties
<1>4. K = start \o above
  BY DEF KnotVector
<1> HIDE DEF below, above, inside, K, n
<1>5. /\ start \in Seq(Int) /\ Len(start) = order + n
      /\ \A i \in 1..(order + n) :
           start[i] = IF i <= order THEN below[i] ELSE inside[i - order]
  <2>1. /\ below \o inside \in Seq(Int) /\ Len(below \o inside) = Len(below) + Len(inside)
        /\ \A i \in 1..Len(below) + Len(inside) :
             (below \o inside)[i] = IF i <= Len(below) THEN below[i] ELSE inside[i - Len(below)]
    BY <1>1, <1>3, ConcatProperties
  <2> QED
    BY <1>1, <1>3, <2>1
<1> HIDE DEF start
<1>6. /\ K \in Seq(Int) /\ Len(K) = (order + n) + order
      /\ \A i \in 1..((order + n) + order) :
           K[i] = IF i <= order + n THEN start[i] ELSE above[i - (order + n)]
  <2>1. /\ start \o above \in Seq(Int) /\ Len(start \o above) = Len(start) + Len(above)
        /\ \A i \in 1..Len(start) + Len(above) :
             (start \o above)[i] = IF i <= Len(start) THEN start[i] ELSE above[i - Len(start)]
    <3>1. start \in Seq(Int) /\ above \in Seq(Int)
      BY <1>2, <1>5
    <3> QED
      BY ONLY <3>1, ConcatProperties
  <2> QED
    BY <1>2, <1>4, <1>5, <2>1
<1>7. \A i \in 1..order : K[i] = axis.lower
  <2> SUFFICES ASSUME NEW i \in 1..order PROVE K[i] = axis.lower
    OBVIOUS
  <2>1. i \in 1..(order + n) /\ i \in 1..((order + n) + order) /\ i <= order + n /\ i <= order
    BY <1>3
  <2> QED
    BY <1>1, <1>5, <1>6, <2>1
<1>8. \A i \in 1..n : K[order + i] = inside[i]
  <2> SUFFICES ASSUME NEW i \in 1..n PROVE K[order + i] = inside[i]
    OBVIOUS
  <2>1. /\ order + i \in 1..(order + n) /\ order + i \in 1..((order + n) + order)
        /\ order + i <= order + n /\ ~(order + i <= order) /\ (order + i) - order = i
    BY <1>3
  <2> QED
    BY <1>5, <1>6, <2>1
<1>9. \A i \in 1..order : K[n + order + i] = axis.upper
  <2> SUFFICES ASSUME NEW i \in 1..order PROVE K[n + order + i] = axis.upper
    OBVIOUS
  <2>1. /\ n + order + i \in 1..((order + n) + order) /\ ~(n + order + i <= order + n)
        /\ (n + order + i) - (order + n) = i
    BY <1>3
  <2> QED
    BY <1>2, <1>6, <2>1
<1>10. 1 \in 1..order /\ order \in 1..order /\ Len(K) = n + order + order
  BY <1>3, <1>6
<1>11. KnotsClamp(axis, order, K, n)
  <2>1. K[1] = axis.lower /\ K[order] = axis.lower
    BY <1>7, <1>10
  <2>2. K[n + order + 1] = axis.upper
    BY <1>9, <1>10
  <2>3. K[Len(K)] = axis.upper
    BY <1>9, <1>10
  <2>4. \A i \in 1..n : K[order + i] = axis.interior[i]
    BY <1>8 DEF inside
  <2> QED
    BY <1>3, <1>6, <1>10, <2>1, <2>2, <2>3, <2>4 DEF KnotsClamp
<1> QED
  BY <1>11 DEF K, n

(* The support is what the axis was clamped to, and the interior knots are *)
(* found where they were put.                                              *)
LEMMA AxisReadBack ==
  ASSUME NEW axis, axis.lower \in Int, axis.upper \in Int, axis.interior \in Seq(Int),
         NEW order \in Nat, order >= 1
  PROVE  /\ Support(KnotVector(axis, order), order).lo = axis.lower
         /\ Support(KnotVector(axis, order), order).hi = axis.upper
         /\ SubSeq(KnotVector(axis, order), order + 1, CoefficientCount(axis, order))
              = axis.interior
<1> DEFINE K == KnotVector(axis, order)
           n == Len(axis.interior)
           m == CoefficientCount(axis, order)
           S == SubSeq(K, order + 1, m)
<1>1. /\ n \in Nat /\ K \in Seq(Int) /\ Len(K) = n + order + order
      /\ K[order] = axis.lower /\ K[n + order + 1] = axis.upper
      /\ \A i \in 1..n : K[order + i] = axis.interior[i]
  <2>1. KnotsClamp(axis, order, K, n)
    BY KnotsAre
  <2> HIDE DEF K, n
  <2> QED
    BY <2>1 DEF KnotsClamp
<1>2. m = n + order
  BY DEF CoefficientCount
<1> HIDE DEF K, n, m
<1>3. Len(K) - order + 1 = n + order + 1
  BY <1>1
<1>4. Support(K, order).lo = axis.lower /\ Support(K, order).hi = axis.upper
  BY <1>1, <1>3 DEF Support
<1>5. /\ S \in Seq(Int) /\ Len(S) = IF order + 1 <= m THEN m - (order + 1) + 1 ELSE 0
      /\ \A i \in 1..(m - (order + 1) + 1) : S[i] = K[order + 1 + i - 1]
  <2>1. \A i \in (order + 1)..m : K[i] \in Int
    BY <1>1, <1>2
  <2>2. order + 1 \in Int /\ m \in Int
    BY <1>1, <1>2
  <2> QED
    BY <2>1, <2>2, SubSeqProperties
<1> HIDE DEF S
<1>6. Len(S) = n /\ \A i \in 1..n : S[i] = K[order + i]
  <2>1. m - (order + 1) + 1 = n /\ (order + 1 <= m) = (n > 0)
    BY <1>1, <1>2
  <2>2. \A i \in 1..n : order + 1 + i - 1 = order + i
    BY <1>1
  <2> QED
    BY <1>1, <1>5, <2>1, <2>2
<1>7. axis.interior \in Seq(Int) /\ Len(axis.interior) = n
  BY DEF n
<1>8. S = axis.interior
  <2> DEFINE I == axis.interior
  <2>1. S \in Seq(Int) /\ I \in Seq(Int) /\ Len(S) = Len(I)
    BY <1>5, <1>6, <1>7
  <2>2. \A i \in 1..Len(S) : S[i] = I[i]
    BY <1>1, <1>6
  <2> HIDE DEF I
  <2>3. S = I
    BY ONLY <2>1, <2>2, SeqEqual
  <2> QED
    BY <2>3 DEF I
<1> QED
  BY <1>4, <1>8 DEF K, S, m

(* The service decodes the very surface that was written.                  *)
LEMMA SurfaceReadBack ==
  ASSUME NEW s, Surfaced(s), NEW temperature, Len(temperature.interior) \in Nat
  PROVE  FromModel4D(ToModel4D(s, temperature)) = s
<1> DEFINE wire == ToModel4D(s, temperature)
           order == s.order
           layers == CoefficientCount(temperature, order)
           axes(a) == ClampedAxis(Support(wire.knots[a], order).lo, Support(wire.knots[a], order).hi,
                                  SubSeq(wire.knots[a], order + 1, wire.shape[a]))
<1>1. /\ s = [axes |-> s.axes, order |-> s.order, slab |-> s.slab]
      /\ s.axes = [a \in Axes |-> ClampedAxis(s.axes[a].lower, s.axes[a].upper, s.axes[a].interior)]
      /\ \A a \in Axes : /\ s.axes[a].lower \in Int /\ s.axes[a].upper \in Int
                         /\ s.axes[a].interior \in Seq(Int)
      /\ order \in Nat /\ order >= 1
  BY DEF Surfaced, LayoutValid
<1>2. /\ wire.order = order
      /\ wire.slabs = [t \in 1..layers |-> s.slab]
      /\ \A a \in Axes : /\ wire.knots[a] = KnotVector(s.axes[a], order)
                         /\ wire.shape[a] = CoefficientCount(s.axes[a], order)
  BY DEF ToModel4D
<1>3. layers \in Nat /\ layers >= 1
  BY <1>1 DEF CoefficientCount
<1> HIDE DEF wire, layers, order
<1>4. Head(wire.slabs) = s.slab
  <2>1. Head(wire.slabs) = wire.slabs[1] /\ 1 \in 1..layers
    BY <1>2, <1>3
  <2> QED
    BY <1>2, <2>1
<1>5. \A a \in Axes : axes(a) = ClampedAxis(s.axes[a].lower, s.axes[a].upper, s.axes[a].interior)
  <2> SUFFICES ASSUME NEW a \in Axes
               PROVE  axes(a) = ClampedAxis(s.axes[a].lower, s.axes[a].upper, s.axes[a].interior)
    OBVIOUS
  <2> DEFINE axis == s.axes[a]
  <2>1. axis.lower \in Int /\ axis.upper \in Int /\ axis.interior \in Seq(Int)
    BY <1>1
  <2>2. wire.knots[a] = KnotVector(axis, order) /\ wire.shape[a] = CoefficientCount(axis, order)
    BY <1>2
  <2> HIDE DEF axis
  <2>3. /\ Support(wire.knots[a], order).lo = axis.lower
        /\ Support(wire.knots[a], order).hi = axis.upper
        /\ SubSeq(wire.knots[a], order + 1, wire.shape[a]) = axis.interior
    BY <1>1, <2>1, <2>2, AxisReadBack
  <2> QED
    BY <2>3 DEF axis
<1>6. FromModel4D(wire) = [order |-> order, axes |-> [a \in Axes |-> axes(a)], slab |-> s.slab]
  BY <1>2, <1>4 DEF FromModel4D
<1> HIDE DEF axes
<1>7. [a \in Axes |-> axes(a)] = s.axes
  BY <1>1, <1>5
<1> QED
  BY <1>1, <1>6, <1>7 DEF wire, order

-----------------------------------------------------------------------------
(* Knots that never fall from one to the next never fall.                  *)
LEMMA KnotsSorted ==
  ASSUME NEW K \in Seq(Int), \A i \in 2..Len(K) : K[i - 1] <= K[i]
  PROVE  \A i, j \in 1..Len(K) : i <= j => K[i] <= K[j]
<1> DEFINE m == Len(K)
           Bad == {d \in Nat : \E i \in 1..m : i + d \in 1..m /\ ~(K[i] <= K[i + d])}
<1>1. m \in Nat /\ \A i \in 1..m : K[i] \in Int
  BY LenProperties
<1>2. \A i \in 2..m : K[i - 1] <= K[i]
  OBVIOUS
<1> HIDE DEF m
<1>3. Bad = {}
  <2> SUFFICES ASSUME Bad # {} PROVE FALSE
    OBVIOUS
  <2>1. PICK d \in Bad : \A e \in Bad : d <= e
    BY LeastOfNaturals
  <2>2. PICK i \in 1..m : i + d \in 1..m /\ ~(K[i] <= K[i + d])
    BY <2>1
  <2>3. d \in Nat
    BY <2>1
  <2>4. d # 0
    BY <1>1, <2>2, <2>3
  <2>5. d - 1 \in Nat /\ d - 1 \notin Bad
    <3>1. d - 1 \in Nat /\ ~(d <= d - 1)
      BY <2>3, <2>4
    <3> HIDE DEF Bad
    <3> QED
      BY <2>1, <3>1
  <2>6. i + (d - 1) \in 1..m /\ i + d \in 2..m /\ (i + d) - 1 = i + (d - 1)
    BY <1>1, <2>2, <2>3, <2>4
  <2>7. K[i] <= K[i + (d - 1)]
    BY <2>2, <2>5, <2>6
  <2>8. K[i + (d - 1)] <= K[i + d]
    <3>1. K[(i + d) - 1] <= K[i + d]
      BY <1>2, <2>6
    <3> QED
      BY <2>6, <3>1
  <2> DEFINE a == K[i]
             b == K[i + (d - 1)]
             c == K[i + d]
  <2>9. a \in Int /\ b \in Int /\ c \in Int
    BY <1>1, <2>2, <2>6
  <2>10. a <= b /\ b <= c /\ ~(a <= c)
    BY <2>2, <2>7, <2>8
  <2> HIDE DEF a, b, c
  <2> QED
    BY ONLY <2>9, <2>10
<1>4. ASSUME NEW i \in 1..m, NEW j \in 1..m, i <= j PROVE K[i] <= K[j]
  <2>1. j - i \in Nat /\ i + (j - i) = j
    BY <1>4
  <2> QED
    BY <1>3, <2>1
<1> QED
  BY <1>4 DEF m

(* The widest gap is one between neighbours, and no other is wider.        *)
LEMMA GapIsWidest ==
  ASSUME NEW K \in Seq(Int), Len(K) >= 2, \A i \in 2..Len(K) : K[i - 1] <= K[i]
  PROVE  /\ WidestGap(K) \in Nat
         /\ \A i \in 2..Len(K) : K[i] - K[i - 1] <= WidestGap(K)
         /\ \E i \in 2..Len(K) : WidestGap(K) = K[i] - K[i - 1]
<1> DEFINE m == Len(K)
           S == {K[i] - K[i - 1] : i \in 2..m}
<1>1. m \in Nat /\ m >= 2 /\ \A i \in 1..m : K[i] \in Int
  BY LenProperties
<1>2. \A i \in 2..m : K[i - 1] <= K[i]
  OBVIOUS
<1>3. WidestGap(K) = Max(S)
  BY DEF WidestGap
<1> HIDE DEF m
<1>4. \A i \in 2..m : K[i] - K[i - 1] \in Nat
  BY <1>1, <1>2
<1>5. IsFiniteSet(S)
  <2> DEFINE gap == [i \in 2..m |-> K[i] - K[i - 1]]
  <2>1. gap \in Surjection(2..m, S)
    BY DEF Surjection
  <2>2. IsFiniteSet(2..m)
    BY <1>1, FS_Interval
  <2> QED
    BY <2>1, <2>2, FS_Surjection
<1>6. S \in SUBSET Int /\ S # {}
  <2>1. 2 \in 2..m
    BY <1>1
  <2> QED
    BY <1>4, <2>1
<1>7. Max(S) \in S /\ \A y \in S : y <= Max(S)
  <2> HIDE DEF S
  <2> QED
    BY <1>5, <1>6, Extremes
<1> QED
  BY <1>3, <1>4, <1>7 DEF m

(* Wherever one looks there is a knot within the widest gap, and at the    *)
(* widest gap there is none within less.                                   *)
LEMMA GapResolves ==
  ASSUME NEW K \in Seq(Int), Len(K) >= 2, \A i \in 2..Len(K) : K[i - 1] <= K[i],
         NEW support, support.lo = K[1], support.hi = K[Len(K)],
         NEW gap, gap = WidestGap(K)
  PROVE  ResolvesTo(K, support, gap)
<1> DEFINE m == Len(K)
<1>1. m \in Nat /\ m >= 2 /\ (\A i \in 1..m : K[i] \in Int) /\ DOMAIN K = 1..m
  BY LenProperties
<1>2. ToSet(K) = {K[i] : i \in 1..m}
  BY <1>1 DEF ToSet
<1>3. \A i, j \in 1..m : i <= j => K[i] <= K[j]
  BY KnotsSorted
<1>4. /\ gap \in Nat /\ \A i \in 2..m : K[i] - K[i - 1] <= gap
      /\ \E i \in 2..m : gap = K[i] - K[i - 1]
  BY GapIsWidest
<1>5. support.lo = K[1] /\ support.hi = K[m]
  OBVIOUS
<1> HIDE DEF m
<1>6. ASSUME NEW v \in support.lo..support.hi - gap
      PROVE  ToSet(K) \cap v..v + gap # {}
  <2>1. v \in Int /\ K[1] <= v /\ v + gap <= K[m]
    BY <1>1, <1>4, <1>5
  <2> DEFINE T == {i \in 1..m : v <= K[i]}
  <2>2. T \in SUBSET Nat /\ T # {}
    <3>1. m \in T
      BY <1>1, <1>4, <2>1
    <3> QED
      BY <1>1, <3>1
  <2>3. PICK i \in T : \A j \in T : i <= j
    BY <2>2, LeastOfNaturals
  <2>4. i \in 1..m /\ v <= K[i]
    BY <2>3
  <2>5. K[i] <= v + gap
    <3>1. CASE i = 1
      BY <1>1, <1>4, <2>1, <3>1
    <3>2. CASE i # 1
      <4>1. i \in 2..m /\ i - 1 \in 1..m /\ ~(i <= i - 1)
        BY <1>1, <2>4, <3>2
      <4>2. ~(v <= K[i - 1])
        BY <2>3, <4>1
      <4>3. K[i] - K[i - 1] <= gap
        BY <1>4, <4>1
      <4> DEFINE a == K[i - 1]
                 b == K[i]
      <4>4. a \in Int /\ b \in Int /\ ~(v <= a) /\ b - a <= gap
        BY <1>1, <2>4, <4>1, <4>2, <4>3
      <4> HIDE DEF a, b
      <4>5. b <= v + gap
        BY <1>4, <2>1, <4>4
      <4> QED
        BY <4>5 DEF b
    <3> QED
      BY <3>1, <3>2
  <2>6. K[i] \in v..v + gap
    BY <1>1, <1>4, <2>1, <2>4, <2>5
  <2> QED
    BY <1>2, <2>4, <2>6
<1>7. \E v \in support.lo..support.hi - gap : ToSet(K) \cap v..v + gap = {v, v + gap}
  <2>1. PICK i \in 2..m : gap = K[i] - K[i - 1]
    BY <1>4
  <2>2. i \in 1..m /\ i - 1 \in 1..m /\ 1 \in 1..m /\ m \in 1..m /\ 1 <= i - 1 /\ i <= m
    BY <1>1
  <2> DEFINE v == K[i - 1]
  <2>3. v \in Int /\ K[i] \in Int /\ v + gap = K[i]
    BY <1>1, <2>1, <2>2
  <2>4. K[1] <= v /\ K[i] <= K[m] /\ K[1] \in Int /\ K[m] \in Int
    BY <1>1, <1>3, <2>2
  <2>5. \A j \in 1..m : K[j] \in Int /\ (K[j] <= v \/ K[i] <= K[j])
    <3> SUFFICES ASSUME NEW j \in 1..m PROVE K[j] \in Int /\ (K[j] <= v \/ K[i] <= K[j])
      OBVIOUS
    <3>1. j <= i - 1 \/ i <= j
      BY <1>1
    <3> QED
      BY <1>1, <1>3, <2>2, <3>1
  <2>6. v \in ToSet(K) /\ v + gap \in ToSet(K)
    BY <1>2, <2>2, <2>3
  <2> HIDE DEF v
  <2>7. v \in support.lo..support.hi - gap
    BY <1>4, <1>5, <2>3, <2>4
  <2>8. ASSUME NEW x \in ToSet(K), x \in v..v + gap PROVE x \in {v, v + gap}
    <3>1. PICK j \in 1..m : x = K[j]
      BY <1>2
    <3>2. x \in Int /\ (x <= v \/ v + gap <= x) /\ v <= x /\ x <= v + gap
      BY <1>4, <2>3, <2>5, <2>8, <3>1
    <3> QED
      BY <1>4, <2>3, <3>2
  <2>9. v \in v..v + gap /\ v + gap \in v..v + gap
    <3>1. v \in Int /\ gap \in Nat
      BY <1>4, <2>3
    <3> QED
      BY ONLY <3>1
  <2>10. ToSet(K) \cap v..v + gap = {v, v + gap}
    BY <2>6, <2>8, <2>9
  <2> QED
    BY <2>7, <2>10
<1> QED
  BY <1>6, <1>7 DEF ResolvesTo

-----------------------------------------------------------------------------
(* Clamped and readable knots: the axis of a surface.                      *)
LEMMA SurfaceAxisKnots ==
  ASSUME NEW s, Surfaced(s), NEW axis \in Axes, NEW K, K = KnotVector(s.axes[axis], s.order)
  PROVE  ResolvesTo(K, Support(K, s.order), WidestGap(K))
<1> DEFINE order == s.order
           a == s.axes[axis]
           n == Len(a.interior)
           support == Support(K, order)
           gap == WidestGap(K)
<1>1. /\ a.lower \in Int /\ a.upper \in Int /\ a.interior \in Seq(Int)
      /\ order \in Nat /\ order >= 1
      /\ \A i \in 2..Len(K) : K[i - 1] <= K[i]
  BY DEF Surfaced, LayoutValid, AxisValid, KnotsReadable
<1>2. K = KnotVector(a, order) /\ n = Len(a.interior)
  OBVIOUS
<1> HIDE DEF order, a, n
<1>3. /\ n \in Nat /\ K \in Seq(Int) /\ Len(K) = n + order + order
      /\ K[1] = a.lower /\ K[Len(K)] = a.upper
  <2>1. KnotsClamp(a, order, K, n)
    BY <1>1, <1>2, KnotsAre
  <2> QED
    BY <2>1 DEF KnotsClamp
<1>4. Len(K) >= 2
  BY <1>1, <1>3
<1>5. support.lo = a.lower /\ support.hi = a.upper
  BY <1>1, <1>2, AxisReadBack
<1> HIDE DEF support
<1>6. support.lo = K[1] /\ support.hi = K[Len(K)] /\ gap = WidestGap(K)
  BY <1>3, <1>5
<1> HIDE DEF gap
<1>7. ResolvesTo(K, support, gap)
  BY ONLY <1>1, <1>3, <1>4, <1>6, GapResolves
<1> QED
  BY <1>7 DEF support, gap, order

(* The temperature axis has one interior knot, whatever the mode. *)
LEMMA TemperatureKnots == Len(TemperatureAxis.interior) \in Nat
BY DEF TemperatureAxis, FlatAxis, ClampedAxis

(* The service decodes the surface of the run. *)
LEMMA SurfaceServed ==
  ASSUME AllKept, NEW a \in artifact
  PROVE  {FromModel4D(wire) : wire \in a.surface} = surface
<1>1. a.surface = Written(surface)
  <2>1. a = [model |-> Stamped, coverage |-> Coverage,
             surface |-> Written(surface), resolution |-> Assessed]
    BY DEF AllKept, BuiltKept
  <2> QED
    BY <2>1
<1>2. \A s \in surface : FromModel4D(ToModel4D(s, TemperatureAxis)) = s
  <2>1. \A s \in surface : Surfaced(s)
    BY DEF AllKept, SurfaceKept
  <2> QED
    BY <2>1, SurfaceReadBack, TemperatureKnots
<1>3. Written(surface) = {ToModel4D(s, TemperatureAxis) : s \in surface}
  BY DEF Written
<1> QED
  BY <1>1, <1>2, <1>3

(* What the artifact says of its resolution is true of what is served. *)
LEMMA ResolutionServed ==
  ASSUME AllKept, NEW a \in artifact, NEW r \in a.resolution, NEW wire \in a.surface,
         NEW axis \in DOMAIN r
  PROVE  ResolvesTo(wire.knots[axis], SupportOf(wire)[axis], r[axis])
<1>1. a.surface = Written(surface) /\ a.resolution = Assessed
  <2>1. a = [model |-> Stamped, coverage |-> Coverage,
             surface |-> Written(surface), resolution |-> Assessed]
    BY DEF AllKept, BuiltKept
  <2> QED
    BY <2>1
<1>2. PICK s \in surface : wire = ToModel4D(s, TemperatureAxis)
  BY <1>1 DEF Written
<1>3. PICK t \in surface : r = Resolution(t.axes, t.order)
  BY <1>1 DEF Assessed
<1>4. s = t /\ Surfaced(s)
  BY DEF AllKept, SurfaceKept
<1> DEFINE K == KnotVector(s.axes[axis], s.order)
<1>5. axis \in {"clock", "cone"} /\ axis \in Axes /\ r[axis] = WidestGap(K)
  BY <1>3, <1>4 DEF Resolution, Axes
<1>6. wire.knots[axis] = K /\ wire.order = s.order
  BY <1>2, <1>5 DEF ToModel4D
<1>7. SupportOf(wire)[axis] = Support(K, s.order)
  BY <1>5, <1>6 DEF SupportOf
<1>8. ResolvesTo(K, Support(K, s.order), WidestGap(K))
  BY <1>4, <1>5, SurfaceAxisKnots
<1> HIDE DEF K
<1> QED
  BY <1>5, <1>6, <1>7, <1>8

(* The service rebuilds the model whose residuals were taken, decodes the  *)
(* very surface that was fitted, knot by knot, and can tell structure as   *)
(* fine as the artifact says, and no finer.                                *)
THEOREM ArtifactServedAsFitted == Spec => []ServedAsFitted
<1>1. IInv /\ AllKept => ServedAsFitted
  <2> SUFFICES ASSUME IInv, AllKept PROVE ServedAsFitted
    OBVIOUS
  <2>1. ModelServedAsFitted
    BY DEF IInv, ModelsKept
  <2> QED
    BY <2>1, SurfaceServed, ResolutionServed DEF ServedAsFitted
<1> QED
  BY <1>1, AllIsKept, PTL

-----------------------------------------------------------------------------
(* Measurements are inside the domain that was measured.                   *)
LEMMA PointsInside ==
  ASSUME NEW pts \in Seq(PolarPoints), NEW m \in DOMAIN pts
  PROVE  Inside(pts[m], MeasuredDomain(pts, DOMAIN pts))
<1> DEFINE rows == DOMAIN pts
<1>1. IsFiniteSet(rows) /\ rows # {} /\ \A i \in rows : pts[i] \in PolarPoints
  BY RowSets, LenProperties
<1>2. \A i \in rows : \A a \in Axes : pts[i][a] \in Int
  <2> SUFFICES ASSUME NEW i \in rows PROVE \A a \in Axes : pts[i][a] \in Int
    OBVIOUS
  <2>1. pts[i] \in PolarPoints
    BY <1>1
  <2>2. pts[i].clock \in Int /\ pts[i].cone \in Int /\ pts[i].freq \in Int
    <3> DEFINE p == pts[i]
    <3>1. p \in [clock : 0..360, cone : 0..90, freq : Int]
      BY <2>1 DEF PolarPoints
    <3> HIDE DEF p
    <3>2. p.clock \in Int /\ p.cone \in Int /\ p.freq \in Int
      <4>1. p.clock \in 0..360 /\ p.cone \in 0..90 /\ p.freq \in Int
        BY <3>1
      <4>2. (\A x \in 0..360 : x \in Int) /\ (\A x \in 0..90 : x \in Int)
        OBVIOUS
      <4> QED
        BY ONLY <4>1, <4>2, ZenonT(60)
    <3> QED
      BY <3>2 DEF p
  <2> QED
    BY <2>2 DEF Axes
<1>3. m \in rows
  OBVIOUS
<1> HIDE DEF rows
<1>4. \A a \in Axes : /\ MeasuredDomain(pts, rows)[a].lo <= pts[m][a]
                      /\ pts[m][a] <= MeasuredDomain(pts, rows)[a].hi
  BY <1>1, <1>2, <1>3, AxisFitted
<1> QED
  BY <1>4 DEF Inside, rows

(* A usable row was measured, under the name parsing gave it.              *)
LEMMA RowInside ==
  ASSUME AllKept, job.mode = "full", points # <<>>, NEW i \in UsableRows
  PROVE  /\ ToPolar(job.rows[i]) \in Namings(job.rows[i])
         /\ Inside(ToPolar(job.rows[i]), Coverage)
<1>1. /\ points \in Seq(PolarPoints) /\ RowsParsed /\ job \in Jobs
  BY DEF AllKept, DataKept
<1>2. PICK m \in 1..Len(points) : points[m] = ToPolar(job.rows[i])
  BY <1>1 DEF RowsParsed
<1>3. Coverage = MeasuredDomain(points, DOMAIN points)
  BY DEF Coverage
<1>4. m \in DOMAIN points
  BY <1>1, LenProperties
<1>5. Inside(points[m], MeasuredDomain(points, DOMAIN points))
  BY <1>1, <1>4, PointsInside
<1>6. job.rows \in Seq(Row) /\ i \in DOMAIN job.rows /\ RowValid(job.rows[i])
  BY <1>1, JobsAssumption DEF UsableRows
<1>7. job.rows[i] \in Row
  BY <1>6
<1> QED
  BY <1>2, <1>3, <1>5, <1>6, <1>7, RowIsPolar

(* No usable row of the file is lost before the artifact, and under one of *)
(* its names each is a direction that the artifact covers.                 *)
LEMMA RowsAreCovered ==
  ASSUME AllKept
  PROVE  RowsCovered
<1> SUFFICES ASSUME NEW a \in artifact, job.mode = "full"
             PROVE  /\ Len(points) = Cardinality(UsableRows)
                    /\ \A i \in UsableRows : \E n \in Namings(job.rows[i]) : Inside(n, a.coverage)
  BY DEF RowsCovered
<1>1. /\ a = [model |-> Stamped, coverage |-> Coverage,
              surface |-> Written(surface), resolution |-> Assessed]
      /\ points # <<>>
  BY DEF AllKept, BuiltKept
<1>2. a.coverage = Coverage
  BY <1>1
<1>3. RowsParsed
  BY <1>1 DEF AllKept, DataKept
<1>4. ASSUME NEW i \in UsableRows
      PROVE  ToPolar(job.rows[i]) \in Namings(job.rows[i])
             /\ Inside(ToPolar(job.rows[i]), a.coverage)
  BY <1>1, <1>2, RowInside
<1> QED
  BY <1>3, <1>4 DEF RowsParsed

-----------------------------------------------------------------------------
(* The basis functions of an axis.  Recursion, products and sums over      *)
(* numbers, which they are made of.                                        *)
Recurs(n, base, step, f) ==
  f[0] = base /\ \A k \in 1..n : f[k] = step[<<k, f[k - 1]>>]

(* Recursion over 0..n, given what is done at each number. *)
LEMMA RecursionExists ==
  ASSUME NEW n \in Nat, NEW W, NEW base \in W, NEW step \in [(1..n) \X W -> W]
  PROVE  \E f \in [0..n -> W] : Recurs(n, base, step, f)
<1>1. PICK g \in [SUBSET (1..n) -> W] : FoldsLeft(1..n, base, step, g)
  BY LeftFold
<1> DEFINE f == [k \in 0..n |-> g[1..k]]
<1>2. \A k \in 0..n : 1..k \in SUBSET (1..n)
  OBVIOUS
<1>3. f \in [0..n -> W]
  BY <1>1, <1>2
<1>4. f[0] = base
  <2>1. 1..0 = {}
    OBVIOUS
  <2> QED
    BY <1>1, <2>1 DEF FoldsLeft
<1>5. ASSUME NEW k \in 1..n PROVE f[k] = step[<<k, f[k - 1]>>]
  <2>1. k \in Nat \ {0} /\ k \in 0..n /\ k - 1 \in 0..n /\ 1..k # {}
    OBVIOUS
  <2>2. Max(1..k) = k /\ (1..k) \ {k} = 1..(k - 1)
    BY <2>1, TopOfPrefix
  <2>3. g[1..k] = step[<<Max(1..k), g[(1..k) \ {Max(1..k)}]>>]
    BY <1>1, <1>2, <2>1 DEF FoldsLeft
  <2> QED
    BY <2>1, <2>2, <2>3
<1> HIDE DEF f
<1> QED
  BY <1>3, <1>4, <1>5 DEF Recurs

(* g multiplies the factors of the elements of each subset.                *)
Products(S, w, g) ==
  /\ g[{}] = 1
  /\ \A s \in SUBSET S : s # {} => \E x \in s : g[s] = w[x] * g[s \ {x}]

(* Products of naturals are naturals, in any order.                        *)
LEMMA TimesFacts ==
  /\ \A x, y \in Nat : x * y \in Nat /\ x * y = y * x
  /\ \A x, y \in Nat : x > 0 /\ y > 0 => x * y > 0
  /\ \A x, y, z \in Nat : x * (y * z) = y * (x * z)
<1>1. \A x, y \in Nat : x > 0 /\ y > 0 => x * y > 0
  <2> SUFFICES ASSUME NEW x \in Nat, NEW y \in Nat, x > 0, y > 0 PROVE x * y > 0
    OBVIOUS
  <2> QED
    OBVIOUS
<1>2. \A x, y, z \in Nat : x * (y * z) = y * (x * z)
  OBVIOUS
<1>3. \A x, y \in Nat : x * y \in Nat /\ x * y = y * x
  OBVIOUS
<1> QED
  BY <1>1, <1>2, <1>3

(* It matters not which factor is taken first.                             *)
LEMMA ProductFacts ==
  ASSUME NEW S, IsFiniteSet(S), NEW w, \A x \in S : w[x] \in Nat, NEW g, Products(S, w, g)
  PROVE  \A s \in SUBSET S : g[s] \in Nat /\ \A x \in s : g[s] = w[x] * g[s \ {x}]
<1> DEFINE Good(s) == g[s] \in Nat /\ \A x \in s : g[s] = w[x] * g[s \ {x}]
           Sizes == {n \in Nat : \E s \in SUBSET S : Cardinality(s) = n /\ ~Good(s)}
<1>1. \A s \in SUBSET S : IsFiniteSet(s) /\ Cardinality(s) \in Nat
  BY FS_Subset, FS_CardinalityType
<1>2. \A s \in SUBSET S : \A x \in s :
        s \ {x} \in SUBSET S /\ Cardinality(s \ {x}) = Cardinality(s) - 1
  BY <1>1, FS_RemoveElement
<1> HIDE DEF Good
<1>3. ASSUME Sizes # {} PROVE FALSE
  <2>1. PICK n \in Sizes : \A y \in Sizes : n <= y
    BY <1>3, LeastOfNaturals
  <2>2. PICK s \in SUBSET S : Cardinality(s) = n /\ ~Good(s)
    BY <2>1
  <2>3. \A t \in SUBSET S : Cardinality(t) < n => Good(t)
    <3> SUFFICES ASSUME NEW t \in SUBSET S, Cardinality(t) < n, ~Good(t) PROVE FALSE
      OBVIOUS
    <3>1. Cardinality(t) \in Sizes
      BY <1>1
    <3> QED
      BY <1>1, <2>1, <3>1
  <2>4. s # {}
    BY <2>2 DEF Good, Products
  <2>5. PICK y \in s : g[s] = w[y] * g[s \ {y}]
    BY <2>4 DEF Products
  <2>6. Good(s \ {y})
    BY <1>1, <1>2, <2>2, <2>3
  <2>7. g[s \ {y}] \in Nat /\ w[y] \in Nat
    BY <2>6 DEF Good
  <2>8. ASSUME NEW x \in s PROVE g[s] = w[x] * g[s \ {x}]
    <3>1. CASE x = y
      BY <2>5, <3>1
    <3>2. CASE x # y
      <4>1. Good(s \ {x})
        BY <1>1, <1>2, <2>2, <2>3
      <4>2. x \in s \ {y} /\ y \in s \ {x} /\ (s \ {y}) \ {x} = (s \ {x}) \ {y}
        BY <3>2
      <4> DEFINE rest == (s \ {x}) \ {y}
      <4>3. g[s \ {y}] = w[x] * g[rest] /\ g[s \ {x}] = w[y] * g[rest]
        BY <2>6, <4>1, <4>2 DEF Good
      <4>4. Good(rest)
        <5>1. s \ {x} \in SUBSET S /\ rest \in SUBSET S /\ Cardinality(s \ {x}) = n - 1
              /\ Cardinality(rest) = (n - 1) - 1
          BY <1>2, <2>2, <4>2, ZenonT(60)
        <5> QED
          BY <2>1, <2>3, <5>1
      <4>5. g[rest] \in Nat /\ w[x] \in Nat
        BY <4>4 DEF Good
      <4> HIDE DEF rest
      <4>6. w[y] * (w[x] * g[rest]) = w[x] * (w[y] * g[rest])
        BY <2>7, <4>5, TimesFacts
      <4> QED
        BY <2>5, <4>3, <4>6
    <3> QED
      BY <3>1, <3>2
  <2>9. g[s] \in Nat
    BY <2>5, <2>7, TimesFacts
  <2> QED
    BY <2>2, <2>8, <2>9 DEF Good
<1>4. \A s \in SUBSET S : Good(s)
  <2> SUFFICES ASSUME NEW s \in SUBSET S, ~Good(s) PROVE FALSE
    OBVIOUS
  <2>1. Cardinality(s) \in Sizes
    BY <1>1
  <2> QED
    BY <1>3, <2>1
<1> QED
  BY <1>4 DEF Good

(* Two products of the same factors agree.                                 *)
LEMMA ProductsAgree ==
  ASSUME NEW S, IsFiniteSet(S), NEW T \in SUBSET S, NEW w, NEW v,
         \A x \in S : w[x] \in Nat, \A x \in T : v[x] = w[x],
         NEW g, Products(S, w, g), NEW h, Products(T, v, h)
  PROVE  g[T] = h[T]
<1> DEFINE Sizes == {n \in Nat : \E s \in SUBSET T : Cardinality(s) = n /\ g[s] # h[s]}
<1>1. \A s \in SUBSET T : IsFiniteSet(s) /\ Cardinality(s) \in Nat
  BY FS_Subset, FS_CardinalityType
<1>2. \A s \in SUBSET T : \A x \in s :
        s \ {x} \in SUBSET T /\ Cardinality(s \ {x}) = Cardinality(s) - 1
  BY <1>1, FS_RemoveElement
<1>3. IsFiniteSet(T) /\ \A x \in T : v[x] \in Nat
  BY FS_Subset
<1>4. ASSUME Sizes # {} PROVE FALSE
  <2>1. PICK n \in Sizes : \A y \in Sizes : n <= y
    BY <1>4, LeastOfNaturals
  <2>2. PICK s \in SUBSET T : Cardinality(s) = n /\ g[s] # h[s]
    BY <2>1
  <2>3. PICK x \in s : TRUE
    BY <2>2 DEF Products
  <2>4. g[s] = w[x] * g[s \ {x}]
    <3>1. s \in SUBSET S
      OBVIOUS
    <3> QED
      BY <2>3, <3>1, ProductFacts
  <2>5. h[s] = v[x] * h[s \ {x}]
    BY <1>3, <2>3, ProductFacts
  <2>6. g[s \ {x}] # h[s \ {x}]
    BY <2>2, <2>3, <2>4, <2>5
  <2>7. n - 1 \in Sizes /\ n \in Nat
    BY <1>1, <1>2, <2>1, <2>2, <2>3, <2>6
  <2> QED
    BY <2>1, <2>7
<1>5. Cardinality(T) \in Nat
  BY <1>1
<1> QED
  BY <1>4, <1>5

(* What the community module's fold computes of a function is the product  *)
(* of its values.                                                          *)
LEMMA ValuesAreMultiplied ==
  ASSUME NEW S, IsFiniteSet(S), NEW w, DOMAIN w = S, \A x \in S : w[x] \in Nat
  PROVE  \E g : Products(S, w, g) /\ Product(w) = g[S]
<1> DEFINE pick == [s \in SUBSET S |-> CHOOSE x \in s : TRUE]
           step == [p \in S \X Nat |-> w[p[1]] * p[2]]
           Body(f) == [s \in SUBSET S |-> IF s = {} THEN 1
                         ELSE LET x == CHOOSE x \in s : TRUE IN w[x] * f[s \ {x}]]
           iter == CHOOSE f : f = Body(f)
<1>1. Product(w) = iter[S]
  BY DEF Product, FoldFunction, FoldFunctionOnSet, MapThenFoldSet
<1>2. \A s \in SUBSET S : s # {} => (CHOOSE x \in s : TRUE) \in s /\ pick[s] = CHOOSE x \in s : TRUE
  OBVIOUS
<1>3. step \in [S \X Nat -> Nat] /\ \A x \in S, k \in Nat : step[<<x, k>>] = w[x] * k
  BY TimesFacts
<1>4. iter = Body(iter)
  <2>1. \A s \in SUBSET S : s # {} => pick[s] \in s
    BY <1>2
  <2> HIDE DEF pick, step
  <2>2. PICK g \in [SUBSET S -> Nat] : FoldsBy(S, 1, pick, step, g)
    BY <1>3, <2>1, FoldExists
  <2>3. \A s \in SUBSET S : g[s] = Body(g)[s]
    <3> SUFFICES ASSUME NEW s \in SUBSET S, s # {}
                 PROVE  g[s] = LET x == CHOOSE x \in s : TRUE IN w[x] * g[s \ {x}]
      BY <2>2 DEF FoldsBy
    <3> DEFINE x == CHOOSE x \in s : TRUE
    <3>1. x \in S /\ pick[s] = x /\ g[s \ {x}] \in Nat
      BY <1>2, <2>2
    <3> HIDE DEF x
    <3>2. g[s] = step[<<x, g[s \ {x}]>>]
      BY <2>2, <3>1 DEF FoldsBy
    <3>3. g[s] = w[x] * g[s \ {x}]
      BY <1>3, <3>1, <3>2
    <3> QED
      BY <3>3 DEF x
  <2>4. g = Body(g)
    <3>1. g = [s \in SUBSET S |-> g[s]] /\ Body(g) = [s \in SUBSET S |-> Body(g)[s]]
      BY <2>2
    <3> HIDE DEF Body
    <3> QED
      BY <2>3, <3>1
  <2> HIDE DEF Body
  <2> QED
    BY <2>4
<1>5. \A s \in SUBSET S : iter[s] = Body(iter)[s]
  <2> HIDE DEF iter, Body
  <2> QED
    BY <1>4
<1> HIDE DEF iter
<1>6. Products(S, w, iter)
  <2>1. iter[{}] = 1
    BY <1>5
  <2>2. ASSUME NEW s \in SUBSET S, s # {}
        PROVE  \E x \in s : iter[s] = w[x] * iter[s \ {x}]
    <3> DEFINE x == CHOOSE x \in s : TRUE
    <3>1. x \in s /\ x \in S
      BY <1>2, <2>2
    <3>2. iter[s] = w[x] * iter[s \ {x}]
      BY <1>5, <2>2
    <3> HIDE DEF x
    <3> QED
      BY <3>1, <3>2
  <2> QED
    BY <2>1, <2>2 DEF Products
<1> QED
  BY <1>1, <1>6

(* And likewise of a sum. *)
LEMMA ValuesAreSummed ==
  ASSUME NEW S, IsFiniteSet(S), NEW w, DOMAIN w = S, \A x \in S : w[x] \in Nat
  PROVE  \E g : Sums(S, w, g) /\ SumFunction(w) = g[S]
<1> DEFINE pick == [s \in SUBSET S |-> CHOOSE x \in s : TRUE]
           step == [p \in S \X Nat |-> w[p[1]] + p[2]]
           Body(f) == [s \in SUBSET S |-> IF s = {} THEN 0
                         ELSE LET x == CHOOSE x \in s : TRUE IN w[x] + f[s \ {x}]]
           iter == CHOOSE f : f = Body(f)
<1>1. SumFunction(w) = iter[S]
  BY DEF SumFunction, SumFunctionOnSet, FoldFunctionOnSet, MapThenFoldSet
<1>2. \A s \in SUBSET S : s # {} => (CHOOSE x \in s : TRUE) \in s /\ pick[s] = CHOOSE x \in s : TRUE
  OBVIOUS
<1>3. step \in [S \X Nat -> Nat] /\ \A x \in S, k \in Nat : step[<<x, k>>] = w[x] + k
  OBVIOUS
<1>4. iter = Body(iter)
  <2>1. \A s \in SUBSET S : s # {} => pick[s] \in s
    BY <1>2
  <2> HIDE DEF pick, step
  <2>2. PICK g \in [SUBSET S -> Nat] : FoldsBy(S, 0, pick, step, g)
    BY <1>3, <2>1, FoldExists
  <2>3. \A s \in SUBSET S : g[s] = Body(g)[s]
    <3> SUFFICES ASSUME NEW s \in SUBSET S, s # {}
                 PROVE  g[s] = LET x == CHOOSE x \in s : TRUE IN w[x] + g[s \ {x}]
      BY <2>2 DEF FoldsBy
    <3> DEFINE x == CHOOSE x \in s : TRUE
    <3>1. x \in S /\ pick[s] = x /\ g[s \ {x}] \in Nat
      BY <1>2, <2>2
    <3> HIDE DEF x
    <3>2. g[s] = step[<<x, g[s \ {x}]>>]
      BY <2>2, <3>1 DEF FoldsBy
    <3>3. g[s] = w[x] + g[s \ {x}]
      BY <1>3, <3>1, <3>2
    <3> QED
      BY <3>3 DEF x
  <2>4. g = Body(g)
    <3>1. g = [s \in SUBSET S |-> g[s]] /\ Body(g) = [s \in SUBSET S |-> Body(g)[s]]
      BY <2>2
    <3> HIDE DEF Body
    <3> QED
      BY <2>3, <3>1
  <2> HIDE DEF Body
  <2> QED
    BY <2>4
<1>5. \A s \in SUBSET S : iter[s] = Body(iter)[s]
  <2> HIDE DEF iter, Body
  <2> QED
    BY <1>4
<1> HIDE DEF iter
<1>6. Sums(S, w, iter)
  <2>1. iter[{}] = 0
    BY <1>5
  <2>2. ASSUME NEW s \in SUBSET S, s # {}
        PROVE  \E x \in s : iter[s] = w[x] + iter[s \ {x}]
    <3> DEFINE x == CHOOSE x \in s : TRUE
    <3>1. x \in s /\ x \in S
      BY <1>2, <2>2
    <3>2. iter[s] = w[x] + iter[s \ {x}]
      BY <1>5, <2>2
    <3> HIDE DEF x
    <3> QED
      BY <3>1, <3>2
  <2> QED
    BY <2>1, <2>2 DEF Sums
<1> QED
  BY <1>1, <1>6

(* A function without one of its arguments. *)
Without(w, x) == [y \in DOMAIN w \ {x} |-> w[y]]

(* A product of positive factors is positive, and any factor can be taken  *)
(* out of it.                                                              *)
LEMMA ProductOf ==
  ASSUME NEW S, IsFiniteSet(S), NEW w, DOMAIN w = S, \A x \in S : w[x] \in Nat
  PROVE  /\ Product(w) \in Nat
         /\ (\A x \in S : w[x] > 0) => Product(w) > 0
         /\ \A x \in S : Product(w) = w[x] * Product(Without(w, x))
<1>1. PICK g : Products(S, w, g) /\ Product(w) = g[S]
  BY ValuesAreMultiplied
<1>2. \A s \in SUBSET S : g[s] \in Nat /\ \A x \in s : g[s] = w[x] * g[s \ {x}]
  <2>1. Products(S, w, g)
    BY <1>1
  <2>2. IsFiniteSet(S) /\ \A x \in S : w[x] \in Nat
    OBVIOUS
  <2> QED
    BY ONLY <2>1, <2>2, ProductFacts
<1>3. S \in SUBSET S
  OBVIOUS
<1>4. ASSUME \A x \in S : w[x] > 0 PROVE g[S] > 0
  <2> DEFINE Sizes == {n \in Nat : \E s \in SUBSET S : Cardinality(s) = n /\ ~(g[s] > 0)}
  <2>1. \A s \in SUBSET S : IsFiniteSet(s) /\ Cardinality(s) \in Nat
    BY FS_Subset, FS_CardinalityType
  <2>2. ASSUME Sizes # {} PROVE FALSE
    <3>1. PICK n \in Sizes : \A y \in Sizes : n <= y
      BY <2>2, LeastOfNaturals
    <3>2. PICK s \in SUBSET S : Cardinality(s) = n /\ ~(g[s] > 0)
      BY <3>1
    <3>3. s # {}
      <4>1. g[{}] = 1
        BY <1>1 DEF Products
      <4> QED
        BY <3>2, <4>1
    <3>4. PICK x \in s : TRUE
      BY <3>3
    <3>5. s \ {x} \in SUBSET S /\ Cardinality(s \ {x}) = Cardinality(s) - 1
      BY <2>1, FS_RemoveElement
    <3>6. n \in Nat /\ Cardinality(s \ {x}) \in Nat /\ n - 1 \notin Sizes
      BY <2>1, <3>1, <3>5
    <3>7. g[s \ {x}] > 0
      BY <3>2, <3>5, <3>6
    <3>8. g[s] = w[x] * g[s \ {x}] /\ g[s \ {x}] \in Nat /\ w[x] \in Nat /\ w[x] > 0
      BY <1>2, <1>4, <3>5
    <3>9. w[x] * g[s \ {x}] > 0
      BY <3>7, <3>8, TimesFacts
    <3> QED
      BY <3>2, <3>8, <3>9
  <2>3. Cardinality(S) \in Nat /\ Cardinality(S) \notin Sizes
    BY <2>1, <2>2, <1>3
  <2> QED
    BY <1>3, <2>3
<1>5. ASSUME NEW x \in S PROVE g[S \ {x}] = Product(Without(w, x))
  <2> DEFINE T == S \ {x}
             v == [y \in T |-> w[y]]
  <2>1. IsFiniteSet(T) /\ T \in SUBSET S /\ DOMAIN v = T
        /\ (\A y \in T : v[y] = w[y]) /\ (\A y \in T : v[y] \in Nat)
    BY FS_Subset
  <2> HIDE DEF T, v
  <2>2. PICK h : Products(T, v, h) /\ Product(v) = h[T]
    BY <2>1, ValuesAreMultiplied
  <2>3. g[T] = h[T]
    BY <1>1, <2>1, <2>2, ProductsAgree
  <2> QED
    BY <2>2, <2>3 DEF T, v, Without
<1> QED
  BY <1>1, <1>2, <1>3, <1>4, <1>5

-----------------------------------------------------------------------------
(* One level of the basis: how far the value is from the knots around it,  *)
(* and what is made of the level below.                                    *)
Left(K, span, value, l)  == value - K[span + 1 - l]
Right(K, span, value, l) == K[span + l] - value

(* The knots that a weight of the level below is spread between.           *)
Width(K, span, value, level, j) ==
  Right(K, span, value, j + 1) + Left(K, span, value, level - j)

(* A weight of the level below, over the common denominator.               *)
Term(K, span, value, level, below, j) ==
  below[j] * Product([i \in (0..level - 1) \ {j} |-> Width(K, span, value, level, i)])

(* The weights of a level.                                                 *)
Level(K, span, value, level, below) ==
  [j \in 0..level |->
     (IF j > 0
      THEN Left(K, span, value, level - j + 1) * Term(K, span, value, level, below, j - 1)
      ELSE 0)
     + (IF j < level
        THEN Right(K, span, value, j + 1) * Term(K, span, value, level, below, j)
        ELSE 0)]

Widths(K, span, value, level) == [j \in 0..level - 1 |-> Width(K, span, value, level, j)]

(* The value is in a span that is not empty, and farther from the knots    *)
(* that are farther from the span.                                         *)
Spanned(K, span, value, n) ==
  /\ \A l \in 1..n : /\ Left(K, span, value, l) \in Nat /\ Right(K, span, value, l) \in Nat
                     /\ Left(K, span, value, 1) <= Left(K, span, value, l)
                     /\ Right(K, span, value, 1) <= Right(K, span, value, l)
  /\ Left(K, span, value, 1) + Right(K, span, value, 1) > 0

(* No width vanishes. *)
LEMMA WidthFacts ==
  ASSUME NEW K, NEW span, NEW value, NEW level \in Nat \ {0}, Spanned(K, span, value, level)
  PROVE  /\ \A j \in 0..level - 1 : Width(K, span, value, level, j) \in Nat
                                    /\ Width(K, span, value, level, j) > 0
         /\ DOMAIN Widths(K, span, value, level) = 0..level - 1
         /\ Product(Widths(K, span, value, level)) \in Nat
         /\ Product(Widths(K, span, value, level)) > 0
<1>1. ASSUME NEW j \in 0..level - 1
      PROVE  Width(K, span, value, level, j) \in Nat /\ Width(K, span, value, level, j) > 0
  <2>1. j + 1 \in 1..level /\ level - j \in 1..level /\ 1 \in 1..level
    OBVIOUS
  <2> DEFINE L(l) == Left(K, span, value, l)
             R(l) == Right(K, span, value, l)
  <2>2. /\ L(1) \in Nat /\ R(1) \in Nat /\ L(level - j) \in Nat /\ R(j + 1) \in Nat
        /\ L(1) <= L(level - j) /\ R(1) <= R(j + 1) /\ L(1) + R(1) > 0
    BY <2>1 DEF Spanned
  <2>3. Width(K, span, value, level, j) = R(j + 1) + L(level - j)
    BY DEF Width
  <2> HIDE DEF L, R
  <2> QED
    BY <2>2, <2>3
<1>2. IsFiniteSet(0..level - 1)
  BY FS_Interval
<1> DEFINE w == Widths(K, span, value, level)
<1>3. DOMAIN w = 0..level - 1 /\ \A j \in 0..level - 1 : w[j] = Width(K, span, value, level, j)
  BY DEF Widths
<1> HIDE DEF w
<1>4. Product(w) \in Nat /\ Product(w) > 0
  BY <1>1, <1>2, <1>3, ProductOf
<1> QED
  BY <1>1, <1>3, <1>4 DEF w

(* The terms of a level: none is negative, the weight of a coefficient of  *)
(* the level below is shared by two of this one.                           *)
LEMMA TermFacts ==
  ASSUME NEW K, NEW span, NEW value, NEW level \in Nat \ {0}, Spanned(K, span, value, level),
         NEW below \in [0..level - 1 -> Nat], NEW j \in 0..level - 1
  PROVE  /\ Term(K, span, value, level, below, j) \in Nat
         /\ below[j] > 0 => Term(K, span, value, level, below, j) > 0
         /\ Left(K, span, value, level - j) * Term(K, span, value, level, below, j)
              + Right(K, span, value, j + 1) * Term(K, span, value, level, below, j)
            = below[j] * Product(Widths(K, span, value, level))
<1> DEFINE D == 0..level - 1
           W(i) == Width(K, span, value, level, i)
           w == Widths(K, span, value, level)
           rest == [i \in D \ {j} |-> W(i)]
           L == Left(K, span, value, level - j)
           R == Right(K, span, value, j + 1)
           t == Term(K, span, value, level, below, j)
<1>1. \A i \in D : W(i) \in Nat /\ W(i) > 0
  BY WidthFacts
<1>2. DOMAIN w = D /\ \A i \in D : w[i] = W(i)
  BY DEF Widths
<1>3. t = below[j] * Product(rest)
  BY DEF Term
<1>4. IsFiniteSet(D) /\ IsFiniteSet(D \ {j}) /\ j \in D
  <2>1. IsFiniteSet(D) /\ D \ {j} \in SUBSET D
    BY FS_Interval
  <2>2. IsFiniteSet(D \ {j})
    BY <2>1, FS_Subset
  <2> QED
    BY <2>1, <2>2
<1>5. W(j) = R + L
  BY DEF Width
<1>6. L \in Nat /\ R \in Nat
  <2>1. j + 1 \in 1..level /\ level - j \in 1..level
    OBVIOUS
  <2> QED
    BY <2>1 DEF Spanned
<1>7. below[j] \in Nat
  OBVIOUS
<1>8. rest = Without(w, j)
  BY <1>2 DEF Without
<1>9. DOMAIN rest = D \ {j} /\ \A i \in D \ {j} : rest[i] \in Nat /\ rest[i] > 0
  BY <1>1
<1> HIDE DEF W, w, rest, D, L, R, t
<1>10. Product(rest) \in Nat /\ Product(rest) > 0
  BY <1>4, <1>9, ProductOf
<1>11. \A x \in D : Product(w) = w[x] * Product(Without(w, x))
  <2>1. \A i \in D : w[i] \in Nat
    BY <1>1, <1>2
  <2>2. IsFiniteSet(D) /\ DOMAIN w = D
    BY <1>2, <1>4
  <2> QED
    BY ONLY <2>1, <2>2, ProductOf
<1>12. Product(w) = W(j) * Product(rest)
  BY <1>2, <1>4, <1>8, <1>11
<1>13. t \in Nat /\ (below[j] > 0 => t > 0)
  BY <1>3, <1>7, <1>10, TimesFacts
<1>14. L * t + R * t = below[j] * Product(w)
  <2>1. \A a, b, c, d \in Nat : a * (c * d) + b * (c * d) = c * ((b + a) * d)
    OBVIOUS
  <2> QED
    BY <1>3, <1>5, <1>6, <1>7, <1>10, <1>12, <2>1
<1> QED
  BY <1>13, <1>14 DEF L, R, t, w

(* g adds up the values of w on 0..k, for each k up to n.                  *)
AddsUp(n, w, g) ==
  /\ g[0] = w[0]
  /\ \A k \in 0..n : g[k] \in Nat
  /\ \A k \in 1..n : g[k] = w[k] + g[k - 1]

(* A sum over an interval, number by number. *)
LEMMA SumByNumber ==
  ASSUME NEW n \in Nat, NEW w, DOMAIN w = 0..n, \A k \in 0..n : w[k] \in Nat
  PROVE  \E g : AddsUp(n, w, g) /\ SumFunction(w) = g[n]
<1> DEFINE S == 0..n
<1>1. IsFiniteSet(S)
  BY FS_Interval
<1>2. IsFiniteSet(S) /\ DOMAIN w = S /\ \A x \in S : w[x] \in Nat
  BY <1>1
<1>3. /\ \A k \in S : 0..k \in SUBSET S /\ k \in 0..k /\ (0..k) \ {k} = 0..(k - 1)
      /\ S \in SUBSET S /\ 0 \in S /\ w[0] \in Nat /\ \A k \in 1..n : k \in S
  OBVIOUS
<1>4. 0..(0 - 1) = {}
  OBVIOUS
<1>5. PICK f : Sums(S, w, f) /\ SumFunction(w) = f[S]
  BY <1>2, ValuesAreSummed
<1>6. \A s \in SUBSET S : f[s] \in Nat /\ \A x \in s : f[s] = w[x] + f[s \ {x}]
  <2>1. IsFiniteSet(S) /\ (\A x \in S : w[x] \in Nat) /\ Sums(S, w, f)
    BY <1>2, <1>5
  <2> HIDE DEF S
  <2> QED
    BY ONLY <2>1, SumFacts
<1>7. f[{}] = 0
  BY <1>5 DEF Sums
<1> DEFINE g == [k \in S |-> f[0..k]]
<1> HIDE DEF S
<1>8. \A k \in S : f[0..k] \in Nat /\ f[0..k] = w[k] + f[(0..k) \ {k}]
  BY ONLY <1>3, <1>6
<1>9. \A k \in S : f[0..k] = w[k] + f[0..(k - 1)]
  BY ONLY <1>3, <1>8
<1>10. g[0] = w[0]
  <2>1. f[0..0] = w[0] + f[0..(0 - 1)]
    BY <1>3, <1>9
  <2>2. f[0..(0 - 1)] = 0
    BY <1>4, <1>7
  <2> QED
    BY <1>3, <2>1, <2>2
<1>11. \A k \in 1..n : g[k] = w[k] + g[k - 1]
  <2>1. \A k \in 1..n : k \in S /\ k - 1 \in S
    BY DEF S
  <2> QED
    BY <1>9, <2>1
<1>12. \A k \in S : g[k] \in Nat
  BY <1>8
<1>13. n \in S /\ 0..n = S
  BY DEF S
<1>14. SumFunction(w) = g[n]
  BY <1>5, <1>13
<1> HIDE DEF g
<1>15. AddsUp(n, w, g)
  BY <1>10, <1>11, <1>12 DEF AddsUp, S
<1> QED
  BY <1>14, <1>15

(* A level has no negative weights, and adds up to what the level below    *)
(* does, times its widths.                                                 *)
LEMMA LevelFacts ==
  ASSUME NEW K, NEW span, NEW value, NEW level \in Nat \ {0}, Spanned(K, span, value, level),
         NEW below \in [0..level - 1 -> Nat],
         NEW h, h = Level(K, span, value, level, below)
  PROVE  /\ h \in [0..level -> Nat]
         /\ SumFunction(h) = SumFunction(below) * Product(Widths(K, span, value, level))
         /\ \A j \in 0..level - 1 :
              Right(K, span, value, j + 1) > 0 /\ below[j] > 0 => h[j] > 0
         /\ \A j \in 1..level :
              Left(K, span, value, level - j + 1) > 0 /\ below[j - 1] > 0 => h[j] > 0
<1> DEFINE L(l) == Left(K, span, value, l)
           R(l) == Right(K, span, value, l)
           T(j) == Term(K, span, value, level, below, j)
           W == Product(Widths(K, span, value, level))
           lift(j) == IF j > 0 THEN L(level - j + 1) * T(j - 1) ELSE 0
           stay(j) == IF j < level THEN R(j + 1) * T(j) ELSE 0
<1>1. \A j \in 0..level - 1 :
        /\ T(j) \in Nat /\ (below[j] > 0 => T(j) > 0)
        /\ L(level - j) * T(j) + R(j + 1) * T(j) = below[j] * W
  BY TermFacts
<1>2. W \in Nat
  BY WidthFacts
<1>3. \A l \in 1..level : L(l) \in Nat /\ R(l) \in Nat
  BY DEF Spanned
<1>4. h = [j \in 0..level |-> lift(j) + stay(j)]
  BY DEF Level
<1> HIDE DEF L, R, T, W
<1>5. ASSUME NEW j \in 0..level
      PROVE  /\ lift(j) \in Nat /\ stay(j) \in Nat
             /\ j > 0 => lift(j) = L(level - j + 1) * T(j - 1)
             /\ j > 0 /\ L(level - j + 1) > 0 /\ below[j - 1] > 0 => lift(j) > 0
             /\ j < level /\ R(j + 1) > 0 /\ below[j] > 0 => stay(j) > 0
  <2>3. /\ stay(j) \in Nat
        /\ j < level /\ R(j + 1) > 0 /\ below[j] > 0 => stay(j) > 0
    <3>1. CASE j < level
      <4>1. j + 1 \in 1..level /\ j \in 0..level - 1
        BY <3>1
      <4>2. R(j + 1) \in Nat /\ T(j) \in Nat /\ (below[j] > 0 => T(j) > 0)
        BY <1>1, <1>3, <4>1
      <4>3. R(j + 1) * T(j) \in Nat /\ (R(j + 1) > 0 /\ T(j) > 0 => R(j + 1) * T(j) > 0)
        BY <4>2, TimesFacts
      <4> QED
        BY <3>1, <4>2, <4>3
    <3>2. CASE ~(j < level)
      BY <3>2
    <3> QED
      BY <3>1, <3>2
  <2>1. CASE j > 0
    <3>1. level - j + 1 \in 1..level /\ j - 1 \in 0..level - 1
      BY <2>1
    <3>2. L(level - j + 1) \in Nat /\ T(j - 1) \in Nat /\ (below[j - 1] > 0 => T(j - 1) > 0)
      BY <1>1, <1>3, <3>1
    <3>3. L(level - j + 1) * T(j - 1) \in Nat
          /\ (L(level - j + 1) > 0 /\ T(j - 1) > 0 => L(level - j + 1) * T(j - 1) > 0)
      BY <3>2, TimesFacts
    <3> QED
      BY <2>1, <3>2, <3>3, <2>3
  <2>2. CASE j = 0
    BY <2>2, <2>3
  <2> QED
    BY <2>1, <2>2
<1>6. \A j \in 0..level : h[j] = lift(j) + stay(j)
  BY <1>4
<1>7. stay(level) = 0 /\ lift(0) = 0
  OBVIOUS
<1>8. \A j \in 0..level - 1 : lift(j + 1) + stay(j) = below[j] * W
  <2> SUFFICES ASSUME NEW j \in 0..level - 1 PROVE lift(j + 1) + stay(j) = below[j] * W
    OBVIOUS
  <2>1. j + 1 > 0 /\ level - (j + 1) + 1 = level - j /\ (j + 1) - 1 = j /\ j < level
    OBVIOUS
  <2> QED
    BY <1>1, <2>1
<1> HIDE DEF lift, stay
<1>9. h \in [0..level -> Nat]
  BY <1>4, <1>5, SMTT(30)
<1>10. SumFunction(h) = SumFunction(below) * W
  <2>1. PICK g : AddsUp(level, h, g) /\ SumFunction(h) = g[level]
    <3>1. level \in Nat /\ DOMAIN h = 0..level /\ \A k \in 0..level : h[k] \in Nat
      BY <1>9
    <3> QED
      BY ONLY <3>1, SumByNumber
  <2>2. PICK b : AddsUp(level - 1, below, b) /\ SumFunction(below) = b[level - 1]
    <3>1. /\ level - 1 \in Nat /\ DOMAIN below = 0..(level - 1)
          /\ \A k \in 0..(level - 1) : below[k] \in Nat
      OBVIOUS
    <3> QED
      BY ONLY <3>1, SumByNumber
  <2>a. /\ g[0] = h[0] /\ \A k \in 0..level : g[k] \in Nat
        /\ \A k \in 1..level : g[k] = h[k] + g[k - 1]
    BY <2>1 DEF AddsUp
  <2>b. /\ b[0] = below[0] /\ \A k \in 0..(level - 1) : b[k] \in Nat
        /\ \A k \in 1..(level - 1) : b[k] = below[k] + b[k - 1]
    BY <2>2 DEF AddsUp
  <2> DEFINE Bad == {k \in Nat : k <= level /\ k > 0 /\ ~(g[k] = b[k - 1] * W + stay(k))}
  <2>3. \A k \in 0..level - 1 : below[k] \in Nat
    OBVIOUS
  <2>4. g[1] = b[1 - 1] * W + stay(1)
    <3>1. 0 \in 0..level /\ 1 \in 1..level /\ 1 \in 0..level /\ 0 \in 0..level - 1 /\ 1 - 1 = 0
          /\ 0 + 1 = 1
      OBVIOUS
    <3>2. g[1] = h[1] + h[0]
      BY <2>a, <3>1
    <3>3. h[1] = lift(1) + stay(1) /\ h[0] = stay(0)
      BY <1>5, <1>6, <1>7, <3>1
    <3>4. lift(1) + stay(0) = below[0] * W
      BY <1>8, <3>1
    <3>5. lift(1) \in Nat /\ stay(1) \in Nat /\ stay(0) \in Nat
      BY <1>5, <3>1
    <3>6. b[1 - 1] = below[0]
      BY <2>b
    <3> DEFINE p == below[0] * W
    <3>7. lift(1) + stay(0) = p
      BY <3>4
    <3> HIDE DEF p
    <3>8. g[1] = p + stay(1)
      BY <3>2, <3>3, <3>5, <3>7
    <3> QED
      BY <3>6, <3>8 DEF p
  <2>5. ASSUME NEW k \in Nat, k > 1, k <= level,
               g[k - 1] = b[(k - 1) - 1] * W + stay(k - 1)
        PROVE  g[k] = b[k - 1] * W + stay(k)
    <3>1. k \in 1..level /\ k \in 0..level /\ k - 1 \in 0..level - 1 /\ k - 1 \in 1..(level - 1)
          /\ (k - 1) + 1 = k /\ k - 1 \in 0..level /\ (k - 1) - 1 \in 0..(level - 1)
      BY <2>5
    <3>2. g[k] = lift(k) + stay(k) + g[k - 1]
      BY <1>6, <2>a, <3>1
    <3>3. lift(k) + stay(k - 1) = below[k - 1] * W
      BY <1>8, <3>1
    <3>4. b[k - 1] = below[k - 1] + b[(k - 1) - 1]
      BY <2>b, <3>1
    <3>5. lift(k) \in Nat /\ stay(k) \in Nat /\ stay(k - 1) \in Nat
      BY <1>5, <3>1
    <3> DEFINE x == b[(k - 1) - 1]
    <3>6. x \in Nat /\ below[k - 1] \in Nat
      BY <2>b, <2>3, <3>1
    <3>7. g[k] = lift(k) + stay(k) + (x * W + stay(k - 1))
      BY <2>5, <3>2
    <3>8. b[k - 1] = below[k - 1] + x
      BY <3>4
    <3> HIDE DEF x
    <3>9. (below[k - 1] + x) * W = below[k - 1] * W + x * W /\ below[k - 1] * W \in Nat
          /\ x * W \in Nat
      <4>1. \A p, q, r \in Nat : (p + q) * r = p * r + q * r
        OBVIOUS
      <4> QED
        BY <1>2, <3>6, <4>1, TimesFacts
    <3> QED
      BY <3>3, <3>5, <3>7, <3>8, <3>9
  <2>6. ASSUME Bad # {} PROVE FALSE
    <3>1. PICK k \in Bad : \A y \in Bad : k <= y
      BY <2>6, LeastOfNaturals
    <3>2. k \in Nat /\ k <= level /\ k > 0 /\ ~(g[k] = b[k - 1] * W + stay(k))
      BY <3>1
    <3>3. k # 1
      BY <2>4, <3>2
    <3>4. k - 1 \in Nat /\ k - 1 <= level /\ k - 1 > 0 /\ ~(k <= k - 1)
      BY <3>2, <3>3
    <3>5. k - 1 \notin Bad
      BY <3>1, <3>4
    <3>6. g[k - 1] = b[(k - 1) - 1] * W + stay(k - 1)
      BY <3>4, <3>5
    <3> HIDE DEF Bad
    <3> QED
      BY <2>5, <3>2, <3>3, <3>6
  <2>7. g[level] = b[level - 1] * W + stay(level)
    <3>1. level \in Nat /\ level <= level /\ level > 0
      OBVIOUS
    <3> QED
      BY <2>6, <3>1
  <2>8. b[level - 1] * W \in Nat
    <3>1. level - 1 \in 0..(level - 1)
      OBVIOUS
    <3> QED
      BY <1>2, <2>b, <3>1, TimesFacts
  <2> HIDE DEF Bad
  <2> QED
    BY <1>7, <2>1, <2>2, <2>7, <2>8
<1>11. \A j \in 0..level - 1 : R(j + 1) > 0 /\ below[j] > 0 => h[j] > 0
  <2> SUFFICES ASSUME NEW j \in 0..level - 1, R(j + 1) > 0, below[j] > 0 PROVE h[j] > 0
    OBVIOUS
  <2>1. j \in 0..level /\ j < level
    OBVIOUS
  <2>2. h[j] = lift(j) + stay(j) /\ lift(j) \in Nat /\ stay(j) \in Nat /\ stay(j) > 0
    BY <1>5, <1>6, <2>1
  <2> QED
    BY <2>2
<1>12. \A j \in 1..level : L(level - j + 1) > 0 /\ below[j - 1] > 0 => h[j] > 0
  <2> SUFFICES ASSUME NEW j \in 1..level, L(level - j + 1) > 0, below[j - 1] > 0 PROVE h[j] > 0
    OBVIOUS
  <2>1. j \in 0..level /\ j > 0
    OBVIOUS
  <2>2. h[j] = lift(j) + stay(j) /\ lift(j) \in Nat /\ stay(j) \in Nat /\ lift(j) > 0
    BY <1>5, <1>6, <2>1
  <2> QED
    BY <2>2
<1> QED
  BY <1>9, <1>10, <1>11, <1>12 DEF L, R, W

(* The weights of each level up to the last.                               *)
Triangle(K, span, value, n, g) ==
  /\ g[0] = [j \in {0} |-> 1]
  /\ \A l \in 1..n : g[l] = Level(K, span, value, l, g[l - 1])

(* What is spanned at a level is spanned at those below.                   *)
LEMMA SpannedBelow ==
  ASSUME NEW K, NEW span, NEW value, NEW n \in Nat, Spanned(K, span, value, n), NEW l \in 0..n
  PROVE  Spanned(K, span, value, l)
<1>1. \A i \in 1..l : i \in 1..n
  OBVIOUS
<1> QED
  BY <1>1 DEF Spanned

(* Each level of the triangle has one weight more, and none is negative.   *)
LEMMA TriangleShape ==
  ASSUME NEW K, NEW span, NEW value, NEW n \in Nat, Spanned(K, span, value, n),
         NEW g, Triangle(K, span, value, n, g)
  PROVE  \A l \in 0..n : g[l] \in [0..l -> Nat]
<1> DEFINE Bad == {l \in Nat : l <= n /\ g[l] \notin [0..l -> Nat]}
<1>1. ASSUME Bad # {} PROVE FALSE
  <2>1. PICK l \in Bad : \A y \in Bad : l <= y
    BY <1>1, LeastOfNaturals
  <2>2. l \in Nat /\ l <= n /\ g[l] \notin [0..l -> Nat]
    BY <2>1
  <2>3. l # 0
    <3>1. g[0] \in [0..0 -> Nat]
      <4>1. 0..0 = {0} /\ g[0] = [j \in {0} |-> 1]
        BY DEF Triangle
      <4> QED
        BY <4>1
    <3> QED
      BY <2>2, <3>1
  <2>4. l - 1 \in Nat /\ l - 1 <= n /\ ~(l <= l - 1) /\ l \in 1..n /\ l \in Nat \ {0} /\ l \in 0..n
    BY <2>2, <2>3
  <2>5. g[l - 1] \in [0..l - 1 -> Nat]
    BY <2>1, <2>4
  <2>6. Spanned(K, span, value, l)
    BY <2>4, SpannedBelow
  <2>7. g[l] = Level(K, span, value, l, g[l - 1])
    BY <2>4 DEF Triangle
  <2> QED
    BY <2>2, <2>4, <2>5, <2>6, <2>7, LevelFacts
<1> QED
  BY <1>1

(* The recursion of the code has a result.                                 *)
LEMMA TriangleExists ==
  ASSUME NEW K, NEW span, NEW value, NEW n \in Nat, Spanned(K, span, value, n)
  PROVE  \E g : Triangle(K, span, value, n, g) /\ g = [l \in 0..n |-> g[l]]
<1> DEFINE W == UNION {[0..l -> Nat] : l \in Nat}
           base == [j \in {0} |-> 1]
           step == [p \in (1..n) \X W |->
                      IF p[2] \in [0..p[1] - 1 -> Nat] THEN Level(K, span, value, p[1], p[2])
                      ELSE base]
<1>1. base \in [0..0 -> Nat] /\ base \in W
  <2>1. 0..0 = {0}
    OBVIOUS
  <2>2. base \in [0..0 -> Nat]
    BY <2>1
  <2> QED
    BY <2>2
<1>2. ASSUME NEW l \in 1..n, NEW below \in [0..l - 1 -> Nat]
      PROVE  Level(K, span, value, l, below) \in [0..l -> Nat]
  <2>1. l \in Nat \ {0} /\ l \in 0..n
    OBVIOUS
  <2>2. Spanned(K, span, value, l)
    BY <2>1, SpannedBelow
  <2> QED
    BY <2>1, <2>2, LevelFacts
<1>3. \A l \in Nat : \A f \in [0..l -> Nat] : f \in W
  OBVIOUS
<1>4. step \in [(1..n) \X W -> W]
  <2> SUFFICES ASSUME NEW l \in 1..n, NEW f \in W PROVE step[<<l, f>>] \in W
    BY SMTT(30)
  <2>1. CASE f \in [0..l - 1 -> Nat]
    <3>1. step[<<l, f>>] = Level(K, span, value, l, f)
      BY <2>1
    <3>2. l \in Nat
      OBVIOUS
    <3> QED
      BY <1>2, <1>3, <2>1, <3>1, <3>2
  <2>2. CASE f \notin [0..l - 1 -> Nat]
    BY <1>1, <2>2
  <2> QED
    BY <2>1, <2>2
<1>5. \A l \in 1..n : \A f \in [0..l - 1 -> Nat] : step[<<l, f>>] = Level(K, span, value, l, f)
  <2> SUFFICES ASSUME NEW l \in 1..n, NEW f \in [0..l - 1 -> Nat]
               PROVE  step[<<l, f>>] = Level(K, span, value, l, f)
    OBVIOUS
  <2>1. l - 1 \in Nat
    OBVIOUS
  <2>2. f \in W
    BY <1>3, <2>1
  <2> QED
    BY <2>2
<1> HIDE DEF step, W
<1>a. PICK g \in [0..n -> W] : Recurs(n, base, step, g)
  BY <1>1, <1>4, RecursionExists
<1>6. g[0] = base /\ \A k \in 1..n : g[k] = step[<<k, g[k - 1]>>]
  BY <1>a DEF Recurs
<1> HIDE DEF base
<1> DEFINE Bad == {l \in Nat : l <= n /\ g[l] \notin [0..l -> Nat]}
<1>7. ASSUME Bad # {} PROVE FALSE
  <2>1. PICK l \in Bad : \A y \in Bad : l <= y
    BY <1>7, LeastOfNaturals
  <2>2. l \in Nat /\ l <= n /\ g[l] \notin [0..l -> Nat]
    BY <2>1
  <2>3. l # 0
    BY <1>1, <1>6, <2>2
  <2>4. l - 1 \in Nat /\ l - 1 <= n /\ ~(l <= l - 1) /\ l \in 1..n
    BY <2>2, <2>3
  <2>5. g[l - 1] \in [0..l - 1 -> Nat]
    BY <2>1, <2>4
  <2>6. g[l] = Level(K, span, value, l, g[l - 1])
    BY <1>5, <1>6, <2>4, <2>5
  <2> QED
    BY <1>2, <2>2, <2>4, <2>5, <2>6
<1>8. \A l \in 1..n : g[l] = Level(K, span, value, l, g[l - 1])
  <2> SUFFICES ASSUME NEW l \in 1..n PROVE g[l] = Level(K, span, value, l, g[l - 1])
    OBVIOUS
  <2>1. l - 1 \in Nat /\ l - 1 <= n
    OBVIOUS
  <2>2. g[l - 1] \in [0..l - 1 -> Nat]
    BY <1>7, <2>1
  <2> QED
    BY <1>5, <1>6, <2>2
<1>9. Triangle(K, span, value, n, g)
  BY <1>6, <1>8 DEF Triangle, base
<1> QED
  BY <1>6, <1>9

(* The weights the code returns are those of the last level.               *)
WeightsFrom(K, span, value, order, n, g) ==
  Triangle(K, span, value, n, g) /\ Basis(K, span, value, order).weights = g[n]

(* What a level of the triangle is made of in the code.                    *)
LEMMA BasisIsTriangle ==
  ASSUME NEW K, NEW span, NEW value, NEW order \in Nat \ {0},
         NEW n, n = order - 1, Spanned(K, span, value, n)
  PROVE  /\ \E g : WeightsFrom(K, span, value, order, n, g)
         /\ Basis(K, span, value, order).total
              = Product([l \in 1..n |-> Product(Widths(K, span, value, l))])
<1> DEFINE left(l)         == value - K[span + 1 - l]
           right(l)        == K[span + l] - value
           width(level, j) == right(j + 1) + left(level - j)
           widths(level)   == [j \in 0..level - 1 |-> width(level, j)]
           others(level, j) == Product([i \in (0..level - 1) \ {j} |-> width(level, i)])
           Body(b) ==
             [level \in 0..order - 1 |->
                IF level = 0 THEN [j \in {0} |-> 1]
                ELSE LET term(j) == b[level - 1][j] * others(level, j)
                     IN  [j \in 0..level |->
                            (IF j > 0 THEN left(level - j + 1) * term(j - 1) ELSE 0)
                            + (IF j < level THEN right(j + 1) * term(j) ELSE 0)]]
           basis == CHOOSE b : b = Body(b)
<1>1. /\ Basis(K, span, value, order).weights = basis[order - 1]
      /\ Basis(K, span, value, order).total
           = Product([level \in 1..order - 1 |-> Product(widths(level))])
  BY DEF Basis
<1>2. \A level, j : others(level, j) = Product([i \in (0..level - 1) \ {j} |-> Width(K, span, value, level, i)])
  BY DEF Width, Left, Right
<1>3. \A level : widths(level) = Widths(K, span, value, level)
  BY DEF Widths, Width, Left, Right
<1>4. \A level \in 1..order - 1 : \A b : Body(b)[level] = Level(K, span, value, level, b[level - 1])
  BY DEF Level, Term, Width, Left, Right
<1>5. \A b : Body(b)[0] = [j \in {0} |-> 1] /\ DOMAIN Body(b) = 0..order - 1
             /\ Body(b) = [level \in 0..order - 1 |-> Body(b)[level]]
  OBVIOUS
<1>6. order - 1 \in Nat
  OBVIOUS
<1>7. PICK g : Triangle(K, span, value, order - 1, g) /\ g = [l \in 0..order - 1 |-> g[l]]
  BY <1>6, TriangleExists
<1>8. \A level \in 0..order - 1 : g[level] = Body(g)[level]
  <2> SUFFICES ASSUME NEW level \in 0..order - 1 PROVE g[level] = Body(g)[level]
    OBVIOUS
  <2>1. CASE level = 0
    BY <1>5, <1>7, <2>1 DEF Triangle
  <2>2. CASE level # 0
    <3>1. level \in 1..order - 1
      BY <2>2
    <3> QED
      BY <1>4, <1>7, <3>1, ZenonT(60) DEF Triangle
  <2> QED
    BY <2>1, <2>2
<1> HIDE DEF Body
<1>9. g = Body(g)
  BY <1>5, <1>7, <1>8
<1>10. basis = Body(basis)
  BY <1>9
<1> HIDE DEF basis
<1>11. Triangle(K, span, value, order - 1, basis)
  <2>1. \A level \in 0..order - 1 : basis[level] = Body(basis)[level]
    BY <1>10
  <2>2. basis[0] = [j \in {0} |-> 1]
    <3>1. 0 \in 0..order - 1
      OBVIOUS
    <3> QED
      BY <1>5, <2>1, <3>1
  <2>3. \A l \in 1..order - 1 : basis[l] = Level(K, span, value, l, basis[l - 1])
    <3>1. \A l \in 1..order - 1 : l \in 0..order - 1
      OBVIOUS
    <3> QED
      BY <1>4, <2>1, <3>1
  <2> QED
    BY <2>2, <2>3 DEF Triangle
<1> QED
  BY <1>1, <1>3, <1>11 DEF WeightsFrom

(* Each level adds up to the widths of the levels so far. *)
LEMMA TriangleSums ==
  ASSUME NEW K, NEW span, NEW value, NEW n \in Nat, Spanned(K, span, value, n),
         NEW g, Triangle(K, span, value, n, g),
         NEW wide, wide = [l \in 1..n |-> Product(Widths(K, span, value, l))]
  PROVE  SumFunction(g[n]) = Product(wide) /\ Product(wide) > 0
<1> DEFINE upto(l) == [i \in 1..l |-> Product(Widths(K, span, value, i))]
           P(l) == Product(upto(l))
           Bad == {l \in Nat : l <= n /\ ~(SumFunction(g[l]) = P(l))}
<1>1. \A l \in 1..n : /\ Product(Widths(K, span, value, l)) \in Nat
                      /\ Product(Widths(K, span, value, l)) > 0
  <2> SUFFICES ASSUME NEW l \in 1..n
               PROVE  /\ Product(Widths(K, span, value, l)) \in Nat
                      /\ Product(Widths(K, span, value, l)) > 0
    OBVIOUS
  <2>1. l \in Nat \ {0} /\ l \in 0..n
    OBVIOUS
  <2>2. Spanned(K, span, value, l)
    BY <2>1, SpannedBelow
  <2> QED
    BY <2>1, <2>2, WidthFacts
<1>2. ASSUME NEW l \in Nat, l <= n
      PROVE  /\ P(l) \in Nat /\ P(l) > 0
             /\ l > 0 => P(l) = Product(Widths(K, span, value, l)) * P(l - 1)
  <2> DEFINE u == upto(l)
             S == 1..l
  <2>1. IsFiniteSet(S) /\ DOMAIN u = S /\ \A x \in S : u[x] \in Nat /\ u[x] > 0
    <3>1. \A x \in S : x \in 1..n
      BY <1>2
    <3>2. IsFiniteSet(S)
      BY FS_Interval
    <3> QED
      BY <1>1, <3>1, <3>2
  <2>2. l > 0 => l \in S /\ S \ {l} = 1..(l - 1) /\ u[l] = Product(Widths(K, span, value, l))
    OBVIOUS
  <2>3. l > 0 => Without(u, l) = upto(l - 1)
    <3> SUFFICES ASSUME l > 0 PROVE Without(u, l) = upto(l - 1)
      OBVIOUS
    <3>1. \A x \in 1..(l - 1) : u[x] = Product(Widths(K, span, value, x))
      OBVIOUS
    <3>2. DOMAIN u \ {l} = 1..(l - 1)
      BY <2>1, <2>2
    <3> HIDE DEF u
    <3> QED
      BY <3>1, <3>2 DEF Without
  <2> HIDE DEF u, S
  <2>4. /\ Product(u) \in Nat /\ Product(u) > 0
        /\ \A x \in S : Product(u) = u[x] * Product(Without(u, x))
    BY <2>1, ProductOf
  <2>5. l > 0 => Product(u) = Product(Widths(K, span, value, l)) * Product(upto(l - 1))
    BY <2>2, <2>3, <2>4
  <2> QED
    BY <2>4, <2>5 DEF u
<1>3. SumFunction(g[0]) = P(0)
  <2>1. 0..0 = {0} /\ 1..0 = {}
    OBVIOUS
  <2> DEFINE one == g[0]
  <2>2. one = [j \in {0} |-> 1]
    BY DEF Triangle
  <2>3. DOMAIN one = 0..0 /\ \A k \in 0..0 : one[k] \in Nat
    BY <2>1, <2>2
  <2>4. one[0] = 1
    BY <2>2
  <2> HIDE DEF one
  <2>5. PICK s : AddsUp(0, one, s) /\ SumFunction(one) = s[0]
    BY <2>3, SumByNumber
  <2>6. SumFunction(one) = 1
    BY <2>4, <2>5 DEF AddsUp
  <2>7. P(0) = 1
    <3> DEFINE u == upto(0)
    <3>1. IsFiniteSet({}) /\ DOMAIN u = {} /\ \A x \in {} : u[x] \in Nat
      BY <2>1, FS_EmptySet
    <3> HIDE DEF u
    <3>2. PICK f : Products({}, u, f) /\ Product(u) = f[{}]
      BY <3>1, ValuesAreMultiplied
    <3>3. Product(u) = 1
      BY <3>2 DEF Products
    <3> QED
      BY <3>3 DEF u
  <2> QED
    BY <2>6, <2>7 DEF one
<1>4. ASSUME NEW l \in 1..n, SumFunction(g[l - 1]) = P(l - 1)
      PROVE  SumFunction(g[l]) = P(l)
  <2>1. l \in Nat \ {0} /\ l \in 0..n /\ l - 1 \in 0..n /\ l - 1 \in Nat /\ l - 1 <= n /\ l <= n
        /\ l > 0
    OBVIOUS
  <2>2. Spanned(K, span, value, l)
    BY <2>1, SpannedBelow
  <2>3. g[l - 1] \in [0..l - 1 -> Nat]
    BY <2>1, TriangleShape
  <2>4. g[l] = Level(K, span, value, l, g[l - 1])
    BY DEF Triangle
  <2>5. SumFunction(g[l]) = SumFunction(g[l - 1]) * Product(Widths(K, span, value, l))
    BY <2>1, <2>2, <2>3, <2>4, LevelFacts
  <2>6. P(l) = Product(Widths(K, span, value, l)) * P(l - 1) /\ P(l - 1) \in Nat
    BY <1>2, <2>1
  <2>7. Product(Widths(K, span, value, l)) \in Nat
    BY <1>1
  <2> DEFINE a == P(l - 1)
             b == Product(Widths(K, span, value, l))
  <2>8. a \in Nat /\ b \in Nat /\ P(l) = b * a /\ SumFunction(g[l]) = a * b
    BY <1>4, <2>5, <2>6, <2>7
  <2> HIDE DEF a, b, P
  <2> QED
    BY <2>8, TimesFacts
<1> HIDE DEF P
<1>5. ASSUME Bad # {} PROVE FALSE
  <2>1. PICK l \in Bad : \A y \in Bad : l <= y
    BY <1>5, LeastOfNaturals
  <2>2. l \in Nat /\ l <= n /\ ~(SumFunction(g[l]) = P(l))
    BY <2>1
  <2>3. l # 0
    BY <1>3, <2>2
  <2>4. l - 1 \in Nat /\ l - 1 <= n /\ ~(l <= l - 1) /\ l \in 1..n
    BY <2>2, <2>3
  <2>5. SumFunction(g[l - 1]) = P(l - 1)
    BY <2>1, <2>4
  <2> QED
    BY <1>4, <2>2, <2>4, <2>5
<1>6. SumFunction(g[n]) = P(n) /\ P(n) > 0
  BY <1>2, <1>5
<1>7. P(n) = Product(wide)
  BY DEF P
<1> QED
  BY <1>6, <1>7

(* Which weights are positive.  On a knot the last one is not, and the     *)
(* others are if the knot is simple.                                       *)
LEMMA TriangleWeights ==
  ASSUME NEW K, NEW span, NEW value, NEW n \in Nat, Spanned(K, span, value, n),
         NEW g, Triangle(K, span, value, n, g)
  PROVE  /\ Right(K, span, value, 1) > 0 => g[n][0] > 0
         /\ Left(K, span, value, 1) > 0 => g[n][n] > 0
         /\ Left(K, span, value, 1) > 0 /\ Right(K, span, value, 1) > 0 =>
              \A j \in 0..n : g[n][j] > 0
         /\ Right(K, span, value, 1) > 0 /\ (n > 1 => Left(K, span, value, 2) > 0) =>
              \A j \in 0..n - 1 : g[n][j] > 0
<1> DEFINE L(l) == Left(K, span, value, l)
           R(l) == Right(K, span, value, l)
           Good(l) ==
             /\ R(1) > 0 => g[l][0] > 0
             /\ L(1) > 0 => g[l][l] > 0
             /\ L(1) > 0 /\ R(1) > 0 => \A j \in 0..l : g[l][j] > 0
             /\ R(1) > 0 /\ (n > 1 => L(2) > 0) => \A j \in 0..l - 1 : g[l][j] > 0
           Bad == {l \in Nat : l <= n /\ ~Good(l)}
<1>1. \A l \in 1..n : /\ L(l) \in Nat /\ R(l) \in Nat /\ L(1) <= L(l) /\ R(1) <= R(l)
                      /\ L(1) \in Nat /\ R(1) \in Nat
  <2>1. \A l \in 1..n : 1 \in 1..n
    OBVIOUS
  <2> QED
    BY <2>1 DEF Spanned
<1>2. Good(0)
  <2>1. g[0] = [j \in {0} |-> 1] /\ 0..0 = {0} /\ 0..0 - 1 = {}
    BY DEF Triangle
  <2> HIDE DEF L, R
  <2> QED
    BY <2>1
<1>3. ASSUME NEW l \in 1..n, Good(l - 1) PROVE Good(l)
  <2>1. l \in Nat \ {0} /\ l \in 0..n /\ l - 1 \in 0..n /\ l - 1 \in 0..l - 1 /\ 0 \in 0..l - 1
        /\ l \in 1..l /\ l - l + 1 = 1 /\ 0 + 1 = 1
    OBVIOUS
  <2>2. Spanned(K, span, value, l)
    BY <2>1, SpannedBelow
  <2>3. g[l - 1] \in [0..l - 1 -> Nat]
    BY <2>1, TriangleShape
  <2>4. g[l] = Level(K, span, value, l, g[l - 1])
    BY DEF Triangle
  <2>5. /\ \A j \in 0..l - 1 : R(j + 1) > 0 /\ g[l - 1][j] > 0 => g[l][j] > 0
        /\ \A j \in 1..l : L(l - j + 1) > 0 /\ g[l - 1][j - 1] > 0 => g[l][j] > 0
    <3> DEFINE h == g[l]
               below == g[l - 1]
    <3>1. below \in [0..l - 1 -> Nat] /\ h = Level(K, span, value, l, below)
      BY <2>3, <2>4
    <3> HIDE DEF h, below
    <3>2. /\ \A j \in 0..l - 1 :
                Right(K, span, value, j + 1) > 0 /\ below[j] > 0 => h[j] > 0
          /\ \A j \in 1..l :
                Left(K, span, value, l - j + 1) > 0 /\ below[j - 1] > 0 => h[j] > 0
      BY <2>1, <2>2, <3>1, LevelFacts, ZenonT(60)
    <3> QED
      BY <3>2 DEF h, below
  <2>6. \A j \in 0..l - 1 : R(1) > 0 => R(j + 1) > 0
    <3>1. \A j \in 0..l - 1 : j + 1 \in 1..n
      OBVIOUS
    <3> HIDE DEF L, R
    <3> QED
      BY <1>1, <3>1
  <2> HIDE DEF L, R
  <2>7. R(1) > 0 => g[l][0] > 0
    BY <1>3, <2>1, <2>5, <2>6
  <2>8. L(1) > 0 => g[l][l] > 0
    BY <1>3, <2>1, <2>5
  <2>9. ASSUME L(1) > 0, R(1) > 0, NEW j \in 0..l PROVE g[l][j] > 0
    <3>1. CASE j = l
      BY <2>8, <2>9, <3>1
    <3>2. CASE j # l
      <4>1. j \in 0..l - 1
        BY <3>2
      <4> QED
        BY <1>3, <2>5, <2>6, <2>9, <4>1
    <3> QED
      BY <3>1, <3>2
  <2>10. ASSUME R(1) > 0, n > 1 => L(2) > 0, NEW j \in 0..l - 1 PROVE g[l][j] > 0
    <3>1. CASE j \in 0..(l - 1) - 1
      BY <1>3, <2>5, <2>6, <2>10, <3>1
    <3>2. CASE j = l - 1 /\ l = 1
      BY <2>7, <2>10, <3>2
    <3>3. CASE j = l - 1 /\ l > 1
      <4>1. j \in 1..l /\ l - j + 1 = 2 /\ j - 1 \in 0..(l - 1) - 1 /\ n > 1
        BY <3>3
      <4> QED
        BY <1>3, <2>5, <2>10, <4>1
    <3>4. j \in 0..(l - 1) - 1 \/ (j = l - 1 /\ l = 1) \/ (j = l - 1 /\ l > 1)
      OBVIOUS
    <3> QED
      BY <3>1, <3>2, <3>3, <3>4
  <2> QED
    BY <2>7, <2>8, <2>9, <2>10
<1> HIDE DEF Good
<1>4. ASSUME Bad # {} PROVE FALSE
  <2>1. PICK l \in Bad : \A y \in Bad : l <= y
    BY <1>4, LeastOfNaturals
  <2>2. l \in Nat /\ l <= n /\ ~Good(l)
    BY <2>1
  <2>3. l # 0
    BY <1>2, <2>2
  <2>4. l - 1 \in Nat /\ l - 1 <= n /\ ~(l <= l - 1) /\ l \in 1..n
    BY <2>2, <2>3
  <2>5. Good(l - 1)
    BY <2>1, <2>4
  <2> QED
    BY <1>3, <2>2, <2>4, <2>5
<1>5. Good(n)
  BY <1>4
<1> QED
  BY <1>5 DEF Good

(* What a basis is, wherever a value is found in a span.                   *)
BasisGood(K, span, value, order, b) ==
  /\ b.weights \in [0..order - 1 -> Nat]
  /\ SumFunction(b.weights) = b.total /\ b.total > 0
  /\ Right(K, span, value, 1) > 0 => b.weights[0] > 0
  /\ Left(K, span, value, 1) > 0 => b.weights[order - 1] > 0
  /\ Left(K, span, value, 1) > 0 /\ Right(K, span, value, 1) > 0 =>
       \A j \in 0..order - 1 : b.weights[j] > 0
  /\ Right(K, span, value, 1) > 0 /\ (order > 2 => Left(K, span, value, 2) > 0) =>
       \A j \in 0..order - 2 : b.weights[j] > 0

(* The basis is good wherever the value is in a span that is not empty.    *)
LEMMA BasisFacts ==
  ASSUME NEW K, NEW span, NEW value, NEW order \in Nat \ {0}, Spanned(K, span, value, order - 1)
  PROVE  BasisGood(K, span, value, order, Basis(K, span, value, order))
<1> DEFINE b == Basis(K, span, value, order)
           n == order - 1
           wide == [l \in 1..n |-> Product(Widths(K, span, value, l))]
<1>b. n = order - 1 /\ Spanned(K, span, value, n)
  OBVIOUS
<1>1. PICK g : WeightsFrom(K, span, value, order, n, g)
  <2> HIDE DEF n
  <2> QED
    BY <1>b, BasisIsTriangle
<1>2. b.total = Product(wide)
  BY BasisIsTriangle
<1>a. Triangle(K, span, value, n, g) /\ b.weights = g[n]
  BY <1>1 DEF WeightsFrom
<1>3. n \in Nat /\ n \in 0..n /\ order - 2 = n - 1 /\ (order > 2) = (n > 1)
  OBVIOUS
<1> HIDE DEF b
<1>4. g[n] \in [0..n -> Nat]
  BY <1>a, <1>3, TriangleShape
<1>5. SumFunction(g[n]) = Product(wide) /\ Product(wide) > 0
  BY <1>a, <1>3, TriangleSums
<1>6. /\ Right(K, span, value, 1) > 0 => g[n][0] > 0
      /\ Left(K, span, value, 1) > 0 => g[n][n] > 0
      /\ Left(K, span, value, 1) > 0 /\ Right(K, span, value, 1) > 0 =>
           \A j \in 0..n : g[n][j] > 0
      /\ Right(K, span, value, 1) > 0 /\ (n > 1 => Left(K, span, value, 2) > 0) =>
           \A j \in 0..n - 1 : g[n][j] > 0
  BY <1>a, <1>3, TriangleWeights
<1> HIDE DEF wide, n
<1>7. n = order - 1
  BY DEF n
<1> QED
  BY <1>a, <1>2, <1>3, <1>4, <1>5, <1>6, <1>7 DEF BasisGood, b

-----------------------------------------------------------------------------
(* The span of a value: what the bisection finds.                          *)

(* The last knot of low..high-1 that is at most the value, or else low.    *)
LastBelow(K, value, low, high) ==
  CHOOSE i \in low..high - 1 :
    /\ i = low \/ K[i] <= value
    /\ \A j \in i + 1..high - 1 : ~(K[j] <= value)

(* What the bisection finds between two knots. *)
Found(K, value, low, high) ==
  IF high - low <= 1 THEN low ELSE LastBelow(K, value, low, high)

(* Knots that never fall.                                                  *)
Sorted(K) == \A i, j \in 1..Len(K) : i <= j => K[i] <= K[j]

(* It is found. *)
LEMMA LastBelowFacts ==
  ASSUME NEW K, NEW value \in Int, NEW low \in Int, NEW high \in Int, low < high,
         \A i \in low..high - 1 : K[i] \in Int,
         NEW r, r = LastBelow(K, value, low, high)
  PROVE  /\ r \in low..high - 1
         /\ r = low \/ K[r] <= value
         /\ \A j \in r + 1..high - 1 : ~(K[j] <= value)
<1> DEFINE Fits(i) == i = low \/ K[i] <= value
           Back == {d \in Nat : high - 1 - d \in low..high - 1 /\ Fits(high - 1 - d)}
<1>1. high - 1 - low \in Back
  OBVIOUS
<1>2. PICK d \in Back : \A y \in Back : d <= y
  BY <1>1, LeastOfNaturals
<1> DEFINE i == high - 1 - d
<1>3. i \in low..high - 1 /\ Fits(i) /\ d \in Nat
  BY <1>2
<1>4. ASSUME NEW j \in i + 1..high - 1 PROVE ~(K[j] <= value)
  <2>1. high - 1 - j \in Nat /\ ~(d <= high - 1 - j) /\ high - 1 - (high - 1 - j) = j
        /\ j \in low..high - 1
    BY <1>3
  <2>2. high - 1 - j \notin Back
    BY <1>2, <2>1
  <2> QED
    BY <2>1, <2>2
<1> HIDE DEF i
<1>5. \E k \in low..high - 1 : /\ k = low \/ K[k] <= value
                               /\ \A j \in k + 1..high - 1 : ~(K[j] <= value)
  BY <1>3, <1>4
<1> QED
  BY <1>5 DEF LastBelow

(* There is only one. *)
LEMMA LastBelowUnique ==
  ASSUME NEW K, NEW value \in Int, NEW low \in Int, NEW high \in Int, low < high,
         \A i \in low..high - 1 : K[i] \in Int,
         NEW r \in low..high - 1, r = low \/ K[r] <= value,
         \A j \in r + 1..high - 1 : ~(K[j] <= value)
  PROVE  r = LastBelow(K, value, low, high)
<1> DEFINE q == LastBelow(K, value, low, high)
<1>1. /\ q \in low..high - 1
      /\ q = low \/ K[q] <= value
      /\ \A j \in q + 1..high - 1 : ~(K[j] <= value)
  BY LastBelowFacts
<1> HIDE DEF q
<1>2. ~(q < r)
  <2> SUFFICES ASSUME q < r PROVE FALSE
    OBVIOUS
  <2>1. r \in q + 1..high - 1 /\ r # low
    BY <1>1
  <2> QED
    BY <1>1, <2>1
<1>3. ~(r < q)
  <2> SUFFICES ASSUME r < q PROVE FALSE
    OBVIOUS
  <2>1. q \in r + 1..high - 1 /\ q # low
    BY <1>1
  <2> QED
    BY <1>1, <2>1
<1> QED
  BY <1>1, <1>2, <1>3 DEF q

(* Bisection finds it among sorted knots: either half that is searched has *)
(* the same one.                                                           *)
LEMMA HalfFound ==
  ASSUME NEW K \in Seq(Int), Sorted(K), NEW value \in Int,
         NEW low \in 1..Len(K), NEW high \in 1..Len(K), ~(high - low <= 1),
         NEW middle, middle = (low + high) \div 2
  PROVE  /\ middle \in low + 1..high - 1
         /\ value < K[middle] => Found(K, value, low, high) = Found(K, value, low, middle)
         /\ ~(value < K[middle]) => Found(K, value, low, high) = Found(K, value, middle, high)
<1>1. low \in Int /\ high \in Int /\ low < high /\ \A i \in 1..Len(K) : K[i] \in Int
  BY LenProperties
<1>2. middle \in low + 1..high - 1
  BY <1>1
<1>3. \A i \in low..high - 1 : i \in 1..Len(K) /\ K[i] \in Int
  BY <1>1
<1>4. \A i, j \in low..high - 1 : i <= j => K[i] <= K[j]
  BY <1>3 DEF Sorted
<1> DEFINE r == LastBelow(K, value, low, high)
<1>5. Found(K, value, low, high) = r
  BY DEF Found
<1>6. /\ r \in low..high - 1
      /\ r = low \/ K[r] <= value
      /\ \A j \in r + 1..high - 1 : ~(K[j] <= value)
  BY <1>1, <1>3, LastBelowFacts
<1> HIDE DEF r
<1>7. ASSUME value < K[middle] PROVE r = Found(K, value, low, middle)
  <2>1. middle \in low..high - 1 /\ K[middle] \in Int /\ middle \in Int
    BY <1>1, <1>2, <1>3
  <2>2. r < middle
    <3> SUFFICES ASSUME ~(r < middle) PROVE FALSE
      OBVIOUS
    <3>1. r # low /\ K[r] <= value /\ middle <= r
      BY <1>1, <1>2, <1>6
    <3>2. K[middle] <= K[r] /\ K[r] \in Int
      BY <1>3, <1>4, <1>6, <2>1, <3>1
    <3> QED
      BY <1>7, <2>1, <3>1, <3>2
  <2>3. CASE middle - low <= 1
    <3>1. r = low
      BY <1>1, <1>2, <1>6, <2>2, <2>3
    <3> QED
      BY <2>3, <3>1 DEF Found
  <2>4. CASE ~(middle - low <= 1)
    <3>1. low < middle /\ \A i \in low..middle - 1 : K[i] \in Int
      BY <1>1, <1>2, <1>3
    <3>2. r \in low..middle - 1 /\ \A j \in r + 1..middle - 1 : ~(K[j] <= value)
      BY <1>1, <1>2, <1>6, <2>2
    <3>3. r = LastBelow(K, value, low, middle)
      BY <1>1, <1>6, <2>1, <3>1, <3>2, LastBelowUnique
    <3> QED
      BY <2>4, <3>3 DEF Found
  <2> QED
    BY <2>3, <2>4
<1>8. ASSUME ~(value < K[middle]) PROVE r = Found(K, value, middle, high)
  <2>1. middle \in low..high - 1 /\ K[middle] \in Int /\ middle \in Int /\ K[middle] <= value
    BY <1>1, <1>2, <1>3, <1>8
  <2>2. middle <= r
    <3> SUFFICES ASSUME ~(middle <= r) PROVE FALSE
      OBVIOUS
    <3>1. middle \in r + 1..high - 1
      BY <1>1, <1>2, <1>6
    <3> QED
      BY <1>6, <2>1, <3>1
  <2>3. CASE high - middle <= 1
    <3>1. r = middle
      BY <1>1, <1>2, <1>6, <2>2, <2>3
    <3> QED
      BY <2>3, <3>1 DEF Found
  <2>4. CASE ~(high - middle <= 1)
    <3>1. middle < high /\ \A i \in middle..high - 1 : K[i] \in Int
      BY <1>1, <1>2, <1>3
    <3>2. r \in middle..high - 1 /\ (r = middle \/ K[r] <= value)
      BY <1>1, <1>2, <1>6, <2>2
    <3>3. r = LastBelow(K, value, middle, high)
      BY <1>1, <1>6, <2>1, <3>1, <3>2, LastBelowUnique, SMTT(30)
    <3> QED
      BY <2>4, <3>3 DEF Found
  <2> QED
    BY <2>3, <2>4
<1> QED
  BY <1>2, <1>5, <1>7, <1>8

(* The search of the code is a recursion that ends, and finds it. *)
LEMMA SearchFinds ==
  ASSUME NEW K \in Seq(Int), Sorted(K), NEW value \in Int, NEW order \in Nat \ {0},
         NEW end, end = Len(K) - order + 1, end <= Len(K), order < end, value < K[end]
  PROVE  KnotSpan(K, value, order) = Found(K, value, order, end)
<1> DEFINE D == (order..end) \X (order..end)
           Body(s) == [bounds \in D |->
             LET low    == bounds[1]
                 high   == bounds[2]
                 middle == (low + high) \div 2
             IN  IF high - low <= 1 THEN low
                 ELSE IF value < K[middle] THEN s[<<low, middle>>]
                 ELSE s[<<middle, high>>]]
           search == CHOOSE s : s = Body(s)
           g == [bounds \in D |-> Found(K, value, bounds[1], bounds[2])]
<1>1. end \in Int /\ Len(K) \in Nat /\ \A i \in 1..Len(K) : K[i] \in Int
  BY LenProperties
<1>2. KnotSpan(K, value, order) = search[<<order, end>>]
  <2>1. K[end] \in Int /\ ~(value >= K[end])
    BY <1>1
  <2> QED
    BY <2>1 DEF KnotSpan
<1>3. order \in order..end /\ end \in order..end /\ <<order, end>> \in D
  BY <1>1
<1> DEFINE Solves(s) ==
             \A low, high \in order..end :
               /\ high - low <= 1 => s[<<low, high>>] = low
               /\ ~(high - low <= 1) =>
                    s[<<low, high>>] = IF value < K[(low + high) \div 2]
                                       THEN s[<<low, (low + high) \div 2>>]
                                       ELSE s[<<(low + high) \div 2, high>>]
<1>4. ASSUME NEW s, s = Body(s) PROVE Solves(s)
  <2> SUFFICES ASSUME NEW low \in order..end, NEW high \in order..end
      PROVE  /\ high - low <= 1 => s[<<low, high>>] = low
             /\ ~(high - low <= 1) =>
                  s[<<low, high>>] = IF value < K[(low + high) \div 2]
                                     THEN s[<<low, (low + high) \div 2>>]
                                     ELSE s[<<(low + high) \div 2, high>>]
    BY DEF Solves
  <2>1. <<low, high>> \in D
    BY SMTT(30)
  <2>2. s[<<low, high>>] = Body(s)[<<low, high>>]
    BY <1>4, Zenon
  <2> QED
    BY <2>1, <2>2
<1> HIDE DEF Solves
<1>5. ASSUME NEW low \in order..end, NEW high \in order..end
      PROVE  g[<<low, high>>] = Body(g)[<<low, high>>]
  <2>1. low \in 1..Len(K) /\ high \in 1..Len(K) /\ <<low, high>> \in D
        /\ g[<<low, high>>] = Found(K, value, low, high)
    BY <1>1, SMTT(30)
  <2> DEFINE middle == (low + high) \div 2
  <2>2. CASE high - low <= 1
    BY <2>1, <2>2 DEF Found
  <2>3. CASE ~(high - low <= 1)
    <3>1. /\ middle \in low + 1..high - 1
          /\ value < K[middle] => Found(K, value, low, high) = Found(K, value, low, middle)
          /\ ~(value < K[middle]) => Found(K, value, low, high) = Found(K, value, middle, high)
      <4>1. middle = (low + high) \div 2
        OBVIOUS
      <4> HIDE DEF middle, g, Body, D
      <4> QED
        BY ONLY <2>1, <2>3, <4>1, HalfFound, K \in Seq(Int), Sorted(K), value \in Int
    <3>2. middle \in order..end
      BY <1>1, <3>1
    <3>3. /\ <<low, middle>> \in D /\ <<middle, high>> \in D
          /\ g[<<low, middle>>] = Found(K, value, low, middle)
          /\ g[<<middle, high>>] = Found(K, value, middle, high)
      BY <3>2
    <3>4. Body(g)[<<low, high>>] = IF value < K[middle] THEN g[<<low, middle>>]
                                   ELSE g[<<middle, high>>]
      <4>1. <<low, high>>[1] = low /\ <<low, high>>[2] = high
        OBVIOUS
      <4> HIDE DEF g
      <4> QED
        BY <2>1, <2>3, <4>1
    <3> HIDE DEF g, Body, D, middle
    <3> QED
      BY <2>1, <3>1, <3>3, <3>4
  <2> QED
    BY <2>2, <2>3
<1>6. g = Body(g)
  <2>1. \A bounds \in D : g[bounds] = Body(g)[bounds]
    <3> SUFFICES ASSUME NEW bounds \in D PROVE g[bounds] = Body(g)[bounds]
      OBVIOUS
    <3>1. bounds = <<bounds[1], bounds[2]>> /\ bounds[1] \in order..end /\ bounds[2] \in order..end
      OBVIOUS
    <3> HIDE DEF g, Body
    <3> QED
      BY <1>5, <3>1, ZenonT(60)
  <2>2. Body(g) = [bounds \in D |-> Body(g)[bounds]] /\ g = [bounds \in D |-> g[bounds]]
    OBVIOUS
  <2> HIDE DEF g, Body, D
  <2> QED
    BY <2>1, <2>2
<1>7. search = Body(search)
  <2> HIDE DEF g, Body
  <2> QED
    BY <1>6
<1> HIDE DEF search
<1>a. \A low, high \in order..end :
        /\ high - low <= 1 => search[<<low, high>>] = low
        /\ ~(high - low <= 1) =>
             search[<<low, high>>] = IF value < K[(low + high) \div 2]
                                     THEN search[<<low, (low + high) \div 2>>]
                                     ELSE search[<<(low + high) \div 2, high>>]
  <2>1. Solves(search)
    <3> HIDE DEF Body
    <3> QED
      BY <1>4, <1>7
  <2> QED
    BY <2>1 DEF Solves
(* The interval shrinks, so two solutions agree. *)
<1> DEFINE Bad == {d \in Nat : \E low, high \in order..end :
                     /\ high - low = d
                     /\ search[<<low, high>>] # Found(K, value, low, high)}
<1>8. ASSUME Bad # {} PROVE FALSE
  <2>1. PICK d \in Bad : \A y \in Bad : d <= y
    BY <1>8, LeastOfNaturals
  <2>2. PICK low, high \in order..end :
          high - low = d /\ search[<<low, high>>] # Found(K, value, low, high)
    BY <2>1
  <2>3. CASE high - low <= 1
    <3>1. search[<<low, high>>] = low
      BY <1>a, <2>3
    <3> QED
      BY <2>2, <2>3, <3>1 DEF Found
  <2>4. CASE ~(high - low <= 1)
    <3> DEFINE middle == (low + high) \div 2
    <3>1. low \in 1..Len(K) /\ high \in 1..Len(K) /\ low \in Int /\ high \in Int /\ d \in Nat
      BY <1>1, <2>1
    <3>2. /\ middle \in low + 1..high - 1
          /\ value < K[middle] => Found(K, value, low, high) = Found(K, value, low, middle)
          /\ ~(value < K[middle]) => Found(K, value, low, high) = Found(K, value, middle, high)
      <4>1. middle = (low + high) \div 2
        OBVIOUS
      <4> HIDE DEF middle
      <4> QED
        BY ONLY <2>4, <3>1, <4>1, HalfFound, K \in Seq(Int), Sorted(K), value \in Int
    <3>3. search[<<low, high>>] = IF value < K[middle] THEN search[<<low, middle>>]
                                  ELSE search[<<middle, high>>]
      BY <1>a, <2>4
    <3> HIDE DEF middle
    <3>4. /\ middle \in order..end
          /\ middle - low \in Nat /\ ~(d <= middle - low)
          /\ high - middle \in Nat /\ ~(d <= high - middle)
      <4>1. low \in Int /\ high \in Int /\ d \in Nat /\ high - low = d /\ order <= low /\ high <= end
            /\ order \in Int /\ end \in Int
        BY <1>1, <2>2, <3>1
      <4>2. middle \in Int /\ low + 1 <= middle /\ middle <= high - 1
        BY <3>2, <4>1
      <4> QED
        BY ONLY <4>1, <4>2
    <3>5. middle - low \notin Bad /\ high - middle \notin Bad
      BY <2>1, <3>4
    <3>6. /\ search[<<low, middle>>] = Found(K, value, low, middle)
          /\ search[<<middle, high>>] = Found(K, value, middle, high)
      BY <3>4, <3>5
    <3> QED
      BY <2>2, <3>2, <3>3, <3>6
  <2> QED
    BY <2>3, <2>4
<1>9. end - order \in Nat
  BY <1>1
<1>10. search[<<order, end>>] = Found(K, value, order, end)
  <2> SUFFICES ASSUME search[<<order, end>>] # Found(K, value, order, end) PROVE FALSE
    OBVIOUS
  <2>1. end - order \in Bad
    BY <1>3, <1>9
  <2> QED
    BY <1>8, <2>1
<1> QED
  BY <1>2, <1>10

(* Where a value is found: between two knots that differ, and below the    *)
(* second unless it is the upper bound.                                    *)
SpanFound(K, value, order, end, span) ==
  /\ span \in order..end - 1
  /\ K[span] <= value /\ value <= K[span + 1] /\ K[span] < K[span + 1]
  /\ value < K[end] => value < K[span + 1]
  /\ value = K[end] => span = end - 1

(* The bisection finds it so.                                              *)
LEMMA SpanFacts ==
  ASSUME NEW K \in Seq(Int), Sorted(K), NEW value \in Int, NEW order \in Nat \ {0},
         NEW end, end = Len(K) - order + 1, order < end, K[end - 1] < K[end],
         K[order] <= value, value <= K[end]
  PROVE  SpanFound(K, value, order, end, KnotSpan(K, value, order))
<1> DEFINE r == KnotSpan(K, value, order)
<1>1. /\ end \in Int /\ Len(K) \in Nat /\ \A i \in 1..Len(K) : K[i] \in Int
      /\ end <= Len(K) /\ order \in 1..Len(K) /\ end \in 1..Len(K) /\ end - 1 \in 1..Len(K)
  BY LenProperties
<1>2. CASE value >= K[end]
  <2>1. r = end - 1
    BY <1>2 DEF KnotSpan
  <2> HIDE DEF r
  <2>2. value = K[end] /\ (end - 1) + 1 = end /\ K[end - 1] \in Int
    BY <1>1, <1>2
  <2>3. r \in order..end - 1
    BY <1>1, <2>1
  <2>4. K[r] <= value /\ value <= K[r + 1] /\ K[r] < K[r + 1] /\ ~(value < K[end])
    BY <1>1, <2>1, <2>2
  <2> QED
    BY <2>1, <2>3, <2>4 DEF SpanFound, r
<1>3. CASE ~(value >= K[end])
  <2>0. value < K[end]
    BY <1>1, <1>3
  <2>1. r = Found(K, value, order, end)
    BY <1>1, <2>0, SearchFinds
  <2> HIDE DEF r
  <2>2. /\ r \in order..end - 1
        /\ r = order \/ K[r] <= value
        /\ \A j \in r + 1..end - 1 : ~(K[j] <= value)
    <3>1. CASE end - order <= 1
      BY <1>1, <2>1, <3>1 DEF Found
    <3>2. CASE ~(end - order <= 1)
      <4>1. r = LastBelow(K, value, order, end)
        BY <2>1, <3>2 DEF Found
      <4>2. \A i \in order..end - 1 : K[i] \in Int
        BY <1>1
      <4>3. order \in Int /\ end \in Int
        BY <1>1
      <4> QED
        BY <4>1, <4>2, <4>3, LastBelowFacts, SMTT(30)
    <3> QED
      BY <3>1, <3>2
  <2>3. K[r] <= value
    BY <2>2
  <2>4. value < K[r + 1]
    <3>1. CASE r = end - 1
      <4>1. r + 1 = end
        BY <1>1, <3>1
      <4> QED
        BY <2>0, <4>1
    <3>2. CASE r # end - 1
      <4>0. r \in Int /\ order <= r /\ r <= end - 1 /\ r # end - 1 /\ end <= Len(K)
            /\ end \in Int /\ Len(K) \in Nat
        BY <1>1, <2>2, <3>2
      <4>1. r + 1 \in r + 1..end - 1 /\ r + 1 \in 1..Len(K)
        BY ONLY <4>0
      <4>2. ~(K[r + 1] <= value) /\ K[r + 1] \in Int
        BY <1>1, <2>2, <4>1
      <4> QED
        BY <4>2
    <3> QED
      BY <3>1, <3>2
  <2>5. r \in 1..Len(K) /\ r + 1 \in 1..Len(K)
    BY <1>1, <2>2
  <2>6. K[r] \in Int /\ K[r + 1] \in Int /\ K[end] \in Int
    BY <1>1, <2>5
  <2>7. value <= K[r + 1] /\ K[r] < K[r + 1] /\ ~(value = K[end])
    BY <2>0, <2>3, <2>4, <2>6, SMTT(30)
  <2> QED
    BY <2>2, <2>3, <2>4, <2>7 DEF SpanFound, r
<1> QED
  BY <1>2, <1>3

-----------------------------------------------------------------------------
(* The knots of an axis that may be evaluated: they never fall, and none   *)
(* but the repeated bounds lies on a bound.                                *)
AxisKnots(axis, order, K, n) ==
  /\ order \in Nat \ {0}
  /\ KnotsClamp(axis, order, K, n)
  /\ axis.lower \in Int /\ axis.upper \in Int /\ axis.lower < axis.upper
  /\ Sorted(K)
  /\ \A i \in order + 1..order + n : axis.lower < K[i] /\ K[i] < axis.upper

(* A bound that is repeated exactly order times is in no other place.      *)
LEMMA BoundsAreOut ==
  ASSUME NEW order \in Nat \ {0}, NEW K \in Seq(Int), NEW v \in Int,
         Multiplicity(K, v) = order, NEW S \in SUBSET (1..Len(K)),
         Cardinality(S) = order, \A i \in S : K[i] = v
  PROVE  \A i \in 1..Len(K) : K[i] = v => i \in S
<1> DEFINE T == {i \in DOMAIN K : K[i] = v}
<1>1. Cardinality(T) = order
  BY DEF Multiplicity
<1>2. DOMAIN K = 1..Len(K) /\ Len(K) \in Nat
  BY LenProperties
<1>3. IsFiniteSet(T)
  <2>1. IsFiniteSet(1..Len(K)) /\ T \subseteq 1..Len(K)
    BY <1>2, FS_Interval
  <2> QED
    BY <2>1, FS_Subset
<1>4. S \subseteq T
  BY <1>2
<1> HIDE DEF T
<1>5. S = T
  BY <1>1, <1>3, <1>4, FS_Subset
<1> QED
  BY <1>2, <1>5 DEF T

(* What is valid as an axis has such knots.                                *)
LEMMA ClampedKnots ==
  ASSUME NEW axis, axis.lower \in Int, axis.upper \in Int, axis.interior \in Seq(Int),
         NEW order \in Nat \ {0}, NEW K, K = KnotVector(axis, order),
         NEW n, n = Len(axis.interior), AxisValid(K, CoefficientCount(axis, order), order)
  PROVE  AxisKnots(axis, order, K, n)
<1>1. KnotsClamp(axis, order, K, n)
  BY KnotsAre
<1>2. /\ n \in Nat /\ K \in Seq(Int) /\ Len(K) = n + order + order
      /\ K[1] = axis.lower /\ K[order] = axis.lower
      /\ K[n + order + 1] = axis.upper /\ K[Len(K)] = axis.upper
  BY <1>1 DEF KnotsClamp
<1>3. /\ DOMAIN K = 1..Len(K)
      /\ \A i \in 1..Len(K) : K[i] \in Int /\ K[i] \in ToSet(K)
  BY <1>2, LenProperties DEF ToSet
<1>4. Sorted(K)
  <2>1. \A i \in 2..Len(K) : K[i - 1] <= K[i]
    BY DEF AxisValid, KnotsReadable
  <2> QED
    BY <1>2, <2>1, KnotsSorted DEF Sorted
<1>5. axis.lower < axis.upper
  <2>1. Support(K, order).lo < Support(K, order).hi
    BY DEF AxisValid
  <2> QED
    BY <2>1, AxisReadBack
<1>6. 1 \in 1..Len(K) /\ Len(K) \in 1..Len(K) /\ order \in 1..Len(K) /\ n + order + 1 \in 1..Len(K)
  BY <1>2, SMTT(30)
<1>7. Multiplicity(K, axis.lower) = order /\ Multiplicity(K, axis.upper) = order
  <2>1. Head(K) = axis.lower /\ Last(K) = axis.upper
    BY <1>2 DEF Last
  <2>2. axis.lower \in ToSet(K) /\ axis.upper \in ToSet(K)
    BY <1>2, <1>3, <1>6
  <2> QED
    BY <2>1, <2>2 DEF AxisValid
<1>8. /\ 1..order \subseteq 1..Len(K) /\ Cardinality(1..order) = order
      /\ n + order + 1..Len(K) \subseteq 1..Len(K)
      /\ Cardinality(n + order + 1..Len(K)) = order
  <2>1. Cardinality(1..order) = IF 1 > order THEN 0 ELSE order - 1 + 1
    BY FS_Interval
  <2>2. Cardinality(n + order + 1..Len(K)) =
          IF n + order + 1 > Len(K) THEN 0 ELSE Len(K) - (n + order + 1) + 1
    <3> DEFINE b == n + order + 1
               e == Len(K)
    <3>1. b \in Int /\ e \in Int
      BY <1>2
    <3> HIDE DEF b, e
    <3>2. Cardinality(b..e) = IF b > e THEN 0 ELSE e - b + 1
      BY <3>1, FS_Interval
    <3> QED
      BY <3>2 DEF b, e
  <2> QED
    BY <1>2, <2>1, <2>2
<1>9. \A i \in 1..order : K[i] = axis.lower
  <2> SUFFICES ASSUME NEW i \in 1..order PROVE K[i] = axis.lower
    OBVIOUS
  <2>1. i \in 1..Len(K) /\ 1 <= i /\ i <= order
    BY <1>8
  <2>2. K[1] <= K[i] /\ K[i] <= K[order]
    BY <1>4, <1>6, <2>1 DEF Sorted
  <2> QED
    BY <1>2, <1>3, <2>1, <2>2
<1>10. \A i \in n + order + 1..Len(K) : K[i] = axis.upper
  <2> SUFFICES ASSUME NEW i \in n + order + 1..Len(K) PROVE K[i] = axis.upper
    OBVIOUS
  <2>1. i \in 1..Len(K) /\ n + order + 1 <= i /\ i <= Len(K)
    BY <1>2, <1>8
  <2>2. K[n + order + 1] <= K[i] /\ K[i] <= K[Len(K)]
    BY <1>4, <1>6, <2>1 DEF Sorted
  <2> QED
    BY <1>2, <1>3, <2>1, <2>2
<1>11. \A i \in 1..Len(K) : K[i] = axis.lower => i \in 1..order
  <2> DEFINE S == 1..order
  <2>1. S \in SUBSET (1..Len(K)) /\ Cardinality(S) = order /\ \A i \in S : K[i] = axis.lower
    BY <1>8, <1>9
  <2> HIDE DEF S
  <2>2. \A i \in 1..Len(K) : K[i] = axis.lower => i \in S
    BY <1>2, <1>7, <2>1, BoundsAreOut
  <2> QED
    BY <2>2 DEF S
<1>12. \A i \in 1..Len(K) : K[i] = axis.upper => i \in n + order + 1..Len(K)
  <2> DEFINE S == n + order + 1..Len(K)
  <2>1. S \in SUBSET (1..Len(K)) /\ Cardinality(S) = order /\ \A i \in S : K[i] = axis.upper
    BY <1>8, <1>10
  <2> HIDE DEF S
  <2>2. \A i \in 1..Len(K) : K[i] = axis.upper => i \in S
    BY <1>2, <1>7, <2>1, BoundsAreOut
  <2> QED
    BY <2>2 DEF S
<1>13. \A i \in order + 1..order + n : axis.lower < K[i] /\ K[i] < axis.upper
  <2> SUFFICES ASSUME NEW i \in order + 1..order + n
               PROVE  axis.lower < K[i] /\ K[i] < axis.upper
    OBVIOUS
  <2>1. i \in 1..Len(K) /\ order <= i /\ i <= n + order + 1
        /\ i \notin 1..order /\ i \notin n + order + 1..Len(K)
    <3>1. n \in Nat /\ order \in Nat /\ order >= 1 /\ Len(K) = n + order + order
          /\ i \in Int /\ order + 1 <= i /\ i <= order + n
      BY <1>2
    <3> QED
      BY ONLY <3>1
  <2>2. K[order] <= K[i] /\ K[i] <= K[n + order + 1]
    BY <1>4, <1>6, <2>1 DEF Sorted
  <2>3. K[i] # axis.lower /\ K[i] # axis.upper /\ K[i] \in Int
    BY <1>3, <1>11, <1>12, <2>1
  <2> QED
    BY <1>2, <2>2, <2>3, SMTT(30)
<1> QED
  BY <1>1, <1>4, <1>5, <1>13 DEF AxisKnots

(* Wherever a value is within the bounds, its span is found, and the basis *)
(* there is good.                                                          *)
LEMMA AxisBasis ==
  ASSUME NEW axis, NEW order, NEW K, NEW n, AxisKnots(axis, order, K, n),
         NEW value \in Int, axis.lower <= value, value <= axis.upper,
         NEW span, span = KnotSpan(K, value, order)
  PROVE  /\ SpanFound(K, value, order, n + order + 1, span)
         /\ BasisGood(K, span, value, order, Basis(K, span, value, order))
<1> DEFINE end == n + order + 1
<1>1. /\ n \in Nat /\ K \in Seq(Int) /\ Len(K) = n + order + order
      /\ K[order] = axis.lower /\ K[end] = axis.upper
      /\ order \in Nat \ {0} /\ axis.lower < axis.upper /\ Sorted(K)
      /\ axis.lower \in Int /\ axis.upper \in Int
  BY DEF AxisKnots, KnotsClamp
<1>2. end = Len(K) - order + 1 /\ order < end /\ end \in Int
  BY <1>1
<1>3. K[end - 1] < K[end]
  <2>1. CASE n = 0
    <3>1. end - 1 = order
      BY <1>1, <2>1
    <3> QED
      BY <1>1, <3>1
  <2>2. CASE n # 0
    <3>1. end - 1 \in order + 1..order + n
      BY <1>1, <2>2
    <3>2. K[end - 1] < axis.upper
      BY <3>1 DEF AxisKnots
    <3> QED
      BY <1>1, <3>2
  <2> QED
    BY <2>1, <2>2
<1>4. K[order] <= value /\ value <= K[end]
  BY <1>1
<1> HIDE DEF end
<1>5. SpanFound(K, value, order, end, span)
  BY <1>1, <1>2, <1>3, <1>4, SpanFacts
<1>6. /\ span \in order..end - 1 /\ span \in Int
      /\ K[span] <= value /\ value <= K[span + 1] /\ K[span] < K[span + 1]
  BY <1>1, <1>2, <1>5 DEF SpanFound
<1>7. \A i \in 1..Len(K) : K[i] \in Int
  BY <1>1, LenProperties
<1>8. /\ span \in 1..Len(K) /\ span + 1 \in 1..Len(K) /\ order \in Int /\ Len(K) \in Int
      /\ order <= span /\ span <= Len(K) - order
  BY <1>1, <1>2, <1>6
<1>9. K[span] \in Int /\ K[span + 1] \in Int
  BY <1>7, <1>8
<1>10. Spanned(K, span, value, order - 1)
  <2>1. Left(K, span, value, 1) = value - K[span] /\ Right(K, span, value, 1) = K[span + 1] - value
    <3>1. span + 1 - 1 = span
      BY <1>6
    <3> QED
      BY <3>1 DEF Left, Right
  <2>2. Left(K, span, value, 1) + Right(K, span, value, 1) > 0
    BY <1>6, <1>9, <2>1
  <2>3. ASSUME NEW l \in 1..order - 1
        PROVE  /\ Left(K, span, value, l) \in Nat /\ Right(K, span, value, l) \in Nat
               /\ Left(K, span, value, 1) <= Left(K, span, value, l)
               /\ Right(K, span, value, 1) <= Right(K, span, value, l)
    <3>1. /\ span + 1 - l \in 1..Len(K) /\ span + l \in 1..Len(K)
          /\ span + 1 - l <= span /\ span + 1 <= span + l
      BY <1>8
    <3>2. /\ K[span + 1 - l] \in Int /\ K[span + l] \in Int
          /\ K[span + 1 - l] <= K[span] /\ K[span + 1] <= K[span + l]
      BY <1>1, <1>7, <1>8, <3>1 DEF Sorted
    <3>3. /\ Left(K, span, value, l) = value - K[span + 1 - l]
          /\ Right(K, span, value, l) = K[span + l] - value
      BY DEF Left, Right
    <3> DEFINE a == K[span + 1 - l]
               b == K[span + l]
    <3> HIDE DEF a, b
    <3> QED
      BY <1>6, <1>9, <2>1, <3>2, <3>3 DEF a, b
  <2> QED
    BY <2>2, <2>3 DEF Spanned
<1>11. BasisGood(K, span, value, order, Basis(K, span, value, order))
  BY <1>1, <1>10, BasisFacts
<1> QED
  BY <1>5, <1>11 DEF end

-----------------------------------------------------------------------------
(* The coefficients that count at a point, numbered axis by axis.          *)

(* The numbers that "k" and "r" make of digits in base "n". *)
Numbered(A, S, n) == {k + n * r : k \in A, r \in S}

(* They are different for different digits, and below the bounds' product. *)
LEMMA DigitsDiffer ==
  ASSUME NEW n \in Nat, NEW k \in 0..n - 1, NEW j \in 0..n - 1, NEW r \in Nat, NEW q \in Nat,
         k + n * r = j + n * q
  PROVE  k = j /\ r = q
<1>1. ASSUME NEW a \in 0..n - 1, NEW b \in 0..n - 1, NEW x \in Nat, NEW y \in Nat, x < y
      PROVE  a + n * x # b + n * y
  <2> DEFINE d == y - x - 1
  <2>1. d \in Nat /\ y = x + 1 + d
    BY <1>1
  <2> HIDE DEF d
  <2>2. n * y = n * x + n + n * d
    BY <2>1
  <2>3. n * d \in Nat /\ n * x \in Nat /\ n * y \in Nat
    BY <2>1
  <2>4. a \in Int /\ b \in Int /\ 0 <= b /\ a < n
    BY <1>1
  <2> QED
    BY ONLY <2>2, <2>3, <2>4
<1>2. r = q
  <2>1. ~(r < q) /\ ~(q < r)
    BY <1>1
  <2> QED
    BY <2>1
<1>3. n * r \in Nat
  OBVIOUS
<1>4. k = j
  BY <1>2, <1>3
<1> QED
  BY <1>2, <1>4

(* There are as many numbers as pairs of digits.                           *)
LEMMA NumberedFacts ==
  ASSUME NEW n \in Nat, NEW m \in Nat, NEW A \in SUBSET (0..n - 1), NEW S \in SUBSET (0..m - 1)
  PROVE  /\ Numbered(A, S, n) \in SUBSET (0..n * m - 1)
         /\ Cardinality(Numbered(A, S, n)) = Cardinality(A) * Cardinality(S)
<1>1. IsFiniteSet(A) /\ IsFiniteSet(S)
  <2>1. IsFiniteSet(0..n - 1) /\ IsFiniteSet(0..m - 1)
    BY FS_Interval
  <2> QED
    BY <2>1, FS_Subset
<1>2. Cardinality(A \X S) = Cardinality(A) * Cardinality(S) /\ IsFiniteSet(A \X S)
  BY <1>1, FS_Product
<1> DEFINE f == [p \in A \X S |-> p[1] + n * p[2]]
           N == Numbered(A, S, n)
<1>3. \A k \in A : k \in 0..n - 1
  OBVIOUS
<1>a. \A r \in S : r \in Nat /\ r \in 0..m - 1
  OBVIOUS
<1>b. \A p \in A \X S : p[1] \in A /\ p[2] \in S /\ p = <<p[1], p[2]>>
                        /\ f[p] = p[1] + n * p[2]
  OBVIOUS
<1> HIDE DEF f
<1>4. \A p, q \in A \X S : f[p] = f[q] => p = q
  <2> SUFFICES ASSUME NEW p \in A \X S, NEW q \in A \X S, f[p] = f[q] PROVE p = q
    OBVIOUS
  <2> DEFINE k == p[1]
             r == p[2]
             j == q[1]
             s == q[2]
  <2>1. k \in 0..n - 1 /\ j \in 0..n - 1 /\ r \in Nat /\ s \in Nat
        /\ p = <<k, r>> /\ q = <<j, s>> /\ k + n * r = j + n * s
    BY <1>3, <1>a, <1>b
  <2> HIDE DEF k, r, j, s
  <2>2. k = j /\ r = s
    BY <2>1, DigitsDiffer
  <2> QED
    BY <2>1, <2>2
<1>5. \A k \in A, r \in S : f[<<k, r>>] = k + n * r /\ <<k, r>> \in A \X S
  BY DEF f
<1>6. ASSUME NEW p \in A \X S PROVE f[p] \in N
  <2>1. \A k \in A, r \in S : k + n * r \in N
    BY DEF Numbered
  <2> HIDE DEF N
  <2>2. p[1] \in A /\ p[2] \in S
    OBVIOUS
  <2> QED
    BY <1>b, <2>1, <2>2
<1>7. f \in [A \X S -> N]
  BY <1>6 DEF f
<1>8. \A y \in N : \E p \in A \X S : f[p] = y
  <2> SUFFICES ASSUME NEW y \in N PROVE \E p \in A \X S : f[p] = y
    OBVIOUS
  <2>1. PICK k \in A, r \in S : y = k + n * r
    BY DEF Numbered
  <2> QED
    BY <1>5, <2>1
<1>9. f \in Bijection(A \X S, N)
  BY <1>4, <1>7, <1>8 DEF Bijection, Injection, Surjection, IsInjective
<1>10. Cardinality(N) = Cardinality(A \X S)
  BY <1>2, <1>9, FS_Bijection DEF ExistsBijection
<1>11. ASSUME NEW k \in A, NEW r \in S PROVE k + n * r \in 0..n * m - 1
  <2>1. k \in Int /\ 0 <= k /\ k < n /\ r \in Nat /\ r < m
    OBVIOUS
  <2> DEFINE d == m - 1 - r
  <2>2. d \in Nat /\ m = r + 1 + d
    BY <2>1
  <2> HIDE DEF d
  <2>3. n * m = n * r + n + n * d
    BY <2>1, <2>2
  <2>4. n * d \in Nat /\ n * r \in Nat /\ n * m \in Nat
    BY <2>1, <2>2
  <2> QED
    BY ONLY <2>1, <2>3, <2>4
<1>12. N \in SUBSET (0..n * m - 1)
  BY <1>11 DEF Numbered
<1> QED
  BY <1>2, <1>10, <1>12

(* The basis of an axis at a value within its bounds.                      *)
LEMMA AxisActive ==
  ASSUME NEW axis, NEW order, NEW K, NEW n, AxisKnots(axis, order, K, n),
         K = KnotVector(axis, order), n = Len(axis.interior),
         NEW value \in Int, axis.lower <= value, value <= axis.upper,
         NEW active, active = ActiveBasis(axis, value, order),
         NEW span, span = KnotSpan(K, value, order)
  PROVE  /\ SpanFound(K, value, order, n + order + 1, span)
         /\ BasisGood(K, span, value, order, active.basis)
         /\ active.indices = {span + j - order : j \in {j \in 0..order - 1 : active.basis.weights[j] # 0}}
         /\ active.indices \in SUBSET (0..CoefficientCount(axis, order) - 1)
         /\ CoefficientCount(axis, order) \in Nat
<1>1. /\ SpanFound(K, value, order, n + order + 1, span)
      /\ BasisGood(K, span, value, order, Basis(K, span, value, order))
  BY AxisBasis
<1>2. /\ active.basis = Basis(K, span, value, order)
      /\ active.indices = {span + j - order : j \in {j \in 0..order - 1 : active.basis.weights[j] # 0}}
  BY DEF ActiveBasis
<1>3. CoefficientCount(axis, order) = n + order /\ n \in Nat /\ order \in Nat
  BY DEF CoefficientCount, AxisKnots, KnotsClamp
<1>4. span \in order..n + order
  <2> DEFINE end == n + order + 1
  <2>1. end - 1 = n + order /\ SpanFound(K, value, order, end, span)
    BY <1>1, <1>3
  <2> HIDE DEF end
  <2>2. span \in order..end - 1
    BY <2>1 DEF SpanFound
  <2> QED
    BY <2>1, <2>2
<1>5. ASSUME NEW j \in 0..order - 1 PROVE span + j - order \in 0..n + order - 1
  BY <1>3, <1>4
<1>6. active.indices \in SUBSET (0..n + order - 1)
  BY <1>2, <1>5
<1> QED
  BY <1>1, <1>2, <1>3, <1>6

(* The knots of every axis of a surface of the run.                        *)
LEMMA SurfacedKnots ==
  ASSUME NEW s, Surfaced(s), NEW a \in Axes
  PROVE  AxisKnots(s.axes[a], s.order, KnotVector(s.axes[a], s.order), Len(s.axes[a].interior))
<1> DEFINE axis == s.axes[a]
           order == s.order
           K == KnotVector(axis, order)
           n == Len(axis.interior)
<1>1. axis.lower \in Int /\ axis.upper \in Int /\ axis.interior \in Seq(Int)
  BY DEF Surfaced
<1>2. order \in Nat \ {0} /\ AxisValid(K, CoefficientCount(axis, order), order)
  BY DEF Surfaced, LayoutValid
<1>3. K = KnotVector(axis, order) /\ n = Len(axis.interior)
  OBVIOUS
<1> HIDE DEF axis, order, K, n
<1>4. AxisKnots(axis, order, K, n)
  BY <1>1, <1>2, <1>3, ClampedKnots
<1> QED
  BY <1>4 DEF axis, order, K, n

(* The coefficients that count at a point, axis by axis. *)
Counting(s, p, a) == ActiveBasis(s.axes[a], p[a], s.order).indices

(* A point that a surface reaches is given an average of coefficients that *)
(* exist, each counted once.                                               *)
LEMMA SurfaceAverages ==
  ASSUME NEW s, Surfaced(s), NEW p,
         \A a \in Axes : p[a] \in Int /\ s.axes[a].lower <= p[a] /\ p[a] <= s.axes[a].upper
  PROVE  Averages(s.axes, s.order, p)
<1> DEFINE active(a) == ActiveBasis(s.axes[a], p[a], s.order)
           n(a) == CoefficientCount(s.axes[a], s.order)
           stencil == Stencil(s.axes, s.order, p)
<1>1. ASSUME NEW a \in Axes
      PROVE  /\ \A j \in 0..s.order - 1 : active(a).basis.weights[j] >= 0
             /\ SumFunction(active(a).basis.weights) = active(a).basis.total
             /\ active(a).basis.total > 0
             /\ active(a).indices \in SUBSET (0..n(a) - 1)
             /\ n(a) \in Nat
  <2> DEFINE axis == s.axes[a]
             order == s.order
             K == KnotVector(axis, order)
             value == p[a]
             m == Len(axis.interior)
             act == ActiveBasis(axis, value, order)
             span == KnotSpan(K, value, order)
  <2>1. AxisKnots(axis, order, K, m)
    BY SurfacedKnots
  <2>2. K = KnotVector(axis, order) /\ m = Len(axis.interior)
        /\ value \in Int /\ axis.lower <= value /\ value <= axis.upper
        /\ act = ActiveBasis(axis, value, order) /\ span = KnotSpan(K, value, order)
    OBVIOUS
  <2> HIDE DEF axis, order, K, value, m, act, span
  <2>3. /\ BasisGood(K, span, value, order, act.basis)
        /\ act.indices \in SUBSET (0..CoefficientCount(axis, order) - 1)
        /\ CoefficientCount(axis, order) \in Nat
    BY <2>1, <2>2, AxisActive
  <2>4. /\ \A j \in 0..order - 1 : act.basis.weights[j] \in Nat
        /\ SumFunction(act.basis.weights) = act.basis.total /\ act.basis.total > 0
    BY <2>3 DEF BasisGood
  <2>5. \A j \in 0..order - 1 : act.basis.weights[j] >= 0
    BY <2>4
  <2> QED
    BY <2>3, <2>4, <2>5 DEF axis, order, value, act
<1>2. {"clock", "cone", "freq"} = Axes
  BY DEF Axes
<1> DEFINE A == active("clock").indices
           B == active("cone").indices
           C == active("freq").indices
           n1 == n("clock")
           n2 == n("cone")
           n3 == n("freq")
           R == Numbered(B, C, n2)
<1>3. /\ A \in SUBSET (0..n1 - 1) /\ B \in SUBSET (0..n2 - 1) /\ C \in SUBSET (0..n3 - 1)
      /\ n1 \in Nat /\ n2 \in Nat /\ n3 \in Nat
  BY <1>1, <1>2
<1>4. stencil = {k + n1 * (c + n2 * f) : k \in A, c \in B, f \in C}
  BY DEF Stencil
<1> HIDE DEF active, n, stencil
<1>5. stencil = Numbered(A, R, n1)
  <2> HIDE DEF A, B, C, n1, n2, n3
  <2>1. ASSUME NEW x \in stencil PROVE x \in Numbered(A, R, n1)
    <3>1. PICK k \in A, c \in B, f \in C : x = k + n1 * (c + n2 * f)
      BY <1>4, <2>1
    <3>2. c + n2 * f \in R
      BY DEF Numbered
    <3> QED
      BY <3>1, <3>2 DEF Numbered
  <2>2. ASSUME NEW x \in Numbered(A, R, n1) PROVE x \in stencil
    <3>1. PICK k \in A, r \in R : x = k + n1 * r
      BY <2>2 DEF Numbered
    <3>2. PICK c \in B, f \in C : r = c + n2 * f
      BY DEF Numbered
    <3> QED
      BY <1>4, <3>1, <3>2
  <2> QED
    BY <2>1, <2>2
<1> HIDE DEF A, B, C, n1, n2, n3
<1>6. R \in SUBSET (0..n2 * n3 - 1) /\ Cardinality(R) = Cardinality(B) * Cardinality(C)
  BY <1>3, NumberedFacts
<1> HIDE DEF R
<1>7. n2 * n3 \in Nat
  BY <1>3
<1>8. stencil \in SUBSET (0..n1 * (n2 * n3) - 1)
      /\ Cardinality(stencil) = Cardinality(A) * Cardinality(R)
  <2> DEFINE m == n2 * n3
  <2>1. m \in Nat /\ R \in SUBSET (0..m - 1)
    BY <1>6, <1>7
  <2> HIDE DEF m
  <2>2. stencil \in SUBSET (0..n1 * m - 1) /\ Cardinality(stencil) = Cardinality(A) * Cardinality(R)
    BY <1>3, <1>5, <2>1, NumberedFacts
  <2> QED
    BY <2>2 DEF m
<1>9. Cardinality(A) \in Nat /\ Cardinality(B) \in Nat /\ Cardinality(C) \in Nat
  <2>1. ASSUME NEW m \in Nat PROVE IsFiniteSet(0..m - 1)
    BY FS_Interval
  <2>2. IsFiniteSet(A) /\ IsFiniteSet(B) /\ IsFiniteSet(C)
    BY <1>3, <2>1, FS_Subset
  <2> QED
    BY <2>2, FS_CardinalityType
<1>10. \A x, y, z \in Nat : x * (y * z) = x * y * z
  OBVIOUS
<1>11. stencil \subseteq 0..(n1 * n2 * n3 - 1)
       /\ Cardinality(stencil) = Cardinality(A) * Cardinality(B) * Cardinality(C)
  <2>1. n1 * (n2 * n3) = n1 * n2 * n3
    BY <1>3, <1>10
  <2>2. Cardinality(A) * (Cardinality(B) * Cardinality(C)) = Cardinality(A) * Cardinality(B) * Cardinality(C)
    BY <1>9, <1>10
  <2> QED
    BY <1>6, <1>8, <2>1, <2>2
<1> QED
  BY <1>1, <1>11 DEF Averages, A, B, C, n1, n2, n3, active, n, stencil

-----------------------------------------------------------------------------
(* A sweep measured the boresight, and in full mode the surface is the one *)
(* that is fitted to all measurements.                                     *)
FittedKept ==
  /\ job.mode # "full" => \A i \in DOMAIN points : points[i].cone = 0
  /\ job.mode = "full" =>
       \A s \in surface : s.axes = FittedAxes(points, DOMAIN points) /\ s.order = SplineOrder

(* Every step keeps this.                                                  *)
LEMMA FittedNext ==
  ASSUME DataKept, IInv, FittedKept, [Next]_vars
  PROVE  FittedKept'
<1>1. ASSUME UNCHANGED <<job, points, surface>> PROVE FittedKept'
  BY <1>1 DEF FittedKept
<1>2. CASE Parse /\ ~Refuse
  <2>1. job.mode = "full" /\ UNCHANGED <<job, surface>> /\ surface = {}
    BY <1>2 DEF Parse, IInv, ModelsKept, Unfitted, DataKept, FullModeSteps
  <2> QED
    BY <2>1 DEF FittedKept
<1>3. CASE ParseSweep /\ ~Refuse
  <2>1. /\ job.mode # "full" /\ UNCHANGED <<job, surface>>
        /\ points' = [i \in DOMAIN job.rows |-> OnBoresight(job.rows[i])]
    BY <1>3 DEF ParseSweep, DataKept, BoresightModeSteps
  <2>2. \A row : OnBoresight(row).cone = 0
    BY DEF OnBoresight
  <2>3. \A i \in DOMAIN points' : points'[i].cone = 0
    BY <2>1, <2>2
  <2> QED
    BY <2>1, <2>3 DEF FittedKept
<1>4. CASE Fit /\ ~Refuse
  <2> DEFINE s == [axes |-> FittedAxes(points, DOMAIN points), order |-> SplineOrder,
                   slab |-> fitted]
  <2>1. job.mode = "full" /\ surface' = {s} /\ UNCHANGED <<job, points>>
    BY <1>4 DEF Fit, DataKept, FullModeSteps
  <2>2. s.axes = FittedAxes(points, DOMAIN points) /\ s.order = SplineOrder
    OBVIOUS
  <2>3. FittedAxes(points, DOMAIN points)' = FittedAxes(points, DOMAIN points)
    BY <2>1
  <2> HIDE DEF s
  <2> QED
    BY <2>1, <2>2, <2>3 DEF FittedKept
<1>5. CASE TunePass2 /\ ~Refuse
  <2>1. job.mode # "full" /\ UNCHANGED <<job, points>>
    BY <1>5 DEF TunePass2, DataKept, BoresightModeSteps
  <2> QED
    BY <2>1 DEF FittedKept
<1>6. CASE \/ Dispatch \/ LoadClass \/ TuneClass \/ Predict \/ StartFolds \/ ScoreFold
           \/ CollectFolds \/ Assess \/ LoadSpecs \/ TunePass1 \/ Build
           \/ (\E o \in Outputs : Export(o)) \/ Finish \/ Refuse
  <2>1. UNCHANGED <<job, points, surface>>
    BY <1>6 DEF Dispatch, LoadClass, TuneClass, Predict, StartFolds, ScoreFold,
                CollectFolds, Assess, LoadSpecs, TunePass1, Build, Export, Finish, Refuse
  <2> QED
    BY <1>1, <2>1
<1>7. CASE UNCHANGED vars
  BY <1>1, <1>7 DEF vars
<1> QED
  BY <1>2, <1>3, <1>4, <1>5, <1>6, <1>7 DEF Next

(* So it holds always. *)
LEMMA FittedIsKept == Spec => [](AllKept /\ FittedKept)
<1>1. Init => IInv /\ AllKept /\ FittedKept
  <2>1. Init => FittedKept
    <3> SUFFICES ASSUME Init PROVE FittedKept
      OBVIOUS
    <3>1. points = <<>> /\ surface = {}
      BY DEF Init
    <3>2. DOMAIN points = {}
      BY <3>1
    <3> QED
      BY <3>1, <3>2 DEF FittedKept
  <2> QED
    BY <2>1, InitKept, AllInit
<1>2. IInv /\ AllKept /\ FittedKept /\ [Next]_vars => (IInv /\ AllKept /\ FittedKept)'
  <2>1. IInv /\ AllKept /\ FittedKept /\ [Next]_vars => FittedKept'
    BY FittedNext DEF AllKept
  <2> QED
    BY <2>1, NextKept, AllNext
<1> QED
  BY <1>1, <1>2, PTL DEF Spec

(* The surface of an artifact reaches every measurement.                   *)
LEMMA MeasurementsReached ==
  ASSUME AllKept, FittedKept, NEW a \in artifact, NEW wire \in a.surface, NEW i \in DOMAIN points
  PROVE  LET s == FromModel4D(wire)
         IN  /\ s \in surface /\ Surfaced(s)
             /\ \A x \in Axes : /\ points[i][x] \in Int
                                /\ s.axes[x].lower <= points[i][x]
                                /\ points[i][x] <= s.axes[x].upper
<1> DEFINE s == FromModel4D(wire)
<1>1. s \in surface
  BY SurfaceServed
<1>2. Surfaced(s)
  BY <1>1 DEF AllKept, SurfaceKept
<1>3. points \in Seq(PolarPoints) /\ \A m \in DOMAIN points : points[m] \in PolarPoints
  <2>1. points \in Seq(PolarPoints)
    BY DEF AllKept, DataKept
  <2> QED
    BY <2>1, LenProperties
<1>4. \A x \in Axes : points[i][x] \in Int
  BY <1>3 DEF PolarPoints, Axes
<1>5. CASE job.mode = "full"
  BY <1>1, <1>2, <1>4, <1>5 DEF Surfaced
<1>6. CASE job.mode # "full"
  <2>1. a.surface = Written(surface) /\ a.coverage = Coverage /\ ArtifactSound(a)
    <3>1. /\ a = [model |-> Stamped, coverage |-> Coverage,
                  surface |-> Written(surface), resolution |-> Assessed]
          /\ ArtifactSound(a)
      BY DEF AllKept, BuiltKept
    <3> QED
      BY <3>1
  <2>2. PICK t \in surface : wire = ToModel4D(t, TemperatureAxis)
    BY <2>1 DEF Written
  <2>3. Surfaced(t)
    BY DEF AllKept, SurfaceKept
  <2>4. t = s
    BY <1>1 DEF AllKept, SurfaceKept
  <2>5. \A x \in Axes : SupportOf(wire)[x].lo = s.axes[x].lower /\ SupportOf(wire)[x].hi = s.axes[x].upper
    <3> SUFFICES ASSUME NEW x \in Axes
                 PROVE  SupportOf(wire)[x].lo = t.axes[x].lower /\ SupportOf(wire)[x].hi = t.axes[x].upper
      BY <2>4
    <3> DEFINE axis == t.axes[x]
               order == t.order
    <3>1. wire.knots[x] = KnotVector(axis, order) /\ wire.order = order
      BY <2>2 DEF ToModel4D
    <3>2. SupportOf(wire)[x] = Support(KnotVector(axis, order), order)
      BY <3>1 DEF SupportOf
    <3>3. axis.lower \in Int /\ axis.upper \in Int /\ axis.interior \in Seq(Int)
          /\ order \in Nat /\ order >= 1
      BY <2>3 DEF Surfaced, LayoutValid
    <3> HIDE DEF axis, order
    <3>4. /\ Support(KnotVector(axis, order), order).lo = axis.lower
          /\ Support(KnotVector(axis, order), order).hi = axis.upper
      BY <3>3, AxisReadBack
    <3> QED
      BY <3>2, <3>4 DEF axis
  <2>6. DomainWithin(Coverage, SupportOf(wire))
    BY <2>1 DEF ArtifactSound
  <2>7. Coverage = ConeCoverage
    BY <1>6 DEF Coverage
  <2>8. Inside(points[i], Coverage)
    <3> DEFINE F == {points[m].freq : m \in DOMAIN points}
    <3>1. ConeCoverage["clock"].lo = 0 /\ ConeCoverage["clock"].hi = 360
          /\ ConeCoverage["cone"].lo = 0 /\ ConeCoverage["cone"].hi = 0
          /\ ConeCoverage["freq"].lo = Min(F) /\ ConeCoverage["freq"].hi = Max(F)
      BY DEF ConeCoverage, Extent
    <3>2. F \in SUBSET Int /\ IsFiniteSet(F) /\ points[i].freq \in F
      <4>1. \A m \in DOMAIN points : points[m].freq \in Int
        BY <1>3 DEF PolarPoints
      <4>2. IsFiniteSet(DOMAIN points)
        BY <1>3, FS_Interval, LenProperties
      <4>3. [m \in DOMAIN points |-> points[m].freq] \in Surjection(DOMAIN points, F)
        BY DEF Surjection
      <4>4. IsFiniteSet(F)
        BY <4>2, <4>3, FS_Surjection
      <4> QED
        BY <4>1, <4>4
    <3> HIDE DEF F
    <3>3. Min(F) <= points[i].freq /\ points[i].freq <= Max(F)
      BY <3>2, Extremes
    <3>4. points[i].cone = 0 /\ points[i].clock \in 0..360
      BY <1>3, <1>6 DEF FittedKept, PolarPoints
    <3>5. \A x \in Axes : ConeCoverage[x].lo <= points[i][x] /\ points[i][x] <= ConeCoverage[x].hi
      BY <3>1, <3>3, <3>4 DEF Axes
    <3> QED
      BY <2>7, <3>5 DEF Inside
  <2>9. \A x \in Axes : Coverage[x].lo \in Int /\ Coverage[x].hi \in Int
    <3> DEFINE F == {points[m].freq : m \in DOMAIN points}
    <3>1. ConeCoverage["clock"].lo = 0 /\ ConeCoverage["clock"].hi = 360
          /\ ConeCoverage["cone"].lo = 0 /\ ConeCoverage["cone"].hi = 0
          /\ ConeCoverage["freq"].lo = Min(F) /\ ConeCoverage["freq"].hi = Max(F)
      BY DEF ConeCoverage, Extent
    <3>2. F \in SUBSET Int /\ IsFiniteSet(F) /\ F # {}
      <4>1. \A m \in DOMAIN points : points[m].freq \in Int
        BY <1>3 DEF PolarPoints
      <4>2. IsFiniteSet(DOMAIN points)
        BY <1>3, FS_Interval, LenProperties
      <4>3. [m \in DOMAIN points |-> points[m].freq] \in Surjection(DOMAIN points, F)
        BY DEF Surjection
      <4>4. IsFiniteSet(F)
        BY <4>2, <4>3, FS_Surjection
      <4> QED
        BY <4>1, <4>4
    <3> HIDE DEF F
    <3>3. Min(F) \in Int /\ Max(F) \in Int
      BY <3>2, Extremes
    <3> QED
      BY <2>7, <3>1, <3>3 DEF Axes
  <2> HIDE DEF s
  <2>10. \A x \in Axes : s.axes[x].lower \in Int /\ s.axes[x].upper \in Int
    BY <1>2 DEF Surfaced
  <2>11. ASSUME NEW x \in Axes
         PROVE  s.axes[x].lower <= points[i][x] /\ points[i][x] <= s.axes[x].upper
    <3>1. s.axes[x].lower <= Coverage[x].lo /\ Coverage[x].hi <= s.axes[x].upper
      BY <2>5, <2>6 DEF DomainWithin
    <3>2. Coverage[x].lo <= points[i][x] /\ points[i][x] <= Coverage[x].hi
      BY <2>8 DEF Inside
    <3> QED
      BY <1>4, <2>9, <2>10, <3>1, <3>2
  <2> QED
    BY <1>1, <1>2, <1>4, <2>11 DEF s
<1> QED
  BY <1>5, <1>6

-----------------------------------------------------------------------------
(* Every coefficient counts at some measurement of a complete grid.        *)

(* Each interior knot, and the lower bound, is below the next knot.        *)
Climbs(K, order, n) ==
  \A i, j \in order..order + n + 1 : i < j => K[i] < K[j]

(* Rising interior knots climb from bound to bound.                        *)
LEMMA RisingClimbs ==
  ASSUME NEW axis, NEW order, NEW K, NEW n, AxisKnots(axis, order, K, n),
         n = Len(axis.interior), Rises(axis.interior)
  PROVE  Climbs(K, order, n)
<1>1. /\ n \in Nat /\ K \in Seq(Int) /\ Len(K) = n + order + order
      /\ K[order] = axis.lower /\ K[n + order + 1] = axis.upper
      /\ order \in Nat \ {0} /\ axis.lower < axis.upper
      /\ axis.lower \in Int /\ axis.upper \in Int
      /\ \A i \in 1..n : K[order + i] = axis.interior[i]
  BY DEF AxisKnots, KnotsClamp
<1>2. \A i \in order + 1..order + n : axis.lower < K[i] /\ K[i] < axis.upper
  BY DEF AxisKnots
<1> SUFFICES ASSUME NEW i \in order..order + n + 1, NEW j \in order..order + n + 1, i < j
             PROVE  K[i] < K[j]
  BY DEF Climbs
<1>3. order + n + 1 = n + order + 1
  BY <1>1
<1>4. CASE i = order /\ j = order + n + 1
  BY <1>1, <1>3, <1>4
<1>5. CASE i = order /\ j # order + n + 1
  <2>1. j \in order + 1..order + n
    BY <1>1, <1>5
  <2> QED
    BY <1>1, <1>2, <1>5, <2>1
<1>6. CASE i # order /\ j = order + n + 1
  <2>1. i \in order + 1..order + n
    BY <1>1, <1>6
  <2> QED
    BY <1>1, <1>2, <1>3, <1>6, <2>1
<1>7. CASE i # order /\ j # order + n + 1
  <2> DEFINE x == i - order
             y == j - order
  <2>0. /\ i \in Int /\ j \in Int /\ order \in Int /\ n \in Int /\ i < j
        /\ order <= i /\ order <= j /\ i <= order + n + 1 /\ j <= order + n + 1
        /\ i # order /\ j # order + n + 1
    BY <1>1, <1>7
  <2>1. x \in 1..n /\ y \in 1..n /\ x < y /\ order + x = i /\ order + y = j
    BY ONLY <2>0
  <2> HIDE DEF x, y
  <2>2. axis.interior[x] < axis.interior[y]
    BY <2>1 DEF Rises
  <2>3. K[i] = axis.interior[x] /\ K[j] = axis.interior[y]
    BY <1>1, <2>1
  <2> QED
    BY <2>2, <2>3
<1> QED
  BY <1>4, <1>5, <1>6, <1>7

(* The span of a knot is the one that begins with it.                      *)
LEMMA KnotOwnSpan ==
  ASSUME NEW order \in Nat, NEW n \in Nat, NEW K, \A i \in order..order + n + 1 : K[i] \in Int,
         Climbs(K, order, n), NEW k \in order..order + n, NEW value, value = K[k],
         NEW span, SpanFound(K, value, order, n + order + 1, span)
  PROVE  span = k
<1> DEFINE end == n + order + 1
<1>1. /\ span \in order..end - 1 /\ K[span] <= value
      /\ value < K[end] => value < K[span + 1]
  <2> HIDE DEF end
  <2> QED
    BY DEF SpanFound, end
<1>2. /\ span \in Int /\ order <= span /\ span <= order + n /\ order \in Int /\ n \in Int
      /\ k \in Int /\ order <= k /\ k <= order + n /\ end = order + n + 1
  BY <1>1
<1> HIDE DEF end
<1>3. /\ span \in order..order + n + 1 /\ span + 1 \in order..order + n + 1
      /\ k \in order..order + n + 1 /\ end \in order..order + n + 1 /\ k < end
  BY ONLY <1>2
<1>4. value < K[end]
  BY <1>3 DEF Climbs
<1>5. value < K[span + 1]
  BY <1>1, <1>4
<1>6. K[span] \in Int /\ K[span + 1] \in Int /\ K[k] \in Int
  BY <1>3
<1>7. ~(k < span)
  <2>1. k < span => K[k] < K[span]
    BY <1>3 DEF Climbs
  <2> QED
    BY <1>1, <1>6, <2>1
<1>8. ~(span + 1 <= k)
  <2>1. span + 1 < k => K[span + 1] < K[k]
    BY <1>3 DEF Climbs
  <2>2. span + 1 = k => K[span + 1] = K[k]
    OBVIOUS
  <2> QED
    BY <1>2, <1>5, <1>6, <2>1, <2>2
<1> QED
  BY <1>2, <1>7, <1>8

(* The span of the upper bound is the last.                                *)
LEMMA UpperOwnSpan ==
  ASSUME NEW order \in Nat, NEW n \in Nat, NEW K, NEW value, value = K[n + order + 1],
         NEW span, SpanFound(K, value, order, n + order + 1, span)
  PROVE  span = order + n
<1> DEFINE end == n + order + 1
<1>1. end - 1 = order + n /\ value = K[end] /\ SpanFound(K, value, order, end, span)
  OBVIOUS
<1> HIDE DEF end
<1> QED
  BY <1>1 DEF SpanFound

(* The value that a coefficient counts at.                                 *)
CountsAt(axis, order, d, value) ==
  /\ axis.lower <= value /\ value <= axis.upper
  /\ d \in ActiveBasis(axis, value, order).indices

(* A coefficient counts where the basis is good and it has a weight.       *)
LEMMA WeightCounts ==
  ASSUME NEW axis, NEW order, NEW K, NEW n, AxisKnots(axis, order, K, n),
         K = KnotVector(axis, order), n = Len(axis.interior),
         NEW value \in Int, axis.lower <= value, value <= axis.upper,
         NEW span, span = KnotSpan(K, value, order),
         NEW b, b = ActiveBasis(axis, value, order).basis,
         NEW j \in 0..order - 1, b.weights[j] > 0,
         NEW d, d = span + j - order
  PROVE  CountsAt(axis, order, d, value)
<1> DEFINE act == ActiveBasis(axis, value, order)
<1>1. act.indices = {span + i - order : i \in {i \in 0..order - 1 : act.basis.weights[i] # 0}}
  BY AxisActive
<1>2. act.basis = b /\ b.weights[j] # 0
  OBVIOUS
<1> HIDE DEF act
<1>3. d \in act.indices
  BY <1>1, <1>2
<1> QED
  BY <1>3 DEF CountsAt, act

(* What is found at a value within the bounds.                             *)
ValueFound(axis, order, K, n, value, span, b) ==
  /\ span = KnotSpan(K, value, order) /\ b = ActiveBasis(axis, value, order).basis
  /\ SpanFound(K, value, order, n + order + 1, span)
  /\ BasisGood(K, span, value, order, b)

(* It is found. *)
LEMMA ValueIsFound ==
  ASSUME NEW axis, NEW order, NEW K, NEW n, AxisKnots(axis, order, K, n),
         K = KnotVector(axis, order), n = Len(axis.interior),
         NEW value \in Int, axis.lower <= value, value <= axis.upper
  PROVE  ValueFound(axis, order, K, n, value, KnotSpan(K, value, order),
                    ActiveBasis(axis, value, order).basis)
<1> DEFINE span == KnotSpan(K, value, order)
           act == ActiveBasis(axis, value, order)
<1>1. span = KnotSpan(K, value, order) /\ act = ActiveBasis(axis, value, order)
  OBVIOUS
<1> HIDE DEF span, act
<1>2. SpanFound(K, value, order, n + order + 1, span) /\ BasisGood(K, span, value, order, act.basis)
  BY <1>1, AxisActive
<1> QED
  BY <1>1, <1>2 DEF ValueFound

(* The first coefficient of an axis counts at the lower bound.             *)
LEMMA FirstCounts ==
  ASSUME NEW axis, NEW order, NEW K, NEW n, AxisKnots(axis, order, K, n),
         K = KnotVector(axis, order), n = Len(axis.interior), Climbs(K, order, n)
  PROVE  CountsAt(axis, order, 0, axis.lower)
<1> DEFINE value == axis.lower
           span == KnotSpan(K, value, order)
           b == ActiveBasis(axis, value, order).basis
<1>1. /\ n \in Nat /\ K \in Seq(Int) /\ Len(K) = n + order + order /\ K[order] = value
      /\ order \in Nat \ {0} /\ value \in Int /\ axis.lower <= value /\ value <= axis.upper
  BY DEF AxisKnots, KnotsClamp
<1>2. span = KnotSpan(K, value, order) /\ b = ActiveBasis(axis, value, order).basis
  OBVIOUS
<1> HIDE DEF value, span, b
<1>3. ValueFound(axis, order, K, n, value, span, b)
  BY <1>1, <1>2, ValueIsFound
<1>4. SpanFound(K, value, order, n + order + 1, span) /\ BasisGood(K, span, value, order, b)
  BY <1>3 DEF ValueFound
<1>5. \A i \in order..order + n + 1 : K[i] \in Int
  <2>1. \A i \in order..order + n + 1 : i \in 1..Len(K)
    BY <1>1
  <2> QED
    BY <1>1, <2>1, LenProperties
<1>6. order \in order..order + n /\ order \in order..order + n + 1
      /\ order + 1 \in order..order + n + 1 /\ order < order + 1
  BY <1>1
<1>7. span = order
  BY <1>1, <1>4, <1>5, <1>6, KnotOwnSpan
<1>8. K[order] < K[order + 1] /\ K[order] \in Int /\ K[order + 1] \in Int
  BY <1>5, <1>6 DEF Climbs
<1>9. Right(K, span, value, 1) > 0
  BY <1>1, <1>7, <1>8 DEF Right
<1>10. b.weights[0] > 0 /\ 0 \in 0..order - 1 /\ 0 = span + 0 - order
  BY <1>1, <1>4, <1>7, <1>9 DEF BasisGood
<1>11. CountsAt(axis, order, 0, value)
  BY <1>1, <1>2, <1>10, WeightCounts
<1> QED
  BY <1>11 DEF value

(* The last one counts at the upper bound.                                 *)
LEMMA LastCounts ==
  ASSUME NEW axis, NEW order, NEW K, NEW n, AxisKnots(axis, order, K, n),
         K = KnotVector(axis, order), n = Len(axis.interior), Climbs(K, order, n)
  PROVE  CountsAt(axis, order, n + order - 1, axis.upper)
<1> DEFINE value == axis.upper
           span == KnotSpan(K, value, order)
           b == ActiveBasis(axis, value, order).basis
           d == n + order - 1
           j == order - 1
<1>1. /\ n \in Nat /\ K \in Seq(Int) /\ Len(K) = n + order + order /\ K[n + order + 1] = value
      /\ order \in Nat \ {0} /\ value \in Int /\ axis.lower <= value /\ value <= axis.upper
  BY DEF AxisKnots, KnotsClamp
<1>a. n + order + 1 = order + n + 1
  BY <1>1
<1>2. span = KnotSpan(K, value, order) /\ b = ActiveBasis(axis, value, order).basis
  OBVIOUS
<1> HIDE DEF value, span, b
<1>3. ValueFound(axis, order, K, n, value, span, b)
  BY <1>1, <1>2, ValueIsFound
<1>4. SpanFound(K, value, order, n + order + 1, span) /\ BasisGood(K, span, value, order, b)
  BY <1>3 DEF ValueFound
<1>5. \A i \in order..order + n + 1 : K[i] \in Int
  <2>1. \A i \in order..order + n + 1 : i \in 1..Len(K)
    BY <1>1
  <2> QED
    BY <1>1, <2>1, LenProperties
<1>6. order + n \in order..order + n + 1 /\ order + n + 1 \in order..order + n + 1
      /\ order + n < order + n + 1
  BY <1>1, SMTT(30)
<1>7. span = order + n
  BY <1>1, <1>4, UpperOwnSpan
<1>8. K[order + n] < K[order + n + 1] /\ K[order + n] \in Int /\ K[order + n + 1] \in Int
  BY <1>5, <1>6 DEF Climbs
<1>9. Left(K, span, value, 1) > 0
  <2>1. span + 1 - 1 = order + n
    BY <1>1, <1>7
  <2> QED
    BY <1>1, <1>a, <1>8, <2>1, SMTT(30) DEF Left
<1>10. b.weights[j] > 0 /\ j \in 0..order - 1 /\ d = span + j - order
  BY <1>1, <1>4, <1>7, <1>9 DEF BasisGood
<1> HIDE DEF d, j
<1>11. CountsAt(axis, order, d, value)
  BY <1>1, <1>2, <1>10, WeightCounts
<1> QED
  BY <1>11 DEF value, d

(* Every other one counts at an interior knot.                             *)
LEMMA MiddleCounts ==
  ASSUME NEW axis, NEW order, NEW K, NEW n, AxisKnots(axis, order, K, n),
         K = KnotVector(axis, order), n = Len(axis.interior), Climbs(K, order, n),
         order >= 2, n # 0, NEW d \in 1..n + order - 2
  PROVE  \E i \in 1..n : CountsAt(axis, order, d, axis.interior[i])
<1>1. /\ n \in Nat /\ K \in Seq(Int) /\ Len(K) = n + order + order
      /\ order \in Nat \ {0} /\ d \in Nat
      /\ \A i \in 1..n : K[order + i] = axis.interior[i]
  BY DEF AxisKnots, KnotsClamp
<1>2. PICK i \in 1..n : i <= d /\ d <= i + order - 2
  <2>1. CASE d <= n
    <3>1. d \in 1..n /\ d <= d /\ d <= d + order - 2
      BY <1>1, <2>1
    <3> QED
      BY <3>1
  <2>2. CASE ~(d <= n)
    <3>1. n \in 1..n /\ n <= d /\ d <= n + order - 2
      BY <1>1, <2>2
    <3> QED
      BY <3>1
  <2> QED
    BY <2>1, <2>2
<1> DEFINE value == axis.interior[i]
           span == KnotSpan(K, value, order)
           b == ActiveBasis(axis, value, order).basis
           k == order + i
           j == d - i
<1>3. k \in order + 1..order + n /\ k \in Int /\ order + 1 <= k /\ k <= order + n
      /\ j \in 0..order - 2 /\ j \in 0..order - 1 /\ k + j - order = d
  BY <1>1, <1>2
<1>4. value = K[k] /\ span = KnotSpan(K, value, order)
      /\ b = ActiveBasis(axis, value, order).basis
  BY <1>1
<1> HIDE DEF value, span, b, k, j
<1>5. ASSUME NEW x \in order..order + n + 1 PROVE K[x] \in Int
  <2>a. /\ n \in Nat /\ order \in Nat \ {0} /\ K \in Seq(Int)
        /\ Len(K) = n + order + order /\ x \in order..order + n + 1
    BY <1>1
  <2>1. x \in 1..Len(K) /\ K \in Seq(Int)
    BY ONLY <2>a
  <2> QED
    BY ONLY <2>1, LenProperties
<1>6. /\ k - 1 \in order..order + n + 1 /\ k \in order..order + n + 1
      /\ k + 1 \in order..order + n + 1 /\ k \in order..order + n /\ k - 1 < k /\ k < k + 1
  BY <1>1, <1>3, SMTT(30)
<1>7. value \in Int /\ axis.lower <= value /\ value <= axis.upper
  <2>1. axis.lower < K[k] /\ K[k] < axis.upper /\ axis.lower \in Int /\ axis.upper \in Int
    BY <1>3 DEF AxisKnots
  <2> QED
    BY <1>4, <1>5, <1>6, <2>1
<1>8. ValueFound(axis, order, K, n, value, span, b)
  BY <1>4, <1>7, ValueIsFound
<1>9. SpanFound(K, value, order, n + order + 1, span) /\ BasisGood(K, span, value, order, b)
  BY <1>8 DEF ValueFound
<1>10. span = k
  BY <1>1, <1>4, <1>5, <1>6, <1>9, KnotOwnSpan
<1>11. /\ K[k - 1] < K[k] /\ K[k] < K[k + 1]
       /\ K[k - 1] \in Int /\ K[k] \in Int /\ K[k + 1] \in Int
  BY <1>5, <1>6 DEF Climbs
<1>12. Right(K, span, value, 1) > 0 /\ Left(K, span, value, 2) > 0
  <2>1. span + 1 - 2 = k - 1
    BY <1>3, <1>10
  <2> QED
    BY <1>4, <1>10, <1>11, <2>1 DEF Left, Right
<1>13. b.weights[j] > 0 /\ d = span + j - order
  BY <1>3, <1>9, <1>10, <1>12 DEF BasisGood
<1>14. CountsAt(axis, order, d, value)
  BY <1>3, <1>4, <1>7, <1>13, WeightCounts
<1> QED
  BY <1>14 DEF value

(* Without interior knots, all count at any value between the bounds.      *)
LEMMA AllCount ==
  ASSUME NEW axis, NEW order, NEW K, NEW n, AxisKnots(axis, order, K, n),
         K = KnotVector(axis, order), n = Len(axis.interior), n = 0,
         NEW value \in Int, axis.lower < value, value < axis.upper,
         NEW d \in 0..order - 1
  PROVE  CountsAt(axis, order, d, value)
<1> DEFINE span == KnotSpan(K, value, order)
           b == ActiveBasis(axis, value, order).basis
<1>1. /\ K \in Seq(Int) /\ Len(K) = order + order /\ K[order] = axis.lower
      /\ K[order + 1] = axis.upper /\ n + order + 1 = order + 1
      /\ order \in Nat \ {0} /\ axis.lower \in Int /\ axis.upper \in Int
  BY DEF AxisKnots, KnotsClamp
<1>2. axis.lower <= value /\ value <= axis.upper
  BY <1>1
<1>3. span = KnotSpan(K, value, order) /\ b = ActiveBasis(axis, value, order).basis
  OBVIOUS
<1> HIDE DEF span, b
<1>4. ValueFound(axis, order, K, n, value, span, b)
  <2>1. /\ AxisKnots(axis, order, K, n) /\ K = KnotVector(axis, order)
        /\ n = Len(axis.interior) /\ value \in Int
        /\ axis.lower <= value /\ value <= axis.upper
    BY <1>2
  <2> QED
    BY ONLY <1>3, <2>1, ValueIsFound
<1> DEFINE end == n + order + 1
<1>5. SpanFound(K, value, order, end, span) /\ BasisGood(K, span, value, order, b)
  BY <1>4 DEF ValueFound
<1>6. span = order
  <2>1. end - 1 = order
    BY <1>1
  <2> HIDE DEF end
  <2>2. span \in order..end - 1
    BY <1>5 DEF SpanFound
  <2> QED
    BY <1>1, <2>1, <2>2
<1>7. Left(K, span, value, 1) > 0 /\ Right(K, span, value, 1) > 0
  <2>1. span + 1 - 1 = order
    BY <1>1, <1>6
  <2> QED
    BY <1>1, <1>6, <2>1 DEF Left, Right
<1>8. b.weights[d] > 0 /\ d = span + d - order
  BY <1>1, <1>5, <1>6, <1>7 DEF BasisGood
<1> QED
  BY <1>2, <1>3, <1>8, WeightCounts

(* So every coefficient counts at a value, if the bounds, the interior     *)
(* knots and one value between the bounds are values.                      *)
LEMMA AxisCoefficients ==
  ASSUME NEW axis, NEW order, NEW K, NEW n, AxisKnots(axis, order, K, n),
         K = KnotVector(axis, order), n = Len(axis.interior), Rises(axis.interior),
         order >= 2, NEW V, axis.lower \in V, axis.upper \in V,
         \A i \in 1..n : axis.interior[i] \in V,
         NEW w \in V, w \in Int, axis.lower < w, w < axis.upper,
         NEW d \in 0..CoefficientCount(axis, order) - 1
  PROVE  \E v \in V : CountsAt(axis, order, d, v)
<1>1. Climbs(K, order, n)
  BY RisingClimbs
<1>2. n \in Nat /\ order \in Nat /\ CoefficientCount(axis, order) = n + order
  BY DEF AxisKnots, KnotsClamp, CoefficientCount
<1>3. CASE n = 0
  <2>1. d \in 0..order - 1
    BY <1>2, <1>3
  <2>2. CountsAt(axis, order, d, w)
    BY <1>3, <2>1, AllCount
  <2> QED
    BY <2>2
<1>4. CASE n # 0 /\ d = 0
  <2>1. CountsAt(axis, order, 0, axis.lower)
    BY <1>1, FirstCounts
  <2> QED
    BY <1>4, <2>1
<1>5. CASE n # 0 /\ d = n + order - 1
  <2>1. CountsAt(axis, order, n + order - 1, axis.upper)
    BY <1>1, LastCounts
  <2> QED
    BY <1>5, <2>1
<1>6. CASE n # 0 /\ d # 0 /\ d # n + order - 1
  <2>1. d \in 1..n + order - 2
    BY <1>2, <1>6
  <2>2. PICK i \in 1..n : CountsAt(axis, order, d, axis.interior[i])
    BY <1>1, <1>6, <2>1, MiddleCounts
  <2> QED
    BY <2>2
<1> QED
  BY <1>3, <1>4, <1>5, <1>6

(* A number below the product has its digits.                              *)
LEMMA DigitsExist ==
  ASSUME NEW n \in Nat \ {0}, NEW M \in Nat, NEW m \in 0..n * M - 1
  PROVE  \E k \in 0..n - 1, r \in 0..M - 1 : m = k + n * r
<1> DEFINE r == m \div n
           k == m % n
<1>1. n * M \in Nat /\ m \in Nat /\ m < n * M
  BY SMT
<1>2. r \in Nat /\ k \in 0..n - 1 /\ m = n * r + k
  BY <1>1
<1> HIDE DEF r, k
<1>3. n * r \in Nat
  BY <1>2
<1>4. r < M
  <2>1. SUFFICES ASSUME ~(r < M) PROVE FALSE
    OBVIOUS
  <2> DEFINE e == r - M
  <2>2. e \in Nat /\ r = M + e
    BY <1>2, <2>1
  <2> HIDE DEF e
  <2>3. n * r = n * M + n * e /\ n * e \in Nat
    BY <2>2
  <2>4. k \in Int /\ 0 <= k
    BY <1>2
  <2> QED
    BY ONLY <1>1, <1>2, <1>3, <2>3, <2>4
<1>5. m = k + n * r /\ r \in 0..M - 1
  <2>1. k \in Int
    BY <1>2
  <2>2. m = k + n * r
    BY ONLY <1>2, <1>3, <2>1
  <2> QED
    BY <1>2, <1>4, <2>2
<1> QED
  BY <1>2, <1>5

(* The axes of full mode, knot by knot: bounds and knots are values that   *)
(* were measured.                                                          *)
LEMMA FullAxis ==
  ASSUME AllKept, FittedKept, job.mode = "full", points # <<>>, NEW s \in surface, NEW a \in Axes
  PROVE  /\ s.axes[a].lower \in Values(points, DOMAIN points, a)
         /\ s.axes[a].upper \in Values(points, DOMAIN points, a)
         /\ s.axes[a].interior \in Seq(Values(points, DOMAIN points, a))
         /\ Rises(s.axes[a].interior)
         /\ Values(points, DOMAIN points, a) \in SUBSET Int
         /\ \A v \in Values(points, DOMAIN points, a) :
              s.axes[a].lower <= v /\ v <= s.axes[a].upper
<1> DEFINE rows == DOMAIN points
           dom == MeasuredDomain(points, rows)
<1>1. points \in Seq(PolarPoints) /\ s.axes = FittedAxes(points, rows)
  BY DEF AllKept, DataKept, FittedKept
<1>2. rows = 1..Len(points) /\ Len(points) \in Nat /\ Len(points) # 0
      /\ \A i \in rows : points[i] \in PolarPoints
  BY <1>1, LenProperties, EmptySeq
<1>3. IsFiniteSet(rows) /\ rows # {}
  <2>1. 1 \in rows
    BY <1>2
  <2>2. IsFiniteSet(1..Len(points))
    BY <1>2, FS_Interval
  <2> QED
    BY <1>2, <2>1, <2>2
<1>4. \A i \in rows : points[i][a] \in Int
  BY <1>2 DEF PolarPoints, Axes
<1>5. /\ s.axes[a].lower = dom[a].lo /\ s.axes[a].upper = dom[a].hi
      /\ s.axes[a].interior = InteriorKnots(points, rows, a)
  BY <1>1 DEF FittedAxes, ClampedAxis
<1>6. \A v \in Values(points, rows, a) : \E i \in rows : v = points[i][a]
  BY DEF Values
<1> HIDE DEF rows, dom
<1>7. /\ \A i \in rows : dom[a].lo <= points[i][a] /\ points[i][a] <= dom[a].hi
      /\ dom[a].lo \in Values(points, rows, a) /\ dom[a].hi \in Values(points, rows, a)
      /\ InteriorKnots(points, rows, a) \in Seq(Values(points, rows, a))
      /\ Rises(InteriorKnots(points, rows, a))
  BY <1>3, <1>4, AxisFitted DEF dom
<1> QED
  BY <1>4, <1>5, <1>6, <1>7 DEF rows

(* Every coefficient of an axis counts at a value that was measured.       *)
LEMMA FullAxisCounts ==
  ASSUME AllKept, FittedKept, job.mode = "full", points # <<>>, NEW s \in surface, NEW a \in Axes,
         Cardinality(Values(points, DOMAIN points, a)) > 2,
         NEW d \in 0..CoefficientCount(s.axes[a], s.order) - 1
  PROVE  \E v \in Values(points, DOMAIN points, a) : CountsAt(s.axes[a], s.order, d, v)
<1> DEFINE V == Values(points, DOMAIN points, a)
           axis == s.axes[a]
           order == s.order
           K == KnotVector(axis, order)
           n == Len(axis.interior)
<1>1. Surfaced(s)
  BY DEF AllKept, SurfaceKept
<1>2. AxisKnots(axis, order, K, n)
  BY <1>1, SurfacedKnots
<1>3. order >= 2
  BY FitAssumption DEF FittedKept
<1>4. /\ axis.lower \in V /\ axis.upper \in V /\ axis.interior \in Seq(V)
      /\ Rises(axis.interior) /\ V \in SUBSET Int
      /\ \A v \in V : axis.lower <= v /\ v <= axis.upper
  BY FullAxis
<1>5. Cardinality(V) > 2 /\ d \in 0..CoefficientCount(axis, order) - 1
      /\ K = KnotVector(axis, order) /\ n = Len(axis.interior)
  OBVIOUS
<1> HIDE DEF V, axis, order, K, n
<1>6. PICK w \in V : w # axis.lower /\ w # axis.upper
  <2>1. SUFFICES ASSUME \A w \in V : w \in {axis.lower} \cup {axis.upper} PROVE FALSE
    OBVIOUS
  <2> DEFINE T == {axis.lower} \cup {axis.upper}
  <2>2. /\ IsFiniteSet({axis.lower}) /\ Cardinality({axis.lower}) = 1
    BY FS_Singleton
  <2>3. IsFiniteSet(T) /\ Cardinality(T) <= 2
    <3>1. IsFiniteSet(T) /\ (axis.upper \in {axis.lower} => Cardinality(T) = 1)
          /\ (axis.upper \notin {axis.lower} => Cardinality(T) = 1 + 1)
      BY <2>2, FS_AddElement
    <3> QED
      BY <3>1
  <2>4. V \subseteq T
    BY <2>1
  <2> HIDE DEF T
  <2>5. Cardinality(V) <= Cardinality(T) /\ Cardinality(V) \in Nat /\ Cardinality(T) \in Nat
    BY <2>3, <2>4, FS_Subset, FS_CardinalityType
  <2> QED
    BY <1>5, <2>3, <2>5
<1>7. w \in Int /\ axis.lower < w /\ w < axis.upper
  <2>1. w \in Int /\ axis.lower \in Int /\ axis.upper \in Int /\ axis.lower <= w /\ w <= axis.upper
    BY <1>4
  <2> QED
    BY <1>6, <2>1
<1>8. \A i \in 1..n : axis.interior[i] \in V
  BY <1>4, <1>5, LenProperties
<1>9. \E v \in V : CountsAt(axis, order, d, v)
  BY <1>2, <1>3, <1>4, <1>5, <1>7, <1>8, AxisCoefficients
<1> QED
  BY <1>9 DEF V, axis, order

(* After a complete grid, every coefficient rests on a measurement.        *)
LEMMA GridInforms ==
  ASSUME AllKept, FittedKept, job.mode = "full", points # <<>>, NEW s \in surface, GridComplete,
         \A i \in DOMAIN points : Averages(s.axes, s.order, points[i])
  PROVE  Informed(s.axes, points, DOMAIN points) = 0..Coefficients(s.axes) - 1
<1> DEFINE n(a) == CoefficientCount(s.axes[a], s.order)
           n1 == n("clock")
           n2 == n("cone")
           n3 == n("freq")
           rows == DOMAIN points
           values(a) == Values(points, rows, a)
<1>1. s.order = SplineOrder /\ Surfaced(s)
  BY DEF FittedKept, AllKept, SurfaceKept
<1>2. Coefficients(s.axes) = n1 * n2 * n3
  BY <1>1 DEF Coefficients
<1>3. Informed(s.axes, points, rows) = UNION {Stencil(s.axes, s.order, points[i]) : i \in rows}
  BY <1>1 DEF Informed
<1>4. \A i \in rows : Stencil(s.axes, s.order, points[i]) \subseteq 0..(n1 * n2 * n3 - 1)
  BY DEF Averages
<1>5. {"clock", "cone", "freq"} = Axes
  BY DEF Axes
<1>6. ASSUME NEW a \in Axes PROVE n(a) \in Nat \ {0}
  <2> DEFINE axis == s.axes[a]
             order == s.order
             K == KnotVector(axis, order)
             m == Len(axis.interior)
  <2>1. AxisKnots(axis, order, K, m)
    BY <1>1, SurfacedKnots
  <2> HIDE DEF K
  <2>2. m \in Nat /\ order \in Nat \ {0}
    BY <2>1 DEF AxisKnots, KnotsClamp
  <2>3. n(a) = m + order
    BY DEF CoefficientCount
  <2> QED
    BY <2>2, <2>3
<1>7. n1 \in Nat \ {0} /\ n2 \in Nat \ {0} /\ n3 \in Nat \ {0}
  BY <1>5, <1>6
<1>8. \A a \in Axes : \A d \in 0..n(a) - 1 :
        \E v \in values(a) : CountsAt(s.axes[a], s.order, d, v)
  <2>1. \A a \in Axes : Cardinality(Values(points, DOMAIN points, a)) > 2
    BY DEF GridComplete
  <2> QED
    BY <2>1, FullAxisCounts
<1>9. ToSet(points) = [clock : values("clock"), cone : values("cone"), freq : values("freq")]
  BY DEF GridComplete
<1>10. ASSUME NEW k \in 0..n1 - 1, NEW c \in 0..n2 - 1, NEW f \in 0..n3 - 1
       PROVE  \E i \in rows : k + n1 * (c + n2 * f) \in Stencil(s.axes, s.order, points[i])
  <2>1. PICK x \in values("clock") : CountsAt(s.axes["clock"], s.order, k, x)
    BY <1>5, <1>8
  <2>2. PICK y \in values("cone") : CountsAt(s.axes["cone"], s.order, c, y)
    BY <1>5, <1>8
  <2>3. PICK z \in values("freq") : CountsAt(s.axes["freq"], s.order, f, z)
    BY <1>5, <1>8
  <2> DEFINE p == [clock |-> x, cone |-> y, freq |-> z]
  <2>4. p \in ToSet(points)
    BY <1>9
  <2>5. PICK i \in rows : points[i] = p
    BY <2>4 DEF ToSet
  <2>6. p["clock"] = x /\ p["cone"] = y /\ p["freq"] = z
    OBVIOUS
  <2> HIDE DEF p, values
  <2>7. /\ k \in ActiveBasis(s.axes["clock"], p["clock"], s.order).indices
        /\ c \in ActiveBasis(s.axes["cone"], p["cone"], s.order).indices
        /\ f \in ActiveBasis(s.axes["freq"], p["freq"], s.order).indices
    BY <2>1, <2>2, <2>3, <2>6 DEF CountsAt
  <2>8. k + n1 * (c + n2 * f) \in Stencil(s.axes, s.order, p)
    BY <2>7 DEF Stencil
  <2> QED
    BY <2>5, <2>8
<1> HIDE DEF n, n1, n2, n3, rows, values
<1>11. ASSUME NEW m \in 0..n1 * n2 * n3 - 1
       PROVE  \E i \in rows : m \in Stencil(s.axes, s.order, points[i])
  <2> DEFINE M == n2 * n3
  <2>1. M \in Nat /\ n1 * M = n1 * n2 * n3
    BY <1>7
  <2>2. m \in 0..n1 * M - 1
    BY <2>1
  <2> HIDE DEF M
  <2>3. PICK k \in 0..n1 - 1, r \in 0..M - 1 : m = k + n1 * r
    BY <1>7, <2>1, <2>2, DigitsExist
  <2>4. r \in 0..n2 * n3 - 1
    BY <2>3 DEF M
  <2>5. PICK c \in 0..n2 - 1, f \in 0..n3 - 1 : r = c + n2 * f
    BY <1>7, <2>4, DigitsExist
  <2> QED
    BY <1>10, <2>3, <2>5
<1>12. Informed(s.axes, points, rows) = 0..(n1 * n2 * n3 - 1)
  BY <1>3, <1>4, <1>11
<1> QED
  BY <1>2, <1>12 DEF rows

(* What was measured is covered; the artifact covers nothing its surface   *)
(* cannot evaluate; served, the surface is, wherever it was measured, an   *)
(* average of coefficients that exist; and after a complete grid they all  *)
(* rest on measurements.                                                   *)
LEMMA SurfacesCover ==
  ASSUME AllKept, FittedKept
  PROVE  SurfaceCovers
<1> SUFFICES ASSUME NEW a \in artifact, NEW wire \in a.surface
             PROVE  LET served == FromModel4D(wire)
                    IN  /\ DomainWithin(a.coverage, SupportOf(wire))
                        /\ \A i \in DOMAIN points : Averages(served.axes, served.order, points[i])
                        /\ job.mode = "full" /\ GridComplete =>
                             Informed(served.axes, points, DOMAIN points)
                               = 0..Coefficients(served.axes) - 1
  BY DEF SurfaceCovers
<1> DEFINE served == FromModel4D(wire)
<1>1. DomainWithin(a.coverage, SupportOf(wire)) /\ points # <<>>
  <2>1. ArtifactSound(a) /\ points # <<>>
    BY DEF AllKept, BuiltKept
  <2> QED
    BY <2>1 DEF ArtifactSound
<1>2. served \in surface
  BY SurfaceServed
<1>3. ASSUME NEW i \in DOMAIN points PROVE Averages(served.axes, served.order, points[i])
  <2>1. /\ Surfaced(served)
        /\ \A x \in Axes : /\ points[i][x] \in Int
                           /\ served.axes[x].lower <= points[i][x]
                           /\ points[i][x] <= served.axes[x].upper
    BY MeasurementsReached
  <2> HIDE DEF served
  <2> QED
    BY <2>1, SurfaceAverages
<1> HIDE DEF served
<1>4. job.mode = "full" /\ GridComplete =>
        Informed(served.axes, points, DOMAIN points) = 0..Coefficients(served.axes) - 1
  BY <1>1, <1>2, <1>3, GridInforms
<1> QED
  BY <1>1, <1>3, <1>4 DEF served

(* What was measured is covered, and covered by what was measured: no row  *)
(* is lost, no direction is covered that the surface cannot evaluate, and  *)
(* at every measurement the served surface is an average of coefficients,  *)
(* which after a complete grid all rest on measurements.                   *)
THEOREM MeasuredAndCovered == Spec => []MeasuredIsCovered
<1>1. AllKept /\ FittedKept => MeasuredIsCovered
  <2>1. ASSUME AllKept, FittedKept PROVE MeasuredIsCovered
    <3>1. SurfaceCovers
      BY <2>1, SurfacesCover
    <3>2. RowsCovered
      BY <2>1, RowsAreCovered
    <3> QED
      BY <3>1, <3>2 DEF MeasuredIsCovered
  <2> QED
    BY <2>1
<1> QED
  BY <1>1, FittedIsKept, PTL
=============================================================================
