------------------------------ MODULE GridProofs ------------------------------
(***************************************************************************)
(* The four invariants of module Grid, for every repository, request and   *)
(* limit: what may be answered, that nothing is evaluated unchecked, that  *)
(* every number of an answer is its own point's and that the summary tells *)
(* the truth.  In this order: arithmetic of rows and columns, the frame,   *)
(* the checks, the grids, one answer's peak and summary, the inductive     *)
(* invariant, and the theorems.                                            *)
(***************************************************************************)
EXTENDS Grid, FiniteSetTheorems, WellFoundedInduction, TLAPS

(* Euclid: quotient and remainder.                                         *)
LEMMA Division ==
  ASSUME NEW n \in Nat, NEW d \in Nat \ {0}
  PROVE  /\ n \div d \in Nat /\ n % d \in 0..d-1
         /\ n = (n \div d) * d + (n % d)
         /\ (n \div d) * d <= n
  OBVIOUS

(* There is one quotient and one remainder.                                *)
LEMMA QuotientUnique ==
  ASSUME NEW d \in Nat \ {0}, NEW p \in Nat, NEW q \in Nat,
         NEW l \in 0..d-1, NEW m \in 0..d-1, p * d + l = q * d + m
  PROVE  p = q /\ l = m
<1>1. ASSUME NEW a \in Nat, NEW b \in Nat, a < b PROVE a * d + d <= b * d
  <2>1. a + 1 <= b
    BY <1>1
  <2>2. PICK k \in Nat : b = a + 1 + k
    <3>1. b - a - 1 \in Nat /\ b = a + 1 + (b - a - 1)
      BY <1>1
    <3> QED BY <3>1
  <2>3. b * d = a * d + d + k * d /\ k * d \in Nat
    BY <2>2
  <2> QED BY <2>3
<1>2. ~(p < q)
  BY <1>1
<1>3. ~(q < p)
  BY <1>1
<1> QED BY <1>2, <1>3

(* A nonempty set of naturals has a least element. *)
LEMMA LeastExists ==
  ASSUME NEW S \in SUBSET Nat, S # {}
  PROVE  \E m \in S : \A k \in S : m <= k
<1>1. PICK m \in S : \A k \in S : <<k, m>> \notin OpToRel(<, Nat)
  BY WFMin, NatLessThanWellFounded, Zenon
<1>2. \A k \in S : ~(k < m)
  BY <1>1, Zenon DEF OpToRel
<1> QED
  BY <1>2

(* The axes of a frame are vectors of the lattice.                         *)
LEMMA AxesTypes ==
  ASSUME NEW pose \in Poses
  PROVE  AxisZ(pose) \in Vectors /\ AxisX(pose) \in Vectors /\ AxisY(pose) \in Vectors
<1>1. AxisZ(pose) \in Vectors
  BY DEF AxisZ, Minus, Vectors, Poses
<1>2. ASSUME NEW z \in Vectors, NEW b \in Vectors
      PROVE  /\ Cross(Reference(z), z) \in Vectors
             /\ Minus(Scale(Dot(z, z), b), Scale(Dot(b, z), z)) \in Vectors
             /\ Cross(z, b) \in Vectors
  <2>1. \A u, v \in Vectors : Cross(u, v) \in Vectors /\ Minus(u, v) \in Vectors
                              /\ Dot(u, v) \in Int
    BY DEF Cross, Minus, Dot, Vectors
  <2>2. \A k \in Int : \A u \in Vectors : Scale(k, u) \in Vectors
    BY DEF Scale, Vectors
  <2>3. Reference(z) \in Vectors
    BY DEF Reference, Vectors
  <2> QED BY <2>1, <2>2, <2>3
<1>3. \A q \in Quaternions : BodyX(q) \in Vectors
  BY DEF BodyX, Quaternions, Vectors
<1>4. AxisX(pose) \in Vectors
  <2>1. CASE pose.attitude = {}
    BY <1>1, <1>2, <2>1 DEF AxisX
  <2>2. CASE pose.attitude # {}
    <3>1. PICK q \in Quaternions : AxisX(pose) =
            Minus(Scale(Dot(AxisZ(pose), AxisZ(pose)), BodyX(q)),
                  Scale(Dot(BodyX(q), AxisZ(pose)), AxisZ(pose)))
      BY <2>2 DEF AxisX, Poses
    <3> QED BY <1>1, <1>2, <1>3, <3>1
  <2> QED BY <2>1, <2>2
<1> QED BY <1>1, <1>2, <1>4 DEF AxisY

(* X and Y are across the boresight, with an attitude or without.          *)
LEMMA AxesCross ==
  ASSUME NEW pose \in Poses
  PROVE  Dot(AxisZ(pose), AxisX(pose)) = 0 /\ Dot(AxisZ(pose), AxisY(pose)) = 0
<1> DEFINE z == AxisZ(pose)
<1>1. z \in Vectors /\ AxisX(pose) \in Vectors
  BY AxesTypes
<1>2. \A v \in Vectors, b \in Vectors :
        /\ Dot(v, Cross(b, v)) = 0
        /\ Dot(v, Cross(v, b)) = 0
  BY DEF Dot, Cross, Vectors
<1>3. \A v \in Vectors, b \in Vectors :
        Dot(v, Minus(Scale(Dot(v, v), b), Scale(Dot(b, v), v))) = 0
  BY DEF Dot, Minus, Scale, Vectors
<1>4. Reference(z) \in Vectors
  BY DEF Reference, Vectors
<1>5. \A q \in Quaternions : BodyX(q) \in Vectors
  BY DEF BodyX, Quaternions, Vectors
<1>6. CASE pose.attitude = {}
  BY <1>1, <1>2, <1>4, <1>6 DEF AxisX, AxisY
<1>7. CASE pose.attitude # {}
  <2>1. PICK q \in Quaternions : AxisX(pose) =
          Minus(Scale(Dot(z, z), BodyX(q)), Scale(Dot(BodyX(q), z), z))
    BY <1>7 DEF AxisX, Poses
  <2> QED BY <1>1, <1>2, <1>3, <1>5, <2>1 DEF AxisY
<1> QED BY <1>6, <1>7

(* So that a boresight has no compass of its own, only a residue.          *)
LEMMA BoresightOnAxis ==
  ASSUME NEW pose \in Poses
  PROVE  OnAxis(pose, pose.boresight)
<1>1. Compass(pose, pose.boresight) =
        <<Sign(Dot(AxisZ(pose), AxisX(pose))), Sign(Dot(AxisZ(pose), AxisY(pose)))>>
  BY DEF Compass, AxisZ
<1> QED
  BY <1>1, AxesCross DEF OnAxis, Sign

(* A compass is a pair of signs.                                           *)
LEMMA CompassType ==
  ASSUME NEW pose \in Poses, NEW target \in Vectors
  PROVE  Compass(pose, target) \in Compasses
<1>1. \A n \in Int : Sign(n) \in -1..1
  BY DEF Sign
<1>2. \A u, v \in Vectors : Dot(u, v) \in Int
  BY DEF Dot, Vectors
<1>3. Minus(target, pose.vehicle) \in Vectors
  BY DEF Minus, Vectors, Poses
<1> QED
  BY <1>1, <1>2, <1>3, AxesTypes DEF Compass, Compasses

(* Where the frame of a pose leaves a known residue, a feed is left in the *)
(* centre for an aim on the axis and no other, and is moved straight       *)
(* across the axis from the aim if the residue is at azimuth zero.         *)
LEMMA SteeringFacts ==
  ASSUME NEW pose \in Poses, <<AxisZ(pose), pose.attitude>> \in DOMAIN Residue
  PROVE  /\ Steering(pose) = Centred <=> OnAxis(pose, pose.aim)
         /\ AtZero(pose) => FeedOpposite(pose, Steering(pose))
<1> DEFINE c == Compass(pose, pose.aim)  r == Residue[<<AxisZ(pose), pose.attitude>>]
<1>1. Clock(pose, pose.boresight) = r
  BY BoresightOnAxis DEF Clock
<1>2. r \in {<<1, 0>>, <<0, 1>>, <<-1, 0>>, <<0, -1>>}
  BY PointingAssumption
<1>3. c \in Compasses
  BY CompassType DEF Poses
<1>4. CASE OnAxis(pose, pose.aim)
  BY <1>4 DEF Steering, AtZero
<1>5. CASE ~OnAxis(pose, pose.aim)
  <2>1. Steering(pose) = Opposite(TurnedBack(c, r)) /\ c # <<0, 0>>
    BY <1>1, <1>5 DEF Steering, Clock, OnAxis
  <2> HIDE DEF c, r
  <2>2. Opposite(TurnedBack(c, r)) # <<0, 0>>
    BY <1>2, <1>3, <2>1 DEF Opposite, TurnedBack, Compasses
  <2>3. r = <<1, 0>> => Opposite(TurnedBack(c, r)) = Opposite(c)
    BY <1>3 DEF Opposite, TurnedBack, Compasses
  <2> QED
    BY <1>1, <1>5, <2>1, <2>2, <2>3 DEF AtZero, FeedOpposite, Centred, c
<1> QED BY <1>4, <1>5

-----------------------------------------------------------------------------
(* Requests by their endpoint. *)
LEMMA RequestShape ==
  ASSUME NEW r \in Requests
  PROVE  /\ r.endpoint \in {"gain", "batch", "heatmap", "h3"}
         /\ r.endpoint \in {"gain", "batch"} => r.items \in Seq(Points)
         /\ r.endpoint = "gain" => Len(r.items) = 1
         /\ r.endpoint = "heatmap" =>
              /\ r.common \in Points /\ r.az \in Ranges /\ r.el \in Ranges
              /\ (r.az.min..r.az.max) \X (r.el.min..r.el.max) \subseteq Directions
         /\ r.endpoint = "h3" =>
              /\ r.common \in Points /\ r.disk \in Seq(Directions)
              /\ \A j, k \in 1..Len(r.disk) : r.disk[j] = r.disk[k] => j = k
              /\ r.rings <= MaxRings => Len(r.disk) \in 1..MaxPoints
<1> DEFINE seqs == Seq(Points)  grid == (r.az.min..r.az.max) \X (r.el.min..r.el.max)
           disks == Seq(Directions)
           apart == \A j, k \in 1..Len(r.disk) : r.disk[j] = r.disk[k] => j = k
<1>1. \/ r \in [endpoint : {"gain"}, items : seqs] /\ Len(r.items) = 1
      \/ r \in [endpoint : {"batch"}, items : seqs]
      \/ /\ r \in [endpoint : {"heatmap"}, common : Points, az : Ranges, el : Ranges]
         /\ grid \subseteq Directions
      \/ /\ r \in [endpoint : {"h3"}, common : Points, rings : Nat, disk : disks]
         /\ apart /\ (r.rings <= MaxRings => Len(r.disk) \in 1..MaxPoints)
  BY RequestsAssumption DEF Request
<1> HIDE DEF seqs, grid, disks, apart
<1>2. /\ r.endpoint \in {"gain", "batch", "heatmap", "h3"}
      /\ r.endpoint \in {"gain", "batch"} => r.items \in seqs
      /\ r.endpoint = "gain" => Len(r.items) = 1
      /\ r.endpoint = "heatmap" =>
           r.common \in Points /\ r.az \in Ranges /\ r.el \in Ranges /\ grid \subseteq Directions
      /\ r.endpoint = "h3" =>
           /\ r.common \in Points /\ r.disk \in disks /\ apart
           /\ r.rings <= MaxRings => Len(r.disk) \in 1..MaxPoints
  BY <1>1
<1> QED
  BY <1>2 DEF seqs, grid, disks, apart

(* What a check may answer about one point. *)
Refusals == {Fault("feed_not_found"), Fault("antenna_not_found"), Fault("validation_error")}

(* A refusal is not a pass.                                                *)
LEMMA RefusalsRefuse == Fine \notin Refusals
  BY DEF Fine, Refusals, Fault

(* The lookup before the task: it passes what the repository holds.        *)
LEMMA ExistsFacts ==
  ASSUME NEW pair
  PROVE  Exists(pair) \in Refusals \cup {Fine} /\ (Exists(pair) = Fine <=> pair \in DOMAIN Served)
  BY DEF Exists, Fine, Fault, Refusals

(* One item passes if it exists and its parameters are in range.           *)
LEMMA GainFacts ==
  ASSUME NEW p \in Points
  PROVE  /\ ValidateGain(p) \in Refusals \cup {Fine}
         /\ ValidateGain(p) = Fine <=> p.pair \in DOMAIN Served /\ p.params
<1>1. ValidParams(p) \in Refusals \cup {Fine} /\ (ValidParams(p) = Fine <=> p.params)
  BY DEF ValidParams, Fine, Fault, Refusals, Points
<1> QED
  BY <1>1, ExistsFacts DEF ValidateGain, Both

(* A batch passes if its size does and all of its items do, and otherwise  *)
(* names an item there is.                                                 *)
LEMMA BatchFacts ==
  ASSUME NEW items \in Seq(Points)
  PROVE  /\ ValidateBatch(items).code \in Codes \cup {"none"}
         /\ ValidateBatch(items).field \in 0..MaxBatch
         /\ ValidateBatch(items) = Fine <=>
              /\ Len(items) \in 1..MaxBatch
              /\ \A k \in 1..Len(items) : items[k].pair \in DOMAIN Served /\ items[k].params
         /\ ValidateBatch(items).code = "none" => ValidateBatch(items) = Fine
<1> DEFINE bad == {k \in 1..Len(items) : ValidateGain(items[k]) # Fine}
<1>1. Len(items) \in Nat /\ (Len(items) = 0 <=> items = <<>>) /\ MaxBatch \in Nat
  BY GridAssumption
<1>2. \A k \in 1..Len(items) : items[k] \in Points
  OBVIOUS
<1>3. bad = {} <=> \A k \in 1..Len(items) : items[k].pair \in DOMAIN Served /\ items[k].params
  BY <1>2, GainFacts
<1>4. CASE Len(items) > MaxBatch \/ items = <<>>
  <2>1. ValidateBatch(items) = Fault("validation_error")
    BY <1>4 DEF ValidateBatch
  <2> QED
    BY <1>1, <1>4, <2>1 DEF Fault, Fine, Codes
<1>5. CASE ~(Len(items) > MaxBatch \/ items = <<>>) /\ bad = {}
  <2>1. ValidateBatch(items) = Fine
    BY <1>5 DEF ValidateBatch
  <2> QED
    BY <1>1, <1>3, <1>5, <2>1 DEF Fine
<1>6. CASE ~(Len(items) > MaxBatch \/ items = <<>>) /\ bad # {}
  <2>1. bad \in SUBSET Nat
    OBVIOUS
  <2>2. \E i \in bad : \A j \in bad : i <= j
    BY <1>6, <2>1, LeastExists
  <2> DEFINE i == CHOOSE i \in bad : \A j \in bad : i <= j
  <2>3. i \in bad
    BY <2>2
  <2>4. ValidateBatch(items) = [ValidateGain(items[i]) EXCEPT !.field = i]
    BY <1>6 DEF ValidateBatch
  <2> HIDE DEF i
  <2>5. ValidateGain(items[i]) \in Refusals /\ i \in 1..Len(items)
    BY <1>2, <2>3, GainFacts
  <2>6. /\ ValidateBatch(items).code \in Codes
        /\ ValidateBatch(items).field = i
    BY <2>4, <2>5 DEF Refusals, Fault, Codes
  <2>7. ValidateBatch(items) # Fine /\ ValidateBatch(items).code # "none"
    BY <2>5, <2>6 DEF Fine, Codes
  <2> QED
    BY <1>1, <1>3, <1>6, <2>5, <2>6, <2>7
<1> QED
  BY <1>4, <1>5, <1>6

-----------------------------------------------------------------------------
(* An axis that was not refused: its points lie between the ends, each is  *)
(* another, and there are no more of them than were counted.               *)
LEMMA AxisFacts ==
  ASSUME NEW range \in Ranges, ValidRange(range)
  PROVE  /\ Axis(range) \in Seq(range.min..range.max)
         /\ Len(Axis(range)) \in Nat \ {0} /\ Len(Axis(range)) <= NumPoints(range)
         /\ NumPoints(range) \in Nat
         /\ \A j, k \in 1..Len(Axis(range)) : Axis(range)[j] = Axis(range)[k] => j = k
<1> DEFINE lo == range.min  step == range.step  span == range.max - range.min
           n == (span \div step) + 1
<1>1. lo \in Int /\ step \in Nat \ {0} /\ span \in Nat
  BY DEF Ranges, ValidRange
<1>2. span \div step \in Nat /\ (span \div step) * step <= span
  <2> HIDE DEF span, step
  <2> QED
    BY <1>1, Division
<1>3. span \div step <= (span + step - 1) \div step
  <2>1. ASSUME NEW a \in Nat, NEW b \in Nat, NEW d \in Nat \ {0}, a <= b
        PROVE  a \div d <= b \div d /\ b \div d \in Nat
    <3>1. /\ a \div d \in Nat /\ a % d \in 0..d-1 /\ a = (a \div d) * d + (a % d)
          /\ b \div d \in Nat /\ b % d \in 0..d-1 /\ b = (b \div d) * d + (b % d)
      BY Division
    <3> HIDE DEF lo, step, span, n
    <3>2. ASSUME b \div d < a \div d PROVE FALSE
      <4> DEFINE p == a \div d  q == b \div d  l == a % d  m == b % d
      <4>1. p \in Nat /\ q \in Nat /\ l \in 0..d-1 /\ m \in 0..d-1 /\ q < p
            /\ p * d + l <= q * d + m
        BY <2>1, <3>1, <3>2
      <4> HIDE DEF p, q, l, m
      <4>2. (p - q) * d <= m - l
        BY <4>1
      <4>3. (p - q - 1) * d \in Nat
        <5>1. p - q - 1 \in Nat
          BY <4>1
        <5> QED BY <5>1
      <4>4. (p - q) * d = (p - q - 1) * d + d
        BY <4>1
      <4> QED
        BY <4>1, <4>2, <4>3, <4>4
    <3> QED
      BY <3>1, <3>2
  <2> QED
    BY <1>1, <2>1
<1>4. NumPoints(range) = ((span + step - 1) \div step) + 1
  BY <1>1 DEF NumPoints, Span
<1>5. Axis(range) = [k \in 1..n |-> lo + (k - 1) * step]
  BY DEF Axis, Span
<1> HIDE DEF lo, step, span, n
<1>6. n \in Nat \ {0} /\ (n - 1) * step <= span
  BY <1>2 DEF n
<1>7. \A k \in 1..n : (k - 1) * step >= 0 /\ (k - 1) * step <= span
  <2> SUFFICES ASSUME NEW k \in 1..n
               PROVE  (k - 1) * step >= 0 /\ (k - 1) * step <= span
    OBVIOUS
  <2>1. k - 1 \in Nat /\ n - k \in Nat
    BY <1>6
  <2>2. (n - k) * step \in Nat /\ (k - 1) * step \in Nat
    BY <1>1, <2>1
  <2>3. (n - 1) * step = (k - 1) * step + (n - k) * step
    BY <1>1, <1>6
  <2> QED
    BY <1>1, <1>6, <2>2, <2>3
<1>8. \A k \in 1..n : lo + (k - 1) * step \in lo..(lo + span)
  BY <1>1, <1>6, <1>7
<1>9. Axis(range) \in Seq(range.min..range.max) /\ Len(Axis(range)) = n
  <2>1. range.min..range.max = lo..(lo + span)
    BY DEF lo, span, Ranges
  <2> DEFINE ends == range.min..range.max
  <2>2. \A k \in 1..n : lo + (k - 1) * step \in ends
    BY <1>8, <2>1
  <2> HIDE DEF ends
  <2>3. Axis(range) \in [1..n -> ends]
    BY <1>5, <2>2
  <2>4. Axis(range) \in Seq(ends) /\ Len(Axis(range)) = n
    BY <1>6, <2>3
  <2> QED
    BY <2>4 DEF ends
<1>10. \A j, k \in 1..n : Axis(range)[j] = Axis(range)[k] => j = k
  <2> SUFFICES ASSUME NEW j \in 1..n, NEW k \in 1..n, Axis(range)[j] = Axis(range)[k]
               PROVE  j = k
    OBVIOUS
  <2>1. (j - 1) * step = (k - 1) * step
    BY <1>1, <1>5, <1>6
  <2>2. j - 1 = k - 1
    <3>1. j - 1 \in Nat /\ k - 1 \in Nat /\ 0 \in 0..step - 1
      BY <1>1, <1>6
    <3>2. (j - 1) * step + 0 = (k - 1) * step + 0
      BY <2>1
    <3> HIDE DEF n
    <3> QED
      BY <1>1, <3>1, <3>2, QuotientUnique
  <2> QED
    BY <1>6, <2>2
<1>11. NumPoints(range) \in Nat
  BY <1>2, <1>3, <1>4, <1>1 DEF span, ValidRange
<1>12. n \in Nat \ {0} /\ n <= NumPoints(range)
  <2> DEFINE m == span \div step  w == (span + step - 1) \div step
  <2>1. m \in Nat /\ m <= w /\ n = m + 1 /\ NumPoints(range) = w + 1
    BY <1>2, <1>3, <1>4 DEF n
  <2>2. w \in Nat
    <3>1. span + step - 1 \in Nat
      BY <1>1
    <3> QED
      BY <1>1, <3>1, Division
  <2> HIDE DEF m, w
  <2> QED
    BY <2>1, <2>2
<1> QED
  BY <1>9, <1>10, <1>11, <1>12

(* A rectangle names every pair of its axes once, row by row.              *)
LEMMA RectangleFacts ==
  ASSUME NEW A, NEW B, NEW az \in Seq(A), NEW el \in Seq(B), az # <<>>
  PROVE  /\ Rectangle(az, el) \in Seq(A \X B)
         /\ Len(Rectangle(az, el)) = Len(az) * Len(el)
         /\ \A r \in 1..Len(el), c \in 1..Len(az) :
              /\ (r - 1) * Len(az) + c \in 1..Len(Rectangle(az, el))
              /\ Rectangle(az, el)[(r - 1) * Len(az) + c] = <<az[c], el[r]>>
         /\ \A k \in 1..Len(Rectangle(az, el)) : \E r \in 1..Len(el), c \in 1..Len(az) :
              k = (r - 1) * Len(az) + c
<1> DEFINE cols == Len(az)  rows == Len(el)  all == cols * rows
<1>1. cols \in Nat \ {0} /\ rows \in Nat
  OBVIOUS
<1>2. all \in Nat
  BY <1>1
<1>3. Rectangle(az, el) =
        [k \in 1..all |-> <<az[((k - 1) % cols) + 1], el[((k - 1) \div cols) + 1]>>]
  BY DEF Rectangle
<1>4. \A k \in 1..all : /\ ((k - 1) % cols) + 1 \in 1..cols
                        /\ ((k - 1) \div cols) + 1 \in 1..rows
                        /\ k = ((k - 1) \div cols) * cols + (((k - 1) % cols) + 1)
  <2> SUFFICES ASSUME NEW k \in 1..all
               PROVE  /\ ((k - 1) % cols) + 1 \in 1..cols
                      /\ ((k - 1) \div cols) + 1 \in 1..rows
                      /\ k = ((k - 1) \div cols) * cols + (((k - 1) % cols) + 1)
    OBVIOUS
  <2>1. k - 1 \in Nat /\ k - 1 < cols * rows
    BY <1>2
  <2> HIDE DEF cols, rows, all
  <2> DEFINE q == (k - 1) \div cols  m == (k - 1) % cols
  <2>2. q \in Nat /\ m \in 0..cols-1 /\ k - 1 = q * cols + m
    BY <1>1, <2>1, Division
  <2> HIDE DEF q, m
  <2>3. q < rows
    <3> SUFFICES ASSUME q >= rows PROVE FALSE
      BY <1>1, <2>2
    <3>1. q - rows \in Nat
      BY <1>1, <2>2
    <3>2. (q - rows) * cols \in Nat /\ q * cols = (q - rows) * cols + rows * cols
      BY <1>1, <2>2, <3>1
    <3> QED
      BY <1>1, <2>1, <2>2, <3>2
  <2>4. m + 1 \in 1..cols /\ q + 1 \in 1..rows /\ k = q * cols + (m + 1)
    BY <1>1, <2>1, <2>2, <2>3
  <2> QED
    BY <2>4, Zenon DEF q, m
<1> HIDE DEF cols, rows, all
<1>5. Rectangle(az, el) \in Seq(A \X B) /\ Len(Rectangle(az, el)) = all
  <2>1. (\A c \in 1..cols : az[c] \in A) /\ (\A r \in 1..rows : el[r] \in B)
    BY DEF cols, rows
  <2>2. \A c \in 1..cols, r \in 1..rows : <<az[c], el[r]>> \in A \X B
    BY <2>1
  <2>3. \A k \in 1..all : <<az[((k - 1) % cols) + 1], el[((k - 1) \div cols) + 1]>> \in A \X B
    BY <1>4, <2>2
  <2>4. Rectangle(az, el) \in [1..all -> A \X B]
    BY <1>3, <2>3
  <2> QED
    BY <1>2, <2>4
<1>6. ASSUME NEW r \in 1..rows, NEW c \in 1..cols
      PROVE  /\ (r - 1) * cols + c \in 1..all
             /\ Rectangle(az, el)[(r - 1) * cols + c] = <<az[c], el[r]>>
  <2> DEFINE k == (r - 1) * cols + c
  <2>1. (r - 1) * cols \in Nat /\ (rows - r) * cols \in Nat
    BY <1>1
  <2>2. all = (r - 1) * cols + cols + (rows - r) * cols
    BY <1>1 DEF all
  <2>3. k \in 1..all
    BY <1>1, <1>2, <2>1, <2>2
  <2> DEFINE q == (k - 1) \div cols  m == (k - 1) % cols
  <2>4. /\ q \in Nat /\ m \in 0..cols-1 /\ k - 1 = q * cols + m
        /\ r - 1 \in Nat /\ c - 1 \in 0..cols-1 /\ k - 1 = (r - 1) * cols + (c - 1)
    <3>1. k - 1 \in Nat
      BY <1>2, <2>3
    <3> HIDE DEF k
    <3>2. q \in Nat /\ m \in 0..cols-1 /\ k - 1 = q * cols + m
      BY <1>1, <3>1, Division
    <3>3. r - 1 \in Nat /\ c - 1 \in 0..cols-1
      BY <1>1
    <3>4. k - 1 = (r - 1) * cols + (c - 1)
      BY <1>1 DEF k
    <3> QED
      BY <3>2, <3>3, <3>4
  <2> HIDE DEF q, m
  <2>5. q = r - 1 /\ m = c - 1
    BY <1>1, <2>4, QuotientUnique
  <2>6. m + 1 = c /\ q + 1 = r
    BY <1>1, <2>5
  <2> HIDE DEF k
  <2>7. Rectangle(az, el)[k] = <<az[m + 1], el[q + 1]>>
    BY <1>3, <2>3 DEF q, m
  <2> QED
    BY <2>3, <2>6, <2>7 DEF k
<1>7. ASSUME NEW k \in 1..all
      PROVE  \E r \in 1..rows, c \in 1..cols : k = (r - 1) * cols + c
  <2> DEFINE r == ((k - 1) \div cols) + 1  c == ((k - 1) % cols) + 1
  <2>1. r \in 1..rows /\ c \in 1..cols /\ k = ((k - 1) \div cols) * cols + c
    BY <1>4
  <2>2. (k - 1) \div cols = r - 1
    <3>1. k - 1 \in Nat
      BY <1>2
    <3> QED BY <1>1, <3>1, Division
  <2> HIDE DEF r, c
  <2> QED
    BY <2>1, <2>2
<1> QED
  BY <1>5, <1>6, <1>7 DEF cols, rows, all

-----------------------------------------------------------------------------
(* A verdict has a code of the vocabulary and the number of an item that   *)
(* may exist; it is that of no fault only if there is none.                *)
LEMMA ValidateFacts ==
  ASSUME NEW r \in Requests
  PROVE  /\ Validate(r).code \in Codes \cup {"none"}
         /\ Validate(r).field \in 0..MaxBatch
         /\ Validate(r).code = "none" => Validate(r) = Fine
<1> DEFINE Sane(v) == /\ v.code \in Codes \cup {"none"} /\ v.field \in 0..MaxBatch
                      /\ v.code = "none" => v = Fine
<1>1. \A v \in Refusals \cup {Fine} : Sane(v)
  BY GridAssumption DEF Refusals, Fault, Fine, Codes
<1>2. CASE r.endpoint = "gain"
  <2>1. r.items[1] \in Points
    BY <1>2, RequestShape
  <2> QED
    BY <1>1, <1>2, <2>1, GainFacts DEF Validate
<1>3. CASE r.endpoint = "batch"
  <2>1. Validate(r) = ValidateBatch(r.items)
    BY <1>3 DEF Validate
  <2> QED
    BY <1>3, <2>1, RequestShape, BatchFacts
<1>4. CASE r.endpoint = "heatmap"
  <2>1. Validate(r) = ValidateHeatmap(r)
    BY <1>4 DEF Validate
  <2>2. ValidateHeatmap(r) \in Refusals \cup {Fine}
    BY <1>4, RequestShape, GainFacts DEF ValidateHeatmap, Both, ValidateGrid, Refusals
  <2> QED
    BY <1>1, <2>1, <2>2
<1>5. CASE r.endpoint = "h3"
  <2>1. Validate(r) = ValidateH3(r)
    BY <1>5 DEF Validate
  <2>2. ValidateH3(r) \in Refusals \cup {Fine}
    BY ExistsFacts DEF ValidateH3, Both, Refusals
  <2> QED
    BY <1>1, <2>1, <2>2
<1> QED
  BY <1>2, <1>3, <1>4, <1>5, RequestShape

(* What is known of every point of a request that was not refused. *)
Checked(p) == p.params /\ p.pair \in DOMAIN Served /\ p.direction \in Directions

(* What placing the emitter leaves alone.                                  *)
LEMMA OfGridFacts ==
  ASSUME NEW p \in Points, NEW d
  PROVE  /\ OfGrid(p, d).pair = p.pair /\ OfGrid(p, d).params = p.params
         /\ OfGrid(p, d).band = p.band /\ OfGrid(p, d).direction = d
         /\ OfCell(p, d).pair = p.pair /\ OfCell(p, d).params = p.params
         /\ OfCell(p, d).band = p.band /\ OfCell(p, d).direction = d
  BY DEF OfGrid, OfCell, Points

(* What passed the check, endpoint by endpoint: the items themselves,       *)
LEMMA ItemsChecked ==
  ASSUME NEW r \in Requests, r.endpoint \in {"gain", "batch"}, Validate(r) = Fine
  PROVE  /\ PointsOf(r) = r.items
         /\ Len(PointsOf(r)) \in 1..(IF r.endpoint = "batch" THEN MaxBatch ELSE 1)
         /\ \A k \in 1..Len(PointsOf(r)) : Checked(PointsOf(r)[k])
<1>1. PointsOf(r) = r.items /\ r.items \in Seq(Points)
  BY RequestShape DEF PointsOf
<1>2. \A k \in 1..Len(r.items) : r.items[k].direction \in Directions
  <2>1. \A k \in 1..Len(r.items) : r.items[k] \in Points
    BY <1>1
  <2>2. \A p \in Points : p.direction \in Directions
    BY DEF Points
  <2> QED
    BY <2>1, <2>2
<1>3. CASE r.endpoint = "gain"
  <2>1. Len(r.items) = 1 /\ ValidateGain(r.items[1]) = Fine
    BY <1>3, RequestShape DEF Validate
  <2>2. r.items[1].pair \in DOMAIN Served /\ r.items[1].params
    BY <1>1, <2>1, GainFacts
  <2> QED
    BY <1>1, <1>2, <1>3, <2>1, <2>2 DEF Checked
<1>4. CASE r.endpoint = "batch"
  <2>1. ValidateBatch(r.items) = Fine
    BY <1>4 DEF Validate
  <2> QED
    BY <1>1, <1>2, <1>4, <2>1, BatchFacts DEF Checked
<1> QED
  BY <1>3, <1>4

(* the grid, whose points are the pairs of two axes, row by row,            *)
LEMMA GridChecked ==
  ASSUME NEW r \in Requests, r.endpoint = "heatmap", Validate(r) = Fine
  PROVE  LET az == Axis(r.az)
             el == Axis(r.el)
             pts == PointsOf(r)
         IN  /\ Len(pts) = Len(az) * Len(el) /\ Len(pts) \in 1..MaxPoints
             /\ Len(az) \in Nat \ {0} /\ Len(el) \in Nat \ {0}
             /\ \A j, k \in 1..Len(az) : az[j] = az[k] => j = k
             /\ \A j, k \in 1..Len(el) : el[j] = el[k] => j = k
             /\ \A row \in 1..Len(el), col \in 1..Len(az) :
                  /\ (row - 1) * Len(az) + col \in 1..Len(pts)
                  /\ pts[(row - 1) * Len(az) + col] = OfGrid(r.common, <<az[col], el[row]>>)
             /\ \A k \in 1..Len(pts) : \E row \in 1..Len(el), col \in 1..Len(az) :
                  k = (row - 1) * Len(az) + col
             /\ \A k \in 1..Len(pts) : Checked(pts[k]) /\ pts[k].pair = r.common.pair
<1> DEFINE az == Axis(r.az)  el == Axis(r.el)  pts == PointsOf(r)
           A == r.az.min..r.az.max  B == r.el.min..r.el.max
<1>1. /\ r.common \in Points /\ r.az \in Ranges /\ r.el \in Ranges /\ A \X B \subseteq Directions
  BY RequestShape
<1>2. ValidateGain(r.common) = Fine /\ ValidateGrid(r.az, r.el) = Fine
  <2>1. ValidateHeatmap(r) = Fine
    BY DEF Validate
  <2> QED
    BY <1>1, <2>1 DEF ValidateHeatmap, Both
<1>3. r.common.pair \in DOMAIN Served /\ r.common.params
  BY <1>1, <1>2, GainFacts
<1>4. /\ ValidRange(r.az) /\ ValidRange(r.el)
      /\ NumPoints(r.az) * NumPoints(r.el) <= MaxPoints
  BY <1>2 DEF ValidateGrid, Fine, Fault
<1>5. /\ az \in Seq(A) /\ Len(az) \in Nat \ {0} /\ Len(az) <= NumPoints(r.az)
      /\ NumPoints(r.az) \in Nat
      /\ \A j, k \in 1..Len(az) : az[j] = az[k] => j = k
  BY <1>1, <1>4, AxisFacts
<1>6. /\ el \in Seq(B) /\ Len(el) \in Nat \ {0} /\ Len(el) <= NumPoints(r.el)
      /\ NumPoints(r.el) \in Nat
      /\ \A j, k \in 1..Len(el) : el[j] = el[k] => j = k
  BY <1>1, <1>4, AxisFacts
<1> DEFINE grid == Rectangle(az, el)
<1> HIDE DEF az, el, A, B
<1>7. /\ grid \in Seq(A \X B) /\ Len(grid) = Len(az) * Len(el)
      /\ \A row \in 1..Len(el), col \in 1..Len(az) :
           /\ (row - 1) * Len(az) + col \in 1..Len(grid)
           /\ grid[(row - 1) * Len(az) + col] = <<az[col], el[row]>>
      /\ \A k \in 1..Len(grid) : \E row \in 1..Len(el), col \in 1..Len(az) :
           k = (row - 1) * Len(az) + col
  <2>1. az # <<>>
    BY <1>5
  <2> QED
    BY <1>5, <1>6, <2>1, RectangleFacts
<1>8. pts = [k \in 1..Len(grid) |-> OfGrid(r.common, grid[k])]
  BY DEF PointsOf, az, el
<1> HIDE DEF grid, pts
<1>9. Len(pts) = Len(grid) /\ \A k \in 1..Len(pts) : pts[k] = OfGrid(r.common, grid[k])
  BY <1>7, <1>8
<1>10. Len(pts) \in 1..MaxPoints
  <2> DEFINE m == Len(az)  n == Len(el)  M == NumPoints(r.az)  N == NumPoints(r.el)
  <2>1. m \in Nat \ {0} /\ n \in Nat \ {0} /\ m <= M /\ n <= N /\ M \in Nat /\ N \in Nat
        /\ M * N <= MaxPoints /\ MaxPoints \in Nat
    BY <1>4, <1>5, <1>6, GridAssumption
  <2> HIDE DEF m, n, M, N
  <2>2. m - 1 \in Nat /\ n - 1 \in Nat /\ M - m \in Nat /\ N - n \in Nat
    BY <2>1
  <2>3. /\ m * n = (m - 1) * (n - 1) + m + n - 1 /\ (m - 1) * (n - 1) \in Nat
        /\ M * N = m * n + (M - m) * n + M * (N - n)
        /\ (M - m) * n \in Nat /\ M * (N - n) \in Nat
    BY <2>1, <2>2
  <2>4. m * n \in 1..MaxPoints
    BY <2>1, <2>3
  <2> QED
    BY <1>7, <1>9, <2>4 DEF m, n
<1>11. \A k \in 1..Len(pts) : Checked(pts[k]) /\ pts[k].pair = r.common.pair
  <2>1. \A k \in 1..Len(grid) : grid[k] \in Directions
    BY <1>1, <1>7 DEF A, B
  <2> QED
    BY <1>1, <1>3, <1>9, <2>1, OfGridFacts DEF Checked
<1> QED
  BY <1>5, <1>6, <1>7, <1>9, <1>10, <1>11 DEF az, el, pts

(* and the disk, cell by cell.                                             *)
LEMMA DiskChecked ==
  ASSUME NEW r \in Requests, r.endpoint = "h3", Validate(r) = Fine
  PROVE  /\ Len(PointsOf(r)) = Len(r.disk) /\ Len(r.disk) \in 1..MaxPoints
         /\ \A k \in 1..Len(r.disk) : PointsOf(r)[k] = OfCell(r.common, r.disk[k])
         /\ \A k \in 1..Len(r.disk) :
              Checked(PointsOf(r)[k]) /\ PointsOf(r)[k].pair = r.common.pair
<1>1. r.common \in Points /\ r.disk \in Seq(Directions)
      /\ (r.rings <= MaxRings => Len(r.disk) \in 1..MaxPoints)
  BY RequestShape
<1>2. r.common.params /\ r.rings <= MaxRings /\ r.common.pair \in DOMAIN Served
  <2>1. ValidateH3(r) = Fine
    BY DEF Validate
  <2>2. r.common.params /\ r.rings <= MaxRings /\ Exists(r.common.pair) = Fine
    BY <2>1 DEF ValidateH3, Both, Fault, Fine
  <2> QED
    BY <2>2, ExistsFacts
<1>3. PointsOf(r) = [k \in 1..Len(r.disk) |-> OfCell(r.common, r.disk[k])]
  BY DEF PointsOf
<1>4. Len(r.disk) \in Nat /\ \A k \in 1..Len(r.disk) : r.disk[k] \in Directions
  BY <1>1
<1>5. Len(PointsOf(r)) = Len(r.disk)
      /\ \A k \in 1..Len(r.disk) : PointsOf(r)[k] = OfCell(r.common, r.disk[k])
  BY <1>3, <1>4
<1> QED
  BY <1>1, <1>2, <1>4, <1>5, OfGridFacts DEF Checked

-----------------------------------------------------------------------------
(* How many there are in a sequence of outcomes, and the best of them.     *)
LEMMA OkAndFailed ==
  ASSUME NEW S, NEW out \in Seq(S)
  PROVE  /\ IsFiniteSet(Ok(out)) /\ IsFiniteSet(Failed(out))
         /\ Cardinality(Ok(out)) \in Nat /\ Cardinality(Failed(out)) \in Nat
         /\ Cardinality(Ok(out)) + Cardinality(Failed(out)) = Len(out)
         /\ Cardinality(Failed(out)) = Len(out) <=> Ok(out) = {}
         /\ Cardinality(Failed(out)) > 0 <=> Failed(out) # {}
<1>1. Len(out) \in Nat /\ 1..Len(out) = Ok(out) \cup Failed(out) /\ Ok(out) \cap Failed(out) = {}
  BY DEF Ok, Failed
<1>2. IsFiniteSet(1..Len(out)) /\ Cardinality(1..Len(out)) = Len(out)
  <2> DEFINE n == Len(out)
  <2>1. n \in Nat
    BY <1>1
  <2> HIDE DEF n
  <2>2. IsFiniteSet(1..n) /\ Cardinality(1..n) = IF 1 > n THEN 0 ELSE n - 1 + 1
    BY <2>1, FS_Interval
  <2>3. Cardinality(1..n) = n
    BY <2>1, <2>2
  <2> QED
    BY <2>2, <2>3 DEF n
<1>3. IsFiniteSet(Ok(out)) /\ IsFiniteSet(Failed(out))
  BY <1>2, FS_Subset DEF Ok, Failed
<1>4. Cardinality(Ok(out)) \in Nat /\ Cardinality(Failed(out)) \in Nat
  BY <1>3, FS_CardinalityType
<1>5. Cardinality(Ok(out)) + Cardinality(Failed(out)) = Len(out)
  <2> DEFINE A == Ok(out)  B == Failed(out)
  <2>1. IsFiniteSet(A) /\ IsFiniteSet(B)
    BY <1>3
  <2>2. Cardinality(A \cup B) = Cardinality(A) + Cardinality(B) - Cardinality(A \cap B)
    BY <2>1, FS_Union
  <2>3. Cardinality(A \cap B) = 0
    BY <1>1, FS_EmptySet
  <2>4. Cardinality(A \cup B) = Len(out)
    BY <1>1, <1>2
  <2> QED
    BY <1>4, <2>2, <2>3, <2>4
<1>6. /\ Cardinality(Ok(out)) = 0 <=> Ok(out) = {}
      /\ Cardinality(Failed(out)) = 0 <=> Failed(out) = {}
  BY <1>3, FS_EmptySet
<1> QED
  BY <1>1, <1>3, <1>4, <1>5, <1>6

(* A gain is a number short of half the sentinel.                          *)
LEMMA GainModest ==
  ASSUME NEW p, Checked(p)
  PROVE  Gain(p) \in Int /\ Modest(Gain(p))
<1> DEFINE c == Served[p.pair]  d == Squint[p.direction]
<1>1. d \in Directions /\ c \in Calibrations
  BY GridAssumption DEF Checked
<1>2. c.physics[d] \in Int /\ c.correction[d] \in Int
  BY <1>1 DEF Calibrations
<1>3. Modest(c.physics[d]) /\ Modest(c.physics[d] + c.correction[d])
  BY <1>1, GridAssumption DEF Checked
<1>4. Gain(p) = c.physics[d] + (IF Disposition(p) = "applied" THEN c.correction[d] ELSE 0)
  BY DEF Gain
<1> HIDE DEF c, d
<1> QED
  BY <1>2, <1>3, <1>4

(* The peak is the gain of an evaluated point and none exceeds it, so that *)
(* losses are not negative and short of the sentinel, which a failed point *)
(* has; without an evaluated point the peak says so.                       *)
LEMMA PeakFacts ==
  ASSUME NEW S, NEW out \in Seq(S), NEW pts, \A k \in 1..Len(out) : Checked(pts[k])
  PROVE  /\ Ok(out) = {} => Peak(pts, out) = -Sentinel
         /\ Ok(out) # {} => /\ Peak(pts, out) \in Int /\ Peak(pts, out) > -Sentinel
                            /\ \E k \in Ok(out) : Loss(pts, out, k) = 0
         /\ \A k \in Ok(out) : /\ Loss(pts, out, k) = Peak(pts, out) - Gain(pts[k])
                               /\ Loss(pts, out, k) >= 0 /\ Loss(pts, out, k) < Sentinel
         /\ \A k \in Failed(out) : Loss(pts, out, k) = Sentinel
<1> DEFINE g == [k \in Ok(out) |-> Gain(pts[k])]
<1>1. \A k \in Ok(out) : g[k] = Gain(pts[k]) /\ g[k] \in Int /\ Modest(g[k])
  BY GainModest DEF Ok
<1>2. Sentinel \in Nat \ {0}
  BY GridAssumption
<1>3. \A k \in Failed(out) : Loss(pts, out, k) = Sentinel
  BY DEF Loss, Ok, Failed
<1>4. CASE Ok(out) = {}
  BY <1>3, <1>4 DEF Peak
<1>5. CASE Ok(out) # {}
  <2> DEFINE below == {n \in Nat : \E k \in Ok(out) : n = Sentinel - g[k]}
  <2>1. \A k \in Ok(out) : Sentinel - g[k] \in below
    BY <1>1, <1>2 DEF Modest
  <2>2. PICK m \in below : \A n \in below : m <= n
    <3>1. below \in SUBSET Nat /\ below # {}
      BY <1>5, <2>1
    <3> HIDE DEF below
    <3> QED
      BY <3>1, LeastExists
  <2>3. PICK top \in Ok(out) : m = Sentinel - g[top]
    BY <2>2
  <2>4. \A j \in Ok(out) : g[top] >= g[j]
    <3> SUFFICES ASSUME NEW j \in Ok(out) PROVE g[top] >= g[j]
      OBVIOUS
    <3>1. Sentinel - g[top] <= Sentinel - g[j]
      BY <2>1, <2>2, <2>3
    <3> QED
      BY <1>1, <1>2, <3>1
  <2> HIDE DEF g, below
  <2> DEFINE best == CHOOSE k \in Ok(out) : \A j \in Ok(out) : Gain(pts[k]) >= Gain(pts[j])
  <2>5. best \in Ok(out) /\ \A j \in Ok(out) : Gain(pts[best]) >= Gain(pts[j])
    <3>1. \A j \in Ok(out) : Gain(pts[top]) >= Gain(pts[j])
      BY <1>1, <2>4
    <3> QED
      BY <3>1
  <2>6. Peak(pts, out) = Gain(pts[best])
    BY <1>5 DEF Peak
  <2> HIDE DEF best
  <2>7. \A k \in Ok(out) : Loss(pts, out, k) = Peak(pts, out) - Gain(pts[k])
    BY DEF Loss
  <2>8. \A k \in Ok(out) : Gain(pts[k]) \in Int /\ Modest(Gain(pts[k]))
    BY <1>1
  <2>9. Peak(pts, out) \in Int /\ Peak(pts, out) > -Sentinel
    BY <1>2, <2>5, <2>6, <2>8 DEF Modest
  <2>10. Loss(pts, out, best) = 0
    BY <2>5, <2>6, <2>7, <2>8
  <2>11. \A k \in Ok(out) : Loss(pts, out, k) >= 0 /\ Loss(pts, out, k) < Sentinel
    <3> SUFFICES ASSUME NEW k \in Ok(out)
                 PROVE  Loss(pts, out, k) >= 0 /\ Loss(pts, out, k) < Sentinel
      OBVIOUS
    <3>1. Loss(pts, out, k) = Gain(pts[best]) - Gain(pts[k])
      BY <2>6, <2>7
    <3>2. /\ Gain(pts[best]) \in Int /\ Gain(pts[k]) \in Int
          /\ Gain(pts[best]) >= Gain(pts[k])
          /\ Modest(Gain(pts[best])) /\ Modest(Gain(pts[k]))
      BY <2>5, <2>8
    <3> QED
      BY <1>2, <3>1, <3>2 DEF Modest
  <2> QED
    BY <1>3, <1>5, <2>5, <2>7, <2>9, <2>10, <2>11
<1> QED
  BY <1>4, <1>5

(* What became of a point's correction, where there is a surface. *)
LEMMA DispositionFacts ==
  ASSUME NEW p, Served[p.pair].surface = TRUE
  PROVE  Disposition(p) \in {"applied", "outside_coverage"}
<1>1. Covers(Served[p.pair], p) \in BOOLEAN
  BY DEF Covers
<1> QED
  BY <1>1 DEF Disposition

(* The summary and the warnings tell one story. *)
LEMMA SummaryFacts ==
  ASSUME NEW S, NEW out \in Seq(S), NEW pts, NEW pair \in DOMAIN Served,
         Len(out) > 0, \A k \in 1..Len(out) : Checked(pts[k]) /\ pts[k].pair = pair
  PROVE  LET said    == Summarize(pts, out)
             skipped == "correction_not_applied" \in Aggregated(pts, out)
         IN  /\ said = "unavailable" <=> ~Served[pair].surface
             /\ said = "all" => Ok(out) # {} /\ ~skipped
             /\ said = "partial" => skipped
             /\ Ok(out) # {} /\ ~skipped /\ said # "unavailable" => said = "all"
<1> DEFINE corrected == {k \in Ok(out) : Disposition(pts[k]) = "applied"}
           skipped == "correction_not_applied" \in Aggregated(pts, out)
<1>1. pts[1].pair = pair /\ Served[pair].surface \in BOOLEAN
  BY GridAssumption DEF Calibrations
<1>2. Summarize(pts, out) =
        IF ~Served[pair].surface THEN "unavailable"
        ELSE IF corrected = {} THEN "none"
        ELSE IF Cardinality(corrected) = Cardinality(Ok(out)) THEN "all" ELSE "partial"
  BY <1>1 DEF Summarize
<1>3. Cardinality(corrected) = Cardinality(Ok(out)) => corrected = Ok(out)
  BY OkAndFailed, FS_Subset
<1>4. skipped <=> \E k \in Ok(out) : Disposition(pts[k]) = "outside_coverage"
  <2>1. \A p : "correction_not_applied" \in Warnings(p) <=> Disposition(p) = "outside_coverage"
    BY DEF Warnings
  <2>2. "correction_not_applied" \notin {w \in {"point_computation_failed"} : Failed(out) # {}}
    OBVIOUS
  <2>3. skipped <=> \E k \in Ok(out) : "correction_not_applied" \in Warnings(pts[k])
    <3> DEFINE said == {Warnings(pts[k]) : k \in Ok(out)}
               failures == {w \in {"point_computation_failed"} : Failed(out) # {}}
    <3>1. Aggregated(pts, out) = (UNION said) \cup failures
      BY DEF Aggregated
    <3>2. skipped <=> \E warnings \in said : "correction_not_applied" \in warnings
      <4>1. "correction_not_applied" \notin failures
        BY <2>2
      <4> HIDE DEF said, failures
      <4>2. \A x : x \in (UNION said) \cup failures <=>
                    x \in failures \/ \E warnings \in said : x \in warnings
        OBVIOUS
      <4> QED
        BY <3>1, <4>1, <4>2
    <3> QED
      BY <3>2
  <2> QED
    BY <2>1, <2>3
<1>5. Served[pair].surface =>
        \A k \in Ok(out) : Disposition(pts[k]) \in {"applied", "outside_coverage"}
  BY <1>1, DispositionFacts DEF Ok
<1> HIDE DEF skipped
<1>6. /\ Summarize(pts, out) = "unavailable" <=> ~Served[pair].surface
      /\ Summarize(pts, out) = "all" => Ok(out) # {} /\ ~skipped
      /\ Summarize(pts, out) = "partial" => skipped
      /\ Ok(out) # {} /\ ~skipped /\ Summarize(pts, out) # "unavailable" =>
           Summarize(pts, out) = "all"
  BY <1>1, <1>2, <1>3, <1>4, <1>5
<1> QED
  BY <1>6 DEF skipped

-----------------------------------------------------------------------------
(* The inductive invariant: nothing is placed before the check; while the  *)
(* points are evaluated the request is one that was not refused, and each  *)
(* point has no outcome yet or one that it may have; an answer refuses     *)
(* what the check refused, refuses what could not be prepared, or is       *)
(* assembled from the outcomes of all points.                              *)
Shaped ==
  /\ Len(slot) = Len(Pts)
  /\ \A k \in 1..Len(slot) : slot[k] = "todo" \/ slot[k] \in Outcomes(Pts[k])

Refused ==
  Validate(request) # Fine /\ slot = <<>> /\ reply = Refuse(Validate(request))

Unprepared ==
  /\ Validate(request) = Fine /\ Shaped
  /\ \E f \in Preparations(request) \ {"none"} : reply = Refuse(Fault(f))

Assembled ==
  /\ Validate(request) = Fine /\ Shaped
  /\ \A k \in 1..Len(slot) : slot[k] # "todo"
  /\ reply = IF request.endpoint = "gain" /\ slot[1] # "ok"
             THEN Refuse(Fault(slot[1]))
             ELSE Accept(Body(request, Pts, slot))

IInv ==
  /\ TypeOK
  /\ phase = "received" => slot = <<>> /\ reply = NoReply
  /\ phase \in {"preparing", "evaluating"} =>
       Validate(request) = Fine /\ Shaped /\ reply = NoReply
  /\ phase = "answered" => Refused \/ Unprepared \/ Assembled

(* A request that was not refused has points, no more than its endpoint    *)
(* takes, all of them checked.                                             *)
LEMMA PointsFacts ==
  ASSUME NEW r \in Requests, Validate(r) = Fine
  PROVE  /\ Len(PointsOf(r)) \in Nat \ {0}
         /\ Len(PointsOf(r)) <= (IF r.endpoint = "batch" THEN MaxBatch ELSE MaxPoints)
         /\ \A k \in 1..Len(PointsOf(r)) : Checked(PointsOf(r)[k])
<1>1. MaxBatch \in Nat /\ MaxPoints \in Nat \ {0}
  BY GridAssumption
<1>2. CASE r.endpoint \in {"gain", "batch"}
  BY <1>1, <1>2, ItemsChecked
<1>3. CASE r.endpoint = "heatmap"
  BY <1>1, <1>3, GridChecked
<1>4. CASE r.endpoint = "h3"
  <2>1. /\ Len(PointsOf(r)) \in 1..MaxPoints
        /\ \A k \in 1..Len(PointsOf(r)) : Checked(PointsOf(r)[k])
    BY <1>4, DiskChecked
  <2> QED
    BY <1>1, <1>4, <2>1
<1> QED
  BY <1>2, <1>3, <1>4, RequestShape

(* The lookup of a checked point does not fail, and only a point whose aim *)
(* can be seen is evaluated.                                               *)
LEMMA OutcomesFacts ==
  ASSUME NEW p, p.pair \in DOMAIN Served
  PROVE  /\ Outcomes(p) \subseteq
              {"ok", "invalid_coordinate", "internal_error", "computation_budget_exceeded"}
         /\ "ok" \in Outcomes(p) => Fault3D(p.pose, p.pose.aim) = "none"
<1>1. \A t : Fault3D(p.pose, t) \in {"none", "invalid_coordinate", "internal_error"}
  BY DEF Fault3D
<1> QED
  BY <1>1 DEF Outcomes

(* What may keep a request from being prepared. *)
LEMMA PreparationsFacts ==
  ASSUME NEW r
  PROVE  Preparations(r) \subseteq {"none", "invalid_coordinate", "internal_error"}
<1>1. \A t : Fault3D(r.common.pose, t) \in {"none", "invalid_coordinate", "internal_error"}
  BY DEF Fault3D
<1> QED
  BY <1>1 DEF Preparations

(* The status of an answer goes with its code. *)
LEMMA RefuseFacts ==
  ASSUME NEW v, v.code \in Codes \cup {"none"}
  PROVE  /\ Refuse(v).status \in {404, 422, 500, 504}
         /\ Refuse(v).code = v.code /\ Refuse(v).field = v.field
         /\ Refuse(v).status = 404 <=> v.code \in {"antenna_not_found", "feed_not_found"}
  BY DEF Refuse, Status, Codes

(* The inductive invariant holds at first, and each action preserves it.    *)
LEMMA InitInvariant == Init => IInv
<1> SUFFICES ASSUME Init PROVE IInv
  OBVIOUS
<1>1. MaxBatch \in Nat
  BY GridAssumption
<1>2. slot \in Seq({"todo", "ok"} \cup Codes)
  BY DEF Init
<1>3. TypeOK
  BY <1>1, <1>2 DEF Init, TypeOK, NoReply
<1> QED
  BY <1>3 DEF Init, IInv

LEMMA CheckStep == IInv /\ ValidateRequest => IInv'
<1> SUFFICES ASSUME IInv, ValidateRequest PROVE IInv'
  OBVIOUS
<1>1. request \in Requests /\ request' = request /\ slot = <<>> /\ reply = NoReply
  BY DEF IInv, TypeOK, ValidateRequest
<1>2. CASE Validate(request) # Fine
  <2>1. reply' = Refuse(Validate(request)) /\ phase' = "answered" /\ slot' = slot
    BY <1>2 DEF ValidateRequest
  <2>2. Refused'
    BY <1>1, <1>2, <2>1 DEF Refused
  <2>3. reply'.status \in {0, 200, 404, 422, 500, 504} /\ reply'.code \in Codes \cup {"none"}
        /\ reply'.field \in 0..MaxBatch
    BY <1>1, <2>1, RefuseFacts, ValidateFacts
  <2>4. TypeOK'
    BY <1>1, <2>1, <2>3 DEF TypeOK, IInv
  <2> QED
    BY <2>1, <2>2, <2>4 DEF IInv
<1>3. CASE Validate(request) = Fine
  <2> DEFINE n == Len(Pts)
  <2>1. /\ phase' = "preparing" /\ reply' = reply /\ n \in Nat
        /\ slot' = [k \in 1..n |-> "todo"]
    BY <1>1, <1>3, PointsFacts DEF ValidateRequest, Pts
  <2> DEFINE outcomes == {"todo", "ok"} \cup Codes
  <2>2. slot' \in Seq(outcomes) /\ Len(slot') = n /\ \A k \in 1..n : slot'[k] = "todo"
    <3> HIDE DEF n
    <3>1. slot' \in [1..n -> outcomes]
      BY <2>1
    <3> QED
      BY <2>1, <3>1
  <2>3. Pts' = Pts
    BY <1>1 DEF Pts
  <2>4. Shaped'
    BY <2>2, <2>3 DEF Shaped
  <2>5. TypeOK'
    BY <1>1, <2>1, <2>2 DEF TypeOK, IInv
  <2> QED
    BY <1>1, <1>3, <2>1, <2>4, <2>5 DEF IInv
<1> QED
  BY <1>2, <1>3

LEMMA PrepareStep == IInv /\ Prepare => IInv'
<1> SUFFICES ASSUME IInv, Prepare PROVE IInv'
  OBVIOUS
<1>1. /\ request' = request /\ slot' = slot /\ Pts' = Pts
      /\ Validate(request) = Fine /\ Shaped /\ Shaped' /\ reply = NoReply
  BY DEF IInv, Prepare, Shaped, Pts
<1>2. PICK f \in Preparations(request) :
        \/ f # "none" /\ reply' = Refuse(Fault(f)) /\ phase' = "answered"
        \/ f = "none" /\ phase' = "evaluating" /\ UNCHANGED reply
  BY DEF Prepare
<1>3. CASE f # "none"
  <2>1. f \in {"invalid_coordinate", "internal_error"}
    BY <1>2, <1>3, PreparationsFacts
  <2>2. reply' = Refuse(Fault(f)) /\ phase' = "answered"
    BY <1>2, <1>3
  <2>3. Unprepared'
    BY <1>1, <1>2, <1>3, <2>2 DEF Unprepared
  <2>4. Fault(f).code = f /\ Fault(f).field = 0 /\ f \in Codes
    BY <2>1 DEF Fault, Codes
  <2>5. reply'.status \in {404, 422, 500, 504} /\ reply'.code = f /\ reply'.field = 0
    BY <2>2, <2>4, RefuseFacts
  <2>6. 0 \in 0..MaxBatch
    BY GridAssumption
  <2>7. TypeOK'
    BY <1>1, <2>2, <2>4, <2>5, <2>6 DEF TypeOK, IInv
  <2> QED
    BY <2>2, <2>3, <2>7 DEF IInv
<1>4. CASE f = "none"
  BY <1>1, <1>2, <1>4 DEF IInv, TypeOK
<1> QED
  BY <1>3, <1>4

LEMMA EvaluateStep ==
  ASSUME IInv, NEW k \in 1..Len(slot), EvaluatePoint(k)
  PROVE  IInv'
<1>1. /\ request \in Requests /\ request' = request /\ phase' = phase /\ reply' = reply
      /\ Pts' = Pts /\ phase = "evaluating" /\ Validate(request) = Fine /\ Shaped
  BY DEF IInv, TypeOK, EvaluatePoint, Pts
<1>2. PICK outcome \in Outcomes(Pts[k]) : slot' = [slot EXCEPT ![k] = outcome]
  BY DEF EvaluatePoint, Pts
<1>3. Checked(Pts[k])
  BY <1>1, PointsFacts DEF Shaped, Pts
<1>4. outcome \in {"ok"} \cup Codes
  BY <1>2, <1>3, OutcomesFacts DEF Checked, Codes
<1> DEFINE outcomes == {"todo", "ok"} \cup Codes
<1>5. slot \in Seq(outcomes)
  BY DEF IInv, TypeOK
<1>6. slot' \in Seq(outcomes) /\ Len(slot') = Len(slot)
  <2> HIDE DEF outcomes
  <2>1. outcome \in outcomes
    BY <1>4 DEF outcomes
  <2> QED
    BY <1>2, <1>5, <2>1
<1>7. Shaped'
  BY <1>1, <1>2, <1>5, <1>6 DEF Shaped
<1>8. TypeOK'
  BY <1>1, <1>6 DEF TypeOK, IInv
<1> QED
  BY <1>1, <1>7, <1>8 DEF IInv

LEMMA AssembleStep == IInv /\ Assemble => IInv'
<1> SUFFICES ASSUME IInv, Assemble PROVE IInv'
  OBVIOUS
<1>1. /\ request \in Requests /\ request' = request /\ slot' = slot /\ Pts' = Pts
      /\ phase' = "answered" /\ Validate(request) = Fine /\ Shaped /\ Shaped'
  BY DEF IInv, TypeOK, Assemble, Shaped, Pts
<1>2. \A k \in 1..Len(slot) : slot[k] # "todo"
  BY DEF Assemble
<1>3. Assembled'
  BY <1>1, <1>2 DEF Assembled, Assemble, Pts
<1>4. 0 \in 0..MaxBatch
  BY GridAssumption
<1>5. reply'.status \in {200, 404, 422, 500, 504} /\ reply'.code \in Codes \cup {"none"}
      /\ reply'.field = 0
  <2>1. CASE request.endpoint = "gain" /\ slot[1] # "ok"
    <3>1. Len(slot) = 1 /\ Checked(Pts[1])
      BY <1>1, <2>1, ItemsChecked, PointsFacts DEF Shaped, Pts
    <3>2. slot[1] \in Outcomes(Pts[1])
      BY <1>1, <1>2, <3>1 DEF Shaped
    <3>3. slot[1] \in Codes
      BY <2>1, <3>1, <3>2, OutcomesFacts DEF Checked, Codes
    <3>4. reply' = Refuse(Fault(slot[1])) /\ Fault(slot[1]).code = slot[1]
          /\ Fault(slot[1]).field = 0
      BY <2>1 DEF Assemble, Fault
    <3> QED
      BY <3>3, <3>4, RefuseFacts
  <2>2. CASE ~(request.endpoint = "gain" /\ slot[1] # "ok")
    <3>1. reply' = Accept(Body(request, Pts, slot))
      BY <2>2 DEF Assemble, Pts
    <3> QED
      BY <3>1 DEF Accept
  <2> QED
    BY <2>1, <2>2
<1>6. TypeOK'
  BY <1>1, <1>4, <1>5 DEF TypeOK, IInv
<1> QED
  BY <1>1, <1>3, <1>6 DEF IInv

(* The invariant is inductive. *)
THEOREM Inductive == Spec => []IInv
<1>1. IInv /\ [Next]_vars => IInv'
  <2> SUFFICES ASSUME IInv, [Next]_vars PROVE IInv'
    OBVIOUS
  <2>1. CASE ValidateRequest
    BY <2>1, CheckStep
  <2>2. CASE Prepare
    BY <2>2, PrepareStep
  <2>3. CASE Assemble
    BY <2>3, AssembleStep
  <2>4. ASSUME NEW k \in 1..Len(slot), EvaluatePoint(k) PROVE IInv'
    BY <2>4, EvaluateStep
  <2>5. CASE UNCHANGED vars
    BY <2>5 DEF vars, IInv, TypeOK, Shaped, Pts, Refused, Unprepared, Assembled
  <2> QED
    BY <2>1, <2>2, <2>3, <2>4, <2>5 DEF Next
<1> QED
  BY <1>1, InitInvariant, PTL DEF Spec

(* The vocabulary of answers: a status the API has, a code of its list,    *)
(* and for a batch the number of an item there is.                         *)
THEOREM TypeCorrect == Spec => []TypeOK
<1>1. IInv => TypeOK
  BY DEF IInv
<1> QED
  BY <1>1, Inductive, PTL

-----------------------------------------------------------------------------
(* An answer that is not a refusal was assembled from the outcomes of all  *)
(* the points of a request that was not refused.                           *)
LEMMA AnsweredFacts ==
  ASSUME IInv, phase = "answered", reply.status = 200
  PROVE  /\ request \in Requests /\ Validate(request) = Fine
         /\ Len(slot) = Len(Pts) /\ Len(slot) > 0
         /\ \A k \in 1..Len(slot) : Checked(Pts[k]) /\ slot[k] \in Outcomes(Pts[k])
                                    /\ slot[k] # "none"
         /\ slot \in Seq({"todo", "ok"} \cup Codes)
         /\ reply.body = Body(request, Pts, slot)
<1>1. request \in Requests /\ slot \in Seq({"todo", "ok"} \cup Codes)
  BY DEF IInv, TypeOK
<1>2. ~Refused
  <2> SUFFICES ASSUME Refused PROVE FALSE
    OBVIOUS
  <2>1. Refuse(Validate(request)).status \in {404, 422, 500, 504}
    BY <1>1, RefuseFacts, ValidateFacts
  <2> QED
    BY <2>1 DEF Refused
<1>3. ASSUME NEW f \in Codes PROVE reply # Refuse(Fault(f))
  <2>1. Refuse(Fault(f)).status \in {404, 422, 500, 504}
    <3>1. Fault(f).code \in Codes \cup {"none"}
      BY DEF Fault
    <3> QED
      BY <3>1, RefuseFacts
  <2> QED
    BY <2>1
<1>4. ~Unprepared
  <2> SUFFICES ASSUME Unprepared PROVE FALSE
    OBVIOUS
  <2>1. PICK f \in Preparations(request) : f # "none" /\ reply = Refuse(Fault(f))
    BY DEF Unprepared
  <2>2. f \in Codes
    BY <2>1, PreparationsFacts DEF Codes
  <2> QED
    BY <1>3, <2>1, <2>2
<1>5. /\ Assembled /\ Validate(request) = Fine /\ Len(slot) = Len(Pts)
      /\ \A k \in 1..Len(slot) : slot[k] \in Outcomes(Pts[k])
  BY <1>2, <1>4 DEF IInv, Assembled, Shaped
<1>6. Len(slot) > 0 /\ \A k \in 1..Len(slot) : Checked(Pts[k])
  BY <1>1, <1>5, PointsFacts DEF Pts
<1>7. \A k \in 1..Len(slot) :
        slot[k] \in {"ok", "invalid_coordinate", "internal_error", "computation_budget_exceeded"}
  BY <1>5, <1>6, OutcomesFacts DEF Checked
<1>8. ~(request.endpoint = "gain" /\ slot[1] # "ok")
  <2> SUFFICES ASSUME request.endpoint = "gain", slot[1] # "ok" PROVE FALSE
    OBVIOUS
  <2>1. 1 \in 1..Len(slot)
    BY <1>1, <1>6
  <2>2. slot[1] \in Codes
    BY <1>7, <2>1 DEF Codes
  <2>3. reply = Refuse(Fault(slot[1]))
    BY <1>5 DEF Assembled
  <2> QED
    BY <1>3, <2>2, <2>3
<1>9. reply.body = Body(request, Pts, slot)
  BY <1>5, <1>8 DEF Assembled, Accept
<1>10. \A k \in 1..Len(slot) : slot[k] # "none"
  BY <1>7
<1> QED
  BY <1>1, <1>5, <1>6, <1>9, <1>10

(* No physics for what is refused: every point of a request that is        *)
(* evaluated was checked, no lookup fails after the check, a 404 is said   *)
(* before there is a point, and no more are evaluated than the limit.      *)
THEOREM ChecksFirst == Spec => []CheckedFirst
<1>1. IInv => CheckedFirst
  <2> SUFFICES ASSUME IInv PROVE CheckedFirst
    OBVIOUS
  <2>1. request \in Requests /\ slot \in Seq({"todo", "ok"} \cup Codes)
        /\ MaxBatch \in Nat /\ MaxPoints \in Nat
    BY GridAssumption DEF IInv, TypeOK
  <2>2. CASE slot = <<>>
    BY <2>1, <2>2 DEF CheckedFirst
  <2>3. CASE slot # <<>>
    <3>1. Validate(request) = Fine /\ Shaped
      BY <2>3 DEF IInv, TypeOK, Refused, Unprepared, Assembled
    <3>2. \A k \in 1..Len(slot) : Checked(Pts[k])
      BY <2>1, <3>1, PointsFacts DEF Shaped, Pts
    <3>3. \A k \in 1..Len(slot) : Pts[k].params
            /\ slot[k] \notin {"antenna_not_found", "feed_not_found", "validation_error"}
      BY <3>1, <3>2, OutcomesFacts DEF Checked, Shaped
    <3>4. Len(slot) <= (IF request.endpoint = "batch" THEN MaxBatch ELSE MaxPoints)
      BY <2>1, <3>1, PointsFacts DEF Shaped, Pts
    <3>5. ~(phase = "answered" /\ reply.status = 404)
      <4> SUFFICES ASSUME phase = "answered", reply.status = 404 PROVE FALSE
        OBVIOUS
      <4>1. CASE Refused
        BY <2>3, <4>1 DEF Refused
      <4>2. ASSUME NEW f \in {"invalid_coordinate", "internal_error",
                              "computation_budget_exceeded"}
            PROVE  reply # Refuse(Fault(f))
        <5>1. Fault(f).code = f /\ f \in Codes
          BY DEF Fault, Codes
        <5> QED
          BY <5>1, RefuseFacts
      <4>3. CASE Unprepared
        <5>1. PICK f \in Preparations(request) : f # "none" /\ reply = Refuse(Fault(f))
          BY <4>3 DEF Unprepared
        <5>2. f \in {"invalid_coordinate", "internal_error"}
          BY <5>1, PreparationsFacts
        <5> QED
          BY <4>2, <5>1, <5>2
      <4>4. CASE Assembled /\ ~(request.endpoint = "gain" /\ slot[1] # "ok")
        BY <4>4 DEF Assembled, Accept
      <4>5. CASE Assembled /\ request.endpoint = "gain" /\ slot[1] # "ok"
        <5>1. Len(slot) \in Nat \ {0} /\ slot[1] # "todo"
          BY <2>1, <3>1, <4>5, PointsFacts DEF Shaped, Pts, Assembled
        <5>2. slot[1] \in Outcomes(Pts[1]) /\ Checked(Pts[1])
          BY <3>1, <3>2, <5>1 DEF Shaped
        <5>3. slot[1] \in {"invalid_coordinate", "internal_error", "computation_budget_exceeded"}
          BY <4>5, <5>2, OutcomesFacts DEF Checked
        <5>4. reply = Refuse(Fault(slot[1]))
          BY <4>5 DEF Assembled
        <5> QED
          BY <4>2, <5>3, <5>4
      <4> QED
        BY <4>1, <4>3, <4>4, <4>5 DEF IInv
    <3> QED
      BY <3>3, <3>4, <3>5 DEF CheckedFirst
  <2> QED
    BY <2>2, <2>3
<1> QED
  BY <1>1, Inductive, PTL

-----------------------------------------------------------------------------
(* Whether points failed can be read off the warnings. *)
LEMMA AggregatedFacts ==
  ASSUME NEW pts, NEW out
  PROVE  "point_computation_failed" \in Aggregated(pts, out) <=> Failed(out) # {}
<1> DEFINE said == {Warnings(pts[k]) : k \in Ok(out)}
           failures == {w \in {"point_computation_failed"} : Failed(out) # {}}
<1>1. Aggregated(pts, out) = (UNION said) \cup failures
  BY DEF Aggregated
<1>2. \A warnings \in said : "point_computation_failed" \notin warnings
  <2>1. \A p : "point_computation_failed" \notin Warnings(p)
    BY DEF Warnings
  <2> QED
    BY <2>1
<1>3. "point_computation_failed" \in failures <=> Failed(out) # {}
  OBVIOUS
<1> HIDE DEF said, failures
<1>4. \A x : x \in (UNION said) \cup failures <=>
               x \in failures \/ \E warnings \in said : x \in warnings
  OBVIOUS
<1> QED
  BY <1>1, <1>2, <1>3, <1>4

(* The table of a heatmap holds each point's loss in the row and column of *)
(* the point's angles.                                                     *)
LEMMA TableFacts ==
  ASSUME NEW r \in Requests, r.endpoint = "heatmap", Validate(r) = Fine,
         NEW S, NEW out \in Seq(S), Len(out) = Len(PointsOf(r))
  PROVE  LET pts  == PointsOf(r)
             body == HeatmapBody(r, pts, out)
             rows == Len(Axis(r.el))
             cols == Len(Axis(r.az))
         IN  /\ Len(body.loss) = rows
             /\ \A row \in 1..rows : Len(body.loss[row]) = cols
             /\ \A row \in 1..rows, col \in 1..cols :
                  body.loss[row][col] = Loss(pts, out, (row - 1) * cols + col)
             /\ Losses(body, "heatmap") = {Loss(pts, out, k) : k \in 1..Len(out)}
<1> DEFINE pts == PointsOf(r)  body == HeatmapBody(r, pts, out)
           rows == Len(Axis(r.el))  cols == Len(Axis(r.az))
           loss == [k \in 1..Len(out) |-> Loss(pts, out, k)]
<1>1. /\ rows \in Nat \ {0} /\ cols \in Nat \ {0} /\ Len(out) \in Nat
      /\ \A row \in 1..rows, col \in 1..cols : (row - 1) * cols + col \in 1..Len(out)
      /\ \A k \in 1..Len(out) : \E row \in 1..rows, col \in 1..cols : k = (row - 1) * cols + col
  <2>1. /\ Len(pts) \in 1..MaxPoints /\ rows \in Nat \ {0} /\ cols \in Nat \ {0}
        /\ \A row \in 1..rows, col \in 1..cols : (row - 1) * cols + col \in 1..Len(pts)
        /\ \A k \in 1..Len(pts) : \E row \in 1..rows, col \in 1..cols :
             k = (row - 1) * cols + col
    BY GridChecked
  <2>2. Len(pts) = Len(out) /\ Len(out) \in Nat
    OBVIOUS
  <2> HIDE DEF pts, rows, cols
  <2> QED
    BY <2>1, <2>2
<1>2. body.loss = [row \in 1..rows |-> [col \in 1..cols |-> loss[((row - 1) * cols) + col]]]
  BY DEF HeatmapBody, Reshape
<1> HIDE DEF body, rows, cols, pts
<1>3. Len(body.loss) = rows /\ \A row \in 1..rows : Len(body.loss[row]) = cols
  BY <1>1, <1>2
<1>4. \A row \in 1..rows, col \in 1..cols :
        body.loss[row][col] = Loss(pts, out, (row - 1) * cols + col)
  <2> SUFFICES ASSUME NEW row \in 1..rows, NEW col \in 1..cols
               PROVE  body.loss[row][col] = Loss(pts, out, (row - 1) * cols + col)
    OBVIOUS
  <2>1. body.loss[row][col] = loss[(row - 1) * cols + col]
    BY <1>2
  <2> QED
    BY <1>1, <2>1
<1>5. Losses(body, "heatmap") =
        UNION {{body.loss[row][col] : col \in 1..cols} : row \in 1..rows}
  <2>1. Losses(body, "heatmap") =
          UNION {{body.loss[row][col] : col \in 1..Len(body.loss[row])} :
                   row \in 1..Len(body.loss)}
    BY DEF Losses
  <2> DEFINE Row(row, n) == {body.loss[row][col] : col \in 1..n}
  <2>2. \A row \in 1..rows : Row(row, Len(body.loss[row])) = Row(row, cols)
    BY <1>3
  <2>3. {Row(row, Len(body.loss[row])) : row \in 1..rows} = {Row(row, cols) : row \in 1..rows}
    <3> HIDE DEF Row
    <3> QED
      BY <2>2
  <2> QED
    BY <1>3, <2>1, <2>3
<1>6. Losses(body, "heatmap") = {Loss(pts, out, k) : k \in 1..Len(out)}
  <2>1. ASSUME NEW l \in Losses(body, "heatmap")
        PROVE  l \in {Loss(pts, out, k) : k \in 1..Len(out)}
    <3>1. PICK row \in 1..rows : \E col \in 1..cols : l = body.loss[row][col]
      BY <1>5, <2>1
    <3>2. PICK col \in 1..cols : l = body.loss[row][col]
      BY <3>1
    <3> QED
      BY <1>1, <1>4, <3>2
  <2>2. ASSUME NEW k \in 1..Len(out) PROVE Loss(pts, out, k) \in Losses(body, "heatmap")
    <3>1. PICK row \in 1..rows, col \in 1..cols : k = (row - 1) * cols + col
      BY <1>1
    <3>2. Loss(pts, out, k) = body.loss[row][col]
      BY <1>4, <3>1
    <3> QED
      BY <1>5, <3>2
  <2> QED
    BY <2>1, <2>2
<1> QED
  BY <1>3, <1>4, <1>6 DEF body, rows, cols, pts

(* What a summary counts, and the losses that go with it.                  *)
LEMMA HonestFacts ==
  ASSUME NEW S, NEW out \in Seq(S), NEW pts, Len(out) > 0,
         \A k \in 1..Len(out) : Checked(pts[k])
  PROVE  LET s == Summary(pts, out)
         IN  /\ s.evaluated = Len(out)
             /\ s.evaluated = s.failed + Cardinality(Ok(out))
             /\ (s.failed = s.evaluated) <=> (s.peak = -Sentinel)
             /\ s.failed < s.evaluated <=> Ok(out) # {}
             /\ Ok(out) # {} => \E k \in Ok(out) : Loss(pts, out, k) = 0
             /\ \A k \in 1..Len(out) : Loss(pts, out, k) # Sentinel => Loss(pts, out, k) >= 0
             /\ s.failed > 0 <=> "point_computation_failed" \in Aggregated(pts, out)
<1> DEFINE s == Summary(pts, out)
<1>1. s.evaluated = Len(out) /\ s.failed = Cardinality(Failed(out)) /\ s.peak = Peak(pts, out)
  BY DEF Summary
<1>2. /\ Len(out) \in Nat /\ Cardinality(Ok(out)) \in Nat /\ Cardinality(Failed(out)) \in Nat
      /\ Cardinality(Ok(out)) + Cardinality(Failed(out)) = Len(out)
      /\ Cardinality(Failed(out)) = Len(out) <=> Ok(out) = {}
      /\ Cardinality(Failed(out)) > 0 <=> Failed(out) # {}
  <2>1. Len(out) \in Nat
    OBVIOUS
  <2> QED
    BY <2>1, OkAndFailed
<1>3. Sentinel \in Nat \ {0}
  BY GridAssumption
<1>4. /\ Ok(out) = {} => Peak(pts, out) = -Sentinel
      /\ Ok(out) # {} => /\ Peak(pts, out) \in Int /\ Peak(pts, out) > -Sentinel
                         /\ \E k \in Ok(out) : Loss(pts, out, k) = 0
      /\ \A k \in Ok(out) : Loss(pts, out, k) >= 0
      /\ \A k \in Failed(out) : Loss(pts, out, k) = Sentinel
  BY PeakFacts
<1>5. Ok(out) # {} => \E k \in Ok(out) : Loss(pts, out, k) = 0
  BY <1>4
<1>6. \A k \in 1..Len(out) : Loss(pts, out, k) # Sentinel => Loss(pts, out, k) >= 0
  BY <1>4 DEF Ok, Failed
<1>7. s.failed > 0 <=> "point_computation_failed" \in Aggregated(pts, out)
  BY <1>1, <1>2, AggregatedFacts
<1> HIDE DEF s
<1>8. (s.failed = s.evaluated) <=> (s.peak = -Sentinel)
  BY <1>1, <1>2, <1>3, <1>4
<1>9. s.failed < s.evaluated <=> Ok(out) # {}
  BY <1>1, <1>2
<1>10. s.evaluated = s.failed + Cardinality(Ok(out))
  BY <1>1, <1>2
<1> QED
  BY <1>1, <1>2, <1>5, <1>6, <1>7, <1>8, <1>9, <1>10 DEF s

(* A failed point costs only itself, and summary and warnings tell one     *)
(* story of the points that were evaluated.                                *)
THEOREM Honest == Spec => []SummaryHonest
<1>1. IInv => SummaryHonest
  <2> SUFFICES ASSUME IInv PROVE SummaryHonest
    OBVIOUS
  <2>1. ASSUME Answered("batch")
        PROVE  reply.body.failures =
                 Cardinality({k \in 1..Len(reply.body.results) :
                                reply.body.results[k].error # "none"})
    <3>1. /\ slot \in Seq({"todo", "ok"} \cup Codes) /\ reply.body = BatchBody(Pts, slot)
          /\ \A k \in 1..Len(slot) : slot[k] # "none"
      BY <2>1, AnsweredFacts DEF Answered, Body
    <3> DEFINE results == reply.body.results
    <3>2. results = [k \in 1..Len(slot) |-> Item(Pts[k], slot[k])] /\ Len(slot) \in Nat
      BY <3>1 DEF BatchBody
    <3>3. Len(results) = Len(slot)
      BY <3>2
    <3>4. \A k \in 1..Len(slot) : results[k].error # "none" <=> slot[k] # "ok"
      BY <3>1, <3>2 DEF Item
    <3>5. {k \in 1..Len(results) : results[k].error # "none"} = Failed(slot)
      <4> HIDE DEF results
      <4> QED
        BY <3>3, <3>4 DEF Failed
    <3>6. reply.body.failures = Cardinality(Failed(slot))
      BY <3>1 DEF BatchBody
    <3> QED
      BY <3>5, <3>6
  <2>2. ASSUME NEW e \in {"heatmap", "h3"}, Answered(e)
        PROVE  /\ reply.body.summary = Summary(Pts, slot)
               /\ \A k \in Ok(slot) : Loss(Pts, slot, k) \in Losses(reply.body, e)
               /\ \A l \in Losses(reply.body, e) : \E k \in 1..Len(slot) : l = Loss(Pts, slot, k)
               /\ e = "h3" => DOMAIN reply.body.cells = Ok(slot)
               /\ \A w \in {"point_computation_failed", "correction_not_applied"} :
                    w \in reply.body.warnings <=> w \in Aggregated(Pts, slot)
    <3>1. /\ request \in Requests /\ Validate(request) = Fine /\ Len(slot) = Len(Pts)
          /\ slot \in Seq({"todo", "ok"} \cup Codes) /\ reply.body = Body(request, Pts, slot)
          /\ request.endpoint = e
      BY <2>2, AnsweredFacts DEF Answered
    <3>2. CASE e = "heatmap"
      <4>1. reply.body = HeatmapBody(request, Pts, slot)
        BY <3>1, <3>2 DEF Body
      <4>2. Losses(reply.body, e) = {Loss(Pts, slot, k) : k \in 1..Len(slot)}
        BY <3>1, <3>2, <4>1, TableFacts DEF Pts
      <4>3. \A w \in {"point_computation_failed", "correction_not_applied"} :
              w \in reply.body.warnings <=> w \in Aggregated(Pts, slot)
        <5> DEFINE beyond == {w \in {"points_extrapolated"} :
                                \E k \in Ok(slot) : Extrapolated(Pts[k])}
        <5>1. reply.body.warnings = Aggregated(Pts, slot) \cup beyond
          BY <4>1 DEF HeatmapBody
        <5>2. "point_computation_failed" \notin beyond /\ "correction_not_applied" \notin beyond
          OBVIOUS
        <5> HIDE DEF beyond
        <5> QED
          BY <5>1, <5>2
      <4> QED
        BY <3>2, <4>1, <4>2, <4>3 DEF HeatmapBody, Ok
    <3>3. CASE e = "h3"
      <4>1. reply.body = H3Body(Pts, slot)
        BY <3>1, <3>3 DEF Body
      <4>2. DOMAIN reply.body.cells = Ok(slot)
            /\ \A k \in Ok(slot) : reply.body.cells[k].loss = Loss(Pts, slot, k)
        BY <4>1 DEF H3Body
      <4>3. Losses(reply.body, e) = {Loss(Pts, slot, k) : k \in Ok(slot)}
        BY <3>3, <4>2 DEF Losses
      <4>4. reply.body.summary = Summary(Pts, slot)
            /\ reply.body.warnings = Aggregated(Pts, slot)
        BY <4>1 DEF H3Body
      <4>5. \A k \in Ok(slot) : k \in 1..Len(slot)
        BY DEF Ok
      <4>6. /\ \A k \in Ok(slot) : Loss(Pts, slot, k) \in Losses(reply.body, e)
            /\ \A l \in Losses(reply.body, e) : \E k \in 1..Len(slot) : l = Loss(Pts, slot, k)
        BY <4>3, <4>5
      <4> QED
        BY <4>2, <4>4, <4>6
    <3> QED
      BY <3>2, <3>3
  <2>3. ASSUME NEW e \in {"heatmap", "h3"}, Answered(e)
        PROVE  LET s == reply.body.summary
                   real == Losses(reply.body, e) \ {Sentinel}
               IN  /\ s.evaluated = Len(Pts)
                   /\ e = "h3" => s.evaluated = s.failed + Cardinality(DOMAIN reply.body.cells)
                   /\ (s.failed = s.evaluated) <=> (s.peak = -Sentinel)
                   /\ s.failed < s.evaluated => 0 \in real /\ \A l \in real : l >= 0
                   /\ "point_computation_failed" \in reply.body.warnings <=> s.failed > 0
    <3>1. /\ slot \in Seq({"todo", "ok"} \cup Codes) /\ Len(slot) > 0 /\ Len(slot) = Len(Pts)
          /\ \A k \in 1..Len(slot) : Checked(Pts[k])
      BY <2>3, AnsweredFacts DEF Answered
    <3> DEFINE losses == Losses(reply.body, e)
    <3>2. /\ \A k \in Ok(slot) : Loss(Pts, slot, k) \in losses
          /\ \A l \in losses : \E k \in 1..Len(slot) : l = Loss(Pts, slot, k)
      BY <2>2, <2>3
    <3> HIDE DEF losses
    <3>3. LET s == Summary(Pts, slot)
          IN  /\ s.evaluated = Len(slot)
              /\ s.evaluated = s.failed + Cardinality(Ok(slot))
              /\ (s.failed = s.evaluated) <=> (s.peak = -Sentinel)
              /\ s.failed < s.evaluated <=> Ok(slot) # {}
              /\ Ok(slot) # {} => \E k \in Ok(slot) : Loss(Pts, slot, k) = 0
              /\ \A k \in 1..Len(slot) :
                   Loss(Pts, slot, k) # Sentinel => Loss(Pts, slot, k) >= 0
              /\ s.failed > 0 <=> "point_computation_failed" \in Aggregated(Pts, slot)
      <4> DEFINE outcomes == {"todo", "ok"} \cup Codes
      <4>1. slot \in Seq(outcomes)
        BY <3>1
      <4> HIDE DEF outcomes
      <4> QED
        BY <3>1, <4>1, HonestFacts
    <3>4. /\ Ok(slot) # {} => 0 \in losses \ {Sentinel}
          /\ \A l \in losses \ {Sentinel} : l >= 0
      BY <3>2, <3>3, GridAssumption
    <3> QED
      BY <2>2, <2>3, <3>1, <3>3, <3>4 DEF losses
  <2>4. ASSUME NEW e \in {"heatmap", "h3"}, Answered(e)
        PROVE  LET said    == reply.body.summary.application
                   skipped == "correction_not_applied" \in reply.body.warnings
                   some    == reply.body.summary.failed < reply.body.summary.evaluated
               IN  /\ said = "unavailable" <=> ~Served[request.common.pair].surface
                   /\ said = "all" => some /\ ~skipped
                   /\ said = "partial" => skipped
                   /\ some /\ ~skipped /\ said # "unavailable" => said = "all"
    <3>1. /\ request \in Requests /\ Validate(request) = Fine /\ request.endpoint = e
          /\ slot \in Seq({"todo", "ok"} \cup Codes) /\ Len(slot) > 0 /\ Len(slot) = Len(Pts)
          /\ \A k \in 1..Len(slot) : Checked(Pts[k])
      BY <2>4, AnsweredFacts DEF Answered
    <3> DEFINE pair == request.common.pair
    <3>2. \A k \in 1..Len(slot) : Pts[k].pair = pair
      <4>1. CASE e = "heatmap"
        BY <3>1, <4>1, GridChecked DEF Pts
      <4>2. CASE e = "h3"
        BY <3>1, <4>2, DiskChecked DEF Pts
      <4> QED
        BY <4>1, <4>2
    <3>3. pair \in DOMAIN Served
      <4>1. 1 \in 1..Len(slot)
        BY <3>1
      <4> QED
        BY <3>1, <3>2, <4>1 DEF Checked
    <3> HIDE DEF pair
    <3>4. LET said    == Summarize(Pts, slot)
              skipped == "correction_not_applied" \in Aggregated(Pts, slot)
          IN  /\ said = "unavailable" <=> ~Served[pair].surface
              /\ said = "all" => Ok(slot) # {} /\ ~skipped
              /\ said = "partial" => skipped
              /\ Ok(slot) # {} /\ ~skipped /\ said # "unavailable" => said = "all"
      BY <3>1, <3>2, <3>3, SummaryFacts
    <3>5. /\ reply.body.summary.application = Summarize(Pts, slot)
          /\ reply.body.summary.failed < reply.body.summary.evaluated <=> Ok(slot) # {}
      <4>1. Cardinality(Failed(slot)) < Len(slot) <=> Ok(slot) # {}
        <5>1. Len(slot) \in Nat
          BY <3>1
        <5> QED
          BY <3>1, <5>1, OkAndFailed
      <4> QED
        BY <2>2, <2>4, <4>1 DEF Summary
    <3> QED
      BY <2>2, <2>4, <3>4, <3>5 DEF pair
  <2> QED
    BY <2>1, <2>3, <2>4 DEF SummaryHonest
<1> QED
  BY <1>1, Inductive, PTL

-----------------------------------------------------------------------------
(* A gain depends on the calibration, the band and the direction alone.    *)
LEMMA GainDepends ==
  ASSUME NEW p, NEW q, p.pair = q.pair, p.band = q.band, p.direction = q.direction
  PROVE  Gain(p) = Gain(q)
<1>1. Disposition(p) = Disposition(q)
  BY DEF Disposition, Covers, OutsideRegion
<1> QED
  BY <1>1 DEF Gain

(* A point placed somewhere has the gain of that direction.                *)
LEMMA GainHere ==
  ASSUME NEW p \in Points, NEW d
  PROVE  /\ Gain(OfGrid(p, d)) = Gain([p EXCEPT !.direction = d])
         /\ Gain(OfCell(p, d)) = Gain([p EXCEPT !.direction = d])
<1> DEFINE here == [p EXCEPT !.direction = d]
<1>1. here.pair = p.pair /\ here.band = p.band /\ here.direction = d
  BY DEF Points
<1> HIDE DEF here
<1>2. Gain(OfGrid(p, d)) = Gain(here)
  BY <1>1, OfGridFacts, GainDepends
<1>3. Gain(OfCell(p, d)) = Gain(here)
  BY <1>1, OfGridFacts, GainDepends
<1> QED
  BY <1>2, <1>3 DEF here

(* One point of a heatmap has the angles of a row and a column. *)
LEMMA PointOfAngles ==
  ASSUME NEW r \in Requests, r.endpoint = "heatmap", Validate(r) = Fine,
         NEW row \in 1..Len(Axis(r.el)), NEW col \in 1..Len(Axis(r.az)),
         NEW k \in 1..Len(PointsOf(r)),
         PointsOf(r)[k].direction = <<Axis(r.az)[col], Axis(r.el)[row]>>
  PROVE  k = (row - 1) * Len(Axis(r.az)) + col
<1> DEFINE az == Axis(r.az)  el == Axis(r.el)  pts == PointsOf(r)
<1>1. r.common \in Points
  BY RequestShape
<1>2. PICK row2 \in 1..Len(el), col2 \in 1..Len(az) : k = (row2 - 1) * Len(az) + col2
  BY GridChecked
<1>3. pts[(row2 - 1) * Len(az) + col2] = OfGrid(r.common, <<az[col2], el[row2]>>)
  BY GridChecked
<1>4. pts[k].direction = <<az[col2], el[row2]>>
  BY <1>1, <1>2, <1>3, OfGridFacts
<1>5. az[col2] = az[col] /\ el[row2] = el[row]
  BY <1>4
<1>6. col2 = col
  <2>1. \A i, j \in 1..Len(az) : az[i] = az[j] => i = j
    BY GridChecked
  <2> QED
    BY <1>5, <2>1
<1>7. row2 = row
  <2>1. \A i, j \in 1..Len(el) : el[i] = el[j] => i = j
    BY GridChecked
  <2> QED
    BY <1>5, <2>1
<1> QED
  BY <1>2, <1>6, <1>7

(* A batch keeps the order of its items; a failure is one item's own.       *)
LEMMA BatchPlaced ==
  ASSUME IInv, Answered("batch")
  PROVE  /\ Len(reply.body.results) = Len(request.items)
         /\ \A k \in 1..Len(request.items) :
              LET res == reply.body.results[k]
                  item == request.items[k]
              IN  IF slot[k] = "ok"
                  THEN /\ res.error = "none" /\ res.gain = Gain(item)
                       /\ res.feed = Centred <=> OnAxis(item.pose, item.pose.aim)
                       /\ AtZero(item.pose) => FeedOpposite(item.pose, res.feed)
                  ELSE res.error = slot[k] /\ res.feed = Centred
<1>1. /\ request \in Requests /\ request.endpoint = "batch" /\ Len(slot) = Len(Pts)
      /\ reply.body = BatchBody(Pts, slot) /\ slot \in Seq({"todo", "ok"} \cup Codes)
      /\ Pts = request.items /\ request.items \in Seq(Points)
      /\ \A k \in 1..Len(slot) : Checked(Pts[k]) /\ slot[k] \in Outcomes(Pts[k])
  BY AnsweredFacts, ItemsChecked, RequestShape DEF Answered, Body, Pts
<1>2. /\ reply.body.results = [k \in 1..Len(slot) |-> Item(Pts[k], slot[k])]
      /\ Len(slot) \in Nat
  BY <1>1 DEF BatchBody
<1>3. ASSUME NEW k \in 1..Len(slot), slot[k] = "ok"
      PROVE  LET pose == Pts[k].pose
             IN  /\ Steering(pose) = Centred <=> OnAxis(pose, pose.aim)
                 /\ AtZero(pose) => FeedOpposite(pose, Steering(pose))
  <2> DEFINE pose == Pts[k].pose
  <2>1. pose \in Poses
    <3>1. Pts[k] \in Points
      BY <1>1
    <3> HIDE DEF Pts
    <3> QED
      BY <3>1 DEF Points
  <2>2. Fault3D(pose, pose.aim) = "none"
    BY <1>1, <1>3, OutcomesFacts DEF Checked
  <2>3. HasResidue(pose)
    BY <1>1, RequestsAssumption
  <2> HIDE DEF pose
  <2>4. <<AxisZ(pose), pose.attitude>> \in DOMAIN Residue
    BY <2>2, <2>3 DEF HasResidue
  <2>5. /\ Steering(pose) = Centred <=> OnAxis(pose, pose.aim)
        /\ AtZero(pose) => FeedOpposite(pose, Steering(pose))
    BY <2>1, <2>4, SteeringFacts
  <2> QED
    BY <2>5 DEF pose
<1>4. ASSUME NEW k \in 1..Len(slot)
      PROVE  LET res == reply.body.results[k]
                 item == Pts[k]
             IN  IF slot[k] = "ok"
                 THEN /\ res.error = "none" /\ res.gain = Gain(item)
                      /\ res.feed = Centred <=> OnAxis(item.pose, item.pose.aim)
                      /\ AtZero(item.pose) => FeedOpposite(item.pose, res.feed)
                 ELSE res.error = slot[k] /\ res.feed = Centred
  <2>1. reply.body.results[k] = Item(Pts[k], slot[k])
    BY <1>2
  <2>2. CASE slot[k] = "ok"
    <3>1. reply.body.results[k].error = "none" /\ reply.body.results[k].gain = Gain(Pts[k])
          /\ reply.body.results[k].feed = Steering(Pts[k].pose)
      BY <2>1, <2>2 DEF Item
    <3> QED
      BY <1>3, <2>2, <3>1
  <2>3. CASE slot[k] # "ok"
    BY <2>1, <2>3 DEF Item
  <2> QED
    BY <2>2, <2>3
<1> QED
  BY <1>1, <1>2, <1>4

(* An entry of a heatmap is the loss at the angles of its row and column.   *)
LEMMA HeatmapPlaced ==
  ASSUME IInv, Answered("heatmap")
  PROVE  LET az == Axis(request.az)
             el == Axis(request.el)
         IN  /\ Len(reply.body.loss) = Len(el)
             /\ \A r \in 1..Len(el) : \A c \in 1..Len(az) :
                  LET loss == reply.body.loss[r][c]
                      here == [request.common EXCEPT !.direction = <<az[c], el[r]>>]
                      k    == CHOOSE k \in 1..Len(Pts) : Pts[k].direction = here.direction
                  IN  IF slot[k] = "ok"
                      THEN loss = reply.body.summary.peak - Gain(here) /\ loss < Sentinel
                      ELSE loss = Sentinel
<1> DEFINE az == Axis(request.az)  el == Axis(request.el)
<1>1. /\ request \in Requests /\ request.endpoint = "heatmap" /\ Validate(request) = Fine
      /\ request.common \in Points
      /\ Len(slot) = Len(Pts) /\ slot \in Seq({"todo", "ok"} \cup Codes)
      /\ \A k \in 1..Len(slot) : Checked(Pts[k])
      /\ reply.body = HeatmapBody(request, Pts, slot)
  BY AnsweredFacts, RequestShape DEF Answered, Body
<1>2. /\ Len(reply.body.loss) = Len(el)
      /\ \A r \in 1..Len(el), c \in 1..Len(az) :
           reply.body.loss[r][c] = Loss(Pts, slot, (r - 1) * Len(az) + c)
  BY <1>1, TableFacts DEF Pts
<1>3. reply.body.summary.peak = Peak(Pts, slot)
  BY <1>1 DEF HeatmapBody, Summary
<1>4. /\ \A k \in Ok(slot) : /\ Loss(Pts, slot, k) = Peak(Pts, slot) - Gain(Pts[k])
                             /\ Loss(Pts, slot, k) < Sentinel
      /\ \A k \in Failed(slot) : Loss(Pts, slot, k) = Sentinel
  BY <1>1, PeakFacts
<1>5. ASSUME NEW r \in 1..Len(el), NEW c \in 1..Len(az)
      PROVE  LET loss == reply.body.loss[r][c]
                 here == [request.common EXCEPT !.direction = <<az[c], el[r]>>]
                 k    == CHOOSE k \in 1..Len(Pts) : Pts[k].direction = here.direction
             IN  IF slot[k] = "ok"
                 THEN loss = reply.body.summary.peak - Gain(here) /\ loss < Sentinel
                 ELSE loss = Sentinel
  <2> DEFINE d == <<az[c], el[r]>>
             loss == reply.body.loss[r][c]
             here == [request.common EXCEPT !.direction = d]
             k    == CHOOSE k \in 1..Len(Pts) : Pts[k].direction = here.direction
             own  == (r - 1) * Len(az) + c
  <2>1. here.direction = d
    BY <1>1 DEF Points
  <2>2. own \in 1..Len(Pts) /\ Pts[own] = OfGrid(request.common, d)
    BY <1>1, GridChecked DEF Pts
  <2>3. Pts[own].direction = d /\ Gain(Pts[own]) = Gain(here)
    <3>1. OfGrid(request.common, d).direction = d
          /\ Gain(OfGrid(request.common, d)) = Gain(here)
      <4> HIDE DEF d
      <4> QED
        BY <1>1, OfGridFacts, GainHere
    <3> QED
      BY <2>2, <3>1
  <2>4. \A j \in 1..Len(Pts) : Pts[j].direction = d => j = own
    BY <1>1, PointOfAngles DEF Pts
  <2>5. k = own
    <3> HIDE DEF d, own
    <3>1. \E j \in 1..Len(Pts) : Pts[j].direction = d
      BY <2>2, <2>3
    <3>2. k = CHOOSE j \in 1..Len(Pts) : Pts[j].direction = d
      BY <2>1
    <3>3. (CHOOSE j \in 1..Len(Pts) : Pts[j].direction = d) = own
      BY <2>4, <3>1
    <3> QED
      BY <3>2, <3>3
  <2>6. loss = Loss(Pts, slot, own)
    BY <1>2
  <2> HIDE DEF here, k, own, loss
  <2>7. CASE slot[own] = "ok"
    <3>1. own \in Ok(slot)
      BY <1>1, <2>2, <2>7 DEF Ok
    <3>2. loss = Peak(Pts, slot) - Gain(here) /\ loss < Sentinel
      BY <1>4, <2>3, <2>6, <3>1
    <3> QED
      BY <1>3, <2>5, <2>7, <3>2 DEF here, k, loss
  <2>8. CASE slot[own] # "ok"
    <3>1. own \in Failed(slot)
      BY <1>1, <2>2, <2>8 DEF Failed
    <3>2. loss = Sentinel
      BY <1>4, <2>6, <3>1
    <3> QED
      BY <2>5, <2>8, <3>2 DEF here, k, loss
  <2> QED
    BY <2>7, <2>8
<1> QED
  BY <1>2, <1>5

(* A cell of a disk carries the gain of where it is.                       *)
LEMMA CellsPlaced ==
  ASSUME IInv, Answered("h3"), NEW k \in DOMAIN reply.body.cells
  PROVE  LET cell == reply.body.cells[k]
             here == [request.common EXCEPT !.direction = cell.known.cell]
         IN  /\ slot[k] = "ok" /\ cell.known.cell = request.disk[k]
             /\ cell.known.gain = Gain(here)
             /\ cell.total = reply.body.summary.peak - Gain(here) + Spreading[cell.known.cell]
<1>1. /\ request \in Requests /\ request.endpoint = "h3" /\ Validate(request) = Fine
      /\ request.common \in Points
      /\ Len(slot) = Len(Pts) /\ slot \in Seq({"todo", "ok"} \cup Codes)
      /\ \A j \in 1..Len(slot) : Checked(Pts[j])
      /\ reply.body = H3Body(Pts, slot)
  BY AnsweredFacts, RequestShape DEF Answered, Body
<1> DEFINE cell == reply.body.cells[k]  d == request.disk[k]
           here == [request.common EXCEPT !.direction = d]
<1>2. k \in Ok(slot) /\ cell.known = PeakIndependent(Pts[k])
      /\ cell.total = Loss(Pts, slot, k) + PeakIndependent(Pts[k]).spreading
  BY <1>1 DEF H3Body
<1>3. k \in 1..Len(Pts) /\ slot[k] = "ok"
  BY <1>1, <1>2 DEF Ok
<1>4. Pts[k] = OfCell(request.common, d)
  BY <1>1, <1>3, DiskChecked DEF Pts
<1>5. Pts[k].direction = d /\ Gain(Pts[k]) = Gain(here)
  BY <1>1, <1>4, OfGridFacts, GainHere
<1>6. reply.body.summary.peak = Peak(Pts, slot)
  BY <1>1 DEF H3Body, Summary
<1>7. Loss(Pts, slot, k) = Peak(Pts, slot) - Gain(Pts[k])
  BY <1>1, <1>2, PeakFacts
<1> HIDE DEF here
<1>8. /\ cell.known.cell = d /\ cell.known.gain = Gain(here)
      /\ cell.total = Peak(Pts, slot) - Gain(here) + Spreading[d]
  BY <1>2, <1>5, <1>7 DEF PeakIndependent
<1> QED
  BY <1>3, <1>6, <1>8 DEF here

(* Every number of an answer is its own point's. *)
THEOREM EveryNumberItsOwn == Spec => []ResultsPlaced
<1>1. IInv => ResultsPlaced
  BY BatchPlaced, HeatmapPlaced, CellsPlaced DEF ResultsPlaced
<1> QED
  BY <1>1, Inductive, PTL
=============================================================================
