--------------------------- MODULE CorrectionSpline ---------------------------
(***************************************************************************)
(* The geometry of a correction surface, which the fit and the service     *)
(* share (antenna-core, model/correction_surface.rs): clamped B-spline     *)
(* axes, the rules their knots obey, the basis functions that count at a   *)
(* point, and the wire form with its synthetic temperature axis.           *)
(*                                                                         *)
(* Knots are integers and weights exact: a numerator each over one total.  *)
(* Knots are numbered from 1, coefficients from 0.  The slab of            *)
(* coefficients is one value; what it is fitted to is Calibrate's matter.  *)
(***************************************************************************)
EXTENDS Integers, Sequences, FiniteSets, SequencesExt

Axes == {"clock", "cone", "freq"}

Extent(S) == [lo |-> Min(S), hi |-> Max(S)]

(* ClampedAxis: what a producer states of an axis. *)
ClampedAxis(lower, upper, interior) ==
  [lower |-> lower, upper |-> upper, interior |-> interior]

(* An axis the surface does not vary along. *)
FlatAxis(lower, upper) == ClampedAxis(lower, upper, <<(lower + upper) \div 2>>)

CoefficientCount(axis, order) == Len(axis.interior) + order

KnotVector(axis, order) ==
  [i \in 1..order |-> axis.lower] \o axis.interior \o [i \in 1..order |-> axis.upper]

Support(knots, order) == [lo |-> knots[order], hi |-> knots[Len(knots) - order + 1]]

-----------------------------------------------------------------------------
(* structurally_valid_knots: what an axis must be to be read at all. *)
KnotsReadable(knots, count, order) ==
  /\ count > 0 /\ Len(knots) = count + order
  /\ \A i \in 2..Len(knots) : knots[i - 1] <= knots[i]

Multiplicity(knots, v) == Cardinality({i \in DOMAIN knots : knots[i] = v})

(* validated_axis: what it must be to be evaluated.  A bound is repeated   *)
(* exactly order times, so no knot may be placed on it.                    *)
AxisValid(knots, count, order) ==
  /\ KnotsReadable(knots, count, order)
  /\ Support(knots, order).lo < Support(knots, order).hi
  /\ \A v \in ToSet(knots) :
       IF v \in {Head(knots), Last(knots)}
       THEN Multiplicity(knots, v) = order
       ELSE Multiplicity(knots, v) <= Max({order - 1, 1})

LayoutValid(axes, order) ==
  /\ order \in 1..10
  /\ \A a \in Axes :
       AxisValid(KnotVector(axes[a], order), CoefficientCount(axes[a], order), order)

-----------------------------------------------------------------------------
(* find_knot_span: bisection for the last knot at or below the value; the  *)
(* upper bound belongs to the last span.                                   *)
KnotSpan(knots, value, order) ==
  LET end == Len(knots) - order + 1
      search[bounds \in (order..end) \X (order..end)] ==
        LET low    == bounds[1]
            high   == bounds[2]
            middle == (low + high) \div 2
        IN  IF high - low <= 1 THEN low
            ELSE IF value < knots[middle] THEN search[<<low, middle>>]
            ELSE search[<<middle, high>>]
  IN  IF value >= knots[end] THEN end - 1 ELSE search[<<order, end>>]

Product(f) == FoldFunction(LAMBDA x, y : x * y, 1, f)

(* evaluate_basis_functions: a level of degree is made from the one below. *)
(* No denominator vanishes, since a span that is found is not empty.       *)
Basis(knots, span, value, order) ==
  LET left(l)         == value - knots[span + 1 - l]
      right(l)        == knots[span + l] - value
      width(level, j) == right(j + 1) + left(level - j)
      widths(level)   == [j \in 0..level - 1 |-> width(level, j)]
      others(level, j) == Product([i \in (0..level - 1) \ {j} |-> width(level, i)])
      basis[level \in 0..order - 1] ==
        IF level = 0 THEN [j \in {0} |-> 1]
        ELSE LET term(j) == basis[level - 1][j] * others(level, j)
             IN  [j \in 0..level |->
                    (IF j > 0 THEN left(level - j + 1) * term(j - 1) ELSE 0)
                    + (IF j < level THEN right(j + 1) * term(j) ELSE 0)]
  IN  [weights |-> basis[order - 1],
       total   |-> Product([level \in 1..order - 1 |-> Product(widths(level))])]

(* active_basis: the coefficients that count, for a value in the support.  *)
ActiveBasis(axis, value, order) ==
  LET knots == KnotVector(axis, order)
      span  == KnotSpan(knots, value, order)
      basis == Basis(knots, span, value, order)
  IN  [indices |-> {span + j - order : j \in {j \in 0..order - 1 : basis.weights[j] # 0}},
       basis   |-> basis]

(* basis_stencil: clock varies fastest, then cone, then frequency. *)
Stencil(axes, order, p) ==
  LET active(a) == ActiveBasis(axes[a], p[a], order).indices
      n(a)      == CoefficientCount(axes[a], order)
  IN  {k + n("clock") * (c + n("cone") * f) :
         k \in active("clock"), c \in active("cone"), f \in active("freq")}

(* Evaluation is an average of coefficients that exist, each counted once. *)
Averages(axes, order, p) ==
  LET active(a) == ActiveBasis(axes[a], p[a], order)
      n(a)      == CoefficientCount(axes[a], order)
      stencil   == Stencil(axes, order, p)
  IN  /\ \A a \in Axes :
           /\ \A j \in 0..order - 1 : active(a).basis.weights[j] >= 0
           /\ SumFunction(active(a).basis.weights) = active(a).basis.total
           /\ active(a).basis.total > 0
      /\ stencil \subseteq 0..(n("clock") * n("cone") * n("freq") - 1)
      /\ Cardinality(stencil) = Cardinality(active("clock").indices)
           * Cardinality(active("cone").indices) * Cardinality(active("freq").indices)

-----------------------------------------------------------------------------
(* The wire form: knots by axis, and one slab for each temperature layer.  *)
(* Nothing is evaluated along temperature; the interval is the producer's. *)
(* to_model4d *)
ToModel4D(surface, temperature) ==
  LET layers == CoefficientCount(temperature, surface.order)
  IN  [order |-> surface.order,
       shape |-> [a \in Axes |-> CoefficientCount(surface.axes[a], surface.order)],
       knots |-> [a \in Axes |-> KnotVector(surface.axes[a], surface.order)],
       temperature |-> [shape |-> layers, knots |-> KnotVector(temperature, surface.order)],
       slabs |-> [t \in 1..layers |-> surface.slab]]

(* schema5_layout, from_model4d: layers that differ are refused. *)
Model4DValid(m) ==
  /\ m.order \in 1..10
  /\ \A a \in Axes : AxisValid(m.knots[a], m.shape[a], m.order)
  /\ KnotsReadable(m.temperature.knots, m.temperature.shape, m.order)
  /\ Len(m.slabs) = m.temperature.shape
  /\ \A t \in DOMAIN m.slabs : m.slabs[t] = Head(m.slabs)

FromModel4D(m) ==
  [order |-> m.order,
   axes  |-> [a \in Axes |->
     ClampedAxis(Support(m.knots[a], m.order).lo, Support(m.knots[a], m.order).hi,
                 SubSeq(m.knots[a], m.order + 1, m.shape[a]))],
   slab  |-> Head(m.slabs)]
=============================================================================
