-------------------------------- MODULE MCGrid --------------------------------
(* Two antennas of which one has two feeds, with and without a correction  *)
(* surface, and requests that validation, the transform or nothing         *)
(* rejects.  Every direction of a calibration has a gain of its own.       *)
EXTENDS Grid, TLC

Az == 0..3
El == 0..3
MCDirections == Az \X El
MCSquint     == [d \in MCDirections |-> <<(d[1] + 1) % 4, d[2]>>]
MCSpreading  == [d \in MCDirections |-> 100 + 5 * d[1] + 30 * d[2]]

Calibration(status, surface, region) ==
  [status |-> status, surface |-> surface, region |-> region,
   physics |-> [d \in MCDirections |-> 10 + 7 * d[1] - 3 * d[2] * d[1] + d[2]],
   correction |-> [d \in MCDirections |-> d[1] + 2 * d[2] - 2]]

Half == {d \in MCDirections : d[1] <= 1}
MCServed ==
  (<<"a", "x">> :> Calibration("full", TRUE, MCDirections)
     @@ <<"a", "s">> :> Calibration("partial", TRUE, Half)
     @@ <<"b", "x">> :> Calibration("partial", FALSE, Half)
     @@ <<"c", "x">> :> Calibration("none", FALSE, {}))

Pose(vehicle, boresight, aim, attitude) ==
  [vehicle |-> vehicle, boresight |-> boresight, aim |-> aim, emitter |-> <<5, 5, 5>>,
   attitude |-> attitude]

(* Over the equator, over the pole, and where doubles leave of the         *)
(* boresight's own transform 0, 270, 180 and 90 degrees; the last two with *)
(* an attitude.                                                            *)
Upright == {<<1, 0, 0, 0>>}
Third   == {<<1, 1, 1, 1>>}
Equator == Pose(<<40, 0, 0>>, <<6, 0, 0>>, <<6, 1, 2>>, {})
Pole    == Pose(<<0, 0, 40>>, <<0, 0, 6>>, <<1, 2, 6>>, {})
Slant   == Pose(<<30, 28, 10>>, <<6, 2, 1>>, <<5, 3, 1>>, {})
West    == Pose(<<20, 30, 20>>, <<4, 4, 3>>, <<5, 4, 3>>, {})
Held    == Pose(<<20, 30, 20>>, <<4, 4, 3>>, <<5, 4, 3>>, Upright)
Rolled  == Pose(<<20, 30, 20>>, <<6, 2, 1>>, <<5, 3, 1>>, Third)

MCResidue ==
  (<<<<-34, 0, 0>>, {}>> :> <<1, 0>> @@ <<<<0, 0, -34>>, {}>> :> <<1, 0>>
     @@ <<<<-24, -26, -9>>, {}>> :> <<1, 0>> @@ <<<<-16, -26, -17>>, {}>> :> <<0, -1>>
     @@ <<<<-16, -26, -17>>, Upright>> :> <<-1, 0>> @@ <<<<-14, -28, -19>>, Third>> :> <<0, 1>>)

(* Refused: the boresight at the vehicle, body X along the boresight, the  *)
(* emitter or the aim at the vehicle, a vehicle or an aim too far off.     *)
(* And an aim on the boresight.                                            *)
Coincident == [Equator EXCEPT !.boresight = <<40, 0, 0>>]
Parallel   == [Equator EXCEPT !.attitude = Upright]
Poses3D ==
  {Pole, Slant, West, Held, Rolled, Coincident, Parallel,
   [Held EXCEPT !.emitter = <<20, 30, 20>>],
   [Slant EXCEPT !.aim = <<30, 28, 10>>], [Slant EXCEPT !.aim = <<0, -300, 300>>],
   [Equator EXCEPT !.vehicle = <<300, 300, 0>>], [West EXCEPT !.aim = <<4, 4, 3>>]}

Point(pair, d) ==
  [pair |-> pair, params |-> TRUE, band |-> TRUE, pose |-> Equator, direction |-> d]
P(a, f)   == Point(<<a, f>>, <<1, 1>>)
Variants(p) ==
  {p, [p EXCEPT !.params = FALSE], [p EXCEPT !.band = FALSE]}
    \cup {[p EXCEPT !.pose = pose] : pose \in Poses3D}
Commons ==
  Variants(P("a", "x")) \cup Variants(P("a", "s")) \cup {P("b", "x"), P("c", "x")}
    \cup Variants(P("a", "z")) \cup Variants(P("z", "x"))

Range(lo, hi, by) == [min |-> lo, max |-> hi, step |-> by]
Items == {P("a", "s"), Point(<<"a", "s">>, <<2, 0>>), P("b", "x"), P("z", "x"),
          [P("a", "x") EXCEPT !.params = FALSE], [P("a", "x") EXCEPT !.pose = Coincident]}

Batch(items)     == [endpoint |-> "batch", items |-> items]
Single(p)        == [endpoint |-> "gain", items |-> <<p>>]
Heat(p, az, el)  == [endpoint |-> "heatmap", common |-> p, az |-> az, el |-> el]
Hex(p, n, disk)  == [endpoint |-> "h3", common |-> p, rings |-> n, disk |-> disk]

MCRanges == {Range(0, 2, 1), Range(0, 1, 1), Range(0, 3, 2), Range(1, 1, 1), Range(0, 3, 1),
           Range(0, 3, 0)}
MCRequests ==
  {Single(p) : p \in Commons}
    \cup {Batch(s) : s \in UNION {[1..n -> Items] : n \in 0..3}}
    \cup {Batch(s) : s \in [1..4 -> {P("a", "s"), P("b", "x")}]}
    \cup {Batch([k \in 1..n |-> P("a", "x")]) : n \in 5..6}
    \cup {Heat(p, Range(0, 2, 1), Range(0, 1, 1)) : p \in Commons}
    \cup {Heat(P("a", "s"), az, el) : az \in MCRanges, el \in MCRanges}
    \cup {Hex(p, n, <<<<1, 1>>, <<0, 1>>, <<1, 0>>, <<2, 1>>, <<1, 2>>>>) : p \in Commons, n \in {1, 9}}

Aimed == {Single([P("a", "x") EXCEPT !.pose = pose]) : pose \in {Slant, Pole, West}}
=============================================================================
