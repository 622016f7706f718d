---------------------------- MODULE MCArtifactFile ----------------------------
(* Two runs, one after or into the other, on artifacts of two lengths and  *)
(* of every fate that decode tells apart.                                  *)
EXTENDS ArtifactFile

Fit(name, parts) ==
  [name |-> name, parts |-> parts, container |-> "current", decodable |-> TRUE,
   schema |-> "same", sound |-> TRUE]

MCNames   == {"a", "b"}
MCWritten ==
  {Fit("a", 2), Fit("b", 1), Fit("b", 2),
   [Fit("a", 2) EXCEPT !.container = "bare"],
   [Fit("a", 2) EXCEPT !.container = "foreign", !.decodable = FALSE],
   [Fit("a", 1) EXCEPT !.decodable = FALSE],
   [Fit("a", 1) EXCEPT !.schema = "unreadable"],
   [Fit("a", 1) EXCEPT !.schema = "major", !.sound = FALSE],
   [Fit("a", 1) EXCEPT !.schema = "minor"],
   [Fit("a", 1) EXCEPT !.sound = FALSE]}
=============================================================================
