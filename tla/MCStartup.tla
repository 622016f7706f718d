------------------------------ MODULE MCStartup ------------------------------
(* Pairs of entries of every kind that validation, the reader or the       *)
(* builder tells apart, for two antennas and two feeds; and three antennas *)
(* of which any may be unreadable.                                         *)
EXTENDS Startup
CONSTANTS a1, a2, a3, x, s

(* A mesh dish at f/D 0.4 that is sound, that states its ratio wrongly, or *)
(* that is rejected; and one whose ratio is at the limit and whose         *)
(* quotient is beyond it.                                                  *)
Dish         == [diameter |-> 1000, focal |-> 400, ratio |-> 400, rms |-> 1,
                 mesh |-> {[spacing |-> 5, wire |-> 1]}]
Inconsistent == [Dish EXCEPT !.ratio = 410]
Rejected     == [Dish EXCEPT !.mesh = {[spacing |-> 5, wire |-> 5]}]
Beyond       == [Dish EXCEPT !.focal = 199, !.ratio = 200, !.mesh = {}]
Horn         == [q |-> 11, asym |-> 10, band |-> [lo |-> 8, hi |-> 9]]

Artifact(kind, a, f, dish, horn) ==
  [kind |-> kind, antenna |-> a, feed |-> f, dish |-> dish, horn |-> horn]
File(kind, a, f) == Artifact(kind, a, f, Dish, Horn)
NoFile           == File("none", a1, x)
Design(dish, fs) == [given |-> TRUE, dish |-> dish, feeds |-> fs]
NoDesign         == [Design(Dish, <<>>) EXCEPT !.given = FALSE]
Good(f)          == [id |-> f, horn |-> Horn]
Bad(f)           == [id |-> f, horn |-> [Horn EXCEPT !.asym = 0]]
Uniform(f)       == [id |-> f, horn |-> [Horn EXCEPT !.q = 0]]

Entry(a, status, artifact, specs) ==
  [id |-> a, enabled |-> TRUE, status |-> status, artifact |-> artifact, specs |-> specs]
Calibrated(a, artifact) == Entry(a, "calibrated", artifact, NoDesign)
Designed(a, specs)      == Entry(a, "uncalibrated", NoFile, specs)
Off(entry)              == [entry EXCEPT !.enabled = FALSE]

Other(a) == IF a = a1 THEN a2 ELSE a1
Kinds(a) ==
  {Calibrated(a, File("readable", a, x)), Calibrated(a, File("readable", a, s)),
   Calibrated(a, File("readable", Other(a), x)), Calibrated(a, File("unreadable", a, x)),
   Calibrated(a, Artifact("readable", a, x, Inconsistent, Horn)),
   Calibrated(a, Artifact("readable", a, x, Beyond, Horn)),
   Calibrated(a, NoFile),
   Designed(a, Design(Dish, <<Good(x), Good(s)>>)),
   Designed(a, Design(Dish, <<Good(x), Bad(s)>>)),
   Designed(a, Design(Dish, <<Good(x), Good(x)>>)),
   Designed(a, Design(Inconsistent, <<Good(x)>>)),
   Designed(a, Design(Rejected, <<Good(x)>>)),
   Designed(a, Design(Dish, <<Uniform(x), Good(s)>>)),
   Designed(a, Design(Dish, <<>>)), Designed(a, NoDesign),
   Entry(a, "uncalibrated", File("unreadable", a, x), Design(Dish, <<Good(s)>>)),
   Entry(a, "unknown", File("readable", a, x), NoDesign),
   Off(Calibrated(a, File("readable", a, x))), Off(Calibrated(a, NoFile))}

MCEntries == Kinds(a1) \cup Kinds(a2) \cup {Calibrated(NoId, File("readable", a1, x))}
Readable(a) == {Calibrated(a, File(kind, a, x)) : kind \in {"readable", "unreadable"}}
MCLists   == {<<>>} \cup {<<p>> : p \in MCEntries} \cup MCEntries \X MCEntries
             \cup Readable(a1) \X Readable(a2) \X Readable(a3)
=============================================================================
