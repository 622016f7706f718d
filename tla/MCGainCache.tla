----------------------------- MODULE MCGainCache -----------------------------
(* Two threads; directions near and next share a key, far and beyond have  *)
(* keys of their own, so two entries hold fewer keys than are asked for.   *)
EXTENDS GainCache
CONSTANTS near, next, far, beyond

MCDirections == {near, next, far, beyond}
MCKeys       == {"k1", "k2", "k3"}
MCKeyOf      == [d \in MCDirections |->
                   CASE d \in {near, next} -> "k1" [] d = far -> "k2" [] OTHER -> "k3"]
=============================================================================
