-------------------------- MODULE MCNodeClassDrift --------------------------
(* NodeClassDrift on small instances.                                       *)
EXTENDS NodeClassDrift

Plain == [zone |-> "fi-hel1", plan |-> "2xCPU-4GB", labels |-> {"team"},
          taints |-> <<"a", "b">>]
Reordered == [Plain EXCEPT !.taints = <<"b", "a">>]
Other == [Plain EXCEPT !.taints = <<"a">>]
NoZone == [Plain EXCEPT !.zone = ""]

MCTwoSpecs == {Plain, Other}
MCThreeSpecs == {Plain, Reordered, Other}
MCSpecs == {Plain, Reordered, Other, NoZone}
=============================================================================
