--------------------------- MODULE MCRadiusSearch ---------------------------
(* Instance of RadiusSearch: pickups and drivers on a line, at kilometres. *)
EXTENDS RadiusSearch

MCPosition == {0, 8, 25, 36}

MCDistance ==
  [pq \in MCPosition \X MCPosition |->
     IF pq[1] < pq[2] THEN pq[2] - pq[1] ELSE pq[1] - pq[2]]

(* A start below the floor, a limit off the two-kilometre grid, one on the *)
(* grid, and a limit below the start.                                      *)
MCRequest ==
  {[category |-> "van", pickup |-> 0, initial_radius |-> r[1], max_radius |-> r[2]] :
      r \in {<<0, 41>>, <<5, 40>>, <<30, 10>>, <<8, 28>>}}

=============================================================================
