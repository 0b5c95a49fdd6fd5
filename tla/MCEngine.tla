------------------------------ MODULE MCEngine ------------------------------
(* Instance of Engine: positions on a line, in units of 100 m. *)
EXTENDS Engine

MCCategory == {"van"}

MCPosition == {0, 15, 22}

MCDistance ==
  [pq \in MCPosition \X MCPosition |->
     IF pq[1] < pq[2] THEN pq[2] - pq[1] ELSE pq[1] - pq[2]]

MCCell == {"west", "east"}
MCCellOf == [p \in MCPosition |-> IF p < 20 THEN "west" ELSE "east"]

(* Half a kilometre to three: the second radius reaches position 22. *)
MCRequest == {[category |-> "van", pickup |-> 0, initial_radius |-> 5, max_radius |-> 30]}

Driver(s, p) == [category |-> "van", status |-> s, position |-> p]

(* A driver moves from one cell to the other by going off and on duty. *)
MCReport == {Driver("Available", 15), Driver("Offline", 22)}

(* Near and far drivers: who is asked first depends on where they stand. *)
MCSpreadReport == MCReport \cup {Driver("Available", 22)}

=============================================================================
