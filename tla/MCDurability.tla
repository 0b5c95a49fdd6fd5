---------------------------- MODULE MCDurability ----------------------------
(* Instance of Durability: a position is the cell it lies in.  Cells and   *)
(* offers are interchangeable.                                             *)
EXTENDS Durability, TLC

MCCellOf == [p \in Cell |-> p]

MCSymmetry == Permutations(OfferId) \cup Permutations(Cell)

=============================================================================
