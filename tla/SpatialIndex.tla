---------------------------- MODULE SpatialIndex ----------------------------
(***************************************************************************)
(* The H3 index kept beside the driver map: `buckets' maps an occupied     *)
(* cell to the drivers in it, `driver_cells' maps a driver to its cell.    *)
(* Both are hash maps, here functions on the keys they hold.  The H3       *)
(* library's cell of a point is the constant CellOf.                       *)
(***************************************************************************)
CONSTANTS
  Cell,            \* the H3 cells that occur
  CellOf           \* CellOf[p]: the cell of position p (cell_key)

EmptyIndex == [buckets |-> <<>>, driver_cells |-> <<>>]

(* insert and remove of a hash map. *)
With(map, key, value) ==
  [k \in DOMAIN map \cup {key} |-> IF k = key THEN value ELSE map[k]]

Without(map, key) == [k \in DOMAIN map \ {key} |-> map[k]]

(* Take a driver out of a cell's bucket; an empty bucket is dropped. *)
Vacate(buckets, cell, d) ==
  IF cell \notin DOMAIN buckets
  THEN buckets
  ELSE IF buckets[cell] \subseteq {d}
  THEN Without(buckets, cell)
  ELSE With(buckets, cell, buckets[cell] \ {d})

RemoveFromIndex(index, d) ==
  IF d \in DOMAIN index.driver_cells
  THEN [buckets |-> Vacate(index.buckets, index.driver_cells[d], d),
        driver_cells |-> Without(index.driver_cells, d)]
  ELSE index

AddToBucket(buckets, cell, d) ==
  With(buckets, cell, {d} \cup (IF cell \in DOMAIN buckets THEN buckets[cell] ELSE {}))

(* Fault: the old cell is not left when a driver moves. *)
UpsertWithoutLeaving(index, d, position) ==
  [buckets |-> AddToBucket(index.buckets, CellOf[position], d),
   driver_cells |-> With(index.driver_cells, d, CellOf[position])]

UpsertIntoIndex(index, d, position) ==
  LET rest == RemoveFromIndex(index, d)
  IN [buckets |-> AddToBucket(rest.buckets, CellOf[position], d),
      driver_cells |-> With(rest.driver_cells, d, CellOf[position])]

(* The index is the inverse image of the fleet's positions: a driver is in *)
(* the bucket of the cell of its last position, in no other bucket, and no *)
(* bucket is empty.                                                        *)
Mirrors(index, fleet) ==
  /\ DOMAIN index.driver_cells = DOMAIN fleet
  /\ \A d \in DOMAIN fleet :
       index.driver_cells[d] = CellOf[fleet[d].position]
  /\ DOMAIN index.buckets = {CellOf[fleet[d].position] : d \in DOMAIN fleet}
  /\ \A c \in DOMAIN index.buckets :
       index.buckets[c] = {d \in DOMAIN fleet : CellOf[fleet[d].position] = c}

=============================================================================
