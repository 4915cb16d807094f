----------------------------- MODULE MCInventory -----------------------------
(* Small instances of Inventory for TLC. *)
EXTENDS Inventory, TLC

Position(place, lot, onHand, hold) ==
  [place |-> place, lot |-> lot, onHand |-> onHand, hold |-> hold]

Move(from, to, qty) ==
  [from |-> from, to |-> to, lot |-> NoLot, qty |-> qty, hold |-> Unset]
MoveAs(from, to, qty, hold) == [Move(from, to, qty) EXCEPT !.hold = hold]
MoveLot(from, to, lot, qty) == [Move(from, to, qty) EXCEPT !.lot = lot]

\* Two stores with flat stock; the line tank does not exist yet.
TwoStores ==
  [r \in RowIds |-> CASE r = 1 -> Position("store", NoLot, 2, "available")
                      [] r = 2 -> Position("rack", NoLot, 1, "available")
                      [] OTHER -> NoRow]

\* Flat stock and a lot of the same part in one place.
StoreWithLot ==
  [r \in RowIds |-> CASE r = 1 -> Position("store", "L1", 1, "available")
                      [] r = 2 -> Position("store", NoLot, 2, "available")
                      [] OTHER -> NoRow]

\* Receipts, an issue, transfers both ways and onto the same place.
Mixed == {Move(NoPlace, "store", 1), Move("store", NoPlace, 1),
          Move("store", "rack", 1), Move("rack", "store", 2),
          Move("store", "store", 1)}
LotMoves == {MoveLot("store", "rack", "L1", 1), Move("store", "rack", 1),
             MoveAs(NoPlace, "rack", 1, "pending_iqc"), Move(NoPlace, "store", 1)}
AllMoves == Mixed \cup LotMoves

SupplyLine == {[to |-> "LINE", qty |-> 2], [to |-> "LINE", qty |-> 3]}
=============================================================================
