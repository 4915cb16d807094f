------------------------- MODULE MCQualityContainment -------------------------
(* A small instance of QualityContainment: one lot in the store and an      *)
(* empty quarantine area.                                                    *)
EXTENDS QualityContainment, TLC

CONSTANTS p1, p2, h1, t1, d1, d2, d3, n1

At(warehouse, lot) ==
  [f \in {"WAREHOUSE", "PROGRAM", "LOT", "SERIAL"} |->
     IF f = "WAREHOUSE" THEN warehouse ELSE IF f = "LOT" THEN lot ELSE "-"]
MCAttribute == (p1 :> At("store", "L1")) @@ (p2 :> At("cage", "-"))
MCInitPositions == (p1 :> [onHand |-> 2, status |-> "pending_iqc"]) @@
                   (p2 :> [onHand |-> 0, status |-> "absent"])
MCRuleOf == h1 :> [level |-> "LOT", value |-> "L1"]
MCTransferOf == t1 :> [hold |-> h1, from |-> "store", to |-> "cage", qty |-> 1]
MCDispositionOf ==
  (d1 :> [type |-> "RELEASE", at |-> "cage", qty |-> 1, hold |-> h1, ncr |-> n1]) @@
  (d2 :> [type |-> "SCRAP", at |-> "store", qty |-> 1, hold |-> h1, ncr |-> None]) @@
  (d3 :> [type |-> "USE_AS_IS", at |-> "store", qty |-> 1, hold |-> h1, ncr |-> None])
=============================================================================
