--------------------------- MODULE MCWarehouseTasks ---------------------------
(* A small instance of WarehouseTasks: one tenant, one importer.             *)
EXTENDS WarehouseTasks

OneTenant == [w \in Workers |-> "A"]
MCCallQty == [c \in Calls |-> 1]
=============================================================================
