---------------------------- MODULE MCBayRuntime ----------------------------
(* Small instances of BayRuntime for TLC. *)
EXTENDS BayRuntime, TLC

OneBay == [b \in Bays |-> IF b = "bay1" THEN Parts ELSE {}]
EveryBay == [b \in Bays |-> Parts]

Reported(bay, qty, request) == [bay |-> bay, qty |-> qty, request |-> request]

\* The same request sent twice, to one bay or to another one by mistake.
Retried == {Reported(b, 1, "k1") : b \in Bays} \cup {Reported("bay1", 1, "k2")}
SameBay == {Reported("bay1", 1, k) : k \in Requests}
Sizes == {Reported("bay1", n, k) : n \in 1 .. 2, k \in Requests} \cup {Reported("bay2", 1, "k1")}

DeclareSome == {[qty |-> 1], [qty |-> 2]}
DeclareNone == {}
=============================================================================
