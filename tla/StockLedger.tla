----------------------------- MODULE StockLedger -----------------------------
(***************************************************************************)
(* What the inventory promises its callers, without rows, transactions or  *)
(* connections: one quantity per place, and movements that happen at once  *)
(* or not at all.  What enters a place left another one, or came from      *)
(* outside as a receipt.                                                   *)
(***************************************************************************)
EXTENDS Integers

CONSTANTS Places, NoPlace,
          Requests,    \* the movements [from, to, qty] callers may ask for
          InitStock

VARIABLE stock

Init == stock = InitStock

Leg(args, place) ==
  (IF args.to = place THEN args.qty ELSE 0) - (IF args.from = place THEN args.qty ELSE 0)

\* A movement is refused when the place it leaves does not hold enough.
Move(args) ==
  /\ args.from # NoPlace => stock[args.from] >= args.qty
  /\ stock' = [place \in Places |-> stock[place] + Leg(args, place)]

Next == \E args \in Requests : Move(args)

Spec == Init /\ [][Next]_stock
=============================================================================
