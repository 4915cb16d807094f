---------------------------- MODULE ProductionLog ----------------------------
(***************************************************************************)
(* What production promises the operators of a kit: a report is logged     *)
(* once, whole, with the material it uses, or not at all; a logged report  *)
(* may be undone once, and its material is available again.                *)
(***************************************************************************)
EXTENDS Integers

CONSTANTS Bays, Parts, Mounted, Supplied,
          Reports    \* [bay, qty, request]

VARIABLES left, log

Init ==
  /\ left = [b \in Bays |-> [q \in Mounted[b] |-> Supplied]]
  /\ log = {}

Entry(report, undone) ==
  [bay |-> report.bay, qty |-> report.qty, request |-> report.request, reverted |-> undone]

Change(b, qty) == left' = [left EXCEPT ![b] = [q \in Mounted[b] |-> left[b][q] + qty]]

Accept(report) ==
  /\ Mounted[report.bay] # {}
  /\ \A entry \in log : entry.request # report.request
  /\ \A q \in Mounted[report.bay] : left[report.bay][q] >= report.qty
  /\ Change(report.bay, -report.qty)
  /\ log' = log \cup {Entry(report, FALSE)}

Undo(report) ==
  /\ Entry(report, FALSE) \in log
  /\ Change(report.bay, report.qty)
  /\ log' = (log \ {Entry(report, FALSE)}) \cup {Entry(report, TRUE)}

Next == \E report \in Reports : Accept(report) \/ Undo(report)

Spec == Init /\ [][Next]_<<left, log>>
=============================================================================
