------------------------- MODULE MCDocumentNumbering -------------------------
(* Small instances of DocumentNumbering for TLC. *)
EXTENDS DocumentNumbering, TLC

\* Two months to a year, so that a few ticks cross a month and a year.
MCYearOf == [m \in Months |-> m \div 2]

SeqRow(policy, pattern) ==
  [next |-> 1, total |-> 0, period |-> 0, policy |-> policy, pattern |-> pattern]

RowsOf(row) == LET first == CHOOSE r \in RowIds : TRUE
               IN [r \in RowIds |-> IF r = first THEN row ELSE NoRow]

\* WORK_ORDER: {PREFIX}-{YYYY}-{SEQ}, yearly.
Provisioned   == RowsOf(SeqRow("year", "year"))
Unprovisioned == [r \in RowIds |-> NoRow]

YearlyDefault == [policy |-> "year", pattern |-> "year"]

Dto(policy, pattern, next) == [policy |-> policy, pattern |-> pattern, next |-> next]
\* Edits that refine the pattern, or move the counter (some too far back).
SafeEdits  == {Dto(Keep, "month", Keep), Dto(Keep, Keep, 3), Dto(Keep, Keep, 1)}
NoEdits    == {}
=============================================================================
