-------------------------- MODULE DocumentNumbering --------------------------
(***************************************************************************)
(* The folio service: modules/numbering/document-numbering.service.ts.     *)
(* One document type in one tenant/plant scope.  Each allocation is one    *)
(* PostgreSQL READ COMMITTED transaction: SELECT ... FOR UPDATE of every   *)
(* committed row of the type, numbering in memory, save, commit.  The      *)
(* admin operations create() and update() take no lock before they save.   *)
(*                                                                         *)
(* A folio is abstracted to what tells two folios apart: which date tokens *)
(* its pattern prints, the calendar window they print, and {SEQ}.          *)
(***************************************************************************)
EXTENDS Naturals, FiniteSets

CONSTANTS
  Allocators,     \* requests that call allocate() / allocateBlock()
  Admins,         \* requests that call create() / update()
  RowIds,         \* primary keys of document_sequences (bounds the rows)
  InitRows,       \* the rows committed before the modelled requests start
  BlockSizes,     \* the counts callers ask for
  StartValues,    \* the startAt values admins send to create()
  Edits,          \* the UpdateSequenceDto values admins send
  Default,        \* [policy, pattern] of resolveDefault()
  LastMonth,      \* bound on the calendar
  YearOf,         \* the year a month belongs to
  MaxNext,        \* bound on nextValue
  OneAtATime,     \* TRUE: a request starts only when no other is in flight
  NoRow, Nobody, Keep

Processes == Allocators \cup Admins
Months    == 0 .. LastMonth

\* The date tokens of a pattern, and the reset policies NEVER/YEARLY/MONTHLY.
Precision == {"none", "year", "month"}

ASSUME CalendarAssumption ==
  /\ LastMonth \in Nat /\ MaxNext \in Nat
  /\ YearOf \in [Months -> Nat]
  /\ \A m, n \in Months : m <= n => YearOf[m] <= YearOf[n]

ASSUME ProcessAssumption ==
  /\ Allocators \cap Admins = {}
  /\ Nobody \notin Allocators
  /\ BlockSizes \subseteq 1 .. 1000
  /\ StartValues \subseteq Nat \ {0}

Row == [next : Nat \ {0}, total : Nat, period : Nat, policy : Precision,
        pattern : Precision]

ASSUME RowAssumption ==
  /\ NoRow \notin Row /\ NoRow \notin RowIds
  /\ InitRows \in [RowIds -> Row \cup {NoRow}]
  /\ Default \in [policy : Precision, pattern : Precision]
  /\ Keep \notin Precision /\ Keep \notin Nat
  /\ Edits \subseteq [policy : Precision \cup {Keep},
                      pattern : Precision \cup {Keep}, next : (Nat \ {0}) \cup {Keep}]

VARIABLES
  month,     \* the server's clock, in months
  rows,      \* committed rows of document_sequences
  lock,      \* which transaction holds each row's FOR UPDATE lock
  pc,        \* where each request is
  rowOf,     \* the row a request loaded (NoRow: it will insert one)
  entity,    \* the entity a request holds in memory
  block,     \* the folios an allocation has rendered and not yet returned
  issued,    \* history: folios returned to callers
  reissued   \* history: folios returned to two callers

vars == <<month, rows, lock, pc, rowOf, entity, block, issued, reissued>>

Live == {r \in RowIds : rows[r] # NoRow}

\* computePeriodKey(), and equally what the date tokens of a pattern print.
Window(precision, m) ==
  CASE precision = "none"  -> 0
    [] precision = "year"  -> YearOf[m]
    [] precision = "month" -> m

Folio(pattern, m, n) ==
  [pattern |-> pattern, window |-> Window(pattern, m), seq |-> n]

Fresh(config, start, m) ==
  [next |-> start, total |-> 0, period |-> Window(config.policy, m),
   policy |-> config.policy, pattern |-> config.pattern]

\* Mutant: the counter restarts at 0.
RolledOverToZero(seq, m) ==
  IF seq.period = Window(seq.policy, m) THEN seq
  ELSE [seq EXCEPT !.next = 0, !.period = Window(seq.policy, m)]

\* Mutant: the all-time total restarts with the counter.
RolledOverTotal(seq, m) ==
  IF seq.period = Window(seq.policy, m) THEN seq
  ELSE [seq EXCEPT !.next = 1, !.total = 0, !.period = Window(seq.policy, m)]

\* The counter restarts at 1 when the reset window has changed.
RolledOver(seq, m) ==
  IF seq.period = Window(seq.policy, m) THEN seq
  ELSE [seq EXCEPT !.next = 1, !.period = Window(seq.policy, m)]

Init ==
  /\ month = 0
  /\ rows = InitRows
  /\ lock = [r \in RowIds |-> Nobody]
  /\ pc = [p \in Processes |-> "idle"]
  /\ rowOf = [p \in Processes |-> NoRow]
  /\ entity = [p \in Processes |-> NoRow]
  /\ block = [p \in Processes |-> {}]
  /\ issued = {} /\ reissued = {}

Tick ==
  /\ month < LastMonth
  /\ month' = month + 1
  /\ UNCHANGED <<rows, lock, pc, rowOf, entity, block, issued, reissued>>

Starts(p) ==
  /\ pc[p] = "idle"
  /\ OneAtATime => \A q \in Processes : pc[q] = "idle"

Goes(p, to, row, seq) ==
  /\ pc' = [pc EXCEPT ![p] = to]
  /\ rowOf' = [rowOf EXCEPT ![p] = row]
  /\ entity' = [entity EXCEPT ![p] = seq]

(***************************************************************************)
(* allocateNumbers(): select and lock, number, save and commit.            *)
(***************************************************************************)
\* Mutant: the lock is not asked for (the branch of the other database drivers).
NotLocked == TRUE

\* The rows a SELECT ... FOR UPDATE would wait for are free.
Lockable == \A r \in Live : lock[r] = Nobody

\* SELECT ... FOR UPDATE waits for every committed row of the type; getOne()
\* has no ORDER BY, so any of them may come first.
SelectForUpdate(a) ==
  /\ Starts(a)
  /\ Live # {}
  /\ Lockable
  /\ lock' = [r \in RowIds |-> IF r \in Live THEN a ELSE lock[r]]
  /\ \E r \in Live : Goes(a, "locked", r, rows[r])
  /\ UNCHANGED <<month, rows, block, issued, reissued>>

\* No row: createDefault() inserts one inside the transaction, so nobody else
\* sees it before the commit, and nothing is locked.
SelectMissing(a) ==
  /\ Starts(a)
  /\ Live = {}
  /\ Goes(a, "locked", NoRow, Fresh(Default, 1, month))
  /\ UNCHANGED <<month, rows, lock, block, issued, reissued>>

\* The clock is read after the lock is granted.
Number(a, n) ==
  /\ pc[a] = "locked"
  /\ LET seq == RolledOver(entity[a], month) IN
       /\ seq.next + n <= MaxNext
       /\ block' = [block EXCEPT ![a] =
            {Folio(seq.pattern, month, k) : k \in seq.next .. (seq.next + n - 1)}]
       /\ Goes(a, "numbered", rowOf[a],
            [seq EXCEPT !.next = seq.next + n, !.total = seq.total + n])
  /\ UNCHANGED <<month, rows, lock, issued, reissued>>

Unlocked(a) == [r \in RowIds |-> IF lock[r] = a THEN Nobody ELSE lock[r]]

Commit(a) ==
  /\ pc[a] = "numbered"
  /\ \E r \in RowIds :
       /\ IF rowOf[a] = NoRow THEN rows[r] = NoRow ELSE r = rowOf[a]
       /\ rows' = [rows EXCEPT ![r] = entity[a]]
  /\ issued' = issued \cup block[a]
  /\ reissued' = reissued \cup (issued \cap block[a])
  /\ lock' = Unlocked(a)
  /\ block' = [block EXCEPT ![a] = {}]
  /\ Goes(a, "idle", NoRow, NoRow)
  /\ UNCHANGED month

\* A failed statement or a server crash before the commit rolls everything back.
Abort(a) ==
  /\ pc[a] \in {"locked", "numbered"}
  /\ lock' = Unlocked(a)
  /\ block' = [block EXCEPT ![a] = {}]
  /\ Goes(a, "idle", NoRow, NoRow)
  /\ UNCHANGED <<month, rows, issued, reissued>>

(***************************************************************************)
(* create(): a check, then an insert; no unique index backs the check.     *)
(***************************************************************************)
CreateCheck(d) ==
  /\ Starts(d)
  /\ Live = {}
  /\ Goes(d, "creating", NoRow, NoRow)
  /\ UNCHANGED <<month, rows, lock, block, issued, reissued>>

CreateInsert(d, startAt) ==
  /\ pc[d] = "creating"
  /\ \E r \in RowIds :
       /\ rows[r] = NoRow
       /\ rows' = [rows EXCEPT ![r] = Fresh(Default, startAt, month)]
  /\ Goes(d, "idle", NoRow, NoRow)
  /\ UNCHANGED <<month, lock, block, issued, reissued>>

(***************************************************************************)
(* update(): findOne without a lock, edit in memory, save.  save() writes  *)
(* every column in which the entity differs from the row as it is by then, *)
(* so a stale nextValue is written back even when the dto did not name it. *)
(***************************************************************************)
UpdateLoad(d) ==
  /\ Starts(d)
  /\ \E r \in Live : Goes(d, "editing", r, rows[r])
  /\ UNCHANGED <<month, rows, lock, block, issued, reissued>>

Given(new, old) == IF new = Keep THEN old ELSE new

Edited(seq, dto, m) ==
  [next    |-> Given(dto.next, seq.next),
   total   |-> seq.total,
   period  |-> IF dto.policy = Keep THEN seq.period ELSE Window(dto.policy, m),
   policy  |-> Given(dto.policy, seq.policy),
   pattern |-> Given(dto.pattern, seq.pattern)]

\* Mutant: the guard is dropped.
AnyNextValue(dto, seq) == TRUE

\* "Guard against reuse/collision": the next value asked for, against the entity.
Acceptable(dto, seq) == dto.next # Keep => dto.next >= seq.next

UpdateSave(d, dto) ==
  /\ pc[d] = "editing"
  /\ Acceptable(dto, entity[d])
  /\ lock[rowOf[d]] = Nobody            \* the UPDATE waits for the row
  /\ rows' = [rows EXCEPT ![rowOf[d]] = Edited(entity[d], dto, month)]
  /\ Goes(d, "idle", NoRow, NoRow)
  /\ UNCHANGED <<month, lock, block, issued, reissued>>

UpdateReject(d, dto) ==
  /\ pc[d] = "editing"
  /\ ~ Acceptable(dto, entity[d])
  /\ Goes(d, "idle", NoRow, NoRow)
  /\ UNCHANGED <<month, rows, lock, block, issued, reissued>>

Allocation(a) ==
  \/ SelectForUpdate(a) \/ SelectMissing(a)
  \/ \E n \in BlockSizes : Number(a, n)
  \/ Commit(a) \/ Abort(a)

Administration(d) ==
  \/ CreateCheck(d) \/ UpdateLoad(d)
  \/ \E startAt \in StartValues : CreateInsert(d, startAt)
  \/ \E dto \in Edits : UpdateSave(d, dto) \/ UpdateReject(d, dto)

Next ==
  \/ Tick
  \/ \E a \in Allocators : Allocation(a)
  \/ \E d \in Admins : Administration(d)

Spec == Init /\ [][Next]_vars
-----------------------------------------------------------------------------
Folios == [pattern : Precision, window : Nat, seq : Nat \ {0}]

TypeOK ==
  /\ month \in Months
  /\ rows \in [RowIds -> Row \cup {NoRow}]
  /\ lock \in [RowIds -> Allocators \cup {Nobody}]
  /\ pc \in [Processes -> {"idle", "locked", "numbered", "creating", "editing"}]
  /\ rowOf \in [Processes -> RowIds \cup {NoRow}]
  /\ entity \in [Processes -> Row \cup {NoRow}]
  /\ block \in [Processes -> SUBSET Folios]
  /\ issued \subseteq Folios
  /\ reissued \subseteq issued

\* No folio is ever handed to two callers, whatever the interleaving of the
\* allocations, of their failures and of the turn of the month (allocateNumbers).
UniqueFolios == reissued = {}

\* The guard of update() promises that a counter is never silently moved
\* backwards; only the start of a new reset window restarts it.
CounterNeverBackwards ==
  [][\A r \in RowIds :
       rows[r] # NoRow => \/ rows'[r].next >= rows[r].next
                          \/ rows'[r].period # rows[r].period]_vars

\* totalIssued of the single row of the type counts exactly the folios callers
\* have received: an aborted allocation counts for nothing, a block for its size.
TotalCountsIssued ==
  \A r \in RowIds : Live = {r} => rows[r].total = Cardinality(issued)
=============================================================================
