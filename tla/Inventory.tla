------------------------------ MODULE Inventory ------------------------------
(***************************************************************************)
(* Stock positions of one part: modules/inventory/inventory.service.ts.    *)
(*                                                                         *)
(* recordTransaction() runs in one PostgreSQL READ COMMITTED transaction   *)
(* on a connection of its own.  It reads the source position without a     *)
(* lock, checks it, saves it, reads or creates the destination, saves it,  *)
(* logs the movement and commits.  A saved entity overwrites the row with  *)
(* what was read, plus the change: TypeORM writes the columns in which the *)
(* entity differs from the row by the time of save().  The UPDATE waits    *)
(* while another transaction holds an uncommitted write of the same row.   *)
(* transferToLine() splits a quantity over the positions it read first and *)
(* runs one such transaction for each.  The quality service sets the hold  *)
(* status of every row of a warehouse with one UPDATE.                     *)
(*                                                                         *)
(* Not kept: units, expiry, audit rows; `allocated`, which no code writes. *)
(***************************************************************************)
EXTENDS Integers, FiniteSets, Functions

CONSTANTS
  Clients,       \* concurrent requests
  Places,        \* pairs of a warehouse and a location
  LinePlaces,    \* the places LINE-<n>/LINE, the tanks of the lines
  Lots,          \* lot numbers
  RowIds,        \* primary keys, in the order of creation
  InitRows,      \* the positions committed at the start
  Transactions,  \* the arguments callers give to recordTransaction()
  Supplies,      \* the arguments callers give to transferToLine()
  Holdable,      \* the places quality may put on hold
  MaxJobs,       \* bound on the requests served
  OneAtATime,    \* TRUE: a request starts only when none is in flight
  NoRow, NoPlace, NoLot, Unset, Clean, Nothing

Status == {"available", "hold", "quarantine", "pending_iqc", "pending_oqc",
           "staged_for_shipping"}

\* Mutant: the hard lock is gone.
AnyStatus == Status

\* The statuses recordTransaction() lets stock leave a position in.
Movable == {"available", "staged_for_shipping"}

Row == [place : Places, lot : Lots \cup {NoLot}, onHand : Int, hold : Status]

Dto == [from : Places \cup {NoPlace}, to : Places \cup {NoPlace},
        lot : Lots \cup {NoLot}, qty : Nat \ {0}, hold : Status \cup {Unset}]

ASSUME ConstantsAssumption ==
  /\ RowIds \subseteq Nat /\ IsFiniteSet(RowIds)
  /\ LinePlaces \subseteq Places /\ Holdable \subseteq Places
  /\ NoPlace \notin Places /\ NoLot \notin Lots
  /\ NoRow \notin Row /\ NoRow \notin RowIds /\ Unset \notin Status
  /\ InitRows \in [RowIds -> Row \cup {NoRow}]
  /\ \A r \in RowIds : InitRows[r] # NoRow => InitRows[r].onHand >= 0
  /\ Transactions \subseteq Dto
  /\ Supplies \subseteq [to : LinePlaces, qty : Nat \ {0}]
  /\ MaxJobs \in Nat

\* An uncommitted write of a row, with what the ledger will say of it.
Write == [row : Row, leg : Int, stale : BOOLEAN]

\* A supply under way: what it asked for, what is left to take, what has been
\* moved, and what each remaining candidate had when it was read (0: none).
Job == [to : LinePlaces, asked : Nat, left : Nat, moved : Nat,
        spare : [RowIds -> Nat]]

ASSUME MarkerAssumption ==
  Clean \notin Write /\ Nothing \notin Job /\ Nothing \notin Dto

VARIABLES
  rows,      \* committed rows of inventory_positions
  pending,   \* uncommitted writes of each request; they lock their rows
  pc,        \* where each request is
  dto,       \* the arguments of the transaction in flight
  cur,       \* the entity a request holds: [row, ent]
  supply,    \* the rest of a transferToLine(): [to, asked, left, spare, moved]
  jobs,      \* requests started
  booked,    \* history: what the committed movements sum to, row by row
  raced      \* history: rows committed from an entity that was out of date

vars == <<rows, pending, pc, dto, cur, supply, jobs, booked, raced>>

\* The committed rows with a request's own writes over them.
Overlay(p) ==
  [r \in RowIds |-> IF pending[p][r] = Clean THEN rows[r] ELSE pending[p][r].row]

\* Mutant: the reads go through the shared repository, not the transaction.
CommittedOnly(p) == rows

\* What the reads of a request see.
View(p) == Overlay(p)

\* A where clause with an undefined lot matches every lot.
Matching(p, place, lot) ==
  {r \in RowIds : /\ View(p)[r] # NoRow
                  /\ View(p)[r].place = place
                  /\ lot = NoLot \/ View(p)[r].lot = lot}

Unlocked(p, r) == \A q \in Clients \ {p} : pending[q][r] = Clean

NoWrites == [r \in RowIds |-> Clean]

Init ==
  /\ rows = InitRows
  /\ pending = [p \in Clients |-> NoWrites]
  /\ pc = [p \in Clients |-> "idle"]
  /\ dto = [p \in Clients |-> Nothing]
  /\ cur = [p \in Clients |-> Nothing]
  /\ supply = [p \in Clients |-> Nothing]
  /\ jobs = 0
  /\ booked = [r \in RowIds |-> IF InitRows[r] = NoRow THEN 0
                                ELSE InitRows[r].onHand]
  /\ raced = {}

Goes(p, to) == pc' = [pc EXCEPT ![p] = to]

Starts(p) ==
  /\ pc[p] = "idle"
  /\ jobs < MaxJobs
  /\ OneAtATime => \A q \in Clients : pc[q] = "idle"
  /\ jobs' = jobs + 1

(***************************************************************************)
(* recordTransaction()                                                     *)
(***************************************************************************)
Begin(p, args) ==
  /\ Starts(p)
  /\ dto' = [dto EXCEPT ![p] = args]
  /\ Goes(p, "source")
  /\ UNCHANGED <<rows, pending, cur, supply, booked, raced>>

\* Mutant: the quantity is not checked.
NotChecked(ent, qty) == TRUE

Enough(ent, qty) == ent.onHand >= qty

ReadSource(p) ==
  /\ pc[p] = "source"
  /\ \/ /\ dto[p].from = NoPlace
        /\ Goes(p, "dest") /\ UNCHANGED cur
     \/ /\ dto[p].from # NoPlace
        /\ \E r \in Matching(p, dto[p].from, dto[p].lot) :
             /\ Enough(View(p)[r], dto[p].qty)
             /\ View(p)[r].hold \in Movable
             /\ cur' = [cur EXCEPT ![p] = [row |-> r, ent |-> View(p)[r]]]
        /\ Goes(p, "saveSource")
  /\ UNCHANGED <<rows, pending, dto, supply, jobs, booked, raced>>

\* Mutant: the statements before the failure stay, as without a transaction.
Autocommitted(p) ==
  /\ rows' = Overlay(p)
  /\ pending' = [pending EXCEPT ![p] = NoWrites]
  /\ cur' = [cur EXCEPT ![p] = Nothing]
  /\ dto' = [dto EXCEPT ![p] = Nothing]
  /\ supply' = [supply EXCEPT ![p] = Nothing]
  /\ Goes(p, "idle")
  /\ UNCHANGED <<jobs, booked, raced>>

\* Mutant: the connection is dropped with its transaction left open.
LeftOpen(p) ==
  /\ Goes(p, "idle")
  /\ cur' = [cur EXCEPT ![p] = Nothing]
  /\ dto' = [dto EXCEPT ![p] = Nothing]
  /\ supply' = [supply EXCEPT ![p] = Nothing]
  /\ UNCHANGED <<rows, pending, jobs, booked, raced>>

\* Every way out but the commit: rollback, release the connection, forget the
\* rest of the supply (the caller gets the error).
RolledBack(p) ==
  /\ pending' = [pending EXCEPT ![p] = NoWrites]
  /\ cur' = [cur EXCEPT ![p] = Nothing]
  /\ dto' = [dto EXCEPT ![p] = Nothing]
  /\ supply' = [supply EXCEPT ![p] = Nothing]
  /\ Goes(p, "idle")
  /\ UNCHANGED <<rows, jobs, booked, raced>>

\* No such position, not enough in it, or stock that may not move.
RefuseSource(p) ==
  /\ pc[p] = "source"
  /\ dto[p].from # NoPlace
  /\ LET found == Matching(p, dto[p].from, dto[p].lot) IN
       \/ found = {}
       \/ \E r \in found : \/ ~ Enough(View(p)[r], dto[p].qty)
                           \/ View(p)[r].hold \notin Movable
  /\ RolledBack(p)

\* Saves an entity with a new quantity and hold status over its row.  The leg
\* is what the movement will book; the save is stale when the row has changed
\* since the entity was read.
Save(p, r, ent, delta, hold) ==
  LET before == pending[p][r] IN
  pending' = [pending EXCEPT ![p][r] =
    [row   |-> [ent EXCEPT !.onHand = ent.onHand + delta, !.hold = hold],
     leg   |-> delta + (IF before = Clean THEN 0 ELSE before.leg),
     stale |-> \/ View(p)[r] # NoRow /\ View(p)[r].onHand # ent.onHand
               \/ before # Clean /\ before.stale]]

SaveSource(p) ==
  /\ pc[p] = "saveSource"
  /\ Unlocked(p, cur[p].row)
  /\ Save(p, cur[p].row, cur[p].ent, -dto[p].qty, cur[p].ent.hold)
  /\ cur' = [cur EXCEPT ![p] = Nothing]
  /\ Goes(p, "dest")
  /\ UNCHANGED <<rows, dto, supply, jobs, booked, raced>>

\* Mutant: a movement that names no status makes the stock available.
OrAvailable(value, default) == IF value = Unset THEN "available" ELSE value

Given(value, default) == IF value = Unset THEN default ELSE value

\* Mutant: no default status.
NoDefaultStatus(args) ==
  [place |-> args.to, lot |-> args.lot, onHand |-> 0, hold |-> args.hold]

NewPosition(args) ==
  [place |-> args.to, lot |-> args.lot, onHand |-> 0,
   hold |-> Given(args.hold, "available")]

ReadDest(p) ==
  /\ pc[p] = "dest"
  /\ LET found == Matching(p, dto[p].to, dto[p].lot) IN
       \/ /\ dto[p].to = NoPlace
          /\ Goes(p, "commit") /\ UNCHANGED cur
       \/ /\ dto[p].to # NoPlace
          /\ \/ \E r \in found : cur' = [cur EXCEPT ![p] = [row |-> r, ent |-> View(p)[r]]]
             \/ /\ found = {}
                /\ cur' = [cur EXCEPT ![p] = [row |-> NoRow, ent |-> NewPosition(dto[p])]]
          /\ Goes(p, "saveDest")
  /\ UNCHANGED <<rows, pending, dto, supply, jobs, booked, raced>>

\* An INSERT takes an id of its own; the unique constraint of the table does
\* not stop two inserts, because programId is NULL.
Fresh(r) == rows[r] = NoRow /\ \A q \in Clients : pending[q][r] = Clean

SaveDest(p) ==
  /\ pc[p] = "saveDest"
  /\ \E r \in RowIds :
       /\ IF cur[p].row = NoRow THEN Fresh(r) ELSE r = cur[p].row /\ Unlocked(p, r)
       /\ Save(p, r, cur[p].ent, dto[p].qty, Given(dto[p].hold, cur[p].ent.hold))
  /\ cur' = [cur EXCEPT ![p] = Nothing]
  /\ Goes(p, "commit")
  /\ UNCHANGED <<rows, dto, supply, jobs, booked, raced>>

Written(p) == {r \in RowIds : pending[p][r] # Clean}

Commit(p) ==
  /\ pc[p] = "commit"
  /\ rows' = Overlay(p)
  /\ pending' = [pending EXCEPT ![p] = NoWrites]
  /\ booked' = [r \in RowIds |->
                  booked[r] + (IF r \in Written(p) THEN pending[p][r].leg ELSE 0)]
  /\ raced' = raced \cup {r \in Written(p) : pending[p][r].stale}
  /\ IF supply[p] = Nothing
       THEN Goes(p, "idle") /\ UNCHANGED supply
       ELSE /\ Goes(p, "supplying")
            /\ supply' = [supply EXCEPT ![p].moved = supply[p].moved + dto[p].qty]
  /\ dto' = [dto EXCEPT ![p] = Nothing]
  /\ UNCHANGED <<cur, jobs>>

\* A failed statement (the audit row, say), or a crash of the server: what is
\* not committed is rolled back, and the rest of a supply is forgotten.
Fail(p) ==
  /\ pc[p] # "idle"
  /\ RolledBack(p)

\* Two transactions that wait for each other: PostgreSQL aborts one of them.
WaitsFor(p, q) ==
  /\ pc[p] \in {"saveSource", "saveDest"} /\ cur[p].row # NoRow
  /\ p # q /\ pending[q][cur[p].row] # Clean

DeadlockVictim(p) ==
  /\ \E q \in Clients : WaitsFor(p, q) /\ WaitsFor(q, p)
  /\ RolledBack(p)

(***************************************************************************)
(* transferToLine(): the candidates are read once; each take is then a     *)
(* TRANSFER of its own.                                                    *)
(***************************************************************************)
\* Flat, available stock outside the line tanks.
Candidates ==
  {r \in RowIds : /\ rows[r] # NoRow
                  /\ rows[r].hold = "available" /\ rows[r].lot = NoLot
                  /\ rows[r].place \notin LinePlaces
                  /\ rows[r].onHand > 0}

BeginSupply(p, args) ==
  LET spare == [r \in RowIds |-> IF r \in Candidates THEN rows[r].onHand ELSE 0] IN
  /\ Starts(p)
  /\ SumFunction(spare) >= args.qty        \* otherwise the request is refused
  /\ supply' = [supply EXCEPT ![p] =
       [to |-> args.to, asked |-> args.qty, left |-> args.qty, moved |-> 0,
        spare |-> spare]]
  /\ Goes(p, "supplying")
  /\ UNCHANGED <<rows, pending, dto, cur, booked, raced>>

\* Mutant: each candidate gives all it had.
TakeAll(left, spare) == spare

\* The oldest candidate gives all it had, or what is left to supply.
Take(left, spare) == IF left < spare THEN left ELSE spare

NextTake(p) ==
  /\ pc[p] = "supplying"
  /\ supply[p].left > 0
  /\ \E r \in RowIds :
       LET spare == supply[p].spare
           qty   == Take(supply[p].left, spare[r]) IN
       /\ spare[r] > 0 /\ \A s \in RowIds : spare[s] > 0 => r <= s
       /\ dto' = [dto EXCEPT ![p] =
            [from |-> rows[r].place, to |-> supply[p].to, lot |-> NoLot,
             qty |-> qty, hold |-> Unset]]
       /\ supply' = [supply EXCEPT ![p].left = supply[p].left - qty,
                                    ![p].spare = [spare EXCEPT ![r] = 0]]
  /\ Goes(p, "source")
  /\ UNCHANGED <<rows, pending, cur, jobs, booked, raced>>

Exhausted(p) ==
  pc[p] = "supplying" /\ (supply[p].left = 0 \/ \A r \in RowIds : supply[p].spare[r] = 0)

EndSupply(p) ==
  /\ Exhausted(p)
  /\ supply' = [supply EXCEPT ![p] = Nothing]
  /\ Goes(p, "idle")
  /\ UNCHANGED <<rows, pending, dto, cur, jobs, booked, raced>>

(***************************************************************************)
(* quality.service.ts: createHold() and releaseHold() at WAREHOUSE level.  *)
(***************************************************************************)
SetHold(place, status) ==
  /\ \E r \in RowIds : rows[r] # NoRow /\ rows[r].place = place /\ rows[r].hold # status
  /\ \A r \in RowIds : rows[r] # NoRow /\ rows[r].place = place =>
       \A q \in Clients : pending[q][r] = Clean
  /\ OneAtATime => \A q \in Clients : pc[q] = "idle"
  /\ rows' = [r \in RowIds |->
                IF rows[r] # NoRow /\ rows[r].place = place
                THEN [rows[r] EXCEPT !.hold = status] ELSE rows[r]]
  /\ UNCHANGED <<pending, pc, dto, cur, supply, jobs, booked, raced>>

ApplyHold(place)   == SetHold(place, "hold")
ReleaseHold(place) == SetHold(place, "available")

Transact(p) ==
  \/ ReadSource(p) \/ RefuseSource(p) \/ SaveSource(p)
  \/ ReadDest(p) \/ SaveDest(p) \/ Commit(p)
  \/ DeadlockVictim(p)
  \/ NextTake(p) \/ EndSupply(p)

Next ==
  \/ \E p \in Clients :
       \/ \E args \in Transactions : Begin(p, args)
       \/ \E args \in Supplies : BeginSupply(p, args)
       \/ Transact(p) \/ Fail(p)
  \/ \E place \in Holdable : ApplyHold(place) \/ ReleaseHold(place)

Spec == Init /\ [][Next]_vars

\* The server runs every statement of a request it has started, and the
\* database resolves deadlocks; nothing is assumed of new requests or of quality.
FairSpec == Spec /\ \A p \in Clients : WF_vars(Transact(p))
-----------------------------------------------------------------------------
Entity == [row : RowIds \cup {NoRow}, ent : Row]

TypeOK ==
  /\ rows \in [RowIds -> Row \cup {NoRow}]
  /\ pending \in [Clients -> [RowIds -> Write \cup {Clean}]]
  /\ pc \in [Clients -> {"idle", "source", "saveSource", "dest", "saveDest",
                         "commit", "supplying"}]
  /\ dto \in [Clients -> Dto \cup {Nothing}]
  /\ cur \in [Clients -> Entity \cup {Nothing}]
  /\ supply \in [Clients -> Job \cup {Nothing}]
  /\ booked \in [RowIds -> Int]
  /\ raced \subseteq RowIds
  /\ jobs \in 0 .. MaxJobs

\* Stock never goes negative in any row, committed or being written, however
\* stale the entities that recordTransaction() saves: it checks and saves the
\* same copy.
NonNegative ==
  /\ \A r \in RowIds : rows[r] # NoRow => rows[r].onHand >= 0
  /\ \A p \in Clients, r \in RowIds :
       pending[p][r] # Clean => pending[p][r].row.onHand >= 0

\* The movements explain the stock of every row that no transaction has saved
\* from an out-of-date copy: failures, refusals, deadlocks, duplicate rows and
\* transfers of a position onto itself never make a row drift from its ledger.
LedgerExplains ==
  \A r \in RowIds \ raced : rows[r] # NoRow => rows[r].onHand = booked[r]

\* A supply that ends without an error has moved exactly what was asked, over
\* as many positions as it took.
SupplyExact ==
  \A p \in Clients : Exhausted(p) => supply[p].moved = supply[p].asked

\* "OPERATIONAL HARD LOCK": no committed movement takes stock out of a row that
\* is on hold by the time it commits.
HoldsBlockMovement ==
  [][\A r \in RowIds :
       (rows[r] # NoRow /\ rows'[r].onHand < rows[r].onHand)
         => rows[r].hold \notin {"hold", "quarantine", "pending_iqc", "pending_oqc"}]_vars

\* Only a release by quality, or a movement that names a status, lifts a hold.
HoldsStay ==
  [][\A r \in RowIds :
       (rows[r] # NoRow /\ rows[r].hold = "hold" /\ rows'[r].hold # "hold")
         => \/ UNCHANGED pc
            \/ \E p \in Clients : dto[p] # Nothing /\ dto[p].hold # Unset]_vars

\* Every request that starts comes to an end: rollbacks release their locks and
\* two transfers in opposite directions do not wait for each other for ever.
RequestsEnd == \A p \in Clients : (pc[p] # "idle") ~> (pc[p] = "idle")

\* What the positions hold at a place.
OnHandAt(content, place) ==
  SumFunction([r \in RowIds |->
    IF content[r] # NoRow /\ content[r].place = place THEN content[r].onHand ELSE 0])

\* The transactions a supply may be made of.
Takes ==
  UNION {{[from |-> from, to |-> s.to, lot |-> NoLot, qty |-> qty, hold |-> Unset] :
            from \in Places \ LinePlaces, qty \in 1 .. s.qty} : s \in Supplies}

Ledger == INSTANCE StockLedger WITH
  Requests  <- Transactions \cup Takes,
  InitStock <- [place \in Places |-> OnHandAt(InitRows, place)],
  stock     <- [place \in Places |-> OnHandAt(rows, place)]

\* The inventory, one request at a time, implements the stock ledger: each
\* commit is one movement and nothing else changes a quantity.
ImplementsLedger == Ledger!Spec
=============================================================================
