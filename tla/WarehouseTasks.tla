---------------------------- MODULE WarehouseTasks ----------------------------
(***************************************************************************)
(* Warehouse tasks and pulls (modules/inventory/warehouse.service.ts), the *)
(* replenishment rule that orders them (replenishment.service.ts), for one *)
(* part between one store and one line.                                    *)
(*                                                                         *)
(* No handler opens a transaction: every query commits by itself, a        *)
(* handler that changes a row saves the copy it read before, and the       *)
(* movement of the stock (recordTransaction, see Inventory) commits before *)
(* the row is saved.  A row is numbered by the count of the rows of its    *)
(* tenant, and its number, unique in the table, is its index here.         *)
(*                                                                         *)
(* Who is assigned, times, touches and urgency are left out, so that       *)
(* assignTask() is only the save of a copy.                                *)
(***************************************************************************)
EXTENDS Integers, FiniteSets

CONSTANTS
  Workers, Importers, \* concurrent requests, and those that may import calls
  TenantOf,           \* the tenant of each
  Calls, CallQty,     \* open replenishment calls, and how much each asks for
  Quantities, Picks,  \* quantities that are asked for, and found in a short pick
  MinStock, MaxStock, \* the replenishment rule of the line
  InStore,            \* stock in the store at the start
  MaxTasks,           \* bound on the tasks
  None

ASSUME ConstantsAssumption ==
  /\ Importers \subseteq Workers
  /\ CallQty \in [Calls -> Int]
  /\ Quantities \subseteq Int /\ Picks \subseteq Nat \ {0}
  /\ {MinStock, MaxStock, InStore, MaxTasks} \subseteq Nat
  /\ None \notin Calls

Tenant == {TenantOf[w] : w \in Workers}
Number == 1..MaxTasks

TaskRow ==
  [tenant : Tenant \cup {None}, qty : Int, ref : Calls \cup {None},
   status : {"none", "pending", "in_progress", "completed", "cancelled"}]

Job ==
  [at : {"idle", "crashed", "count", "insert", "import", "save", "complete", "deliver", "pick"},
   n : Number \cup {0}, row : TaskRow, new : TaskRow, m : Number \cup {0}, todo : SUBSET Calls]

VARIABLES
  task,        \* the rows by number
  store, line, \* stock on hand
  job,         \* the next step of each request
  settled      \* history: the tasks whose stock moved, or whose note says why not

vars == <<task, store, line, job, settled>>

NoTask == [tenant |-> None, qty |-> 0, ref |-> None, status |-> "none"]

\* A request at a step about row n: the copy it holds, the row it is creating
\* and its number m, the calls it has yet to import.
Step(at, n, row, new, m, todo) ==
  [at |-> at, n |-> n, row |-> row, new |-> new, m |-> m, todo |-> todo]
On(at, n, row) == Step(at, n, row, NoTask, 0, {})
Idle == On("idle", 0, NoTask)
Crashed == On("crashed", 0, NoTask)
Importing(todo) == IF todo = {} THEN Idle ELSE Step("import", 0, NoTask, NoTask, 0, todo)

Init ==
  /\ task = [n \in Number |-> NoTask]
  /\ store = InStore /\ line = 0
  /\ job = [w \in Workers |-> Idle]
  /\ settled = {}

-----------------------------------------------------------------------------
Ready(w) == job[w].at \in {"idle", "crashed"}
Goes(w, step) == job' = [job EXCEPT ![w] = step]
Unmoved == UNCHANGED <<store, line, settled>>

Taken == {n \in Number : task[n].status # "none"}

\* Repositories of one tenant see its rows only; numbers are unique in all.
Own(w) == {n \in Taken : task[n].tenant = TenantOf[w]}

\* Mutant: the new task is counted too.
NumberAfterNext(w) == Cardinality(Own(w)) + 2
NextNumber(w) == Cardinality(Own(w)) + 1

-----------------------------------------------------------------------------
(* createTask(), and what calls it                                          *)

NewTask(w, qty, ref) ==
  [tenant |-> TenantOf[w], qty |-> qty, ref |-> ref, status |-> "pending"]

Creates(w, n, row, new, todo) == Goes(w, Step("count", n, row, new, 0, todo))

AskTask(w, qty) ==
  /\ Ready(w) /\ Creates(w, 0, NoTask, NewTask(w, qty, None), {})
  /\ UNCHANGED task /\ Unmoved

\* analyzeInventory() does not ask whether a task is on its way.
Analyze(w) ==
  /\ Ready(w) /\ line <= MinStock
  /\ Creates(w, 0, NoTask, NewTask(w, MaxStock - line, None), {})
  /\ UNCHANGED task /\ Unmoved

Count(w) ==
  LET j == job[w] IN
  /\ j.at = "count" /\ NextNumber(w) \in Number
  /\ Goes(w, Step("insert", j.n, j.row, j.new, NextNumber(w), j.todo))
  /\ UNCHANGED task /\ Unmoved

Cancelled(row) == [row EXCEPT !.status = "cancelled"]

Insert(w) ==
  LET j == job[w] IN
  /\ j.at = "insert" /\ j.m \notin Taken
  /\ task' = [task EXCEPT ![j.m] = j.new]
  /\ Goes(w, IF j.n # 0 THEN On("save", j.n, Cancelled(j.row)) ELSE Importing(j.todo))
  /\ Unmoved

\* The unique index refuses the number: the handler ends there.
Clash(w) ==
  /\ job[w].at = "insert" /\ job[w].m \in Taken
  /\ Goes(w, Idle)
  /\ UNCHANGED task /\ Unmoved

Import(w) ==
  /\ Ready(w) /\ w \in Importers
  /\ Goes(w, Importing(Calls))
  /\ UNCHANGED task /\ Unmoved

\* Mutant: only the open tasks of a call are looked for.
OpenPulls(w, c) == {n \in Own(w) : task[n].ref = c /\ task[n].status \in {"pending", "in_progress"}}
Existing(w, c) == {n \in Own(w) : task[n].ref = c}

ImportCall(w, c) ==
  /\ job[w].at = "import" /\ c \in job[w].todo
  /\ IF Existing(w, c) # {}
     THEN Goes(w, Importing(job[w].todo \ {c}))
     ELSE Creates(w, 0, NoTask, NewTask(w, CallQty[c], c), job[w].todo \ {c})
  /\ UNCHANGED task /\ Unmoved

-----------------------------------------------------------------------------
(* startTask(), cancelTask(), assignTask(), handlePickException()           *)

Has(w, n, statuses) == Ready(w) /\ n \in Own(w) /\ task[n].status \in statuses
Anything == {"pending", "in_progress", "completed", "cancelled"}

Saves(w, n, row) == Goes(w, On("save", n, row)) /\ UNCHANGED task /\ Unmoved

Start(w, n) ==
  Has(w, n, {"pending"}) /\ Saves(w, n, [task[n] EXCEPT !.status = "in_progress"])

Cancel(w, n) == Has(w, n, Anything \ {"completed"}) /\ Saves(w, n, Cancelled(task[n]))

Assign(w, n) == Has(w, n, Anything) /\ Saves(w, n, task[n])

GiveUp(w, n) == Has(w, n, Anything) /\ Saves(w, n, Cancelled(task[n]))

\* The rest of a short pick is asked for in a new task.
ShortPick(w, n, picked) ==
  /\ Has(w, n, Anything)
  /\ Goes(w, Step("pick", n, task[n], NewTask(w, task[n].qty - picked, None), 0, {}))
  /\ UNCHANGED task /\ Unmoved

Save(w) ==
  /\ job[w].at = "save"
  /\ task' = [task EXCEPT ![job[w].n] = job[w].row]
  /\ Goes(w, Idle)
  /\ Unmoved

-----------------------------------------------------------------------------
(* completeTask(), deliverTask(): the movement comes first                  *)

Complete(w, n) ==
  /\ Has(w, n, {"in_progress"}) /\ Goes(w, On("complete", n, task[n]))
  /\ UNCHANGED task /\ Unmoved

Deliver(w, n) ==
  /\ Has(w, n, {"pending", "in_progress"}) /\ Goes(w, On("deliver", n, task[n]))
  /\ UNCHANGED task /\ Unmoved

Quantity(j) == IF j.at = "pick" THEN j.row.qty - j.new.qty ELSE j.row.qty

\* Mutant: the stock is not checked.
EnoughAlways(q) == TRUE
Enough(q) == q <= store

Completed(row) == [row EXCEPT !.status = "completed"]

Move(w) ==
  LET j == job[w]
      q == Quantity(j)
  IN /\ j.at \in {"complete", "deliver", "pick"} /\ Enough(q)
     /\ store' = store - q /\ line' = line + q
     /\ IF j.at = "pick"
        THEN Creates(w, j.n, j.row, j.new, {}) /\ UNCHANGED settled
        ELSE Goes(w, On("save", j.n, Completed(j.row))) /\ settled' = settled \cup {j.n}
     /\ UNCHANGED task

\* Mutant: a completion that could not move its stock is saved all the same.
RefuseMoveSaved(w) ==
  /\ job[w].at \in {"complete", "pick"} /\ ~Enough(Quantity(job[w]))
  /\ Goes(w, On("save", job[w].n, Completed(job[w].row)))
  /\ UNCHANGED task /\ Unmoved

RefuseMove(w) ==
  /\ job[w].at \in {"complete", "pick"} /\ ~Enough(Quantity(job[w]))
  /\ Goes(w, Idle)
  /\ UNCHANGED task /\ Unmoved

\* Mutant: a delivery that could not move its stock is given up.
DeliverNothing(w) ==
  /\ job[w].at = "deliver" /\ ~Enough(Quantity(job[w]))
  /\ Goes(w, Idle)
  /\ UNCHANGED task /\ Unmoved

\* A delivery is closed with a note when the stock cannot move.
DeliverNoted(w) ==
  /\ job[w].at = "deliver" /\ ~Enough(Quantity(job[w]))
  /\ settled' = settled \cup {job[w].n}
  /\ Goes(w, On("save", job[w].n, Completed(job[w].row)))
  /\ UNCHANGED <<task, store, line>>

-----------------------------------------------------------------------------
Request(w) ==
  \/ \E qty \in Quantities : AskTask(w, qty)
  \/ Analyze(w) \/ Import(w)
  \/ \E n \in Number :
       \/ Start(w, n) \/ Cancel(w, n) \/ Assign(w, n) \/ GiveUp(w, n)
       \/ Complete(w, n) \/ Deliver(w, n) \/ \E picked \in Picks : ShortPick(w, n, picked)

Continue(w) ==
  \/ Count(w) \/ Insert(w) \/ Clash(w) \/ \E c \in Calls : ImportCall(w, c)
  \/ Save(w) \/ Move(w) \/ RefuseMove(w) \/ DeliverNoted(w)

Crash(w) == ~Ready(w) /\ Goes(w, Crashed) /\ UNCHANGED task /\ Unmoved

Next == \E w \in Workers : Request(w) \/ Continue(w) \/ Crash(w)

Spec == Init /\ [][Next]_vars

\* A handler that has begun goes on.
FairSpec == Spec /\ \A w \in Workers : WF_vars(Continue(w))

-----------------------------------------------------------------------------
(* Every row has its type, and the store never goes below zero, not even by *)
(* the rest of a short pick of more than was asked for (recordTransaction). *)
TypeOK ==
  /\ task \in [Number -> TaskRow] /\ store \in Nat /\ line \in Int
  /\ job \in [Workers -> Job] /\ settled \subseteq Number

(* The next task of any tenant gets a number nobody has: a request that     *)
(* creates a task and runs alone succeeds (createTask: the number is the    *)
(* count of the tenant's tasks plus one, unique among all tenants).         *)
NextNumberFree ==
  \A w \in Workers : Cardinality({n \in Taken : task[n].tenant = TenantOf[w]}) + 1 \notin Taken

(* "Idempotente: cada llamado se enlaza [...] y no se vuelve a crear": with *)
(* one importer at a time a call has one pull, however often an import is   *)
(* repeated or breaks off, and whatever became of the pull.                 *)
ImportedOnce == \A c \in Calls : Cardinality({n \in Taken : task[n].ref = c}) <= 1

(* A task that says completed has moved its stock, or its note says why     *)
(* not, whatever crashes, races or is overwritten by a stale copy           *)
(* (completeTask, deliverTask: the movement commits first).                 *)
CompletedMoved == \A n \in Number : task[n].status = "completed" => n \in settled

(* "Asi 'Entregar' siempre cierra el SLA en piso": a delivery that has      *)
(* begun closes the task, if only with a note, unless the process dies      *)
(* (deliverTask).                                                           *)
DeliveryCloses ==
  \A w \in Workers : \A n \in Number :
    (job[w].at = "deliver" /\ job[w].n = n) ~> (task[n].status = "completed" \/ job[w].at = "crashed")
=============================================================================
