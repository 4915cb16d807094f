------------------------------ MODULE BayRuntime ------------------------------
(***************************************************************************)
(* Production of one kit on its line:                                      *)
(* modules/production-runtime/production-runtime.service.ts.               *)
(*                                                                         *)
(* Operators report assemblies bay by bay and may take the last one back;  *)
(* finished goods are declared from the work in process.  Reports and      *)
(* reverts are PostgreSQL READ COMMITTED transactions.  What they write    *)
(* takes effect at their commit and locks the row from the write on; the   *)
(* formal inventory is moved by transactions of its own, which commit in   *)
(* the middle of them.                                                     *)
(*                                                                         *)
(* Not kept: incidents, views, audit rows, the clock (the undo window may  *)
(* be over at any time).  A count has unit usage of every part of its bay. *)
(***************************************************************************)
EXTENDS Integers, FiniteSets, Functions

CONSTANTS
  Clients,       \* concurrent requests
  Bays, Parts,
  Mounted,       \* the parts each bay has material of
  Supplied,      \* the material of a part at a bay when it was mounted
  TankStock,     \* the stock of a part in the tank LINE-<line>
  StagedStock,   \* assemblies in LINE-<line>/FINISHED_STAGING
  Target,        \* kit.plan.quantity
  Requests,      \* values of clientRequestId
  EventIds,      \* primary keys, in the order of creation
  Reports,       \* arguments of registerBayEvent(): [bay, qty, request]
  Declarations,  \* arguments of declareFinishedGoods(): [qty]
  Reverting,     \* TRUE: the first query of revertBayEvent() locks its event.
                 \* FALSE: the database refuses it, because FOR UPDATE covers
                 \* the kit, too, which the query joins with a LEFT JOIN
  MaxJobs,       \* bound on the requests served
  OneAtATime,    \* TRUE: a request starts only when none is in flight
  NoEvent, NoWip, Nothing

Material == [available : Nat, consumed : Nat]

Report == [bay : Bays, qty : Nat \ {0}, request : Requests]

Event == [bay : Bays, qty : Nat \ {0}, request : Requests, reverted : BOOLEAN]

Wip == [completed : Nat, status : {"in_production", "ready_for_fg", "completed"}]

KitStatus == {"ready", "requested", "in_progress", "completed"}

ASSUME ConstantsAssumption ==
  /\ Mounted \in [Bays -> SUBSET Parts]
  /\ Supplied \in Nat /\ TankStock \in Nat /\ StagedStock \in Nat
  /\ Target \in Nat \ {0}
  /\ EventIds \subseteq Nat
  /\ Reports \subseteq Report /\ Declarations \subseteq [qty : Nat \ {0}]
  /\ MaxJobs \in Nat
  /\ NoEvent \notin Event /\ NoEvent \notin EventIds
  /\ NoWip \notin Wip /\ Nothing \notin Report

VARIABLES
  material,   \* production_bay_material_states
  events,     \* committed production_bay_events
  wip,        \* the production_wip row of the kit
  kit,        \* kit.status
  tank,       \* formal inventory: the line tank, part by part
  staged,     \* formal inventory: assemblies in FINISHED_STAGING
  declared,   \* formal inventory: assemblies moved to WH-FG
  pc,         \* where each request is
  dto,        \* its arguments
  eid,        \* the event it inserts or reverts
  copy,       \* the material of its bay as it will be saved
  todo,       \* parts whose consumption is still to be recorded
  wipCopy,    \* the work in process as read, then as it will be saved
  sum,        \* the count of assemblies it computed
  jobs        \* requests started

locals == <<dto, eid, copy, todo, wipCopy, sum>>
stock  == <<tank, staged, declared>>
table  == <<material, events, wip, kit>>
vars   == <<table, stock, locals, pc, jobs>>

Init ==
  /\ material = [b \in Bays |-> [q \in Parts |->
       [available |-> IF q \in Mounted[b] THEN Supplied ELSE 0, consumed |-> 0]]]
  /\ events = [e \in EventIds |-> NoEvent]
  /\ wip = NoWip
  /\ kit = "ready"
  /\ tank = [q \in Parts |-> TankStock]
  /\ staged = StagedStock
  /\ declared = 0
  /\ pc = [p \in Clients |-> "idle"]
  /\ dto = [p \in Clients |-> Nothing]
  /\ eid = [p \in Clients |-> NoEvent]
  /\ copy = [p \in Clients |-> Nothing]
  /\ todo = [p \in Clients |-> {}]
  /\ wipCopy = [p \in Clients |-> NoWip]
  /\ sum = [p \in Clients |-> 0]
  /\ jobs = 0

Goes(p, to) == pc' = [pc EXCEPT ![p] = to]

Starts(p) ==
  /\ pc[p] = "idle"
  /\ jobs < MaxJobs
  /\ OneAtATime => \A q \in Clients : pc[q] = "idle"
  /\ jobs' = jobs + 1

\* Commit, rollback or refusal: the connection forgets everything.
Ends(p) ==
  /\ Goes(p, "idle")
  /\ dto' = [dto EXCEPT ![p] = Nothing]
  /\ eid' = [eid EXCEPT ![p] = NoEvent]
  /\ copy' = [copy EXCEPT ![p] = Nothing]
  /\ todo' = [todo EXCEPT ![p] = {}]
  /\ wipCopy' = [wipCopy EXCEPT ![p] = NoWip]
  /\ sum' = [sum EXCEPT ![p] = 0]
  /\ UNCHANGED jobs

RolledBack(p) == Ends(p) /\ UNCHANGED <<table, stock>>

Live == {e \in EventIds : events[e] # NoEvent /\ ~ events[e].reverted}

(***************************************************************************)
(* Locks.  A request holds the rows it locked or wrote until it ends.      *)
(***************************************************************************)
Reporting == {"consume", "insert", "sum", "saveWip", "updateKit", "commit"}
Unwinding == {"sumBack", "updateKitBack", "commitBack"}

HoldsMaterial(p, b) == pc[p] \in Reporting \cup Unwinding /\ dto[p].bay = b

\* Mutant: the material is read without a lock.
NeverBusy(p, b) == FALSE

\* A material row somebody else holds.
MaterialBusy(p, b) == \E q \in Clients \ {p} : HoldsMaterial(q, b)

HoldsEvent(q, e) ==
  pc[q] \in {"findLast", "lockBack"} \cup Unwinding /\ eid[q] = e

\* The pessimistic read of the live events of the bay.
SharesEvent(q, e) ==
  /\ pc[q] \in {"lockBack"} \cup Unwinding
  /\ e \in Live /\ e <= eid[q] /\ events[e].bay = dto[q].bay

WipBusy(p) ==
  \E q \in Clients \ {p} : pc[q] \in {"updateKit", "commit", "commitDeclared"}

KitBusy(p) == \E q \in Clients \ {p} : pc[q] \in {"commit", "commitBack"}

Inserted(q) == pc[q] \in {"sum", "saveWip", "updateKit", "commit"}

(***************************************************************************)
(* registerBayEvent()                                                      *)
(***************************************************************************)
RegisterBayEvent(p, args) ==
  /\ Starts(p)
  /\ dto' = [dto EXCEPT ![p] = args]
  /\ Goes(p, "findDuplicate")
  /\ UNCHANGED <<table, stock, eid, copy, todo, wipCopy, sum>>

Recorded(request) == \E e \in EventIds : events[e] # NoEvent /\ events[e].request = request

\* A request already recorded is answered with the event there is.
AnswerDuplicate(p) ==
  /\ pc[p] = "findDuplicate"
  /\ Recorded(dto[p].request)
  /\ RolledBack(p)

FindNoDuplicate(p) ==
  /\ pc[p] = "findDuplicate"
  /\ ~ Recorded(dto[p].request)
  /\ Goes(p, "lock")
  /\ UNCHANGED <<table, stock, locals, jobs>>

\* SELECT ... FOR UPDATE of the material of the bay.
LockMaterial(p) ==
  /\ pc[p] = "lock"
  /\ ~ MaterialBusy(p, dto[p].bay)
  /\ Mounted[dto[p].bay] # {}
  /\ copy' = [copy EXCEPT ![p] = material[dto[p].bay]]
  /\ todo' = [todo EXCEPT ![p] = Mounted[dto[p].bay]]
  /\ Goes(p, "consume")
  /\ UNCHANGED <<table, stock, dto, eid, wipCopy, sum, jobs>>

RefuseUnmounted(p) ==
  /\ pc[p] = "lock"
  /\ Mounted[dto[p].bay] = {}
  /\ RolledBack(p)

Sufficient(m, qty) == m.available >= qty

Clamp(n) == IF n < 0 THEN 0 ELSE n

Used(m, qty) ==
  [available |-> Clamp(m.available - qty), consumed |-> m.consumed + qty]

\* Mutant: what was used does not become available again.
ReturnedNothing(m, qty) ==
  [available |-> m.available, consumed |-> Clamp(m.consumed - qty)]

Returned(m, qty) ==
  [available |-> m.available + qty, consumed |-> Clamp(m.consumed - qty)]

\* One part: a CONSUME of the line tank, which commits at once or fails
\* softly, then the copy of the bay's material.
Consume(p) ==
  /\ pc[p] = "consume"
  /\ \E q \in todo[p] :
       /\ Sufficient(copy[p][q], dto[p].qty)
       /\ \/ /\ tank[q] >= dto[p].qty
             /\ tank' = [tank EXCEPT ![q] = tank[q] - dto[p].qty]
          \/ UNCHANGED tank
       /\ copy' = [copy EXCEPT ![p] =
            [copy[p] EXCEPT ![q] = Used(copy[p][q], dto[p].qty)]]
       /\ todo' = [todo EXCEPT ![p] = todo[p] \ {q}]
  /\ UNCHANGED <<table, staged, declared, dto, eid, wipCopy, sum, pc, jobs>>

RefuseInsufficient(p) ==
  /\ pc[p] = "consume"
  /\ \E q \in todo[p] : ~ Sufficient(copy[p][q], dto[p].qty)
  /\ RolledBack(p)

ReadWip(p) ==
  /\ pc[p] = "consume" /\ todo[p] = {}
  /\ wipCopy' = [wipCopy EXCEPT ![p] = wip]
  /\ Goes(p, "insert")
  /\ UNCHANGED <<table, stock, dto, eid, copy, todo, sum, jobs>>

\* Mutant: no unique index on clientRequestId.
NeverTaken(request) == FALSE

\* The unique index on clientRequestId.
Taken(request) == Recorded(request)

\* Ids after every committed and uncommitted event.
FreeIds ==
  {e \in EventIds : /\ \A f \in EventIds : events[f] # NoEvent => f < e
                    /\ \A q \in Clients : Inserted(q) => eid[q] < e}

\* The unique index makes an insert wait for an uncommitted one of the same key.
InsertEvent(p) ==
  /\ pc[p] = "insert"
  /\ \A q \in Clients \ {p} : Inserted(q) => dto[q].request # dto[p].request
  /\ ~ Taken(dto[p].request)
  /\ \E e \in FreeIds :
       /\ \A f \in FreeIds : e <= f
       /\ eid' = [eid EXCEPT ![p] = e]
  /\ Goes(p, "sum")
  /\ UNCHANGED <<table, stock, dto, copy, todo, wipCopy, sum, jobs>>

RefuseTaken(p) ==
  /\ pc[p] = "insert"
  /\ Taken(dto[p].request)
  /\ RolledBack(p)

Total(S) == SumFunction([e \in S |-> events[e].qty])

SumEvents(p) ==
  /\ pc[p] = "sum"
  /\ sum' = [sum EXCEPT ![p] = Total(Live) + dto[p].qty]
  /\ Goes(p, "saveWip")
  /\ UNCHANGED <<table, stock, dto, eid, copy, todo, wipCopy, jobs>>

\* The entity that was read is saved with the new count over the row; a new
\* row must be the only one of its kit.
SaveWip(p) ==
  /\ pc[p] = "saveWip"
  /\ ~ WipBusy(p)
  /\ wipCopy[p] = NoWip => wip = NoWip
  /\ wipCopy' = [wipCopy EXCEPT ![p] =
       [completed |-> sum[p],
        status |-> IF sum[p] >= Target THEN "ready_for_fg"
                   ELSE IF wipCopy[p] = NoWip THEN "in_production"
                   ELSE wipCopy[p].status]]
  /\ Goes(p, "updateKit")
  /\ UNCHANGED <<table, stock, dto, eid, copy, todo, sum, jobs>>

RefuseSecondWip(p) ==
  /\ pc[p] = "saveWip"
  /\ ~ WipBusy(p)
  /\ wipCopy[p] = NoWip /\ wip # NoWip
  /\ RolledBack(p)

\* Mutant: the kit is complete one assembly late.
ProgressLate(total) == IF total > Target THEN "completed" ELSE "in_progress"

Progress(total) == IF total >= Target THEN "completed" ELSE "in_progress"

UpdateKit(p) ==
  /\ \/ pc[p] = "updateKit" /\ Goes(p, "commit")
     \/ pc[p] = "updateKitBack" /\ Goes(p, "commitBack")
  /\ ~ KitBusy(p)
  /\ UNCHANGED <<table, stock, locals, jobs>>

CommitEvent(p) ==
  /\ pc[p] = "commit"
  /\ material' = [material EXCEPT ![dto[p].bay] = copy[p]]
  /\ events' = [events EXCEPT ![eid[p]] =
       [bay |-> dto[p].bay, qty |-> dto[p].qty, request |-> dto[p].request,
        reverted |-> FALSE]]
  /\ wip' = wipCopy[p]
  /\ kit' = Progress(sum[p])
  /\ Ends(p)
  /\ UNCHANGED stock

(***************************************************************************)
(* revertBayEvent()                                                        *)
(***************************************************************************)
RevertBayEvent(p, e) ==
  /\ Starts(p)
  /\ events[e] # NoEvent
  /\ eid' = [eid EXCEPT ![p] = e]
  /\ Goes(p, "lockEvent")
  /\ UNCHANGED <<table, stock, dto, copy, todo, wipCopy, sum>>

EventBusy(p) ==
  \E q \in Clients \ {p} : HoldsEvent(q, eid[p]) \/ SharesEvent(q, eid[p])

LockEvent(p) ==
  /\ pc[p] = "lockEvent"
  /\ ~ EventBusy(p)
  /\ ~ events[eid[p]].reverted
  /\ dto' = [dto EXCEPT ![p] =
       [bay |-> events[eid[p]].bay, qty |-> events[eid[p]].qty,
        request |-> events[eid[p]].request]]
  /\ Goes(p, "findLast")
  /\ UNCHANGED <<table, stock, eid, copy, todo, wipCopy, sum, jobs>>

\* Reverted already, or the undo window is over.
RefuseRevert(p) ==
  /\ pc[p] = "lockEvent"
  /\ ~ EventBusy(p)
  /\ RolledBack(p)

\* Mutant: nobody looks for later events.
NoneLater(p) == {}

\* Live events of the bay after the one to revert.
Later(p) == {e \in Live : e > eid[p] /\ events[e].bay = dto[p].bay}

\* The live events of the bay, which the pessimistic read locks, too.
LiveBusy(p) ==
  \E q \in Clients \ {p}, e \in Live :
    events[e].bay = dto[p].bay /\ HoldsEvent(q, e)

\* Mutant: a request for an event that is not the last is not answered.
AlwaysLast(p) == FALSE

NotLast(p) == Later(p) # {}

FindLast(p) ==
  /\ pc[p] = "findLast"
  /\ ~ LiveBusy(p)
  /\ Later(p) = {}
  /\ Goes(p, "lockBack")
  /\ UNCHANGED <<table, stock, locals, jobs>>

RefuseNotLast(p) ==
  /\ pc[p] = "findLast"
  /\ ~ LiveBusy(p)
  /\ NotLast(p)
  /\ RolledBack(p)

LockMaterialBack(p) ==
  /\ pc[p] = "lockBack"
  /\ ~ MaterialBusy(p, dto[p].bay)
  /\ copy' = [copy EXCEPT ![p] =
       [q \in Parts |-> IF q \in Mounted[dto[p].bay]
                        THEN Returned(material[dto[p].bay][q], dto[p].qty)
                        ELSE material[dto[p].bay][q]]]
  /\ Goes(p, "sumBack")
  /\ UNCHANGED <<table, stock, dto, eid, todo, wipCopy, sum, jobs>>

SumBack(p) ==
  /\ pc[p] = "sumBack"
  /\ sum' = [sum EXCEPT ![p] = Total(Live \ {eid[p]})]
  /\ Goes(p, "updateKitBack")
  /\ UNCHANGED <<table, stock, dto, eid, copy, todo, wipCopy, jobs>>

CommitRevert(p) ==
  /\ pc[p] = "commitBack"
  /\ material' = [material EXCEPT ![dto[p].bay] = copy[p]]
  /\ events' = [events EXCEPT ![eid[p]] = [events[eid[p]] EXCEPT !.reverted = TRUE]]
  /\ kit' = Progress(sum[p])
  /\ Ends(p)
  /\ UNCHANGED <<stock, wip>>

(***************************************************************************)
(* declareFinishedGoods()                                                  *)
(***************************************************************************)
\* Mutant: more may be declared than is complete.
AnyQuantity(w, qty) == TRUE

Declarable(w, qty) == w.completed >= qty

DeclareFinishedGoods(p, args) ==
  /\ Starts(p)
  /\ wip # NoWip
  /\ Declarable(wip, args.qty)
  /\ dto' = [dto EXCEPT ![p] = args]
  /\ wipCopy' = [wipCopy EXCEPT ![p] = wip]
  /\ Goes(p, "transfer")
  /\ UNCHANGED <<table, stock, eid, copy, todo, sum>>

\* recordTransaction() to WH-FG, which commits at once.
Transfer(p) ==
  /\ pc[p] = "transfer"
  /\ staged >= dto[p].qty
  /\ staged' = staged - dto[p].qty
  /\ declared' = declared + dto[p].qty
  /\ Goes(p, "saveDeclared")
  /\ UNCHANGED <<table, tank, locals, jobs>>

RefuseTransfer(p) ==
  /\ pc[p] = "transfer"
  /\ staged < dto[p].qty
  /\ RolledBack(p)

\* The entity read before the transaction, less what was declared.
SaveDeclared(p) ==
  /\ pc[p] = "saveDeclared"
  /\ ~ WipBusy(p)
  /\ LET left == wipCopy[p].completed - dto[p].qty IN
     wipCopy' = [wipCopy EXCEPT ![p] =
       [completed |-> left,
        status |-> IF left <= 0 /\ wipCopy[p].status = "ready_for_fg"
                   THEN "completed" ELSE wipCopy[p].status]]
  /\ Goes(p, "commitDeclared")
  /\ UNCHANGED <<table, stock, dto, eid, copy, todo, sum, jobs>>

CommitDeclared(p) ==
  /\ pc[p] = "commitDeclared"
  /\ wip' = wipCopy[p]
  /\ Ends(p)
  /\ UNCHANGED <<stock, material, events, kit>>

(***************************************************************************)
(* receiveLine() and startLine(): the status is checked, then updated.     *)
(***************************************************************************)
Startable == {"ready", "requested", "in_progress"}

ReceiveLine(p) ==
  /\ Starts(p)
  /\ kit \in {"ready", "requested"}
  /\ Goes(p, "receive")
  /\ UNCHANGED <<table, stock, locals>>

StartLine(p) ==
  /\ Starts(p)
  /\ kit \in Startable
  /\ Goes(p, "start")
  /\ UNCHANGED <<table, stock, locals>>

SetKitStatus(p) ==
  /\ ~ KitBusy(p)
  /\ \/ pc[p] = "receive" /\ kit' = "requested"
     \/ pc[p] = "start" /\ kit' = "in_progress"
  /\ Ends(p)
  /\ UNCHANGED <<stock, material, events, wip>>

(***************************************************************************)
(* Failures                                                                *)
(***************************************************************************)
Fail(p) ==
  /\ pc[p] # "idle"
  /\ RolledBack(p)

\* PostgreSQL aborts one of two transactions that wait for each other.
WaitsFor(p, q) ==
  /\ p # q
  /\ \/ pc[p] \in {"lock", "lockBack"} /\ HoldsMaterial(q, dto[p].bay)
     \/ pc[p] = "lockEvent" /\ (HoldsEvent(q, eid[p]) \/ SharesEvent(q, eid[p]))
     \/ pc[p] = "findLast" /\ \E e \in Live :
          events[e].bay = dto[p].bay /\ HoldsEvent(q, e)
     \/ pc[p] = "insert" /\ Inserted(q) /\ dto[q].request = dto[p].request

DeadlockVictim(p) ==
  /\ \E q \in Clients : WaitsFor(p, q) /\ WaitsFor(q, p)
  /\ RolledBack(p)

Serve(p) ==
  \/ AnswerDuplicate(p) \/ FindNoDuplicate(p) \/ LockMaterial(p) \/ RefuseUnmounted(p)
  \/ Consume(p) \/ RefuseInsufficient(p) \/ ReadWip(p) \/ InsertEvent(p) \/ RefuseTaken(p)
  \/ SumEvents(p) \/ SaveWip(p) \/ RefuseSecondWip(p) \/ UpdateKit(p) \/ CommitEvent(p)
  \/ LockEvent(p) \/ RefuseRevert(p) \/ FindLast(p) \/ RefuseNotLast(p)
  \/ LockMaterialBack(p) \/ SumBack(p) \/ CommitRevert(p)
  \/ Transfer(p) \/ RefuseTransfer(p) \/ SaveDeclared(p) \/ CommitDeclared(p)
  \/ SetKitStatus(p) \/ DeadlockVictim(p)

Next ==
  \E p \in Clients :
    \/ \E args \in Reports : RegisterBayEvent(p, args)
    \/ Reverting /\ \E e \in EventIds : RevertBayEvent(p, e)
    \/ \E args \in Declarations : DeclareFinishedGoods(p, args)
    \/ ReceiveLine(p) \/ StartLine(p)
    \/ Serve(p) \/ Fail(p)

Spec == Init /\ [][Next]_vars

\* The server runs every statement of a request it has started.
FairSpec == Spec /\ \A p \in Clients : WF_vars(Serve(p))
-----------------------------------------------------------------------------
TypeOK ==
  /\ material \in [Bays -> [Parts -> Material]]
  /\ events \in [EventIds -> Event \cup {NoEvent}]
  /\ wip \in Wip \cup {NoWip}
  /\ kit \in KitStatus
  /\ tank \in [Parts -> Nat] /\ staged \in Nat /\ declared \in Nat
  /\ pc \in [Clients -> {"idle", "findDuplicate", "lock", "lockEvent", "findLast",
       "lockBack", "transfer", "saveDeclared", "commitDeclared", "receive", "start"}
       \cup Reporting \cup Unwinding]
  /\ dto \in [Clients -> Report \cup [qty : Nat \ {0}] \cup {Nothing}]
  /\ eid \in [Clients -> EventIds \cup {NoEvent}]
  /\ copy \in [Clients -> [Parts -> Material] \cup {Nothing}]
  /\ todo \in [Clients -> SUBSET Parts]
  /\ wipCopy \in [Clients -> Wip \cup {NoWip}]
  /\ sum \in [Clients -> Nat]
  /\ jobs \in 0 .. MaxJobs

\* What a bay used of a part is what its live events account for, and the rest
\* is available: reports, retries, reverts and failures of any two operators
\* never make the material drift from the events.
MaterialBalance ==
  \A b \in Bays : \A q \in Mounted[b] :
    /\ material[b][q].consumed = Total({e \in Live : events[e].bay = b})
    /\ material[b][q].available + material[b][q].consumed = Supplied

\* "Solicitud duplicada ignorada": a clientRequestId is recorded once, however
\* often and however concurrently the client sends it.
OncePerRequest ==
  \A e, f \in EventIds :
    (events[e] # NoEvent /\ events[f] # NoEvent /\ events[e].request = events[f].request)
      => e = f

\* Only the last live event of its bay is taken back.
OnlyLastReverted ==
  [][\A e \in EventIds :
       (e \in Live /\ e \notin Live')
         => \A f \in Live : events[f].bay = events[e].bay => f <= e]_vars

\* No more finished goods are declared than assemblies were reported.
DeclaredWithinProduced == declared <= Total(Live)

Quiet == \A p \in Clients : pc[p] = "idle"

\* When nothing is in flight the kit is complete exactly when the live events
\* reach the quantity of its plan, also after reverts and restarts of the line: a
\* complete kit is reopened by a revert and by nothing else.
KitFollowsEvents == Quiet => (kit = "completed" <=> Total(Live) >= Target)

\* Every request ends: no cycle of locks holds one for ever.
RequestsEnd == \A p \in Clients : (pc[p] # "idle") ~> (pc[p] = "idle")

\* The committed events and the material available to them.
Log == INSTANCE ProductionLog WITH
  left <- [b \in Bays |-> [q \in Mounted[b] |-> material[b][q].available]],
  log  <- {events[e] : e \in {f \in EventIds : events[f] # NoEvent}}

\* Whatever runs at the same time, fails or is retried, each report is logged
\* once and whole with the material it uses, and undone at most once.
ImplementsLog == Log!Spec
=============================================================================
