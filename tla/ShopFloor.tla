------------------------------ MODULE ShopFloor ------------------------------
(***************************************************************************)
(* One published work order of the shop floor and the four modules that    *)
(* write its row: production-plan (status, operators), material-staging    *)
(* (materialReady), floor-quality (qualityClear) and fai (faiApproved),    *)
(* and the operator terminal, which checks all of it and counts units.     *)
(*                                                                         *)
(* There is no transaction and no lock: every hook loads the whole row and *)
(* saves the whole row later.  Reads that follow each other without a      *)
(* write in between are one step; a read and the save it leads to are two. *)
(* The order counts unit by unit (consumptionMode BY_UNIT); replenishment  *)
(* calls are signals to people and are left out.                           *)
(***************************************************************************)
EXTENDS Integers, FiniteSets

CONSTANTS
  Planned,       \* quantityPlanned
  UseFactor,     \* material a unit takes at a station
  Stations,      \* stations of the routing that expect a part
  Amounts,       \* what a materialist may confirm as staged
  Keys,          \* idempotency keys of confirmations
  At,            \* the station each of them confirms at
  Operators,     \* who may confirm
  Granted,       \* whom the supervisor authorizes
  Holds,         \* ids of quality holds on the order
  Fais,          \* ids of first article inspections
  FaiRequired,
  Workers,       \* concurrent requests
  Crashes,       \* whether the process may die between two saves
  None

ASSUME ConstantsAssumption ==
  /\ Planned \in Nat \ {0} /\ UseFactor \in Nat /\ Amounts \subseteq Nat
  /\ At \in [Keys -> Stations] /\ IsFiniteSet(Keys)
  /\ Granted \subseteq Operators /\ FaiRequired \in BOOLEAN
  /\ None \notin Keys /\ None \notin Stations /\ None \notin Holds /\ None \notin Fais

WorkOrderStatus == {"RELEASED", "STAGED", "IN_EXECUTION", "COMPLETED", "CANCELLED"}
WorkOrder == [status : WorkOrderStatus, completed : Nat, ready : BOOLEAN, clear : BOOLEAN,
              approved : BOOLEAN, authorized : SUBSET Operators]
Line == [staged : Nat, status : {"none", "PENDING", "STAGED", "SHORTAGE"}]
HoldStatus == {"none", "HELD", "MRB_REVIEW", "DISPOSITIONED", "REWORK", "CLOSED", "CANCELLED"}
Hold == [status : HoldStatus, rework : BOOLEAN]
FaiResult == {"none", "PENDING", "PASS", "FAIL"}

\* What a hook does to the row of the order.
Change == WorkOrderStatus \cup
  {"resequence", "authorize", "increment", "ready", "unready", "clear", "block", "approve"}

VARIABLES
  wo,          \* the row of the order
  line,        \* its staging lines
  hold,        \* its quality holds
  fai,         \* its first article inspections
  event,       \* keys of the consumption events saved
  job,         \* what each request has read and not yet written
  signed       \* history: inspections saved as PASS

rows == <<wo, line, hold, fai, event>>
vars == <<rows, job, signed>>

Required == UseFactor * Planned
NewLine == [staged |-> 0, status |-> "none"]
NewHold == [status |-> "none", rework |-> FALSE]
Published == [status |-> "RELEASED", completed |-> 0, ready |-> FALSE, clear |-> TRUE,
              approved |-> FALSE, authorized |-> {}]

\* A request: the next thing it does, to what (a station, a key, a hold or an
\* inspection), and the row, the staged quantity, the hold or the result it has.
Task(at, change, subject, row, staged, to, result) ==
  [at |-> at, change |-> change, subject |-> subject, row |-> row, staged |-> staged,
   to |-> to, result |-> result]
Idle == Task("idle", "resequence", None, Published, 0, NewHold, "none")
Call(change, key) == Task("load", change, key, Published, 0, NewHold, "none")
Save(row) == Task("save", "resequence", None, row, 0, NewHold, "none")
Job == [at : {"idle", "consume", "shortage", "event", "load", "recompute", "save", "hold", "fai"},
        change : Change, subject : Stations \cup Keys \cup Holds \cup Fais \cup {None},
        row : WorkOrder, staged : Nat, to : Hold, result : FaiResult]

Init ==
  /\ wo = Published
  /\ line = [s \in Stations |-> NewLine]
  /\ hold = [h \in Holds |-> NewHold]
  /\ fai = [f \in Fais |-> "none"]
  /\ event = {} /\ signed = {}
  /\ job = [w \in Workers |-> Idle]

-----------------------------------------------------------------------------
(* wo-state.ts, wo-cancellation.ts and the hooks of production-plan         *)

CanTransition(from, to) ==
  CASE from = "RELEASED" -> to \in {"STAGED", "IN_EXECUTION", "CANCELLED"}
    [] from = "STAGED" -> to \in {"IN_EXECUTION", "RELEASED", "CANCELLED"}
    [] from = "IN_EXECUTION" -> to \in {"COMPLETED", "CANCELLED"}
    [] OTHER -> FALSE

\* startedAt is set with the first IN_EXECUTION, a status no order comes back from.
Started(row) == row.status \in {"IN_EXECUTION", "COMPLETED"} \/ row.completed > 0
SafeCancellation(row) == ~row.ready /\ row.status # "STAGED" /\ ~Started(row)

Allowed(change, row) ==
  /\ change \in WorkOrderStatus => CanTransition(row.status, change)
  /\ change = "CANCELLED" => SafeCancellation(row)
  /\ change = "increment" => row.status \notin {"COMPLETED", "CANCELLED"}

Row(status, completed, ready, clear, approved, authorized) ==
  [status |-> status, completed |-> completed, ready |-> ready, clear |-> clear,
   approved |-> approved, authorized |-> authorized]

\* Mutant: an order is not completed by its last unit.
AfterUnitOpen(completed) == "IN_EXECUTION"
AfterUnit(completed) == IF Planned <= completed THEN "COMPLETED" ELSE "IN_EXECUTION"

Changed(change, r) ==
  Row(CASE change \in WorkOrderStatus -> change
        [] change = "increment" -> AfterUnit(r.completed + 1)
        [] change = "ready" /\ r.status = "RELEASED" -> "STAGED"
        [] change = "unready" /\ r.status = "STAGED" -> "RELEASED"
        [] OTHER -> r.status,
      IF change = "increment" THEN r.completed + 1 ELSE r.completed,
      IF change \in {"ready", "unready"} THEN change = "ready" ELSE r.ready,
      IF change \in {"clear", "block"} THEN change = "clear" ELSE r.clear,
      change = "approve" \/ r.approved,
      IF change = "authorize" THEN r.authorized \cup Granted ELSE r.authorized)

HoldTask(at, h, row, to) == Task(at, "resequence", h, row, 0, to, "none")

Others == <<line, hold, fai, event, signed>>

\* transition(), resequence() and authorizeOperators() load the row.
EditWorkOrder(w, change) ==
  /\ job[w] = Idle /\ Allowed(change, wo)
  /\ job' = [job EXCEPT ![w] = Save(Changed(change, wo))]
  /\ UNCHANGED <<wo, Others>>

\* The hook another module calls loads the row, or refuses.
LoadWorkOrder(w) ==
  /\ job[w].at = "load"
  /\ job' = [job EXCEPT ![w] = IF Allowed(job[w].change, wo)
                               THEN Save(Changed(job[w].change, wo))
                               ELSE Idle]
  /\ UNCHANGED <<wo, Others>>

\* The whole row is saved; the end of a hold goes on to save the hold.
SaveWorkOrder(w) ==
  /\ job[w].at = "save"
  /\ wo' = job[w].row
  /\ job' = [job EXCEPT ![w] = IF job[w].subject = None THEN Idle
                               ELSE HoldTask("hold", job[w].subject, Published, job[w].to)]
  /\ UNCHANGED Others

-----------------------------------------------------------------------------
(* material-staging: generateForWorkOrder(), confirmStaged(), markShortage() *)

DeriveStatus(staged) == IF Required <= staged THEN "STAGED" ELSE "PENDING"

GenerateStaging(w) ==
  /\ job[w] = Idle
  /\ line' = [s \in Stations |-> IF line[s].status = "none"
                                 THEN [staged |-> 0, status |-> "PENDING"] ELSE line[s]]
  /\ job' = [job EXCEPT ![w] = Call("unready", None)]
  /\ UNCHANGED <<wo, hold, fai, event, signed>>

ConfirmStaged(w, s, amount) ==
  /\ job[w] = Idle /\ line[s].status # "none"
  /\ line' = [line EXCEPT ![s] = [staged |-> amount, status |-> DeriveStatus(amount)]]
  /\ job' = [job EXCEPT ![w] = Task("recompute", "resequence", s, Published, 0, NewHold, "none")]
  /\ UNCHANGED <<wo, hold, fai, event, signed>>

\* Mutant: one staged line makes the order ready.
SomeStaged == \E s \in Stations : line[s].status = "STAGED"
AllStaged == \A s \in Stations : line[s].status = "STAGED" /\ Required <= line[s].staged

\* recomputeReadiness() reads every line and then the order.
RecomputeReadiness(w) ==
  /\ job[w].at = "recompute"
  /\ job' = [job EXCEPT ![w] = Save(Changed(IF AllStaged THEN "ready" ELSE "unready", wo))]
  /\ UNCHANGED <<wo, Others>>

MarkShortage(w, s) ==
  /\ job[w] = Idle /\ line[s].status # "none"
  /\ job' = [job EXCEPT ![w] = Task("shortage", "resequence", s, Published, line[s].staged, NewHold, "none")]
  /\ UNCHANGED <<wo, Others>>

SaveShortage(w) ==
  /\ job[w].at = "shortage"
  /\ line' = [line EXCEPT ![job[w].subject] = [staged |-> job[w].staged, status |-> "SHORTAGE"]]
  /\ job' = [job EXCEPT ![w] = Call("unready", None)]
  /\ UNCHANGED <<wo, hold, fai, event, signed>>

-----------------------------------------------------------------------------
(* operator-terminal: confirm()                                             *)

\* Mutant: the first piece is not asked for.
RunnableUninspected(row) ==
  row.ready /\ row.clear /\ row.status \notin {"CANCELLED", "COMPLETED"}
Runnable(row) ==
  /\ row.ready /\ row.clear
  /\ FaiRequired => row.approved
  /\ row.status \notin {"CANCELLED", "COMPLETED"}

Authorized(row, operator) == row.authorized = {} \/ operator \in row.authorized

\* Gates, idempotency check and the staging line of the station are read.
Confirm(w, operator, key) ==
  /\ job[w] = Idle
  /\ Runnable(wo) /\ Authorized(wo, operator) /\ key \notin event
  /\ job' = [job EXCEPT ![w] = Task(IF line[At[key]].status = "none" THEN "event" ELSE "consume",
                                    "resequence", key, Published, line[At[key]].staged, NewHold, "none")]
  /\ UNCHANGED <<wo, Others>>

\* Mutant: a line is never found short.
ShortNever(staged) == FALSE
Short(staged) == staged < UseFactor

\* consumeStaged(): the staged quantity it read, less what the unit takes.
ConsumeStaged(w) ==
  LET left == job[w].staged - UseFactor
      key == job[w].subject
  IN /\ job[w].at = "consume" /\ ~Short(job[w].staged)
     /\ line' = [line EXCEPT ![At[key]] = [staged |-> left, status |-> DeriveStatus(left)]]
     /\ job' = [job EXCEPT ![w] = Task("event", "resequence", key, Published, 0, NewHold, "none")]
     /\ UNCHANGED <<wo, hold, fai, event, signed>>

\* ... or, when it is short, the line is marked and the order stopped.
RefuseShort(w) ==
  /\ job[w].at = "consume" /\ Short(job[w].staged)
  /\ line' = [line EXCEPT ![At[job[w].subject]] = [staged |-> job[w].staged, status |-> "SHORTAGE"]]
  /\ job' = [job EXCEPT ![w] = Call("unready", None)]
  /\ UNCHANGED <<wo, hold, fai, event, signed>>

\* Mutant: a key may be recorded twice.
UniqueNever(key) == TRUE
\* idempotencyKey is unique: the second insert of a key is refused.
Unique(key) == key \notin event

RecordEvent(w) ==
  /\ job[w].at = "event"
  /\ IF Unique(job[w].subject)
     THEN /\ event' = event \cup {job[w].subject}
          /\ job' = [job EXCEPT ![w] = Call("increment", job[w].subject)]
     ELSE /\ job' = [job EXCEPT ![w] = Idle]
          /\ UNCHANGED event
  /\ UNCHANGED <<wo, line, hold, fai, signed>>

-----------------------------------------------------------------------------
(* floor-quality: the life of a hold                                        *)

Open(h) == hold[h].status \notin {"none", "CLOSED", "CANCELLED"}

CreateHold(w, h) ==
  /\ job[w] = Idle /\ hold[h].status = "none"
  /\ hold' = [hold EXCEPT ![h].status = "HELD"]
  /\ job' = [job EXCEPT ![w] = Call("block", None)]
  /\ UNCHANGED <<wo, line, fai, event, signed>>

\* toMrb(), disposition(), startRework() and a reinspect() that fails.
Moves(old) ==
  CASE old.status = "HELD" -> {[old EXCEPT !.status = "MRB_REVIEW"]}
    [] old.status = "MRB_REVIEW" -> {[status |-> "DISPOSITIONED", rework |-> r] : r \in BOOLEAN}
    [] old.status = "DISPOSITIONED" /\ old.rework -> {[old EXCEPT !.status = "REWORK"]}
    [] old.status = "REWORK" -> {old}
    [] OTHER -> {}

MoveHold(w, h) ==
  /\ job[w] = Idle
  /\ \E to \in Moves(hold[h]) :
       job' = [job EXCEPT ![w] = HoldTask("hold", h, Published, to)]
  /\ UNCHANGED <<wo, Others>>

\* close(), cancel() and a reinspect() that passes.
Ends(old) ==
  {[old EXCEPT !.status = "CLOSED"] : x \in {old.status} \cap {"DISPOSITIONED", "REWORK"}} \cup
  {[old EXCEPT !.status = "CANCELLED"] : x \in {old.status} \cap {"HELD", "MRB_REVIEW", "REWORK"}}

\* Mutant: the other holds of the order are not looked at.
LastAlways(h) == TRUE
Last(h) == \A x \in Holds \ {h} : ~Open(x)

\* releaseWoIfClear() comes before the hold itself is saved.
EndHold(w, h) ==
  /\ job[w] = Idle
  /\ \E to \in Ends(hold[h]) :
       job' = [job EXCEPT ![w] = IF Last(h) THEN HoldTask("save", h, Changed("clear", wo), to)
                                 ELSE HoldTask("hold", h, Published, to)]
  /\ UNCHANGED <<wo, Others>>

SaveHold(w) ==
  /\ job[w].at = "hold"
  /\ hold' = [hold EXCEPT ![job[w].subject] = job[w].to]
  /\ job' = [job EXCEPT ![w] = Idle]
  /\ UNCHANGED <<wo, line, fai, event, signed>>

-----------------------------------------------------------------------------
(* fai: create() and submit()                                               *)

CreateFai(w, f) ==
  /\ job[w] = Idle /\ fai[f] = "none"
  /\ fai' = [fai EXCEPT ![f] = "PENDING"]
  /\ UNCHANGED <<wo, line, hold, event, signed, job>>

SubmitFai(w, f, result) ==
  /\ job[w] = Idle /\ fai[f] = "PENDING"
  /\ job' = [job EXCEPT ![w] = Task("fai", "resequence", f, Published, 0, NewHold, result)]
  /\ UNCHANGED <<wo, Others>>

SaveFai(w) ==
  LET passed == job[w].result = "PASS" IN
  /\ job[w].at = "fai"
  /\ fai' = [fai EXCEPT ![job[w].subject] = job[w].result]
  /\ signed' = IF passed THEN signed \cup {job[w].subject} ELSE signed
  /\ job' = [job EXCEPT ![w] = IF passed THEN Call("approve", None) ELSE Idle]
  /\ UNCHANGED <<wo, line, hold, event>>

-----------------------------------------------------------------------------
Request(w) ==
  \/ \E change \in WorkOrderStatus \cup {"resequence", "authorize"} : EditWorkOrder(w, change)
  \/ GenerateStaging(w)
  \/ \E s \in Stations : MarkShortage(w, s) \/ \E amount \in Amounts : ConfirmStaged(w, s, amount)
  \/ \E operator \in Operators, key \in Keys : Confirm(w, operator, key)
  \/ \E h \in Holds : CreateHold(w, h) \/ MoveHold(w, h) \/ EndHold(w, h)
  \/ \E f \in Fais : CreateFai(w, f) \/ \E result \in {"PASS", "FAIL"} : SubmitFai(w, f, result)

Continue(w) ==
  \/ LoadWorkOrder(w) \/ SaveWorkOrder(w) \/ RecomputeReadiness(w) \/ SaveShortage(w)
  \/ ConsumeStaged(w) \/ RefuseShort(w) \/ RecordEvent(w) \/ SaveHold(w) \/ SaveFai(w)

\* The process dies between two saves.
Crash(w) ==
  /\ Crashes /\ job[w] # Idle
  /\ job' = [job EXCEPT ![w] = Idle]
  /\ UNCHANGED <<rows, signed>>

Next == \E w \in Workers : Request(w) \/ Continue(w) \/ Crash(w)

Spec == Init /\ [][Next]_vars

-----------------------------------------------------------------------------
(* Every row has its type; what is staged never goes below zero.            *)
TypeOK ==
  /\ wo \in WorkOrder /\ line \in [Stations -> Line] /\ hold \in [Holds -> Hold]
  /\ fai \in [Fais -> FaiResult] /\ event \subseteq Keys
  /\ job \in [Workers -> Job] /\ signed \subseteq Fais

(* "A double-tap / retry never double-counts" (sf-consumption-event.entity) *)
(* under any overlap of whole-row saves, retries and crashes: the order     *)
(* counts no unit without an event of its own (confirm, incrementCompleted).*)
NeverOvercounted == wo.completed <= Cardinality(event)

(* "First piece rejected -> WO stays blocked" (fai-state.ts): when a first  *)
(* piece is required no unit is recorded before an inspection was signed,   *)
(* whatever overlaps (runBlockers, submit).                                 *)
NoUnitBeforeFirstPiece == FaiRequired /\ event # {} => signed # {}

\* The next three are for requests that neither overlap nor die.
AtRest == \A w \in Workers : job[w] = Idle

(* Requests one at a time leave the order blocked by quality exactly while  *)
(* one of its holds is open, along every path of the material review        *)
(* (createHold, disposition, reinspect, releaseWoIfClear).                  *)
OpenHoldBlocks == AtRest => (wo.clear <=> \A h \in Holds : ~Open(h))

(* A line that ran short stops the order until every line is staged again   *)
(* (consumeStaged, markShortage, recomputeReadiness).                       *)
ShortageBlocks ==
  AtRest /\ (\E s \in Stations : line[s].status = "SHORTAGE") => ~wo.ready

(* Every unit confirmed is counted, none beyond the plan, the last one      *)
(* completes the order, and none is on an order that was cancelled          *)
(* (confirm, incrementCompleted, assertSafeCancellation).                   *)
OrderClosesItself ==
  AtRest => /\ wo.completed = Cardinality(event) /\ wo.completed <= Planned
            /\ wo.completed = Planned => wo.status = "COMPLETED"
            /\ wo.status = "CANCELLED" => event = {}

=============================================================================
