--------------------------- MODULE ShopFloorProofs ---------------------------
(***************************************************************************)
(* ShopFloor for any order, stations, holds and requests: every row keeps  *)
(* its type, no unit is counted without an event of its own, and none is   *)
(* recorded before the first piece was signed, however requests overlap    *)
(* and die.  With one request at a time the order is also blocked by its   *)
(* open holds and short lines and completed by its last unit.              *)
(*                                                                         *)
(* A unit is counted when the order is loaded for it, not when it is       *)
(* saved: Awaiting holds the events whose count is still to come, and no   *)
(* copy of the row counts more than the other events.                      *)
(*                                                                         *)
(* For one request at a time the invariant (Serial) speaks of the row and  *)
(* the holds as the running request will leave them.                       *)
(***************************************************************************)
EXTENDS ShopFloor, FiniteSetTheorems, TLAPS

Awaits(t) == t.at = "load" /\ t.change = "increment"
Awaiting == {k \in Keys : \E w \in Workers : Awaits(job[w]) /\ job[w].subject = k}
Settled == event \ Awaiting

AwaitingRecorded ==
  /\ \A w \in Workers : Awaits(job[w]) => job[w].subject \in event
  /\ \A v, w \in Workers : v # w /\ Awaits(job[v]) /\ Awaits(job[w]) => job[v].subject # job[w].subject

\* What holds of the task of a request.
Subjects(t) ==
  /\ t.at \in {"consume", "event"} => t.subject \in Keys
  /\ t.at = "fai" => t.subject \in Fais
Inspected(t) ==
  /\ t.at \in {"consume", "event"} /\ FaiRequired => signed # {}
  /\ t.at = "load" /\ t.change = "approve" => signed # {}
  /\ t.row.approved => signed # {}

TasksSound == \A w \in Workers : Subjects(job[w]) /\ Inspected(job[w])
Approval == wo.approved => signed # {}
Counts ==
  /\ wo.completed <= Cardinality(Settled)
  /\ \A w \in Workers : job[w].row.completed <= Cardinality(Settled)

IInv ==
  /\ TypeOK /\ TasksSound /\ Approval /\ NoUnitBeforeFirstPiece
  /\ AwaitingRecorded /\ Counts

-----------------------------------------------------------------------------
LEMMA ConstantTypes ==
  Published \in WorkOrder /\ NewHold \in Hold /\ Idle \in Job /\ Published.completed = 0 /\ ~Published.approved
BY DEF Published, NewHold, Idle, Task, WorkOrder, WorkOrderStatus, Hold, HoldStatus, Job, Change, FaiResult

(* A hook leaves a well formed row, counts at most one unit, and approves   *)
(* only when it is asked to.                                                *)
LEMMA ChangedRow ==
  ASSUME NEW change \in Change, NEW r \in WorkOrder
  PROVE  /\ Changed(change, r) \in WorkOrder
         /\ Changed(change, r).completed = IF change = "increment" THEN r.completed + 1 ELSE r.completed
         /\ Changed(change, r).approved => change = "approve" \/ r.approved
PROOF
  <1> DEFINE s == CASE change \in WorkOrderStatus -> change
                    [] change = "increment" -> AfterUnit(r.completed + 1)
                    [] change = "ready" /\ r.status = "RELEASED" -> "STAGED"
                    [] change = "unready" /\ r.status = "STAGED" -> "RELEASED"
                    [] OTHER -> r.status
             n == IF change = "increment" THEN r.completed + 1 ELSE r.completed
             a == IF change \in {"ready", "unready"} THEN change = "ready" ELSE r.ready
             b == IF change \in {"clear", "block"} THEN change = "clear" ELSE r.clear
             c == change = "approve" \/ r.approved
             o == IF change = "authorize" THEN r.authorized \cup Granted ELSE r.authorized
  <1>1. Changed(change, r) = Row(s, n, a, b, c, o)
    BY Zenon DEF Changed
  <1>2. s \in WorkOrderStatus
    BY DEF WorkOrderStatus, AfterUnit, WorkOrder
  <1>3. n \in Nat
    BY DEF WorkOrder
  <1>4. a \in BOOLEAN /\ b \in BOOLEAN /\ c \in BOOLEAN
    BY Zenon DEF WorkOrder
  <1>5. o \in SUBSET Operators
    BY ConstantsAssumption DEF WorkOrder
  <1>6. c => change = "approve" \/ r.approved
    OBVIOUS
  <1>7. n = IF change = "increment" THEN r.completed + 1 ELSE r.completed
    OBVIOUS
  <1> HIDE DEF s, n, a, b, c, o
  <1>8. Row(s, n, a, b, c, o) \in WorkOrder
    BY <1>2, <1>3, <1>4, <1>5 DEF Row, WorkOrder
  <1>9. Row(s, n, a, b, c, o).completed = n /\ Row(s, n, a, b, c, o).approved = c
    BY DEF Row
  <1> QED BY <1>1, <1>6, <1>7, <1>8, <1>9, Zenon

LEMMA SettledFinite == ASSUME TypeOK PROVE IsFiniteSet(Settled) /\ Cardinality(Settled) \in Nat
PROOF
  <1>1. IsFiniteSet(Settled)
    BY ConstantsAssumption, FS_Subset DEF TypeOK, Settled
  <1> QED BY <1>1, FS_CardinalityType

(* Nothing that was settled is unsettled by a step that records no unit.    *)
LEMMA SettledKept ==
  ASSUME IInv, NEW w \in Workers, NEW t \in Job,
         job' = [job EXCEPT ![w] = t], ~Awaits(t), UNCHANGED event
  PROVE  /\ Settled \subseteq Settled' /\ IsFiniteSet(Settled')
         /\ Cardinality(Settled) <= Cardinality(Settled')
         /\ Cardinality(Settled) \in Nat /\ Cardinality(Settled') \in Nat
PROOF
  <1>1. job'[w] = t /\ \A v \in Workers : v # w => job'[v] = job[v]
    BY DEF IInv, TypeOK
  <1>2. Settled \subseteq Settled'
    BY <1>1 DEF Settled, Awaiting
  <1>3. Settled' \in SUBSET Keys
    BY DEF IInv, TypeOK, Settled
  <1>4. IsFiniteSet(Settled')
    BY <1>3, ConstantsAssumption, FS_Subset
  <1>5. Cardinality(Settled) <= Cardinality(Settled')
    BY <1>2, <1>4, FS_Subset
  <1> QED BY <1>2, <1>4, <1>5, SettledFinite, FS_CardinalityType DEF IInv

(* A request that goes on without recording a unit keeps the invariant,     *)
(* whatever copy of the row it saves or takes along.                        *)
LEMMA GoesOn ==
  ASSUME IInv, NEW w \in Workers, NEW t \in Job,
         job' = [job EXCEPT ![w] = t], ~Awaits(t), UNCHANGED event,
         signed \subseteq signed', signed' \subseteq Fais,
         wo' = wo \/ wo' = job[w].row,
         line' \in [Stations -> Line], hold' \in [Holds -> Hold], fai' \in [Fais -> FaiResult],
         Subjects(t), Inspected(t)',
         t.row.completed <= Cardinality(Settled')
  PROVE  IInv'
PROOF
  <1> USE DEF IInv
  <1>1. /\ job'[w] = t
        /\ \A v \in Workers : v # w => job'[v] = job[v]
    BY DEF TypeOK
  <1>2. TypeOK'
    BY DEF TypeOK, Job
  <1>3. AwaitingRecorded'
    BY <1>1 DEF AwaitingRecorded
  <1>5. Cardinality(Settled) <= Cardinality(Settled') /\ Cardinality(Settled) \in Nat /\ Cardinality(Settled') \in Nat
    BY SettledKept
  <1>6. \A v \in Workers : job[v].row.completed \in Nat
    BY DEF TypeOK, Job, WorkOrder
  <1>7. \A v \in Workers : v # w => job[v].row.completed <= Cardinality(Settled')
    BY <1>5, <1>6 DEF Counts
  <1>8. wo'.completed <= Cardinality(Settled')
    BY <1>5, <1>6 DEF Counts, TypeOK, WorkOrder
  <1>9. Counts'
    BY <1>1, <1>7, <1>8 DEF Counts
  <1>10. TasksSound'
    <2>1. \A v \in Workers : v # w => Subjects(job[v])' /\ Inspected(job[v])'
      BY <1>1 DEF TasksSound, Subjects, Inspected
    <2>2. Subjects(job[w])' /\ Inspected(job[w])'
      BY <1>1 DEF Subjects, Inspected
    <2> QED BY <2>1, <2>2 DEF TasksSound
  <1>11. Approval'
    BY DEF Approval, TasksSound, Inspected
  <1>12. NoUnitBeforeFirstPiece'
    BY DEF NoUnitBeforeFirstPiece
  <1> QED BY <1>2, <1>3, <1>9, <1>10, <1>11, <1>12

-----------------------------------------------------------------------------
(* Tasks that take no row along. *)
LEMMA Rowless ==
  ASSUME IInv, NEW w \in Workers, NEW t \in Job,
         job' = [job EXCEPT ![w] = t], ~Awaits(t), UNCHANGED event,
         signed \subseteq signed', signed' \subseteq Fais,
         wo' = wo \/ wo' = job[w].row,
         line' \in [Stations -> Line], hold' \in [Holds -> Hold], fai' \in [Fais -> FaiResult],
         Subjects(t), t.row = Published,
         t.at \in {"consume", "event"} /\ FaiRequired => signed' # {},
         t.at = "load" /\ t.change = "approve" => signed' # {}
  PROVE  IInv'
PROOF
  <1>1. t.row.completed = 0 /\ ~t.row.approved
    BY ConstantTypes
  <1>2. 0 <= Cardinality(Settled')
    <2>1. Cardinality(Settled') \in Nat
      BY SettledKept, Zenon
    <2> QED BY <2>1
  <1>3. Inspected(t)'
    BY <1>1 DEF Inspected
  <1> QED BY <1>1, <1>2, <1>3, GoesOn

(* Tasks that take a copy of the row along and count nothing. *)
LEMMA CopyTaken ==
  ASSUME IInv, NEW w \in Workers, NEW t \in Job,
         job' = [job EXCEPT ![w] = t], ~Awaits(t), UNCHANGED <<wo, line, hold, fai, event, signed>>,
         Subjects(t), t.at \notin {"consume", "event", "load"},
         t.row.completed = wo.completed, t.row.approved => signed # {}
  PROVE  IInv'
PROOF
  <1>1. t.row.completed <= Cardinality(Settled')
    <2>1. Cardinality(Settled) <= Cardinality(Settled') /\ Cardinality(Settled) \in Nat /\ Cardinality(Settled') \in Nat
      BY SettledKept, Zenon
    <2>2. wo.completed \in Nat /\ wo.completed <= Cardinality(Settled)
      BY DEF IInv, Counts, TypeOK, WorkOrder
    <2> QED BY <2>1, <2>2
  <1>2. Inspected(t)'
    BY DEF Inspected
  <1> QED BY <1>1, <1>2, GoesOn DEF IInv, TypeOK

LEMMA TaskTypes ==
  /\ \A change \in Change, k \in Keys \cup {None} : Call(change, k) \in Job
  /\ \A r \in WorkOrder : Save(r) \in Job
  /\ \A h \in Holds, r \in WorkOrder, to \in Hold, at \in {"save", "hold"} : HoldTask(at, h, r, to) \in Job
BY ConstantTypes DEF Call, Save, HoldTask, Task, Job, Change, FaiResult

LEMMA Calls ==
  ASSUME NEW change \in Change
  PROVE  LET t == Call(change, None) IN t \in Job /\ t.row = Published /\ t.at = "load" /\ t.change = change
PROOF
  <1>1. Call(change, None) \in Job
    BY TaskTypes
  <1> QED BY <1>1 DEF Call, Task

LEMMA IdleTask == Idle \in Job /\ Idle.row = Published /\ Idle.at = "idle"
BY ConstantTypes DEF Idle, Task

LEMMA HookNames == "unready" \in Change /\ "block" \in Change /\ "approve" \in Change
BY DEF Change

LEMMA HoldTasks ==
  ASSUME NEW h \in Holds, NEW to \in Hold
  PROVE  LET t == HoldTask("hold", h, Published, to) IN t \in Job /\ t.row = Published /\ t.at = "hold"
PROOF
  <1>1. HoldTask("hold", h, Published, to) \in Job
    BY TaskTypes, ConstantTypes
  <1> QED BY <1>1 DEF HoldTask, Task

(* The hooks of production-plan. *)
LEMMA EditStep ==
  ASSUME IInv, NEW w \in Workers, NEW change \in WorkOrderStatus \cup {"resequence", "authorize"},
         EditWorkOrder(w, change)
  PROVE  IInv'
PROOF
  <1>1. PICK r \in WorkOrder : r = Changed(change, wo) /\ r.completed = wo.completed /\ (r.approved => wo.approved)
    <2>1. wo \in WorkOrder /\ change \in Change /\ change # "increment" /\ change # "approve"
      BY DEF IInv, TypeOK, Change, WorkOrderStatus
    <2> QED BY <2>1, ChangedRow
  <1>2. /\ Save(r) \in Job /\ ~Awaits(Save(r)) /\ Subjects(Save(r))
        /\ Save(r).row = r /\ Save(r).at = "save"
    BY TaskTypes DEF Save, Task, Awaits, Subjects
  <1>3. job' = [job EXCEPT ![w] = Save(r)] /\ UNCHANGED <<wo, line, hold, fai, event, signed>>
    BY <1>1 DEF EditWorkOrder, Others
  <1> QED BY <1>1, <1>2, <1>3, CopyTaken DEF IInv, Approval

LEMMA LoadStep ==
  ASSUME IInv, NEW w \in Workers, LoadWorkOrder(w)
  PROVE  IInv'
PROOF
  <1>1. /\ job[w] \in Job /\ job[w].at = "load" /\ job[w].change \in Change /\ wo \in WorkOrder
        /\ UNCHANGED <<wo, line, hold, fai, event, signed>>
    BY DEF IInv, TypeOK, LoadWorkOrder, Others, Job
  <1>2. CASE ~Allowed(job[w].change, wo)
    <2>1. job' = [job EXCEPT ![w] = Idle]
      BY <1>2 DEF LoadWorkOrder
    <2>2. Idle \in Job /\ ~Awaits(Idle) /\ Subjects(Idle) /\ Idle.row = Published /\ Idle.at = "idle"
      BY ConstantTypes DEF Idle, Task, Awaits, Subjects
    <2> QED BY <1>1, <2>1, <2>2, Rowless DEF IInv, TypeOK
  <1>3. CASE Allowed(job[w].change, wo)
    <2>1. PICK r \in WorkOrder :
            /\ r = Changed(job[w].change, wo)
            /\ r.completed = IF job[w].change = "increment" THEN wo.completed + 1 ELSE wo.completed
            /\ r.approved => job[w].change = "approve" \/ wo.approved
      BY <1>1, ChangedRow
    <2>2. /\ Save(r) \in Job /\ ~Awaits(Save(r)) /\ Subjects(Save(r))
          /\ Save(r).row = r /\ Save(r).at = "save"
      BY TaskTypes DEF Save, Task, Awaits, Subjects
    <2>3. job' = [job EXCEPT ![w] = Save(r)]
      BY <1>3, <2>1 DEF LoadWorkOrder
    <2>4. r.approved => signed # {}
      BY <1>1, <2>1 DEF IInv, Approval, TasksSound, Inspected
    <2>5. CASE job[w].change # "increment"
      BY <1>1, <2>1, <2>2, <2>3, <2>4, <2>5, CopyTaken
    <2>6. CASE job[w].change = "increment"
      <3>1. PICK k \in Keys : k = job[w].subject /\ k \in event /\ k \notin Settled
        BY <1>1, <2>6 DEF IInv, AwaitingRecorded, Awaits, TypeOK, Settled, Awaiting
      <3>2. k \in Settled'
        <4>1. job'[w] = Save(r) /\ \A v \in Workers : v # w => job'[v] = job[v]
          BY <2>3 DEF IInv, TypeOK
        <4>2. \A v \in Workers : ~(Awaits(job'[v]) /\ job'[v].subject = k)
          BY <1>1, <2>2, <2>6, <3>1, <4>1 DEF IInv, AwaitingRecorded, Awaits
        <4>3. k \notin Awaiting'
          BY <4>2 DEF Awaiting, Awaits
        <4> QED BY <1>1, <3>1, <4>3 DEF Settled
      <3>3. Settled \subseteq Settled' /\ IsFiniteSet(Settled') /\ Cardinality(Settled) \in Nat /\ Cardinality(Settled') \in Nat
        BY <1>1, <2>2, <2>3, SettledKept
      <3>4. Cardinality(Settled) + 1 <= Cardinality(Settled')
        <4>1. Settled \cup {k} \in SUBSET Settled'
          BY <3>2, <3>3
        <4>2. Cardinality(Settled \cup {k}) <= Cardinality(Settled')
          BY <3>3, <4>1, FS_Subset
        <4>3. Cardinality(Settled \cup {k}) = Cardinality(Settled) + 1
          BY <3>1, SettledFinite, FS_AddElement DEF IInv
        <4> QED BY <4>2, <4>3
      <3>5. Save(r).row.completed <= Cardinality(Settled')
        BY <1>1, <2>1, <2>2, <2>6, <3>3, <3>4 DEF IInv, Counts, WorkOrder
      <3>6. Inspected(Save(r))'
        BY <1>1, <2>2, <2>4 DEF Inspected
      <3> QED BY <1>1, <2>2, <2>3, <3>5, <3>6, GoesOn DEF IInv, TypeOK
    <2> QED BY <2>5, <2>6
  <1> QED BY <1>2, <1>3

LEMMA SaveStep ==
  ASSUME IInv, NEW w \in Workers, SaveWorkOrder(w)
  PROVE  IInv'
PROOF
  <1>1. job[w] \in Job /\ wo' = job[w].row /\ UNCHANGED <<line, hold, fai, event, signed>>
    BY DEF IInv, TypeOK, SaveWorkOrder, Others
  <1>2. PICK t \in Job :
          /\ job' = [job EXCEPT ![w] = t] /\ t.row = Published /\ t.at \in {"idle", "hold"}
    <2>1. CASE job[w].subject = None
      <3>1. job' = [job EXCEPT ![w] = Idle]
        BY <2>1 DEF SaveWorkOrder
      <3> QED BY <3>1, ConstantTypes DEF Idle, Task
    <2>2. CASE job[w].subject # None
      <3>1. job' = [job EXCEPT ![w] = HoldTask("hold", job[w].subject, Published, job[w].to)]
        BY <2>2 DEF SaveWorkOrder
      <3>2. HoldTask("hold", job[w].subject, Published, job[w].to) \in Job
        BY <1>1, ConstantTypes DEF HoldTask, Task, Job, Change, FaiResult
      <3> QED BY <3>1, <3>2 DEF HoldTask, Task
    <2> QED BY <2>1, <2>2
  <1>3. ~Awaits(t) /\ Subjects(t)
    BY <1>2 DEF Awaits, Subjects
  <1> QED BY <1>1, <1>2, <1>3, Rowless DEF IInv, TypeOK

-----------------------------------------------------------------------------
(* material-staging and the operator terminal *)
LEMMA StagingStep ==
  ASSUME IInv, NEW w \in Workers,
         \/ GenerateStaging(w) \/ SaveShortage(w)
         \/ \E s \in Stations, amount \in Nat : ConfirmStaged(w, s, amount)
  PROVE  IInv'
PROOF
  <1>1. UNCHANGED <<wo, hold, fai, event, signed>> /\ signed \subseteq Fais
        /\ hold \in [Holds -> Hold] /\ fai \in [Fais -> FaiResult]
    BY DEF GenerateStaging, ConfirmStaged, SaveShortage, IInv, TypeOK
  <1>2. PICK t \in Job :
          /\ job' = [job EXCEPT ![w] = t] /\ t.row = Published
          /\ (t.at = "recompute" \/ (t.at = "load" /\ t.change = "unready"))
    <2>1. CASE GenerateStaging(w) \/ SaveShortage(w)
      <3>1. job' = [job EXCEPT ![w] = Call("unready", None)]
        BY <2>1 DEF GenerateStaging, SaveShortage
      <3> QED BY <3>1, Calls, HookNames
    <2>2. ASSUME NEW s \in Stations, NEW amount \in Nat, ConfirmStaged(w, s, amount)
          PROVE  \E t \in Job : /\ job' = [job EXCEPT ![w] = t] /\ t.row = Published
                               /\ (t.at = "recompute" \/ (t.at = "load" /\ t.change = "unready"))
      <3> DEFINE r == Task("recompute", "resequence", s, Published, 0, NewHold, "none")
      <3>1. r \in Job /\ r.row = Published /\ r.at = "recompute"
        BY ConstantTypes DEF Task, Job, Change, FaiResult
      <3>2. job' = [job EXCEPT ![w] = r]
        BY <2>2 DEF ConfirmStaged
      <3> HIDE DEF r
      <3> QED BY <3>1, <3>2
    <2> QED BY <2>1, <2>2
  <1>3. line' \in [Stations -> Line]
    <2>1. line \in [Stations -> Line] /\ job[w] \in Job
      BY DEF IInv, TypeOK
    <2>2. CASE GenerateStaging(w)
      <3>1. [staged |-> 0, status |-> "PENDING"] \in Line
        BY DEF Line
      <3> QED BY <2>1, <2>2, <3>1 DEF GenerateStaging
    <2>3. CASE SaveShortage(w)
      <3>1. [staged |-> job[w].staged, status |-> "SHORTAGE"] \in Line
        BY <2>1 DEF Line, Job
      <3> QED BY <2>1, <2>3, <3>1 DEF SaveShortage
    <2>4. ASSUME NEW s \in Stations, NEW amount \in Nat, ConfirmStaged(w, s, amount)
          PROVE  line' \in [Stations -> Line]
      <3>1. [staged |-> amount, status |-> DeriveStatus(amount)] \in Line
        BY DEF Line, DeriveStatus
      <3> QED BY <2>1, <2>4, <3>1 DEF ConfirmStaged
    <2> QED BY <2>2, <2>3, <2>4
  <1>4. ~Awaits(t) /\ Subjects(t)
    BY <1>2 DEF Awaits, Subjects
  <1>5. t.at \notin {"consume", "event"} /\ ~(t.at = "load" /\ t.change = "approve")
    BY <1>2
  <1> QED BY <1>1, <1>2, <1>3, <1>4, <1>5, Rowless, Zenon

LEMMA MarkStep ==
  ASSUME IInv, NEW w \in Workers, NEW s \in Stations, MarkShortage(w, s)
  PROVE  IInv'
PROOF
  <1> DEFINE t == Task("shortage", "resequence", s, Published, line[s].staged, NewHold, "none")
  <1>1. t \in Job /\ t.row = Published /\ t.at = "shortage"
    BY ConstantTypes DEF Task, Job, Change, FaiResult, IInv, TypeOK, Line
  <1>2. job' = [job EXCEPT ![w] = t] /\ UNCHANGED <<wo, line, hold, fai, event, signed>>
    BY DEF MarkShortage, Others
  <1> HIDE DEF t
  <1>3. ~Awaits(t) /\ Subjects(t)
    BY <1>1 DEF Awaits, Subjects
  <1> QED BY <1>1, <1>2, <1>3, Rowless DEF IInv, TypeOK

LEMMA RecomputeStep ==
  ASSUME IInv, NEW w \in Workers, RecomputeReadiness(w)
  PROVE  IInv'
PROOF
  <1>1. PICK change \in Change : change \in {"ready", "unready"} /\ job' = [job EXCEPT ![w] = Save(Changed(change, wo))]
    BY DEF RecomputeReadiness, Change
  <1>2. PICK r \in WorkOrder : r = Changed(change, wo) /\ r.completed = wo.completed /\ (r.approved => wo.approved)
    BY <1>1, ChangedRow DEF IInv, TypeOK
  <1>3. /\ Save(r) \in Job /\ ~Awaits(Save(r)) /\ Subjects(Save(r))
        /\ Save(r).row = r /\ Save(r).at = "save"
    BY TaskTypes DEF Save, Task, Awaits, Subjects
  <1>4. UNCHANGED <<wo, line, hold, fai, event, signed>>
    BY DEF RecomputeReadiness, Others
  <1> QED BY <1>1, <1>2, <1>3, <1>4, CopyTaken DEF IInv, Approval

(* The gates are passed by an approved order: a first piece was signed.     *)
LEMMA ConfirmStep ==
  ASSUME IInv, NEW w \in Workers, NEW operator \in Operators, NEW key \in Keys, Confirm(w, operator, key)
  PROVE  IInv'
PROOF
  <1> DEFINE t == Task(IF line[At[key]].status = "none" THEN "event" ELSE "consume",
                       "resequence", key, Published, line[At[key]].staged, NewHold, "none")
  <1>1. t \in Job /\ t.row = Published /\ t.at \in {"event", "consume"} /\ t.subject = key
    BY ConstantTypes, ConstantsAssumption DEF Task, Job, Change, FaiResult, IInv, TypeOK, Line
  <1>2. job' = [job EXCEPT ![w] = t] /\ UNCHANGED <<wo, line, hold, fai, event, signed>>
    BY DEF Confirm, Others
  <1> HIDE DEF t
  <1>3. ~Awaits(t) /\ Subjects(t)
    BY <1>1 DEF Awaits, Subjects
  <1>4. FaiRequired => signed' # {}
    BY <1>2 DEF Confirm, Runnable, IInv, Approval
  <1> QED BY <1>1, <1>2, <1>3, <1>4, Rowless DEF IInv, TypeOK

LEMMA ConsumeStep ==
  ASSUME IInv, NEW w \in Workers, ConsumeStaged(w)
  PROVE  IInv'
PROOF
  <1>1. UNCHANGED <<wo, hold, fai, event, signed>> /\ job[w] \in Job /\ job[w].at = "consume"
        /\ line \in [Stations -> Line] /\ UseFactor <= job[w].staged
    BY ConstantsAssumption DEF ConsumeStaged, Short, IInv, TypeOK, Job
  <1> DEFINE t == Task("event", "resequence", job[w].subject, Published, 0, NewHold, "none")
             left == job[w].staged - UseFactor
  <1>2. t \in Job /\ t.row = Published /\ t.at = "event" /\ t.subject = job[w].subject
    BY <1>1, ConstantTypes DEF Task, Job, Change, FaiResult
  <1>3. job' = [job EXCEPT ![w] = t]
    BY DEF ConsumeStaged
  <1>4. line' \in [Stations -> Line]
    <2>1. left \in Nat
      BY <1>1, ConstantsAssumption DEF Job
    <2>2. [staged |-> left, status |-> DeriveStatus(left)] \in Line
      BY <2>1 DEF Line, DeriveStatus
    <2>3. line' = [line EXCEPT ![At[job[w].subject]] = [staged |-> left, status |-> DeriveStatus(left)]]
      BY DEF ConsumeStaged
    <2> HIDE DEF left
    <2> QED BY <1>1, <2>2, <2>3
  <1> HIDE DEF t
  <1>5. ~Awaits(t) /\ Subjects(t)
    BY <1>1, <1>2 DEF Awaits, Subjects, IInv, TasksSound
  <1>6. FaiRequired => signed' # {}
    BY <1>1 DEF IInv, TasksSound, Inspected
  <1> QED BY <1>1, <1>2, <1>3, <1>4, <1>5, <1>6, Rowless DEF IInv, TypeOK

LEMMA RefuseStep ==
  ASSUME IInv, NEW w \in Workers, RefuseShort(w)
  PROVE  IInv'
PROOF
  <1>1. UNCHANGED <<wo, hold, fai, event, signed>> /\ job[w] \in Job /\ line \in [Stations -> Line]
    BY DEF RefuseShort, IInv, TypeOK
  <1> DEFINE t == Call("unready", None)
  <1>2. t \in Job /\ t.row = Published /\ t.at = "load" /\ t.change = "unready"
    BY TaskTypes DEF Call, Task, Change
  <1>3. job' = [job EXCEPT ![w] = t]
    BY DEF RefuseShort
  <1>4. line' \in [Stations -> Line]
    <2>1. [staged |-> job[w].staged, status |-> "SHORTAGE"] \in Line
      BY <1>1 DEF Line, Job
    <2> QED BY <1>1, <2>1 DEF RefuseShort
  <1> HIDE DEF t
  <1>5. ~Awaits(t) /\ Subjects(t)
    BY <1>2 DEF Awaits, Subjects
  <1> QED BY <1>1, <1>2, <1>3, <1>4, <1>5, Rowless DEF IInv, TypeOK

(* The event that was saved awaits its count: what is settled stays.        *)
LEMMA RecordStep ==
  ASSUME IInv, NEW w \in Workers, RecordEvent(w)
  PROVE  IInv'
PROOF
  <1>1. job[w] \in Job /\ job[w].at = "event" /\ UNCHANGED <<wo, line, hold, fai, signed>>
    BY DEF RecordEvent, IInv, TypeOK
  <1>2. CASE ~Unique(job[w].subject)
    <2>1. job' = [job EXCEPT ![w] = Idle] /\ UNCHANGED event
      BY <1>2 DEF RecordEvent
    <2>2. Idle \in Job /\ ~Awaits(Idle) /\ Subjects(Idle) /\ Idle.row = Published /\ Idle.at = "idle"
      BY ConstantTypes DEF Idle, Task, Awaits, Subjects
    <2> QED BY <1>1, <2>1, <2>2, Rowless DEF IInv, TypeOK
  <1>3. CASE Unique(job[w].subject)
    <2>1. PICK k \in Keys : k = job[w].subject /\ k \notin event
      BY <1>1, <1>3 DEF Unique, IInv, TasksSound, Subjects
    <2>2. PICK t \in Job : /\ job' = [job EXCEPT ![w] = t] /\ event' = event \cup {k}
                            /\ t.row = Published /\ t.at = "load" /\ t.change = "increment" /\ t.subject = k
      BY <1>3, <2>1, TaskTypes DEF RecordEvent, Call, Task, Change
    <2>3. job'[w] = t /\ \A v \in Workers : v # w => job'[v] = job[v]
      BY <2>2 DEF IInv, TypeOK
    <2>4. \A v \in Workers : Awaits(job[v]) => v # w /\ job[v].subject # k
      BY <1>1, <2>1 DEF IInv, AwaitingRecorded, Awaits
    <2>5. Awaits(t)
      BY <2>2 DEF Awaits
    <2>6. Awaiting' = Awaiting \cup {k}
      BY <2>1, <2>2, <2>3, <2>4, <2>5 DEF Awaiting
    <2>7. Settled' = Settled
      BY <2>1, <2>2, <2>6 DEF Settled
    <2>8. TypeOK'
      BY <1>1, <2>2 DEF IInv, TypeOK
    <2>9. TasksSound'
      <3>1. Subjects(t) /\ Inspected(t)'
        BY <2>2, ConstantTypes DEF Subjects, Inspected
      <3>2. \A v \in Workers : v # w => Subjects(job[v])' /\ Inspected(job[v])'
        BY <1>1, <2>3 DEF IInv, TasksSound, Subjects, Inspected
      <3>3. Subjects(job[w])' /\ Inspected(job[w])'
        BY <2>3, <3>1 DEF Subjects, Inspected
      <3> QED BY <3>2, <3>3 DEF TasksSound
    <2>10. Approval'
      BY <1>1 DEF IInv, Approval
    <2>11. NoUnitBeforeFirstPiece'
      BY <1>1 DEF IInv, NoUnitBeforeFirstPiece, TasksSound, Inspected
    <2>12. AwaitingRecorded'
      <3>1. \A v \in Workers : v # w /\ Awaits(job'[v]) => job'[v].subject \in event /\ job'[v].subject # k
        BY <2>3, <2>4 DEF IInv, AwaitingRecorded, Awaits
      <3>2. \A u, v \in Workers : u # w /\ v # w /\ u # v /\ Awaits(job'[u]) /\ Awaits(job'[v])
                                      => job'[u].subject # job'[v].subject
        BY <2>3 DEF IInv, AwaitingRecorded, Awaits
      <3> QED BY <2>2, <2>3, <3>1, <3>2 DEF AwaitingRecorded, Awaits
    <2>13. Counts'
      <3>1. Cardinality(Settled) \in Nat
        BY SettledFinite DEF IInv
      <3>2. \A v \in Workers : job'[v].row.completed <= Cardinality(Settled)
        BY <2>2, <2>3, <3>1, ConstantTypes DEF IInv, Counts
      <3> QED BY <1>1, <2>7, <3>2 DEF IInv, Counts
    <2> QED BY <2>8, <2>9, <2>10, <2>11, <2>12, <2>13 DEF IInv
  <1> QED BY <1>2, <1>3

-----------------------------------------------------------------------------
(* floor-quality and fai *)
LEMMA HoldStep ==
  ASSUME IInv, NEW w \in Workers,
         SaveHold(w) \/ \E h \in Holds : CreateHold(w, h) \/ MoveHold(w, h)
  PROVE  IInv'
PROOF
  <1>1. UNCHANGED <<wo, line, fai, event, signed>> /\ job[w] \in Job /\ hold \in [Holds -> Hold]
    BY DEF CreateHold, MoveHold, SaveHold, Others, IInv, TypeOK
  <1>2. hold' \in [Holds -> Hold]
    <2>1. CASE \E h \in Holds : CreateHold(w, h)
      BY <1>1, <2>1 DEF CreateHold, Hold, HoldStatus
    <2>2. CASE \E h \in Holds : MoveHold(w, h)
      BY <1>1, <2>2 DEF MoveHold, Others
    <2>3. CASE SaveHold(w)
      BY <1>1, <2>3 DEF SaveHold, Job
    <2> QED BY <2>1, <2>2, <2>3
  <1>3. PICK t \in Job :
          /\ job' = [job EXCEPT ![w] = t] /\ t.row = Published
          /\ (t.at \in {"idle", "hold"} \/ (t.at = "load" /\ t.change = "block"))
    <2>1. CASE \E h \in Holds : CreateHold(w, h)
      <3>1. job' = [job EXCEPT ![w] = Call("block", None)]
        BY <2>1 DEF CreateHold
      <3> QED BY <3>1, Calls, HookNames
    <2>2. CASE \E h \in Holds : MoveHold(w, h)
      <3>0. PICK h \in Holds : MoveHold(w, h)
        BY <2>2
      <3>1. PICK to \in Moves(hold[h]) : job' = [job EXCEPT ![w] = HoldTask("hold", h, Published, to)]
        BY <3>0 DEF MoveHold
      <3>2. to \in Hold
        <4>1. hold[h] \in Hold
          BY <1>1
        <4> QED BY <4>1 DEF Moves, Hold, HoldStatus
      <3> QED BY <3>1, <3>2, HoldTasks
    <2>3. CASE SaveHold(w)
      <3>1. job' = [job EXCEPT ![w] = Idle]
        BY <2>3 DEF SaveHold
      <3> QED BY <3>1, IdleTask
    <2> QED BY <2>1, <2>2, <2>3
  <1>4. ~Awaits(t) /\ Subjects(t)
    BY <1>3 DEF Awaits, Subjects
  <1> QED BY <1>1, <1>2, <1>3, <1>4, Rowless DEF IInv, TypeOK

LEMMA EndHoldStep ==
  ASSUME IInv, NEW w \in Workers, NEW h \in Holds, EndHold(w, h)
  PROVE  IInv'
PROOF
  <1>1. PICK to \in Ends(hold[h]) :
          job' = [job EXCEPT ![w] = IF Last(h) THEN HoldTask("save", h, Changed("clear", wo), to)
                                    ELSE HoldTask("hold", h, Published, to)]
    BY DEF EndHold
  <1>2. to \in Hold
    <2>1. hold[h] \in Hold
      BY DEF IInv, TypeOK
    <2> QED BY <2>1 DEF Ends, Hold, HoldStatus
  <1>3. UNCHANGED <<wo, line, hold, fai, event, signed>>
    BY DEF EndHold, Others
  <1>4. CASE Last(h)
    <2>1. PICK r \in WorkOrder : r = Changed("clear", wo) /\ r.completed = wo.completed /\ (r.approved => wo.approved)
      BY ChangedRow DEF IInv, TypeOK, Change
    <2>2. PICK t \in Job : job' = [job EXCEPT ![w] = t] /\ t.row = r /\ t.at = "save"
      BY <1>1, <1>2, <1>4, <2>1, TaskTypes DEF HoldTask, Task
    <2>3. ~Awaits(t) /\ Subjects(t)
      BY <2>2 DEF Awaits, Subjects
    <2> QED BY <1>3, <2>1, <2>2, <2>3, CopyTaken DEF IInv, Approval
  <1>5. CASE ~Last(h)
    <2>1. PICK t \in Job : job' = [job EXCEPT ![w] = t] /\ t.row = Published /\ t.at = "hold"
      BY <1>1, <1>2, <1>5, TaskTypes, ConstantTypes DEF HoldTask, Task
    <2>2. ~Awaits(t) /\ Subjects(t)
      BY <2>1 DEF Awaits, Subjects
    <2> QED BY <1>3, <2>1, <2>2, Rowless DEF IInv, TypeOK
  <1> QED BY <1>4, <1>5

LEMMA FaiStep ==
  ASSUME IInv, NEW w \in Workers,
         \/ SaveFai(w)
         \/ \E f \in Fais : CreateFai(w, f) \/ \E result \in {"PASS", "FAIL"} : SubmitFai(w, f, result)
  PROVE  IInv'
PROOF
  <1>1. UNCHANGED <<wo, line, hold, event>> /\ job[w] \in Job /\ fai \in [Fais -> FaiResult] /\ job \in [Workers -> Job]
    BY DEF CreateFai, SubmitFai, SaveFai, Others, IInv, TypeOK
  <1>2. signed \subseteq signed' /\ signed' \subseteq Fais /\ fai' \in [Fais -> FaiResult]
    <2>1. CASE \E f \in Fais : CreateFai(w, f)
      BY <1>1, <2>1 DEF CreateFai, FaiResult, IInv, TypeOK
    <2>2. CASE \E f \in Fais, result \in {"PASS", "FAIL"} : SubmitFai(w, f, result)
      BY <1>1, <2>2 DEF SubmitFai, Others, IInv, TypeOK
    <2>3. CASE SaveFai(w)
      <3>1. job[w].subject \in Fais
        BY <2>3 DEF SaveFai, IInv, TasksSound, Subjects
      <3> QED BY <1>1, <2>3, <3>1 DEF SaveFai, Job, IInv, TypeOK
    <2> QED BY <2>1, <2>2, <2>3
  <1>3. CASE \E f \in Fais : CreateFai(w, f)
    <2>1. UNCHANGED <<wo, line, hold, event, job, signed>>
      BY <1>3 DEF CreateFai
    <2>2. job' = [job EXCEPT ![w] = job[w]]
      BY <1>1, <2>1
    <2>3. Settled' = Settled
      BY <2>1 DEF Settled, Awaiting
    <2>4. TypeOK'
      BY <1>2, <2>1 DEF IInv, TypeOK
    <2>5. TasksSound'
      BY <2>1 DEF IInv, TasksSound, Subjects, Inspected
    <2>6. Approval' /\ NoUnitBeforeFirstPiece' /\ AwaitingRecorded' /\ Counts'
      BY <2>1, <2>3 DEF IInv, Approval, NoUnitBeforeFirstPiece, AwaitingRecorded, Counts
    <2> QED BY <2>4, <2>5, <2>6 DEF IInv
  <1>4. CASE SaveFai(w) \/ \E f \in Fais, result \in {"PASS", "FAIL"} : SubmitFai(w, f, result)
    <2>1. PICK t \in Job :
            /\ job' = [job EXCEPT ![w] = t] /\ t.row = Published
            /\ \/ t.at = "idle"
               \/ t.at = "fai" /\ t.subject \in Fais
               \/ t.at = "load" /\ t.change = "approve" /\ signed' # {}
      <3>1. CASE \E f \in Fais, result \in {"PASS", "FAIL"} : SubmitFai(w, f, result)
        <4>0. PICK f \in Fais, result \in {"PASS", "FAIL"} : SubmitFai(w, f, result)
          BY <3>1
        <4> DEFINE u == Task("fai", "resequence", f, Published, 0, NewHold, result)
        <4>1. u \in Job /\ u.row = Published /\ u.at = "fai" /\ u.subject = f
          BY ConstantTypes DEF Task, Job, Change, FaiResult
        <4>2. job' = [job EXCEPT ![w] = u]
          BY <4>0 DEF SubmitFai
        <4> HIDE DEF u
        <4> QED BY <4>1, <4>2
      <3>2. CASE SaveFai(w) /\ job[w].result = "PASS"
        <4>1. job' = [job EXCEPT ![w] = Call("approve", None)] /\ signed' # {}
          BY <3>2 DEF SaveFai
        <4> QED BY <4>1, Calls, HookNames
      <3>3. CASE SaveFai(w) /\ job[w].result # "PASS"
        <4>1. job' = [job EXCEPT ![w] = Idle]
          BY <3>3 DEF SaveFai
        <4> QED BY <4>1, IdleTask
      <3> QED BY <1>4, <3>1, <3>2, <3>3
    <2>2. ~Awaits(t) /\ Subjects(t)
      BY <2>1 DEF Awaits, Subjects
    <2> QED BY <1>1, <1>2, <2>1, <2>2, Rowless DEF IInv, TypeOK
  <1> QED BY <1>3, <1>4

LEMMA CrashStep ==
  ASSUME IInv, NEW w \in Workers, Crash(w)
  PROVE  IInv'
PROOF
  <1>1. job' = [job EXCEPT ![w] = Idle] /\ UNCHANGED <<wo, line, hold, fai, event, signed>>
    BY DEF Crash, rows
  <1>2. Idle \in Job /\ ~Awaits(Idle) /\ Subjects(Idle) /\ Idle.row = Published /\ Idle.at = "idle"
    BY ConstantTypes DEF Idle, Task, Awaits, Subjects
  <1> QED BY <1>1, <1>2, Rowless DEF IInv, TypeOK

-----------------------------------------------------------------------------
LEMMA Initially == Init => IInv
PROOF
  <1> SUFFICES ASSUME Init PROVE IInv
    OBVIOUS
  <1>1. Idle \in Job /\ Idle.at = "idle" /\ Idle.row = Published
    BY ConstantTypes DEF Idle, Task
  <1>2. TypeOK
    BY <1>1, ConstantTypes DEF Init, TypeOK, NewLine, Line, FaiResult
  <1>3. \A w \in Workers : job[w] = Idle
    BY DEF Init
  <1>4. TasksSound
    BY <1>1, <1>3, ConstantTypes DEF TasksSound, Subjects, Inspected
  <1>5. Approval /\ NoUnitBeforeFirstPiece
    BY ConstantTypes DEF Init, Approval, NoUnitBeforeFirstPiece
  <1>6. AwaitingRecorded
    BY <1>1, <1>3 DEF AwaitingRecorded, Awaits
  <1>7. Counts
    <2>1. Cardinality(Settled) \in Nat
      BY <1>2, SettledFinite
    <2>2. \A w \in Workers : job[w].row = Published
      BY <1>1, <1>3
    <2>3. wo = Published
      BY DEF Init
    <2> QED BY <2>1, <2>2, <2>3, ConstantTypes DEF Counts
  <1> QED BY <1>2, <1>4, <1>5, <1>6, <1>7 DEF IInv

LEMMA Step == IInv /\ [Next]_vars => IInv'
PROOF
  <1> SUFFICES ASSUME IInv, [Next]_vars PROVE IInv'
    OBVIOUS
  <1>1. CASE UNCHANGED vars
    <2>1. UNCHANGED <<wo, line, hold, fai, event, job, signed>>
      BY <1>1 DEF vars, rows
    <2>2. Settled' = Settled
      BY <2>1 DEF Settled, Awaiting
    <2>3. TypeOK' /\ TasksSound'
      BY <2>1 DEF IInv, TypeOK, TasksSound, Subjects, Inspected
    <2>4. Approval' /\ NoUnitBeforeFirstPiece' /\ AwaitingRecorded' /\ Counts'
      BY <2>1, <2>2 DEF IInv, Approval, NoUnitBeforeFirstPiece, AwaitingRecorded, Counts
    <2> QED BY <2>3, <2>4 DEF IInv
  <1>2. ASSUME NEW w \in Workers, Request(w) PROVE IInv'
    <2>1. CASE \E change \in WorkOrderStatus \cup {"resequence", "authorize"} : EditWorkOrder(w, change)
      BY <2>1, EditStep
    <2>2. CASE GenerateStaging(w)
      BY <2>2, StagingStep
    <2>3. CASE \E s \in Stations : MarkShortage(w, s) \/ \E amount \in Amounts : ConfirmStaged(w, s, amount)
      BY <2>3, MarkStep, StagingStep, ConstantsAssumption
    <2>4. CASE \E operator \in Operators, key \in Keys : Confirm(w, operator, key)
      BY <2>4, ConfirmStep
    <2>5. CASE \E h \in Holds : CreateHold(w, h) \/ MoveHold(w, h) \/ EndHold(w, h)
      BY <2>5, HoldStep, EndHoldStep
    <2>6. CASE \E f \in Fais : CreateFai(w, f) \/ \E result \in {"PASS", "FAIL"} : SubmitFai(w, f, result)
      BY <2>6, FaiStep
    <2> QED BY <1>2, <2>1, <2>2, <2>3, <2>4, <2>5, <2>6 DEF Request
  <1>3. ASSUME NEW w \in Workers, Continue(w) PROVE IInv'
    <2>1. CASE LoadWorkOrder(w)
      BY <2>1, LoadStep
    <2>2. CASE SaveWorkOrder(w)
      BY <2>2, SaveStep
    <2>3. CASE RecomputeReadiness(w)
      BY <2>3, RecomputeStep
    <2>4. CASE SaveShortage(w)
      BY <2>4, StagingStep
    <2>5. CASE ConsumeStaged(w)
      BY <2>5, ConsumeStep
    <2>6. CASE RefuseShort(w)
      BY <2>6, RefuseStep
    <2>7. CASE RecordEvent(w)
      BY <2>7, RecordStep
    <2>8. CASE SaveHold(w)
      BY <2>8, HoldStep
    <2>9. CASE SaveFai(w)
      BY <2>9, FaiStep
    <2> QED BY <1>3, <2>1, <2>2, <2>3, <2>4, <2>5, <2>6, <2>7, <2>8, <2>9 DEF Continue
  <1> QED BY <1>1, <1>2, <1>3, CrashStep DEF Next

(* No unit is counted, held by a copy of the row, or recorded without what  *)
(* it needs, in any state of the specification.                             *)
THEOREM IInvHolds == Spec => []IInv
PROOF
  <1> QED BY Initially, Step, PTL DEF Spec

(* Every row of the order keeps its type and no staged quantity goes below  *)
(* zero, whatever is asked, saved or lost (consumeStaged, applyStatus).     *)
THEOREM TypeCorrect == Spec => []TypeOK
PROOF
  <1>1. IInv => TypeOK
    BY DEF IInv
  <1> QED BY <1>1, IInvHolds, PTL

(* The order counts no unit without a consumption event of its own, for     *)
(* any number of requests, retries and crashes (confirm,                    *)
(* incrementCompleted).                                                     *)
THEOREM UnitsNeverOvercounted == Spec => []NeverOvercounted
PROOF
  <1>1. IInv => NeverOvercounted
    <2> SUFFICES ASSUME IInv PROVE NeverOvercounted
      OBVIOUS
    <2>1. IsFiniteSet(event)
      BY ConstantsAssumption, FS_Subset DEF IInv, TypeOK
    <2>2. Settled \subseteq event
      BY DEF Settled
    <2>3. Cardinality(Settled) <= Cardinality(event) /\ Cardinality(Settled) \in Nat /\ Cardinality(event) \in Nat
      BY <2>1, <2>2, FS_Subset, FS_CardinalityType, SettledFinite DEF IInv
    <2> QED BY <2>3 DEF IInv, TypeOK, WorkOrder, Counts, NeverOvercounted
  <1> QED BY <1>1, IInvHolds, PTL

(* When a first piece is required, no unit is recorded before an inspection *)
(* was signed, however the saves of the row overlap (runBlockers, submit).  *)
THEOREM FirstPieceFirst == Spec => []NoUnitBeforeFirstPiece
PROOF
  <1>1. IInv => NoUnitBeforeFirstPiece
    BY DEF IInv
  <1> QED BY <1>1, IInvHolds, PTL

-----------------------------------------------------------------------------
(* Requests that neither overlap nor die.  The order is wrong in the middle *)
(* of a request: a hold is open and the block still to be saved.  What      *)
(* holds in every state is said of the row and the holds as the request     *)
(* that runs will leave them.                                               *)
OneAtATime == ~Crashes /\ \E w \in Workers : Workers = {w}

RowAfter(t) ==
  CASE t.at = "save" -> t.row
    [] t.at = "load" /\ Allowed(t.change, wo) -> Changed(t.change, wo)
    [] t.at = "recompute" -> Changed(IF AllStaged THEN "ready" ELSE "unready", wo)
    [] OTHER -> wo

EndsHold(t) == t.at \in {"save", "hold"} /\ t.subject # None
HoldAfter(t) == IF EndsHold(t) THEN [hold EXCEPT ![t.subject] = t.to] ELSE hold

Blocking == HoldStatus \ {"none", "CLOSED", "CANCELLED"}
Quality(row, holds) == row.clear <=> \A h \in Holds : holds[h].status \notin Blocking
Material(row, lines) == (\E s \in Stations : lines[s].status = "SHORTAGE") => ~row.ready
Count(row, events) ==
  /\ row.completed = Cardinality(events) /\ row.completed <= Planned
  /\ row.completed = Planned => row.status = "COMPLETED"
  /\ row.status = "CANCELLED" => events = {}

Closed(row) == row.status \in {"COMPLETED", "CANCELLED"}
OnItsWay(t) ==
  /\ EndsHold(t) => t.subject \in Holds
  /\ t.at \in {"consume", "event"} => ~Closed(wo)
  /\ t.at = "load" => t.change \in {"unready", "block", "approve", "increment"}
  /\ Awaits(t) => ~Closed(wo)

Serial ==
  \A w \in Workers : /\ OnItsWay(job[w])
                     /\ Quality(RowAfter(job[w]), HoldAfter(job[w]))
                     /\ Material(RowAfter(job[w]), line)
                     /\ Count(RowAfter(job[w]), event)

LEMMA ChangedFields ==
  ASSUME NEW change, NEW r
  PROVE  LET c == Changed(change, r) IN
         /\ c.status = CASE change \in WorkOrderStatus -> change
                        [] change = "increment" -> AfterUnit(r.completed + 1)
                        [] change = "ready" /\ r.status = "RELEASED" -> "STAGED"
                        [] change = "unready" /\ r.status = "STAGED" -> "RELEASED"
                        [] OTHER -> r.status
         /\ c.completed = IF change = "increment" THEN r.completed + 1 ELSE r.completed
         /\ c.ready = IF change \in {"ready", "unready"} THEN change = "ready" ELSE r.ready
         /\ c.clear = IF change \in {"clear", "block"} THEN change = "clear" ELSE r.clear
BY Zenon DEF Changed, Row

(* A hook that counts nothing and cancels nothing leaves the count of an    *)
(* order as it was.                                                         *)
LEMMA CountKept ==
  ASSUME NEW r \in WorkOrder, NEW events, Count(r, events),
         NEW change \in {"resequence", "authorize", "ready", "unready", "clear", "block", "approve"}
  PROVE  Count(Changed(change, r), events)
PROOF
  <1>1. /\ Changed(change, r).completed = r.completed
        /\ \/ Changed(change, r).status = r.status
           \/ r.status = "RELEASED" /\ Changed(change, r).status = "STAGED"
           \/ r.status = "STAGED" /\ Changed(change, r).status = "RELEASED"
    BY ChangedFields DEF WorkOrderStatus
  <1> QED BY <1>1 DEF Count

(* One request: what its next task says of the state that follows is all    *)
(* there is to say.                                                         *)
LEMMA Onward ==
  ASSUME TypeOK, NEW w \in Workers, Workers = {w}, NEW t, job' = [job EXCEPT ![w] = t],
         OnItsWay(t)', Quality(RowAfter(t)', HoldAfter(t)'), Material(RowAfter(t)', line'), Count(RowAfter(t)', event')
  PROVE  Serial'
PROOF
  <1>1. job'[w] = t
    BY DEF TypeOK
  <1>2. OnItsWay(job[w])'
    BY <1>1, Zenon DEF OnItsWay, EndsHold, Awaits
  <1>3. RowAfter(job[w])' = RowAfter(t)'
    BY <1>1, Zenon DEF RowAfter
  <1>4. HoldAfter(job[w])' = HoldAfter(t)'
    <2>1. CASE EndsHold(t)'
      <3>1. EndsHold(job[w])'
        BY <1>1, <2>1, Zenon DEF EndsHold
      <3>2. HoldAfter(t)' = [hold' EXCEPT ![t.subject] = t.to]
        BY <2>1, Zenon DEF HoldAfter
      <3>3. HoldAfter(job[w])' = [hold' EXCEPT ![job'[w].subject] = job'[w].to]
        BY <3>1, Zenon DEF HoldAfter
      <3> QED BY <1>1, <3>2, <3>3
    <2>2. CASE ~EndsHold(t)'
      <3>1. ~EndsHold(job[w])'
        BY <1>1, <2>2, Zenon DEF EndsHold
      <3> QED BY <2>2, <3>1, Zenon DEF HoldAfter
    <2> QED BY <2>1, <2>2
  <1> QED BY <1>1, <1>2, <1>3, <1>4 DEF Serial

LEMMA TaskFields ==
  /\ Idle.at = "idle" /\ Idle.subject = None
  /\ \A change, k : LET t == Call(change, k) IN t.at = "load" /\ t.change = change
  /\ \A r : LET t == Save(r) IN t.at = "save" /\ t.subject = None /\ t.row = r
  /\ \A at, h, r, to : LET t == HoldTask(at, h, r, to) IN t.at = at /\ t.subject = h /\ t.row = r /\ t.to = to
BY DEF Idle, Call, Save, HoldTask, Task

(* Between two requests the order is what it should be. *)
LEMMA Resting ==
  ASSUME Serial, NEW w \in Workers, job[w] = Idle
  PROVE  Quality(wo, hold) /\ Material(wo, line) /\ Count(wo, event)
PROOF
  <1>1. RowAfter(Idle) = wo /\ HoldAfter(Idle) = hold
    BY TaskFields DEF RowAfter, HoldAfter, EndsHold
  <1> QED BY <1>1 DEF Serial

LEMMA EditSerial ==
  ASSUME TypeOK, Serial, NEW w \in Workers, Workers = {w},
         NEW change \in WorkOrderStatus \cup {"resequence", "authorize"}, EditWorkOrder(w, change)
  PROVE  Serial'
PROOF
  <1>0. PICK r, t : r = Changed(change, wo) /\ t = Save(r)
    OBVIOUS
  <1>1. job[w] = Idle /\ Allowed(change, wo) /\ job' = [job EXCEPT ![w] = t]
        /\ UNCHANGED <<wo, line, hold, event>>
    BY <1>0 DEF EditWorkOrder, Others
  <1>2. Quality(wo, hold) /\ Material(wo, line) /\ Count(wo, event)
    BY <1>1, Resting
  <1>3. r.completed = wo.completed /\ r.ready = wo.ready /\ r.clear = wo.clear
        /\ r.status = IF change \in WorkOrderStatus THEN change ELSE wo.status
    BY <1>0, ChangedFields DEF WorkOrderStatus
  <1>4. t.at = "save" /\ t.subject = None /\ t.row = r
    BY <1>0, TaskFields
  <1>5. Quality(r, hold) /\ Material(r, line)
    BY <1>2, <1>3 DEF Quality, Material
  <1>6. Count(r, event)
    <2>1. CASE change \notin WorkOrderStatus
      BY <1>2, <1>3, <2>1 DEF Count
    <2>2. CASE change \in WorkOrderStatus
      <3>1. wo.status \notin {"COMPLETED", "CANCELLED"}
        BY <1>1, <2>2 DEF Allowed, CanTransition
      <3>2. wo.completed # Planned
        BY <1>2, <3>1 DEF Count
      <3>3. change = "CANCELLED" => event = {}
        <4>1. change = "CANCELLED" => ~(wo.completed > 0)
          BY <1>1 DEF Allowed, SafeCancellation, Started
        <4>2. IsFiniteSet(event) /\ wo.completed \in Nat
          BY ConstantsAssumption, FS_Subset DEF TypeOK, WorkOrder
        <4>3. Cardinality(event) = 0 => event = {}
          BY <4>2, FS_EmptySet
        <4> QED BY <1>2, <4>1, <4>2, <4>3 DEF Count
      <3> QED BY <1>2, <1>3, <2>2, <3>2, <3>3 DEF Count
    <2> QED BY <2>1, <2>2
  <1>7. RowAfter(t)' = r /\ HoldAfter(t)' = hold /\ OnItsWay(t)'
    BY <1>1, <1>4 DEF RowAfter, HoldAfter, EndsHold, OnItsWay, Awaits
  <1> QED BY <1>1, <1>5, <1>6, <1>7, Onward

LEMMA LoadSerial ==
  ASSUME TypeOK, Serial, NEW w \in Workers, Workers = {w}, LoadWorkOrder(w)
  PROVE  Serial'
PROOF
  <1>1. job[w].at = "load" /\ UNCHANGED <<wo, line, hold, event>>
    BY DEF LoadWorkOrder, Others
  <1>2. HoldAfter(job[w]) = hold
    BY <1>1 DEF HoldAfter, EndsHold
  <1>3. PICK t : /\ job' = [job EXCEPT ![w] = t] /\ t.at \in {"save", "idle"} /\ t.subject = None
                 /\ RowAfter(t)' = RowAfter(job[w])
    <2>1. CASE Allowed(job[w].change, wo)
      <3>1. PICK r, u : r = Changed(job[w].change, wo) /\ u = Save(r)
        OBVIOUS
      <3>2. job' = [job EXCEPT ![w] = u]
        BY <2>1, <3>1 DEF LoadWorkOrder
      <3>3. RowAfter(job[w]) = r
        BY <1>1, <2>1, <3>1 DEF RowAfter
      <3>4. u.at = "save" /\ u.subject = None /\ u.row = r
        BY <3>1, TaskFields
      <3>5. RowAfter(u)' = r
        BY <3>4 DEF RowAfter
      <3> QED BY <3>2, <3>3, <3>4, <3>5
    <2>2. CASE ~Allowed(job[w].change, wo)
      <3>1. job' = [job EXCEPT ![w] = Idle]
        BY <2>2 DEF LoadWorkOrder
      <3>2. RowAfter(job[w]) = wo /\ RowAfter(Idle)' = wo'
        BY <1>1, <2>2, TaskFields DEF RowAfter
      <3> QED BY <1>1, <3>1, <3>2, TaskFields
    <2> QED BY <2>1, <2>2
  <1>4. HoldAfter(t)' = hold /\ OnItsWay(t)'
    BY <1>1, <1>3 DEF HoldAfter, EndsHold, OnItsWay, Awaits
  <1> QED BY <1>1, <1>2, <1>3, <1>4, Onward DEF Serial

LEMMA SaveSerial ==
  ASSUME TypeOK, Serial, NEW w \in Workers, Workers = {w}, SaveWorkOrder(w)
  PROVE  Serial'
PROOF
  <1>1. job[w].at = "save" /\ wo' = job[w].row /\ UNCHANGED <<line, hold, event>>
    BY DEF SaveWorkOrder, Others
  <1>2. RowAfter(job[w]) = wo'
    BY <1>1 DEF RowAfter
  <1>3. PICK t : /\ job' = [job EXCEPT ![w] = t] /\ t.at \in {"hold", "idle"}
                 /\ HoldAfter(t)' = HoldAfter(job[w]) /\ OnItsWay(t)'
    <2>1. CASE job[w].subject = None
      <3>1. job' = [job EXCEPT ![w] = Idle]
        BY <2>1 DEF SaveWorkOrder
      <3>2. HoldAfter(job[w]) = hold
        BY <2>1 DEF HoldAfter, EndsHold
      <3>3. HoldAfter(Idle)' = hold' /\ OnItsWay(Idle)'
        BY TaskFields DEF HoldAfter, EndsHold, OnItsWay, Awaits
      <3> QED BY <1>1, <3>1, <3>2, <3>3, TaskFields
    <2>2. CASE job[w].subject # None
      <3>0. PICK u : u = HoldTask("hold", job[w].subject, Published, job[w].to)
        OBVIOUS
      <3>1. job' = [job EXCEPT ![w] = u]
        BY <2>2, <3>0 DEF SaveWorkOrder
      <3>2. u.at = "hold" /\ u.subject = job[w].subject /\ u.to = job[w].to
        BY <3>0, TaskFields
      <3>3. job[w].subject \in Holds
        BY <1>1, <2>2 DEF Serial, OnItsWay, EndsHold
      <3>4. OnItsWay(u)'
        BY <3>2, <3>3 DEF OnItsWay, EndsHold, Awaits
      <3>5. HoldAfter(job[w]) = [hold EXCEPT ![job[w].subject] = job[w].to]
        BY <1>1, <2>2 DEF HoldAfter, EndsHold
      <3>6. HoldAfter(u)' = [hold' EXCEPT ![u.subject] = u.to]
        BY <2>2, <3>2 DEF HoldAfter, EndsHold
      <3> QED BY <1>1, <3>1, <3>2, <3>4, <3>5, <3>6
    <2> QED BY <2>1, <2>2
  <1>4. RowAfter(t)' = wo'
    BY <1>3 DEF RowAfter
  <1> QED BY <1>1, <1>2, <1>3, <1>4, Onward DEF Serial

(* Tasks that leave the row and the holds to what they are. *)
LEMMA Reading ==
  ASSUME TypeOK, NEW w \in Workers, Workers = {w}, NEW t, job' = [job EXCEPT ![w] = t],
         t.at \in {"idle", "consume", "shortage", "event", "fai"}, UNCHANGED <<wo, hold, event>>,
         t.at \in {"consume", "event"} => ~Closed(wo),
         Quality(wo, hold), Material(wo, line'), Count(wo, event)
  PROVE  Serial'
PROOF
  <1>1. RowAfter(t)' = wo /\ HoldAfter(t)' = hold /\ OnItsWay(t)'
    BY DEF RowAfter, HoldAfter, EndsHold, OnItsWay, Awaits, Closed
  <1> QED BY <1>1, Onward

(* What a request that is no longer at rest, and has nothing to save, says. *)
LEMMA Midway ==
  ASSUME Serial, NEW w \in Workers, job[w].at \in {"idle", "consume", "shortage", "event", "fai"}
  PROVE  Quality(wo, hold) /\ Material(wo, line) /\ Count(wo, event)
PROOF
  <1>1. RowAfter(job[w]) = wo /\ HoldAfter(job[w]) = hold
    BY DEF RowAfter, HoldAfter, EndsHold
  <1> QED BY <1>1 DEF Serial

LEMMA AlwaysAllowed == \A change \in {"unready", "block", "approve"} : \A r : Allowed(change, r)
BY DEF Allowed, WorkOrderStatus

(* Whatever happens to the lines, an order about to be found unready needs  *)
(* no more.                                                                 *)
LEMMA Stopping ==
  ASSUME TypeOK, NEW w \in Workers, Workers = {w}, job' = [job EXCEPT ![w] = Call("unready", None)],
         UNCHANGED <<wo, hold, event>>, Quality(wo, hold), Count(wo, event)
  PROVE  Serial'
PROOF
  <1>1. PICK t, r : t = Call("unready", None) /\ r = Changed("unready", wo)
    OBVIOUS
  <1>2. t.at = "load" /\ t.change = "unready"
    BY <1>1, TaskFields
  <1>3. RowAfter(t)' = r
    BY <1>1, <1>2, AlwaysAllowed DEF RowAfter
  <1>4. HoldAfter(t)' = hold /\ OnItsWay(t)'
    BY <1>2 DEF HoldAfter, EndsHold, OnItsWay, Awaits
  <1>5. Quality(r, hold) /\ Material(r, line')
    BY <1>1, ChangedFields DEF Quality, Material
  <1>6. Count(r, event)
    BY <1>1, CountKept DEF TypeOK
  <1> QED BY <1>1, <1>3, <1>4, <1>5, <1>6, Onward

LEMMA StagingSerial ==
  ASSUME TypeOK, Serial, NEW w \in Workers, Workers = {w},
         \/ GenerateStaging(w) \/ SaveShortage(w) \/ RefuseShort(w)
         \/ \E s \in Stations : MarkShortage(w, s)
  PROVE  Serial'
PROOF
  <1>1. job[w].at \in {"idle", "shortage", "consume"} /\ UNCHANGED <<wo, hold, event>>
    BY TaskFields DEF GenerateStaging, SaveShortage, RefuseShort, MarkShortage, Others
  <1>2. Quality(wo, hold) /\ Material(wo, line) /\ Count(wo, event)
    BY <1>1, Midway
  <1>3. CASE \E s \in Stations : MarkShortage(w, s)
    <2>1. PICK t : job' = [job EXCEPT ![w] = t] /\ t.at = "shortage" /\ line' = line
      BY <1>3 DEF MarkShortage, Others, Task
    <2> QED BY <1>1, <1>2, <2>1, Reading
  <1>4. CASE GenerateStaging(w) \/ SaveShortage(w) \/ RefuseShort(w)
    <2>1. job' = [job EXCEPT ![w] = Call("unready", None)]
      BY <1>4 DEF GenerateStaging, SaveShortage, RefuseShort
    <2> QED BY <1>1, <1>2, <2>1, Stopping
  <1> QED BY <1>3, <1>4

LEMMA ConfirmStagedSerial ==
  ASSUME TypeOK, Serial, NEW w \in Workers, Workers = {w}, NEW s \in Stations, NEW amount \in Nat,
         ConfirmStaged(w, s, amount)
  PROVE  Serial'
PROOF
  <1>1. job[w] = Idle /\ UNCHANGED <<wo, hold, event>>
    BY DEF ConfirmStaged
  <1>2. Quality(wo, hold) /\ Material(wo, line) /\ Count(wo, event)
    BY <1>1, Resting
  <1>3. PICK t : job' = [job EXCEPT ![w] = t] /\ t.at = "recompute"
    <2>1. PICK t : t = Task("recompute", "resequence", s, Published, 0, NewHold, "none")
      OBVIOUS
    <2>2. job' = [job EXCEPT ![w] = t]
      BY <2>1 DEF ConfirmStaged
    <2>3. t.at = "recompute"
      BY <2>1 DEF Task
    <2> QED BY <2>2, <2>3
  <1>4. PICK change, r : change = (IF AllStaged' THEN "ready" ELSE "unready") /\ r = Changed(change, wo)
    OBVIOUS
  <1>5. RowAfter(t)' = r /\ HoldAfter(t)' = hold /\ OnItsWay(t)'
    BY <1>1, <1>3, <1>4 DEF RowAfter, HoldAfter, EndsHold, OnItsWay, Awaits
  <1>6. Quality(r, hold)
    BY <1>2, <1>4, ChangedFields DEF Quality
  <1>7. Material(r, line')
    <2>1. CASE AllStaged'
      BY <2>1 DEF AllStaged, Material
    <2>2. CASE ~AllStaged'
      BY <1>4, <2>2, ChangedFields DEF Material
    <2> QED BY <2>1, <2>2
  <1>8. Count(r, event)
    BY <1>2, <1>4, CountKept DEF TypeOK
  <1> QED BY <1>1, <1>3, <1>5, <1>6, <1>7, <1>8, Onward

LEMMA RecomputeSerial ==
  ASSUME TypeOK, Serial, NEW w \in Workers, Workers = {w}, RecomputeReadiness(w)
  PROVE  Serial'
PROOF
  <1>1. job[w].at = "recompute" /\ UNCHANGED <<wo, line, hold, event>>
    BY DEF RecomputeReadiness, Others
  <1>2. PICK r, t : r = RowAfter(job[w]) /\ t = Save(r)
    OBVIOUS
  <1>3. job' = [job EXCEPT ![w] = t]
    BY <1>1, <1>2 DEF RecomputeReadiness, RowAfter
  <1>4. t.at = "save" /\ t.subject = None /\ t.row = r
    BY <1>2, TaskFields
  <1>5. HoldAfter(job[w]) = hold
    BY <1>1 DEF HoldAfter, EndsHold
  <1>6. RowAfter(t)' = r /\ HoldAfter(t)' = hold /\ OnItsWay(t)'
    BY <1>1, <1>4 DEF RowAfter, HoldAfter, EndsHold, OnItsWay, Awaits
  <1> QED BY <1>1, <1>2, <1>3, <1>5, <1>6, Onward DEF Serial

LEMMA ConfirmSerial ==
  ASSUME TypeOK, Serial, NEW w \in Workers, Workers = {w},
         \/ \E operator \in Operators, key \in Keys : Confirm(w, operator, key)
         \/ ConsumeStaged(w)
  PROVE  Serial'
PROOF
  <1>1. job[w].at \in {"idle", "consume"} /\ UNCHANGED <<wo, hold, event>>
    BY TaskFields DEF Confirm, ConsumeStaged, Others
  <1>2. Quality(wo, hold) /\ Material(wo, line) /\ Count(wo, event)
    BY <1>1, Midway
  <1>3. CASE \E operator \in Operators, key \in Keys : Confirm(w, operator, key)
    <2>1. ~Closed(wo) /\ line' = line
      BY <1>3 DEF Confirm, Others, Runnable, Closed
    <2>2. PICK t : job' = [job EXCEPT ![w] = t] /\ t.at \in {"consume", "event"}
      <3>0. PICK key \in Keys : \E operator \in Operators : Confirm(w, operator, key)
        BY <1>3
      <3>1. PICK t :
              /\ t = Task(IF line[At[key]].status = "none" THEN "event" ELSE "consume",
                          "resequence", key, Published, line[At[key]].staged, NewHold, "none")
              /\ job' = [job EXCEPT ![w] = t]
        BY <3>0 DEF Confirm
      <3>2. t.at \in {"consume", "event"}
        BY <3>1 DEF Task
      <3> QED BY <3>1, <3>2
    <2> QED BY <1>1, <1>2, <2>1, <2>2, Reading
  <1>4. CASE ConsumeStaged(w)
    <2>1. job[w].at = "consume"
      BY <1>4 DEF ConsumeStaged
    <2>2. ~Closed(wo)
      BY <2>1 DEF Serial, OnItsWay
    <2>3. PICK t : job' = [job EXCEPT ![w] = t] /\ t.at = "event"
      <3>1. PICK t : t = Task("event", "resequence", job[w].subject, Published, 0, NewHold, "none")
        OBVIOUS
      <3>2. job' = [job EXCEPT ![w] = t]
        BY <1>4, <3>1 DEF ConsumeStaged
      <3>3. t.at = "event"
        BY <3>1 DEF Task
      <3> QED BY <3>2, <3>3
    <2>4. \A s \in Stations : line'[s].status = "SHORTAGE" => line[s].status = "SHORTAGE"
      <3>1. PICK left, at : line' = [line EXCEPT ![at] = [staged |-> left, status |-> DeriveStatus(left)]]
        BY <1>4 DEF ConsumeStaged
      <3>2. DeriveStatus(left) # "SHORTAGE"
        BY DEF DeriveStatus
      <3> QED BY <3>1, <3>2 DEF TypeOK
    <2>5. Material(wo, line')
      BY <1>2, <2>4 DEF Material
    <2> QED BY <1>1, <1>2, <2>2, <2>3, <2>5, Reading
  <1> QED BY <1>3, <1>4

(* The event that is recorded is the one the hook will count: the order is  *)
(* open, so the hook is not refused, and the last unit completes it.        *)
LEMMA RecordSerial ==
  ASSUME TypeOK, TasksSound, Serial, NEW w \in Workers, Workers = {w}, RecordEvent(w)
  PROVE  Serial'
PROOF
  <1>1. job[w].at = "event" /\ UNCHANGED <<wo, line, hold>>
    BY DEF RecordEvent
  <1>2. Quality(wo, hold) /\ Material(wo, line) /\ Count(wo, event) /\ ~Closed(wo)
    BY <1>1, Midway DEF Serial, OnItsWay
  <1>3. CASE ~Unique(job[w].subject)
    <2>1. job' = [job EXCEPT ![w] = Idle] /\ event' = event
      BY <1>3 DEF RecordEvent
    <2> QED BY <1>1, <1>2, <2>1, Reading, TaskFields
  <1>4. CASE Unique(job[w].subject)
    <2>0. PICK k \in Keys : k = job[w].subject
      BY <1>1 DEF TasksSound, Subjects
    <2>1. PICK t, r : t = Call("increment", k) /\ r = Changed("increment", wo)
      OBVIOUS
    <2>2. event' = event \cup {k} /\ k \notin event /\ job' = [job EXCEPT ![w] = t]
      BY <1>4, <2>0, <2>1 DEF RecordEvent, Unique
    <2>3. t.at = "load" /\ t.change = "increment"
      BY <2>1, TaskFields
    <2>4. Allowed("increment", wo)
      BY <1>2 DEF Allowed, Closed, WorkOrderStatus
    <2>5. RowAfter(t)' = r
      BY <1>1, <2>1, <2>3, <2>4 DEF RowAfter
    <2>6. HoldAfter(t)' = hold
      BY <1>1, <2>3 DEF HoldAfter, EndsHold
    <2>7. OnItsWay(t)'
      BY <1>1, <1>2, <2>3 DEF EndsHold, OnItsWay, Closed
    <2>8. r.ready = wo.ready /\ r.clear = wo.clear /\ r.completed = wo.completed + 1
          /\ r.status = AfterUnit(wo.completed + 1)
      BY <2>1, ChangedFields DEF WorkOrderStatus
    <2>9. Quality(r, hold) /\ Material(r, line')
      BY <1>1, <1>2, <2>8 DEF Quality, Material
    <2>10. Count(r, event')
      <3>1. IsFiniteSet(event)
        BY ConstantsAssumption, FS_Subset DEF TypeOK
      <3>2. Cardinality(event') = Cardinality(event) + 1
        BY <2>2, <3>1, FS_AddElement
      <3>3. wo.completed \in Nat /\ wo.completed < Planned
        BY <1>2, ConstantsAssumption DEF Count, Closed, TypeOK, WorkOrder
      <3> QED BY <1>2, <2>8, <3>2, <3>3, ConstantsAssumption DEF Count, AfterUnit
    <2> QED BY <2>2, <2>5, <2>6, <2>7, <2>9, <2>10, <1>1, Onward
  <1> QED BY <1>3, <1>4

-----------------------------------------------------------------------------
LEMMA CreateHoldSerial ==
  ASSUME TypeOK, Serial, NEW w \in Workers, Workers = {w}, NEW h \in Holds, CreateHold(w, h)
  PROVE  Serial'
PROOF
  <1>1. job[w] = Idle /\ UNCHANGED <<wo, line, event>>
    BY DEF CreateHold
  <1>2. Material(wo, line) /\ Count(wo, event)
    BY <1>1, Resting
  <1>3. PICK t, r : t = Call("block", None) /\ r = Changed("block", wo)
    OBVIOUS
  <1>4. job' = [job EXCEPT ![w] = t] /\ t.at = "load" /\ t.change = "block"
    BY <1>3, TaskFields DEF CreateHold
  <1>5. RowAfter(t)' = r
    BY <1>1, <1>3, <1>4, AlwaysAllowed DEF RowAfter
  <1>6. HoldAfter(t)' = hold' /\ OnItsWay(t)'
    BY <1>4 DEF HoldAfter, EndsHold, OnItsWay, Awaits
  <1>7. Quality(r, hold')
    <2>1. hold'[h].status = "HELD"
      BY DEF CreateHold, TypeOK, Hold
    <2>2. "HELD" \in Blocking
      BY DEF Blocking, HoldStatus
    <2>3. ~r.clear
      BY <1>3, ChangedFields
    <2> QED BY <2>1, <2>2, <2>3 DEF Quality
  <1>8. Material(r, line') /\ Count(r, event')
    BY <1>1, <1>2, <1>3, ChangedFields, CountKept DEF Material, TypeOK
  <1> QED BY <1>4, <1>5, <1>6, <1>7, <1>8, Onward

(* A hold on its way to another status: the order is judged by what it      *)
(* becomes.                                                                 *)
LEMMA HoldSaved ==
  ASSUME TypeOK, NEW w \in Workers, Workers = {w}, NEW h \in Holds, NEW to, NEW at \in {"save", "hold"}, NEW r,
         job' = [job EXCEPT ![w] = HoldTask(at, h, r, to)], UNCHANGED <<wo, line, hold, event>>,
         LET row == IF at = "save" THEN r ELSE wo IN
           Quality(row, [hold EXCEPT ![h] = to]) /\ Material(row, line) /\ Count(row, event)
  PROVE  Serial'
PROOF
  <1>1. PICK t, row : t = HoldTask(at, h, r, to) /\ row = IF at = "save" THEN r ELSE wo
    OBVIOUS
  <1>2. t.at = at /\ t.subject = h /\ t.row = r /\ t.to = to
    BY <1>1, TaskFields
  <1>3. h # None
    BY ConstantsAssumption
  <1>4. RowAfter(t)' = row
    BY <1>1, <1>2 DEF RowAfter
  <1>5. HoldAfter(t)' = [hold EXCEPT ![h] = to]
    BY <1>2, <1>3 DEF HoldAfter, EndsHold
  <1>6. OnItsWay(t)'
    BY <1>2 DEF OnItsWay, EndsHold, Awaits
  <1>7. Quality(row, [hold EXCEPT ![h] = to]) /\ Material(row, line) /\ Count(row, event)
    BY <1>1
  <1> QED BY <1>1, <1>4, <1>5, <1>6, <1>7, Onward

LEMMA MoveHoldSerial ==
  ASSUME TypeOK, Serial, NEW w \in Workers, Workers = {w}, NEW h \in Holds, MoveHold(w, h)
  PROVE  Serial'
PROOF
  <1>1. job[w] = Idle /\ UNCHANGED <<wo, line, hold, event>>
    BY DEF MoveHold, Others
  <1>2. Quality(wo, hold) /\ Material(wo, line) /\ Count(wo, event)
    BY <1>1, Resting
  <1>3. PICK to \in Moves(hold[h]) : job' = [job EXCEPT ![w] = HoldTask("hold", h, Published, to)]
    BY DEF MoveHold
  <1>4. hold[h] \in Hold /\ hold \in [Holds -> Hold]
    BY DEF TypeOK
  <1>5. hold[h].status \in Blocking /\ to.status \in Blocking
    BY <1>3, <1>4 DEF Moves, Blocking, HoldStatus, Hold
  <1>6. Quality(wo, [hold EXCEPT ![h] = to])
    BY <1>2, <1>4, <1>5 DEF Quality
  <1> QED BY <1>1, <1>2, <1>3, <1>6, HoldSaved

(* The last hold to end lets the order go; any other leaves it blocked.     *)
LEMMA EndHoldSerial ==
  ASSUME TypeOK, Serial, NEW w \in Workers, Workers = {w}, NEW h \in Holds, EndHold(w, h)
  PROVE  Serial'
PROOF
  <1>1. job[w] = Idle /\ UNCHANGED <<wo, line, hold, event>>
    BY DEF EndHold, Others
  <1>2. Quality(wo, hold) /\ Material(wo, line) /\ Count(wo, event)
    BY <1>1, Resting
  <1>3. PICK to \in Ends(hold[h]) :
          job' = [job EXCEPT ![w] = IF Last(h) THEN HoldTask("save", h, Changed("clear", wo), to)
                                    ELSE HoldTask("hold", h, Published, to)]
    BY DEF EndHold
  <1>4. hold \in [Holds -> Hold] /\ hold[h] \in Hold
    BY DEF TypeOK
  <1>5. to.status \notin Blocking /\ hold[h].status \in Blocking
    BY <1>3, <1>4 DEF Ends, Blocking, HoldStatus, Hold
  <1>6. \A x \in Holds : Open(x) <=> hold[x].status \in Blocking
    BY <1>4 DEF Open, Blocking, Hold
  <1>7. CASE Last(h)
    <2>1. PICK r : r = Changed("clear", wo)
      OBVIOUS
    <2>2. Quality(r, [hold EXCEPT ![h] = to])
      <3>1. r.clear
        BY <2>1, ChangedFields
      <3>2. \A x \in Holds : [hold EXCEPT ![h] = to][x].status \notin Blocking
        BY <1>4, <1>5, <1>6, <1>7 DEF Last
      <3> QED BY <3>1, <3>2 DEF Quality
    <2>3. Material(r, line)
      BY <1>2, <2>1, ChangedFields DEF Material
    <2>4. Count(r, event)
      BY <1>2, <2>1, CountKept DEF TypeOK
    <2> QED BY <1>1, <1>3, <1>7, <2>1, <2>2, <2>3, <2>4, HoldSaved
  <1>8. CASE ~Last(h)
    <2>1. PICK x \in Holds : x # h /\ hold[x].status \in Blocking
      BY <1>6, <1>8 DEF Last
    <2>2. ~wo.clear
      BY <1>2, <2>1 DEF Quality
    <2>3. [hold EXCEPT ![h] = to][x].status \in Blocking
      BY <1>4, <2>1
    <2>4. Quality(wo, [hold EXCEPT ![h] = to])
      BY <2>1, <2>2, <2>3 DEF Quality
    <2> QED BY <1>1, <1>2, <1>3, <1>8, <2>4, HoldSaved
  <1> QED BY <1>7, <1>8

LEMMA SaveHoldSerial ==
  ASSUME TypeOK, Serial, NEW w \in Workers, Workers = {w}, SaveHold(w)
  PROVE  Serial'
PROOF
  <1>1. /\ job[w].at = "hold" /\ hold' = [hold EXCEPT ![job[w].subject] = job[w].to]
        /\ job' = [job EXCEPT ![w] = Idle] /\ UNCHANGED <<wo, line, event>>
    BY DEF SaveHold
  <1>2. RowAfter(job[w]) = wo
    BY <1>1 DEF RowAfter
  <1>3. HoldAfter(job[w]) = hold'
    <2>1. CASE EndsHold(job[w])
      BY <1>1, <2>1 DEF HoldAfter
    <2>2. CASE ~EndsHold(job[w])
      <3>1. job[w].subject = None /\ None \notin Holds
        BY <1>1, <2>2, ConstantsAssumption DEF EndsHold
      <3>2. hold' = hold
        BY <1>1, <3>1 DEF TypeOK
      <3> QED BY <2>2, <3>2 DEF HoldAfter
    <2> QED BY <2>1, <2>2
  <1>4. RowAfter(Idle)' = wo' /\ HoldAfter(Idle)' = hold' /\ OnItsWay(Idle)'
    BY TaskFields DEF RowAfter, HoldAfter, EndsHold, OnItsWay, Awaits
  <1> QED BY <1>1, <1>2, <1>3, <1>4, Onward DEF Serial

LEMMA FaiSerial ==
  ASSUME TypeOK, Serial, NEW w \in Workers, Workers = {w},
         \/ SaveFai(w)
         \/ \E f \in Fais : CreateFai(w, f) \/ \E result \in {"PASS", "FAIL"} : SubmitFai(w, f, result)
  PROVE  Serial'
PROOF
  <1>1. job[w].at \in {"idle", "fai"} /\ UNCHANGED <<wo, line, hold, event>>
    BY TaskFields DEF CreateFai, SubmitFai, SaveFai, Others
  <1>2. Quality(wo, hold) /\ Material(wo, line) /\ Count(wo, event)
    BY <1>1, Midway
  <1>3. CASE \/ \E f \in Fais : CreateFai(w, f) \/ \E result \in {"PASS", "FAIL"} : SubmitFai(w, f, result)
             \/ SaveFai(w) /\ job[w].result # "PASS"
    <2>1. PICK t : job' = [job EXCEPT ![w] = t] /\ t.at \in {"idle", "fai"}
      <3>1. CASE \E f \in Fais : CreateFai(w, f)
        <4>1. job[w] = Idle /\ job' = job
          BY <3>1 DEF CreateFai
        <4>2. job' = [job EXCEPT ![w] = Idle]
          BY <4>1 DEF TypeOK
        <4> QED BY <4>2, TaskFields
      <3>2. CASE \E f \in Fais, result \in {"PASS", "FAIL"} : SubmitFai(w, f, result)
        <4>1. PICK f, result, t : /\ t = Task("fai", "resequence", f, Published, 0, NewHold, result)
                                  /\ job' = [job EXCEPT ![w] = t]
          BY <3>2 DEF SubmitFai
        <4>2. t.at = "fai"
          BY <4>1 DEF Task
        <4> QED BY <4>1, <4>2
      <3>3. CASE SaveFai(w) /\ job[w].result # "PASS"
        <4>1. job' = [job EXCEPT ![w] = Idle]
          BY <3>3 DEF SaveFai
        <4> QED BY <4>1, TaskFields
      <3> QED BY <1>3, <3>1, <3>2, <3>3
    <2> QED BY <1>1, <1>2, <2>1, Reading
  <1>4. CASE SaveFai(w) /\ job[w].result = "PASS"
    <2>1. PICK t, r : t = Call("approve", None) /\ r = Changed("approve", wo)
      OBVIOUS
    <2>2. job' = [job EXCEPT ![w] = t] /\ t.at = "load" /\ t.change = "approve"
      BY <1>4, <2>1, TaskFields DEF SaveFai
    <2>3. RowAfter(t)' = r
      BY <1>1, <2>1, <2>2, AlwaysAllowed DEF RowAfter
    <2>4. HoldAfter(t)' = hold /\ OnItsWay(t)'
      BY <1>1, <2>2 DEF HoldAfter, EndsHold, OnItsWay, Awaits
    <2>5. Quality(r, hold) /\ Material(r, line)
      BY <1>2, <2>1, ChangedFields DEF Quality, Material
    <2>6. Count(r, event)
      BY <1>2, <2>1, CountKept DEF TypeOK
    <2> QED BY <1>1, <2>2, <2>3, <2>4, <2>5, <2>6, Onward
  <1> QED BY <1>3, <1>4

-----------------------------------------------------------------------------
LEMMA SerialInit == Init => Serial
PROOF
  <1> SUFFICES ASSUME Init PROVE Serial
    OBVIOUS
  <1>1. RowAfter(Idle) = wo /\ HoldAfter(Idle) = hold /\ OnItsWay(Idle)
    BY TaskFields DEF RowAfter, HoldAfter, EndsHold, OnItsWay, Awaits
  <1>2. Quality(wo, hold)
    BY DEF Init, Quality, Published, NewHold, Blocking
  <1>3. Material(wo, line)
    BY DEF Init, Material, NewLine
  <1>4. Count(wo, event)
    BY FS_EmptySet, ConstantsAssumption DEF Init, Count, Published
  <1>5. \A w \in Workers : job[w] = Idle
    BY DEF Init
  <1> QED BY <1>1, <1>2, <1>3, <1>4, <1>5 DEF Serial

LEMMA SerialStep == OneAtATime /\ IInv /\ Serial /\ [Next]_vars => Serial'
PROOF
  <1> SUFFICES ASSUME OneAtATime, IInv, Serial, [Next]_vars PROVE Serial'
    OBVIOUS
  <1>1. TypeOK /\ TasksSound
    BY DEF IInv
  <1>2. CASE UNCHANGED vars
    <2>1. UNCHANGED <<wo, line, hold, event, job>>
      BY <1>2 DEF vars, rows
    <2>2. AllStaged' <=> AllStaged
      BY <2>1 DEF AllStaged
    <2>3. \A w \in Workers : RowAfter(job[w])' = RowAfter(job[w]) /\ HoldAfter(job[w])' = HoldAfter(job[w])
      BY <2>1, <2>2 DEF RowAfter, HoldAfter, EndsHold
    <2>4. \A w \in Workers : OnItsWay(job[w]) => OnItsWay(job[w])'
      BY <2>1 DEF OnItsWay, EndsHold, Awaits, Closed
    <2> QED BY <2>1, <2>3, <2>4 DEF Serial
  <1>3. ASSUME NEW w \in Workers, Request(w) PROVE Serial'
    <2>0. Workers = {w}
      BY <1>3 DEF OneAtATime
    <2>1. CASE \E change \in WorkOrderStatus \cup {"resequence", "authorize"} : EditWorkOrder(w, change)
      BY <1>1, <2>0, <2>1, EditSerial
    <2>2. CASE GenerateStaging(w)
      BY <1>1, <2>0, <2>2, StagingSerial
    <2>3. CASE \E s \in Stations : MarkShortage(w, s) \/ \E amount \in Amounts : ConfirmStaged(w, s, amount)
      BY <1>1, <2>0, <2>3, StagingSerial, ConfirmStagedSerial, ConstantsAssumption
    <2>4. CASE \E operator \in Operators, key \in Keys : Confirm(w, operator, key)
      BY <1>1, <2>0, <2>4, ConfirmSerial
    <2>5. CASE \E h \in Holds : CreateHold(w, h) \/ MoveHold(w, h) \/ EndHold(w, h)
      BY <1>1, <2>0, <2>5, CreateHoldSerial, MoveHoldSerial, EndHoldSerial
    <2>6. CASE \E f \in Fais : CreateFai(w, f) \/ \E result \in {"PASS", "FAIL"} : SubmitFai(w, f, result)
      BY <1>1, <2>0, <2>6, FaiSerial
    <2> QED BY <1>3, <2>1, <2>2, <2>3, <2>4, <2>5, <2>6 DEF Request
  <1>4. ASSUME NEW w \in Workers, Continue(w) PROVE Serial'
    <2>0. Workers = {w}
      BY <1>4 DEF OneAtATime
    <2> USE <1>1, <2>0
    <2>1. CASE LoadWorkOrder(w)
      BY <2>1, LoadSerial
    <2>2. CASE SaveWorkOrder(w)
      BY <2>2, SaveSerial
    <2>3. CASE RecomputeReadiness(w)
      BY <2>3, RecomputeSerial
    <2>4. CASE SaveShortage(w) \/ RefuseShort(w)
      BY <2>4, StagingSerial
    <2>5. CASE ConsumeStaged(w)
      BY <2>5, ConfirmSerial
    <2>6. CASE RecordEvent(w)
      BY <2>6, RecordSerial
    <2>7. CASE SaveHold(w)
      BY <2>7, SaveHoldSerial
    <2>8. CASE SaveFai(w)
      BY <2>8, FaiSerial
    <2> QED BY <1>4, <2>1, <2>2, <2>3, <2>4, <2>5, <2>6, <2>7, <2>8 DEF Continue
  <1>5. \A w \in Workers : ~Crash(w)
    BY DEF OneAtATime, Crash
  <1> QED BY <1>2, <1>3, <1>4, <1>5 DEF Next

LEMMA SerialHolds == ASSUME OneAtATime PROVE Spec => [](IInv /\ Serial)
PROOF
  <1>1. Init => IInv /\ Serial
    BY Initially, SerialInit
  <1>2. IInv /\ Serial /\ [Next]_vars => (IInv /\ Serial)'
    BY Step, SerialStep
  <1> QED BY <1>1, <1>2, PTL DEF Spec

LEMMA SerialAtRest ==
  ASSUME OneAtATime, Serial, AtRest
  PROVE  Quality(wo, hold) /\ Material(wo, line) /\ Count(wo, event)
BY Resting DEF OneAtATime, AtRest

(* With one request at a time the order is blocked by quality exactly while *)
(* one of its holds is open, for any number of holds and along every path   *)
(* of the material review (createHold, disposition, reinspect,              *)
(* releaseWoIfClear).                                                       *)
THEOREM HoldsBlockTheOrder == ASSUME OneAtATime PROVE Spec => []OpenHoldBlocks
PROOF
  <1>1. IInv /\ Serial => OpenHoldBlocks
    <2> SUFFICES ASSUME IInv, Serial, AtRest PROVE wo.clear <=> \A h \in Holds : ~Open(h)
      BY DEF OpenHoldBlocks
    <2>1. Quality(wo, hold)
      BY SerialAtRest
    <2>2. \A h \in Holds : Open(h) <=> hold[h].status \in Blocking
      BY DEF IInv, TypeOK, Hold, Open, Blocking
    <2> QED BY <2>1, <2>2 DEF Quality
  <1> QED BY <1>1, SerialHolds, PTL

(* With one request at a time a line that ran short stops the order until   *)
(* every line is staged again, for any stations and quantities              *)
(* (consumeStaged, markShortage, recomputeReadiness).                       *)
THEOREM ShortLineStopsTheOrder == ASSUME OneAtATime PROVE Spec => []ShortageBlocks
PROOF
  <1>1. Serial => ShortageBlocks
    BY SerialAtRest DEF ShortageBlocks, Material
  <1> QED BY <1>1, SerialHolds, PTL

(* With one request at a time every unit confirmed is counted, none beyond  *)
(* the plan, the last one completes the order and a cancelled order has     *)
(* none (confirm, incrementCompleted, assertSafeCancellation).              *)
THEOREM OrderIsClosed == ASSUME OneAtATime PROVE Spec => []OrderClosesItself
PROOF
  <1>1. Serial => OrderClosesItself
    BY SerialAtRest DEF OrderClosesItself, Count
  <1> QED BY <1>1, SerialHolds, PTL
=============================================================================
