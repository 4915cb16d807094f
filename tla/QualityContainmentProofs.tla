----------------------- MODULE QualityContainmentProofs -----------------------
(***************************************************************************)
(* QualityContainment for any positions, holds, transfers, dispositions    *)
(* and concurrent requests, each of which may fail between any two steps:  *)
(* the records of quality are saved last, and only a decision frees stock. *)
(***************************************************************************)
EXTENDS QualityContainment, TLAPS

\* What has been done by the time a request gets to a step.
DoneBy(t) ==
  /\ t.at \in {"complete", "quarantine"} => t.of \in moved
  /\ t.at \in {"ncr", "release", "final"} /\ Issuing(t.of) => issued[t.of] > 0
  /\ t.at = "final" /\ DispositionOf[t.of].hold # None => hold[DispositionOf[t.of].hold] = "released"
  /\ t.at = "fail" => hold[t.of] = "none"

StepsDone == \A w \in Workers : DoneBy(job[w])

\* The id of a hold is inserted by one request.
IdsApart ==
  \A v, w \in Workers : v # w /\ job[v].at = "fail" => job[v] # job[w]

IInv == TypeOK /\ StepsDone /\ IdsApart /\ RecordsSavedLast

-----------------------------------------------------------------------------
LEMMA Types ==
  /\ Idle \in Job /\ Idle.at = "idle"
  /\ \A p \in Positions : Attribute[p] \in [Field -> Value]
  /\ \A d \in Dispositions : /\ DispositionOf[d].qty \in Nat /\ DispositionOf[d].hold \in Holds \cup {None}
                             /\ DispositionOf[d].ncr \in Ncrs \cup {None}
  /\ \A t \in Transfers : TransferOf[t].qty \in Nat /\ TransferOf[t].hold \in Holds
  /\ None \notin Holds /\ None \notin Ncrs
BY ConstantsAssumption DEF Idle, Task, Job

LEMMA StatusSet ==
  ASSUME TypeOK, NEW P, NEW status \in Status, SetStatus(P, status)
  PROVE  pos' \in [Positions -> Position]
BY DEF SetStatus, TypeOK, Position

(* A step that moves no stock off the records' books: holds are only ever   *)
(* released, histories only grow, and one request goes on to task t.        *)
LEMMA GoesOn ==
  ASSUME IInv, NEW w \in Workers, NEW t \in Job, job' = [job EXCEPT ![w] = t],
         pos' \in [Positions -> Position],
         hold' \in [Holds -> HoldState], transfer' \in [Transfers -> TransferState],
         dispo' \in [Dispositions -> DispositionState], ncr' \in [Ncrs -> NcrState],
         moved \subseteq moved', moved' \subseteq Transfers,
         issued' \in [Dispositions -> Nat], \A d \in Dispositions : issued[d] <= issued'[d],
         \A h \in Holds : hold[h] = "released" => hold'[h] = "released",
         \A v \in Workers : v # w /\ job[v].at = "fail" => hold'[job[v].of] = "none",
         DoneBy(t)',
         t.at = "fail" => \A v \in Workers : v # w => job[v] # t,
         \A d \in Dispositions : dispo'[d] = "EXECUTED" => dispo[d] = "EXECUTED" \/ (job[w].at = "final" /\ job[w].of = d),
         \A x \in Transfers : transfer'[x] = "COMPLETED" => transfer[x] = "COMPLETED" \/ (job[w].at = "complete" /\ job[w].of = x)
  PROVE  IInv'
PROOF
  <1> USE DEF IInv
  <1>1. job'[w] = t /\ \A v \in Workers : v # w => job'[v] = job[v]
    BY DEF TypeOK
  <1>2. TypeOK'
    BY DEF TypeOK
  <1>3. \A d \in Dispositions : issued[d] \in Nat /\ issued'[d] \in Nat
    BY DEF TypeOK
  <1>4. \A d \in Dispositions : issued[d] > 0 => issued'[d] > 0
    BY <1>3
  <1>5. \A v \in Workers : job[v] \in Job
    BY DEF TypeOK
  <1>6. StepsDone'
    <2>1. ASSUME NEW v \in Workers, v # w PROVE DoneBy(job[v])'
      <3>1. DoneBy(job[v]) /\ job'[v] = job[v] /\ job[v] \in Job
        BY <1>1, <1>5, <2>1 DEF StepsDone
      <3>2. job[v].at \in {"ncr", "release", "final"} => job[v].of \in Dispositions
        BY <3>1 DEF Job, Idle, Task
      <3>3. (job[v].at \in {"complete", "quarantine"} => job[v].of \in moved')
        BY <3>1 DEF DoneBy
      <3>4. (job[v].at \in {"ncr", "release", "final"} /\ Issuing(job[v].of) => issued'[job[v].of] > 0)
        BY <3>1, <3>2, <1>4 DEF DoneBy
      <3>5. job[v].at = "final" /\ DispositionOf[job[v].of].hold # None => hold'[DispositionOf[job[v].of].hold] = "released"
        BY <3>1, <3>2, Types DEF DoneBy
      <3>6. job[v].at = "fail" => hold'[job[v].of] = "none"
        BY <2>1
      <3> QED BY <3>1, <3>3, <3>4, <3>5, <3>6 DEF DoneBy, Issuing, Releasing
    <2>2. DoneBy(job[w])'
      BY <1>1 DEF DoneBy, Issuing, Releasing
    <2> QED BY <2>1, <2>2 DEF StepsDone
  <1>7. IdsApart'
    BY <1>1 DEF IdsApart
  <1>8. RecordsSavedLast'
    <2>1. ASSUME NEW d \in Dispositions, dispo'[d] = "EXECUTED"
          PROVE  /\ DispositionOf[d].hold # None => hold'[DispositionOf[d].hold] = "released"
                 /\ Issuing(d) => issued'[d] > 0
      <3>1. CASE dispo[d] = "EXECUTED"
        BY <3>1, <1>4, Types DEF RecordsSavedLast
      <3>2. CASE job[w].at = "final" /\ job[w].of = d
        <4>1. /\ DispositionOf[d].hold # None => hold[DispositionOf[d].hold] = "released"
              /\ Issuing(d) => issued[d] > 0
          BY <3>2 DEF StepsDone, DoneBy
        <4> QED BY <4>1, <1>4, Types
      <3> QED BY <2>1, <3>1, <3>2
    <2>2. ASSUME NEW x \in Transfers, transfer'[x] = "COMPLETED" PROVE x \in moved'
      <3>1. CASE transfer[x] = "COMPLETED"
        BY <3>1 DEF RecordsSavedLast
      <3>2. CASE job[w].at = "complete" /\ job[w].of = x
        BY <3>2 DEF StepsDone, DoneBy
      <3> QED BY <2>2, <3>1, <3>2
    <2> QED BY <2>1, <2>2 DEF RecordsSavedLast, Issuing, Releasing
  <1> QED BY <1>2, <1>6, <1>7, <1>8

LEMMA TaskTypes ==
  /\ \A d \in Dispositions, at \in {"approve", "impact", "ncr", "release", "final"} :
       Task(at, d) \in Job /\ Task(at, d).at = at /\ Task(at, d).of = d
  /\ \A t \in Transfers, at \in {"move", "complete", "quarantine"} :
       Task(at, t) \in Job /\ Task(at, t).at = at /\ Task(at, t).of = t
  /\ \A lot \in Lots : Task("pass", lot) \in Job /\ Task("pass", lot).at = "pass"
  /\ \A h \in Holds : Task("fail", h) \in Job /\ Task("fail", h).at = "fail" /\ Task("fail", h).of = h
BY DEF Task, Job

LEMMA JobShapes ==
  ASSUME NEW t \in Job
  PROVE  /\ t.at \in {"approve", "impact", "ncr", "release", "final"} => t.of \in Dispositions
         /\ t.at \in {"move", "complete", "quarantine"} => t.of \in Transfers
         /\ t.at = "pass" => t.of \in Lots
         /\ t.at = "fail" => t.of \in Holds /\ t = Task("fail", t.of)
BY DEF Job, Idle, Task

(* A request that changes the positions or the histories at most. *)
LEMMA Proceeds ==
  ASSUME IInv, NEW w \in Workers, NEW t \in Job, job' = [job EXCEPT ![w] = t],
         pos' \in [Positions -> Position], UNCHANGED <<hold, transfer, dispo>>,
         ncr' \in [Ncrs -> NcrState],
         moved \subseteq moved', moved' \subseteq Transfers,
         issued' \in [Dispositions -> Nat], \A d \in Dispositions : issued[d] <= issued'[d],
         t.at # "fail", DoneBy(t)'
  PROVE  IInv'
PROOF
  <1>1. \A v \in Workers : job[v].at = "fail" => hold'[job[v].of] = "none"
    BY DEF IInv, StepsDone, DoneBy
  <1> QED BY <1>1, GoesOn DEF IInv, TypeOK

LEMMA SameIssued ==
  ASSUME TypeOK, UNCHANGED issued
  PROVE  issued' \in [Dispositions -> Nat] /\ \A d \in Dispositions : issued[d] <= issued'[d]
BY DEF TypeOK

(* A request that touches the positions and the NCRs at most. *)
LEMMA Continues ==
  ASSUME IInv, NEW w \in Workers, NEW t \in Job, job' = [job EXCEPT ![w] = t],
         pos' \in [Positions -> Position], ncr' \in [Ncrs -> NcrState],
         UNCHANGED <<hold, transfer, dispo, moved, issued>>,
         t.at # "fail", DoneBy(t)
  PROVE  IInv'
PROOF
  <1>1. DoneBy(t)'
    BY DEF DoneBy, Issuing, Releasing
  <1>2. moved \subseteq moved' /\ moved' \subseteq Transfers
    BY DEF IInv, TypeOK
  <1> QED BY <1>1, <1>2, SameIssued, Proceeds DEF IInv

LEMMA IdleDone == DoneBy(Idle) /\ Idle.at # "fail"
BY DEF DoneBy, Idle, Task

LEMMA KeptIdle ==
  ASSUME TypeOK, NEW w \in Workers, job[w] = Idle, UNCHANGED job
  PROVE  job' = [job EXCEPT ![w] = Idle]
BY DEF TypeOK

-----------------------------------------------------------------------------
LEMMA HoldSteps ==
  ASSUME IInv, NEW w \in Workers, NEW h \in Holds, CreateHold(w, h) \/ ReleaseHold(w, h) \/ InspectFailed(w, h)
  PROVE  IInv'
PROOF
  <1>0. TypeOK
    BY DEF IInv
  <1>1. UNCHANGED <<transfer, dispo, ncr, moved, issued>> /\ moved \subseteq moved' /\ moved' \subseteq Transfers
        /\ transfer' \in [Transfers -> TransferState] /\ dispo' \in [Dispositions -> DispositionState]
        /\ ncr' \in [Ncrs -> NcrState] /\ job[w] = Idle
    BY <1>0 DEF CreateHold, ReleaseHold, InspectFailed, Unmoved, data, TypeOK
  <1>2. issued' \in [Dispositions -> Nat] /\ \A d \in Dispositions : issued[d] <= issued'[d]
    BY <1>0, <1>1, SameIssued
  <1>3. CASE CreateHold(w, h)
    <2>1. hold[h] = "none" /\ hold' = [hold EXCEPT ![h] = "active"] /\ SetStatus(Covers(h), "hold") /\ UNCHANGED job
          /\ \A v \in Workers : job[v] # Task("fail", h)
      BY <1>3 DEF CreateHold, Blocked, Fresh
    <2>2. pos' \in [Positions -> Position]
      BY <1>0, <2>1, StatusSet DEF Status
    <2>3. hold' \in [Holds -> HoldState] /\ \A x \in Holds : hold[x] = "released" => hold'[x] = "released"
      BY <1>0, <2>1 DEF TypeOK, HoldState
    <2>4. \A v \in Workers : v # w /\ job[v].at = "fail" => hold'[job[v].of] = "none"
      <3> SUFFICES ASSUME NEW v \in Workers, job[v].at = "fail" PROVE hold'[job[v].of] = "none"
        OBVIOUS
      <3>1. job[v] \in Job /\ hold[job[v].of] = "none"
        BY <1>0 DEF IInv, StepsDone, DoneBy, TypeOK
      <3>2. job[v].of \in Holds /\ job[v].of # h
        BY <2>1, <3>1, JobShapes
      <3> QED BY <1>0, <2>1, <3>1, <3>2 DEF TypeOK
    <2>5. DoneBy(Idle)'
      BY DEF DoneBy, Idle, Task
    <2>6. job' = [job EXCEPT ![w] = Idle]
      BY <1>0, <1>1, <2>1, KeptIdle
    <2> QED BY <1>1, <1>2, <2>2, <2>3, <2>4, <2>5, <2>6, Types, IdleDone, GoesOn
  <1>4. CASE ReleaseHold(w, h)
    <2>1. hold[h] # "none" /\ hold' = [hold EXCEPT ![h] = "released"] /\ SetStatus(Frees(h), "available") /\ UNCHANGED job
      BY <1>4 DEF ReleaseHold, Released
    <2>2. pos' \in [Positions -> Position]
      BY <1>0, <2>1, StatusSet DEF Status
    <2>3. hold' \in [Holds -> HoldState] /\ \A x \in Holds : hold[x] = "released" => hold'[x] = "released"
      BY <1>0, <2>1 DEF TypeOK, HoldState
    <2>4. \A v \in Workers : v # w /\ job[v].at = "fail" => hold'[job[v].of] = "none"
      BY <1>0, <2>1 DEF IInv, StepsDone, DoneBy, TypeOK
    <2>5. DoneBy(Idle)'
      BY DEF DoneBy, Idle, Task
    <2>6. job' = [job EXCEPT ![w] = Idle]
      BY <1>0, <1>1, <2>1, KeptIdle
    <2> QED BY <1>1, <1>2, <2>2, <2>3, <2>4, <2>5, <2>6, Types, IdleDone, GoesOn
  <1>5. CASE InspectFailed(w, h)
    <2> DEFINE t == Task("fail", h)
    <2>1. t \in Job /\ t.at = "fail" /\ t.of = h
      BY TaskTypes
    <2>2. /\ job' = [job EXCEPT ![w] = t] /\ UNCHANGED <<pos, hold>> /\ hold[h] = "none"
          /\ \A v \in Workers : job[v] # t
      BY <1>5 DEF InspectFailed, Goes, data, Fresh
    <2> HIDE DEF t
    <2>3. DoneBy(t)'
      BY <2>1, <2>2 DEF DoneBy
    <2>4. \A v \in Workers : v # w /\ job[v].at = "fail" => hold'[job[v].of] = "none"
      BY <2>2 DEF IInv, StepsDone, DoneBy
    <2> QED BY <1>0, <1>1, <1>2, <2>1, <2>2, <2>3, <2>4, GoesOn DEF TypeOK
  <1> QED BY <1>3, <1>4, <1>5

(* Requests that create a record or change its status and are done. *)
LEMMA RecordSteps ==
  ASSUME IInv, NEW w \in Workers,
         \/ \E t \in Transfers : RequestTransfer(w, t)
         \/ \E d \in Dispositions : Propose(w, d)
         \/ \E n \in Ncrs : CreateNcr(w, n) \/ \E status \in {"open", "closed"} : UpdateNcr(w, n, status)
  PROVE  IInv'
PROOF
  <1>0. TypeOK
    BY DEF IInv
  <1>1. UNCHANGED <<pos, hold, job, moved, issued>> /\ job[w] = Idle /\ moved \subseteq moved' /\ moved' \subseteq Transfers
        /\ pos' \in [Positions -> Position] /\ hold' \in [Holds -> HoldState]
    BY <1>0 DEF RequestTransfer, Propose, CreateNcr, UpdateNcr, Unmoved, TypeOK
  <1>2. /\ transfer' \in [Transfers -> TransferState]
        /\ \A x \in Transfers : transfer'[x] = "COMPLETED" => transfer[x] = "COMPLETED"
    BY <1>0 DEF RequestTransfer, Propose, CreateNcr, UpdateNcr, TypeOK, TransferState
  <1>3. /\ dispo' \in [Dispositions -> DispositionState]
        /\ \A x \in Dispositions : dispo'[x] = "EXECUTED" => dispo[x] = "EXECUTED"
    BY <1>0 DEF RequestTransfer, Propose, CreateNcr, UpdateNcr, TypeOK, DispositionState
  <1>4. ncr' \in [Ncrs -> NcrState]
    BY <1>0 DEF RequestTransfer, Propose, CreateNcr, UpdateNcr, TypeOK, NcrState
  <1>5. issued' \in [Dispositions -> Nat] /\ \A d \in Dispositions : issued[d] <= issued'[d]
    BY <1>0, <1>1, SameIssued
  <1>6. job' = [job EXCEPT ![w] = Idle]
    BY <1>0, <1>1, KeptIdle
  <1>7. DoneBy(Idle)'
    BY DEF DoneBy, Idle, Task
  <1>8. \A v \in Workers : job[v].at = "fail" => hold'[job[v].of] = "none"
    BY <1>1 DEF IInv, StepsDone, DoneBy
  <1>9. \A x \in Holds : hold[x] = "released" => hold'[x] = "released"
    BY <1>1
  <1> QED BY <1>1, <1>2, <1>3, <1>4, <1>5, <1>6, <1>7, <1>8, <1>9, Types, IdleDone, GoesOn

(* Requests that read a record and go on. *)
LEMMA ReadSteps ==
  ASSUME IInv, NEW w \in Workers,
         \/ \E t \in Transfers : CompleteTransfer(w, t)
         \/ \E d \in Dispositions : Approve(w, d) \/ Execute(w, d)
         \/ \E lot \in Lots : InspectPassed(w, lot)
  PROVE  IInv'
PROOF
  <1>1. UNCHANGED <<pos, hold, transfer, dispo, ncr, moved, issued>>
    BY DEF CompleteTransfer, Approve, Execute, InspectPassed, data, Unmoved
  <1>2. PICK t \in Job : job' = [job EXCEPT ![w] = t] /\ t.at \in {"move", "approve", "impact", "pass"}
    BY TaskTypes DEF CompleteTransfer, Approve, Execute, InspectPassed, Goes
  <1>3. DoneBy(t) /\ t.at # "fail"
    BY <1>2 DEF DoneBy
  <1> QED BY <1>1, <1>2, <1>3, Continues DEF IInv, TypeOK

(* Steps that end a request and change no record but the positions. *)
LEMMA LastSteps ==
  ASSUME IInv, NEW w \in Workers,
         RefuseMove(w) \/ RefuseIssue(w) \/ Quarantine(w) \/ AcceptLot(w) \/ Fail(w)
  PROVE  IInv'
PROOF
  <1>0. TypeOK
    BY DEF IInv
  <1>1. UNCHANGED <<hold, transfer, dispo, ncr, moved, issued>> /\ job' = [job EXCEPT ![w] = Idle]
    BY DEF RefuseMove, RefuseIssue, Quarantine, AcceptLot, Fail, data, Unmoved, Goes
  <1>2. pos' \in [Positions -> Position]
    <2>1. CASE RefuseMove(w) \/ RefuseIssue(w) \/ Fail(w)
      BY <1>0, <2>1 DEF RefuseMove, RefuseIssue, Fail, data, TypeOK
    <2>2. CASE Quarantine(w)
      BY <1>0, <2>2, StatusSet DEF Quarantine, Status
    <2>3. CASE AcceptLot(w)
      BY <1>0, <2>3, StatusSet DEF AcceptLot, Status
    <2> QED BY <2>1, <2>2, <2>3
  <1> QED BY <1>0, <1>1, <1>2, Types, IdleDone, Continues DEF TypeOK

-----------------------------------------------------------------------------
LEMMA MoveStep ==
  ASSUME IInv, NEW w \in Workers, MoveStock(w)
  PROVE  IInv'
PROOF
  <1>0. TypeOK
    BY DEF IInv
  <1>1. PICK t \in Transfers : t = job[w].of
    BY <1>0, JobShapes DEF MoveStock, TypeOK
  <1>2. pos' \in [Positions -> Position]
    <2>1. PICK p \in Positions, q \in Positions :
            MayLeave(p, TransferOf[t].qty) /\ pos' = [pos EXCEPT ![p] = Taken(p, TransferOf[t].qty), ![q] = Added(q, TransferOf[t].qty)]
      BY <1>1 DEF MoveStock, Stored, Destination, Existing
    <2>2. Taken(p, TransferOf[t].qty) \in Position /\ Added(q, TransferOf[t].qty) \in Position
      BY <1>0, <2>1, Types DEF Taken, Added, MayLeave, Position, Status, TypeOK
    <2> QED BY <1>0, <2>1, <2>2 DEF TypeOK
  <1>3. /\ job' = [job EXCEPT ![w] = Task("complete", t)] /\ moved' = moved \cup {t}
        /\ UNCHANGED <<hold, transfer, dispo, ncr, issued>>
    BY <1>1 DEF MoveStock, Goes
  <1>4. Task("complete", t) \in Job /\ Task("complete", t).at = "complete" /\ Task("complete", t).of = t
    BY TaskTypes
  <1>5. DoneBy(Task("complete", t))'
    BY <1>3, <1>4 DEF DoneBy
  <1> QED BY <1>0, <1>2, <1>3, <1>4, <1>5, SameIssued, Proceeds DEF TypeOK

LEMMA IssueStep ==
  ASSUME IInv, NEW w \in Workers, IssueGoods(w)
  PROVE  IInv'
PROOF
  <1>0. TypeOK
    BY DEF IInv
  <1>1. PICK d \in Dispositions : d = job[w].of
    BY <1>0, JobShapes DEF IssueGoods, TypeOK
  <1>2. pos' \in [Positions -> Position]
    <2>1. PICK p \in Positions : MayLeave(p, DispositionOf[d].qty) /\ pos' = [pos EXCEPT ![p] = Taken(p, DispositionOf[d].qty)]
      BY <1>1 DEF IssueGoods, Stored, Existing
    <2>2. Taken(p, DispositionOf[d].qty) \in Position
      BY <1>0, <2>1, Types DEF Taken, MayLeave, Position, Status, TypeOK
    <2> QED BY <1>0, <2>1, <2>2 DEF TypeOK
  <1>3. /\ job' = [job EXCEPT ![w] = Task("ncr", d)] /\ issued' = [issued EXCEPT ![d] = issued[d] + 1]
        /\ UNCHANGED <<hold, transfer, dispo, ncr, moved>>
    BY <1>1 DEF IssueGoods, Goes
  <1>4. Task("ncr", d) \in Job /\ Task("ncr", d).at = "ncr" /\ Task("ncr", d).of = d
    BY TaskTypes
  <1>5. issued' \in [Dispositions -> Nat] /\ \A x \in Dispositions : issued[x] <= issued'[x]
    BY <1>0, <1>3 DEF TypeOK
  <1>6. issued'[d] > 0
    BY <1>0, <1>3 DEF TypeOK
  <1>7. DoneBy(Task("ncr", d))'
    BY <1>4, <1>6 DEF DoneBy, Issuing, Releasing
  <1> QED BY <1>0, <1>2, <1>3, <1>4, <1>5, <1>7, Proceeds DEF TypeOK

(* The middle of a disposition. *)
LEMMA MiddleSteps ==
  ASSUME IInv, NEW w \in Workers, UpdatePositions(w) \/ CloseNcr(w)
  PROVE  IInv'
PROOF
  <1>0. TypeOK
    BY DEF IInv
  <1>1. PICK d \in Dispositions : d = job[w].of
    BY <1>0, JobShapes DEF UpdatePositions, CloseNcr, TypeOK
  <1>2. UNCHANGED <<pos, hold, transfer, dispo, moved, issued>>
    BY DEF UpdatePositions, CloseNcr, data, Unmoved
  <1>3. ncr' \in [Ncrs -> NcrState]
    BY <1>0, <1>1, Types DEF UpdatePositions, CloseNcr, data, TypeOK, NcrState
  <1>4. Issuing(d) => issued[d] > 0 /\ CloseNcr(w)
    BY <1>1 DEF UpdatePositions, CloseNcr, IInv, StepsDone, DoneBy
  <1>5. PICK t \in Job : job' = [job EXCEPT ![w] = t] /\ t.of = d /\ t.at \in {"ncr", "release"}
    BY <1>1, TaskTypes DEF UpdatePositions, CloseNcr, Goes
  <1>6. DoneBy(t) /\ t.at # "fail"
    BY <1>4, <1>5 DEF DoneBy
  <1> QED BY <1>0, <1>2, <1>3, <1>5, <1>6, Continues DEF TypeOK

LEMMA ReleaseStep ==
  ASSUME IInv, NEW w \in Workers, ReleaseItsHold(w)
  PROVE  IInv'
PROOF
  <1>0. TypeOK
    BY DEF IInv
  <1>1. PICK d \in Dispositions : d = job[w].of
    BY <1>0, JobShapes DEF ReleaseItsHold, TypeOK
  <1>2. PICK h \in Holds \cup {None} : h = DispositionOf[d].hold
    BY Types
  <1>3. /\ job' = [job EXCEPT ![w] = Task("final", d)] /\ UNCHANGED <<transfer, dispo, ncr, moved, issued>>
        /\ IF h = None THEN UNCHANGED <<pos, hold>> ELSE Released(h)
    BY <1>1, <1>2 DEF ReleaseItsHold, Goes, Unmoved
  <1>4. pos' \in [Positions -> Position]
    BY <1>0, <1>3, StatusSet DEF Released, Status, TypeOK
  <1>5. /\ hold' \in [Holds -> HoldState]
        /\ \A x \in Holds : hold[x] = "released" => hold'[x] = "released"
        /\ h # None => hold'[h] = "released"
    BY <1>0, <1>2, <1>3 DEF Released, TypeOK, HoldState
  <1>6. \A v \in Workers : job[v].at = "fail" => hold'[job[v].of] = "none"
    <2> SUFFICES ASSUME NEW v \in Workers, job[v].at = "fail" PROVE hold'[job[v].of] = "none"
      OBVIOUS
    <2>1. hold[job[v].of] = "none"
      BY DEF IInv, StepsDone, DoneBy
    <2>2. CASE h = None
      BY <1>3, <2>1, <2>2
    <2>3. CASE h # None
      <3>1. hold[h] # "none" /\ hold' = [hold EXCEPT ![h] = "released"]
        BY <1>3, <2>3 DEF Released
      <3>2. job[v].of \in Holds
        BY <1>0, JobShapes DEF TypeOK
      <3> QED BY <1>0, <2>1, <3>1, <3>2 DEF TypeOK
    <2> QED BY <2>2, <2>3
  <1>7. Task("final", d) \in Job /\ Task("final", d).at = "final" /\ Task("final", d).of = d
    BY TaskTypes
  <1>8. Issuing(d) => issued[d] > 0
    BY <1>1 DEF ReleaseItsHold, IInv, StepsDone, DoneBy
  <1>9. DoneBy(Task("final", d))'
    BY <1>2, <1>3, <1>5, <1>7, <1>8 DEF DoneBy, Issuing, Releasing
  <1>10. moved \subseteq moved' /\ moved' \subseteq Transfers /\ dispo' \in [Dispositions -> DispositionState]
         /\ transfer' \in [Transfers -> TransferState] /\ ncr' \in [Ncrs -> NcrState]
    BY <1>0, <1>3 DEF TypeOK
  <1> QED BY <1>0, <1>3, <1>4, <1>5, <1>6, <1>7, <1>9, <1>10, SameIssued, GoesOn

(* The last save of a disposition or of a transfer, and an approval. *)
LEMMA SaveSteps ==
  ASSUME IInv, NEW w \in Workers, SaveTransfer(w) \/ SaveApproval(w) \/ Finalize(w)
  PROVE  IInv'
PROOF
  <1>0. TypeOK
    BY DEF IInv
  <1>1. UNCHANGED <<hold, ncr, moved, issued>> /\ moved \subseteq moved' /\ moved' \subseteq Transfers
        /\ hold' \in [Holds -> HoldState] /\ ncr' \in [Ncrs -> NcrState]
    BY <1>0 DEF SaveTransfer, SaveApproval, Finalize, Unmoved, TypeOK
  <1>2. pos' \in [Positions -> Position]
    <2>1. CASE Finalize(w)
      BY <1>0, <2>1, StatusSet DEF Finalize, Status
    <2>2. CASE SaveTransfer(w) \/ SaveApproval(w)
      BY <1>0, <2>2 DEF SaveTransfer, SaveApproval, TypeOK
    <2> QED BY <2>1, <2>2
  <1>3. job[w] \in Job
    BY <1>0 DEF TypeOK
  <1>4. /\ transfer' \in [Transfers -> TransferState]
        /\ \A x \in Transfers : transfer'[x] = "COMPLETED" => transfer[x] = "COMPLETED" \/ (job[w].at = "complete" /\ job[w].of = x)
    BY <1>0, <1>3, JobShapes DEF SaveTransfer, SaveApproval, Finalize, TypeOK, TransferState
  <1>5. /\ dispo' \in [Dispositions -> DispositionState]
        /\ \A x \in Dispositions : dispo'[x] = "EXECUTED" => dispo[x] = "EXECUTED" \/ (job[w].at = "final" /\ job[w].of = x)
    BY <1>0, <1>3, JobShapes DEF SaveTransfer, SaveApproval, Finalize, TypeOK, DispositionState
  <1>6. PICK t \in Job : job' = [job EXCEPT ![w] = t] /\ DoneBy(t)' /\ t.at # "fail"
    <2>1. CASE SaveTransfer(w)
      <3>1. job[w].of \in Transfers /\ job[w].of \in moved
        BY <1>3, <2>1, JobShapes DEF SaveTransfer, IInv, StepsDone, DoneBy
      <3>2. Task("quarantine", job[w].of) \in Job /\ Task("quarantine", job[w].of).at = "quarantine"
            /\ Task("quarantine", job[w].of).of = job[w].of
        BY <3>1, TaskTypes
      <3>3. job' = [job EXCEPT ![w] = Task("quarantine", job[w].of)]
        BY <2>1 DEF SaveTransfer, Goes
      <3> DEFINE u == Task("quarantine", job[w].of)
      <3>4. u.of \in moved'
        BY <1>1, <3>1, <3>2
      <3> HIDE DEF u
      <3>5. u \in Job /\ u.at = "quarantine" /\ job' = [job EXCEPT ![w] = u]
        BY <3>2, <3>3 DEF u
      <3> QED BY <1>1, <3>4, <3>5 DEF DoneBy
    <2>2. CASE SaveApproval(w) \/ Finalize(w)
      <3>1. job' = [job EXCEPT ![w] = Idle]
        BY <2>2 DEF SaveApproval, Finalize, Goes
      <3>2. DoneBy(Idle)'
        BY DEF DoneBy, Idle, Task
      <3> QED BY <3>1, <3>2, Types, IdleDone
    <2> QED BY <2>1, <2>2
  <1>7. \A v \in Workers : job[v].at = "fail" => hold'[job[v].of] = "none"
    BY <1>1 DEF IInv, StepsDone, DoneBy
  <1>8. \A x \in Holds : hold[x] = "released" => hold'[x] = "released"
    BY <1>1
  <1> QED BY <1>0, <1>1, <1>2, <1>4, <1>5, <1>6, <1>7, <1>8, SameIssued, GoesOn

LEMMA RejectStep ==
  ASSUME IInv, NEW w \in Workers, RejectLot(w)
  PROVE  IInv'
PROOF
  <1>0. TypeOK
    BY DEF IInv
  <1>1. PICK h \in Holds : h = job[w].of /\ job[w] = Task("fail", h) /\ job[w].at = "fail"
    BY <1>0, JobShapes DEF RejectLot, TypeOK
  <1>2. /\ hold[h] = "none" /\ hold' = [hold EXCEPT ![h] = "active"] /\ SetStatus(Covers(h), "hold")
        /\ job' = [job EXCEPT ![w] = Idle] /\ UNCHANGED <<transfer, dispo, ncr, moved, issued>>
    BY <1>1 DEF RejectLot, Blocked, Goes, Unmoved, IInv, StepsDone, DoneBy
  <1>3. pos' \in [Positions -> Position]
    BY <1>0, <1>2, StatusSet DEF Status
  <1>4. hold' \in [Holds -> HoldState] /\ \A x \in Holds : hold[x] = "released" => hold'[x] = "released"
    BY <1>0, <1>2 DEF TypeOK, HoldState
  <1>5. \A v \in Workers : v # w /\ job[v].at = "fail" => hold'[job[v].of] = "none"
    <2> SUFFICES ASSUME NEW v \in Workers, v # w, job[v].at = "fail" PROVE hold'[job[v].of] = "none"
      OBVIOUS
    <2>1. job[v] \in Job /\ hold[job[v].of] = "none" /\ job[v] # job[w]
      BY <1>0 DEF IInv, StepsDone, DoneBy, TypeOK, IdsApart
    <2>2. job[v].of \in Holds /\ job[v].of # h
      BY <1>1, <2>1, JobShapes
    <2> QED BY <1>0, <1>2, <2>1, <2>2 DEF TypeOK
  <1>6. DoneBy(Idle)'
    BY DEF DoneBy, Idle, Task
  <1>7. moved \subseteq moved' /\ moved' \subseteq Transfers /\ dispo' \in [Dispositions -> DispositionState]
        /\ transfer' \in [Transfers -> TransferState] /\ ncr' \in [Ncrs -> NcrState]
    BY <1>0, <1>2 DEF TypeOK
  <1> QED BY <1>0, <1>2, <1>3, <1>4, <1>5, <1>6, <1>7, Types, IdleDone, SameIssued, GoesOn

-----------------------------------------------------------------------------
LEMMA Initially == Init => IInv
PROOF
  <1> SUFFICES ASSUME Init PROVE IInv
    OBVIOUS
  <1>1. TypeOK
    BY Types, ConstantsAssumption DEF Init, TypeOK, HoldState, TransferState, DispositionState, NcrState
  <1>2. StepsDone /\ IdsApart
    BY Types, IdleDone DEF Init, StepsDone, IdsApart
  <1>3. RecordsSavedLast
    BY DEF Init, RecordsSavedLast
  <1> QED BY <1>1, <1>2, <1>3 DEF IInv

LEMMA Step == IInv /\ [Next]_vars => IInv'
PROOF
  <1> SUFFICES ASSUME IInv, [Next]_vars PROVE IInv'
    OBVIOUS
  <1>1. CASE UNCHANGED vars
    BY <1>1 DEF vars, data, IInv, TypeOK, StepsDone, DoneBy, Issuing, Releasing, IdsApart, RecordsSavedLast
  <1>2. ASSUME NEW w \in Workers, Request(w) PROVE IInv'
    BY <1>2, HoldSteps, RecordSteps, ReadSteps DEF Request
  <1>3. ASSUME NEW w \in Workers, Continue(w) PROVE IInv'
    BY <1>3, LastSteps, MoveStep, IssueStep, MiddleSteps, ReleaseStep, SaveSteps, RejectStep DEF Continue
  <1> QED BY <1>1, <1>2, <1>3, LastSteps DEF Next

(* Every reachable state has typed rows, requests that did what comes       *)
(* before, and records that were saved last.                                *)
THEOREM IInvHolds == Spec => []IInv
PROOF
  <1> QED BY Initially, Step, PTL DEF Spec

(* No movement takes more than a position has, and every row keeps its      *)
(* type, whatever is requested at a time or fails.                          *)
THEOREM TypeCorrect == Spec => []TypeOK
PROOF
  <1>1. IInv => TypeOK
    BY DEF IInv
  <1> QED BY <1>1, IInvHolds, PTL

(* A disposition that says executed has released its hold and issued its    *)
(* goods, a transfer that says completed has moved its stock, for any       *)
(* number of requests that may fail between any two steps.                  *)
THEOREM SavedLast == Spec => []RecordsSavedLast
PROOF
  <1>1. IInv => RecordsSavedLast
    BY DEF IInv
  <1> QED BY <1>1, IInvHolds, PTL

-----------------------------------------------------------------------------
LEMMA StatusAfter ==
  ASSUME TypeOK, NEW P, NEW status, SetStatus(P, status), NEW p \in Positions
  PROVE  pos'[p].status = IF p \in P THEN status ELSE pos[p].status
BY DEF SetStatus, TypeOK, Position

(* A movement leaves every status, except that it makes a new position.     *)
LEMMA MovementFreesNone ==
  ASSUME TypeOK, NEW w \in Workers, MoveStock(w) \/ IssueGoods(w), NEW p \in Positions
  PROVE  ~Freed(p)
PROOF
  <1> USE DEF Freed, MayLeave, TypeOK, Position
  <1>1. CASE MoveStock(w)
    <2>1. PICK x \in Positions, y \in Positions, n \in {TransferOf[job[w].of].qty} :
               pos' = [pos EXCEPT ![x] = Taken(x, n), ![y] = Added(y, n)]
      BY <1>1 DEF MoveStock, Stored, Existing, Destination
    <2>2. /\ Taken(x, n).status = pos[x].status
          /\ Added(y, n).status = IF pos[y].status = "absent" THEN "available" ELSE pos[y].status
      BY DEF Taken, Added
    <2> HIDE DEF TypeOK
    <2>3. pos'[p] = IF p = y THEN Added(y, n) ELSE IF p = x THEN Taken(x, n) ELSE pos[p]
      BY <2>1 DEF TypeOK
    <2> QED BY <2>2, <2>3
  <1>2. CASE IssueGoods(w)
    <2>1. PICK x \in Positions, n \in {DispositionOf[job[w].of].qty} : pos' = [pos EXCEPT ![x] = Taken(x, n)]
      BY <1>2 DEF IssueGoods, Stored, Existing
    <2>2. Taken(x, n).status = pos[x].status
      BY DEF Taken
    <2> HIDE DEF TypeOK
    <2>3. pos'[p] = IF p = x THEN Taken(x, n) ELSE pos[p]
      BY <2>1 DEF TypeOK
    <2> QED BY <2>2, <2>3
  <1> QED BY <1>1, <1>2

LEMMA ReleasedDecides ==
  ASSUME TypeOK, NEW h \in Holds, Released(h), NEW p \in Positions, Freed(p)
  PROVE  Decided(p)
PROOF
  <1>1. p \in Frees(h)
    BY StatusAfter DEF Released, Freed
  <1>2. hold'[h] = "released"
    BY DEF Released, TypeOK
  <1> QED BY <1>1, <1>2 DEF Decided

LEMMA FreedIsDecided ==
  ASSUME IInv, [Next]_vars, NEW p \in Positions, Freed(p)
  PROVE  Decided(p)
PROOF
  <1>0. TypeOK
    BY DEF IInv
  <1>1. pos' # pos
    BY DEF Freed
  <1>2. PICK w \in Workers : Request(w) \/ Continue(w)
    BY <1>1 DEF Next, Fail, vars, data
  <1>3. CASE \E h \in Holds : Blocked(h)
    BY <1>0, <1>3, StatusAfter DEF Blocked, Freed
  <1>4. CASE \E h \in Holds : Released(h)
    BY <1>0, <1>4, ReleasedDecides
  <1>5. CASE MoveStock(w) \/ IssueGoods(w)
    BY <1>0, <1>5, MovementFreesNone
  <1>6. CASE Quarantine(w)
    BY <1>0, <1>6, StatusAfter DEF Quarantine, Freed
  <1>7. CASE AcceptLot(w)
    <2>1. p \in Accepted(job[w].of)
      BY <1>0, <1>7, StatusAfter DEF AcceptLot, Freed
    <2> QED BY <2>1 DEF Accepted, Freed
  <1>8. CASE Finalize(w)
    <2>1. p \in Locked(w)
      BY <1>0, <1>8, StatusAfter DEF Finalize, Freed
    <2>2. Releasing(job[w].of) /\ p \in Stored(DispositionOf[job[w].of].at)
      BY <2>1 DEF Locked
    <2>3. job[w].of \in Dispositions
      BY <1>0, <1>8, JobShapes DEF Finalize, TypeOK
    <2>4. dispo'[job[w].of] = "EXECUTED" /\ job'[w] = Idle
      BY <1>0, <1>8, <2>3 DEF Finalize, Goes, TypeOK
    <2> QED BY <2>2, <2>3, <2>4 DEF Decided, Stored
  <1>9. \/ \E h \in Holds : Blocked(h) \/ Released(h)
        \/ MoveStock(w) \/ IssueGoods(w) \/ Quarantine(w) \/ AcceptLot(w) \/ Finalize(w)
    <2>1. CASE Request(w)
      BY <1>1, <2>1 DEF Request, CreateHold, ReleaseHold, InspectFailed, RequestTransfer, CompleteTransfer,
           Propose, Approve, Execute, CreateNcr, UpdateNcr, InspectPassed, data
    <2>2. CASE Continue(w)
      <3>1. CASE ReleaseItsHold(w)
        <4>1. job[w].of \in Dispositions
          BY <1>0, <3>1, JobShapes DEF ReleaseItsHold, TypeOK
        <4>2. DispositionOf[job[w].of].hold \in Holds /\ Released(DispositionOf[job[w].of].hold)
          BY <1>1, <3>1, <4>1, Types DEF ReleaseItsHold
        <4> QED BY <4>2
      <3>2. CASE RejectLot(w)
        <4>1. job[w].of \in Holds
          BY <1>0, <3>2, JobShapes DEF RejectLot, TypeOK
        <4> QED BY <3>2, <4>1 DEF RejectLot
      <3>3. CASE ~ReleaseItsHold(w) /\ ~RejectLot(w)
        BY <1>1, <2>2, <3>3 DEF Continue, RefuseMove, SaveTransfer, SaveApproval, UpdatePositions, RefuseIssue,
             CloseNcr, data
      <3> QED BY <3>1, <3>2, <3>3
    <2> QED BY <1>2, <2>1, <2>2
  <1> QED BY <1>3, <1>4, <1>5, <1>6, <1>7, <1>8, <1>9

(* Held or quarantined stock becomes available only by the release of a     *)
(* hold that matches it or by a release disposition of its place, for any   *)
(* stock, holds, dispositions and requests.                                 *)
THEOREM Contained == Spec => ContainedUntilDecided
PROOF
  <1>1. IInv /\ [Next]_vars => [\A p \in Positions : Freed(p) => Decided(p)]_vars
    BY FreedIsDecided
  <1> QED BY <1>1, IInvHolds, PTL DEF Spec, ContainedUntilDecided
=============================================================================
