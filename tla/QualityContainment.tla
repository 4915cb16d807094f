-------------------------- MODULE QualityContainment --------------------------
(***************************************************************************)
(* Containment of one suspect part: modules/quality/quality.service.ts and *)
(* the NCRs it closes.  Holds block stock positions, quarantine transfers  *)
(* move them, dispositions release or issue them, incoming inspection      *)
(* frees a lot or holds it.                                                *)
(*                                                                         *)
(* createHold() and releaseHold() are transactions with one UPDATE of the  *)
(* positions and commit at once, as does every movement (Inventory shows   *)
(* what happens inside one).  executeDisposition() opens a transaction and *)
(* then calls services that use connections of their own: what it updated  *)
(* itself stays locked meanwhile, and is lost if a later step fails, while *)
(* what those services did stays.                                          *)
(*                                                                         *)
(* A warehouse stands for a warehouse and a location.  The final           *)
(* inspection, CAPAs, certificates and the event ledger are left out.      *)
(***************************************************************************)
EXTENDS Integers, FiniteSets

CONSTANTS
  Positions,     \* stock positions of the part
  Attribute,     \* warehouse, program, lot and serial number of each
  InitPositions, \* the stock at the start
  Holds, RuleOf, \* ids of holds, and the level and value of each
  Transfers, TransferOf,        \* quarantine transfers and what they ask
  Dispositions, DispositionOf,  \* dispositions and what they propose
  Ncrs,
  Workers,       \* concurrent requests
  None

Field == {"WAREHOUSE", "PROGRAM", "LOT", "SERIAL"}
Value == UNION {{Attribute[p][f] : f \in Field} : p \in Positions}
Warehouses == {Attribute[p]["WAREHOUSE"] : p \in Positions}
Lots == {Attribute[p]["LOT"] : p \in Positions}
Rule == [level : Field \cup {"PART_NUMBER", "BUILDING"}, value : Value \cup {None}]
DispositionType == {"RELEASE", "USE_AS_IS", "SCRAP", "RTV", "REWORK"}

Status == {"available", "hold", "quarantine", "pending_iqc", "absent"}
Position == [onHand : Nat, status : Status]
HoldState == {"none", "active", "released"}
TransferState == {"none", "PENDING", "COMPLETED"}
DispositionState == {"none", "PROPOSED", "APPROVED", "EXECUTED"}
NcrState == {"none", "open", "closed"}

ASSUME ConstantsAssumption ==
  /\ Attribute \in [Positions -> [Field -> Value]]
  /\ InitPositions \in [Positions -> Position]
  /\ RuleOf \in [Holds -> Rule]
  /\ TransferOf \in [Transfers -> [hold : Holds, from : Warehouses, to : Warehouses, qty : Nat \ {0}]]
  /\ DispositionOf \in [Dispositions ->
       [type : DispositionType, at : Warehouses, qty : Nat \ {0},
        hold : Holds \cup {None}, ncr : Ncrs \cup {None}]]
  /\ \A t \in Transfers : TransferOf[t].from # TransferOf[t].to
  /\ None \notin Holds \cup Transfers \cup Dispositions \cup Ncrs \cup Lots

VARIABLES
  pos,         \* committed rows of inventory_positions
  hold,        \* whether each hold is active
  transfer,    \* status of each quarantine transfer
  dispo,       \* status of each disposition
  ncr,         \* status of each NCR
  job,         \* the next step of each request and what it is about
  moved,       \* history: the transfers whose stock has moved
  issued       \* history: how often each disposition has issued its goods

data == <<pos, hold, transfer, dispo, ncr>>
vars == <<data, job, moved, issued>>

Task(at, of) == [at |-> at, of |-> of]
Idle == Task("idle", None)
Job ==
  [at : {"approve", "impact", "ncr", "release", "final"}, of : Dispositions] \cup
  [at : {"move", "complete", "quarantine"}, of : Transfers] \cup
  [at : {"fail"}, of : Holds] \cup [at : {"pass"}, of : Lots] \cup {Idle}

Init ==
  /\ pos = InitPositions
  /\ hold = [h \in Holds |-> "none"]
  /\ transfer = [t \in Transfers |-> "none"]
  /\ dispo = [d \in Dispositions |-> "none"]
  /\ ncr = [n \in Ncrs |-> "none"]
  /\ job = [w \in Workers |-> Idle]
  /\ moved = {}
  /\ issued = [d \in Dispositions |-> 0]

-----------------------------------------------------------------------------
Existing == {p \in Positions : pos[p].status # "absent"}
Stored(warehouse) == {p \in Existing : Attribute[p]["WAREHOUSE"] = warehouse}

Matching(rule, fields) ==
  {p \in Existing : rule.level \in fields => Attribute[p][rule.level] = rule.value}

\* A hold by serial number names its position; its release names none.
Covers(h) == Matching(RuleOf[h], Field)
Frees(h) == Matching(RuleOf[h], Field \ {"SERIAL"})

SetStatus(P, status) ==
  pos' = [p \in Positions |-> IF p \in P THEN [pos[p] EXCEPT !.status = status] ELSE pos[p]]

Releasing(d) == DispositionOf[d].type \in {"RELEASE", "USE_AS_IS"}
Issuing(d) == DispositionOf[d].type \in {"SCRAP", "RTV"}
Midway(w) == job[w].at \in {"ncr", "release", "final"}

\* Mutant: goods are issued in the transaction of the disposition.
LockedIssued(w) == IF Midway(w) THEN Stored(DispositionOf[job[w].of].at) ELSE {}
\* The rows a disposition has updated and not yet committed.
Locked(w) ==
  IF Midway(w) /\ Releasing(job[w].of) THEN Stored(DispositionOf[job[w].of].at) ELSE {}

Unlocked(P) == \A w \in Workers : Locked(w) \cap P = {}

Goes(w, task) == job' = [job EXCEPT ![w] = task]
Unmoved == UNCHANGED <<moved, issued>>

-----------------------------------------------------------------------------
(* createHold() and releaseHold(), which does not ask whether it is active  *)

\* An id nobody has inserted or is about to insert.
Fresh(h) == hold[h] = "none" /\ \A w \in Workers : job[w] # Task("fail", h)

Blocked(h) ==
  /\ Unlocked(Covers(h)) /\ SetStatus(Covers(h), "hold")
  /\ hold' = [hold EXCEPT ![h] = "active"]

CreateHold(w, h) ==
  /\ job[w] = Idle /\ Fresh(h) /\ Blocked(h)
  /\ UNCHANGED <<transfer, dispo, ncr, job>> /\ Unmoved

Released(h) ==
  /\ hold[h] # "none"
  /\ Unlocked(Frees(h)) /\ SetStatus(Frees(h), "available")
  /\ hold' = [hold EXCEPT ![h] = "released"]

ReleaseHold(w, h) ==
  /\ job[w] = Idle /\ Released(h)
  /\ UNCHANGED <<transfer, dispo, ncr, job>> /\ Unmoved

-----------------------------------------------------------------------------
(* recordTransaction(): a movement names no lot, so it may take any         *)

\* Mutant: the quantity is not checked.
EnoughNever(p, qty) == pos[p].status = "available"
MayLeave(p, qty) == qty <= pos[p].onHand /\ pos[p].status = "available"

Destination(warehouse) ==
  IF Stored(warehouse) # {} THEN Stored(warehouse)
  ELSE {p \in Positions : Attribute[p]["WAREHOUSE"] = warehouse}

Taken(p, qty) == [pos[p] EXCEPT !.onHand = pos[p].onHand - qty]
Added(p, qty) == [onHand |-> pos[p].onHand + qty,
                  status |-> IF pos[p].status = "absent" THEN "available" ELSE pos[p].status]

Refused(warehouse, qty) ==
  Stored(warehouse) = {} \/ \E p \in Stored(warehouse) : ~MayLeave(p, qty)

-----------------------------------------------------------------------------
(* Quarantine transfers                                                     *)

RequestTransfer(w, t) ==
  /\ job[w] = Idle /\ transfer[t] = "none" /\ hold[TransferOf[t].hold] # "none"
  /\ transfer' = [transfer EXCEPT ![t] = "PENDING"]
  /\ UNCHANGED <<pos, hold, dispo, ncr, job>> /\ Unmoved

CompleteTransfer(w, t) ==
  /\ job[w] = Idle /\ transfer[t] = "PENDING"
  /\ Goes(w, Task("move", t))
  /\ UNCHANGED data /\ Unmoved

MoveStock(w) ==
  LET t == job[w].of
      x == TransferOf[t]
  IN /\ job[w].at = "move"
     /\ \E p \in Stored(x.from), q \in Destination(x.to) :
          /\ MayLeave(p, x.qty) /\ Unlocked({p, q})
          /\ pos' = [pos EXCEPT ![p] = Taken(p, x.qty), ![q] = Added(q, x.qty)]
     /\ moved' = moved \cup {t}
     /\ Goes(w, Task("complete", t))
     /\ UNCHANGED <<hold, transfer, dispo, ncr, issued>>

\* Mutant: a refused movement is only logged.
RefuseMoveLogged(w) ==
  /\ job[w].at = "move"
  /\ Refused(TransferOf[job[w].of].from, TransferOf[job[w].of].qty)
  /\ Goes(w, Task("complete", job[w].of))
  /\ UNCHANGED data /\ Unmoved

RefuseMove(w) ==
  /\ job[w].at = "move"
  /\ Refused(TransferOf[job[w].of].from, TransferOf[job[w].of].qty)
  /\ Goes(w, Idle)
  /\ UNCHANGED data /\ Unmoved

SaveTransfer(w) ==
  /\ job[w].at = "complete"
  /\ transfer' = [transfer EXCEPT ![job[w].of] = "COMPLETED"]
  /\ Goes(w, Task("quarantine", job[w].of))
  /\ UNCHANGED <<pos, hold, dispo, ncr>> /\ Unmoved

\* Everything at the destination goes into quarantine.
Quarantine(w) ==
  LET P == Stored(TransferOf[job[w].of].to) IN
  /\ job[w].at = "quarantine"
  /\ Unlocked(P) /\ SetStatus(P, "quarantine")
  /\ Goes(w, Idle)
  /\ UNCHANGED <<hold, transfer, dispo, ncr>> /\ Unmoved

-----------------------------------------------------------------------------
(* Dispositions                                                             *)

Propose(w, d) ==
  LET x == DispositionOf[d] IN
  /\ job[w] = Idle /\ dispo[d] = "none"
  /\ x.hold # None => hold[x.hold] # "none"
  /\ x.ncr # None => ncr[x.ncr] # "none"
  /\ dispo' = [dispo EXCEPT ![d] = "PROPOSED"]
  /\ UNCHANGED <<pos, hold, transfer, ncr, job>> /\ Unmoved

Approvable(d) == dispo[d] = "PROPOSED"

Approve(w, d) ==
  /\ job[w] = Idle /\ Approvable(d)
  /\ Goes(w, Task("approve", d))
  /\ UNCHANGED data /\ Unmoved

SaveApproval(w) ==
  /\ job[w].at = "approve"
  /\ dispo' = [dispo EXCEPT ![job[w].of] = "APPROVED"]
  /\ Goes(w, Idle)
  /\ UNCHANGED <<pos, hold, transfer, ncr>> /\ Unmoved

Execute(w, d) ==
  /\ job[w] = Idle /\ dispo[d] = "APPROVED"
  /\ Goes(w, Task("impact", d))
  /\ UNCHANGED data /\ Unmoved

\* A release updates the positions in the open transaction: no one sees it yet.
\* A rework touches none.
UpdatePositions(w) ==
  /\ job[w].at = "impact" /\ ~Issuing(job[w].of)
  /\ Releasing(job[w].of) => Unlocked(Stored(DispositionOf[job[w].of].at))
  /\ Goes(w, Task("ncr", job[w].of))
  /\ UNCHANGED data /\ Unmoved

\* A scrap or a return to the vendor issues the goods, on a connection of its own.
IssueGoods(w) ==
  LET d == job[w].of
      x == DispositionOf[d]
  IN /\ job[w].at = "impact" /\ Issuing(d)
     /\ \E p \in Stored(x.at) :
          /\ MayLeave(p, x.qty) /\ Unlocked({p})
          /\ pos' = [pos EXCEPT ![p] = Taken(p, x.qty)]
     /\ issued' = [issued EXCEPT ![d] = issued[d] + 1]
     /\ Goes(w, Task("ncr", d))
     /\ UNCHANGED <<hold, transfer, dispo, ncr, moved>>

RefuseIssue(w) ==
  /\ job[w].at = "impact" /\ Issuing(job[w].of)
  /\ Refused(DispositionOf[job[w].of].at, DispositionOf[job[w].of].qty)
  /\ Goes(w, Idle)
  /\ UNCHANGED data /\ Unmoved

CloseNcr(w) ==
  LET x == DispositionOf[job[w].of] IN
  /\ job[w].at = "ncr"
  /\ ncr' = IF x.ncr = None THEN ncr ELSE [ncr EXCEPT ![x.ncr] = "closed"]
  /\ Goes(w, Task("release", job[w].of))
  /\ UNCHANGED <<pos, hold, transfer, dispo>> /\ Unmoved

\* releaseHold() waits for the rows this very disposition has locked.
ReleaseItsHold(w) ==
  LET h == DispositionOf[job[w].of].hold IN
  /\ job[w].at = "release"
  /\ IF h = None THEN UNCHANGED <<pos, hold>> ELSE Released(h)
  /\ Goes(w, Task("final", job[w].of))
  /\ UNCHANGED <<transfer, dispo, ncr>> /\ Unmoved

\* The disposition is saved and its transaction commits.
Finalize(w) ==
  /\ job[w].at = "final"
  /\ SetStatus(Locked(w), "available")
  /\ dispo' = [dispo EXCEPT ![job[w].of] = "EXECUTED"]
  /\ Goes(w, Idle)
  /\ UNCHANGED <<hold, transfer, ncr>> /\ Unmoved

-----------------------------------------------------------------------------
(* ncr.service.ts, and the incoming inspection of a lot                     *)

CreateNcr(w, n) ==
  /\ job[w] = Idle /\ ncr[n] = "none"
  /\ ncr' = [ncr EXCEPT ![n] = "open"]
  /\ UNCHANGED <<pos, hold, transfer, dispo, job>> /\ Unmoved

UpdateNcr(w, n, status) ==
  /\ job[w] = Idle /\ ncr[n] # "none"
  /\ ncr' = [ncr EXCEPT ![n] = status]
  /\ UNCHANGED <<pos, hold, transfer, dispo, job>> /\ Unmoved

\* The inspection is saved; what follows from it comes after.
InspectPassed(w, lot) ==
  /\ job[w] = Idle
  /\ Goes(w, Task("pass", lot))
  /\ UNCHANGED data /\ Unmoved

InspectFailed(w, h) ==
  /\ job[w] = Idle /\ Fresh(h) /\ RuleOf[h].level = "LOT"
  /\ Goes(w, Task("fail", h))
  /\ UNCHANGED data /\ Unmoved

\* Mutant: the whole lot is accepted.
AcceptedAll(lot) == {p \in Existing : Attribute[p]["LOT"] = lot}
Accepted(lot) == {p \in Existing : Attribute[p]["LOT"] = lot /\ pos[p].status = "pending_iqc"}

AcceptLot(w) ==
  /\ job[w].at = "pass"
  /\ Unlocked(Accepted(job[w].of)) /\ SetStatus(Accepted(job[w].of), "available")
  /\ Goes(w, Idle)
  /\ UNCHANGED <<hold, transfer, dispo, ncr>> /\ Unmoved

RejectLot(w) ==
  /\ job[w].at = "fail"
  /\ Blocked(job[w].of)
  /\ Goes(w, Idle)
  /\ UNCHANGED <<transfer, dispo, ncr>> /\ Unmoved

-----------------------------------------------------------------------------
Request(w) ==
  \/ \E h \in Holds : CreateHold(w, h) \/ ReleaseHold(w, h) \/ InspectFailed(w, h)
  \/ \E t \in Transfers : RequestTransfer(w, t) \/ CompleteTransfer(w, t)
  \/ \E d \in Dispositions : Propose(w, d) \/ Approve(w, d) \/ Execute(w, d)
  \/ \E n \in Ncrs : CreateNcr(w, n) \/ \E status \in {"open", "closed"} : UpdateNcr(w, n, status)
  \/ \E lot \in Lots : InspectPassed(w, lot)

Continue(w) ==
  \/ MoveStock(w) \/ RefuseMove(w) \/ SaveTransfer(w) \/ Quarantine(w)
  \/ SaveApproval(w)
  \/ UpdatePositions(w) \/ IssueGoods(w) \/ RefuseIssue(w)
  \/ CloseNcr(w) \/ ReleaseItsHold(w) \/ Finalize(w)
  \/ AcceptLot(w) \/ RejectLot(w)

\* The process dies, or a step fails: an open transaction is rolled back.
Fail(w) ==
  /\ job[w] # Idle
  /\ Goes(w, Idle)
  /\ UNCHANGED data /\ Unmoved

Next == \E w \in Workers : Request(w) \/ Continue(w) \/ Fail(w)

Spec == Init /\ [][Next]_vars

\* A request runs as long as it can; a row lock is granted in the order of
\* arrival, so who waits for locks that come and go gets one.
FairSpec == Spec /\ \A w \in Workers : SF_vars(Continue(w))

-----------------------------------------------------------------------------
(* Every row has its type: no movement takes more than a position has.      *)
TypeOK ==
  /\ pos \in [Positions -> Position]
  /\ hold \in [Holds -> HoldState] /\ transfer \in [Transfers -> TransferState]
  /\ dispo \in [Dispositions -> DispositionState] /\ ncr \in [Ncrs -> NcrState]
  /\ job \in [Workers -> Job]
  /\ moved \subseteq Transfers /\ issued \in [Dispositions -> Nat]

(* Whatever fails midway and whatever runs beside it, a disposition that    *)
(* says executed has released its hold and issued its goods, and a transfer *)
(* that says completed has moved its stock (executeDisposition,             *)
(* completeQuarantineTransfer: the record is saved last).                   *)
RecordsSavedLast ==
  /\ \A d \in Dispositions : dispo[d] = "EXECUTED" =>
       /\ DispositionOf[d].hold # None => hold[DispositionOf[d].hold] = "released"
       /\ Issuing(d) => issued[d] > 0
  /\ \A t \in Transfers : transfer[t] = "COMPLETED" => t \in moved

Freed(p) == pos[p].status \in {"hold", "quarantine"} /\ pos'[p].status = "available"

Decided(p) ==
  \/ \E h \in Holds : hold'[h] = "released" /\ p \in Frees(h)
  \/ \E d \in Dispositions :
       /\ dispo'[d] = "EXECUTED" /\ Releasing(d)
       /\ Attribute[p]["WAREHOUSE"] = DispositionOf[d].at
       /\ \E w \in Workers : job[w].of = d /\ job'[w] = Idle

(* Nothing that is held or quarantined becomes available but by the release *)
(* of a hold that matches it or by a release disposition of its place:      *)
(* neither an inspection that passes nor a movement into the position frees *)
(* it (recordIqcInspection, recordTransaction).  A movement is one step     *)
(* here: one that a hold overtakes saves its old copy over it, which        *)
(* Inventory models (HoldsStay).                                            *)
ContainedUntilDecided == [][\A p \in Positions : Freed(p) => Decided(p)]_vars

\* A release disposition about to call releaseHold() on another connection.
Waiting(w) ==
  job[w].at = "release" /\ Releasing(job[w].of) /\ DispositionOf[job[w].of].hold # None

(* Every request comes to an end, unless a release waits for its own hold:  *)
(* no other requests block each other for ever (executeDisposition and      *)
(* releaseHold use two connections).                                        *)
RequestsEnd ==
  \A w \in Workers : (job[w] # Idle) ~> (job[w] = Idle \/ \E v \in Workers : Waiting(v))
=============================================================================
