--------------------------- MODULE InventoryProofs ---------------------------
(***************************************************************************)
(* TLAPS proofs about Inventory, for any number of clients, places, rows   *)
(* and requests in any interleaving: type correctness, no negative stock,  *)
(* the ledger that explains every row nobody saved from a stale copy, and  *)
(* supplies that move what they were asked.  When requests do not overlap: *)
(* holds that block and stay, and the refinement of StockLedger.           *)
(***************************************************************************)
EXTENDS Inventory, FunctionSums, TLAPS

\* What a request in flight holds.
InFlightOK ==
  \A p \in Clients :
    /\ pc[p] \in {"source", "saveSource", "dest", "saveDest", "commit"} => dto[p] \in Dto
    /\ pc[p] \in {"saveSource", "saveDest"} => cur[p] \in Entity
    /\ pc[p] = "saveSource" => cur[p].row \in RowIds
    /\ pc[p] = "saveDest" => dto[p].to \in Places
    /\ pc[p] = "supplying" => supply[p] # Nothing

\* A candidate of a supply was a row when it was read, and rows are not deleted.
CandidatesLive ==
  \A p \in Clients : supply[p] # Nothing =>
    \A r \in RowIds : supply[p].spare[r] > 0 => rows[r] # NoRow

TypeInv == TypeOK /\ InFlightOK /\ CandidatesLive

LEMMA OverlayType ==
  ASSUME TypeOK, NEW p \in Clients
  PROVE  /\ Overlay(p) \in [RowIds -> Row \cup {NoRow}]
         /\ View(p) = Overlay(p)
         /\ \A r \in RowIds : rows[r] # NoRow => Overlay(p)[r] # NoRow
<1>1. ASSUME NEW r \in RowIds, pending[p][r] # Clean
      PROVE  pending[p][r].row \in Row
  BY <1>1 DEF TypeOK, Write
<1> QED BY <1>1, ConstantsAssumption DEF Overlay, View, TypeOK

\* save() leaves a well-formed uncommitted write on one row.
LEMMA SaveType ==
  ASSUME TypeOK, NEW p \in Clients, NEW r \in RowIds, NEW ent \in Row,
         NEW delta \in Int, NEW hold \in Status, Save(p, r, ent, delta, hold)
  PROVE  pending' \in [Clients -> [RowIds -> Write \cup {Clean}]]
<1> DEFINE new == [ent EXCEPT !.onHand = ent.onHand + delta, !.hold = hold]
           leg == delta + (IF pending[p][r] = Clean THEN 0 ELSE pending[p][r].leg)
           stale == \/ View(p)[r] # NoRow /\ View(p)[r].onHand # ent.onHand
                    \/ pending[p][r] # Clean /\ pending[p][r].stale
<1>1. new \in Row
  <2>1. ent.onHand + delta \in Int
    BY DEF Row
  <2> QED BY <2>1 DEF Row
<1>2. leg \in Int
  BY DEF TypeOK, Write
<1>3. stale \in BOOLEAN
  BY DEF TypeOK, Write
<1>4. pending' = [pending EXCEPT ![p][r] = [row |-> new, leg |-> leg, stale |-> stale]]
  BY DEF Save
<1> HIDE DEF new, leg, stale
<1>5. [row |-> new, leg |-> leg, stale |-> stale] \in Write
  BY <1>1, <1>2, <1>3 DEF Write
<1> QED BY <1>4, <1>5 DEF TypeOK

LEMMA TypeInit == Init => TypeInv
<1> SUFFICES ASSUME Init PROVE TypeInv
  OBVIOUS
<1>1. booked \in [RowIds -> Int]
  BY ConstantsAssumption DEF Init, Row
<1>2. 0 \in 0 .. MaxJobs
  BY ConstantsAssumption
<1> QED BY <1>1, <1>2, ConstantsAssumption
        DEF Init, TypeInv, TypeOK, InFlightOK, CandidatesLive, NoWrites

LEMMA RolledBackType ==
  ASSUME TypeInv, NEW p \in Clients, RolledBack(p)
  PROVE  TypeInv'
BY DEF TypeInv, TypeOK, InFlightOK, CandidatesLive, RolledBack, Goes, NoWrites

LEMMA ReadStepsType ==
  ASSUME TypeInv, NEW p \in Clients, ReadSource(p) \/ ReadDest(p)
  PROVE  TypeInv'
<1> USE DEF TypeInv, TypeOK, InFlightOK, CandidatesLive, Goes
<1>1. \A r \in RowIds : View(p)[r] \in Row \cup {NoRow}
  BY OverlayType
<1>2. CASE ReadSource(p)
  <2>1. \A r \in Matching(p, dto[p].from, dto[p].lot) :
          [row |-> r, ent |-> View(p)[r]] \in Entity /\ r \in RowIds
    BY <1>1 DEF Matching, Entity
  <2>2. CASE dto[p].from = NoPlace
    BY <1>2, <2>2 DEF ReadSource
  <2>3. CASE dto[p].from # NoPlace
    <3>1. PICK r \in Matching(p, dto[p].from, dto[p].lot) :
            cur' = [cur EXCEPT ![p] = [row |-> r, ent |-> View(p)[r]]]
      BY <1>2, <2>3 DEF ReadSource
    <3>2. PICK e : e = [row |-> r, ent |-> View(p)[r]]
      OBVIOUS
    <3>3. e \in Entity /\ e.row \in RowIds
      BY <2>1, <3>2
    <3> QED BY <1>2, <2>3, <3>1, <3>2, <3>3 DEF ReadSource
  <2> QED BY <2>2, <2>3
<1>3. CASE ReadDest(p)
  <2>1. CASE dto[p].to = NoPlace
    BY <1>3, <2>1 DEF ReadDest
  <2>2. CASE dto[p].to # NoPlace
    <3>1. dto[p] \in Dto /\ dto[p].to \in Places
      BY <1>3, <2>2 DEF ReadDest, Dto
    <3>2. NewPosition(dto[p]) \in Row
      BY <3>1 DEF NewPosition, Given, Row, Dto, Status
    <3>3. \A r \in Matching(p, dto[p].to, dto[p].lot) :
            [row |-> r, ent |-> View(p)[r]] \in Entity
      BY <1>1 DEF Matching, Entity
    <3>4. [row |-> NoRow, ent |-> NewPosition(dto[p])] \in Entity
      BY <3>2 DEF Entity
    <3>5. PICK e \in Entity : cur' = [cur EXCEPT ![p] = e]
      BY <1>3, <2>2, <3>3, <3>4 DEF ReadDest
    <3> QED BY <1>3, <2>2, <3>1, <3>5 DEF ReadDest
  <2> QED BY <2>1, <2>2
<1> QED BY <1>2, <1>3

LEMMA SaveStepsType ==
  ASSUME TypeInv, NEW p \in Clients, SaveSource(p) \/ SaveDest(p)
  PROVE  TypeInv'
<1> USE DEF TypeInv, TypeOK, InFlightOK, CandidatesLive, Goes
<1>1. cur[p] \in Entity /\ dto[p] \in Dto
  BY DEF SaveSource, SaveDest
<1>2. /\ cur[p].ent \in Row /\ cur[p].ent.hold \in Status
      /\ dto[p].qty \in Int /\ -dto[p].qty \in Int
      /\ Given(dto[p].hold, cur[p].ent.hold) \in Status
  BY <1>1 DEF Entity, Row, Dto, Given
<1>3. pending' \in [Clients -> [RowIds -> Write \cup {Clean}]]
  <2>1. CASE SaveSource(p)
    BY <2>1, <1>2, SaveType DEF SaveSource
  <2>2. CASE SaveDest(p)
    BY <2>2, <1>2, SaveType DEF SaveDest
  <2> QED BY <2>1, <2>2
<1> QED BY <1>3 DEF SaveSource, SaveDest

LEMMA CommitType ==
  ASSUME TypeInv, NEW p \in Clients, Commit(p)
  PROVE  TypeInv'
<1> USE DEF TypeInv
<1>1. /\ rows' \in [RowIds -> Row \cup {NoRow}]
      /\ \A r \in RowIds : rows[r] # NoRow => rows'[r] # NoRow
  BY OverlayType DEF Commit
<1>2. booked' \in [RowIds -> Int]
  <2>1. \A r \in Written(p) : pending[p][r].leg \in Int
    BY DEF Written, TypeOK, Write
  <2> QED BY <2>1 DEF Commit, TypeOK
<1>3. raced' \subseteq RowIds
  BY DEF Commit, TypeOK, Written
<1>4. /\ supply'[p] # Nothing => supply'[p] \in Job /\ supply'[p].spare = supply[p].spare
                                 /\ supply[p] # Nothing
      /\ \A q \in Clients \ {p} : supply'[q] = supply[q]
      /\ pc'[p] \in {"idle", "supplying"}
      /\ pc'[p] = "supplying" => supply'[p] # Nothing
      /\ \A q \in Clients \ {p} : pc'[q] = pc[q]
  <2>1. CASE supply[p] = Nothing
    BY <2>1 DEF Commit, Goes, TypeOK
  <2>2. CASE supply[p] # Nothing
    <3>1. dto[p].qty \in Nat /\ supply[p] \in Job
      BY <2>2 DEF Commit, InFlightOK, TypeOK, Dto
    <3>2. PICK j : j = [supply[p] EXCEPT !.moved = supply[p].moved + dto[p].qty]
      OBVIOUS
    <3>3. j \in Job /\ j.spare = supply[p].spare
      BY <3>1, <3>2 DEF Job
    <3>4. /\ supply' = [supply EXCEPT ![p] = j]
          /\ pc' = [pc EXCEPT ![p] = "supplying"]
      BY <2>2, <3>2 DEF Commit, Goes
    <3> QED BY <2>2, <3>3, <3>4, MarkerAssumption DEF TypeOK
  <2> QED BY <2>1, <2>2
<1>5. supply' \in [Clients -> Job \cup {Nothing}]
  BY <1>4 DEF Commit, TypeOK
<1>6. /\ pending' \in [Clients -> [RowIds -> Write \cup {Clean}]]
      /\ dto' = [dto EXCEPT ![p] = Nothing]
      /\ dto' \in [Clients -> Dto \cup {Nothing}]
      /\ UNCHANGED <<cur, jobs>>
  BY DEF Commit, TypeOK, NoWrites
<1>7. pc' \in [Clients -> {"idle", "source", "saveSource", "dest", "saveDest",
                           "commit", "supplying"}]
  BY <1>4 DEF Commit, Goes, TypeOK
<1>8. TypeOK'
  BY <1>1, <1>2, <1>3, <1>5, <1>6, <1>7 DEF TypeOK
<1>9. InFlightOK'
  BY <1>4, <1>6 DEF InFlightOK, TypeOK
<1>10. CandidatesLive'
  <2>1. ASSUME NEW q \in Clients, supply'[q] # Nothing,
               NEW r \in RowIds, supply'[q].spare[r] > 0
        PROVE  rows'[r] # NoRow
    <3>1. supply[q] # Nothing /\ supply'[q].spare = supply[q].spare
      BY <1>4, <2>1
    <3>2. rows[r] # NoRow
      BY <2>1, <3>1 DEF CandidatesLive
    <3> QED BY <1>1, <3>2
  <2> QED BY <2>1 DEF CandidatesLive
<1> QED BY <1>8, <1>9, <1>10

LEMMA BeginType ==
  ASSUME TypeInv, NEW p \in Clients, NEW args \in Transactions, Begin(p, args)
  PROVE  TypeInv'
<1>1. args \in Dto /\ jobs' \in 0 .. MaxJobs
  BY ConstantsAssumption DEF Begin, Starts, TypeInv, TypeOK
<1> QED BY <1>1
  DEF TypeInv, TypeOK, InFlightOK, CandidatesLive, Begin, Starts, Goes

LEMMA BeginSupplyType ==
  ASSUME TypeInv, NEW p \in Clients, NEW args \in Supplies, BeginSupply(p, args)
  PROVE  TypeInv'
<1> DEFINE spare == [r \in RowIds |-> IF r \in Candidates THEN rows[r].onHand ELSE 0]
           job == [to |-> args.to, asked |-> args.qty, left |-> args.qty,
                   moved |-> 0, spare |-> spare]
<1>1. /\ args.to \in LinePlaces /\ args.qty \in Nat
      /\ jobs' \in 0 .. MaxJobs
  BY ConstantsAssumption DEF BeginSupply, Starts, TypeInv, TypeOK
<1>2. \A r \in Candidates : r \in RowIds /\ rows[r] # NoRow /\ rows[r].onHand \in Nat \ {0}
  BY DEF Candidates, TypeInv, TypeOK, Row
<1>3. /\ spare \in [RowIds -> Nat]
      /\ \A r \in RowIds : spare[r] > 0 => rows[r] # NoRow
  BY <1>2
<1>4. job \in Job /\ job.spare = spare
  BY <1>1, <1>3 DEF Job
<1>5. /\ supply' = [supply EXCEPT ![p] = job]
      /\ pc' = [pc EXCEPT ![p] = "supplying"]
      /\ UNCHANGED <<rows, pending, dto, cur, booked, raced>>
  BY DEF BeginSupply, Goes
<1> HIDE DEF job, spare
<1>6. TypeOK' /\ InFlightOK'
  BY <1>1, <1>4, <1>5, MarkerAssumption DEF TypeInv, TypeOK, InFlightOK
<1>7. CandidatesLive'
  BY <1>3, <1>4, <1>5 DEF TypeInv, TypeOK, CandidatesLive
<1> QED BY <1>6, <1>7 DEF TypeInv

LEMMA NextTakeType ==
  ASSUME TypeInv, NEW p \in Clients, NextTake(p)
  PROVE  TypeInv'
<1>1. supply[p] \in Job
  BY DEF NextTake, TypeInv, TypeOK, InFlightOK
<1>2. supply[p].spare \in [RowIds -> Nat]
  BY <1>1 DEF Job
<1>3. PICK r \in RowIds : LET qty == Take(supply[p].left, supply[p].spare[r]) IN
        /\ supply[p].spare[r] > 0
        /\ dto' = [dto EXCEPT ![p] =
             [from |-> rows[r].place, to |-> supply[p].to, lot |-> NoLot,
              qty |-> qty, hold |-> Unset]]
        /\ supply' = [supply EXCEPT ![p].left = supply[p].left - qty,
                                    ![p].spare = [supply[p].spare EXCEPT ![r] = 0]]
  BY DEF NextTake
<1>4. PICK qty : qty = Take(supply[p].left, supply[p].spare[r])
  OBVIOUS
<1>5. /\ supply[p].left \in Nat /\ supply[p].left > 0
      /\ qty \in Nat \ {0} /\ supply[p].left - qty \in Nat
  BY <1>1, <1>2, <1>3, <1>4 DEF NextTake, Take, Job
<1>6. PICK args : args = [from |-> rows[r].place, to |-> supply[p].to,
                          lot |-> NoLot, qty |-> qty, hold |-> Unset]
  OBVIOUS
<1>7. args \in Dto
  <2>1. rows[r] \in Row
    <3>1. supply[p] # Nothing /\ supply[p].spare[r] > 0
      BY <1>1, <1>3, MarkerAssumption
    <3> QED BY <3>1 DEF TypeInv, TypeOK, CandidatesLive
  <2>2. rows[r].place \in Places /\ supply[p].to \in Places
    BY <2>1, <1>1, ConstantsAssumption DEF Row, Job
  <2>3. /\ rows[r].place \in Places \cup {NoPlace} /\ supply[p].to \in Places \cup {NoPlace}
        /\ NoLot \in Lots \cup {NoLot} /\ Unset \in Status \cup {Unset}
    BY <2>2
  <2> QED BY <1>5, <1>6, <2>3 DEF Dto
<1>8. PICK spare : spare = [supply[p].spare EXCEPT ![r] = 0]
  OBVIOUS
<1>9. /\ spare \in [RowIds -> Nat]
      /\ \A s \in RowIds : spare[s] > 0 => supply[p].spare[s] > 0
  BY <1>2, <1>8
<1>10. PICK job : job = [supply[p] EXCEPT !.left = supply[p].left - qty, !.spare = spare]
  OBVIOUS
<1>11. job \in Job /\ job.spare = spare
  BY <1>1, <1>5, <1>9, <1>10 DEF Job
<1>12. /\ dto' = [dto EXCEPT ![p] = args]
       /\ supply' = [supply EXCEPT ![p] = job]
       /\ pc' = [pc EXCEPT ![p] = "source"]
       /\ UNCHANGED <<rows, pending, cur, jobs, booked, raced>>
  BY <1>3, <1>4, <1>6, <1>8, <1>10 DEF NextTake, Goes, TypeInv, TypeOK
<1>13. TypeOK' /\ InFlightOK'
  BY <1>7, <1>11, <1>12 DEF TypeInv, TypeOK, InFlightOK
<1>14. CandidatesLive'
  <2>1. supply[p] # Nothing
    BY <1>1, MarkerAssumption
  <2> QED BY <1>9, <1>11, <1>12, <2>1 DEF TypeInv, TypeOK, CandidatesLive
<1> QED BY <1>13, <1>14 DEF TypeInv

LEMMA SetHoldType ==
  ASSUME TypeInv, NEW place \in Holdable, NEW status \in Status, SetHold(place, status)
  PROVE  TypeInv'
<1>1. \A r \in RowIds : rows[r] # NoRow =>
        rows[r] \in Row /\ [rows[r] EXCEPT !.hold = status] \in Row
  BY DEF TypeInv, TypeOK, Row
<1>2. /\ rows' \in [RowIds -> Row \cup {NoRow}]
      /\ \A r \in RowIds : rows[r] # NoRow => rows'[r] # NoRow
  BY <1>1, ConstantsAssumption DEF SetHold, TypeInv, TypeOK
<1>3. TypeOK' /\ InFlightOK'
  BY <1>2 DEF SetHold, TypeInv, TypeOK, InFlightOK
<1>4. CandidatesLive'
  <2>1. ASSUME NEW q \in Clients, supply[q] # Nothing,
               NEW r \in RowIds, supply[q].spare[r] > 0
        PROVE  rows'[r] # NoRow
    BY <2>1, <1>2 DEF TypeInv, CandidatesLive
  <2> QED BY <2>1 DEF CandidatesLive, SetHold
<1> QED BY <1>3, <1>4 DEF TypeInv

LEMMA TypeStep == TypeInv /\ [Next]_vars => TypeInv'
<1> SUFFICES ASSUME TypeInv, [Next]_vars PROVE TypeInv'
  OBVIOUS
<1>1. ASSUME NEW p \in Clients, EndSupply(p) PROVE TypeInv'
  BY <1>1 DEF EndSupply, Exhausted, Goes, TypeInv, TypeOK, InFlightOK, CandidatesLive
<1>2. ASSUME NEW p \in Clients, RefuseSource(p) \/ DeadlockVictim(p) \/ Fail(p)
      PROVE  TypeInv'
  BY <1>2, RolledBackType DEF RefuseSource, DeadlockVictim, Fail
<1>3. CASE UNCHANGED vars
  BY <1>3 DEF vars, TypeInv, TypeOK, InFlightOK, CandidatesLive
<1>4. ASSUME NEW place \in Holdable, ApplyHold(place) \/ ReleaseHold(place)
      PROVE  TypeInv'
  BY <1>4, SetHoldType DEF ApplyHold, ReleaseHold, Status
<1> QED
  BY <1>1, <1>2, <1>3, <1>4, BeginType, BeginSupplyType, ReadStepsType,
     SaveStepsType, CommitType, NextTakeType DEF Next, Transact

\* Every reachable state of the inventory is well formed, for all clients,
\* places, lots, rows and requests (recordTransaction, transferToLine, holds).
THEOREM TypeCorrect == Spec => []TypeOK
<1>1. TypeInv => TypeOK
  BY DEF TypeInv
<1> QED BY <1>1, TypeInit, TypeStep, PTL DEF Spec
-----------------------------------------------------------------------------
(***************************************************************************)
(* No negative stock: the check of recordTransaction() is about the very   *)
(* copy it saves, so it protects the row even when the copy is stale.      *)
(***************************************************************************)
CopiesOK ==
  \A p \in Clients :
    /\ pc[p] = "saveSource" => cur[p].ent.onHand >= dto[p].qty
    /\ pc[p] = "saveDest" => cur[p].ent.onHand >= 0

LEMMA OverlayNonNegative ==
  ASSUME TypeInv, NonNegative, NEW p \in Clients, NEW r \in RowIds,
         Overlay(p)[r] # NoRow
  PROVE  Overlay(p)[r].onHand >= 0
BY DEF Overlay, NonNegative

\* A save of a quantity that is not negative keeps all stock so.
LEMMA SaveNonNegative ==
  ASSUME TypeInv, NonNegative, NEW p \in Clients, NEW r \in RowIds,
         NEW ent \in Row, NEW delta \in Int, NEW hold \in Status,
         Save(p, r, ent, delta, hold), ent.onHand + delta >= 0, UNCHANGED rows
  PROVE  NonNegative'
<1> DEFINE new == [ent EXCEPT !.onHand = ent.onHand + delta, !.hold = hold]
           write == [row   |-> new,
                     leg   |-> delta + (IF pending[p][r] = Clean THEN 0
                                        ELSE pending[p][r].leg),
                     stale |-> \/ View(p)[r] # NoRow /\ View(p)[r].onHand # ent.onHand
                               \/ pending[p][r] # Clean /\ pending[p][r].stale]
<1>1. PICK w : /\ pending' = [pending EXCEPT ![p][r] = w]
               /\ w.row = new
  <2>1. pending' = [pending EXCEPT ![p][r] = write]
    BY DEF Save
  <2>2. write.row = new
    OBVIOUS
  <2> QED BY <2>1, <2>2
<1>2. new.onHand = ent.onHand + delta
  BY DEF Row
<1> HIDE DEF new
<1> QED BY <1>1, <1>2 DEF NonNegative, TypeInv, TypeOK

LEMMA NonNegativeStep ==
  ASSUME TypeInv, NonNegative, CopiesOK, [Next]_vars
  PROVE  (NonNegative /\ CopiesOK)'
<1>1. ASSUME NEW p \in Clients, ReadSource(p) PROVE (NonNegative /\ CopiesOK)'
  <2>1. NonNegative'
    BY <1>1 DEF ReadSource, NonNegative
  <2>2. CASE dto[p].from = NoPlace
    BY <1>1, <2>2 DEF ReadSource, Goes, CopiesOK, NonNegative, TypeInv, TypeOK
  <2>3. CASE dto[p].from # NoPlace
    <3>1. PICK r \in Matching(p, dto[p].from, dto[p].lot) :
            /\ cur' = [cur EXCEPT ![p] = [row |-> r, ent |-> View(p)[r]]]
            /\ Enough(View(p)[r], dto[p].qty)
      BY <1>1, <2>3 DEF ReadSource
    <3>2. PICK e : e = [row |-> r, ent |-> View(p)[r]]
      OBVIOUS
    <3>3. cur' = [cur EXCEPT ![p] = e] /\ Enough(e.ent, dto[p].qty)
      BY <3>1, <3>2
    <3> QED BY <1>1, <2>1, <2>3, <3>3
        DEF ReadSource, Goes, Enough, CopiesOK, TypeInv, TypeOK
  <2> QED BY <2>2, <2>3
<1>2. ASSUME NEW p \in Clients, ReadDest(p) PROVE (NonNegative /\ CopiesOK)'
  <2>1. NonNegative'
    BY <1>2 DEF ReadDest, NonNegative
  <2>2. CASE dto[p].to = NoPlace
    BY <1>2, <2>1, <2>2 DEF ReadDest, Goes, CopiesOK, TypeInv, TypeOK
  <2>3. CASE dto[p].to # NoPlace
    <3>1. PICK e : cur' = [cur EXCEPT ![p] = e] /\ e.ent.onHand >= 0
      <4>1. \A r \in Matching(p, dto[p].to, dto[p].lot) : View(p)[r].onHand >= 0
        BY OverlayNonNegative DEF Matching, View
      <4>2. NewPosition(dto[p]).onHand >= 0
        BY DEF NewPosition
      <4>3. CASE \E r \in Matching(p, dto[p].to, dto[p].lot) :
                   cur' = [cur EXCEPT ![p] = [row |-> r, ent |-> View(p)[r]]]
        <5>1. PICK r \in Matching(p, dto[p].to, dto[p].lot) :
                cur' = [cur EXCEPT ![p] = [row |-> r, ent |-> View(p)[r]]]
          BY <4>3
        <5>2. [row |-> r, ent |-> View(p)[r]].ent.onHand >= 0
          BY <4>1
        <5> QED BY <5>1, <5>2
      <4>4. CASE cur' = [cur EXCEPT ![p] = [row |-> NoRow, ent |-> NewPosition(dto[p])]]
        <5>1. [row |-> NoRow, ent |-> NewPosition(dto[p])].ent.onHand >= 0
          BY <4>2
        <5> QED BY <4>4, <5>1
      <4> QED BY <1>2, <2>3, <4>3, <4>4 DEF ReadDest
    <3> QED BY <1>2, <2>1, <2>3, <3>1 DEF ReadDest, Goes, CopiesOK, TypeInv, TypeOK
  <2> QED BY <2>2, <2>3
<1>3. ASSUME NEW p \in Clients, SaveSource(p) PROVE (NonNegative /\ CopiesOK)'
  <2>1. /\ cur[p] \in Entity /\ cur[p].row \in RowIds /\ dto[p] \in Dto
        /\ cur[p].ent.onHand >= dto[p].qty
    BY <1>3 DEF SaveSource, TypeInv, InFlightOK, CopiesOK
  <2>2. /\ cur[p].ent \in Row /\ cur[p].ent.hold \in Status
        /\ -dto[p].qty \in Int /\ cur[p].ent.onHand + (-dto[p].qty) >= 0
    BY <2>1 DEF Entity, Row, Dto
  <2>3. NonNegative'
    BY <1>3, <2>1, <2>2, SaveNonNegative DEF SaveSource
  <2> QED BY <1>3, <2>3 DEF SaveSource, Goes, CopiesOK, TypeInv, TypeOK
<1>4. ASSUME NEW p \in Clients, SaveDest(p) PROVE (NonNegative /\ CopiesOK)'
  <2>1. cur[p] \in Entity /\ dto[p] \in Dto /\ cur[p].ent.onHand >= 0
    BY <1>4 DEF SaveDest, TypeInv, InFlightOK, CopiesOK
  <2>2. /\ cur[p].ent \in Row /\ Given(dto[p].hold, cur[p].ent.hold) \in Status
        /\ dto[p].qty \in Int /\ cur[p].ent.onHand + dto[p].qty >= 0
    BY <2>1 DEF Entity, Row, Dto, Given
  <2>3. NonNegative'
    BY <1>4, <2>2, SaveNonNegative DEF SaveDest
  <2> QED BY <1>4, <2>3 DEF SaveDest, Goes, CopiesOK, TypeInv, TypeOK
<1>5. ASSUME NEW p \in Clients, Commit(p) PROVE (NonNegative /\ CopiesOK)'
  <2>1. \A r \in RowIds : Overlay(p)[r] # NoRow => Overlay(p)[r].onHand >= 0
    BY OverlayNonNegative
  <2>2. pc'[p] \in {"idle", "supplying"} /\ \A q \in Clients \ {p} : pc'[q] = pc[q]
    BY <1>5 DEF Commit, Goes, TypeInv, TypeOK
  <2>3. NonNegative'
    BY <1>5, <2>1 DEF Commit, NonNegative, NoWrites, TypeInv, TypeOK
  <2>4. CopiesOK'
    BY <1>5, <2>2 DEF Commit, CopiesOK, TypeInv, TypeOK
  <2> QED BY <2>3, <2>4
<1>6. ASSUME NEW p \in Clients, RolledBack(p) PROVE (NonNegative /\ CopiesOK)'
  BY <1>6 DEF RolledBack, Goes, NoWrites, NonNegative, CopiesOK, TypeInv, TypeOK
<1>7. ASSUME NEW place \in Holdable, NEW status \in Status, SetHold(place, status)
      PROVE  (NonNegative /\ CopiesOK)'
  BY <1>7 DEF SetHold, NonNegative, CopiesOK, TypeInv, TypeOK, Row
<1>8. ASSUME NEW p \in Clients, NEW args \in Transactions, Begin(p, args)
      PROVE  (NonNegative /\ CopiesOK)'
  BY <1>8 DEF Begin, Starts, Goes, NonNegative, CopiesOK, TypeInv, TypeOK
<1>9. ASSUME NEW p \in Clients, NEW args \in Supplies, BeginSupply(p, args)
      PROVE  (NonNegative /\ CopiesOK)'
  BY <1>9 DEF BeginSupply, Starts, Goes, NonNegative, CopiesOK, TypeInv, TypeOK
<1>10. ASSUME NEW p \in Clients, NextTake(p) \/ EndSupply(p)
       PROVE  (NonNegative /\ CopiesOK)'
  BY <1>10 DEF NextTake, EndSupply, Exhausted, Goes, NonNegative, CopiesOK, TypeInv, TypeOK
<1>11. CASE UNCHANGED vars
  BY <1>11 DEF vars, NonNegative, CopiesOK
<1> QED
  BY <1>1, <1>2, <1>3, <1>4, <1>5, <1>6, <1>7, <1>8, <1>9, <1>10, <1>11
     DEF Next, Transact, RefuseSource, DeadlockVictim, Fail, ApplyHold, ReleaseHold, Status

\* Stock is never negative, in any interleaving of any number of requests,
\* failures and holds (the check and the saves of recordTransaction).
THEOREM StockNeverNegative == Spec => []NonNegative
<1>1. Init => NonNegative /\ CopiesOK
  BY ConstantsAssumption DEF Init, NonNegative, CopiesOK, NoWrites
<1>2. TypeInv /\ NonNegative /\ CopiesOK /\ [Next]_vars => (NonNegative /\ CopiesOK)'
  BY NonNegativeStep
<1> QED BY <1>1, <1>2, TypeInit, TypeStep, PTL DEF Spec
-----------------------------------------------------------------------------
(***************************************************************************)
(* The ledger: an uncommitted write of a row, unless it is stale, holds    *)
(* what the ledger will say once it is committed.  It rests on the row     *)
(* locks of the database: one request at a time writes a row.              *)
(***************************************************************************)
RowLocks ==
  \A p, q \in Clients, r \in RowIds :
    pending[p][r] # Clean /\ pending[q][r] # Clean => p = q

UnbookedWithoutRow == \A r \in RowIds : rows[r] = NoRow => booked[r] = 0

WritesExplained ==
  \A p \in Clients, r \in RowIds :
    pending[p][r] # Clean /\ ~ pending[p][r].stale /\ r \notin raced
      => pending[p][r].row.onHand = booked[r] + pending[p][r].leg

\* The copy a request holds is of a row it still sees, or of a new row.
CopiesLive ==
  \A p \in Clients :
    /\ pc[p] \in {"saveSource", "saveDest"} /\ cur[p].row # NoRow
         => View(p)[cur[p].row] # NoRow
    /\ pc[p] = "saveDest" /\ cur[p].row = NoRow => cur[p].ent.onHand = 0

LedgerInv ==
  LedgerExplains /\ RowLocks /\ UnbookedWithoutRow /\ WritesExplained /\ CopiesLive

\* A save of the copy a request holds, by the holder of the row's lock.
LEMMA SaveLedger ==
  ASSUME TypeInv, LedgerInv, NEW p \in Clients, NEW r \in RowIds,
         NEW ent \in Row, NEW delta \in Int, NEW hold \in Status,
         Save(p, r, ent, delta, hold), Unlocked(p, r),
         \/ View(p)[r] # NoRow
         \/ Fresh(r) /\ ent.onHand = 0,
         UNCHANGED <<rows, booked, raced>>,
         pc'[p] \notin {"saveSource", "saveDest"},
         \A q \in Clients \ {p} : pc'[q] = pc[q] /\ cur'[q] = cur[q]
  PROVE  LedgerInv'
<1> DEFINE new == [ent EXCEPT !.onHand = ent.onHand + delta, !.hold = hold]
           leg == delta + (IF pending[p][r] = Clean THEN 0 ELSE pending[p][r].leg)
           stale == \/ View(p)[r] # NoRow /\ View(p)[r].onHand # ent.onHand
                    \/ pending[p][r] # Clean /\ pending[p][r].stale
<1>1. new \in Row /\ new.onHand = ent.onHand + delta
  <2>1. ent.onHand + delta \in Int
    BY DEF Row
  <2> QED BY <2>1 DEF Row
<1>2. leg \in Int /\ stale \in BOOLEAN
  BY DEF TypeInv, TypeOK, Write
<1>3. ~ stale /\ r \notin raced => new.onHand = booked[r] + leg
  <2>1. ASSUME ~ stale, r \notin raced PROVE new.onHand = booked[r] + leg
    <3>1. ent.onHand \in Int /\ booked[r] \in Int
      BY DEF Row, TypeInv, TypeOK
    <3>2. CASE pending[p][r] # Clean
      <4>1. /\ View(p)[r] = pending[p][r].row /\ View(p)[r] # NoRow
            /\ pending[p][r].leg \in Int /\ ~ pending[p][r].stale
        BY <3>2, <2>1, ConstantsAssumption
           DEF View, Overlay, Fresh, TypeInv, TypeOK, Write
      <4>2. ent.onHand = booked[r] + pending[p][r].leg
        BY <4>1, <3>2, <2>1 DEF LedgerInv, WritesExplained
      <4> QED BY <3>1, <3>2, <4>1, <4>2, <1>1
    <3>3. CASE pending[p][r] = Clean
      <4>1. View(p)[r] = rows[r]
        BY <3>3 DEF View, Overlay
      <4>2. ent.onHand = booked[r]
        BY <4>1, <2>1 DEF LedgerInv, LedgerExplains, UnbookedWithoutRow, Fresh
      <4> QED BY <3>1, <3>3, <4>2, <1>1
    <3> QED BY <3>2, <3>3
  <2> QED BY <2>1
<1>4. pending' = [pending EXCEPT ![p][r] = [row |-> new, leg |-> leg, stale |-> stale]]
  BY DEF Save
<1> HIDE DEF new, leg, stale
<1>5. PICK w : w = [row |-> new, leg |-> leg, stale |-> stale]
  OBVIOUS
<1>6. /\ w \in Write
      /\ ~ w.stale /\ r \notin raced => w.row.onHand = booked[r] + w.leg
  BY <1>1, <1>2, <1>3, <1>5 DEF Write
<1>7. /\ pending'[p][r] = w
      /\ \A q \in Clients, s \in RowIds :
           q # p \/ s # r => pending'[q][s] = pending[q][s]
  BY <1>4, <1>5 DEF TypeInv, TypeOK
<1>8. RowLocks'
  BY <1>7 DEF LedgerInv, RowLocks, Unlocked
<1>9. WritesExplained'
  BY <1>6, <1>7 DEF LedgerInv, WritesExplained
<1>10. CopiesLive'
  <2>1. \A q \in Clients \ {p} : View(q)' = View(q)
    BY <1>7 DEF View, Overlay
  <2> QED BY <2>1 DEF LedgerInv, CopiesLive
<1> QED BY <1>8, <1>9, <1>10 DEF LedgerInv, LedgerExplains, UnbookedWithoutRow

LEMMA RolledBackLedger ==
  ASSUME TypeInv, LedgerInv, NEW p \in Clients, RolledBack(p)
  PROVE  LedgerInv'
<1>1. /\ \A r \in RowIds : pending'[p][r] = Clean
      /\ \A q \in Clients \ {p} : pending'[q] = pending[q]
      /\ UNCHANGED <<rows, booked, raced>>
      /\ pc'[p] = "idle"
      /\ \A q \in Clients \ {p} : pc'[q] = pc[q] /\ cur'[q] = cur[q]
  BY DEF RolledBack, Goes, NoWrites, TypeInv, TypeOK
<1>2. \A q \in Clients \ {p} : View(q)' = View(q)
  BY <1>1 DEF View, Overlay
<1>3. CopiesLive'
  BY <1>1, <1>2 DEF LedgerInv, CopiesLive
<1>4. RowLocks' /\ WritesExplained'
  BY <1>1 DEF LedgerInv, RowLocks, WritesExplained
<1> QED BY <1>1, <1>3, <1>4 DEF LedgerInv, LedgerExplains, UnbookedWithoutRow

LEMMA CommitLedger ==
  ASSUME TypeInv, LedgerInv, NEW p \in Clients, Commit(p)
  PROVE  LedgerInv'
<1>1. /\ \A r \in RowIds : pending'[p][r] = Clean
      /\ \A q \in Clients \ {p} : pending'[q] = pending[q]
      /\ pc'[p] \in {"idle", "supplying"}
      /\ \A q \in Clients \ {p} : pc'[q] = pc[q]
      /\ UNCHANGED cur
  BY DEF Commit, Goes, NoWrites, TypeInv, TypeOK
<1>2. ASSUME NEW r \in RowIds, pending[p][r] = Clean
      PROVE  /\ rows'[r] = rows[r] /\ booked'[r] = booked[r]
             /\ r \in raced' <=> r \in raced
  BY <1>2 DEF Commit, Overlay, Written, TypeInv, TypeOK
<1>3. ASSUME NEW r \in RowIds, pending[p][r] # Clean
      PROVE  /\ rows'[r] = pending[p][r].row /\ rows'[r] # NoRow
             /\ booked'[r] = booked[r] + pending[p][r].leg
             /\ r \notin raced' => r \notin raced /\ ~ pending[p][r].stale
             /\ \A q \in Clients \ {p} : pending[q][r] = Clean
  <2>1. pending[p][r] \in Write /\ pending[p][r].row \in Row
    BY <1>3 DEF TypeInv, TypeOK, Write
  <2> QED BY <1>3, <2>1, ConstantsAssumption
          DEF Commit, Overlay, Written, LedgerInv, RowLocks
<1>4. RowLocks'
  BY <1>1 DEF LedgerInv, RowLocks
<1>5. UnbookedWithoutRow'
  BY <1>2, <1>3 DEF LedgerInv, UnbookedWithoutRow
<1>6. LedgerExplains'
  <2>1. ASSUME NEW r \in RowIds, r \notin raced', rows'[r] # NoRow
        PROVE  rows'[r].onHand = booked'[r]
    <3>1. CASE pending[p][r] = Clean
      BY <1>2, <2>1, <3>1 DEF LedgerInv, LedgerExplains
    <3>2. CASE pending[p][r] # Clean
      BY <1>3, <2>1, <3>2 DEF LedgerInv, WritesExplained
    <3> QED BY <3>1, <3>2
  <2> QED BY <2>1 DEF LedgerExplains
<1>7. WritesExplained'
  <2>1. ASSUME NEW q \in Clients, NEW r \in RowIds, pending'[q][r] # Clean,
               ~ pending'[q][r].stale, r \notin raced'
        PROVE  pending'[q][r].row.onHand = booked'[r] + pending'[q][r].leg
    <3>1. q # p /\ pending'[q][r] = pending[q][r]
      BY <1>1, <2>1
    <3>2. pending[p][r] = Clean
      BY <1>3, <2>1, <3>1
    <3> QED BY <1>2, <2>1, <3>1, <3>2 DEF LedgerInv, WritesExplained
  <2> QED BY <2>1 DEF WritesExplained
<1>8. CopiesLive'
  <2>1. ASSUME NEW q \in Clients \ {p}, NEW r \in RowIds, View(q)[r] # NoRow
        PROVE  View(q)'[r] # NoRow
    <3>1. View(q)[r] = (IF pending[q][r] = Clean THEN rows[r] ELSE pending[q][r].row)
      BY DEF View, Overlay
    <3>2. View(q)'[r] = (IF pending[q][r] = Clean THEN rows'[r] ELSE pending[q][r].row)
      BY <1>1 DEF View, Overlay
    <3> QED BY <2>1, <3>1, <3>2, <1>2, <1>3
  <2>2. \A q \in Clients : pc[q] \in {"saveSource", "saveDest"} => cur[q] \in Entity
    BY DEF TypeInv, InFlightOK
  <2> QED BY <1>1, <2>1, <2>2 DEF LedgerInv, CopiesLive, Entity
<1> QED BY <1>4, <1>5, <1>6, <1>7, <1>8 DEF LedgerInv

LEMMA SetHoldLedger ==
  ASSUME TypeInv, LedgerInv, NEW place \in Holdable, NEW status \in Status,
         SetHold(place, status)
  PROVE  LedgerInv'
<1>1. \A r \in RowIds :
        /\ rows'[r] = NoRow <=> rows[r] = NoRow
        /\ rows[r] # NoRow => rows'[r].onHand = rows[r].onHand
  <2>1. ASSUME NEW r \in RowIds, rows[r] # NoRow
        PROVE  /\ [rows[r] EXCEPT !.hold = status] # NoRow
               /\ [rows[r] EXCEPT !.hold = status].onHand = rows[r].onHand
    <3>1. rows[r] \in Row
      BY <2>1 DEF TypeInv, TypeOK
    <3>2. [rows[r] EXCEPT !.hold = status] \in Row
      BY <3>1 DEF Row
    <3> QED BY <3>1, <3>2, ConstantsAssumption DEF Row
  <2> QED BY <2>1 DEF SetHold
<1>2. UNCHANGED <<pending, pc, cur, booked, raced>>
  BY DEF SetHold
<1>3. \A q \in Clients, r \in RowIds : View(q)[r] # NoRow => View(q)'[r] # NoRow
  BY <1>1, <1>2 DEF View, Overlay
<1>4. CopiesLive'
  <2>1. \A q \in Clients : pc[q] \in {"saveSource", "saveDest"} => cur[q] \in Entity
    BY DEF TypeInv, InFlightOK
  <2> QED BY <1>2, <1>3, <2>1 DEF LedgerInv, CopiesLive, Entity
<1> QED BY <1>1, <1>2, <1>4
    DEF LedgerInv, LedgerExplains, RowLocks, UnbookedWithoutRow, WritesExplained

\* A step that only moves requests about, and no request to a save.
LEMMA QuietLedger ==
  ASSUME LedgerInv, UNCHANGED <<rows, pending, booked, raced>>,
         \A q \in Clients :
           pc'[q] \in {"saveSource", "saveDest"} => pc'[q] = pc[q] /\ cur'[q] = cur[q]
  PROVE  LedgerInv'
<1>1. \A q \in Clients : View(q)' = View(q)
  BY DEF View, Overlay
<1> QED BY <1>1
    DEF LedgerInv, LedgerExplains, RowLocks, UnbookedWithoutRow, WritesExplained, CopiesLive

\* A read of a position hands the request a live copy.
LEMMA ReadLedger ==
  ASSUME TypeInv, LedgerInv, NEW p \in Clients, NEW e,
         UNCHANGED <<rows, pending, booked, raced>>,
         cur' = [cur EXCEPT ![p] = e],
         \A q \in Clients \ {p} : pc'[q] = pc[q],
         IF e.row = NoRow THEN e.ent.onHand = 0 ELSE View(p)[e.row] # NoRow
  PROVE  LedgerInv'
<1>1. \A q \in Clients : View(q)' = View(q)
  BY DEF View, Overlay
<1>2. cur'[p] = e /\ \A q \in Clients \ {p} : cur'[q] = cur[q]
  BY DEF TypeInv, TypeOK
<1>3. CopiesLive'
  BY <1>1, <1>2 DEF LedgerInv, CopiesLive
<1> QED BY <1>3
    DEF LedgerInv, LedgerExplains, RowLocks, UnbookedWithoutRow, WritesExplained

LEMMA ReadStepsLedger ==
  ASSUME TypeInv, LedgerInv, NEW p \in Clients, ReadSource(p) \/ ReadDest(p)
  PROVE  LedgerInv'
<1>1. /\ UNCHANGED <<rows, pending, booked, raced>>
      /\ \A q \in Clients \ {p} : pc'[q] = pc[q]
  BY DEF ReadSource, ReadDest, Goes, TypeInv, TypeOK
<1>2. CASE UNCHANGED cur /\ pc'[p] \in {"dest", "commit"}
  BY <1>1, <1>2, QuietLedger
<1>3. CASE \E r \in RowIds :
             /\ View(p)[r] # NoRow
             /\ cur' = [cur EXCEPT ![p] = [row |-> r, ent |-> View(p)[r]]]
  <2>1. PICK r \in RowIds : /\ View(p)[r] # NoRow
                            /\ cur' = [cur EXCEPT ![p] = [row |-> r, ent |-> View(p)[r]]]
    BY <1>3
  <2>2. PICK e : e = [row |-> r, ent |-> View(p)[r]]
    OBVIOUS
  <2>3. cur' = [cur EXCEPT ![p] = e] /\ e.row = r
    BY <2>1, <2>2
  <2> QED BY <1>1, <2>1, <2>3, ReadLedger, ConstantsAssumption
<1>4. CASE cur' = [cur EXCEPT ![p] = [row |-> NoRow, ent |-> NewPosition(dto[p])]]
  <2>1. PICK e : e = [row |-> NoRow, ent |-> NewPosition(dto[p])]
    OBVIOUS
  <2>2. cur' = [cur EXCEPT ![p] = e] /\ e.row = NoRow /\ e.ent.onHand = 0
    BY <1>4, <2>1 DEF NewPosition
  <2> QED BY <1>1, <2>2, ReadLedger
<1> QED
  BY <1>2, <1>3, <1>4
     DEF ReadSource, ReadDest, Matching, Goes, TypeInv, TypeOK, InFlightOK, Dto

LEMMA SaveStepsLedger ==
  ASSUME TypeInv, LedgerInv, NEW p \in Clients, SaveSource(p) \/ SaveDest(p)
  PROVE  LedgerInv'
<1>1. /\ cur[p] \in Entity /\ dto[p] \in Dto
      /\ UNCHANGED <<rows, booked, raced>>
  BY DEF SaveSource, SaveDest, TypeInv, InFlightOK
<1>2. /\ cur[p].ent \in Row /\ cur[p].ent.hold \in Status
      /\ dto[p].qty \in Int /\ -dto[p].qty \in Int
      /\ Given(dto[p].hold, cur[p].ent.hold) \in Status
  BY <1>1 DEF Entity, Row, Dto, Given
<1>3. /\ pc'[p] \notin {"saveSource", "saveDest"}
      /\ \A q \in Clients \ {p} : pc'[q] = pc[q] /\ cur'[q] = cur[q]
  BY DEF SaveSource, SaveDest, Goes, TypeInv, TypeOK
<1>4. CASE SaveSource(p)
  <2>1. cur[p].row \in RowIds /\ View(p)[cur[p].row] # NoRow
    BY <1>4, ConstantsAssumption
       DEF SaveSource, TypeInv, InFlightOK, LedgerInv, CopiesLive
  <2>2. /\ Unlocked(p, cur[p].row)
        /\ Save(p, cur[p].row, cur[p].ent, -dto[p].qty, cur[p].ent.hold)
    BY <1>4 DEF SaveSource
  <2> QED BY <1>1, <1>2, <1>3, <2>1, <2>2, SaveLedger
<1>5. CASE SaveDest(p)
  <2>1. PICK r \in RowIds :
          /\ IF cur[p].row = NoRow THEN Fresh(r) ELSE r = cur[p].row /\ Unlocked(p, r)
          /\ Save(p, r, cur[p].ent, dto[p].qty, Given(dto[p].hold, cur[p].ent.hold))
    BY <1>5 DEF SaveDest
  <2>2. Unlocked(p, r)
    BY <2>1 DEF Fresh, Unlocked
  <2>3. \/ View(p)[r] # NoRow
        \/ Fresh(r) /\ cur[p].ent.onHand = 0
    BY <1>5, <2>1 DEF SaveDest, LedgerInv, CopiesLive
  <2> QED BY <1>1, <1>2, <1>3, <2>1, <2>2, <2>3, SaveLedger
<1> QED BY <1>4, <1>5

LEMMA LedgerInit == Init => LedgerInv
BY DEF Init, LedgerInv, LedgerExplains, RowLocks, UnbookedWithoutRow,
       WritesExplained, CopiesLive, NoWrites

LEMMA LedgerStep == TypeInv /\ LedgerInv /\ [Next]_vars => LedgerInv'
<1> SUFFICES ASSUME TypeInv, LedgerInv, [Next]_vars PROVE LedgerInv'
  OBVIOUS
<1>1. ASSUME NEW p \in Clients, NEW args \in Transactions, Begin(p, args)
      PROVE  LedgerInv'
  BY <1>1, QuietLedger DEF Begin, Starts, Goes, TypeInv, TypeOK
<1>2. ASSUME NEW p \in Clients, NEW args \in Supplies, BeginSupply(p, args)
      PROVE  LedgerInv'
  BY <1>2, QuietLedger DEF BeginSupply, Starts, Goes, TypeInv, TypeOK
<1>3. ASSUME NEW p \in Clients, NextTake(p) \/ EndSupply(p) PROVE LedgerInv'
  BY <1>3, QuietLedger DEF NextTake, EndSupply, Exhausted, Goes, TypeInv, TypeOK
<1>4. ASSUME NEW p \in Clients, RefuseSource(p) \/ DeadlockVictim(p) \/ Fail(p)
      PROVE  LedgerInv'
  BY <1>4, RolledBackLedger DEF RefuseSource, DeadlockVictim, Fail
<1>5. ASSUME NEW place \in Holdable, ApplyHold(place) \/ ReleaseHold(place)
      PROVE  LedgerInv'
  BY <1>5, SetHoldLedger DEF ApplyHold, ReleaseHold, Status
<1>6. CASE UNCHANGED vars
  BY <1>6, QuietLedger DEF vars
<1> QED
  BY <1>1, <1>2, <1>3, <1>4, <1>5, <1>6, ReadStepsLedger, SaveStepsLedger, CommitLedger
     DEF Next, Transact

\* In every interleaving of any number of requests, failures, deadlocks and
\* holds, a row that no transaction saved from an out-of-date copy holds exactly
\* what its movements sum to.
THEOREM LedgerExplainsStock == Spec => []LedgerExplains
<1>1. LedgerInv => LedgerExplains
  BY DEF LedgerInv
<1> QED BY <1>1, TypeInit, TypeStep, LedgerInit, LedgerStep, PTL DEF Spec
-----------------------------------------------------------------------------
(***************************************************************************)
(* Supplies: what has been moved, what the transaction in flight moves and *)
(* what is left add up to what was asked, and the candidates that remain   *)
(* cover what is left.                                                     *)
(***************************************************************************)
SupplyAccounts ==
  \A p \in Clients : supply[p] # Nothing =>
    /\ pc[p] # "idle"
    /\ supply[p].left <= SumFunction(supply[p].spare)
    /\ supply[p].asked = supply[p].moved + supply[p].left
                           + (IF pc[p] = "supplying" THEN 0 ELSE dto[p].qty)

\* A step that touches the supply of one request only.
LEMMA OtherSupplies ==
  ASSUME SupplyAccounts, NEW p \in Clients,
         \A q \in Clients \ {p} :
           pc'[q] = pc[q] /\ dto'[q] = dto[q] /\ supply'[q] = supply[q],
         supply'[p] # Nothing =>
           /\ pc'[p] # "idle"
           /\ supply'[p].left <= SumFunction(supply'[p].spare)
           /\ supply'[p].asked = supply'[p].moved + supply'[p].left
                                   + (IF pc'[p] = "supplying" THEN 0 ELSE dto'[p].qty)
  PROVE  SupplyAccounts'
<1> SUFFICES ASSUME NEW q \in Clients, supply'[q] # Nothing
             PROVE  /\ pc'[q] # "idle"
                    /\ supply'[q].left <= SumFunction(supply'[q].spare)
                    /\ supply'[q].asked = supply'[q].moved + supply'[q].left
                         + (IF pc'[q] = "supplying" THEN 0 ELSE dto'[q].qty)
  BY DEF SupplyAccounts
<1>1. CASE q = p
  BY <1>1
<1>2. CASE q # p
  BY <1>2 DEF SupplyAccounts
<1> QED BY <1>1, <1>2

\* A step within a transaction, or one that does not touch the requests.
LEMMA QuietSupply ==
  ASSUME SupplyAccounts, UNCHANGED <<dto, supply>>,
         \A q \in Clients : pc'[q] = pc[q] \/ {pc[q], pc'[q]} \cap {"idle", "supplying"} = {}
  PROVE  SupplyAccounts'
BY DEF SupplyAccounts

LEMMA BeginSupplyAccounts ==
  ASSUME TypeInv, SupplyAccounts, NEW p \in Clients, NEW args \in Supplies,
         BeginSupply(p, args)
  PROVE  SupplyAccounts'
<1> DEFINE spare == [r \in RowIds |-> IF r \in Candidates THEN rows[r].onHand ELSE 0]
<1>1. PICK job : job = [to |-> args.to, asked |-> args.qty, left |-> args.qty,
                        moved |-> 0, spare |-> spare]
  OBVIOUS
<1>2. /\ SumFunction(spare) >= args.qty /\ args.qty \in Nat
      /\ supply' = [supply EXCEPT ![p] = job]
      /\ pc' = [pc EXCEPT ![p] = "supplying"] /\ UNCHANGED dto
  BY <1>1, ConstantsAssumption DEF BeginSupply, Goes
<1>3. SumFunction(spare) \in Nat
  <2>1. \A r \in RowIds : spare[r] \in Nat
    BY DEF Candidates, TypeInv, TypeOK, Row
  <2> QED BY <2>1, TotalNat, ConstantsAssumption
<1> HIDE DEF spare
<1>4. /\ job.left <= SumFunction(job.spare)
      /\ job.asked = job.moved + job.left + 0
  BY <1>1, <1>2, <1>3
<1>5. /\ supply'[p] = job /\ pc'[p] = "supplying"
      /\ \A q \in Clients \ {p} : pc'[q] = pc[q] /\ dto'[q] = dto[q] /\ supply'[q] = supply[q]
  BY <1>2 DEF TypeInv, TypeOK
<1> QED BY <1>4, <1>5, OtherSupplies

LEMMA NextTakeAccounts ==
  ASSUME TypeInv, SupplyAccounts, NEW p \in Clients, NextTake(p)
  PROVE  SupplyAccounts'
<1>1. /\ supply[p] \in Job /\ supply[p] # Nothing /\ pc[p] = "supplying"
  BY MarkerAssumption DEF NextTake, TypeInv, TypeOK, InFlightOK
<1> DEFINE spare == supply[p].spare
<1>2. PICK r \in RowIds : LET qty == Take(supply[p].left, spare[r]) IN
        /\ spare[r] > 0
        /\ dto' = [dto EXCEPT ![p] =
             [from |-> rows[r].place, to |-> supply[p].to, lot |-> NoLot,
              qty |-> qty, hold |-> Unset]]
        /\ supply' = [supply EXCEPT ![p].left = supply[p].left - qty,
                                    ![p].spare = [spare EXCEPT ![r] = 0]]
  BY DEF NextTake
<1>3. PICK qty : qty = Take(supply[p].left, spare[r])
  OBVIOUS
<1>4. PICK args : args = [from |-> rows[r].place, to |-> supply[p].to,
                          lot |-> NoLot, qty |-> qty, hold |-> Unset]
  OBVIOUS
<1>5. PICK rest : rest = [spare EXCEPT ![r] = 0]
  OBVIOUS
<1>6. PICK job : job = [supply[p] EXCEPT !.left = supply[p].left - qty, !.spare = rest]
  OBVIOUS
<1>7. /\ dto' = [dto EXCEPT ![p] = args]
      /\ supply' = [supply EXCEPT ![p] = job]
      /\ pc' = [pc EXCEPT ![p] = "source"]
  BY <1>1, <1>2, <1>3, <1>4, <1>5, <1>6 DEF NextTake, Goes, TypeInv, TypeOK
<1>8. /\ spare \in [RowIds -> Nat] /\ supply[p].left \in Nat
      /\ supply[p].moved \in Nat /\ supply[p].asked \in Nat
  BY <1>1 DEF Job
<1>9. /\ rest \in [RowIds -> Nat] /\ rest[r] = 0
      /\ \A s \in RowIds \ {r} : spare[s] = rest[s]
  BY <1>5, <1>8
<1> HIDE DEF spare
<1>10. SumFunction(rest) = SumFunction(spare) - spare[r] + rest[r]
  <2>1. /\ DOMAIN spare = RowIds /\ DOMAIN rest = RowIds /\ IsFiniteSet(RowIds)
        /\ \A s \in RowIds : spare[s] \in Int /\ rest[s] \in Int
    BY <1>8, <1>9, ConstantsAssumption
  <2> QED BY <2>1, <1>9, TotalChange
<1>11. SumFunction(spare) \in Nat /\ spare[r] <= SumFunction(spare)
  <2>1. DOMAIN spare = RowIds /\ IsFiniteSet(RowIds) /\ \A s \in RowIds : spare[s] \in Nat
    BY <1>8, ConstantsAssumption
  <2> QED BY <2>1, TotalNat, TotalAtLeast
<1>12. /\ supply[p].left <= SumFunction(spare)
       /\ supply[p].asked = supply[p].moved + supply[p].left
  BY <1>1, <1>8 DEF SupplyAccounts, spare
<1>13. /\ qty \in Nat /\ supply[p].left - qty <= SumFunction(spare) - spare[r]
  BY <1>3, <1>8, <1>11, <1>12 DEF Take
<1>14. /\ job.left = supply[p].left - qty /\ job.spare = rest
       /\ job.asked = supply[p].asked /\ job.moved = supply[p].moved
  BY <1>1, <1>6 DEF Job
<1>15. /\ job.left <= SumFunction(job.spare)
       /\ job.asked = job.moved + job.left + qty
  BY <1>8, <1>9, <1>10, <1>11, <1>12, <1>13, <1>14
<1>16. /\ supply'[p] = job /\ pc'[p] = "source" /\ dto'[p].qty = qty
       /\ \A q \in Clients \ {p} : pc'[q] = pc[q] /\ dto'[q] = dto[q] /\ supply'[q] = supply[q]
  BY <1>4, <1>7 DEF TypeInv, TypeOK
<1> QED BY <1>15, <1>16, OtherSupplies

LEMMA CommitAccounts ==
  ASSUME TypeInv, SupplyAccounts, NEW p \in Clients, Commit(p)
  PROVE  SupplyAccounts'
<1>1. \A q \in Clients \ {p} : pc'[q] = pc[q] /\ dto'[q] = dto[q] /\ supply'[q] = supply[q]
  BY DEF Commit, Goes, TypeInv, TypeOK
<1>2. CASE supply[p] = Nothing
  <2>1. supply'[p] = Nothing
    BY <1>2 DEF Commit
  <2> QED BY <1>1, <2>1, OtherSupplies
<1>3. CASE supply[p] # Nothing
  <2>1. supply[p] \in Job /\ dto[p] \in Dto /\ pc[p] = "commit"
    BY <1>3 DEF Commit, TypeInv, TypeOK, InFlightOK
  <2>2. PICK job : job = [supply[p] EXCEPT !.moved = supply[p].moved + dto[p].qty]
    OBVIOUS
  <2>3. supply'[p] = job /\ pc'[p] = "supplying"
    BY <1>3, <2>2 DEF Commit, Goes, TypeInv, TypeOK
  <2>4. /\ job.left = supply[p].left /\ job.spare = supply[p].spare
        /\ job.asked = supply[p].asked /\ job.moved = supply[p].moved + dto[p].qty
        /\ supply[p].left \in Nat /\ supply[p].moved \in Nat /\ dto[p].qty \in Nat
    BY <2>1, <2>2 DEF Job, Dto
  <2>5. /\ supply[p].left <= SumFunction(supply[p].spare)
        /\ supply[p].asked = supply[p].moved + supply[p].left + dto[p].qty
    BY <1>3, <2>1 DEF SupplyAccounts
  <2>6. /\ job.left <= SumFunction(job.spare)
        /\ job.asked = job.moved + job.left + 0
    BY <2>4, <2>5
  <2> QED BY <1>1, <2>3, <2>6, OtherSupplies
<1> QED BY <1>2, <1>3

LEMMA SupplyStep ==
  ASSUME TypeInv, SupplyAccounts, [Next]_vars
  PROVE  SupplyAccounts'
<1>1. ASSUME NEW p \in Clients, NEW args \in Transactions, Begin(p, args)
      PROVE  SupplyAccounts'
  <2>1. /\ supply'[p] = Nothing
        /\ \A q \in Clients \ {p} : pc'[q] = pc[q] /\ dto'[q] = dto[q] /\ supply'[q] = supply[q]
    BY <1>1 DEF Begin, Starts, Goes, SupplyAccounts, TypeInv, TypeOK
  <2> QED BY <2>1, OtherSupplies
<1>2. ASSUME NEW p \in Clients, ReadSource(p) \/ SaveSource(p) \/ ReadDest(p) \/ SaveDest(p)
      PROVE  SupplyAccounts'
  <2>1. /\ UNCHANGED <<dto, supply>>
        /\ \A q \in Clients \ {p} : pc'[q] = pc[q]
        /\ {pc[p], pc'[p]} \cap {"idle", "supplying"} = {}
    BY <1>2 DEF ReadSource, SaveSource, ReadDest, SaveDest, Goes, TypeInv, TypeOK
  <2> QED BY <2>1, QuietSupply
<1>3. ASSUME NEW p \in Clients, RolledBack(p) \/ EndSupply(p) PROVE SupplyAccounts'
  <2>1. /\ supply'[p] = Nothing
        /\ \A q \in Clients \ {p} : pc'[q] = pc[q] /\ dto'[q] = dto[q] /\ supply'[q] = supply[q]
    BY <1>3 DEF RolledBack, EndSupply, Goes, TypeInv, TypeOK
  <2> QED BY <2>1, OtherSupplies
<1>4. ASSUME NEW place \in Holdable, ApplyHold(place) \/ ReleaseHold(place)
      PROVE  SupplyAccounts'
  BY <1>4, QuietSupply DEF ApplyHold, ReleaseHold, SetHold
<1>5. CASE UNCHANGED vars
  BY <1>5, QuietSupply DEF vars
<1> QED
  BY <1>1, <1>2, <1>3, <1>4, <1>5, BeginSupplyAccounts, NextTakeAccounts, CommitAccounts
     DEF Next, Transact, RefuseSource, DeadlockVictim, Fail

LEMMA SupplyEndsExact ==
  ASSUME TypeInv, SupplyAccounts
  PROVE  SupplyExact
<1> SUFFICES ASSUME NEW p \in Clients, Exhausted(p)
             PROVE  supply[p].moved = supply[p].asked
  BY DEF SupplyExact
<1>1. supply[p] \in Job /\ supply[p] # Nothing /\ pc[p] = "supplying"
  BY MarkerAssumption DEF Exhausted, TypeInv, TypeOK, InFlightOK
<1>2. /\ supply[p].spare \in [RowIds -> Nat] /\ supply[p].left \in Nat
      /\ supply[p].moved \in Nat /\ supply[p].asked \in Nat
  BY <1>1 DEF Job
<1>3. /\ supply[p].left <= SumFunction(supply[p].spare)
      /\ supply[p].asked = supply[p].moved + supply[p].left
  BY <1>1, <1>2 DEF SupplyAccounts
<1>4. CASE supply[p].left = 0
  BY <1>2, <1>3, <1>4
<1>5. CASE \A r \in RowIds : supply[p].spare[r] = 0
  <2>1. SumFunction(supply[p].spare) = 0
    BY <1>2, <1>5, TotalZero, ConstantsAssumption
  <2> QED BY <1>2, <1>3, <2>1
<1> QED BY <1>4, <1>5 DEF Exhausted

\* A transferToLine() that ends without an error has moved exactly what was
\* asked, for any number of positions, in any interleaving with other requests.
THEOREM SuppliesAreExact == Spec => []SupplyExact
<1>1. Init => SupplyAccounts
  BY DEF Init, SupplyAccounts
<1>2. TypeInv /\ SupplyAccounts /\ [Next]_vars => SupplyAccounts'
  BY SupplyStep
<1>3. TypeInv /\ SupplyAccounts => SupplyExact
  BY SupplyEndsExact
<1> QED BY <1>1, <1>2, <1>3, TypeInit, TypeStep, PTL DEF Spec
-----------------------------------------------------------------------------
(***************************************************************************)
(* One request at a time.  Without the hypothesis the rest is false: save()*)
(* writes what was read, and a hold or a movement that commits between the *)
(* read and the save is undone or ignored.                                 *)
(***************************************************************************)
Alone == \A p, q \in Clients : p # q => pc[p] = "idle" \/ pc[q] = "idle"

\* What the request in flight knows of the rows: the copies it holds are the
\* rows it sees, and its writes keep the place of a row, its hold status unless
\* the movement names one, and its quantity if the row may not move.
CopiesTrue(p) ==
  /\ pc[p] \in {"idle", "supplying", "source", "saveSource"} =>
       \A r \in RowIds : pending[p][r] = Clean
  /\ pc[p] = "saveSource" =>
       /\ cur[p].ent = rows[cur[p].row]
       /\ cur[p].ent.hold \in Movable /\ cur[p].ent.place = dto[p].from
  /\ pc[p] = "saveDest" =>
       /\ cur[p].ent.place = dto[p].to
       /\ cur[p].row # NoRow => cur[p].ent = View(p)[cur[p].row]
  /\ \A r \in RowIds : pending[p][r] # Clean /\ rows[r] # NoRow =>
       /\ pending[p][r].row.place = rows[r].place
       /\ pending[p][r].row.onHand < rows[r].onHand => rows[r].hold \in Movable
       /\ dto[p].hold = Unset => pending[p][r].row.hold = rows[r].hold

Serial == Alone /\ \A p \in Clients : CopiesTrue(p)

\* What a save leaves behind.
LEMMA Saved ==
  ASSUME TypeInv, NEW p \in Clients, NEW r \in RowIds, NEW ent \in Row,
         NEW delta \in Int, NEW hold \in Status, Save(p, r, ent, delta, hold)
  PROVE  /\ pending'[p][r] # Clean
         /\ pending'[p][r].row \in Row
         /\ pending'[p][r].row.place = ent.place
         /\ pending'[p][r].row.onHand = ent.onHand + delta
         /\ pending'[p][r].row.hold = hold
         /\ \A s \in RowIds \ {r} : pending'[p][s] = pending[p][s]
         /\ \A q \in Clients \ {p} : pending'[q] = pending[q]
<1> DEFINE new == [ent EXCEPT !.onHand = ent.onHand + delta, !.hold = hold]
           leg == delta + (IF pending[p][r] = Clean THEN 0 ELSE pending[p][r].leg)
           stale == \/ View(p)[r] # NoRow /\ View(p)[r].onHand # ent.onHand
                    \/ pending[p][r] # Clean /\ pending[p][r].stale
<1>1. /\ new \in Row /\ new.onHand = ent.onHand + delta
      /\ new.place = ent.place /\ new.hold = hold
  <2>1. ent.onHand + delta \in Int
    BY DEF Row
  <2> QED BY <2>1 DEF Row
<1>2. leg \in Int /\ stale \in BOOLEAN
  BY DEF TypeInv, TypeOK, Write
<1>3. pending' = [pending EXCEPT ![p][r] = [row |-> new, leg |-> leg, stale |-> stale]]
  BY DEF Save
<1> HIDE DEF new, leg, stale
<1>4. PICK w : w = [row |-> new, leg |-> leg, stale |-> stale]
  OBVIOUS
<1>5. w \in Write /\ w.row = new
  BY <1>1, <1>2, <1>4 DEF Write
<1>6. w # Clean
  BY <1>5, MarkerAssumption
<1>7. /\ pending'[p][r] = w
      /\ \A s \in RowIds \ {r} : pending'[p][s] = pending[p][s]
      /\ \A q \in Clients \ {p} : pending'[q] = pending[q]
  BY <1>3, <1>4 DEF TypeInv, TypeOK
<1> QED BY <1>1, <1>5, <1>6, <1>7

\* A request with nothing written and no copy in hand.
LEMMA CleanIsTrue ==
  ASSUME NEW p \in Clients, pc'[p] \in {"idle", "supplying", "source"},
         \A r \in RowIds : pending'[p][r] = Clean
  PROVE  CopiesTrue(p)'
BY DEF CopiesTrue

\* The others are idle: nothing that one request does concerns them.
LEMMA OthersIdle ==
  ASSUME Serial, NEW p \in Clients, CopiesTrue(p)',
         \A q \in Clients \ {p} :
           pc[q] = "idle" /\ pc'[q] = pc[q] /\ pending'[q] = pending[q]
  PROVE  Serial'
<1>1. Alone'
  BY DEF Alone
<1>2. \A q \in Clients \ {p} : CopiesTrue(q)'
  BY CleanIsTrue DEF Serial, CopiesTrue
<1> QED BY <1>1, <1>2 DEF Serial

LEMMA ReadSourceSerial ==
  ASSUME TypeInv, Serial, NEW p \in Clients, ReadSource(p)
  PROVE  CopiesTrue(p)'
<1>1. /\ \A r \in RowIds : pending[p][r] = Clean
      /\ UNCHANGED <<rows, pending, dto>>
  BY DEF ReadSource, Serial, CopiesTrue
<1>2. CASE dto[p].from = NoPlace
  <2>1. pc'[p] = "dest"
    BY <1>2 DEF ReadSource, Goes, TypeInv, TypeOK
  <2> QED BY <1>1, <2>1 DEF CopiesTrue
<1>3. CASE dto[p].from # NoPlace
  <2>1. View(p) = rows
    BY <1>1 DEF View, Overlay, TypeInv, TypeOK
  <2>2. PICK r \in Matching(p, dto[p].from, dto[p].lot) :
          /\ View(p)[r].hold \in Movable
          /\ cur' = [cur EXCEPT ![p] = [row |-> r, ent |-> View(p)[r]]]
    BY <1>3 DEF ReadSource
  <2>3. PICK e : e = [row |-> r, ent |-> View(p)[r]]
    OBVIOUS
  <2>4. /\ cur'[p] = e /\ e.row = r /\ e.ent = rows[r]
        /\ e.ent.hold \in Movable /\ e.ent.place = dto[p].from
    BY <2>1, <2>2, <2>3 DEF Matching, TypeInv, TypeOK
  <2>5. pc'[p] = "saveSource"
    BY <1>3 DEF ReadSource, Goes, TypeInv, TypeOK
  <2> QED BY <1>1, <2>4, <2>5 DEF CopiesTrue
<1> QED BY <1>2, <1>3

LEMMA SaveSourceSerial ==
  ASSUME TypeInv, Serial, NEW p \in Clients, SaveSource(p)
  PROVE  CopiesTrue(p)'
<1> DEFINE r == cur[p].row
<1>1. /\ cur[p] \in Entity /\ r \in RowIds /\ dto[p] \in Dto
  BY DEF SaveSource, TypeInv, InFlightOK
<1>2. /\ cur[p].ent \in Row /\ cur[p].ent.hold \in Status /\ -dto[p].qty \in Int
      /\ dto[p].qty > 0 /\ cur[p].ent.onHand \in Int
  BY <1>1 DEF Entity, Row, Dto
<1>3. /\ cur[p].ent = rows[r] /\ cur[p].ent.hold \in Movable
      /\ \A s \in RowIds : pending[p][s] = Clean
  BY DEF SaveSource, Serial, CopiesTrue
<1>4. /\ pending'[p][r].row.place = rows[r].place
      /\ pending'[p][r].row.hold = rows[r].hold
      /\ \A s \in RowIds \ {r} : pending'[p][s] = pending[p][s]
  BY <1>1, <1>2, <1>3, Saved DEF SaveSource
<1>5. pc'[p] = "dest" /\ UNCHANGED <<rows, dto>>
  BY DEF SaveSource, Goes, TypeInv, TypeOK
<1> HIDE DEF r
<1> QED BY <1>3, <1>4, <1>5 DEF CopiesTrue

LEMMA ReadDestSerial ==
  ASSUME TypeInv, Serial, NEW p \in Clients, ReadDest(p)
  PROVE  CopiesTrue(p)'
<1>1. /\ UNCHANGED <<rows, pending, dto>> /\ pc[p] = "dest"
      /\ pc'[p] \in {"saveDest", "commit"}
      /\ pc'[p] = "saveDest" <=> dto[p].to # NoPlace
  BY DEF ReadDest, Goes, TypeInv, TypeOK
<1>2. View(p)' = View(p)
  BY <1>1 DEF View, Overlay
<1>3. ASSUME dto[p].to # NoPlace
      PROVE  /\ cur'[p].ent.place = dto[p].to
             /\ cur'[p].row # NoRow => cur'[p].ent = View(p)[cur'[p].row]
  <2>1. CASE \E r \in Matching(p, dto[p].to, dto[p].lot) :
               cur' = [cur EXCEPT ![p] = [row |-> r, ent |-> View(p)[r]]]
    <3>1. PICK r \in Matching(p, dto[p].to, dto[p].lot) :
            cur' = [cur EXCEPT ![p] = [row |-> r, ent |-> View(p)[r]]]
      BY <2>1
    <3>2. PICK e : e = [row |-> r, ent |-> View(p)[r]]
      OBVIOUS
    <3>3. cur'[p] = e /\ e.row = r /\ e.ent = View(p)[r]
      BY <3>1, <3>2 DEF TypeInv, TypeOK
    <3> QED BY <3>3 DEF Matching
  <2>2. CASE cur' = [cur EXCEPT ![p] = [row |-> NoRow, ent |-> NewPosition(dto[p])]]
    <3>1. PICK e : e = [row |-> NoRow, ent |-> NewPosition(dto[p])]
      OBVIOUS
    <3>2. cur'[p] = e /\ e.row = NoRow /\ e.ent.place = dto[p].to
      BY <2>2, <3>1 DEF NewPosition, TypeInv, TypeOK
    <3> QED BY <3>2
  <2> QED BY <1>3, <2>1, <2>2 DEF ReadDest
<1> QED BY <1>1, <1>2, <1>3 DEF Serial, CopiesTrue

LEMMA SaveDestSerial ==
  ASSUME TypeInv, Serial, NEW p \in Clients, SaveDest(p)
  PROVE  CopiesTrue(p)'
<1>1. PICK r \in RowIds :
        /\ IF cur[p].row = NoRow THEN Fresh(r) ELSE r = cur[p].row /\ Unlocked(p, r)
        /\ Save(p, r, cur[p].ent, dto[p].qty, Given(dto[p].hold, cur[p].ent.hold))
  BY DEF SaveDest
<1>2. cur[p] \in Entity /\ dto[p] \in Dto
  BY DEF SaveDest, TypeInv, InFlightOK
<1>3. /\ cur[p].ent \in Row /\ dto[p].qty \in Int /\ dto[p].qty > 0
      /\ Given(dto[p].hold, cur[p].ent.hold) \in Status /\ cur[p].ent.onHand \in Int
  BY <1>2 DEF Entity, Row, Dto, Given
<1>4. /\ pending'[p][r].row.place = cur[p].ent.place
      /\ pending'[p][r].row.onHand = cur[p].ent.onHand + dto[p].qty
      /\ pending'[p][r].row.hold = Given(dto[p].hold, cur[p].ent.hold)
      /\ \A s \in RowIds \ {r} : pending'[p][s] = pending[p][s]
  BY <1>1, <1>3, Saved
<1>5. pc'[p] = "commit" /\ UNCHANGED <<rows, dto>>
  BY DEF SaveDest, Goes, TypeInv, TypeOK
<1>6. ASSUME rows[r] # NoRow
      PROVE  /\ pending'[p][r].row.place = rows[r].place
             /\ pending'[p][r].row.onHand < rows[r].onHand => rows[r].hold \in Movable
             /\ dto[p].hold = Unset => pending'[p][r].row.hold = rows[r].hold
  <2>1. cur[p].ent = View(p)[r] /\ rows[r].onHand \in Int
    BY <1>1, <1>6 DEF Fresh, SaveDest, Serial, CopiesTrue, TypeInv, TypeOK, Row
  <2>2. CASE pending[p][r] = Clean
    <3>1. cur[p].ent = rows[r]
      BY <2>1, <2>2 DEF View, Overlay
    <3> QED BY <1>3, <1>4, <2>1, <3>1 DEF Given
  <2>3. CASE pending[p][r] # Clean
    <3>1. cur[p].ent = pending[p][r].row
      BY <2>1, <2>3 DEF View, Overlay
    <3>2. /\ cur[p].ent.place = rows[r].place
          /\ cur[p].ent.onHand < rows[r].onHand => rows[r].hold \in Movable
          /\ dto[p].hold = Unset => cur[p].ent.hold = rows[r].hold
      BY <1>6, <2>3, <3>1 DEF Serial, CopiesTrue
    <3> QED BY <1>3, <1>4, <2>1, <3>2 DEF Given
  <2> QED BY <2>2, <2>3
<1> QED BY <1>4, <1>5, <1>6 DEF Serial, CopiesTrue

LEMMA SerialStep ==
  ASSUME OneAtATime, TypeInv, Serial, [Next]_vars
  PROVE  Serial'
<1>1. ASSUME NEW p \in Clients, NEW args, Begin(p, args) \/ BeginSupply(p, args)
      PROVE  Serial'
  <2>1. /\ \A q \in Clients \ {p} : pc[q] = "idle" /\ pc'[q] = pc[q] /\ pending'[q] = pending[q]
        /\ pc[p] = "idle" /\ pc'[p] \in {"source", "supplying"} /\ UNCHANGED pending
    BY <1>1 DEF Begin, BeginSupply, Starts, Goes, TypeInv, TypeOK
  <2>2. \A r \in RowIds : pending'[p][r] = Clean
    BY <2>1 DEF Serial, CopiesTrue
  <2> QED BY <2>1, <2>2, CleanIsTrue, OthersIdle
<1>2. ASSUME NEW p \in Clients,
             \/ ReadSource(p) \/ SaveSource(p) \/ ReadDest(p) \/ SaveDest(p)
      PROVE  Serial'
  <2>1. \A q \in Clients \ {p} : pc[q] = "idle"
    BY <1>2 DEF ReadSource, SaveSource, ReadDest, SaveDest, Serial, Alone
  <2>2. \A q \in Clients \ {p} : pc'[q] = pc[q]
    BY <1>2 DEF ReadSource, SaveSource, ReadDest, SaveDest, Goes, TypeInv, TypeOK
  <2>3. \A q \in Clients \ {p} : pending'[q] = pending[q]
    BY <1>2 DEF ReadSource, SaveSource, ReadDest, SaveDest, Save, TypeInv, TypeOK
  <2>4. CopiesTrue(p)'
    BY <1>2, ReadSourceSerial, SaveSourceSerial, ReadDestSerial, SaveDestSerial
  <2> QED BY <2>1, <2>2, <2>3, <2>4, OthersIdle
<1>3. ASSUME NEW p \in Clients, pc[p] # "idle",
             Commit(p) \/ RolledBack(p) \/ NextTake(p) \/ EndSupply(p)
      PROVE  Serial'
  <2>1. \A q \in Clients \ {p} : pc[q] = "idle"
    BY <1>3 DEF Serial, Alone
  <2>2. /\ \A q \in Clients \ {p} : pc'[q] = pc[q]
        /\ pc'[p] \in {"idle", "supplying", "source"}
    BY <1>3 DEF Commit, RolledBack, NextTake, EndSupply, Goes, TypeInv, TypeOK
  <2>3. \A q \in Clients \ {p} : pending'[q] = pending[q]
    BY <1>3 DEF Commit, RolledBack, NextTake, EndSupply, TypeInv, TypeOK
  <2>4. \A r \in RowIds : pending'[p][r] = Clean
    <3>1. CASE Commit(p) \/ RolledBack(p)
      BY <3>1 DEF Commit, RolledBack, NoWrites, TypeInv, TypeOK
    <3>2. CASE NextTake(p) \/ EndSupply(p)
      BY <3>2 DEF NextTake, EndSupply, Exhausted, Serial, CopiesTrue
    <3> QED BY <1>3, <3>1, <3>2
  <2> QED BY <2>1, <2>2, <2>3, <2>4, CleanIsTrue, OthersIdle
<1>4. ASSUME NEW place \in Holdable, ApplyHold(place) \/ ReleaseHold(place)
      PROVE  Serial'
  <2>1. /\ UNCHANGED <<pc, pending>> /\ \A q \in Clients : pc[q] = "idle"
    BY <1>4 DEF ApplyHold, ReleaseHold, SetHold
  <2>2. \A q \in Clients : CopiesTrue(q)'
    BY <2>1, CleanIsTrue DEF Serial, CopiesTrue
  <2> QED BY <2>1, <2>2 DEF Serial, Alone
<1>5. CASE UNCHANGED vars
  BY <1>5 DEF vars, Serial, Alone, CopiesTrue, View, Overlay
<1> QED
  BY <1>1, <1>2, <1>3, <1>4, <1>5
     DEF Next, Transact, RefuseSource, DeadlockVictim, WaitsFor, Fail,
         Commit, NextTake, EndSupply, Exhausted

LEMMA SerialHolds == ASSUME OneAtATime PROVE Spec => [](TypeInv /\ Serial)
<1>1. Init => Serial
  BY DEF Init, Serial, Alone, CopiesTrue, NoWrites
<1>2. TypeInv /\ Serial /\ [Next]_vars => Serial'
  BY SerialStep
<1> QED BY <1>1, <1>2, TypeInit, TypeStep, PTL DEF Spec

\* A hold changes nothing but the status of rows.
HoldOnly ==
  \A r \in RowIds : /\ rows[r] = NoRow <=> rows'[r] = NoRow
                    /\ rows[r] # NoRow => /\ rows'[r].place = rows[r].place
                                          /\ rows'[r].onHand = rows[r].onHand

\* What a step does to the committed rows: a commit writes them, a hold sets
\* their status.
LEMMA RowsChange ==
  ASSUME TypeInv, [Next]_vars
  PROVE  \/ \E p \in Clients : Commit(p)
         \/ UNCHANGED rows
         \/ UNCHANGED pc /\ HoldOnly
<1>1. ASSUME NEW p \in Clients, NEW args, Begin(p, args) \/ BeginSupply(p, args)
      PROVE  UNCHANGED rows
  BY <1>1 DEF Begin, BeginSupply
<1>2. ASSUME NEW p \in Clients,
             \/ ReadSource(p) \/ SaveSource(p) \/ ReadDest(p) \/ SaveDest(p)
             \/ RolledBack(p) \/ NextTake(p) \/ EndSupply(p)
      PROVE  UNCHANGED rows
  BY <1>2 DEF ReadSource, SaveSource, ReadDest, SaveDest, RolledBack, NextTake, EndSupply
<1>3. ASSUME NEW place \in Holdable, NEW status \in Status, SetHold(place, status)
      PROVE  UNCHANGED pc /\ HoldOnly
  <2>1. ASSUME NEW r \in RowIds, rows[r] # NoRow
        PROVE  LET held == [rows[r] EXCEPT !.hold = status] IN
               held # NoRow /\ held.place = rows[r].place /\ held.onHand = rows[r].onHand
    <3>1. rows[r] \in Row
      BY <2>1 DEF TypeInv, TypeOK
    <3>2. [rows[r] EXCEPT !.hold = status] \in Row
      BY <3>1 DEF Row
    <3> QED BY <3>1, <3>2, ConstantsAssumption DEF Row
  <2> QED BY <1>3, <2>1 DEF SetHold, HoldOnly
<1> QED
  BY <1>1, <1>2, <1>3
     DEF Next, Transact, RefuseSource, DeadlockVictim, Fail, ApplyHold, ReleaseHold,
         Status, vars

\* What a commit makes of a row when requests do not overlap.
LEMMA CommitKeeps ==
  ASSUME TypeInv, Serial, NEW p \in Clients, Commit(p), NEW r \in RowIds, rows[r] # NoRow
  PROVE  /\ rows'[r].place = rows[r].place
         /\ rows'[r].onHand < rows[r].onHand => rows[r].hold \in Movable
         /\ rows'[r].hold # rows[r].hold => dto[p].hold # Unset
<1>1. CASE pending[p][r] = Clean
  <2>1. rows'[r] = rows[r]
    BY <1>1 DEF Commit, Overlay
  <2>2. ~ (rows[r].onHand < rows[r].onHand)
    BY DEF TypeInv, TypeOK, Row
  <2> QED BY <2>1, <2>2
<1>2. CASE pending[p][r] # Clean
  <2>1. rows'[r] = pending[p][r].row
    BY <1>2 DEF Commit, Overlay
  <2> QED BY <1>2, <2>1 DEF Serial, CopiesTrue
<1> QED BY <1>1, <1>2

\* recordTransaction, "OPERATIONAL HARD LOCK": when requests do not overlap,
\* no movement takes stock out of a row that is on hold.
THEOREM HoldsAreRespected == ASSUME OneAtATime PROVE Spec => HoldsBlockMovement
<1> DEFINE Blocked == \A r \in RowIds :
             (rows[r] # NoRow /\ rows'[r].onHand < rows[r].onHand)
               => rows[r].hold \notin {"hold", "quarantine", "pending_iqc", "pending_oqc"}
<1>1. TypeInv /\ Serial /\ [Next]_vars => [Blocked]_vars
  <2> SUFFICES ASSUME TypeInv, Serial, [Next]_vars PROVE Blocked
    OBVIOUS
  <2> SUFFICES ASSUME NEW r \in RowIds, rows[r] # NoRow, rows'[r].onHand < rows[r].onHand
               PROVE  rows[r].hold \in Movable
    BY DEF Movable
  <2>1. ~ (rows[r].onHand < rows[r].onHand)
    BY DEF TypeInv, TypeOK, Row
  <2>2. PICK p \in Clients : Commit(p)
    BY <2>1, RowsChange DEF HoldOnly
  <2> QED BY <2>2, CommitKeeps
<1> QED BY <1>1, SerialHolds, PTL DEF Spec, HoldsBlockMovement

\* createHold, recordTransaction: when requests do not overlap, a hold is lifted
\* by quality or by a movement that names a status, never by one that does not.
THEOREM HoldsAreKept == ASSUME OneAtATime PROVE Spec => HoldsStay
<1> DEFINE Kept == \A r \in RowIds :
             (rows[r] # NoRow /\ rows[r].hold = "hold" /\ rows'[r].hold # "hold")
               => \/ UNCHANGED pc
                  \/ \E p \in Clients : dto[p] # Nothing /\ dto[p].hold # Unset
<1>1. TypeInv /\ Serial /\ [Next]_vars => [Kept]_vars
  <2> SUFFICES ASSUME TypeInv, Serial, [Next]_vars PROVE Kept
    OBVIOUS
  <2> SUFFICES ASSUME NEW r \in RowIds, rows[r] # NoRow, rows[r].hold = "hold",
                      rows'[r].hold # "hold", ~ UNCHANGED pc
               PROVE  \E p \in Clients : dto[p] # Nothing /\ dto[p].hold # Unset
    OBVIOUS
  <2>1. PICK p \in Clients : Commit(p)
    BY RowsChange
  <2>2. dto[p].hold # Unset
    BY <2>1, CommitKeeps
  <2>3. dto[p] # Nothing
    BY <2>1, MarkerAssumption DEF Commit, TypeInv, InFlightOK
  <2> QED BY <2>2, <2>3
<1> QED BY <1>1, SerialHolds, PTL DEF Spec, HoldsStay
-----------------------------------------------------------------------------
(***************************************************************************)
(* The refinement: what the positions hold at a place, from one statement  *)
(* of a transaction to the next.                                           *)
(***************************************************************************)
HeldAt(content, place) ==
  [r \in RowIds |->
    IF content[r] # NoRow /\ content[r].place = place THEN content[r].onHand ELSE 0]

Contents == [RowIds -> Row \cup {NoRow}]

\* The positions of a place are a finite function to the integers.
LEMMA HeldAtInt ==
  ASSUME NEW content \in Contents, NEW place
  PROVE  /\ HeldAt(content, place) \in [RowIds -> Int]
         /\ OnHandAt(content, place) = SumFunction(HeldAt(content, place))
         /\ OnHandAt(content, place) \in Int
<1>1. HeldAt(content, place) \in [RowIds -> Int]
  BY DEF HeldAt, Contents, Row
<1>2. OnHandAt(content, place) = SumFunction(HeldAt(content, place))
  BY DEF OnHandAt, HeldAt
<1>3. SumFunction(HeldAt(content, place)) \in Int
  <2>1. /\ IsFiniteSet(DOMAIN HeldAt(content, place))
        /\ \A r \in DOMAIN HeldAt(content, place) : HeldAt(content, place)[r] \in Int
    BY <1>1, ConstantsAssumption
  <2> QED BY <2>1, TotalInt
<1> QED BY <1>1, <1>2, <1>3

\* One row changes by delta, or is inserted with delta.
LEMMA OneRowChanges ==
  ASSUME NEW old \in Contents, NEW new \in Contents, NEW r \in RowIds, NEW delta \in Int,
         \A s \in RowIds \ {r} : new[s] = old[s],
         new[r] # NoRow,
         \/ old[r] = NoRow /\ new[r].onHand = delta
         \/ /\ old[r] # NoRow
            /\ new[r].place = old[r].place /\ new[r].onHand = old[r].onHand + delta,
         NEW place
  PROVE  OnHandAt(new, place) =
           OnHandAt(old, place) + (IF new[r].place = place THEN delta ELSE 0)
<1> DEFINE f == HeldAt(old, place)
           g == HeldAt(new, place)
           change == IF new[r].place = place THEN delta ELSE 0
<1>1. /\ f \in [RowIds -> Int] /\ g \in [RowIds -> Int]
      /\ OnHandAt(old, place) = SumFunction(f) /\ OnHandAt(new, place) = SumFunction(g)
      /\ OnHandAt(old, place) \in Int
  BY HeldAtInt
<1>2. \A s \in RowIds \ {r} : f[s] = g[s]
  BY DEF HeldAt
<1>3. g[r] = f[r] + change
  BY DEF HeldAt, Contents, Row
<1>4. change \in Int
  OBVIOUS
<1> HIDE DEF f, g, change
<1>5. SumFunction(g) = SumFunction(f) - f[r] + g[r]
  <2>1. /\ IsFiniteSet(DOMAIN f) /\ DOMAIN g = DOMAIN f /\ r \in DOMAIN f
        /\ \A s \in DOMAIN f : f[s] \in Int /\ g[s] \in Int
        /\ \A s \in DOMAIN f \ {r} : f[s] = g[s]
    BY <1>1, <1>2, ConstantsAssumption
  <2> QED BY <2>1, TotalChange
<1>6. f[r] \in Int /\ SumFunction(f) \in Int
  BY <1>1
<1>7. SumFunction(g) = SumFunction(f) + change
  BY <1>3, <1>4, <1>5, <1>6
<1> QED BY <1>1, <1>7 DEF change

\* Only the hold status of rows changes.
LEMMA OnHandSame ==
  ASSUME NEW old, NEW new,
         \A r \in RowIds : /\ old[r] = NoRow <=> new[r] = NoRow
                           /\ old[r] # NoRow => /\ new[r].place = old[r].place
                                                /\ new[r].onHand = old[r].onHand,
         NEW place
  PROVE  OnHandAt(new, place) = OnHandAt(old, place)
<1>1. HeldAt(new, place) = HeldAt(old, place)
  BY DEF HeldAt
<1> QED BY <1>1 DEF OnHandAt, HeldAt

\* A place holds no less than any of its positions.
LEMMA PlaceHoldsRow ==
  ASSUME NEW content \in Contents, NEW r \in RowIds, content[r] # NoRow,
         \A s \in RowIds : content[s] # NoRow => content[s].onHand >= 0
  PROVE  content[r].onHand <= OnHandAt(content, content[r].place)
<1> DEFINE f == HeldAt(content, content[r].place)
<1>1. \A s \in RowIds : f[s] \in Nat
  BY DEF HeldAt, Contents, Row
<1>2. DOMAIN f = RowIds /\ f[r] = content[r].onHand
  BY DEF HeldAt
<1>3. OnHandAt(content, content[r].place) = SumFunction(f)
  BY HeldAtInt
<1> HIDE DEF f
<1>4. f[r] <= SumFunction(f)
  BY <1>1, <1>2, TotalAtLeast, ConstantsAssumption
<1> QED BY <1>2, <1>3, <1>4

Out(args, place) == IF args.from = place THEN args.qty ELSE 0
In(args, place) == IF args.to = place THEN args.qty ELSE 0

\* What the statements of the request in flight have done to the places.
Moves(p) ==
  /\ pc[p] \in {"source", "saveSource", "dest", "saveDest", "commit"} =>
       dto[p] \in Transactions \cup Takes
  /\ pc[p] \in {"dest", "saveDest"} => \A place \in Places :
       OnHandAt(Overlay(p), place) = OnHandAt(rows, place) - Out(dto[p], place)
  /\ pc[p] = "commit" => \A place \in Places :
       OnHandAt(Overlay(p), place) =
         OnHandAt(rows, place) - Out(dto[p], place) + In(dto[p], place)
  /\ pc[p] \in {"dest", "saveDest", "commit"} /\ dto[p].from # NoPlace =>
       OnHandAt(rows, dto[p].from) >= dto[p].qty

\* A supply under way was asked for, and takes from outside the line tanks.
TakesAllowed(p) ==
  supply[p] # Nothing =>
    /\ \E args \in Supplies : args.to = supply[p].to /\ args.qty = supply[p].asked
    /\ \A r \in RowIds : supply[p].spare[r] > 0 => rows[r].place \notin LinePlaces

Posting == \A p \in Clients : Moves(p) /\ TakesAllowed(p)

Base == TypeInv /\ NonNegative /\ CopiesOK /\ LedgerInv /\ SupplyAccounts /\ Serial

\* Nothing that one request does concerns the others.
LEMMA OthersPosted ==
  ASSUME Base, NEW p \in Clients, Moves(p)', TakesAllowed(p)',
         \A q \in Clients \ {p} : pc[q] = "idle" /\ pc'[q] = pc[q] /\ supply'[q] = supply[q]
  PROVE  Posting'
BY DEF Posting, Moves, TakesAllowed, Base, SupplyAccounts

LEMMA OverlayContents ==
  ASSUME Base, NEW p \in Clients
  PROVE  Overlay(p) \in Contents /\ rows \in Contents /\ View(p) = Overlay(p)
BY OverlayType DEF Base, TypeInv, TypeOK, Contents

LEMMA ReadSourceMoves ==
  ASSUME Base, Posting, NEW p \in Clients, ReadSource(p)
  PROVE  Moves(p)'
<1>1. /\ UNCHANGED <<rows, pending, dto>> /\ pc[p] = "source"
      /\ pc'[p] \in {"dest", "saveSource"}
      /\ pc'[p] = "dest" => dto[p].from = NoPlace
      /\ \A r \in RowIds : pending[p][r] = Clean
  BY DEF ReadSource, Goes, Base, TypeInv, TypeOK, Serial, CopiesTrue
<1>2. dto'[p] \in Transactions \cup Takes
  BY <1>1 DEF Posting, Moves
<1>3. ASSUME pc'[p] = "dest"
      PROVE  \A place \in Places :
               OnHandAt(Overlay(p), place) = OnHandAt(rows, place) - Out(dto[p], place)
  <2> TAKE place \in Places
  <2>1. Overlay(p) = rows
    BY <1>1 DEF Overlay, Base, TypeInv, TypeOK
  <2>2. Out(dto[p], place) = 0
    BY <1>1, <1>3, ConstantsAssumption DEF Out
  <2>3. OnHandAt(rows, place) \in Int
    BY OverlayContents, HeldAtInt
  <2> QED BY <2>1, <2>2, <2>3
<1>4. Overlay(p)' = Overlay(p)
  BY <1>1 DEF Overlay
<1> QED BY <1>1, <1>2, <1>3, <1>4 DEF Moves

LEMMA SaveSourceMoves ==
  ASSUME Base, Posting, NEW p \in Clients, SaveSource(p)
  PROVE  Moves(p)'
<1> DEFINE r == cur[p].row
<1>1. /\ cur[p] \in Entity /\ r \in RowIds /\ dto[p] \in Dto
      /\ pc'[p] = "dest" /\ UNCHANGED <<rows, dto>>
  BY DEF SaveSource, Goes, Base, TypeInv, TypeOK, InFlightOK
<1>2. /\ cur[p].ent \in Row /\ cur[p].ent.hold \in Status /\ -dto[p].qty \in Int
      /\ dto[p].qty \in Nat /\ cur[p].ent.onHand \in Int
  BY <1>1 DEF Entity, Row, Dto
<1>3. /\ cur[p].ent = rows[r] /\ cur[p].ent.place = dto[p].from
      /\ \A s \in RowIds : pending[p][s] = Clean
      /\ cur[p].ent.onHand >= dto[p].qty
  BY DEF SaveSource, Base, Serial, CopiesTrue, CopiesOK
<1>4. /\ pending'[p][r] # Clean /\ pending'[p][r].row \in Row
      /\ pending'[p][r].row.place = rows[r].place
      /\ pending'[p][r].row.onHand = rows[r].onHand + (-dto[p].qty)
      /\ \A s \in RowIds \ {r} : pending'[p][s] = pending[p][s]
  BY <1>1, <1>2, <1>3, Saved DEF SaveSource, Base
<1>5. rows[r] # NoRow
  BY <1>2, <1>3, ConstantsAssumption
<1> HIDE DEF r
<1> DEFINE new == Overlay(p)'
<1>6. /\ new \in Contents /\ rows \in Contents
      /\ new[r] = pending'[p][r].row /\ new[r] # NoRow
      /\ \A s \in RowIds \ {r} : new[s] = rows[s]
  <2>1. rows \in Contents
    BY OverlayContents
  <2>2. new = [s \in RowIds |-> IF pending'[p][s] = Clean THEN rows'[s]
                                ELSE pending'[p][s].row]
    BY DEF Overlay
  <2> HIDE DEF new
  <2>3. /\ new[r] = pending'[p][r].row /\ new[r] # NoRow
        /\ \A s \in RowIds \ {r} : new[s] = rows[s]
    BY <1>1, <1>3, <1>4, <2>2, ConstantsAssumption DEF r
  <2>4. \A s \in RowIds : new[s] \in Row \cup {NoRow}
    BY <1>4, <2>1, <2>3 DEF Contents
  <2>5. new \in Contents
    BY <2>2, <2>4 DEF Contents
  <2> QED BY <2>1, <2>3, <2>5
<1> HIDE DEF new
<1>7. ASSUME NEW place \in Places
      PROVE  OnHandAt(new, place) = OnHandAt(rows, place) - Out(dto[p], place)
  <2>1. OnHandAt(new, place) =
          OnHandAt(rows, place) + (IF new[r].place = place THEN -dto[p].qty ELSE 0)
    BY <1>1, <1>2, <1>4, <1>5, <1>6, OneRowChanges DEF r
  <2>2. new[r].place = dto[p].from
    BY <1>3, <1>4, <1>6
  <2>3. OnHandAt(rows, place) \in Int
    BY <1>6, HeldAtInt
  <2> QED BY <1>2, <2>1, <2>2, <2>3 DEF Out
<1>8. OnHandAt(rows, dto[p].from) >= dto[p].qty
  <2>1. rows[r].onHand <= OnHandAt(rows, rows[r].place)
    BY <1>1, <1>5, <1>6, PlaceHoldsRow DEF Base, NonNegative, r
  <2>2. OnHandAt(rows, dto[p].from) \in Int
    BY <1>6, HeldAtInt
  <2> QED BY <1>2, <1>3, <2>1, <2>2
<1>9. dto[p] \in Transactions \cup Takes
  BY DEF SaveSource, Posting, Moves
<1> QED BY <1>1, <1>7, <1>8, <1>9 DEF Moves, new

LEMMA ReadDestMoves ==
  ASSUME Base, Posting, NEW p \in Clients, ReadDest(p)
  PROVE  Moves(p)'
<1>1. /\ UNCHANGED <<rows, pending, dto>> /\ pc[p] = "dest"
      /\ pc'[p] \in {"saveDest", "commit"}
      /\ pc'[p] = "commit" => dto[p].to = NoPlace
  BY DEF ReadDest, Goes, Base, TypeInv, TypeOK
<1>2. Overlay(p)' = Overlay(p)
  BY <1>1 DEF Overlay
<1>3. dto[p] \in Dto
  BY <1>1 DEF Base, TypeInv, InFlightOK
<1>4. ASSUME pc'[p] = "commit", NEW place \in Places
      PROVE  OnHandAt(Overlay(p), place) =
               OnHandAt(rows, place) - Out(dto[p], place) + In(dto[p], place)
  <2>1. OnHandAt(Overlay(p), place) = OnHandAt(rows, place) - Out(dto[p], place)
    BY <1>1 DEF Posting, Moves
  <2>2. In(dto[p], place) = 0
    BY <1>1, <1>4, ConstantsAssumption DEF In
  <2>3. OnHandAt(rows, place) \in Int /\ Out(dto[p], place) \in Int
    BY <1>3, OverlayContents, HeldAtInt DEF Out, Dto
  <2> QED BY <2>1, <2>2, <2>3
<1> QED BY <1>1, <1>2, <1>4 DEF Posting, Moves

LEMMA SaveDestMoves ==
  ASSUME Base, Posting, NEW p \in Clients, SaveDest(p)
  PROVE  Moves(p)'
<1>1. PICK r \in RowIds :
        /\ IF cur[p].row = NoRow THEN Fresh(r) ELSE r = cur[p].row /\ Unlocked(p, r)
        /\ Save(p, r, cur[p].ent, dto[p].qty, Given(dto[p].hold, cur[p].ent.hold))
  BY DEF SaveDest
<1>2. /\ cur[p] \in Entity /\ dto[p] \in Dto /\ pc[p] = "saveDest"
      /\ pc'[p] = "commit" /\ UNCHANGED <<rows, dto>>
  BY DEF SaveDest, Goes, Base, TypeInv, TypeOK, InFlightOK
<1>3. /\ cur[p].ent \in Row /\ dto[p].qty \in Nat /\ dto[p].qty \in Int
      /\ Given(dto[p].hold, cur[p].ent.hold) \in Status /\ cur[p].ent.onHand \in Int
  BY <1>2 DEF Entity, Row, Dto, Given
<1>4. /\ pending'[p][r] # Clean /\ pending'[p][r].row \in Row
      /\ pending'[p][r].row.place = cur[p].ent.place
      /\ pending'[p][r].row.onHand = cur[p].ent.onHand + dto[p].qty
      /\ \A s \in RowIds \ {r} : pending'[p][s] = pending[p][s]
  BY <1>1, <1>3, Saved DEF Base
<1> DEFINE old == Overlay(p)
           new == Overlay(p)'
<1>5. /\ new \in Contents /\ old \in Contents /\ rows \in Contents
      /\ new[r] = pending'[p][r].row /\ new[r] # NoRow
      /\ \A s \in RowIds \ {r} : new[s] = old[s]
  <2>1. old \in Contents /\ rows \in Contents
    BY OverlayContents
  <2>2. new = [s \in RowIds |-> IF pending'[p][s] = Clean THEN rows'[s]
                                ELSE pending'[p][s].row]
    BY DEF Overlay
  <2>3. old = [s \in RowIds |-> IF pending[p][s] = Clean THEN rows[s]
                                ELSE pending[p][s].row]
    BY DEF Overlay
  <2> HIDE DEF old, new
  <2>4. /\ new[r] = pending'[p][r].row /\ new[r] # NoRow
        /\ \A s \in RowIds \ {r} : new[s] = old[s]
    BY <1>2, <1>4, <2>2, <2>3, ConstantsAssumption
  <2>5. \A s \in RowIds : new[s] \in Row \cup {NoRow}
    BY <1>4, <2>1, <2>4 DEF Contents
  <2>6. new \in Contents
    BY <2>2, <2>5 DEF Contents
  <2> QED BY <2>1, <2>4, <2>6
<1>6. \/ old[r] = NoRow /\ new[r].onHand = dto[p].qty
      \/ /\ old[r] # NoRow
         /\ new[r].place = old[r].place /\ new[r].onHand = old[r].onHand + dto[p].qty
  <2>1. CASE cur[p].row = NoRow
    <3>1. old[r] = NoRow
      BY <1>1, <2>1 DEF Fresh, Overlay
    <3>2. cur[p].ent.onHand = 0
      BY <1>2, <2>1 DEF Base, LedgerInv, CopiesLive
    <3> QED BY <1>3, <1>4, <1>5, <3>1, <3>2
  <2>2. CASE cur[p].row # NoRow
    <3>1. cur[p].ent = old[r] /\ old[r] # NoRow
      BY <1>1, <1>2, <2>2, OverlayContents DEF Base, Serial, CopiesTrue, LedgerInv, CopiesLive
    <3> QED BY <1>4, <1>5, <3>1
  <2> QED BY <2>1, <2>2
<1>7. cur[p].ent.place = dto[p].to
  BY <1>2 DEF Base, Serial, CopiesTrue
<1>8. \A place \in Places : OnHandAt(old, place) = OnHandAt(rows, place) - Out(dto[p], place)
  BY <1>2 DEF Posting, Moves
<1> HIDE DEF old, new
<1>9. ASSUME NEW place \in Places
      PROVE  OnHandAt(new, place) =
               OnHandAt(rows, place) - Out(dto[p], place) + In(dto[p], place)
  <2>1. OnHandAt(new, place) =
          OnHandAt(old, place) + (IF new[r].place = place THEN dto[p].qty ELSE 0)
    BY <1>3, <1>5, <1>6, OneRowChanges
  <2>2. new[r].place = dto[p].to
    BY <1>4, <1>5, <1>7
  <2> QED BY <1>8, <2>1, <2>2 DEF In
<1>10. /\ dto[p] \in Transactions \cup Takes
       /\ dto[p].from # NoPlace => OnHandAt(rows, dto[p].from) >= dto[p].qty
  BY <1>2 DEF Posting, Moves
<1> QED BY <1>2, <1>9, <1>10 DEF Moves, new

LEMMA BeginPosting ==
  ASSUME Base, NEW p \in Clients, NEW args,
         \/ args \in Transactions /\ Begin(p, args)
         \/ args \in Supplies /\ BeginSupply(p, args)
  PROVE  Moves(p)' /\ TakesAllowed(p)'
<1>1. CASE args \in Transactions /\ Begin(p, args)
  <2>1. /\ pc'[p] = "source" /\ dto'[p] = args /\ UNCHANGED supply /\ pc[p] = "idle"
    BY <1>1 DEF Begin, Starts, Goes, Base, TypeInv, TypeOK
  <2> QED BY <1>1, <2>1 DEF Moves, TakesAllowed, Base, SupplyAccounts
<1>2. CASE args \in Supplies /\ BeginSupply(p, args)
  <2> DEFINE spare == [r \in RowIds |-> IF r \in Candidates THEN rows[r].onHand ELSE 0]
  <2>1. PICK job : job = [to |-> args.to, asked |-> args.qty, left |-> args.qty,
                          moved |-> 0, spare |-> spare]
    OBVIOUS
  <2>2. pc'[p] = "supplying" /\ supply'[p] = job /\ UNCHANGED rows
    BY <1>2, <2>1 DEF BeginSupply, Goes, Base, TypeInv, TypeOK
  <2>3. \A r \in RowIds : job.spare[r] > 0 => rows[r].place \notin LinePlaces
    BY <2>1 DEF Candidates
  <2>4. args.to = job.to /\ args.qty = job.asked
    BY <2>1
  <2> QED BY <1>2, <2>2, <2>3, <2>4 DEF Moves, TakesAllowed
<1> QED BY <1>1, <1>2

LEMMA NextTakePosting ==
  ASSUME Base, Posting, NEW p \in Clients, NextTake(p)
  PROVE  Moves(p)' /\ TakesAllowed(p)'
<1>1. /\ supply[p] \in Job /\ supply[p] # Nothing /\ pc[p] = "supplying"
  BY MarkerAssumption DEF NextTake, Base, TypeInv, TypeOK, InFlightOK
<1>2. /\ supply[p].spare \in [RowIds -> Nat] /\ supply[p].left \in Nat
      /\ supply[p].moved \in Nat /\ supply[p].asked \in Nat /\ supply[p].left > 0
  BY <1>1 DEF Job, NextTake
<1>3. PICK r \in RowIds : LET qty == Take(supply[p].left, supply[p].spare[r]) IN
        /\ supply[p].spare[r] > 0
        /\ dto' = [dto EXCEPT ![p] =
             [from |-> rows[r].place, to |-> supply[p].to, lot |-> NoLot,
              qty |-> qty, hold |-> Unset]]
        /\ supply' = [supply EXCEPT ![p].left = supply[p].left - qty,
                                    ![p].spare = [supply[p].spare EXCEPT ![r] = 0]]
  BY DEF NextTake
<1>4. PICK qty : qty = Take(supply[p].left, supply[p].spare[r])
  OBVIOUS
<1>5. qty \in 1 .. supply[p].asked
  <2>1. supply[p].asked = supply[p].moved + supply[p].left
    BY <1>1, <1>2 DEF Base, SupplyAccounts
  <2> QED BY <1>2, <1>3, <1>4, <2>1 DEF Take
<1>6. PICK args : args = [from |-> rows[r].place, to |-> supply[p].to,
                          lot |-> NoLot, qty |-> qty, hold |-> Unset]
  OBVIOUS
<1>7. args \in Takes
  <2>1. rows[r].place \in Places \ LinePlaces
    <3>1. rows[r] # NoRow /\ rows[r].place \notin LinePlaces
      BY <1>1, <1>3 DEF Base, TypeInv, CandidatesLive, Posting, TakesAllowed
    <3> QED BY <3>1 DEF Base, TypeInv, TypeOK, Row
  <2>2. PICK s \in Supplies : s.to = supply[p].to /\ s.qty = supply[p].asked
    BY <1>1 DEF Posting, TakesAllowed
  <2>3. qty \in 1 .. s.qty
    BY <1>5, <2>2
  <2>4. args = [from |-> rows[r].place, to |-> s.to, lot |-> NoLot, qty |-> qty,
                hold |-> Unset]
    BY <1>6, <2>2
  <2> QED BY <2>1, <2>3, <2>4 DEF Takes
<1>8. PICK rest : rest = [supply[p].spare EXCEPT ![r] = 0]
  OBVIOUS
<1>9. \A s \in RowIds : rest[s] > 0 => supply[p].spare[s] > 0
  BY <1>2, <1>8
<1>10. PICK job : job = [supply[p] EXCEPT !.left = supply[p].left - qty, !.spare = rest]
  OBVIOUS
<1>11. job.spare = rest /\ job.to = supply[p].to /\ job.asked = supply[p].asked
  BY <1>1, <1>10 DEF Job
<1>12. /\ dto'[p] = args /\ supply'[p] = job /\ pc'[p] = "source" /\ UNCHANGED rows
  BY <1>1, <1>3, <1>4, <1>6, <1>8, <1>10 DEF NextTake, Goes, Base, TypeInv, TypeOK
<1>13. Moves(p)'
  BY <1>7, <1>12 DEF Moves
<1>14. TakesAllowed(p)'
  BY <1>1, <1>9, <1>11, <1>12 DEF TakesAllowed, Posting
<1> QED BY <1>13, <1>14

LEMMA CommitPosting ==
  ASSUME Base, Posting, NEW p \in Clients, Commit(p)
  PROVE  Moves(p)' /\ TakesAllowed(p)'
<1>1. pc'[p] \in {"idle", "supplying"}
  BY DEF Commit, Goes, Base, TypeInv, TypeOK
<1>2. CASE supply[p] = Nothing
  BY <1>1, <1>2 DEF Commit, Moves, TakesAllowed
<1>3. CASE supply[p] # Nothing
  <2>1. supply[p] \in Job
    BY <1>3 DEF Base, TypeInv, TypeOK
  <2>2. PICK job : job = [supply[p] EXCEPT !.moved = supply[p].moved + dto[p].qty]
    OBVIOUS
  <2>3. supply'[p] = job
    BY <1>3, <2>2 DEF Commit, Base, TypeInv, TypeOK
  <2>4. job.to = supply[p].to /\ job.asked = supply[p].asked /\ job.spare = supply[p].spare
    BY <2>1, <2>2 DEF Job
  <2>5. ASSUME NEW r \in RowIds, supply[p].spare[r] > 0
        PROVE  rows'[r].place \notin LinePlaces
    <3>1. rows[r] # NoRow /\ rows[r].place \notin LinePlaces
      BY <1>3, <2>5 DEF Base, TypeInv, CandidatesLive, Posting, TakesAllowed
    <3>2. rows'[r].place = rows[r].place
      BY <3>1, CommitKeeps DEF Base
    <3> QED BY <3>1, <3>2
  <2>6. TakesAllowed(p)'
    BY <1>3, <2>3, <2>4, <2>5 DEF Posting, TakesAllowed
  <2> QED BY <1>1, <2>6 DEF Moves
<1> QED BY <1>2, <1>3

LEMMA PostingStep ==
  ASSUME OneAtATime, Base, Posting, [Next]_vars
  PROVE  Posting'
<1>1. ASSUME NEW p \in Clients, NEW args,
             \/ args \in Transactions /\ Begin(p, args)
             \/ args \in Supplies /\ BeginSupply(p, args)
      PROVE  Posting'
  <2>1. \A q \in Clients \ {p} : pc[q] = "idle" /\ pc'[q] = pc[q] /\ supply'[q] = supply[q]
    BY <1>1 DEF Begin, BeginSupply, Starts, Goes, Base, TypeInv, TypeOK
  <2> QED BY <1>1, <2>1, BeginPosting, OthersPosted
<1>2. ASSUME NEW p \in Clients,
             \/ ReadSource(p) \/ SaveSource(p) \/ ReadDest(p) \/ SaveDest(p)
      PROVE  Posting'
  <2>1. /\ UNCHANGED <<rows, supply>>
        /\ \A q \in Clients \ {p} : pc[q] = "idle" /\ pc'[q] = pc[q]
    BY <1>2 DEF ReadSource, SaveSource, ReadDest, SaveDest, Goes, Base, Serial, Alone,
                TypeInv, TypeOK
  <2>2. TakesAllowed(p)'
    BY <2>1 DEF Posting, TakesAllowed
  <2>3. Moves(p)'
    BY <1>2, ReadSourceMoves, SaveSourceMoves, ReadDestMoves, SaveDestMoves
  <2> QED BY <2>1, <2>2, <2>3, OthersPosted
<1>3. ASSUME NEW p \in Clients, pc[p] # "idle",
             Commit(p) \/ NextTake(p) \/ RolledBack(p) \/ EndSupply(p)
      PROVE  Posting'
  <2>1. \A q \in Clients \ {p} : pc[q] = "idle"
    BY <1>3 DEF Base, Serial, Alone
  <2>2. \A q \in Clients \ {p} : pc'[q] = pc[q]
    BY <1>3 DEF Commit, NextTake, RolledBack, EndSupply, Goes, Base, TypeInv, TypeOK
  <2>3. \A q \in Clients \ {p} : supply'[q] = supply[q]
    BY <1>3 DEF Commit, NextTake, RolledBack, EndSupply, Base, TypeInv, TypeOK
  <2>4. Moves(p)' /\ TakesAllowed(p)'
    <3>1. CASE RolledBack(p) \/ EndSupply(p)
      <4>1. pc'[p] = "idle" /\ supply'[p] = Nothing
        BY <3>1 DEF RolledBack, EndSupply, Goes, Base, TypeInv, TypeOK
      <4> QED BY <4>1 DEF Moves, TakesAllowed
    <3> QED BY <1>3, <3>1, CommitPosting, NextTakePosting
  <2> QED BY <2>1, <2>2, <2>3, <2>4, OthersPosted
<1>4. ASSUME NEW place \in Holdable, ApplyHold(place) \/ ReleaseHold(place)
      PROVE  Posting'
  <2>1. UNCHANGED <<pc, supply>> /\ \A q \in Clients : pc[q] = "idle"
    BY <1>4 DEF ApplyHold, ReleaseHold, SetHold
  <2> QED BY <2>1 DEF Posting, Moves, TakesAllowed, Base, SupplyAccounts
<1>5. CASE UNCHANGED vars
  BY <1>5 DEF vars, Posting, Moves, TakesAllowed, Overlay
<1> QED
  BY <1>1, <1>2, <1>3, <1>4, <1>5
     DEF Next, Transact, RefuseSource, DeadlockVictim, WaitsFor, Fail,
         Commit, NextTake, EndSupply, Exhausted

LEMMA PostingHolds == ASSUME OneAtATime PROVE Spec => [](Base /\ Posting)
<1>1. Init => /\ NonNegative /\ CopiesOK /\ LedgerInv /\ SupplyAccounts
              /\ Serial /\ Posting
  <2> SUFFICES ASSUME Init
               PROVE  /\ NonNegative /\ CopiesOK /\ LedgerInv /\ SupplyAccounts
                      /\ Serial /\ Posting
    OBVIOUS
  <2>1. NonNegative /\ CopiesOK
    BY ConstantsAssumption DEF Init, NonNegative, CopiesOK, NoWrites
  <2>2. Serial /\ SupplyAccounts /\ Posting
    BY DEF Init, Serial, Alone, CopiesTrue, NoWrites, SupplyAccounts, Posting, Moves, TakesAllowed
  <2> QED BY <2>1, <2>2, LedgerInit
<1>2. Base /\ Posting /\ [Next]_vars =>
        (NonNegative /\ CopiesOK /\ LedgerInv /\ SupplyAccounts /\ Serial /\ Posting)'
  <2> SUFFICES ASSUME Base, Posting, [Next]_vars
               PROVE  (NonNegative /\ CopiesOK /\ LedgerInv /\ SupplyAccounts
                        /\ Serial /\ Posting)'
    OBVIOUS
  <2>1. TypeInv /\ NonNegative /\ CopiesOK /\ LedgerInv /\ SupplyAccounts /\ Serial
    BY DEF Base
  <2>2. (NonNegative /\ CopiesOK)'
    BY <2>1, NonNegativeStep
  <2>3. LedgerInv' /\ SupplyAccounts' /\ Serial'
    BY <2>1, LedgerStep, SupplyStep, SerialStep
  <2>4. Posting'
    BY PostingStep
  <2> QED BY <2>2, <2>3, <2>4
<1> QED BY <1>1, <1>2, TypeInit, TypeStep, PTL DEF Spec, Base

StockNow == [place \in Places |-> OnHandAt(rows, place)]

LEMMA LedgerMoves ==
  ASSUME Base, Posting, [Next]_vars
  PROVE  [Ledger!Next]_StockNow
<1>1. CASE UNCHANGED rows
  BY <1>1 DEF StockNow, OnHandAt
<1>2. CASE HoldOnly
  <2>1. \A place \in Places : OnHandAt(rows, place)' = OnHandAt(rows, place)
    <3> TAKE place \in Places
    <3>1. PICK new : new = rows'
      OBVIOUS
    <3>2. OnHandAt(new, place) = OnHandAt(rows, place)
      BY <1>2, <3>1, OnHandSame DEF HoldOnly
    <3>3. OnHandAt(rows, place)' = OnHandAt(new, place)
      BY <3>1 DEF OnHandAt
    <3> QED BY <3>2, <3>3
  <2> QED BY <2>1 DEF StockNow
<1>3. CASE \E p \in Clients : Commit(p)
  <2>1. PICK p \in Clients : Commit(p)
    BY <1>3
  <2>2. /\ dto[p] \in Transactions \cup Takes /\ dto[p] \in Dto
        /\ \A place \in Places : OnHandAt(Overlay(p), place) =
             OnHandAt(rows, place) - Out(dto[p], place) + In(dto[p], place)
        /\ dto[p].from # NoPlace => OnHandAt(rows, dto[p].from) >= dto[p].qty
    BY <2>1 DEF Commit, Posting, Moves, Base, TypeInv, InFlightOK
  <2>3. ASSUME NEW place \in Places
        PROVE  OnHandAt(rows, place)' = OnHandAt(rows, place) + Ledger!Leg(dto[p], place)
    <3>1. rows' = Overlay(p)
      BY <2>1 DEF Commit
    <3>2. OnHandAt(rows, place)' = OnHandAt(Overlay(p), place)
      BY <3>1 DEF OnHandAt
    <3>3. /\ OnHandAt(rows, place) \in Int
          /\ Out(dto[p], place) \in Int /\ In(dto[p], place) \in Int
      BY <2>2, OverlayContents, HeldAtInt DEF Out, In, Dto
    <3>4. Ledger!Leg(dto[p], place) = In(dto[p], place) - Out(dto[p], place)
      BY DEF Ledger!Leg, In, Out
    <3>5. OnHandAt(Overlay(p), place) =
            OnHandAt(rows, place) - Out(dto[p], place) + In(dto[p], place)
      BY <2>2
    <3> QED BY <3>2, <3>3, <3>4, <3>5
  <2>4. dto[p].from # NoPlace => dto[p].from \in Places
    BY <2>2 DEF Dto
  <2>5. dto[p].from # NoPlace => StockNow[dto[p].from] >= dto[p].qty
    BY <2>2, <2>4 DEF StockNow
  <2>6. StockNow' = [place \in Places |-> StockNow[place] + Ledger!Leg(dto[p], place)]
    BY <2>3 DEF StockNow
  <2>7. Ledger!Move(dto[p])
    BY <2>5, <2>6 DEF Ledger!Move, StockNow
  <2> QED BY <2>2, <2>7 DEF Ledger!Next
<1> QED BY <1>1, <1>2, <1>3, RowsChange DEF Base

\* recordTransaction, transferToLine: when requests do not overlap, the
\* positions implement the stock ledger, for every number of rows and places:
\* each commit is one movement, refused when the place holds too little, and
\* nothing else, no failure, hold or supply cut short, changes a quantity.
THEOREM InventoryImplementsLedger == ASSUME OneAtATime PROVE Spec => ImplementsLedger
<1>1. Init => Ledger!Init
  BY DEF Init, Ledger!Init
<1>2. Base /\ Posting /\ [Next]_vars => [Ledger!Next]_StockNow
  BY LedgerMoves
<1> QED BY <1>1, <1>2, PostingHolds, PTL DEF Spec, ImplementsLedger, Ledger!Spec, StockNow
=============================================================================
