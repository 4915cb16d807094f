----------------------- MODULE DocumentNumberingProofs -----------------------
(***************************************************************************)
(* TLAPS proofs about DocumentNumbering: type correctness for every value  *)
(* of the constants, the uniqueness of folios and the exact total for any  *)
(* number of concurrent allocators of a type that is provisioned and not   *)
(* edited, and what holds also of edits when requests do not overlap.      *)
(***************************************************************************)
EXTENDS DocumentNumbering, FiniteSetTheorems, TLAPS

\* What a request in flight holds in memory.
EntityOK ==
  \A p \in Processes :
    /\ pc[p] \in {"locked", "numbered", "editing"} => entity[p] \in Row
    /\ pc[p] = "editing" => rowOf[p] \in RowIds

\* computePeriodKey is a total function into the naturals, monotone in time.
LEMMA WindowLemma ==
  ASSUME NEW p \in Precision, NEW m \in Months, NEW n \in Months, m <= n
  PROVE  /\ Window(p, m) \in Nat
         /\ Window(p, n) \in Nat
         /\ Window(p, m) <= Window(p, n)
BY CalendarAssumption DEF Window, Precision, Months

LEMMA WindowNat ==
  ASSUME NEW p \in Precision, NEW m \in Months
  PROVE  Window(p, m) \in Nat
BY CalendarAssumption DEF Window, Precision, Months

\* A new row is well formed, and a roll-over keeps a row so.
LEMMA FreshType ==
  ASSUME NEW s \in Nat \ {0}, NEW m \in Months
  PROVE  Fresh(Default, s, m) \in Row
<1>1. Default.policy \in Precision /\ Default.pattern \in Precision
  BY RowAssumption
<1>2. Window(Default.policy, m) \in Nat
  BY <1>1, WindowNat
<1> QED BY <1>1, <1>2 DEF Fresh, Row

LEMMA RolledOverType ==
  ASSUME NEW seq \in Row, NEW m \in Months
  PROVE  RolledOver(seq, m) \in Row
<1>1. seq.policy \in Precision
  BY DEF Row
<1>2. Window(seq.policy, m) \in Nat
  BY <1>1, WindowNat
<1>3. ASSUME NEW w \in Nat
      PROVE  [seq EXCEPT !.next = 1, !.period = w] \in Row
  <2>1. 1 \in Nat \ {0}
    OBVIOUS
  <2> QED BY <2>1 DEF Row
<1> QED BY <1>2, <1>3 DEF RolledOver

LEMMA TypeInit == Init => TypeOK /\ EntityOK
BY CalendarAssumption, RowAssumption
   DEF Init, TypeOK, EntityOK, Months, Folios, Processes

LEMMA TypeStep == TypeOK /\ EntityOK /\ [Next]_vars => (TypeOK /\ EntityOK)'
<1> SUFFICES ASSUME TypeOK, EntityOK, [Next]_vars PROVE (TypeOK /\ EntityOK)'
  OBVIOUS
<1> USE DEF TypeOK, EntityOK, Goes
<1>1. CASE Tick
  BY <1>1, CalendarAssumption DEF Tick, Months
<1>2. ASSUME NEW a \in Allocators, SelectForUpdate(a) PROVE (TypeOK /\ EntityOK)'
  BY <1>2 DEF SelectForUpdate, Live, Processes
<1>3. ASSUME NEW a \in Allocators, SelectMissing(a) PROVE (TypeOK /\ EntityOK)'
  <2>1. Fresh(Default, 1, month) \in Row
    BY FreshType
  <2> QED BY <1>3, <2>1 DEF SelectMissing, Processes
<1>4. ASSUME NEW a \in Allocators, NEW n \in BlockSizes, Number(a, n)
      PROVE (TypeOK /\ EntityOK)'
  <2> DEFINE seq == RolledOver(entity[a], month)
             new == [seq EXCEPT !.next = seq.next + n, !.total = seq.total + n]
             folios == {Folio(seq.pattern, month, k) :
                          k \in seq.next .. (seq.next + n - 1)}
  <2>1. n \in Nat \ {0}
    BY ProcessAssumption
  <2>2. seq \in Row
    BY <1>4, RolledOverType DEF Number, Processes
  <2>3. new \in Row
    <3>1. seq.next + n \in Nat \ {0} /\ seq.total + n \in Nat
      BY <2>1, <2>2 DEF Row
    <3> QED BY <2>2, <3>1 DEF Row
  <2>4. folios \in SUBSET Folios
    <3>1. seq.pattern \in Precision /\ Window(seq.pattern, month) \in Nat
      BY <2>2, WindowNat DEF Row
    <3>2. \A k \in seq.next .. (seq.next + n - 1) : k \in Nat \ {0}
      BY <2>1, <2>2 DEF Row
    <3> QED BY <3>1, <3>2 DEF Folio, Folios
  <2>5. /\ block' = [block EXCEPT ![a] = folios]
        /\ entity' = [entity EXCEPT ![a] = new]
        /\ pc' = [pc EXCEPT ![a] = "numbered"]
        /\ rowOf' = [rowOf EXCEPT ![a] = rowOf[a]]
        /\ UNCHANGED <<month, rows, lock, issued, reissued>>
    BY <1>4 DEF Number
  <2> HIDE DEF seq, new, folios
  <2> QED BY <2>3, <2>4, <2>5 DEF Processes
<1>5. ASSUME NEW a \in Allocators, Commit(a) PROVE (TypeOK /\ EntityOK)'
  <2>1. entity[a] \in Row /\ a \in Processes
    BY <1>5 DEF Commit, Processes
  <2>2. rows' \in [RowIds -> Row \cup {NoRow}]
    BY <1>5, <2>1 DEF Commit
  <2>3. lock' \in [RowIds -> Allocators \cup {Nobody}]
    BY <1>5 DEF Commit, Unlocked
  <2>4. issued' \subseteq Folios /\ reissued' \subseteq issued'
    BY <1>5, <2>1 DEF Commit
  <2> QED BY <1>5, <2>1, <2>2, <2>3, <2>4 DEF Commit
<1>6. ASSUME NEW a \in Allocators, Abort(a) PROVE (TypeOK /\ EntityOK)'
  BY <1>6 DEF Abort, Unlocked, Processes
<1>7. ASSUME NEW d \in Admins, CreateCheck(d) PROVE (TypeOK /\ EntityOK)'
  BY <1>7 DEF CreateCheck, Processes
<1>8. ASSUME NEW d \in Admins, NEW s \in StartValues, CreateInsert(d, s)
      PROVE (TypeOK /\ EntityOK)'
  <2>1. Fresh(Default, s, month) \in Row
    BY FreshType, ProcessAssumption
  <2> QED BY <1>8, <2>1 DEF CreateInsert, Processes
<1>9. ASSUME NEW d \in Admins, UpdateLoad(d) PROVE (TypeOK /\ EntityOK)'
  BY <1>9 DEF UpdateLoad, Live, Processes
<1>10. ASSUME NEW d \in Admins, NEW dto \in Edits, UpdateSave(d, dto)
       PROVE (TypeOK /\ EntityOK)'
  <2>1. entity[d] \in Row /\ rowOf[d] \in RowIds
    BY <1>10 DEF UpdateSave, Processes
  <2>2. dto.policy # Keep => dto.policy \in Precision /\ Window(dto.policy, month) \in Nat
    BY RowAssumption, WindowNat
  <2>3. Edited(entity[d], dto, month) \in Row
    BY <2>1, <2>2, RowAssumption DEF Edited, Given, Row
  <2> QED BY <1>10, <2>1, <2>3 DEF UpdateSave, Processes
<1>11. ASSUME NEW d \in Admins, NEW dto \in Edits, UpdateReject(d, dto)
       PROVE (TypeOK /\ EntityOK)'
  BY <1>11 DEF UpdateReject, Processes
<1>12. CASE UNCHANGED vars
  BY <1>12 DEF vars
<1> QED
  BY <1>1, <1>2, <1>3, <1>4, <1>5, <1>6, <1>7, <1>8, <1>9, <1>10, <1>11, <1>12
     DEF Next, Allocation, Administration

\* Every reachable state of the folio service is well formed, whatever its
\* allocators, admins, rows and edits (allocateNumbers, create, update).
THEOREM TypeCorrect == Spec => []TypeOK
<1>1. Spec => [](TypeOK /\ EntityOK)
  BY TypeInit, TypeStep, PTL DEF Spec
<1> QED BY <1>1, PTL
-----------------------------------------------------------------------------
(***************************************************************************)
(* Uniqueness.  r0 is the only row of the type, its pattern prints at      *)
(* least the window its policy resets on, and no admin request runs.       *)
(***************************************************************************)
Finer(pattern, policy) ==
  \/ policy = "none"
  \/ pattern = "month"
  \/ pattern = policy

ProvisionedAt(r0) ==
  /\ InitRows[r0] \in Row
  /\ \A r \in RowIds \ {r0} : InitRows[r] = NoRow
  /\ Finer(InitRows[r0].pattern, InitRows[r0].policy)
  /\ InitRows[r0].period <= Window(InitRows[r0].policy, 0)

\* The row r0 keeps its configuration and its window is not in the future.
RowOK(r0, seq) ==
  /\ seq \in Row
  /\ seq.pattern = InitRows[r0].pattern /\ seq.policy = InitRows[r0].policy
  /\ seq.period <= Window(seq.policy, month)

\* The folio f was printed in some past month m, in a window not after the
\* row's, and below the counter when it is the same window.
Behind(f, seq) ==
  /\ f.pattern = seq.pattern
  /\ \E m \in 0 .. month :
       /\ f.window = Window(seq.pattern, m)
       /\ Window(seq.policy, m) <= seq.period
       /\ Window(seq.policy, m) = seq.period => f.seq < seq.next

\* What the request a knows of r0: it holds its lock, it has its content, and
\* the folios it has rendered are new and behind the counter it will save.
RequestOK(r0, a) ==
  /\ pc[a] \in {"idle", "locked", "numbered"}
  /\ pc[a] # "idle" => rowOf[a] = r0 /\ lock[r0] = a
  /\ pc[a] = "locked" => entity[a] = rows[r0]
  /\ pc[a] = "numbered" =>
       /\ RowOK(r0, entity[a])
       /\ \A f \in issued \cup block[a] : Behind(f, entity[a])
       /\ issued \cap block[a] = {}

UniqueInv(r0) ==
  /\ \A r \in RowIds \ {r0} : rows[r] = NoRow
  /\ RowOK(r0, rows[r0])
  /\ \A f \in issued : Behind(f, rows[r0])
  /\ \A a \in Allocators : RequestOK(r0, a)
  /\ reissued = {}

\* Two months that print the same under a finer pattern are in the same window.
LEMMA FinerLemma ==
  ASSUME NEW q \in Precision, NEW p \in Precision, Finer(p, q),
         NEW m \in Months, NEW n \in Months, Window(p, m) = Window(p, n)
  PROVE  Window(q, m) = Window(q, n)
BY DEF Finer, Window, Precision

LEMMA UniqueInit ==
  ASSUME NEW r0 \in RowIds, ProvisionedAt(r0), Init
  PROVE  UniqueInv(r0)
<1>1. RowOK(r0, rows[r0])
  BY DEF ProvisionedAt, Init, RowOK
<1>2. \A a \in Allocators : RequestOK(r0, a)
  BY DEF Init, RequestOK, Processes
<1> QED BY <1>1, <1>2 DEF UniqueInv, ProvisionedAt, Init

\* A folio stays behind a row when the clock moves on.
LEMMA BehindTick ==
  ASSUME NEW seq \in Row, NEW f \in Folios, Behind(f, seq), TypeOK, Tick
  PROVE  Behind(f, seq)'
<1>1. PICK m \in 0 .. month :
        /\ f.window = Window(seq.pattern, m)
        /\ Window(seq.policy, m) <= seq.period
        /\ Window(seq.policy, m) = seq.period => f.seq < seq.next
  BY DEF Behind
<1>2. m \in 0 .. month' /\ f.pattern = seq.pattern
  BY CalendarAssumption DEF Tick, TypeOK, Months, Behind
<1> QED BY <1>1, <1>2 DEF Behind

LEMMA RowTick ==
  ASSUME NEW r0 \in RowIds, NEW seq, RowOK(r0, seq), TypeOK, Tick
  PROVE  RowOK(r0, seq)'
<1>1. month \in Months /\ month' \in Months /\ month <= month'
  BY CalendarAssumption DEF Tick, TypeOK, Months
<1>2. seq.policy \in Precision /\ seq.period \in Nat
  BY DEF RowOK, Row
<1>3. /\ Window(seq.policy, month) \in Nat
      /\ Window(seq.policy, month') \in Nat
      /\ Window(seq.policy, month) <= Window(seq.policy, month')
  BY <1>1, <1>2, WindowLemma
<1>4. seq.period <= Window(seq.policy, month')
  BY <1>2, <1>3 DEF RowOK
<1> QED BY <1>4 DEF RowOK

\* After the roll-over every issued folio is still behind the counter, and the
\* row's window is the current one.
LEMMA RollOver ==
  ASSUME NEW r0 \in RowIds, NEW seq, RowOK(r0, seq), TypeOK
  PROVE  /\ RowOK(r0, RolledOver(seq, month))
         /\ RolledOver(seq, month).period = Window(seq.policy, month)
         /\ \A f \in Folios : Behind(f, seq) => Behind(f, RolledOver(seq, month))
<1> DEFINE new == RolledOver(seq, month)
           w   == Window(seq.policy, month)
<1>1. seq \in Row /\ month \in Months /\ w \in Nat
  <2>1. seq \in Row /\ month \in Months
    BY DEF RowOK, TypeOK
  <2> QED BY <2>1, WindowNat DEF Row
<1>2. /\ new \in Row /\ new.pattern = seq.pattern /\ new.policy = seq.policy
      /\ new.period = w
      /\ seq.period = w => new = seq
  <2>1. new \in Row
    BY <1>1, RolledOverType
  <2> QED BY <2>1, <1>1 DEF RolledOver, Row
<1>3. ASSUME NEW f \in Folios, Behind(f, seq) PROVE Behind(f, new)
  <2>1. CASE seq.period = w
    BY <2>1, <1>2, <1>3
  <2>2. CASE seq.period # w
    <3>1. PICK m \in 0 .. month :
            /\ f.window = Window(seq.pattern, m)
            /\ Window(seq.policy, m) <= seq.period
      BY <1>3 DEF Behind
    <3>2. m \in Months /\ m <= month
      BY <1>1, CalendarAssumption DEF Months
    <3>3. seq.policy \in Precision
      BY <1>1 DEF Row
    <3>4. Window(seq.policy, m) \in Nat
      BY <3>2, <3>3, WindowNat
    <3>5. seq.period <= w /\ seq.period \in Nat
      BY <1>1 DEF RowOK, Row
    <3>6. Window(seq.policy, m) < w
      BY <3>1, <3>4, <3>5, <1>1, <2>2
    <3>7. Window(new.policy, m) <= new.period /\ Window(new.policy, m) # new.period
      BY <3>6, <3>4, <1>1, <1>2
    <3> QED BY <3>1, <3>7, <1>2, <1>3 DEF Behind
  <2> QED BY <2>1, <2>2
<1>4. RowOK(r0, new)
  BY <1>1, <1>2 DEF RowOK
<1> QED BY <1>2, <1>3, <1>4

\* Numbering renders folios that nobody has received, all behind the counter
\* the request will save.
LEMMA NumberStep ==
  ASSUME NEW r0 \in RowIds, ProvisionedAt(r0), TypeOK, UniqueInv(r0),
         NEW a \in Allocators, NEW n \in BlockSizes, Number(a, n)
  PROVE  RequestOK(r0, a)'
<1> DEFINE seq == RolledOver(entity[a], month)
           new == [seq EXCEPT !.next = seq.next + n, !.total = seq.total + n]
           folios == {Folio(seq.pattern, month, k) :
                        k \in seq.next .. (seq.next + n - 1)}
<1>1. a \in Processes /\ n \in Nat \ {0} /\ month \in Months
  BY ProcessAssumption DEF Processes, TypeOK
<1>2. pc[a] = "locked" /\ entity[a] = rows[r0] /\ rowOf[a] = r0 /\ lock[r0] = a
  BY DEF Number, UniqueInv, RequestOK
<1>3. /\ RowOK(r0, seq)
      /\ seq.period = Window(seq.policy, month)
      /\ \A f \in issued : Behind(f, seq)
  <2>1. RowOK(r0, entity[a]) /\ \A f \in issued : f \in Folios /\ Behind(f, entity[a])
    BY <1>2 DEF UniqueInv, TypeOK
  <2>2. seq.policy = entity[a].policy
    BY <2>1, RollOver DEF RowOK
  <2> QED BY <2>1, <2>2, RollOver
<1>4. /\ new \in Row /\ new.pattern = seq.pattern /\ new.policy = seq.policy
      /\ new.period = seq.period /\ new.next = seq.next + n
  <2>1. seq \in Row
    BY <1>3 DEF RowOK
  <2>2. seq.next + n \in Nat \ {0} /\ seq.total + n \in Nat
    BY <2>1, <1>1 DEF Row
  <2> HIDE DEF seq
  <2> QED BY <2>1, <2>2 DEF Row
<1>5. seq.next \in Nat \ {0} /\ seq.policy \in Precision /\ seq.pattern \in Precision
  BY <1>3 DEF RowOK, Row
<1>6. RowOK(r0, new)
  BY <1>3, <1>4 DEF RowOK
<1>7. \A f \in issued : Behind(f, new)
  <2>1. TAKE f \in issued
  <2>2. PICK m \in 0 .. month :
          /\ f.window = Window(seq.pattern, m)
          /\ Window(seq.policy, m) <= seq.period
          /\ Window(seq.policy, m) = seq.period => f.seq < seq.next
    BY <1>3 DEF Behind
  <2>3. f.seq \in Nat /\ f.pattern = seq.pattern
    BY <1>3 DEF TypeOK, Folios, Behind
  <2>4. f.seq < seq.next => f.seq < seq.next + n
    BY <2>3, <1>1, <1>5
  <2> HIDE DEF seq, new
  <2> QED BY <2>2, <2>3, <2>4, <1>4 DEF Behind
<1>8. \A f \in folios : Behind(f, new) /\ f \notin issued
  <2>1. TAKE f \in folios
  <2>2. PICK k \in seq.next .. (seq.next + n - 1) : f = Folio(seq.pattern, month, k)
    OBVIOUS
  <2>3. /\ f.pattern = seq.pattern /\ f.window = Window(seq.pattern, month)
        /\ f.seq >= seq.next /\ f.seq < seq.next + n
    BY <2>2, <1>1, <1>5 DEF Folio
  <2>4. month \in 0 .. month
    BY <1>1, CalendarAssumption DEF Months
  <2>5. Window(seq.policy, month) <= seq.period
    BY <1>3, <1>1, <1>5, WindowNat
  <2> HIDE DEF seq, new, folios
  <2>6. Behind(f, new)
    BY <2>3, <2>4, <2>5, <1>4 DEF Behind
  <2>7. ASSUME f \in issued PROVE FALSE
    <3>1. PICK m \in 0 .. month :
            /\ f.window = Window(seq.pattern, m)
            /\ Window(seq.policy, m) = seq.period => f.seq < seq.next
      BY <2>7, <1>3 DEF Behind
    <3>2. m \in Months
      BY <1>1, CalendarAssumption DEF Months
    <3>3. Finer(seq.pattern, seq.policy)
      BY <1>3 DEF RowOK, ProvisionedAt
    <3>4. Window(seq.policy, m) = Window(seq.policy, month)
      BY <2>3, <3>1, <3>2, <3>3, <1>1, <1>5, FinerLemma
    <3>5. f.seq \in Nat
      BY <2>7 DEF TypeOK, Folios
    <3> QED BY <2>3, <3>1, <3>4, <3>5, <1>3, <1>5
  <2> QED BY <2>6, <2>7
\* The values saved, as constants: the next step talks of the next state.
<1>9. PICK e, fs : e = new /\ fs = folios
  OBVIOUS
<1>10. /\ pc'[a] = "numbered" /\ rowOf'[a] = r0 /\ entity'[a] = e
       /\ block'[a] = fs
       /\ UNCHANGED <<month, lock, issued>>
  BY <1>1, <1>2, <1>9 DEF Number, Goes, TypeOK
<1> HIDE DEF seq, new, folios
<1>11. RowOK(r0, e)'
  BY <1>6, <1>9, <1>10 DEF RowOK
<1>12. \A f \in issued \cup fs : Behind(f, e)'
  BY <1>7, <1>8, <1>9, <1>10 DEF Behind
<1>13. RowOK(r0, entity[a])'
  BY <1>10, <1>11 DEF RowOK
<1>14. (\A f \in issued \cup block[a] : Behind(f, entity[a]))'
  BY <1>10, <1>12 DEF Behind
<1>15. (issued \cap block[a] = {})'
  BY <1>8, <1>9, <1>10
<1> QED BY <1>2, <1>10, <1>13, <1>14, <1>15 DEF RequestOK

\* The lock on r0 serialises the requests, so a step of one finds the others
\* idle; the other conjuncts follow action by action.
LEMMA UniqueStep ==
  ASSUME Admins = {}, NEW r0 \in RowIds, ProvisionedAt(r0),
         TypeOK, EntityOK, UniqueInv(r0), [Next]_vars
  PROVE  UniqueInv(r0)'
<1>1. /\ rows[r0] \in Row /\ rows[r0] # NoRow
      /\ \A r \in RowIds : r # r0 => rows[r] = NoRow
      /\ Live = {r0}
  BY RowAssumption DEF UniqueInv, RowOK, Live
<1>2. ASSUME NEW a \in Allocators, NEW b \in Allocators, pc[a] # "idle", b # a
      PROVE  pc[b] = "idle"
  BY <1>2 DEF UniqueInv, RequestOK
<1>3. CASE Tick
  <2>1. UNCHANGED <<rows, lock, pc, rowOf, entity, block, issued, reissued>>
    BY <1>3 DEF Tick
  <2>2. RowOK(r0, rows[r0])'
    <3>1. PICK e : e = rows[r0]
      OBVIOUS
    <3> QED BY <3>1, <2>1, <1>3, RowTick DEF UniqueInv, RowOK
  <2>3. (\A f \in issued : Behind(f, rows[r0]))'
    <3>1. PICK e : e = rows[r0]
      OBVIOUS
    <3>2. \A f \in issued : Behind(f, e)'
      BY <3>1, <1>1, <1>3, BehindTick DEF UniqueInv, TypeOK
    <3> QED BY <3>1, <3>2, <2>1 DEF Behind
  <2>4. ASSUME NEW a \in Allocators PROVE RequestOK(r0, a)'
    <3>1. CASE pc[a] # "numbered"
      BY <3>1, <2>1 DEF UniqueInv, RequestOK
    <3>2. CASE pc[a] = "numbered"
      <4>1. PICK e : e = entity[a]
        OBVIOUS
      <4>2. /\ RowOK(r0, e) /\ e \in Row
            /\ \A f \in issued \cup block[a] : f \in Folios /\ Behind(f, e)
        BY <3>2, <4>1 DEF UniqueInv, RequestOK, TypeOK, RowOK, Processes
      <4>3. RowOK(r0, e)' /\ \A f \in issued \cup block[a] : Behind(f, e)'
        BY <4>2, <1>3, RowTick, BehindTick
      <4>4. RowOK(r0, entity[a])'
        BY <4>1, <4>3, <2>1 DEF RowOK
      <4>5. (\A f \in issued \cup block[a] : Behind(f, entity[a]))'
        BY <4>1, <4>3, <2>1 DEF Behind
      <4> QED BY <3>2, <2>1, <4>4, <4>5 DEF UniqueInv, RequestOK
    <3> QED BY <3>1, <3>2
  <2> QED BY <2>1, <2>2, <2>3, <2>4 DEF UniqueInv
<1>4. ASSUME NEW a \in Allocators, SelectForUpdate(a) PROVE UniqueInv(r0)'
  <2>1. /\ lock[r0] = Nobody /\ lock'[r0] = a /\ a \in Processes
        /\ pc' = [pc EXCEPT ![a] = "locked"]
        /\ rowOf' = [rowOf EXCEPT ![a] = r0]
        /\ entity' = [entity EXCEPT ![a] = rows[r0]]
        /\ UNCHANGED <<month, rows, block, issued, reissued>>
    BY <1>1, <1>4 DEF SelectForUpdate, Lockable, Goes, Processes
  <2>2. ASSUME NEW b \in Allocators PROVE pc[b] = "idle"
    BY <2>1, ProcessAssumption DEF UniqueInv, RequestOK
  <2>3. RequestOK(r0, a)'
    BY <2>1 DEF RequestOK, TypeOK
  <2>4. ASSUME NEW b \in Allocators, b # a PROVE RequestOK(r0, b)'
    BY <2>1, <2>2, <2>4 DEF RequestOK, TypeOK, Processes
  <2> QED BY <2>1, <2>3, <2>4 DEF UniqueInv, RowOK, Behind
<1>5. ASSUME NEW a \in Allocators, SelectMissing(a) PROVE UniqueInv(r0)'
  BY <1>1, <1>5 DEF SelectMissing
<1>6. ASSUME NEW a \in Allocators, NEW n \in BlockSizes, Number(a, n)
      PROVE  UniqueInv(r0)'
  <2>1. RequestOK(r0, a)'
    BY <1>6, NumberStep
  <2>2. /\ pc[a] # "idle"
        /\ UNCHANGED <<month, rows, lock, issued, reissued>>
        /\ \A b \in Processes : b # a => pc'[b] = pc[b]
    BY <1>6 DEF Number, Goes, TypeOK, Processes
  <2>3. ASSUME NEW b \in Allocators, b # a PROVE RequestOK(r0, b)'
    BY <2>2, <2>3, <1>2 DEF RequestOK, Processes
  <2> QED BY <2>1, <2>2, <2>3 DEF UniqueInv, RowOK, Behind
<1>7. ASSUME NEW a \in Allocators, Commit(a) PROVE UniqueInv(r0)'
  <2>1. /\ pc[a] = "numbered" /\ rowOf[a] = r0 /\ r0 # NoRow
        /\ RowOK(r0, entity[a])
        /\ \A f \in issued \cup block[a] : Behind(f, entity[a])
        /\ issued \cap block[a] = {}
    BY <1>7, RowAssumption DEF Commit, UniqueInv, RequestOK
  <2>2. /\ rows' = [rows EXCEPT ![r0] = entity[a]]
        /\ issued' = issued \cup block[a]
        /\ reissued' = {}
        /\ pc' = [pc EXCEPT ![a] = "idle"]
        /\ UNCHANGED month
    BY <1>7, <2>1 DEF Commit, Goes, UniqueInv
  <2>3. PICK e : e = entity[a]
    OBVIOUS
  <2>4. rows'[r0] = e /\ RowOK(r0, e)' /\ \A f \in issued' : Behind(f, e)'
    BY <2>1, <2>2, <2>3 DEF RowOK, Behind, TypeOK
  <2>5. \A b \in Allocators : pc'[b] = "idle"
    BY <2>1, <2>2, <1>2 DEF TypeOK, Processes
  <2>6. \A b \in Allocators : RequestOK(r0, b)'
    BY <2>5 DEF RequestOK
  <2>7. RowOK(r0, rows[r0])'
    BY <2>4 DEF RowOK
  <2>8. (\A f \in issued : Behind(f, rows[r0]))'
    BY <2>4 DEF Behind
  <2> QED BY <1>1, <2>2, <2>6, <2>7, <2>8 DEF UniqueInv, TypeOK
<1>8. ASSUME NEW a \in Allocators, Abort(a) PROVE UniqueInv(r0)'
  <2>1. /\ pc[a] # "idle" /\ pc' = [pc EXCEPT ![a] = "idle"]
        /\ UNCHANGED <<month, rows, issued, reissued>>
    BY <1>8 DEF Abort, Goes
  <2>2. \A b \in Allocators : pc'[b] = "idle"
    BY <2>1, <1>2 DEF TypeOK, Processes
  <2>3. \A b \in Allocators : RequestOK(r0, b)'
    BY <2>2 DEF RequestOK
  <2> QED BY <2>1, <2>3 DEF UniqueInv, RowOK, Behind
<1>9. CASE UNCHANGED vars
  BY <1>9 DEF vars, UniqueInv, RowOK, Behind, RequestOK
<1> QED
  BY <1>3, <1>4, <1>5, <1>6, <1>7, <1>8, <1>9 DEF Next, Allocation

\* Any number of concurrent allocations of a provisioned type, with failures at
\* any point and at any turn of the calendar, never hand out a folio twice
\* (allocateNumbers under its FOR UPDATE lock).
THEOREM FoliosAreUnique ==
  ASSUME Admins = {}, NEW r0 \in RowIds, ProvisionedAt(r0)
  PROVE  Spec => []UniqueFolios
<1>1. Init => UniqueInv(r0)
  BY UniqueInit
<1>2. TypeOK /\ EntityOK /\ UniqueInv(r0) /\ [Next]_vars => UniqueInv(r0)'
  BY UniqueStep
<1>3. UniqueInv(r0) => UniqueFolios
  BY DEF UniqueInv, UniqueFolios
<1> QED BY <1>1, <1>2, <1>3, TypeInit, TypeStep, PTL DEF Spec
-----------------------------------------------------------------------------
(***************************************************************************)
(* totalIssued: a block of n numbers is n folios, none of them issued yet. *)
(***************************************************************************)
Block(pattern, m, first, n) == {Folio(pattern, m, k) : k \in first .. (first + n - 1)}

LEMMA BlockSize ==
  ASSUME NEW pattern, NEW m, NEW first \in Nat, NEW n \in Nat \ {0}
  PROVE  /\ IsFiniteSet(Block(pattern, m, first, n))
         /\ Cardinality(Block(pattern, m, first, n)) = n
<1> DEFINE numbers == first .. (first + n - 1)
           folios == {Folio(pattern, m, k) : k \in numbers}
           f == [k \in numbers |-> Folio(pattern, m, k)]
<1>1. IsFiniteSet(numbers) /\ Cardinality(numbers) = n
  <2>1. first \in Int /\ first + n - 1 \in Int /\ ~ (first > first + n - 1)
    OBVIOUS
  <2>2. (first + n - 1) - first + 1 = n
    OBVIOUS
  <2> QED BY <2>1, <2>2, FS_Interval
<1>2. \A k, l \in numbers : f[k] = f[l] => k = l
  BY DEF Folio
<1> HIDE DEF numbers
<1>3. f \in Surjection(numbers, folios)
  BY DEF Surjection
<1>4. f \in Injection(numbers, folios)
  BY <1>2, <1>3 DEF Surjection, Injection, IsInjective
<1> HIDE DEF f, folios
<1>5. IsFiniteSet(folios) /\ Cardinality(folios) = Cardinality(numbers)
  BY <1>1, <1>3, <1>4, FS_Surjection
<1> QED BY <1>1, <1>5 DEF folios, numbers, Block

\* The counter of numbers a row has given is exact, and so is the one that a
\* request is about to save.
CountsOK(r0) ==
  /\ IsFiniteSet(issued) /\ rows[r0].total = Cardinality(issued)
  /\ \A a \in Allocators : pc[a] = "numbered" =>
       /\ IsFiniteSet(block[a])
       /\ entity[a].total = Cardinality(issued) + Cardinality(block[a])

LEMMA CountsStep ==
  ASSUME Admins = {}, NEW r0 \in RowIds, ProvisionedAt(r0),
         TypeOK, EntityOK, UniqueInv(r0), CountsOK(r0), [Next]_vars
  PROVE  CountsOK(r0)'
<1>1. ASSUME UNCHANGED <<rows, issued>>,
             \A a \in Allocators : pc'[a] = "numbered" =>
               pc[a] = "numbered" /\ block'[a] = block[a] /\ entity'[a] = entity[a]
      PROVE  CountsOK(r0)'
  BY <1>1 DEF CountsOK
<1>2. ASSUME NEW a \in Allocators, SelectForUpdate(a) \/ SelectMissing(a) \/ Abort(a)
      PROVE  CountsOK(r0)'
  <2>1. /\ UNCHANGED <<rows, issued>> /\ pc'[a] # "numbered" /\ a \in Processes
        /\ \A b \in Allocators \ {a} :
             pc'[b] = pc[b] /\ block'[b] = block[b] /\ entity'[b] = entity[b]
    BY <1>2 DEF SelectForUpdate, SelectMissing, Abort, Goes, TypeOK, Processes
  <2> QED BY <1>1, <2>1
<1>3. ASSUME NEW a \in Allocators, NEW n \in BlockSizes, Number(a, n)
      PROVE  CountsOK(r0)'
  <2> DEFINE seq == RolledOver(entity[a], month)
             new == [seq EXCEPT !.next = seq.next + n, !.total = seq.total + n]
             folios == {Folio(seq.pattern, month, k) :
                          k \in seq.next .. (seq.next + n - 1)}
  <2>1. /\ a \in Processes /\ n \in Nat \ {0} /\ month \in Months
        /\ entity[a] \in Row /\ entity[a].total = Cardinality(issued)
    <3>1. a \in Processes /\ n \in Nat \ {0} /\ month \in Months /\ pc[a] = "locked"
      BY <1>3, ProcessAssumption DEF Processes, TypeOK, Number
    <3>2. entity[a] \in Row /\ entity[a] = rows[r0]
      BY <3>1 DEF EntityOK, UniqueInv, RequestOK
    <3> QED BY <3>1, <3>2 DEF CountsOK
  <2>2. seq \in Row /\ seq.total = entity[a].total
    BY <2>1, RolledOverType DEF RolledOver, Row
  <2>3. seq.next \in Nat
    BY <2>2 DEF Row
  <2>4. IsFiniteSet(folios) /\ Cardinality(folios) = n
    <3> HIDE DEF seq
    <3>1. n \in Nat \ {0}
      BY <2>1
    <3>2. folios = Block(seq.pattern, month, seq.next, n)
      BY DEF Block
    <3> QED BY <2>3, <3>1, <3>2, BlockSize
  <2> HIDE DEF seq
  <2>5. new.total = Cardinality(issued) + n
    BY <2>1, <2>2 DEF Row
  <2>6. /\ block'[a] = folios /\ entity'[a] = new /\ UNCHANGED <<rows, issued>>
        /\ \A b \in Allocators \ {a} :
             pc'[b] = pc[b] /\ block'[b] = block[b] /\ entity'[b] = entity[b]
    BY <1>3, <2>1 DEF Number, Goes, TypeOK, Processes, seq
  <2> HIDE DEF new, folios
  <2>7. ASSUME NEW b \in Allocators, pc'[b] = "numbered"
        PROVE  /\ IsFiniteSet(block'[b])
               /\ entity'[b].total = Cardinality(issued) + Cardinality(block'[b])
    <3>1. CASE b = a
      BY <2>4, <2>5, <2>6, <3>1
    <3>2. CASE b # a
      BY <2>6, <2>7, <3>2 DEF CountsOK
    <3> QED BY <3>1, <3>2
  <2> QED BY <2>6, <2>7 DEF CountsOK
<1>4. ASSUME NEW a \in Allocators, Commit(a) PROVE CountsOK(r0)'
  <2>1. /\ a \in Processes /\ pc[a] = "numbered" /\ rowOf[a] = r0 /\ r0 # NoRow
        /\ issued \cap block[a] = {}
        /\ entity[a].total = Cardinality(issued) + Cardinality(block[a])
        /\ IsFiniteSet(issued) /\ IsFiniteSet(block[a])
    BY <1>4, RowAssumption DEF Commit, UniqueInv, RequestOK, CountsOK, Processes
  <2>2. rows'[r0] = entity[a] /\ issued' = issued \cup block[a]
    BY <1>4, <2>1 DEF Commit, TypeOK
  <2>3. \A b \in Allocators : pc'[b] # "numbered"
    <3>1. \A b \in Allocators \ {a} : pc[b] = "idle"
      BY <2>1 DEF UniqueInv, RequestOK
    <3> QED BY <1>4, <2>1, <3>1 DEF Commit, Goes, TypeOK, Processes
  <2>4. /\ IsFiniteSet(issued \cup block[a])
        /\ Cardinality(issued \cup block[a]) = Cardinality(issued) + Cardinality(block[a])
    <3>1. Cardinality(issued) \in Nat /\ Cardinality(block[a]) \in Nat
      BY <2>1, FS_CardinalityType
    <3>2. Cardinality(issued \cap block[a]) = 0
      BY <2>1, FS_EmptySet
    <3>3. /\ IsFiniteSet(issued \cup block[a])
          /\ Cardinality(issued \cup block[a]) =
               Cardinality(issued) + Cardinality(block[a]) - Cardinality(issued \cap block[a])
      BY <2>1, FS_Union
    <3> QED BY <3>1, <3>2, <3>3
  <2> QED BY <2>1, <2>2, <2>3, <2>4 DEF CountsOK
<1>5. CASE Tick \/ UNCHANGED vars
  BY <1>1, <1>5 DEF Tick, vars
<1> QED BY <1>2, <1>3, <1>4, <1>5 DEF Next, Allocation

\* The total of the type counts exactly the folios that callers have received,
\* for any number of concurrent allocations and failures (allocateNumbers).
THEOREM TotalIsExact ==
  ASSUME Admins = {}, NEW r0 \in RowIds, ProvisionedAt(r0), InitRows[r0].total = 0
  PROVE  Spec => []TotalCountsIssued
<1>1. Init => UniqueInv(r0) /\ CountsOK(r0)
  BY UniqueInit, FS_EmptySet DEF Init, CountsOK, Processes
<1>2. TypeOK /\ EntityOK /\ UniqueInv(r0) /\ CountsOK(r0) /\ [Next]_vars
        => (UniqueInv(r0) /\ CountsOK(r0))'
  BY UniqueStep, CountsStep
<1>3. UniqueInv(r0) /\ CountsOK(r0) => TotalCountsIssued
  BY DEF UniqueInv, CountsOK, TotalCountsIssued, Live
<1> QED BY <1>1, <1>2, <1>3, TypeInit, TypeStep, PTL DEF Spec
-----------------------------------------------------------------------------
(***************************************************************************)
(* One request at a time: what a request holds is what the row still says. *)
(* Otherwise update() may save the counter it read before an allocation.   *)
(***************************************************************************)
Alone == \A p, q \in Processes : p # q => pc[p] = "idle" \/ pc[q] = "idle"

\* The copy that a request will save does not move the counter of its row back.
CopyCurrent(p) ==
  rowOf[p] # NoRow =>
    /\ rows[rowOf[p]] # NoRow
    /\ pc[p] \in {"locked", "editing"} => entity[p] = rows[rowOf[p]]
    /\ pc[p] = "numbered" => \/ entity[p].next >= rows[rowOf[p]].next
                             \/ entity[p].period # rows[rowOf[p]].period

Serial == Alone /\ \A p \in Processes : pc[p] # "idle" => CopyCurrent(p)

\* What one request does when it runs alone.
LEMMA AloneStep ==
  ASSUME TypeOK, Serial, NEW p \in Processes,
         \A q \in Processes \ {p} : pc[q] = "idle" /\ pc'[q] = pc[q],
         pc'[p] # "idle" => CopyCurrent(p)'
  PROVE  Serial'
<1>1. Alone'
  BY DEF Alone
<1>2. ASSUME NEW q \in Processes, pc'[q] # "idle" PROVE CopyCurrent(q)'
  <2>1. q = p
    BY <1>2
  <2> QED BY <1>2, <2>1
<1> QED BY <1>1, <1>2 DEF Serial

LEMMA SerialStep ==
  ASSUME OneAtATime, TypeOK, EntityOK, Serial, [Next]_vars
  PROVE  Serial'
<1>1. ASSUME NEW a \in Processes, SelectForUpdate(a) \/ UpdateLoad(a) PROVE Serial'
  <2>1. PICK r \in Live : pc'[a] # "numbered" /\ rowOf'[a] = r /\ entity'[a] = rows[r]
    BY <1>1 DEF SelectForUpdate, UpdateLoad, Goes, TypeOK
  <2>2. /\ UNCHANGED rows
        /\ \A q \in Processes \ {a} : pc[q] = "idle" /\ pc'[q] = pc[q]
    BY <1>1 DEF SelectForUpdate, UpdateLoad, Starts, Goes, TypeOK
  <2>3. CopyCurrent(a)'
    BY <2>1, <2>2 DEF CopyCurrent, Live
  <2> QED BY <2>2, <2>3, AloneStep
<1>2. ASSUME NEW a \in Processes, SelectMissing(a) \/ CreateCheck(a) PROVE Serial'
  <2>1. /\ rowOf'[a] = NoRow
        /\ \A q \in Processes \ {a} : pc[q] = "idle" /\ pc'[q] = pc[q]
    BY <1>2 DEF SelectMissing, CreateCheck, Starts, Goes, TypeOK
  <2> QED BY <2>1, AloneStep DEF CopyCurrent
<1>3. ASSUME NEW a \in Allocators, NEW n \in BlockSizes, Number(a, n) PROVE Serial'
  <2> DEFINE seq == RolledOver(entity[a], month)
             new == [seq EXCEPT !.next = seq.next + n, !.total = seq.total + n]
  <2>1. /\ a \in Processes /\ n \in Nat \ {0} /\ month \in Months
        /\ entity[a] \in Row /\ pc[a] = "locked" /\ CopyCurrent(a)
    BY <1>3, ProcessAssumption DEF Processes, TypeOK, Number, EntityOK, Serial
  <2>2. seq \in Row
    BY <2>1, RolledOverType
  <2>3. seq.next = entity[a].next \/ seq.period # entity[a].period
    BY <2>1 DEF RolledOver, Row
  <2> HIDE DEF seq
  <2>4. new.next = seq.next + n /\ new.period = seq.period /\ seq.next \in Nat
    BY <2>2 DEF Row
  <2>5. /\ pc'[a] = "numbered" /\ rowOf'[a] = rowOf[a] /\ entity'[a] = new
        /\ UNCHANGED rows
        /\ \A q \in Processes \ {a} : pc'[q] = pc[q]
    BY <1>3, <2>1 DEF Number, Goes, TypeOK, seq
  <2>6. \A q \in Processes \ {a} : pc[q] = "idle"
    BY <2>1 DEF Serial, Alone
  <2> HIDE DEF new
  <2>7. CopyCurrent(a)'
    BY <2>1, <2>3, <2>4, <2>5 DEF CopyCurrent
  <2> QED BY <2>1, <2>5, <2>6, <2>7, AloneStep
<1>4. ASSUME NEW a \in Processes, pc[a] # "idle", Goes(a, "idle", NoRow, NoRow)
      PROVE  Serial'
  <2>1. /\ pc'[a] = "idle"
        /\ \A q \in Processes \ {a} : pc[q] = "idle" /\ pc'[q] = pc[q]
    BY <1>4 DEF Goes, TypeOK, Serial, Alone
  <2> QED BY <2>1, AloneStep
<1>5. CASE Tick \/ UNCHANGED vars
  BY <1>5 DEF Tick, vars, Serial, Alone, CopyCurrent
<1> QED
  BY <1>1, <1>2, <1>3, <1>4, <1>5
     DEF Next, Allocation, Administration, Commit, Abort, CreateInsert, UpdateSave,
         UpdateReject, Processes

\* allocateNumbers, update: when requests do not overlap, no request moves the
\* counter of a row back, unless a new reset window restarts it.
THEOREM CounterOnlyGrows == ASSUME OneAtATime PROVE Spec => CounterNeverBackwards
<1> DEFINE Grows == \A r \in RowIds :
             rows[r] # NoRow => \/ rows'[r].next >= rows[r].next
                                \/ rows'[r].period # rows[r].period
<1>1. Init => Serial
  BY DEF Init, Serial, Alone
<1>2. TypeOK /\ EntityOK /\ Serial /\ [Next]_vars => Serial'
  BY SerialStep
<1>3. TypeOK /\ EntityOK /\ Serial /\ [Next]_vars => [Grows]_vars
  <2> SUFFICES ASSUME TypeOK, EntityOK, Serial, [Next]_vars,
                      NEW r \in RowIds, rows[r] # NoRow
               PROVE  rows'[r].next >= rows[r].next \/ rows'[r].period # rows[r].period
    OBVIOUS
  <2>1. rows[r] \in Row /\ rows[r].next \in Nat
    BY DEF TypeOK, Row
  <2>2. CASE rows'[r] = rows[r]
    BY <2>1, <2>2
  <2>3. ASSUME NEW a \in Allocators, Commit(a), rows'[r] # rows[r]
        PROVE  rows'[r].next >= rows[r].next \/ rows'[r].period # rows[r].period
    <3>1. rowOf[a] = r /\ rows'[r] = entity[a]
      BY <2>3 DEF Commit, TypeOK
    <3>2. CopyCurrent(a) /\ pc[a] = "numbered" /\ rowOf[a] # NoRow
      BY <2>3, <3>1, RowAssumption DEF Commit, Serial, Processes
    <3> QED BY <3>1, <3>2 DEF CopyCurrent
  <2>4. ASSUME NEW d \in Admins, NEW dto \in Edits, UpdateSave(d, dto), rows'[r] # rows[r]
        PROVE  rows'[r].next >= rows[r].next \/ rows'[r].period # rows[r].period
    <3>1. rowOf[d] = r /\ rows'[r] = Edited(entity[d], dto, month)
      BY <2>4 DEF UpdateSave, TypeOK
    <3>2. entity[d] = rows[r]
      BY <2>4, <3>1, RowAssumption DEF UpdateSave, Serial, CopyCurrent, Processes
    <3>3. rows'[r].next = Given(dto.next, rows[r].next)
      BY <3>1, <3>2 DEF Edited
    <3> QED BY <2>1, <2>4, <3>2, <3>3 DEF UpdateSave, Acceptable, Given
  <2>5. ASSUME NEW d \in Admins, NEW s \in StartValues, CreateInsert(d, s)
        PROVE  rows'[r] = rows[r]
    BY <2>5 DEF CreateInsert, TypeOK
  <2>6. CASE UNCHANGED rows
    BY <2>2, <2>6
  <2> QED
    BY <2>2, <2>3, <2>4, <2>5, <2>6
       DEF Next, Tick, Allocation, Administration, SelectForUpdate, SelectMissing, Number,
           Abort, CreateCheck, UpdateLoad, UpdateReject, vars
<1> QED BY <1>1, <1>2, <1>3, TypeInit, TypeStep, PTL DEF Spec, CounterNeverBackwards

-----------------------------------------------------------------------------
(***************************************************************************)
(* One request at a time, with rows provisioned on first use or by an      *)
(* admin, and edits.  The reset policy q stays, and every pattern prints   *)
(* at least the window q resets on: a type that goes from yearly to        *)
(* monthly and back within a year repeats folios.                          *)
(***************************************************************************)
Disciplined(q) ==
  /\ Default.policy = q /\ Finer(Default.pattern, q)
  /\ \A dto \in Edits : /\ dto.policy \in {q, Keep}
                        /\ dto.pattern # Keep => Finer(dto.pattern, q)
  /\ \A r \in RowIds : InitRows[r] # NoRow =>
       /\ InitRows[r].policy = q /\ Finer(InitRows[r].pattern, q)
       /\ InitRows[r].period <= Window(q, 0) /\ InitRows[r].total = 0
  /\ \A r, s \in RowIds : InitRows[r] # NoRow /\ InitRows[s] # NoRow => r = s

\* The folio f was printed in a past month, in a window not after the row's, and
\* below its counter when it is the same.
Before(q, f, seq, now) ==
  \E m \in 0 .. now :
    /\ f.window = Window(f.pattern, m)
    /\ Window(q, m) <= seq.period
    /\ Window(q, m) = seq.period => f.seq < seq.next

\* The row seq accounts for the folios F.
Accounts(q, seq, F, now) ==
  /\ seq \in Row /\ seq.policy = q /\ Finer(seq.pattern, q)
  /\ seq.period <= Window(q, now)
  /\ IsFiniteSet(F) /\ seq.total = Cardinality(F)
  /\ \A f \in F : Before(q, f, seq, now)

\* What a request that runs alone knows of the row of the type.
Knows(q, p) ==
  /\ rowOf[p] = NoRow => Live = {}
  /\ rowOf[p] # NoRow => rowOf[p] \in Live
  /\ pc[p] \in {"locked", "editing"} /\ rowOf[p] # NoRow => entity[p] = rows[rowOf[p]]
  /\ pc[p] = "editing" => rowOf[p] # NoRow
  /\ pc[p] = "creating" => rowOf[p] = NoRow
  /\ pc[p] = "locked" => Accounts(q, entity[p], issued, month)
  /\ pc[p] = "numbered" =>
       Accounts(q, entity[p], issued \cup block[p], month) /\ issued \cap block[p] = {}

Orderly(q) ==
  /\ Alone /\ reissued = {}
  /\ \A r, s \in Live : r = s
  /\ Live = {} => issued = {}
  /\ \A r \in Live : Accounts(q, rows[r], issued, month)
  /\ \A p \in Processes : pc[p] # "idle" => Knows(q, p)

\* How a folio may be counted: a later clock, a roll-over, a block of numbers and
\* an edit keep a row the account of what was issued.
LEMMA AccountsLater ==
  ASSUME NEW q \in Precision, NEW seq, NEW F, NEW now \in Months, NEW later \in Months,
         now <= later, Accounts(q, seq, F, now)
  PROVE  Accounts(q, seq, F, later)
<1>1. Window(q, now) \in Nat /\ Window(q, later) \in Nat /\ Window(q, now) <= Window(q, later)
  BY WindowLemma
<1>2. seq.period \in Nat
  BY DEF Accounts, Row
<1>3. \A f \in F : Before(q, f, seq, later)
  <2>1. TAKE f \in F
  <2>2. PICK m \in 0 .. now :
          /\ f.window = Window(f.pattern, m)
          /\ Window(q, m) <= seq.period
          /\ Window(q, m) = seq.period => f.seq < seq.next
    BY DEF Accounts, Before
  <2>3. m \in 0 .. later
    BY CalendarAssumption DEF Months
  <2> QED BY <2>2, <2>3 DEF Before
<1> QED BY <1>1, <1>2, <1>3 DEF Accounts

LEMMA AccountsRolled ==
  ASSUME NEW q \in Precision, NEW seq, NEW F, NEW now \in Months, Accounts(q, seq, F, now)
  PROVE  Accounts(q, RolledOver(seq, now), F, now) /\ RolledOver(seq, now).period = Window(q, now)
<1>1. seq \in Row /\ seq.policy = q /\ Window(q, now) \in Nat /\ seq.period \in Nat
  BY WindowNat DEF Accounts, Row
<1>2. CASE seq.period = Window(q, now)
  BY <1>1, <1>2 DEF RolledOver
<1>3. CASE seq.period # Window(q, now)
  <2>1. PICK new \in Row : new = RolledOver(seq, now)
    BY <1>1, RolledOverType
  <2>2. /\ new.policy = q /\ new.pattern = seq.pattern /\ new.total = seq.total
        /\ new.period = Window(q, now)
    BY <1>1, <1>3, <2>1 DEF RolledOver, Row
  <2>3. \A f \in F : Before(q, f, new, now)
    <3>1. TAKE f \in F
    <3>2. PICK m \in 0 .. now : f.window = Window(f.pattern, m) /\ Window(q, m) <= seq.period
      BY DEF Accounts, Before
    <3>3. m \in Months
      BY CalendarAssumption DEF Months
    <3>4. Window(q, m) \in Nat
      BY <3>3, WindowNat
    <3>5. seq.period <= Window(q, now)
      BY DEF Accounts
    <3>6. Window(q, m) < new.period
      BY <1>1, <1>3, <2>2, <3>2, <3>4, <3>5
    <3>7. Window(q, m) <= new.period /\ Window(q, m) # new.period
      BY <1>1, <2>2, <3>4, <3>6
    <3> QED BY <3>2, <3>7 DEF Before
  <2>4. Window(q, now) <= Window(q, now)
    BY <1>1
  <2> QED BY <2>1, <2>2, <2>3, <2>4 DEF Accounts
<1> QED BY <1>2, <1>3

LEMMA AccountsNumbered ==
  ASSUME NEW q \in Precision, NEW seq, NEW F \in SUBSET Folios, NEW now \in Months, NEW n \in Nat \ {0},
         Accounts(q, seq, F, now), seq.period = Window(q, now)
  PROVE  LET B == Block(seq.pattern, now, seq.next, n)
         IN  /\ F \cap B = {}
             /\ Accounts(q, [seq EXCEPT !.next = seq.next + n, !.total = seq.total + n], F \cup B, now)
<1> DEFINE B == Block(seq.pattern, now, seq.next, n)
<1>1. seq \in Row /\ seq.policy = q /\ Finer(seq.pattern, q) /\ seq.pattern \in Precision
      /\ seq.next \in Nat /\ seq.total \in Nat /\ Window(q, now) \in Nat
  BY WindowNat DEF Accounts, Row
<1>2. PICK new : new = [seq EXCEPT !.next = seq.next + n, !.total = seq.total + n]
  OBVIOUS
<1>3. /\ new \in Row /\ new.policy = q /\ new.pattern = seq.pattern /\ new.period = seq.period
      /\ new.next = seq.next + n /\ new.total = seq.total + n
  <2>1. PICK k, t : k = seq.next + n /\ t = seq.total + n
    OBVIOUS
  <2>2. k \in Nat \ {0} /\ t \in Nat
    BY <1>1, <2>1
  <2>3. new = [seq EXCEPT !.next = k, !.total = t]
    BY <1>2, <2>1
  <2> QED BY <1>1, <2>1, <2>2, <2>3 DEF Row
<1>4. IsFiniteSet(B) /\ Cardinality(B) = n
  BY <1>1, BlockSize
<1>5. \A f \in B : f.pattern = seq.pattern /\ f.window = Window(seq.pattern, now)
                   /\ f.seq \in seq.next .. (seq.next + n - 1)
  BY DEF Block, Folio
<1> HIDE DEF B
<1>6. F \cap B = {}
  <2> SUFFICES ASSUME NEW f \in F, f \in B PROVE FALSE
    OBVIOUS
  <2>1. PICK m \in 0 .. now :
          /\ f.window = Window(f.pattern, m)
          /\ Window(q, m) = seq.period => f.seq < seq.next
    BY DEF Accounts, Before
  <2>2. m \in Months
    BY CalendarAssumption DEF Months
  <2>3. Window(seq.pattern, m) = Window(seq.pattern, now)
    BY <1>5, <2>1
  <2>4. Window(q, m) = Window(q, now)
    BY <1>1, <2>2, <2>3, FinerLemma
  <2>5. f.seq < seq.next
    BY <2>1, <2>4
  <2>6. f.seq \in seq.next .. (seq.next + n - 1)
    BY <1>5
  <2> QED BY <1>1, <2>5, <2>6
<1>7. \A f \in F : Before(q, f, new, now)
  <2>1. TAKE f \in F
  <2>2. PICK m \in 0 .. now :
          /\ f.window = Window(f.pattern, m)
          /\ Window(q, m) <= seq.period
          /\ Window(q, m) = seq.period => f.seq < seq.next
    BY DEF Accounts, Before
  <2>3. f.seq \in Nat
    BY DEF Folios
  <2>4. Window(q, m) = new.period => f.seq < new.next
    BY <1>1, <1>3, <2>2, <2>3
  <2> QED BY <1>3, <2>2, <2>4 DEF Before
<1>8. \A f \in B : Before(q, f, new, now)
  <2>1. TAKE f \in B
  <2>2. now \in 0 .. now
    BY CalendarAssumption DEF Months
  <2>3. f.seq < new.next
    BY <1>1, <1>3, <1>5
  <2>4. Window(q, now) <= new.period
    BY <1>1, <1>3
  <2> QED BY <1>5, <2>2, <2>3, <2>4 DEF Before
<1>9. IsFiniteSet(F \cup B) /\ new.total = Cardinality(F \cup B)
  <2>1. IsFiniteSet(F) /\ seq.total = Cardinality(F)
    BY DEF Accounts
  <2>2. Cardinality(F \cap B) = 0
    BY <1>6, FS_EmptySet
  <2>3. /\ IsFiniteSet(F \cup B)
        /\ Cardinality(F \cup B) = Cardinality(F) + Cardinality(B) - Cardinality(F \cap B)
    BY <1>4, <2>1, FS_Union
  <2> QED BY <1>1, <1>3, <1>4, <2>1, <2>2, <2>3
<1>10. Accounts(q, new, F \cup B, now)
  <2>1. new.period <= Window(q, now)
    BY <1>1, <1>3
  <2> QED BY <1>1, <1>3, <1>7, <1>8, <1>9, <2>1 DEF Accounts
<1> QED BY <1>2, <1>6, <1>10 DEF B

LEMMA AccountsEdited ==
  ASSUME NEW q \in Precision, NEW seq, NEW F \in SUBSET Folios, NEW now \in Months, Disciplined(q),
         Accounts(q, seq, F, now), NEW dto \in Edits, Acceptable(dto, seq)
  PROVE  Accounts(q, Edited(seq, dto, now), F, now)
<1>1. seq \in Row /\ seq.policy = q /\ Finer(seq.pattern, q) /\ seq.next \in Nat \ {0} /\ seq.period \in Nat
      /\ Window(q, now) \in Nat /\ seq.period <= Window(q, now)
  BY WindowNat DEF Accounts, Row
<1>2. dto.policy \in {q, Keep} /\ (dto.pattern # Keep => dto.pattern \in Precision /\ Finer(dto.pattern, q))
      /\ (dto.next # Keep => dto.next \in Nat \ {0} /\ dto.next >= seq.next)
  BY RowAssumption DEF Disciplined, Acceptable
<1>3. PICK new : new = Edited(seq, dto, now)
  OBVIOUS
<1>4. /\ new.policy = q /\ Finer(new.pattern, q) /\ new.pattern \in Precision /\ new.total = seq.total
      /\ new.next \in Nat \ {0} /\ new.next >= seq.next
      /\ new.period \in Nat /\ seq.period <= new.period /\ new.period <= Window(q, now)
      /\ new \in Row
  <2>1. new.next = Given(dto.next, seq.next) /\ new.policy = Given(dto.policy, seq.policy)
        /\ new.pattern = Given(dto.pattern, seq.pattern) /\ new.total = seq.total
        /\ new.period = IF dto.policy = Keep THEN seq.period ELSE Window(dto.policy, now)
    BY <1>3 DEF Edited
  <2>2. new.next \in Nat \ {0} /\ new.next >= seq.next
    BY <1>1, <1>2, <2>1 DEF Given
  <2>3. new.policy = q /\ Finer(new.pattern, q) /\ new.pattern \in Precision
    BY <1>1, <1>2, <2>1 DEF Given, Row
  <2>4. new.period \in Nat /\ seq.period <= new.period /\ new.period <= Window(q, now)
    BY <1>1, <1>2, <2>1
  <2>5. new \in Row
    BY <1>1, <1>3, <2>1, <2>2, <2>3, <2>4 DEF Edited, Row
  <2> QED BY <2>1, <2>2, <2>3, <2>4, <2>5
<1>5. \A f \in F : Before(q, f, new, now)
  <2>1. TAKE f \in F
  <2>2. PICK m \in 0 .. now :
          /\ f.window = Window(f.pattern, m)
          /\ Window(q, m) <= seq.period
          /\ Window(q, m) = seq.period => f.seq < seq.next
    BY DEF Accounts, Before
  <2>3. f.seq \in Nat /\ Window(q, m) \in Nat
    BY CalendarAssumption, WindowNat DEF Folios, Months
  <2>4. Window(q, m) <= new.period
    BY <1>1, <1>4, <2>2, <2>3
  <2>5. Window(q, m) = new.period => f.seq < new.next
    BY <1>1, <1>4, <2>2, <2>3
  <2> QED BY <2>2, <2>4, <2>5 DEF Before
<1> QED BY <1>3, <1>4, <1>5 DEF Accounts

LEMMA AccountsFresh ==
  ASSUME NEW q \in Precision, Disciplined(q), NEW now \in Months, NEW start \in Nat \ {0}
  PROVE  Accounts(q, Fresh(Default, start, now), {}, now)
<1>1. Fresh(Default, start, now) \in Row
  BY FreshType
<1>2. Default.policy = q /\ Finer(Default.pattern, q) /\ Window(q, now) \in Nat
  BY WindowNat DEF Disciplined
<1>3. Window(q, now) <= Window(q, now)
  BY <1>2
<1> QED BY <1>1, <1>2, <1>3, FS_EmptySet DEF Accounts, Fresh

\* A step of the one request that runs.
LEMMA OnlyStep ==
  ASSUME NEW q, NEW p \in Processes,
         \A o \in Processes \ {p} : pc[o] = "idle" /\ pc'[o] = pc[o],
         reissued' = {}, \A r, s \in Live' : r = s, Live' = {} => issued' = {},
         \A r \in Live' : Accounts(q, rows'[r], issued', month'),
         pc'[p] # "idle" => Knows(q, p)'
  PROVE  Orderly(q)'
<1>1. Alone'
  BY DEF Alone
<1>2. ASSUME NEW o \in Processes, pc'[o] # "idle" PROVE Knows(q, o)'
  <2>1. o = p
    BY <1>2
  <2> QED BY <1>2, <2>1
<1> QED BY <1>1, <1>2 DEF Orderly

\* ... that saves nothing.
LEMMA OnlyReads ==
  ASSUME TypeOK, NEW q, Orderly(q), NEW p \in Processes, NEW to, NEW row, NEW seq,
         \A o \in Processes \ {p} : pc[o] = "idle",
         Goes(p, to, row, seq), UNCHANGED <<month, rows, issued, reissued>>,
         to # "idle" => Knows(q, p)'
  PROVE  Orderly(q)'
<1>1. pc'[p] = to /\ \A o \in Processes \ {p} : pc[o] = "idle" /\ pc'[o] = pc[o]
  BY DEF Goes, TypeOK
<1>2. Live' = Live /\ reissued' = {}
  BY DEF Live, Orderly
<1> QED BY <1>1, <1>2, OnlyStep DEF Orderly

LEMMA OrderlyInit ==
  ASSUME NEW q \in Precision, Disciplined(q), Init
  PROVE  Orderly(q)
<1>1. \A p \in Processes : pc[p] = "idle"
  BY DEF Init
<1>2. rows = InitRows /\ month = 0 /\ issued = {} /\ reissued = {}
  BY DEF Init
<1>3. \A r \in Live : Accounts(q, rows[r], issued, month)
  <2>1. TAKE r \in Live
  <2>2. r \in RowIds /\ InitRows[r] # NoRow /\ InitRows[r] \in Row
    BY <1>2, RowAssumption DEF Live
  <2> QED BY <1>2, <2>2, FS_EmptySet DEF Disciplined, Accounts
<1> QED BY <1>1, <1>2, <1>3 DEF Orderly, Alone, Live, Disciplined

LEMMA OrderlyAllocation ==
  ASSUME TypeOK, EntityOK, OneAtATime, NEW q \in Precision, Disciplined(q), Orderly(q),
         NEW a \in Allocators, Allocation(a)
  PROVE  Orderly(q)'
<1>0. a \in Processes /\ month \in Months
  BY DEF Processes, TypeOK
<1>1. CASE SelectForUpdate(a)
  <2>1. /\ \A o \in Processes \ {a} : pc[o] = "idle"
        /\ UNCHANGED <<month, rows, issued, reissued>>
    BY <1>1 DEF SelectForUpdate, Starts
  <2>2. PICK r \in Live : Goes(a, "locked", r, rows[r])
    BY <1>1 DEF SelectForUpdate
  <2>3. r # NoRow /\ r \in RowIds
    BY RowAssumption DEF Live
  <2>4. pc'[a] = "locked" /\ rowOf'[a] = r /\ entity'[a] = rows[r]
    BY <1>0, <2>2 DEF Goes, TypeOK
  <2>5. Accounts(q, rows[r], issued, month)
    BY DEF Orderly
  <2>6. Live' = Live
    BY <2>1 DEF Live
  <2>7. Knows(q, a)'
    BY <2>1, <2>3, <2>4, <2>5, <2>6 DEF Knows
  <2> QED BY <1>0, <2>1, <2>2, <2>7, OnlyReads
<1>2. CASE SelectMissing(a)
  <2>1. /\ \A o \in Processes \ {a} : pc[o] = "idle"
        /\ UNCHANGED <<month, rows, issued, reissued>>
        /\ Live = {} /\ Goes(a, "locked", NoRow, Fresh(Default, 1, month))
    BY <1>2 DEF SelectMissing, Starts
  <2>2. pc'[a] = "locked" /\ rowOf'[a] = NoRow /\ entity'[a] = Fresh(Default, 1, month)
    BY <1>0, <2>1 DEF Goes, TypeOK
  <2>3. Accounts(q, entity'[a], issued, month)
    BY <1>0, <2>1, <2>2, AccountsFresh DEF Orderly
  <2>4. Live' = {}
    BY <2>1 DEF Live
  <2>5. Knows(q, a)'
    BY <2>1, <2>2, <2>3, <2>4 DEF Knows
  <2> QED BY <1>0, <2>1, <2>5, OnlyReads
<1>3. ASSUME NEW n \in BlockSizes, Number(a, n) PROVE Orderly(q)'
  <2>1. PICK seq : seq = RolledOver(entity[a], month)
    OBVIOUS
  <2>2. PICK new, B : /\ new = [seq EXCEPT !.next = seq.next + n, !.total = seq.total + n]
                      /\ B = Block(seq.pattern, month, seq.next, n)
    OBVIOUS
  <2>3. pc[a] = "locked" /\ block' = [block EXCEPT ![a] = B] /\ Goes(a, "numbered", rowOf[a], new)
        /\ UNCHANGED <<month, rows, issued, reissued>>
    BY <1>3, <2>1, <2>2 DEF Number, Block
  <2>4. Knows(q, a) /\ \A o \in Processes \ {a} : pc[o] = "idle"
    BY <1>0, <2>3 DEF Orderly, Alone
  <2>5. Accounts(q, seq, issued, month) /\ seq.period = Window(q, month)
    BY <1>0, <2>1, <2>3, <2>4, AccountsRolled DEF Knows
  <2>6. n \in Nat \ {0} /\ issued \in SUBSET Folios
    BY ProcessAssumption DEF TypeOK
  <2>7. issued \cap B = {} /\ Accounts(q, new, issued \cup B, month)
    BY <1>0, <2>2, <2>5, <2>6, AccountsNumbered
  <2>8. pc'[a] = "numbered" /\ rowOf'[a] = rowOf[a] /\ entity'[a] = new /\ block'[a] = B
    BY <1>0, <2>3 DEF Goes, TypeOK
  <2>9. Live' = Live
    BY <2>3 DEF Live
  <2>10. Knows(q, a)'
    BY <2>3, <2>4, <2>7, <2>8, <2>9 DEF Knows
  <2> QED BY <1>0, <2>3, <2>4, <2>10, OnlyReads
<1>4. CASE Commit(a)
  <2>1. Knows(q, a) /\ pc[a] = "numbered" /\ \A o \in Processes \ {a} : pc[o] = "idle"
    BY <1>0, <1>4 DEF Commit, Orderly, Alone
  <2>2. /\ pc'[a] = "idle" /\ \A o \in Processes \ {a} : pc'[o] = pc[o]
        /\ issued' = issued \cup block[a] /\ reissued' = reissued \cup (issued \cap block[a])
        /\ month' = month
    BY <1>0, <1>4 DEF Commit, Goes, TypeOK
  <2>3. PICK r \in RowIds : /\ IF rowOf[a] = NoRow THEN rows[r] = NoRow ELSE r = rowOf[a]
                            /\ rows' = [rows EXCEPT ![r] = entity[a]]
    BY <1>4 DEF Commit
  <2>4. \A s \in Live : s = r
    BY <2>1, <2>3 DEF Knows, Orderly
  <2>5. Accounts(q, entity[a], issued \cup block[a], month) /\ issued \cap block[a] = {}
    BY <2>1 DEF Knows
  <2>6. rows'[r] = entity[a] /\ rows'[r] # NoRow /\ \A s \in RowIds \ {r} : rows'[s] = rows[s]
    BY <2>3, <2>5, RowAssumption DEF TypeOK, Accounts
  <2>7. Live' = {r}
    BY <2>4, <2>6 DEF Live
  <2>8. reissued' = {}
    BY <2>2, <2>5 DEF Orderly
  <2> QED BY <1>0, <2>1, <2>2, <2>5, <2>6, <2>7, <2>8, OnlyStep
<1>5. CASE Abort(a)
  <2>1. Goes(a, "idle", NoRow, NoRow) /\ UNCHANGED <<month, rows, issued, reissued>>
    BY <1>5 DEF Abort
  <2>2. \A o \in Processes \ {a} : pc[o] = "idle"
    BY <1>0, <1>5 DEF Abort, Orderly, Alone
  <2> QED BY <1>0, <2>1, <2>2, OnlyReads
<1> QED BY <1>1, <1>2, <1>3, <1>4, <1>5 DEF Allocation

LEMMA OrderlyAdministration ==
  ASSUME TypeOK, EntityOK, OneAtATime, NEW q \in Precision, Disciplined(q), Orderly(q),
         NEW d \in Admins, Administration(d)
  PROVE  Orderly(q)'
<1>0. d \in Processes /\ month \in Months
  BY DEF Processes, TypeOK
<1>1. CASE CreateCheck(d)
  <2>1. /\ \A o \in Processes \ {d} : pc[o] = "idle"
        /\ UNCHANGED <<month, rows, issued, reissued>>
        /\ Live = {} /\ Goes(d, "creating", NoRow, NoRow)
    BY <1>1 DEF CreateCheck, Starts
  <2>2. pc'[d] = "creating" /\ rowOf'[d] = NoRow
    BY <1>0, <2>1 DEF Goes, TypeOK
  <2>3. Live' = {}
    BY <2>1 DEF Live
  <2>4. Knows(q, d)'
    BY <2>2, <2>3 DEF Knows
  <2> QED BY <1>0, <2>1, <2>4, OnlyReads
<1>2. CASE UpdateLoad(d)
  <2>1. /\ \A o \in Processes \ {d} : pc[o] = "idle"
        /\ UNCHANGED <<month, rows, issued, reissued>>
    BY <1>2 DEF UpdateLoad, Starts
  <2>2. PICK r \in Live : Goes(d, "editing", r, rows[r])
    BY <1>2 DEF UpdateLoad
  <2>3. r # NoRow /\ r \in RowIds
    BY RowAssumption DEF Live
  <2>4. pc'[d] = "editing" /\ rowOf'[d] = r /\ entity'[d] = rows[r]
    BY <1>0, <2>2 DEF Goes, TypeOK
  <2>5. Live' = Live
    BY <2>1 DEF Live
  <2>6. Knows(q, d)'
    BY <2>1, <2>3, <2>4, <2>5 DEF Knows
  <2> QED BY <1>0, <2>1, <2>2, <2>6, OnlyReads
<1>3. ASSUME NEW start \in StartValues, CreateInsert(d, start) PROVE Orderly(q)'
  <2>1. Knows(q, d) /\ pc[d] = "creating" /\ \A o \in Processes \ {d} : pc[o] = "idle"
    BY <1>0, <1>3 DEF CreateInsert, Orderly, Alone
  <2>2. Live = {} /\ issued = {}
    BY <2>1 DEF Knows, Orderly
  <2>3. PICK new : /\ new = Fresh(Default, start, month)
                   /\ \E r \in RowIds : rows' = [rows EXCEPT ![r] = new]
    BY <1>3 DEF CreateInsert
  <2>4. start \in Nat \ {0}
    BY ProcessAssumption
  <2>5. Accounts(q, new, issued, month)
    BY <1>0, <2>2, <2>3, <2>4, AccountsFresh
  <2>6. PICK r \in RowIds : rows'[r] = new /\ rows'[r] # NoRow /\ \A s \in RowIds \ {r} : rows'[s] = rows[s]
    BY <2>3, <2>5, RowAssumption DEF TypeOK, Accounts
  <2>7. Live' = {r}
    BY <2>2, <2>6 DEF Live
  <2>8. /\ pc'[d] = "idle" /\ \A o \in Processes \ {d} : pc'[o] = pc[o]
        /\ UNCHANGED <<month, issued, reissued>>
    BY <1>0, <1>3 DEF CreateInsert, Goes, TypeOK
  <2>9. reissued' = {}
    BY <2>8 DEF Orderly
  <2> QED BY <1>0, <2>1, <2>2, <2>5, <2>6, <2>7, <2>8, <2>9, OnlyStep
<1>4. ASSUME NEW dto \in Edits, UpdateSave(d, dto) PROVE Orderly(q)'
  <2>1. Knows(q, d) /\ pc[d] = "editing" /\ \A o \in Processes \ {d} : pc[o] = "idle"
    BY <1>0, <1>4 DEF UpdateSave, Orderly, Alone
  <2>2. PICK r \in Live : r = rowOf[d] /\ entity[d] = rows[r]
    BY <2>1 DEF Knows
  <2>3. \A s \in Live : s = r
    BY DEF Orderly
  <2>4. PICK new : new = Edited(entity[d], dto, month) /\ rows' = [rows EXCEPT ![r] = new]
    BY <1>4, <2>2 DEF UpdateSave
  <2>5. Accounts(q, new, issued, month)
    <3>1. Accounts(q, entity[d], issued, month)
      BY <2>2 DEF Orderly
    <3>2. Acceptable(dto, entity[d]) /\ issued \in SUBSET Folios
      BY <1>4 DEF UpdateSave, TypeOK
    <3> QED BY <1>0, <2>4, <3>1, <3>2, AccountsEdited
  <2>6. rows'[r] = new /\ rows'[r] # NoRow /\ \A s \in RowIds \ {r} : rows'[s] = rows[s]
    BY <2>2, <2>4, <2>5, RowAssumption DEF TypeOK, Accounts, Live
  <2>7. Live' = {r}
    BY <2>2, <2>3, <2>6 DEF Live
  <2>8. /\ pc'[d] = "idle" /\ \A o \in Processes \ {d} : pc'[o] = pc[o]
        /\ UNCHANGED <<month, issued, reissued>>
    BY <1>0, <1>4 DEF UpdateSave, Goes, TypeOK
  <2>9. reissued' = {}
    BY <2>8 DEF Orderly
  <2> QED BY <1>0, <2>1, <2>5, <2>6, <2>7, <2>8, <2>9, OnlyStep
<1>5. ASSUME NEW dto \in Edits, UpdateReject(d, dto) PROVE Orderly(q)'
  <2>1. Goes(d, "idle", NoRow, NoRow) /\ UNCHANGED <<month, rows, issued, reissued>>
    BY <1>5 DEF UpdateReject
  <2>2. \A o \in Processes \ {d} : pc[o] = "idle"
    BY <1>0, <1>5 DEF UpdateReject, Orderly, Alone
  <2> QED BY <1>0, <2>1, <2>2, OnlyReads
<1> QED BY <1>1, <1>2, <1>3, <1>4, <1>5 DEF Administration

LEMMA OrderlyTick ==
  ASSUME TypeOK, NEW q \in Precision, Orderly(q), Tick
  PROVE  Orderly(q)'
<1>1. /\ month \in Months /\ month' \in Months /\ month <= month'
      /\ UNCHANGED <<rows, pc, rowOf, entity, block, issued, reissued>>
  BY CalendarAssumption DEF Tick, TypeOK, Months
<1>2. Live' = Live
  BY <1>1 DEF Live
<1>3. \A seq, F : Accounts(q, seq, F, month) => Accounts(q, seq, F, month')
  BY <1>1, AccountsLater
<1>4. \A p \in Processes : pc[p] # "idle" => Knows(q, p)'
  BY <1>1, <1>2, <1>3 DEF Orderly, Knows
<1> QED BY <1>1, <1>2, <1>3, <1>4 DEF Orderly, Alone

LEMMA OrderlyStep ==
  ASSUME OneAtATime, NEW q \in Precision, Disciplined(q), TypeOK, EntityOK, Orderly(q), [Next]_vars
  PROVE  Orderly(q)'
<1>1. CASE UNCHANGED vars
  BY <1>1 DEF vars, Orderly, Alone, Knows, Live
<1> QED BY <1>1, OrderlyAllocation, OrderlyAdministration, OrderlyTick DEF Next

LEMMA OrderlyHolds ==
  ASSUME OneAtATime, NEW q \in Precision, Disciplined(q)
  PROVE  Spec => [](TypeOK /\ Orderly(q))
<1>1. Init => TypeOK /\ EntityOK /\ Orderly(q)
  BY TypeInit, OrderlyInit
<1>2. TypeOK /\ EntityOK /\ Orderly(q) /\ [Next]_vars => (TypeOK /\ EntityOK /\ Orderly(q))'
  BY TypeStep, OrderlyStep
<1> QED BY <1>1, <1>2, PTL DEF Spec

\* When requests do not overlap no folio is handed out twice, also when the first
\* request provisions the type, and whatever edits of the pattern and the counter
\* come in between (allocateNumbers, create, update).
THEOREM FoliosAreUniqueSerially ==
  ASSUME OneAtATime, NEW q \in Precision, Disciplined(q)
  PROVE  Spec => []UniqueFolios
<1>1. Orderly(q) => UniqueFolios
  BY DEF Orderly, UniqueFolios
<1> QED BY <1>1, OrderlyHolds, PTL

\* ... and the total of the type counts exactly the folios callers have received,
\* over roll-overs and edits.
THEOREM TotalIsExactSerially ==
  ASSUME OneAtATime, NEW q \in Precision, Disciplined(q)
  PROVE  Spec => []TotalCountsIssued
<1>1. Orderly(q) => TotalCountsIssued
  BY DEF Orderly, Accounts, TotalCountsIssued
<1> QED BY <1>1, OrderlyHolds, PTL
=============================================================================
