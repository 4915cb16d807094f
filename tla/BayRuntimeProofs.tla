--------------------------- MODULE BayRuntimeProofs ---------------------------
(***************************************************************************)
(* TLAPS proofs about BayRuntime, for any number of requests, bays, parts  *)
(* and events: a clientRequestId is recorded once, the committed events    *)
(* with the material left implement the abstract production log, the       *)
(* material of a bay is what its events account for, and, when requests do *)
(* not overlap, the kit follows its events and only the last is undone.    *)
(***************************************************************************)
EXTENDS BayRuntime, FunctionSums, TLAPS

PCs == {"idle", "findDuplicate", "lock", "lockEvent", "findLast", "lockBack",
        "transfer", "saveDeclared", "commitDeclared", "receive", "start"}
       \cup Reporting \cup Unwinding

CoreType ==
  /\ material \in [Bays -> [Parts -> Material]]
  /\ events \in [EventIds -> Event \cup {NoEvent}]
  /\ pc \in [Clients -> PCs]
  /\ dto \in [Clients -> Report \cup [qty : Nat \ {0}] \cup {Nothing}]
  /\ eid \in [Clients -> EventIds \cup {NoEvent}]
  /\ copy \in [Clients -> [Parts -> Material] \cup {Nothing}]
  /\ todo \in [Clients -> SUBSET Parts]

\* Every committed event comes from a report, and no other event has its key.
EventsOK ==
  /\ \A e \in EventIds : events[e] # NoEvent =>
       \E report \in Reports, undone \in BOOLEAN : events[e] = Log!Entry(report, undone)
  /\ OncePerRequest

Taking == {"findLast", "lockBack"} \cup Unwinding

\* What a report knows of the material it holds: parts still to do are as they
\* were, the others are checked and used.
CopyOfReport(p) ==
  \A q \in Mounted[dto[p].bay] :
    LET now == material[dto[p].bay][q] IN
    IF q \in todo[p]
      THEN copy[p][q] = now
      ELSE /\ now.available >= dto[p].qty
           /\ copy[p][q].available = now.available - dto[p].qty
           /\ copy[p][q].consumed = now.consumed + dto[p].qty

CopyOfRevert(p) ==
  \A q \in Mounted[dto[p].bay] :
    LET now == material[dto[p].bay][q] IN
    /\ copy[p][q].available = now.available + dto[p].qty
    /\ copy[p][q].consumed = Clamp(now.consumed - dto[p].qty)

ClientOK(p) ==
  /\ pc[p] \in {"findDuplicate", "lock"} \cup Reporting \cup Taking => dto[p] \in Reports
  /\ pc[p] \in Reporting =>
       /\ copy[p] \in [Parts -> Material]
       /\ Mounted[dto[p].bay] # {}
       /\ CopyOfReport(p)
  /\ pc[p] \in Reporting \ {"consume"} => todo[p] = {}
  /\ Inserted(p) => /\ eid[p] \in EventIds /\ events[eid[p]] = NoEvent
                    /\ ~ Recorded(dto[p].request)
  /\ pc[p] = "lockEvent" => eid[p] \in EventIds /\ events[eid[p]] # NoEvent
  /\ pc[p] \in Taking => eid[p] \in EventIds /\ events[eid[p]] = Log!Entry(dto[p], FALSE)
  /\ pc[p] \in Unwinding => copy[p] \in [Parts -> Material] /\ CopyOfRevert(p)

\* The row locks and the unique index keep two requests apart.
PairOK(p, q) ==
  /\ Inserted(p) /\ Inserted(q) => dto[p].request # dto[q].request /\ eid[p] # eid[q]
  /\ \A b \in Bays : ~ (HoldsMaterial(p, b) /\ HoldsMaterial(q, b))
  /\ \A e \in EventIds : ~ (HoldsEvent(p, e) /\ HoldsEvent(q, e))

Apart == \A p, q \in Clients : p # q => PairOK(p, q)

Inv == CoreType /\ EventsOK /\ (\A p \in Clients : ClientOK(p)) /\ Apart

LEMMA InvInit == Init => Inv
<1> SUFFICES ASSUME Init PROVE Inv
  OBVIOUS
<1>1. material \in [Bays -> [Parts -> Material]]
  BY ConstantsAssumption DEF Init, Material
<1>2. CoreType
  BY <1>1 DEF Init, CoreType, PCs
<1>3. EventsOK
  BY DEF Init, EventsOK, OncePerRequest
<1>4. \A p \in Clients : ClientOK(p)
  BY DEF Init, ClientOK, Reporting, Unwinding, Taking, Inserted
<1>5. Apart
  BY DEF Init, Apart, PairOK, Inserted, HoldsMaterial, HoldsEvent, Reporting, Unwinding
<1> QED BY <1>2, <1>3, <1>4, <1>5 DEF Inv

\* A step of one request that commits nothing: it is enough to look at that
\* request, alone and beside every other.
LEMMA OneMoves ==
  ASSUME Inv, NEW p \in Clients, CoreType',
         UNCHANGED <<material, events>>,
         \A q \in Clients \ {p} :
           /\ pc'[q] = pc[q] /\ dto'[q] = dto[q] /\ eid'[q] = eid[q]
           /\ copy'[q] = copy[q] /\ todo'[q] = todo[q],
         ClientOK(p)',
         \A q \in Clients \ {p} : PairOK(p, q)'
  PROVE  Inv'
<1>1. EventsOK'
  BY DEF Inv, EventsOK, OncePerRequest, Log!Entry
<1>2. ASSUME NEW q \in Clients \ {p} PROVE ClientOK(q)'
  BY DEF Inv, ClientOK, Inserted, CopyOfReport, CopyOfRevert, Recorded, Log!Entry
<1>3. ASSUME NEW q \in Clients \ {p} PROVE PairOK(q, p)'
  BY <1>3 DEF PairOK
<1>4. ASSUME NEW q \in Clients \ {p}, NEW r \in Clients \ {p}, q # r PROVE PairOK(q, r)'
  BY <1>4 DEF Inv, Apart, PairOK, Inserted, HoldsMaterial, HoldsEvent
<1> QED BY <1>1, <1>2, <1>3, <1>4 DEF Inv, Apart

\* A request that ends without a commit.
LEMMA EndsOK ==
  ASSUME Inv, NEW p \in Clients, Ends(p), UNCHANGED <<material, events>>
  PROVE  Inv'
<1>1. CoreType'
  BY DEF Inv, CoreType, Ends, Goes, PCs
<1>2. pc'[p] = "idle"
  BY DEF Inv, CoreType, Ends, Goes
<1>3. ClientOK(p)'
  BY <1>2 DEF ClientOK, Reporting, Unwinding, Taking, Inserted
<1>4. \A q \in Clients \ {p} : PairOK(p, q)'
  BY <1>2 DEF PairOK, Inserted, HoldsMaterial, HoldsEvent, Reporting, Unwinding
<1>5. \A q \in Clients \ {p} :
        /\ pc'[q] = pc[q] /\ dto'[q] = dto[q] /\ eid'[q] = eid[q]
        /\ copy'[q] = copy[q] /\ todo'[q] = todo[q]
  BY DEF Ends, Goes, Inv, CoreType
<1> QED BY <1>1, <1>3, <1>4, <1>5, OneMoves

LEMMA BeginningsOK ==
  ASSUME Inv, NEW p \in Clients,
         \/ \E args \in Reports : RegisterBayEvent(p, args)
         \/ \E e \in EventIds : RevertBayEvent(p, e)
         \/ \E args \in Declarations : DeclareFinishedGoods(p, args)
         \/ ReceiveLine(p) \/ StartLine(p)
  PROVE  Inv'
<1> USE DEF RegisterBayEvent, RevertBayEvent, DeclareFinishedGoods, ReceiveLine,
            StartLine, Starts, Goes, table, stock, locals
<1>0. /\ pc' \in [Clients -> PCs]
      /\ dto' \in [Clients -> Report \cup [qty : Nat \ {0}] \cup {Nothing}]
      /\ eid' \in [Clients -> EventIds \cup {NoEvent}]
  <2>1. pc' \in [Clients -> PCs]
    BY DEF Inv, CoreType, PCs
  <2>2. eid' \in [Clients -> EventIds \cup {NoEvent}]
    BY DEF Inv, CoreType
  <2>3. dto' \in [Clients -> Report \cup [qty : Nat \ {0}] \cup {Nothing}]
    <3>1. \A args \in Reports \cup Declarations :
            args \in Report \cup [qty : Nat \ {0}] \cup {Nothing}
      BY Zenon, ConstantsAssumption
    <3>2. \/ UNCHANGED dto
          \/ \E args \in Reports \cup Declarations : dto' = [dto EXCEPT ![p] = args]
      OBVIOUS
    <3> QED BY <3>1, <3>2 DEF Inv, CoreType
  <2> QED BY <2>1, <2>2, <2>3
<1>1. CoreType'
  BY <1>0 DEF Inv, CoreType
<1>2. \A q \in Clients \ {p} :
        /\ pc'[q] = pc[q] /\ dto'[q] = dto[q] /\ eid'[q] = eid[q]
        /\ copy'[q] = copy[q] /\ todo'[q] = todo[q]
  BY DEF Inv, CoreType
<1>3. /\ pc'[p] \in {"findDuplicate", "lockEvent", "transfer", "receive", "start"}
      /\ pc'[p] = "findDuplicate" => dto'[p] \in Reports
      /\ pc'[p] = "lockEvent" => eid'[p] \in EventIds /\ events[eid'[p]] # NoEvent
      /\ UNCHANGED <<material, events>>
  BY DEF Inv, CoreType
<1>4. ClientOK(p)'
  BY <1>3 DEF ClientOK, Reporting, Unwinding, Taking, Inserted
<1>5. \A q \in Clients \ {p} : PairOK(p, q)'
  BY <1>3 DEF PairOK, Inserted, HoldsMaterial, HoldsEvent, Reporting, Unwinding
<1> QED BY <1>1, <1>2, <1>3, <1>4, <1>5, OneMoves

\* What the arguments of a report are made of.
LEMMA ReportsAreReports ==
  ASSUME NEW r \in Reports
  PROVE  /\ r \in Report
         /\ r.bay \in Bays /\ r.qty \in Nat \ {0} /\ r.request \in Requests
         /\ r = [bay |-> r.bay, qty |-> r.qty, request |-> r.request]
         /\ Mounted[r.bay] \subseteq Parts
<1>1. r \in Report
  BY Zenon, ConstantsAssumption
<1>2. /\ r.bay \in Bays /\ r.qty \in Nat \ {0} /\ r.request \in Requests
      /\ r = [bay |-> r.bay, qty |-> r.qty, request |-> r.request]
  BY <1>1 DEF Report
<1>3. Mounted[r.bay] \subseteq Parts
  BY <1>2, ConstantsAssumption
<1> QED BY <1>1, <1>2, <1>3

LEMMA EntriesAreEvents ==
  ASSUME NEW r \in Reports, NEW undone \in BOOLEAN
  PROVE  Log!Entry(r, undone) \in Event /\ Log!Entry(r, undone) # NoEvent
<1>1. r.bay \in Bays /\ r.qty \in Nat \ {0} /\ r.request \in Requests
  BY ReportsAreReports
<1>2. Log!Entry(r, undone) \in Event
  BY <1>1, Zenon DEF Log!Entry, Event
<1> QED BY <1>2, ConstantsAssumption

LEMMA EntryUndone ==
  ASSUME NEW r, NEW old, NEW new,
         old = Log!Entry(r, FALSE), new = [old EXCEPT !.reverted = TRUE]
  PROVE  new = Log!Entry(r, TRUE)
  BY DEF Log!Entry

\* Steps that only move the program counter or change a count.
QuietStep(p) ==
  \/ FindNoDuplicate(p) \/ ReadWip(p) \/ SumEvents(p) \/ SaveWip(p) \/ UpdateKit(p)
  \/ FindLast(p) \/ SumBack(p) \/ Transfer(p) \/ SaveDeclared(p)

LEMMA QuietStepsOK ==
  ASSUME Inv, NEW p \in Clients, QuietStep(p)
  PROVE  Inv'
<1> USE DEF QuietStep, FindNoDuplicate, ReadWip, SumEvents, SaveWip, UpdateKit, FindLast,
            SumBack, Transfer, SaveDeclared, Goes, table, stock, locals
<1>1. /\ UNCHANGED <<material, events, dto, eid, copy, todo>>
      /\ \/ pc[p] = "findDuplicate" /\ Goes(p, "lock")
         \/ pc[p] = "consume" /\ todo[p] = {} /\ Goes(p, "insert")
         \/ pc[p] = "sum" /\ Goes(p, "saveWip")
         \/ pc[p] = "saveWip" /\ Goes(p, "updateKit")
         \/ pc[p] = "updateKit" /\ Goes(p, "commit")
         \/ pc[p] = "updateKitBack" /\ Goes(p, "commitBack")
         \/ pc[p] = "findLast" /\ Goes(p, "lockBack")
         \/ pc[p] = "sumBack" /\ Goes(p, "updateKitBack")
         \/ pc[p] = "transfer" /\ Goes(p, "saveDeclared")
         \/ pc[p] = "saveDeclared" /\ Goes(p, "commitDeclared")
  OBVIOUS
<1> USE DEF Reporting, Unwinding, Taking
<1> HIDE DEF QuietStep, FindNoDuplicate, ReadWip, SumEvents, SaveWip, UpdateKit, FindLast,
             SumBack, Transfer, SaveDeclared
<1>2. CoreType'
  BY <1>1 DEF Inv, CoreType, PCs
<1>3. \A q \in Clients \ {p} : pc'[q] = pc[q]
  BY <1>1 DEF Inv, CoreType
<1>4. ClientOK(p)'
  <2>1. pc'[p] \in Reporting \ {"consume"} => todo[p] = {}
    <3>1. pc[p] \in Reporting \ {"consume"} => todo[p] = {}
      BY DEF Inv, ClientOK
    <3>2. pc'[p] \in Reporting \ {"consume"}
            => pc[p] \in Reporting \ {"consume"} \/ todo[p] = {}
      BY <1>1 DEF Inv, CoreType
    <3> QED BY <3>1, <3>2
  <2>2. /\ pc'[p] \in {"findDuplicate", "lock"} \cup Reporting \cup Taking
           => pc[p] \in {"findDuplicate", "lock"} \cup Reporting \cup Taking
        /\ pc'[p] \in Reporting => pc[p] \in Reporting
        /\ pc'[p] \in Taking => pc[p] \in Taking
        /\ pc'[p] \in Unwinding => pc[p] \in Unwinding
        /\ pc'[p] # "lockEvent"
    BY <1>1 DEF Inv, CoreType
  <2>3. Inserted(p)' => Inserted(p)
    BY <1>1 DEF Inv, CoreType, Inserted
  <2>4. ClientOK(p)
    BY DEF Inv
  <2>5. /\ CopyOfReport(p)' <=> CopyOfReport(p)
        /\ CopyOfRevert(p)' <=> CopyOfRevert(p)
        /\ Recorded(dto[p].request)' <=> Recorded(dto[p].request)
    BY <1>1 DEF CopyOfReport, CopyOfRevert, Recorded
  <2> HIDE DEF Reporting, Unwinding, Taking
  <2> QED BY <1>1, <2>1, <2>2, <2>3, <2>4, <2>5 DEF ClientOK
<1>5. ASSUME NEW q \in Clients \ {p} PROVE PairOK(p, q)'
  <2>1. /\ Inserted(p)' => Inserted(p)
        /\ \A b : HoldsMaterial(p, b)' => HoldsMaterial(p, b)
        /\ \A e : HoldsEvent(p, e)' => HoldsEvent(p, e)
    BY <1>1 DEF Inv, CoreType, Inserted, HoldsMaterial, HoldsEvent
  <2>2. /\ Inserted(q)' <=> Inserted(q)
        /\ \A b : HoldsMaterial(q, b)' <=> HoldsMaterial(q, b)
        /\ \A e : HoldsEvent(q, e)' <=> HoldsEvent(q, e)
    BY <1>1, <1>3 DEF Inserted, HoldsMaterial, HoldsEvent
  <2>3. PairOK(p, q)
    BY <1>5 DEF Inv, Apart
  <2> QED BY <1>1, <2>1, <2>2, <2>3 DEF PairOK
<1> QED BY <1>1, <1>2, <1>3, <1>4, <1>5, OneMoves

LEMMA LockMaterialOK ==
  ASSUME Inv, NEW p \in Clients, LockMaterial(p)
  PROVE  Inv'
<1> USE DEF LockMaterial, Goes, table, stock
<1>1. dto[p] \in Reports
  BY DEF Inv, ClientOK
<1>2. /\ material[dto[p].bay] \in [Parts -> Material]
      /\ Mounted[dto[p].bay] \subseteq Parts
  BY <1>1, ReportsAreReports DEF Inv, CoreType
<1>3. CoreType'
  BY <1>2 DEF Inv, CoreType, PCs, Reporting
<1>4. \A q \in Clients \ {p} : pc'[q] = pc[q] /\ copy'[q] = copy[q] /\ todo'[q] = todo[q]
  BY DEF Inv, CoreType
<1>5. /\ pc'[p] = "consume" /\ copy'[p] = material[dto[p].bay]
      /\ todo'[p] = Mounted[dto[p].bay]
  BY DEF Inv, CoreType
<1>6. ClientOK(p)'
  BY <1>1, <1>2, <1>5 DEF ClientOK, CopyOfReport, Reporting, Unwinding, Taking, Inserted
<1>7. ASSUME NEW q \in Clients \ {p} PROVE PairOK(p, q)'
  BY <1>4, <1>5 DEF PairOK, Inserted, MaterialBusy, HoldsMaterial, HoldsEvent, Reporting,
                    Unwinding
<1> QED BY <1>3, <1>4, <1>6, <1>7, OneMoves

LEMMA ConsumeOK ==
  ASSUME Inv, NEW p \in Clients, Consume(p)
  PROVE  Inv'
<1> USE DEF Consume
<1>1. /\ dto[p] \in Reports /\ copy[p] \in [Parts -> Material]
      /\ Mounted[dto[p].bay] # {} /\ CopyOfReport(p)
  BY DEF Inv, ClientOK, Reporting
<1>2. PICK part \in todo[p] :
        /\ Sufficient(copy[p][part], dto[p].qty)
        /\ copy' = [copy EXCEPT ![p] =
             [copy[p] EXCEPT ![part] = Used(copy[p][part], dto[p].qty)]]
        /\ todo' = [todo EXCEPT ![p] = todo[p] \ {part}]
  OBVIOUS
<1>3. /\ part \in Parts /\ todo[p] \subseteq Parts
      /\ copy[p][part] \in Material
      /\ dto[p].qty \in Nat
  BY <1>1, ReportsAreReports DEF Inv, CoreType
<1>4. /\ Used(copy[p][part], dto[p].qty) \in Material
      /\ Used(copy[p][part], dto[p].qty).available = copy[p][part].available - dto[p].qty
      /\ Used(copy[p][part], dto[p].qty).consumed = copy[p][part].consumed + dto[p].qty
  BY <1>2, <1>3 DEF Used, Clamp, Sufficient, Material
<1>5. copy'[p] = [copy[p] EXCEPT ![part] = Used(copy[p][part], dto[p].qty)]
  BY <1>2 DEF Inv, CoreType
<1>6. copy'[p] \in [Parts -> Material]
  BY <1>1, <1>4, <1>5
<1>7. CoreType'
  BY <1>2, <1>6 DEF Inv, CoreType, table
<1>8. todo'[p] = todo[p] \ {part} /\ UNCHANGED <<pc, dto, eid, material, events>>
  BY <1>2 DEF Inv, CoreType, table
<1>9. \A q \in Clients \ {p} : copy'[q] = copy[q] /\ todo'[q] = todo[q]
  BY <1>2 DEF Inv, CoreType
<1>10. CopyOfReport(p)'
  <2> SUFFICES ASSUME NEW q \in Mounted[dto[p].bay]
               PROVE  IF q \in todo'[p]
                        THEN copy'[p][q] = material[dto[p].bay][q]
                        ELSE /\ material[dto[p].bay][q].available >= dto[p].qty
                             /\ copy'[p][q].available
                                  = material[dto[p].bay][q].available - dto[p].qty
                             /\ copy'[p][q].consumed
                                  = material[dto[p].bay][q].consumed + dto[p].qty
    BY <1>8 DEF CopyOfReport
  <2>1. q \in Parts
    BY <1>1, ReportsAreReports
  <2>2. CASE q = part
    BY <1>1, <1>2, <1>4, <1>5, <1>8, <2>1, <2>2 DEF CopyOfReport, Sufficient
  <2>3. CASE q # part
    BY <1>1, <1>5, <1>8, <2>1, <2>3 DEF CopyOfReport
  <2> QED BY <2>2, <2>3
<1>11. ClientOK(p)'
  BY <1>1, <1>6, <1>8, <1>10 DEF ClientOK, Reporting, Unwinding, Taking, Inserted
<1>12. ASSUME NEW q \in Clients \ {p} PROVE PairOK(p, q)'
  BY <1>8 DEF Inv, Apart, PairOK, Inserted, HoldsMaterial, HoldsEvent
<1> QED BY <1>7, <1>8, <1>9, <1>11, <1>12, OneMoves

LEMMA InsertEventOK ==
  ASSUME Inv, NEW p \in Clients, InsertEvent(p)
  PROVE  Inv'
<1> USE DEF InsertEvent, Goes, table, stock
<1>1. PICK e \in FreeIds : eid' = [eid EXCEPT ![p] = e]
  OBVIOUS
<1>2. /\ e \in EventIds /\ events[e] = NoEvent
      /\ \A q \in Clients : Inserted(q) => eid[q] # e
  BY <1>1, ConstantsAssumption DEF FreeIds
<1>3. CoreType'
  BY <1>1, <1>2 DEF Inv, CoreType, PCs, Reporting
<1>4. /\ pc'[p] = "sum" /\ eid'[p] = e /\ pc[p] = "insert"
      /\ UNCHANGED <<material, events, dto, copy, todo>>
      /\ \A q \in Clients \ {p} : pc'[q] = pc[q] /\ eid'[q] = eid[q]
  BY <1>1 DEF Inv, CoreType
<1>5. ClientOK(p)'
  <2>1. /\ dto[p] \in Reports /\ copy[p] \in [Parts -> Material]
        /\ Mounted[dto[p].bay] # {} /\ CopyOfReport(p) /\ todo[p] = {}
    BY <1>4 DEF Inv, ClientOK, Reporting
  <2>2. ~ Recorded(dto[p].request)'
    BY <1>4 DEF Taken, Recorded
  <2>3. CopyOfReport(p)'
    BY <1>4, <2>1 DEF CopyOfReport
  <2> QED
    BY <1>2, <1>4, <2>1, <2>2, <2>3 DEF ClientOK, Reporting, Unwinding, Taking, Inserted
<1>6. ASSUME NEW q \in Clients \ {p} PROVE PairOK(p, q)'
  <2>1. Inserted(q)' => dto[p].request # dto[q].request /\ e # eid[q]
    BY <1>2, <1>4 DEF Inserted
  <2>2. \A b \in Bays : ~ (HoldsMaterial(p, b)' /\ HoldsMaterial(q, b)')
    BY <1>4 DEF Inv, Apart, PairOK, HoldsMaterial, Reporting, Unwinding
  <2>3. \A f \in EventIds : ~ HoldsEvent(p, f)'
    BY <1>4 DEF HoldsEvent, Unwinding
  <2> QED BY <1>4, <2>1, <2>2, <2>3 DEF PairOK
<1> QED BY <1>3, <1>4, <1>5, <1>6, OneMoves

LEMMA LockEventOK ==
  ASSUME Inv, NEW p \in Clients, LockEvent(p)
  PROVE  Inv'
<1> USE DEF LockEvent, Goes, table, stock
<1>1. eid[p] \in EventIds /\ events[eid[p]] # NoEvent
  BY DEF Inv, ClientOK
<1>2. PICK report \in Reports, undone \in BOOLEAN : events[eid[p]] = Log!Entry(report, undone)
  BY <1>1 DEF Inv, EventsOK
<1>3. events[eid[p]] = Log!Entry(report, FALSE)
  <2>1. events[eid[p]].reverted = undone
    BY <1>2 DEF Log!Entry
  <2>2. undone = TRUE \/ undone = FALSE
    OBVIOUS
  <2>3. undone = FALSE
    BY <2>1, <2>2, Zenon
  <2> QED BY <1>2, <2>3
<1>4. dto' = [dto EXCEPT ![p] = report]
  <2>1. /\ events[eid[p]].bay = report.bay /\ events[eid[p]].qty = report.qty
        /\ events[eid[p]].request = report.request
    BY <1>3 DEF Log!Entry
  <2>2. report = [bay |-> report.bay, qty |-> report.qty, request |-> report.request]
    BY ReportsAreReports
  <2> QED BY <2>1, <2>2
<1>5. CoreType'
  BY <1>4, ReportsAreReports DEF Inv, CoreType, PCs
<1>6. /\ pc'[p] = "findLast" /\ dto'[p] = report
      /\ \A q \in Clients \ {p} : pc'[q] = pc[q] /\ dto'[q] = dto[q]
  BY <1>4 DEF Inv, CoreType
<1>7. ClientOK(p)'
  BY <1>1, <1>3, <1>6 DEF ClientOK, Reporting, Unwinding, Taking, Inserted
<1>8. ASSUME NEW q \in Clients \ {p} PROVE PairOK(p, q)'
  BY <1>6 DEF PairOK, Inserted, EventBusy, HoldsMaterial, HoldsEvent, Reporting, Unwinding
<1> QED BY <1>5, <1>6, <1>7, <1>8, OneMoves

LEMMA LockMaterialBackOK ==
  ASSUME Inv, NEW p \in Clients, LockMaterialBack(p)
  PROVE  Inv'
<1> USE DEF LockMaterialBack, Goes, table, stock
<1>1. /\ dto[p] \in Reports /\ eid[p] \in EventIds
      /\ events[eid[p]] = Log!Entry(dto[p], FALSE)
  BY DEF Inv, ClientOK, Taking
<1>2. /\ material[dto[p].bay] \in [Parts -> Material]
      /\ Mounted[dto[p].bay] \subseteq Parts /\ dto[p].qty \in Nat
  BY <1>1, ReportsAreReports DEF Inv, CoreType
<1>3. \A m \in Material : /\ Returned(m, dto[p].qty) \in Material
                          /\ Returned(m, dto[p].qty).available = m.available + dto[p].qty
                          /\ Returned(m, dto[p].qty).consumed = Clamp(m.consumed - dto[p].qty)
  BY <1>2 DEF Material, Returned, Clamp
<1>4. copy'[p] = [q \in Parts |-> IF q \in Mounted[dto[p].bay]
                                    THEN Returned(material[dto[p].bay][q], dto[p].qty)
                                    ELSE material[dto[p].bay][q]]
  BY DEF Inv, CoreType
<1>5. copy'[p] \in [Parts -> Material]
  BY <1>2, <1>3, <1>4
<1>6. CoreType'
  BY <1>5 DEF Inv, CoreType, PCs, Unwinding
<1>7. /\ pc'[p] = "sumBack" /\ UNCHANGED <<material, events, dto, eid, todo>>
      /\ \A q \in Clients \ {p} : pc'[q] = pc[q] /\ copy'[q] = copy[q]
  BY DEF Inv, CoreType
<1>8. CopyOfRevert(p)'
  <2> SUFFICES ASSUME NEW q \in Mounted[dto[p].bay]
               PROVE  /\ copy'[p][q].available = material[dto[p].bay][q].available + dto[p].qty
                      /\ copy'[p][q].consumed = Clamp(material[dto[p].bay][q].consumed - dto[p].qty)
    BY <1>7 DEF CopyOfRevert
  <2>1. copy'[p][q] = Returned(material[dto[p].bay][q], dto[p].qty)
    BY <1>2, <1>4
  <2>2. material[dto[p].bay][q] \in Material
    BY <1>2
  <2> QED BY <1>3, <2>1, <2>2
<1>9. ClientOK(p)'
  BY <1>1, <1>5, <1>7, <1>8 DEF ClientOK, Reporting, Unwinding, Taking, Inserted
<1>10. ASSUME NEW q \in Clients \ {p} PROVE PairOK(p, q)'
  <2>1. PairOK(p, q) /\ pc[p] = "lockBack"
    BY <1>10 DEF Inv, Apart
  <2>2. \A b \in Bays : ~ (HoldsMaterial(p, b)' /\ HoldsMaterial(q, b)')
    BY <1>7 DEF MaterialBusy, HoldsMaterial, Reporting, Unwinding
  <2>3. ~ Inserted(p)'
    BY <1>7 DEF Inserted
  <2>4. \A e \in EventIds : ~ (HoldsEvent(p, e)' /\ HoldsEvent(q, e)')
    BY <1>7, <2>1 DEF PairOK, HoldsEvent, Unwinding
  <2> QED BY <2>2, <2>3, <2>4 DEF PairOK
<1> QED BY <1>6, <1>7, <1>9, <1>10, OneMoves

\* The commit of a report, as the other requests see it.
LEMMA CommitEventOK ==
  ASSUME Inv, NEW p \in Clients, CommitEvent(p)
  PROVE  Inv'
<1> USE DEF CommitEvent
<1> DEFINE bay == dto[p].bay
           new == Log!Entry(dto[p], FALSE)
<1>1. /\ dto[p] \in Reports /\ copy[p] \in [Parts -> Material]
      /\ eid[p] \in EventIds /\ events[eid[p]] = NoEvent /\ ~ Recorded(dto[p].request)
      /\ Inserted(p) /\ HoldsMaterial(p, bay)
  BY DEF Inv, ClientOK, Inserted, Reporting, HoldsMaterial
<1>2. bay \in Bays /\ new \in Event /\ new # NoEvent
  BY <1>1, ReportsAreReports, EntriesAreEvents
<1>3. /\ material' = [material EXCEPT ![bay] = copy[p]]
      /\ events' = [events EXCEPT ![eid[p]] = new]
  BY DEF Log!Entry
<1>4. CoreType'
  <2>1. /\ pc' \in [Clients -> PCs]
        /\ dto' \in [Clients -> Report \cup [qty : Nat \ {0}] \cup {Nothing}]
        /\ eid' \in [Clients -> EventIds \cup {NoEvent}]
        /\ copy' \in [Clients -> [Parts -> Material] \cup {Nothing}]
        /\ todo' \in [Clients -> SUBSET Parts]
    BY DEF Inv, CoreType, Ends, Goes, PCs
  <2>2. material' \in [Bays -> [Parts -> Material]]
    BY <1>1, <1>2, <1>3 DEF Inv, CoreType
  <2>3. events' \in [EventIds -> Event \cup {NoEvent}]
    BY <1>1, <1>2, <1>3 DEF Inv, CoreType
  <2> QED BY <2>1, <2>2, <2>3 DEF CoreType
<1>5. /\ pc'[p] = "idle"
      /\ \A q \in Clients \ {p} :
           /\ pc'[q] = pc[q] /\ dto'[q] = dto[q] /\ eid'[q] = eid[q]
           /\ copy'[q] = copy[q] /\ todo'[q] = todo[q]
  BY DEF Inv, CoreType, Ends, Goes
<1>6. /\ events'[eid[p]] = new
      /\ \A e \in EventIds \ {eid[p]} : events'[e] = events[e]
      /\ \A b \in Bays \ {bay} : material'[b] = material[b]
  BY <1>1, <1>2, <1>3 DEF Inv, CoreType
<1> HIDE DEF CommitEvent, bay, new
<1>7. EventsOK'
  <2>1. ASSUME NEW e \in EventIds, events'[e] # NoEvent
        PROVE  \E report \in Reports, undone \in BOOLEAN : events'[e] = Log!Entry(report, undone)
    <3>1. CASE e = eid[p]
      BY <1>1, <1>6, <3>1 DEF new
    <3>2. CASE e # eid[p]
      BY <1>6, <2>1, <3>2 DEF Inv, EventsOK
    <3> QED BY <3>1, <3>2
  <2>2. new.request = dto[p].request
    BY DEF new, Log!Entry
  <2>3. OncePerRequest'
    BY <1>1, <1>6, <2>2 DEF Inv, EventsOK, OncePerRequest, Recorded
  <2> QED BY <2>1, <2>3 DEF EventsOK, Log!Entry
<1>8. ASSUME NEW q \in Clients \ {p} PROVE ClientOK(q)'
  <2>1. ClientOK(q) /\ PairOK(p, q)
    BY DEF Inv, Apart
  <2>2. /\ Inserted(q) => eid[q] # eid[p] /\ dto[q].request # dto[p].request
        /\ pc[q] \in Taking => eid[q] # eid[p]
    <3>1. pc[q] \in Taking => Log!Entry(dto[q], FALSE) # NoEvent
      BY <2>1, EntriesAreEvents DEF ClientOK
    <3> QED BY <1>1, <2>1, <3>1 DEF ClientOK, PairOK
  <2>3. pc[q] \in Reporting \cup Unwinding => dto[q].bay \in Bays /\ dto[q].bay # bay
    <3>1. pc[q] \in Reporting \cup Unwinding => dto[q] \in Reports
      BY <2>1 DEF ClientOK, Taking
    <3> QED BY <1>1, <1>2, <2>1, <3>1, ReportsAreReports DEF PairOK, HoldsMaterial
  <2>4. Inserted(q) => ~ Recorded(dto[q].request)'
    <3>1. new.request = dto[p].request
      BY DEF new, Log!Entry
    <3> QED BY <1>5, <1>6, <2>1, <2>2, <3>1 DEF ClientOK, Recorded
  <2>5. pc[q] = "lockEvent" => eid[q] \in EventIds /\ events'[eid[q]] # NoEvent
    BY <1>2, <1>6, <2>1 DEF ClientOK
  <2>6. pc[q] \in Reporting => CopyOfReport(q)'
    BY <1>5, <1>6, <2>1, <2>3 DEF ClientOK, CopyOfReport
  <2>7. pc[q] \in Unwinding => CopyOfRevert(q)'
    BY <1>5, <1>6, <2>1, <2>3 DEF ClientOK, CopyOfRevert
  <2>8. Inserted(q) => eid[q] \in EventIds /\ events'[eid[q]] = NoEvent
    BY <1>6, <2>1, <2>2 DEF ClientOK
  <2>9. pc[q] \in Taking => eid[q] \in EventIds /\ events'[eid[q]] = Log!Entry(dto[q], FALSE)
    BY <1>6, <2>1, <2>2 DEF ClientOK
  <2> QED BY <1>5, <2>1, <2>4, <2>5, <2>6, <2>7, <2>8, <2>9 DEF ClientOK, Inserted, Log!Entry
<1>9. ClientOK(p)'
  BY <1>5 DEF ClientOK, Reporting, Unwinding, Taking, Inserted
<1>10. Apart'
  <2>1. ASSUME NEW q \in Clients \ {p} PROVE PairOK(p, q)' /\ PairOK(q, p)'
    BY <1>5 DEF PairOK, Inserted, HoldsMaterial, HoldsEvent, Reporting, Unwinding
  <2>2. ASSUME NEW q \in Clients \ {p}, NEW r \in Clients \ {p}, q # r PROVE PairOK(q, r)'
    BY <1>5, <2>2 DEF Inv, Apart, PairOK, Inserted, HoldsMaterial, HoldsEvent
  <2> QED BY <2>1, <2>2 DEF Apart
<1> QED BY <1>4, <1>7, <1>8, <1>9, <1>10 DEF Inv

\* The commit of a revert, as the other requests see it.
LEMMA CommitRevertOK ==
  ASSUME Inv, NEW p \in Clients, CommitRevert(p)
  PROVE  Inv'
<1> USE DEF CommitRevert
<1> DEFINE bay == dto[p].bay
           new == Log!Entry(dto[p], TRUE)
<1>1. /\ dto[p] \in Reports /\ copy[p] \in [Parts -> Material]
      /\ eid[p] \in EventIds /\ events[eid[p]] = Log!Entry(dto[p], FALSE)
      /\ HoldsMaterial(p, bay) /\ HoldsEvent(p, eid[p])
  BY DEF Inv, ClientOK, Taking, Unwinding, HoldsMaterial, HoldsEvent
<1>2. bay \in Bays /\ new \in Event /\ new # NoEvent /\ events[eid[p]] # NoEvent
  BY <1>1, ReportsAreReports, EntriesAreEvents
<1>3. /\ material' = [material EXCEPT ![bay] = copy[p]]
      /\ events' = [events EXCEPT ![eid[p]] = new]
  <2>1. PICK undone : undone = [events[eid[p]] EXCEPT !.reverted = TRUE]
    OBVIOUS
  <2>2. undone = new
    BY <1>1, <2>1, EntryUndone
  <2> QED BY <2>1, <2>2
<1>4. CoreType'
  <2>1. /\ pc' \in [Clients -> PCs]
        /\ dto' \in [Clients -> Report \cup [qty : Nat \ {0}] \cup {Nothing}]
        /\ eid' \in [Clients -> EventIds \cup {NoEvent}]
        /\ copy' \in [Clients -> [Parts -> Material] \cup {Nothing}]
        /\ todo' \in [Clients -> SUBSET Parts]
    BY DEF Inv, CoreType, Ends, Goes, PCs
  <2>2. material' \in [Bays -> [Parts -> Material]]
    BY <1>1, <1>2, <1>3 DEF Inv, CoreType
  <2>3. events' \in [EventIds -> Event \cup {NoEvent}]
    BY <1>1, <1>2, <1>3 DEF Inv, CoreType
  <2> QED BY <2>1, <2>2, <2>3 DEF CoreType
<1>5. /\ pc'[p] = "idle"
      /\ \A q \in Clients \ {p} :
           /\ pc'[q] = pc[q] /\ dto'[q] = dto[q] /\ eid'[q] = eid[q]
           /\ copy'[q] = copy[q] /\ todo'[q] = todo[q]
  BY DEF Inv, CoreType, Ends, Goes
<1>6. /\ events'[eid[p]] = new
      /\ \A e \in EventIds \ {eid[p]} : events'[e] = events[e]
      /\ \A b \in Bays \ {bay} : material'[b] = material[b]
  BY <1>1, <1>2, <1>3 DEF Inv, CoreType
<1>7. \A e \in EventIds : /\ events'[e] # NoEvent <=> events[e] # NoEvent
                          /\ events'[e].request = events[e].request
  BY <1>1, <1>2, <1>6 DEF new, Log!Entry
<1> HIDE DEF CommitRevert, bay, new
<1>8. EventsOK'
  <2>1. ASSUME NEW e \in EventIds, events'[e] # NoEvent
        PROVE  \E report \in Reports, undone \in BOOLEAN : events'[e] = Log!Entry(report, undone)
    <3>1. CASE e = eid[p]
      BY <1>1, <1>6, <3>1 DEF new
    <3>2. CASE e # eid[p]
      BY <1>6, <2>1, <3>2 DEF Inv, EventsOK
    <3> QED BY <3>1, <3>2
  <2>2. OncePerRequest'
    BY <1>7 DEF Inv, EventsOK, OncePerRequest
  <2> QED BY <2>1, <2>2 DEF EventsOK, Log!Entry
<1>9. ASSUME NEW q \in Clients \ {p} PROVE ClientOK(q)'
  <2>1. ClientOK(q) /\ PairOK(p, q)
    BY DEF Inv, Apart
  <2>2. /\ Inserted(q) => eid[q] # eid[p]
        /\ pc[q] \in Taking => eid[q] # eid[p]
    BY <1>1, <1>2, <2>1 DEF ClientOK, PairOK, HoldsEvent, Taking
  <2>3. pc[q] \in Reporting \cup Unwinding => dto[q].bay \in Bays /\ dto[q].bay # bay
    <3>1. pc[q] \in Reporting \cup Unwinding => dto[q] \in Reports
      BY <2>1 DEF ClientOK, Taking
    <3> QED BY <1>1, <1>2, <2>1, <3>1, ReportsAreReports DEF PairOK, HoldsMaterial
  <2>4. Inserted(q) => ~ Recorded(dto[q].request)'
    BY <1>5, <1>7, <2>1 DEF ClientOK, Recorded
  <2>5. pc[q] = "lockEvent" => eid[q] \in EventIds /\ events'[eid[q]] # NoEvent
    BY <1>7, <2>1 DEF ClientOK
  <2>6. pc[q] \in Reporting => CopyOfReport(q)'
    BY <1>5, <1>6, <2>1, <2>3 DEF ClientOK, CopyOfReport
  <2>7. pc[q] \in Unwinding => CopyOfRevert(q)'
    BY <1>5, <1>6, <2>1, <2>3 DEF ClientOK, CopyOfRevert
  <2>8. Inserted(q) => eid[q] \in EventIds /\ events'[eid[q]] = NoEvent
    BY <1>6, <2>1, <2>2 DEF ClientOK
  <2>9. pc[q] \in Taking => eid[q] \in EventIds /\ events'[eid[q]] = Log!Entry(dto[q], FALSE)
    BY <1>6, <2>1, <2>2 DEF ClientOK
  <2> QED BY <1>5, <2>1, <2>4, <2>5, <2>6, <2>7, <2>8, <2>9 DEF ClientOK, Inserted, Log!Entry
<1>10. ClientOK(p)'
  BY <1>5 DEF ClientOK, Reporting, Unwinding, Taking, Inserted
<1>11. Apart'
  <2>1. ASSUME NEW q \in Clients \ {p} PROVE PairOK(p, q)' /\ PairOK(q, p)'
    BY <1>5 DEF PairOK, Inserted, HoldsMaterial, HoldsEvent, Reporting, Unwinding
  <2>2. ASSUME NEW q \in Clients \ {p}, NEW r \in Clients \ {p}, q # r PROVE PairOK(q, r)'
    BY <1>5, <2>2 DEF Inv, Apart, PairOK, Inserted, HoldsMaterial, HoldsEvent
  <2> QED BY <2>1, <2>2 DEF Apart
<1> QED BY <1>4, <1>8, <1>9, <1>10, <1>11 DEF Inv

LEMMA InvStep == Inv /\ [Next]_vars => Inv'
<1> SUFFICES ASSUME Inv, [Next]_vars PROVE Inv'
  OBVIOUS
<1>1. CASE UNCHANGED vars
  BY <1>1 DEF vars, table, stock, locals, Inv, CoreType, EventsOK, OncePerRequest, Log!Entry,
              Apart, PairOK, ClientOK, Inserted, HoldsMaterial, HoldsEvent, CopyOfReport,
              CopyOfRevert, Recorded
<1>2. ASSUME NEW p \in Clients,
             \/ \E args \in Reports : RegisterBayEvent(p, args)
             \/ \E e \in EventIds : RevertBayEvent(p, e)
             \/ \E args \in Declarations : DeclareFinishedGoods(p, args)
             \/ ReceiveLine(p) \/ StartLine(p)
      PROVE  Inv'
  BY <1>2, BeginningsOK
<1>3. ASSUME NEW p \in Clients, Serve(p) PROVE Inv'
  <2>1. CASE QuietStep(p)
    BY <2>1, QuietStepsOK
  <2>2. CASE LockMaterial(p)
    BY <2>2, LockMaterialOK
  <2>3. CASE Consume(p)
    BY <2>3, ConsumeOK
  <2>4. CASE InsertEvent(p)
    BY <2>4, InsertEventOK
  <2>5. CASE CommitEvent(p)
    BY <2>5, CommitEventOK
  <2>6. CASE LockEvent(p)
    BY <2>6, LockEventOK
  <2>7. CASE LockMaterialBack(p)
    BY <2>7, LockMaterialBackOK
  <2>8. CASE CommitRevert(p)
    BY <2>8, CommitRevertOK
  <2>9. CASE CommitDeclared(p) \/ SetKitStatus(p)
    BY <2>9, EndsOK DEF CommitDeclared, SetKitStatus
  <2>10. CASE \/ AnswerDuplicate(p) \/ RefuseUnmounted(p) \/ RefuseInsufficient(p)
              \/ RefuseTaken(p) \/ RefuseSecondWip(p) \/ RefuseRevert(p)
              \/ RefuseNotLast(p) \/ RefuseTransfer(p) \/ DeadlockVictim(p)
    <3>1. RolledBack(p)
      BY <2>10 DEF AnswerDuplicate, RefuseUnmounted, RefuseInsufficient, RefuseTaken,
                   RefuseSecondWip, RefuseRevert, RefuseNotLast, RefuseTransfer,
                   DeadlockVictim
    <3> QED BY <3>1, EndsOK DEF RolledBack, table
  <2> QED BY <1>3, <2>1, <2>2, <2>3, <2>4, <2>5, <2>6, <2>7, <2>8, <2>9, <2>10
          DEF Serve, QuietStep
<1>4. ASSUME NEW p \in Clients, Fail(p) PROVE Inv'
  BY <1>4, EndsOK DEF Fail, RolledBack, table
<1> QED BY <1>1, <1>2, <1>3, <1>4 DEF Next

LEMMA InvHolds == Spec => []Inv
  BY InvInit, InvStep, PTL DEF Spec

\* registerBayEvent answers a repeated clientRequestId with the event it has:
\* for any number of concurrent requests, crashes and reverts, no two events
\* share one.
THEOREM RequestsAreRecordedOnce == Spec => []OncePerRequest
<1>1. Inv => OncePerRequest
  BY DEF Inv, EventsOK
<1> QED BY <1>1, InvHolds, PTL

-----------------------------------------------------------------------------
(***************************************************************************)
(* The refinement: only the two commits move the log.                      *)
(***************************************************************************)
Left == [b \in Bays |-> [q \in Mounted[b] |-> material[b][q].available]]

Logged == {events[e] : e \in {f \in EventIds : events[f] # NoEvent}}

\* A commit changes the material left of its bay only.
LEMMA LeftMoves ==
  ASSUME Inv, NEW r \in Reports, NEW delta \in Int, NEW c \in [Parts -> Material],
         material' = [material EXCEPT ![r.bay] = c],
         \A q \in Mounted[r.bay] : c[q].available = material[r.bay][q].available + delta
  PROVE  Left' = [Left EXCEPT ![r.bay] = [q \in Mounted[r.bay] |-> Left[r.bay][q] + delta]]
<1>1. r.bay \in Bays
  BY ReportsAreReports
<1>2. /\ material'[r.bay] = c
      /\ \A b \in Bays \ {r.bay} : material'[b] = material[b]
  BY <1>1 DEF Inv, CoreType
<1> DEFINE goal == [Left EXCEPT ![r.bay] = [q \in Mounted[r.bay] |-> Left[r.bay][q] + delta]]
<1>3. Left[r.bay] = [q \in Mounted[r.bay] |-> material[r.bay][q].available]
  BY <1>1 DEF Left
<1>4. [q \in Mounted[r.bay] |-> material'[r.bay][q].available]
        = [q \in Mounted[r.bay] |-> Left[r.bay][q] + delta]
  BY <1>2, <1>3
<1>5. ASSUME NEW b \in Bays PROVE Left'[b] = goal[b]
  <2>1. CASE b = r.bay
    <3>1. Left'[r.bay] = [q \in Mounted[r.bay] |-> material'[r.bay][q].available]
      BY <1>1 DEF Left
    <3>2. goal[r.bay] = [q \in Mounted[r.bay] |-> Left[r.bay][q] + delta]
      BY <1>1 DEF Left
    <3> QED BY <1>4, <2>1, <3>1, <3>2
  <2>2. CASE b # r.bay
    BY <1>2, <2>2 DEF Left
  <2> QED BY <2>1, <2>2
<1>6. Left' = [b \in Bays |-> Left'[b]] /\ goal = [b \in Bays |-> goal[b]]
  BY DEF Left
<1> QED BY <1>5, <1>6

LEMMA CommitEventAccepts ==
  ASSUME Inv, NEW p \in Clients, CommitEvent(p), NEW report \in Reports, report = dto[p]
  PROVE  Log!Accept(report)
<1> DEFINE new == Log!Entry(dto[p], FALSE)
<1>1. /\ pc[p] = "commit"
      /\ material' = [material EXCEPT ![dto[p].bay] = copy[p]]
      /\ events' = [events EXCEPT ![eid[p]] = new]
  BY DEF CommitEvent, Log!Entry
<1>2. /\ dto[p] \in Reports /\ copy[p] \in [Parts -> Material]
      /\ eid[p] \in EventIds /\ events[eid[p]] = NoEvent /\ ~ Recorded(dto[p].request)
      /\ Mounted[dto[p].bay] # {} /\ CopyOfReport(p) /\ todo[p] = {}
  BY <1>1 DEF Inv, ClientOK, Inserted, Reporting
<1>3. /\ material[dto[p].bay] \in [Parts -> Material] /\ dto[p].qty \in Nat
      /\ dto[p].bay \in Bays /\ Mounted[dto[p].bay] \subseteq Parts /\ new # NoEvent
  BY <1>2, ReportsAreReports, EntriesAreEvents DEF Inv, CoreType
<1>4. \A q \in Mounted[dto[p].bay] :
        /\ material[dto[p].bay][q].available >= dto[p].qty
        /\ copy[p][q].available = material[dto[p].bay][q].available - dto[p].qty
  BY <1>2 DEF CopyOfReport
<1>5. \A q \in Mounted[dto[p].bay] : Left[dto[p].bay][q] >= dto[p].qty
  BY <1>3, <1>4 DEF Left
<1>6. Left' = [Left EXCEPT ![dto[p].bay] =
        [q \in Mounted[dto[p].bay] |-> Left[dto[p].bay][q] + (-dto[p].qty)]]
  <2>1. \A q \in Mounted[dto[p].bay] : material[dto[p].bay][q].available \in Nat
    BY <1>3 DEF Material
  <2>2. -dto[p].qty \in Int
    BY <1>3
  <2>3. \A q \in Mounted[dto[p].bay] :
          copy[p][q].available = material[dto[p].bay][q].available + (-dto[p].qty)
    BY <1>3, <1>4, <2>1
  <2> QED BY <1>1, <1>2, <2>2, <2>3, LeftMoves
<1>7. Logged' = Logged \cup {new}
  <2>1. /\ events'[eid[p]] = new
        /\ \A e \in EventIds \ {eid[p]} : events'[e] = events[e]
    BY <1>1, <1>2 DEF Inv, CoreType
  <2> HIDE DEF new
  <2> QED BY <1>2, <1>3, <2>1 DEF Logged
<1>8. \A entry \in Logged : entry.request # dto[p].request
  BY <1>2 DEF Logged, Recorded
<1> QED BY <1>2, <1>5, <1>6, <1>7, <1>8 DEF Log!Accept, Log!Change, Left, Logged

LEMMA CommitRevertUndoes ==
  ASSUME Inv, NEW p \in Clients, CommitRevert(p), NEW report \in Reports, report = dto[p]
  PROVE  Log!Undo(report)
<1> DEFINE old == Log!Entry(dto[p], FALSE)
           new == Log!Entry(dto[p], TRUE)
<1>1. /\ pc[p] = "commitBack"
      /\ material' = [material EXCEPT ![dto[p].bay] = copy[p]]
      /\ events' = [events EXCEPT ![eid[p]] = [events[eid[p]] EXCEPT !.reverted = TRUE]]
  BY DEF CommitRevert
<1>2. /\ dto[p] \in Reports /\ copy[p] \in [Parts -> Material]
      /\ eid[p] \in EventIds /\ events[eid[p]] = old /\ CopyOfRevert(p)
  BY <1>1 DEF Inv, ClientOK, Taking, Unwinding
<1>3. /\ dto[p].qty \in Int /\ old # NoEvent /\ new # NoEvent
  <2>1. old # NoEvent /\ new # NoEvent
    BY <1>2, EntriesAreEvents
  <2>2. dto[p].qty \in Nat \ {0}
    BY <1>2, ReportsAreReports
  <2>3. \A n \in Nat \ {0} : n \in Int
    OBVIOUS
  <2> QED BY <2>1, <2>2, <2>3, Zenon
<1>4. PICK undone : undone = [events[eid[p]] EXCEPT !.reverted = TRUE]
  OBVIOUS
<1>5. undone = new
  BY <1>2, <1>4, EntryUndone
<1>6. /\ events'[eid[p]] = new
      /\ \A e \in EventIds \ {eid[p]} : events'[e] = events[e]
  BY <1>1, <1>2, <1>4, <1>5 DEF Inv, CoreType
<1>7. \A e \in EventIds \ {eid[p]} : events[e] # old
  BY <1>2, <1>3 DEF Inv, EventsOK, OncePerRequest
<1>8. Left' = [Left EXCEPT ![dto[p].bay] =
        [q \in Mounted[dto[p].bay] |-> Left[dto[p].bay][q] + dto[p].qty]]
  BY <1>1, <1>2, <1>3, LeftMoves DEF CopyOfRevert
<1> HIDE DEF old, new
<1>9. Logged' = (Logged \ {old}) \cup {new}
  BY <1>2, <1>3, <1>6, <1>7 DEF Logged
<1>10. old \in Logged
  BY <1>2, <1>3 DEF Logged
<1> QED BY <1>8, <1>9, <1>10 DEF Log!Undo, Log!Change, Left, Logged, old, new

\* Nothing but the two commits writes the material or the events.
LEMMA OnlyCommits ==
  ASSUME [Next]_vars
  PROVE  \/ UNCHANGED <<material, events>>
         \/ \E p \in Clients : CommitEvent(p) \/ CommitRevert(p)
<1>1. ASSUME NEW p \in Clients, Serve(p), ~ CommitEvent(p), ~ CommitRevert(p)
      PROVE  UNCHANGED <<material, events>>
  BY <1>1 DEF Serve, table, RolledBack, AnswerDuplicate, FindNoDuplicate, LockMaterial,
     RefuseUnmounted, Consume, RefuseInsufficient, ReadWip, InsertEvent, RefuseTaken,
     SumEvents, SaveWip, RefuseSecondWip, UpdateKit, LockEvent, RefuseRevert, FindLast,
     RefuseNotLast, LockMaterialBack, SumBack, Transfer, RefuseTransfer, SaveDeclared,
     CommitDeclared, SetKitStatus, DeadlockVictim
<1>2. ASSUME NEW p \in Clients,
             \/ \E args \in Reports : RegisterBayEvent(p, args)
             \/ \E e \in EventIds : RevertBayEvent(p, e)
             \/ \E args \in Declarations : DeclareFinishedGoods(p, args)
             \/ ReceiveLine(p) \/ StartLine(p) \/ Fail(p)
      PROVE  UNCHANGED <<material, events>>
  BY <1>2 DEF RegisterBayEvent, RevertBayEvent, DeclareFinishedGoods, ReceiveLine, StartLine,
     Fail, RolledBack, table
<1>3. CASE UNCHANGED vars
  BY <1>3 DEF vars, table
<1> QED BY <1>1, <1>2, <1>3 DEF Next

LEMMA LogStep == Inv /\ [Next]_vars => [Log!Next]_<<Left, Logged>>
<1> SUFFICES ASSUME Inv, [Next]_vars PROVE [Log!Next]_<<Left, Logged>>
  OBVIOUS
<1>1. CASE UNCHANGED <<material, events>>
  BY <1>1 DEF Left, Logged
<1>2. ASSUME NEW p \in Clients, CommitEvent(p) PROVE Log!Next
  <2>1. dto[p] \in Reports
    BY <1>2 DEF CommitEvent, Inv, ClientOK, Reporting
  <2>2. PICK report \in Reports : report = dto[p]
    BY <2>1
  <2>3. Log!Accept(report)
    BY <1>2, <2>2, CommitEventAccepts
  <2> QED BY <2>3 DEF Log!Next
<1>3. ASSUME NEW p \in Clients, CommitRevert(p) PROVE Log!Next
  <2>1. dto[p] \in Reports
    BY <1>3 DEF CommitRevert, Inv, ClientOK, Taking, Unwinding
  <2>2. PICK report \in Reports : report = dto[p]
    BY <2>1
  <2>3. Log!Undo(report)
    BY <1>3, <2>2, CommitRevertUndoes
  <2> QED BY <2>3 DEF Log!Next
<1> QED BY <1>1, <1>2, <1>3, OnlyCommits

LEMMA LogInit == Init => Log!Init
<1> SUFFICES ASSUME Init PROVE Log!Init
  OBVIOUS
<1>1. \A b \in Bays : \A q \in Mounted[b] : q \in Parts
  BY ConstantsAssumption
<1>2. \A b \in Bays : [q \in Mounted[b] |-> material[b][q].available]
                       = [q \in Mounted[b] |-> Supplied]
  BY <1>1 DEF Init
<1>3. Left = [b \in Bays |-> [q \in Mounted[b] |-> Supplied]]
  BY <1>2 DEF Left
<1>4. Logged = {}
  BY DEF Init, Logged
<1> QED BY <1>3, <1>4 DEF Log!Init, Left, Logged

\* registerBayEvent and revertBayEvent against ProductionLog: whatever runs at
\* the same time, a report takes effect once and whole, at its commit, with the
\* material it uses, and is undone at most once.
THEOREM ReportsImplementLog == Spec => ImplementsLog
<1>1. Inv /\ [Next]_vars => [Log!Next]_<<Left, Logged>>
  BY LogStep
<1> QED BY <1>1, LogInit, InvHolds, PTL DEF Spec, ImplementsLog, Log!Spec, Left, Logged
-----------------------------------------------------------------------------
(***************************************************************************)
(* The counts: sums over the events that were not reverted.                *)
(***************************************************************************)
Committed == {e \in EventIds : events[e] # NoEvent}
LiveAt(b) == {e \in Live : events[e].bay = b}

\* A committed event is a record of its type, and a count over live ones is a
\* natural number.
LEMMA EventsTyped ==
  ASSUME Inv, NEW e \in EventIds, events[e] # NoEvent
  PROVE  events[e] \in Event /\ events[e].bay \in Bays /\ events[e].qty \in Nat \ {0}
<1>1. events[e] \in Event
  BY DEF Inv, CoreType
<1> QED BY <1>1 DEF Event

LEMMA TotalsAreNat ==
  ASSUME Inv, IsFiniteSet(Committed), NEW S, S \subseteq Live
  PROVE  IsFiniteSet(S) /\ Total(S) \in Nat
<1>1. \A e \in S : [x \in S |-> events[x].qty][e] \in Nat
  BY EventsTyped DEF Live
<1>2. IsFiniteSet(S)
  <2>1. S \subseteq Committed
    BY DEF Live, Committed
  <2> QED BY <2>1, FS_Subset
<1>3. SumFunction([x \in S |-> events[x].qty]) \in Nat
  <2> DEFINE f == [x \in S |-> events[x].qty]
  <2>1. DOMAIN f = S /\ \A e \in DOMAIN f : f[e] \in Nat
    BY <1>1
  <2> HIDE DEF f
  <2>2. SumFunction(f) \in Nat
    BY <1>2, <2>1, TotalNat
  <2> QED BY <2>2 DEF f
<1> QED BY <1>2, <1>3 DEF Total

\* Two counts that differ by one event; after it and before may be two states.
LEMMA OneMore ==
  ASSUME NEW S, NEW T, NEW x, NEW f, NEW g, IsFiniteSet(S), x \notin S, T = S \cup {x},
         f = [e \in S |-> f[e]], g = [e \in T |-> g[e]],
         \A e \in S : f[e] \in Nat /\ g[e] = f[e], g[x] \in Nat
  PROVE  SumFunction(g) = g[x] + SumFunction(f) /\ SumFunction(f) \in Nat
<1>1. DOMAIN f = S /\ DOMAIN g = T
  OBVIOUS
<1>2. SumFunction(f) \in Nat
  BY <1>1, TotalNat
<1>3. SumFunction(g) = g[x] + SumFunction(f)
  <2>1. /\ IsFiniteSet(DOMAIN f) /\ x \notin DOMAIN f /\ DOMAIN g = DOMAIN f \cup {x} /\ g[x] \in Int
        /\ \A y \in DOMAIN f : f[y] \in Int /\ g[y] = f[y]
    BY <1>1
  <2> QED BY ONLY <2>1, TotalExtend
<1> QED BY <1>2, <1>3

\* A commit of a report adds its quantity to the counts of its bay.
LEMMA CommitCounts ==
  ASSUME Inv, IsFiniteSet(Committed), NEW p \in Clients, CommitEvent(p)
  PROVE  /\ dto[p] \in Reports /\ dto[p].bay \in Bays /\ dto[p].qty \in Nat \ {0}
         /\ IsFiniteSet(Committed')
         /\ Total(Live)' = Total(Live) + dto[p].qty
         /\ \A b \in Bays : Total(LiveAt(b))' = Total(LiveAt(b)) + IF b = dto[p].bay THEN dto[p].qty ELSE 0
<1> DEFINE new == Log!Entry(dto[p], FALSE)
           x == eid[p]
<1>1. /\ dto[p] \in Reports /\ x \in EventIds /\ events[x] = NoEvent
      /\ dto[p].bay \in Bays /\ dto[p].qty \in Nat \ {0}
      /\ new \in Event /\ new # NoEvent
  <2>1. dto[p] \in Reports /\ x \in EventIds /\ events[x] = NoEvent
    BY DEF CommitEvent, Inv, ClientOK, Inserted, Reporting
  <2> QED BY <2>1, ReportsAreReports, EntriesAreEvents
<1>2. /\ events'[x] = new /\ \A e \in EventIds \ {x} : events'[e] = events[e]
  BY <1>1 DEF CommitEvent, Log!Entry, Inv, CoreType
<1>3. new.reverted = FALSE /\ new.bay = dto[p].bay /\ new.qty = dto[p].qty
  BY DEF Log!Entry
<1> HIDE DEF new, x
<1>4. Live' = Live \cup {x} /\ x \notin Live
  BY <1>1, <1>2, <1>3 DEF Live
<1>5. \A b : LiveAt(b)' = IF b = dto[p].bay THEN LiveAt(b) \cup {x} ELSE LiveAt(b)
  BY <1>1, <1>2, <1>3, <1>4 DEF LiveAt, Live
<1>6. Committed' = Committed \cup {x} /\ IsFiniteSet(Committed')
  <2>1. Committed' = Committed \cup {x}
    BY <1>1, <1>2 DEF Committed
  <2> QED BY <2>1, FS_AddElement
<1>7. \A e \in Live : events'[e] = events[e] /\ events[e].qty \in Nat
  BY <1>2, <1>4, EventsTyped DEF Live
<1>8. Total(Live)' = Total(Live) + dto[p].qty
  <2> DEFINE f == [e \in Live |-> events[e].qty]
             g == [e \in Live' |-> events'[e].qty]
  <2>1. IsFiniteSet(Live)
    BY TotalsAreNat
  <2>2. /\ f = [e \in Live |-> f[e]] /\ g = [e \in Live' |-> g[e]]
        /\ \A e \in Live : f[e] \in Nat /\ g[e] = f[e]
        /\ g[x] = dto[p].qty
    BY <1>2, <1>3, <1>4, <1>7
  <2> HIDE DEF f, g
  <2>3. SumFunction(g) = g[x] + SumFunction(f) /\ SumFunction(f) \in Nat
    BY <1>1, <1>4, <2>1, <2>2, OneMore
  <2> QED BY <1>1, <2>2, <2>3 DEF Total, f, g
<1>9. ASSUME NEW b \in Bays
      PROVE  Total(LiveAt(b))' = Total(LiveAt(b)) + IF b = dto[p].bay THEN dto[p].qty ELSE 0
  <2> DEFINE S == LiveAt(b)
             f == [e \in S |-> events[e].qty]
             g == [e \in S' |-> events'[e].qty]
  <2>1. S \subseteq Live /\ IsFiniteSet(S) /\ Total(S) \in Nat
    <3>1. S \subseteq Live
      BY DEF LiveAt
    <3> QED BY <3>1, TotalsAreNat
  <2>2. CASE b = dto[p].bay
    <3>1. S' = S \cup {x} /\ x \notin S
      BY <1>4, <1>5, <2>1, <2>2
    <3>2. /\ f = [e \in S |-> f[e]] /\ g = [e \in S' |-> g[e]]
          /\ \A e \in S : f[e] \in Nat /\ g[e] = f[e]
          /\ g[x] = dto[p].qty
      BY <1>2, <1>3, <1>7, <2>1, <3>1
    <3> HIDE DEF f, g, S
    <3>3. SumFunction(g) = g[x] + SumFunction(f) /\ SumFunction(f) \in Nat
      BY <1>1, <2>1, <3>1, <3>2, OneMore
    <3> QED BY <1>1, <2>2, <3>2, <3>3 DEF Total, f, g, S
  <2>3. CASE b # dto[p].bay
    <3>1. S' = S
      BY <1>5, <2>3
    <3>2. g = f
      BY <1>7, <2>1, <3>1
    <3> HIDE DEF f, g, S
    <3>3. Total(S)' = SumFunction(g) /\ Total(S) = SumFunction(f)
      BY DEF Total, f, g
    <3> QED BY <2>1, <2>3, <3>2, <3>3 DEF S
  <2> QED BY <2>2, <2>3
<1> QED BY <1>1, <1>6, <1>8, <1>9

\* A revert takes the quantity of its event off them.
LEMMA RevertCounts ==
  ASSUME Inv, IsFiniteSet(Committed), NEW p \in Clients, CommitRevert(p)
  PROVE  /\ dto[p] \in Reports /\ dto[p].bay \in Bays /\ dto[p].qty \in Nat \ {0}
         /\ IsFiniteSet(Committed')
         /\ eid[p] \in Live /\ Live' = Live \ {eid[p]} /\ events[eid[p]].bay = dto[p].bay
         /\ Total(Live)' = Total(Live \ {eid[p]})
         /\ \A b \in Bays : /\ Total(LiveAt(b))' \in Nat
                            /\ Total(LiveAt(b)) = Total(LiveAt(b))' + IF b = dto[p].bay THEN dto[p].qty ELSE 0
<1> DEFINE old == Log!Entry(dto[p], FALSE)
           new == Log!Entry(dto[p], TRUE)
           x == eid[p]
<1>1. /\ dto[p] \in Reports /\ x \in EventIds /\ events[x] = old
      /\ dto[p].bay \in Bays /\ dto[p].qty \in Nat \ {0}
      /\ new # NoEvent /\ old # NoEvent
  <2>1. dto[p] \in Reports /\ x \in EventIds /\ events[x] = old
    BY DEF CommitRevert, Inv, ClientOK, Taking, Unwinding
  <2> QED BY <2>1, ReportsAreReports, EntriesAreEvents
<1>2. /\ events'[x] = new /\ \A e \in EventIds \ {x} : events'[e] = events[e]
  <2>0. PICK e : e = events[x]
    OBVIOUS
  <2>1. PICK undone : undone = [e EXCEPT !.reverted = TRUE]
    OBVIOUS
  <2>2. undone = new
    <3>1. e = Log!Entry(dto[p], FALSE)
      BY <1>1, <2>0
    <3> QED BY <2>1, <3>1, EntryUndone
  <2>3. events' = [events EXCEPT ![x] = new]
    BY <2>0, <2>1, <2>2 DEF CommitRevert
  <2> QED BY <1>1, <2>3 DEF Inv, CoreType
<1>3. old.reverted = FALSE /\ old.bay = dto[p].bay /\ old.qty = dto[p].qty /\ new.reverted = TRUE
  BY DEF Log!Entry
<1> HIDE DEF old, new, x
<1>4. Live' = Live \ {x} /\ x \in Live
  BY <1>1, <1>2, <1>3 DEF Live
<1>5. \A b : LiveAt(b)' = IF b = dto[p].bay THEN LiveAt(b) \ {x} ELSE LiveAt(b)
  BY <1>1, <1>2, <1>3, <1>4 DEF LiveAt, Live
<1>6. IsFiniteSet(Committed')
  <2>1. Committed' = Committed
    BY <1>1, <1>2 DEF Committed
  <2> QED BY <2>1
<1>7. \A e \in Live : /\ events[e].qty \in Nat
                      /\ e # x => events'[e] = events[e]
  BY <1>2, EventsTyped DEF Live
<1>8. Total(Live)' = Total(Live \ {x})
  <2> DEFINE after == [e \in Live' |-> events'[e].qty]
             before == [e \in Live \ {x} |-> events[e].qty]
  <2>1. after = before
    BY <1>4, <1>7
  <2>2. Total(Live)' = SumFunction(after) /\ Total(Live \ {x}) = SumFunction(before)
    BY DEF Total
  <2> HIDE DEF after, before
  <2> QED BY <2>1, <2>2
<1>9. ASSUME NEW b \in Bays
      PROVE  /\ Total(LiveAt(b))' \in Nat
             /\ Total(LiveAt(b)) = Total(LiveAt(b))' + IF b = dto[p].bay THEN dto[p].qty ELSE 0
  <2> DEFINE S == LiveAt(b)
             f == [e \in S' |-> events'[e].qty]
             g == [e \in S |-> events[e].qty]
  <2>1. S \subseteq Live /\ IsFiniteSet(S) /\ Total(S) \in Nat
    <3>1. S \subseteq Live
      BY DEF LiveAt
    <3> QED BY <3>1, TotalsAreNat
  <2>2. CASE b = dto[p].bay
    <3>1. S = S' \cup {x} /\ x \notin S' /\ IsFiniteSet(S')
      <4>1. S' = S \ {x} /\ x \in S
        BY <1>1, <1>3, <1>4, <1>5, <2>2 DEF LiveAt
      <4> HIDE DEF S
      <4> QED BY <2>1, <4>1, FS_Subset
    <3>2. /\ f = [e \in S' |-> f[e]] /\ g = [e \in S |-> g[e]]
          /\ \A e \in S' : f[e] \in Nat /\ g[e] = f[e]
          /\ g[x] = dto[p].qty
      BY <1>1, <1>3, <1>7, <2>1, <3>1
    <3> HIDE DEF f, g, S
    <3>3. SumFunction(g) = g[x] + SumFunction(f) /\ SumFunction(f) \in Nat
      BY <1>1, <3>1, <3>2, OneMore
    <3> QED BY <1>1, <2>2, <3>2, <3>3 DEF Total, f, g, S
  <2>3. CASE b # dto[p].bay
    <3>1. S' = S /\ x \notin S
      BY <1>1, <1>3, <1>5, <2>3 DEF LiveAt
    <3>2. g = f
      BY <1>7, <2>1, <3>1
    <3> HIDE DEF f, g, S
    <3>3. Total(S)' = SumFunction(f) /\ Total(S) = SumFunction(g)
      BY DEF Total, f, g
    <3> QED BY <2>1, <2>3, <3>2, <3>3 DEF S
  <2> QED BY <2>2, <2>3
<1> QED BY <1>1, <1>3, <1>4, <1>6, <1>8, <1>9 DEF x
-----------------------------------------------------------------------------
(***************************************************************************)
(* Material against events.                                                *)
(***************************************************************************)
Balanced == IsFiniteSet(Committed) /\ MaterialBalance

LEMMA BalancedInit == Init => Balanced
<1> SUFFICES ASSUME Init PROVE Balanced
  OBVIOUS
<1>1. Committed = {} /\ Live = {}
  BY DEF Init, Committed, Live
<1>2. \A b : Total(LiveAt(b)) = 0
  <2> TAKE b
  <2>1. LiveAt(b) = {}
    BY <1>1 DEF LiveAt
  <2>2. DOMAIN [e \in LiveAt(b) |-> events[e].qty] = {}
    BY <2>1
  <2> QED BY <2>2, TotalEmpty DEF Total
<1>3. ASSUME NEW b \in Bays, NEW q \in Mounted[b]
      PROVE  material[b][q].consumed = 0 /\ material[b][q].available = Supplied
  <2>1. q \in Parts
    BY ConstantsAssumption
  <2> QED BY <2>1 DEF Init
<1>4. MaterialBalance
  BY <1>2, <1>3, ConstantsAssumption DEF MaterialBalance, LiveAt
<1> QED BY <1>1, <1>4, FS_EmptySet DEF Balanced

LEMMA BalancedStep == Inv /\ Balanced /\ [Next]_vars => Balanced'
<1> SUFFICES ASSUME Inv, Balanced, [Next]_vars PROVE Balanced'
  OBVIOUS
<1>0. \A b \in Bays : \A q \in Mounted[b] :
        /\ q \in Parts /\ material[b][q].consumed \in Nat /\ material[b][q].available \in Nat
        /\ material[b][q].consumed = Total(LiveAt(b))
        /\ material[b][q].available + material[b][q].consumed = Supplied
  <2>1. \A b \in Bays : \A q \in Mounted[b] : q \in Parts
    BY ConstantsAssumption
  <2> QED BY <2>1 DEF Balanced, MaterialBalance, LiveAt, Inv, CoreType, Material
<1>1. CASE UNCHANGED <<material, events>>
  BY <1>1 DEF Balanced, Committed, MaterialBalance, Total, Live
<1>2. ASSUME NEW p \in Clients, CommitEvent(p) PROVE Balanced'
  <2>1. /\ dto[p].bay \in Bays /\ dto[p].qty \in Nat /\ IsFiniteSet(Committed')
        /\ \A b \in Bays : Total(LiveAt(b))' = Total(LiveAt(b)) + IF b = dto[p].bay THEN dto[p].qty ELSE 0
    BY <1>2, CommitCounts DEF Balanced
  <2>2. /\ material' = [material EXCEPT ![dto[p].bay] = copy[p]]
        /\ CopyOfReport(p) /\ todo[p] = {}
    BY <1>2 DEF CommitEvent, Inv, ClientOK, Reporting
  <2>3. ASSUME NEW b \in Bays, NEW q \in Mounted[b]
        PROVE  /\ material'[b][q].consumed = Total(LiveAt(b))'
               /\ material'[b][q].available + material'[b][q].consumed = Supplied
    <3>1. CASE b = dto[p].bay
      <4>1. material'[b][q] = copy[p][q]
        BY <2>1, <2>2, <3>1 DEF Inv, CoreType
      <4>2. /\ copy[p][q].available = material[b][q].available - dto[p].qty
            /\ copy[p][q].consumed = material[b][q].consumed + dto[p].qty
        BY <2>2, <3>1 DEF CopyOfReport
      <4>3. Total(LiveAt(b))' = Total(LiveAt(b)) + dto[p].qty
        BY <2>1, <3>1
      <4> QED BY <1>0, <2>1, <4>1, <4>2, <4>3
    <3>2. CASE b # dto[p].bay
      <4>1. material'[b] = material[b]
        BY <2>2, <3>2 DEF Inv, CoreType
      <4>2. Total(LiveAt(b))' = Total(LiveAt(b)) + 0
        BY <2>1, <3>2
      <4> QED BY <1>0, <4>1, <4>2
    <3> QED BY <3>1, <3>2
  <2> QED BY <2>1, <2>3 DEF Balanced, MaterialBalance, LiveAt
<1>3. ASSUME NEW p \in Clients, CommitRevert(p) PROVE Balanced'
  <2>1. /\ dto[p].bay \in Bays /\ dto[p].qty \in Nat /\ IsFiniteSet(Committed')
        /\ \A b \in Bays : /\ Total(LiveAt(b))' \in Nat
                           /\ Total(LiveAt(b)) = Total(LiveAt(b))' + IF b = dto[p].bay THEN dto[p].qty ELSE 0
    BY <1>3, RevertCounts DEF Balanced
  <2>2. /\ material' = [material EXCEPT ![dto[p].bay] = copy[p]] /\ CopyOfRevert(p)
    BY <1>3 DEF CommitRevert, Inv, ClientOK, Unwinding
  <2>3. ASSUME NEW b \in Bays, NEW q \in Mounted[b]
        PROVE  /\ material'[b][q].consumed = Total(LiveAt(b))'
               /\ material'[b][q].available + material'[b][q].consumed = Supplied
    <3>1. CASE b = dto[p].bay
      <4>1. material'[b][q] = copy[p][q]
        BY <2>1, <2>2, <3>1 DEF Inv, CoreType
      <4>2. /\ copy[p][q].available = material[b][q].available + dto[p].qty
            /\ copy[p][q].consumed = Clamp(material[b][q].consumed - dto[p].qty)
        BY <2>2, <3>1 DEF CopyOfRevert
      <4>3. Total(LiveAt(b)) = Total(LiveAt(b))' + dto[p].qty /\ Total(LiveAt(b))' \in Nat
        BY <2>1, <3>1
      <4>4. copy[p][q].consumed = material[b][q].consumed - dto[p].qty
        BY <1>0, <2>1, <4>2, <4>3 DEF Clamp
      <4> QED BY <1>0, <2>1, <4>1, <4>2, <4>3, <4>4
    <3>2. CASE b # dto[p].bay
      <4>1. material'[b] = material[b]
        BY <2>2, <3>2 DEF Inv, CoreType
      <4>2. Total(LiveAt(b)) = Total(LiveAt(b))' + 0 /\ Total(LiveAt(b))' \in Nat
        BY <2>1, <3>2
      <4> QED BY <1>0, <4>1, <4>2
    <3> QED BY <3>1, <3>2
  <2> QED BY <2>1, <2>3 DEF Balanced, MaterialBalance, LiveAt
<1> QED BY <1>1, <1>2, <1>3, OnlyCommits

LEMMA BalancedHolds == Spec => []Balanced
<1>1. Inv /\ Balanced /\ [Next]_vars => Balanced'
  BY BalancedStep
<1> QED BY <1>1, BalancedInit, InvHolds, PTL DEF Spec

\* registerBayEvent and revertBayEvent: however many requests run, fail, are
\* sent again or taken back, what a bay consumed of each part is the sum of its
\* live events, and consumed and available make up what was supplied.
THEOREM MaterialIsBalanced == Spec => []MaterialBalance
<1>1. Balanced => MaterialBalance
  BY DEF Balanced
<1> QED BY <1>1, BalancedHolds, PTL

-----------------------------------------------------------------------------
(***************************************************************************)
(* The rest of the type invariant: a declaration takes no more off the     *)
(* work in process than the copy it was checked against has.               *)
(***************************************************************************)
CountTypes ==
  /\ wip \in Wip \cup {NoWip} /\ kit \in KitStatus
  /\ tank \in [Parts -> Nat] /\ staged \in Nat /\ declared \in Nat
  /\ wipCopy \in [Clients -> Wip \cup {NoWip}] /\ sum \in [Clients -> Nat]
  /\ jobs \in 0 .. MaxJobs

Declaring == {"transfer", "saveDeclared"}

Checked(p) ==
  pc[p] \in Declaring =>
    dto[p] \in Declarations /\ wipCopy[p] \in Wip /\ wipCopy[p].completed >= dto[p].qty

Counted == CountTypes /\ \A p \in Clients : Checked(p)

LEMMA CountedInit == Init => Counted
BY ConstantsAssumption DEF Init, Counted, CountTypes, KitStatus, Checked, Declaring

\* A step that declares nothing has only its types to keep.
LEMMA CheckedStays ==
  ASSUME Counted, Inv, NEW p \in Clients, pc'[p] \notin Declaring,
         \A q \in Clients \ {p} : pc'[q] = pc[q] /\ dto'[q] = dto[q] /\ wipCopy'[q] = wipCopy[q]
  PROVE  \A q \in Clients : Checked(q)'
BY DEF Counted, Checked

LEMMA CountedEnds ==
  ASSUME Counted, Inv, NEW p \in Clients, Ends(p),
         UNCHANGED <<tank, staged, declared>>, wip' \in Wip \cup {NoWip}, kit' \in KitStatus
  PROVE  Counted'
<1>1. CountTypes'
  BY DEF Counted, CountTypes, Ends
<1>2. /\ pc'[p] \notin Declaring
      /\ \A q \in Clients \ {p} : pc'[q] = pc[q] /\ dto'[q] = dto[q] /\ wipCopy'[q] = wipCopy[q]
  BY DEF Ends, Goes, Inv, CoreType, Counted, CountTypes, Declaring
<1> QED BY <1>1, <1>2, CheckedStays DEF Counted

LEMMA CountedStarts ==
  ASSUME Counted, Inv, NEW p \in Clients,
         \/ \E args \in Reports : RegisterBayEvent(p, args)
         \/ \E e \in EventIds : RevertBayEvent(p, e)
         \/ \E args \in Declarations : DeclareFinishedGoods(p, args)
         \/ ReceiveLine(p) \/ StartLine(p)
  PROVE  Counted'
<1> USE DEF RegisterBayEvent, RevertBayEvent, DeclareFinishedGoods, ReceiveLine,
            StartLine, Starts, Goes, table, stock, locals
<1>1. jobs' \in 0 .. MaxJobs
  BY ConstantsAssumption DEF Counted, CountTypes
<1>2. CASE \E args \in Declarations : DeclareFinishedGoods(p, args)
  <2>1. PICK args \in Declarations : DeclareFinishedGoods(p, args)
    BY <1>2
  <2>2. wip \in Wip /\ wip.completed >= args.qty
    BY <2>1 DEF Counted, CountTypes, Declarable
  <2>3. CountTypes'
    BY <1>1, <2>1, <2>2 DEF Counted, CountTypes
  <2>4. \A q \in Clients : Checked(q)'
    <3>1. /\ dto'[p] = args /\ wipCopy'[p] = wip
          /\ \A q \in Clients \ {p} : pc'[q] = pc[q] /\ dto'[q] = dto[q] /\ wipCopy'[q] = wipCopy[q]
      BY <2>1 DEF Inv, CoreType, Counted, CountTypes
    <3> QED BY <2>2, <3>1 DEF Checked, Counted
  <2> QED BY <2>3, <2>4 DEF Counted
<1>3. CASE ~ \E args \in Declarations : DeclareFinishedGoods(p, args)
  <2>1. CountTypes'
    BY <1>1, <1>3 DEF Counted, CountTypes
  <2>2. /\ pc'[p] \notin Declaring
        /\ \A q \in Clients \ {p} : pc'[q] = pc[q] /\ dto'[q] = dto[q] /\ wipCopy'[q] = wipCopy[q]
    BY <1>3 DEF Inv, CoreType, Declaring
  <2> QED BY <2>1, <2>2, CheckedStays DEF Counted
<1> QED BY <1>2, <1>3

LEMMA CountedServe ==
  ASSUME Counted, Inv, Balanced, NEW p \in Clients, Serve(p)
  PROVE  Counted'
<1> USE DEF Goes, table, stock, locals
<1>0. /\ IsFiniteSet(Committed) /\ Total(Live) \in Nat /\ Total(Live \ {eid[p]}) \in Nat
  BY TotalsAreNat DEF Balanced
<1>1. CASE Transfer(p) \/ SaveDeclared(p)
  <2>1. /\ dto[p] \in Declarations /\ wipCopy[p] \in Wip /\ wipCopy[p].completed >= dto[p].qty
        /\ dto[p].qty \in Nat \ {0}
    <3>1. dto[p] \in Declarations /\ wipCopy[p] \in Wip /\ wipCopy[p].completed >= dto[p].qty
      BY <1>1 DEF Counted, Checked, Declaring, Transfer, SaveDeclared
    <3>2. dto[p] \in [qty : Nat \ {0}]
      BY <3>1, Zenon, ConstantsAssumption
    <3> QED BY <3>1, <3>2
  <2>2. CASE Transfer(p)
    <3>1. CountTypes'
      BY <2>1, <2>2 DEF Transfer, Counted, CountTypes
    <3>2. \A q \in Clients : pc[q] \in Declaring \/ pc'[q] = pc[q]
      BY <2>2 DEF Transfer, Declaring, Inv, CoreType
    <3>3. \A q \in Clients : Checked(q)'
      BY <2>2, <3>2 DEF Transfer, Counted, Checked
    <3> QED BY <3>1, <3>3 DEF Counted
  <2>3. CASE SaveDeclared(p)
    <3>1. wipCopy'[p] \in Wip
      BY <2>1, <2>3 DEF SaveDeclared, Counted, CountTypes, Wip
    <3>2. CountTypes'
      BY <2>3, <3>1 DEF SaveDeclared, Counted, CountTypes
    <3>3. /\ pc'[p] \notin Declaring
          /\ \A q \in Clients \ {p} : pc'[q] = pc[q] /\ dto'[q] = dto[q] /\ wipCopy'[q] = wipCopy[q]
      BY <2>3 DEF SaveDeclared, Inv, CoreType, Counted, CountTypes, Declaring
    <3> QED BY <3>2, <3>3, CheckedStays DEF Counted
  <2> QED BY <1>1, <2>2, <2>3
<1>2. CASE CommitEvent(p) \/ CommitRevert(p) \/ CommitDeclared(p) \/ SetKitStatus(p)
  <2>1. wipCopy[p] \in Wip \cup {NoWip} /\ Progress(sum[p]) \in KitStatus /\ wip \in Wip \cup {NoWip}
    BY DEF Counted, CountTypes, Progress, KitStatus
  <2>2. kit \in KitStatus /\ "requested" \in KitStatus /\ "in_progress" \in KitStatus
    BY DEF Counted, CountTypes, KitStatus
  <2>3. Ends(p) /\ UNCHANGED <<tank, staged, declared>> /\ wip' \in Wip \cup {NoWip} /\ kit' \in KitStatus
    BY <1>2, <2>1, <2>2 DEF CommitEvent, CommitRevert, CommitDeclared, SetKitStatus
  <2> QED BY <2>3, CountedEnds
<1>3. CASE \/ AnswerDuplicate(p) \/ RefuseUnmounted(p) \/ RefuseInsufficient(p)
           \/ RefuseTaken(p) \/ RefuseSecondWip(p) \/ RefuseRevert(p)
           \/ RefuseNotLast(p) \/ RefuseTransfer(p) \/ DeadlockVictim(p)
  <2>1. RolledBack(p)
    BY <1>3 DEF AnswerDuplicate, RefuseUnmounted, RefuseInsufficient, RefuseTaken,
       RefuseSecondWip, RefuseRevert, RefuseNotLast, RefuseTransfer, DeadlockVictim
  <2> QED BY <2>1, CountedEnds DEF RolledBack, Counted, CountTypes
<1>4. CASE \/ FindNoDuplicate(p) \/ LockMaterial(p) \/ InsertEvent(p) \/ UpdateKit(p)
           \/ LockEvent(p) \/ FindLast(p) \/ LockMaterialBack(p)
  <2>1. CountTypes'
    BY <1>4 DEF FindNoDuplicate, LockMaterial, InsertEvent, UpdateKit, LockEvent, FindLast,
       LockMaterialBack, Counted, CountTypes
  <2>2. /\ pc'[p] \notin Declaring
        /\ \A q \in Clients \ {p} : pc'[q] = pc[q] /\ dto'[q] = dto[q] /\ wipCopy'[q] = wipCopy[q]
    BY <1>4 DEF FindNoDuplicate, LockMaterial, InsertEvent, UpdateKit, LockEvent, FindLast,
       LockMaterialBack, Inv, CoreType, Declaring
  <2> QED BY <2>1, <2>2, CheckedStays DEF Counted
<1>5. CASE Consume(p) \/ ReadWip(p) \/ SumEvents(p) \/ SumBack(p) \/ SaveWip(p)
  <2>1. /\ pc'[p] \notin Declaring
        /\ \A q \in Clients \ {p} : pc'[q] = pc[q] /\ dto'[q] = dto[q] /\ wipCopy'[q] = wipCopy[q]
    BY <1>5 DEF Consume, ReadWip, SumEvents, SumBack, SaveWip, Inv, CoreType, Counted, CountTypes, Declaring
  <2>2. pc[p] \in Reporting => dto[p] \in Reports /\ dto[p].qty \in Nat \ {0}
    <3>1. pc[p] \in Reporting => dto[p] \in Reports
      BY DEF Inv, ClientOK
    <3> QED BY <3>1, ReportsAreReports
  <2>3. CASE Consume(p)
    <3>1. dto[p].qty \in Nat
      BY <2>2, <2>3 DEF Consume, Reporting
    <3>2. PICK q \in todo[p] : \/ tank[q] >= dto[p].qty /\ tank' = [tank EXCEPT ![q] = tank[q] - dto[p].qty]
                               \/ UNCHANGED tank
      BY <2>3 DEF Consume
    <3>3. q \in Parts
      BY DEF Inv, CoreType
    <3>4. tank' \in [Parts -> Nat]
      BY <3>1, <3>2, <3>3 DEF Counted, CountTypes
    <3> QED BY <2>1, <2>3, <3>4, CheckedStays DEF Consume, Counted, CountTypes
  <2>4. CASE ReadWip(p)
    <3>1. CountTypes'
      BY <2>4 DEF ReadWip, Counted, CountTypes
    <3> QED BY <2>1, <3>1, CheckedStays DEF Counted
  <2>5. CASE SumEvents(p)
    <3>1. dto[p].qty \in Nat
      BY <2>2, <2>5 DEF SumEvents, Reporting
    <3>2. CountTypes'
      BY <1>0, <2>5, <3>1 DEF SumEvents, Counted, CountTypes
    <3> QED BY <2>1, <3>2, CheckedStays DEF Counted
  <2>6. CASE SumBack(p)
    <3>1. CountTypes'
      BY <1>0, <2>6 DEF SumBack, Counted, CountTypes
    <3> QED BY <2>1, <3>1, CheckedStays DEF Counted
  <2>7. CASE SaveWip(p)
    <3>1. sum[p] \in Nat /\ wipCopy[p] \in Wip \cup {NoWip}
      BY DEF Counted, CountTypes
    <3> DEFINE row == [completed |-> sum[p],
                       status |-> IF sum[p] >= Target THEN "ready_for_fg"
                                  ELSE IF wipCopy[p] = NoWip THEN "in_production"
                                  ELSE wipCopy[p].status]
    <3>2. row \in Wip
      BY <3>1 DEF Wip
    <3>3. wipCopy' = [wipCopy EXCEPT ![p] = row]
      BY <2>7 DEF SaveWip
    <3> HIDE DEF row
    <3>4. CountTypes'
      BY <2>7, <3>2, <3>3 DEF SaveWip, Counted, CountTypes
    <3> QED BY <2>1, <3>4, CheckedStays DEF Counted
  <2> QED BY <1>5, <2>3, <2>4, <2>5, <2>6, <2>7
<1> QED BY <1>1, <1>2, <1>3, <1>4, <1>5 DEF Serve

LEMMA CountedStep == Counted /\ Inv /\ Balanced /\ [Next]_vars => Counted'
<1> SUFFICES ASSUME Counted, Inv, Balanced, [Next]_vars PROVE Counted'
  OBVIOUS
<1>1. ASSUME NEW p \in Clients, Fail(p) PROVE Counted'
  BY <1>1, CountedEnds DEF Fail, RolledBack, table, stock, Counted, CountTypes
<1>2. CASE UNCHANGED vars
  BY <1>2 DEF vars, table, stock, locals, Counted, CountTypes, Checked
<1> QED BY <1>1, <1>2, CountedStarts, CountedServe DEF Next

\* Every row, copy and count keeps its type, for any number of requests: no
\* count, tank or declared quantity goes below zero.
THEOREM TypeCorrect == Spec => []TypeOK
<1>1. Counted /\ Inv /\ Balanced /\ [Next]_vars => Counted'
  BY CountedStep
<1>2. Counted /\ Inv => TypeOK
  BY DEF Counted, CountTypes, Inv, CoreType, PCs, TypeOK
<1> QED BY <1>1, <1>2, CountedInit, BalancedHolds, InvHolds, PTL DEF Spec
-----------------------------------------------------------------------------
(***************************************************************************)
(* One request at a time.  Without the hypothesis both facts are false: a  *)
(* report may commit between the count of another request and its commit,  *)
(* or between the look for a later event and the lock of the material.     *)
(***************************************************************************)
Alone == \A p, q \in Clients : p # q => pc[p] = "idle" \/ pc[q] = "idle"

KitMatches == kit = "completed" <=> Total(Live) >= Target

\* What the one request in flight has read is still so.
UpToDate(p) ==
  /\ pc[p] \in {"saveWip", "updateKit", "commit"} => sum[p] = Total(Live) + dto[p].qty
  /\ pc[p] \in {"updateKitBack", "commitBack"} => sum[p] = Total(Live \ {eid[p]})
  /\ pc[p] \in {"receive", "start"} => kit # "completed"
  /\ pc[p] \in {"lockBack"} \cup Unwinding => Later(p) = {}

Serial == Alone /\ KitMatches /\ \A p \in Clients : UpToDate(p)

LEMMA SerialInit == Init => Serial
<1> SUFFICES ASSUME Init PROVE Serial
  OBVIOUS
<1>1. Total(Live) = 0
  <2>1. DOMAIN [e \in Live |-> events[e].qty] = {}
    BY DEF Init, Live
  <2> QED BY <2>1, TotalEmpty DEF Total
<1>2. KitMatches
  BY <1>1, ConstantsAssumption DEF Init, KitMatches
<1>3. \A p \in Clients : pc[p] = "idle"
  BY DEF Init
<1> QED BY <1>2, <1>3 DEF Serial, Alone, UpToDate, Unwinding

\* One request moves, and commits nothing.
LEMMA SerialMoves ==
  ASSUME Serial, NEW p \in Clients, UNCHANGED <<events, kit>>, UpToDate(p)',
         \A q \in Clients \ {p} : pc'[q] = pc[q] /\ pc[q] = "idle"
  PROVE  Serial'
<1>1. KitMatches'
  BY DEF Serial, KitMatches, Total, Live
<1>2. Alone'
  BY DEF Alone
<1>3. \A q \in Clients \ {p} : UpToDate(q)'
  BY DEF UpToDate, Unwinding
<1> QED BY <1>1, <1>2, <1>3 DEF Serial

\* A request ends, with a commit or without.
LEMMA SerialEnds ==
  ASSUME Inv, Serial, NEW p \in Clients, pc[p] # "idle", Ends(p), KitMatches'
  PROVE  Serial'
<1>1. \A q \in Clients : pc'[q] = "idle"
  BY DEF Ends, Goes, Serial, Alone, Inv, CoreType
<1> QED BY <1>1 DEF Serial, Alone, UpToDate, Unwinding

LEMMA SerialServe ==
  ASSUME Inv, Balanced, Counted, Serial, NEW p \in Clients, Serve(p)
  PROVE  Serial'
<1>0. pc[p] # "idle"
  BY DEF Serve, AnswerDuplicate, FindNoDuplicate, LockMaterial, RefuseUnmounted, Consume,
     RefuseInsufficient, ReadWip, InsertEvent, RefuseTaken, SumEvents, SaveWip, RefuseSecondWip,
     UpdateKit, CommitEvent, LockEvent, RefuseRevert, FindLast, RefuseNotLast, LockMaterialBack,
     SumBack, CommitRevert, Transfer, RefuseTransfer, SaveDeclared, CommitDeclared, SetKitStatus,
     DeadlockVictim, WaitsFor
<1>1. \A q \in Clients \ {p} : pc[q] = "idle"
  BY <1>0 DEF Serial, Alone
<1>2. CASE CommitEvent(p)
  <2>1. sum[p] = Total(Live)' /\ kit' = Progress(sum[p])
    BY <1>2, CommitCounts DEF Balanced, Serial, UpToDate, CommitEvent
  <2>2. KitMatches'
    BY <2>1 DEF KitMatches, Progress
  <2> QED BY <1>0, <1>2, <2>2, SerialEnds DEF CommitEvent
<1>3. CASE CommitRevert(p)
  <2>1. sum[p] = Total(Live)' /\ kit' = Progress(sum[p])
    BY <1>3, RevertCounts DEF Balanced, Serial, UpToDate, CommitRevert
  <2>2. KitMatches'
    BY <2>1 DEF KitMatches, Progress
  <2> QED BY <1>0, <1>3, <2>2, SerialEnds DEF CommitRevert
<1>4. CASE SetKitStatus(p)
  <2>1. kit # "completed" /\ kit' # "completed" /\ events' = events
    BY <1>4 DEF SetKitStatus, Serial, UpToDate
  <2>2. KitMatches'
    BY <2>1 DEF Serial, KitMatches, Total, Live
  <2> QED BY <1>0, <1>4, <2>2, SerialEnds DEF SetKitStatus
<1>5. CASE \/ AnswerDuplicate(p) \/ RefuseUnmounted(p) \/ RefuseInsufficient(p)
           \/ RefuseTaken(p) \/ RefuseSecondWip(p) \/ RefuseRevert(p)
           \/ RefuseNotLast(p) \/ RefuseTransfer(p) \/ DeadlockVictim(p) \/ CommitDeclared(p)
  <2>1. Ends(p) /\ UNCHANGED <<events, kit>>
    BY <1>5 DEF AnswerDuplicate, RefuseUnmounted, RefuseInsufficient, RefuseTaken,
       RefuseSecondWip, RefuseRevert, RefuseNotLast, RefuseTransfer, DeadlockVictim,
       CommitDeclared, RolledBack, table
  <2>2. KitMatches'
    BY <2>1 DEF Serial, KitMatches, Total, Live
  <2> QED BY <1>0, <2>1, <2>2, SerialEnds
<1>6. CASE \/ FindNoDuplicate(p) \/ LockMaterial(p) \/ Consume(p) \/ ReadWip(p) \/ InsertEvent(p)
           \/ SumEvents(p) \/ SaveWip(p) \/ UpdateKit(p) \/ LockEvent(p) \/ FindLast(p)
           \/ LockMaterialBack(p) \/ SumBack(p) \/ Transfer(p) \/ SaveDeclared(p)
  <2>1. UNCHANGED <<events, kit>> /\ \A q \in Clients \ {p} : pc'[q] = pc[q]
    BY <1>6 DEF FindNoDuplicate, LockMaterial, Consume, ReadWip, InsertEvent, SumEvents, SaveWip,
       UpdateKit, LockEvent, FindLast, LockMaterialBack, SumBack, Transfer, SaveDeclared, Goes,
       table, Inv, CoreType
  <2>2. UpToDate(p)
    BY DEF Serial
  <2> SUFFICES UpToDate(p)'
    BY <1>1, <2>1, SerialMoves
  <2>3. CASE \/ FindNoDuplicate(p) \/ LockMaterial(p) \/ Consume(p) \/ ReadWip(p) \/ InsertEvent(p)
             \/ LockEvent(p) \/ Transfer(p) \/ SaveDeclared(p)
    <3>1. pc'[p] \in {"lock", "consume", "insert", "sum", "findLast", "saveDeclared", "commitDeclared"}
      BY <2>3 DEF FindNoDuplicate, LockMaterial, Consume, ReadWip, InsertEvent, LockEvent, Transfer,
         SaveDeclared, Goes, Inv, CoreType
    <3> QED BY <3>1 DEF UpToDate, Unwinding
  <2>4. CASE SumEvents(p)
    <3>1. /\ pc'[p] = "saveWip" /\ dto' = dto /\ sum'[p] = Total(Live) + dto[p].qty
      BY <2>4 DEF SumEvents, Goes, Inv, CoreType, Counted, CountTypes
    <3>2. sum'[p] = Total(Live)' + dto'[p].qty
      BY <2>1, <3>1 DEF Total, Live
    <3> QED BY <3>1, <3>2 DEF UpToDate, Unwinding
  <2>5. CASE SaveWip(p) \/ UpdateKit(p)
    <3>1. /\ \/ pc[p] = "saveWip" /\ pc'[p] = "updateKit"
             \/ pc[p] = "updateKit" /\ pc'[p] = "commit"
             \/ pc[p] = "updateKitBack" /\ pc'[p] = "commitBack"
          /\ UNCHANGED <<dto, eid, sum>>
      BY <2>5 DEF SaveWip, UpdateKit, Goes, locals, Inv, CoreType
    <3>2. Total(Live)' = Total(Live) /\ Total(Live \ {eid[p]})' = Total(Live \ {eid[p]}) /\ Later(p)' = Later(p)
      BY <2>1, <3>1 DEF Total, Live, Later
    <3> QED BY <2>2, <3>1, <3>2 DEF UpToDate, Unwinding
  <2>6. CASE FindLast(p) \/ LockMaterialBack(p)
    <3>1. /\ pc'[p] \in {"lockBack", "sumBack"} /\ UNCHANGED <<dto, eid>> /\ Later(p) = {}
      BY <2>2, <2>6 DEF FindLast, LockMaterialBack, Goes, locals, UpToDate, Inv, CoreType
    <3>2. Later(p)' = {}
      BY <2>1, <3>1 DEF Later, Live
    <3> QED BY <3>1, <3>2 DEF UpToDate
  <2>7. CASE SumBack(p)
    <3>1. /\ pc'[p] = "updateKitBack" /\ UNCHANGED <<dto, eid>> /\ Later(p) = {}
          /\ sum'[p] = Total(Live \ {eid[p]})
      BY <2>2, <2>7 DEF SumBack, Goes, UpToDate, Unwinding, Inv, CoreType, Counted, CountTypes
    <3>2. Later(p)' = {} /\ sum'[p] = Total(Live \ {eid[p]})'
      BY <2>1, <3>1 DEF Later, Live, Total
    <3> QED BY <3>1, <3>2 DEF UpToDate
  <2> QED BY <1>6, <2>3, <2>4, <2>5, <2>6, <2>7
<1> QED BY <1>2, <1>3, <1>4, <1>5, <1>6 DEF Serve

LEMMA SerialStep == OneAtATime /\ Inv /\ Balanced /\ Counted /\ Serial /\ [Next]_vars => Serial'
<1> SUFFICES ASSUME OneAtATime, Inv, Balanced, Counted, Serial, [Next]_vars PROVE Serial'
  OBVIOUS
<1>1. ASSUME NEW p \in Clients,
             \/ \E args \in Reports : RegisterBayEvent(p, args)
             \/ \E e \in EventIds : RevertBayEvent(p, e)
             \/ \E args \in Declarations : DeclareFinishedGoods(p, args)
             \/ ReceiveLine(p) \/ StartLine(p)
      PROVE  Serial'
  <2>1. /\ UNCHANGED <<events, kit>>
        /\ \A q \in Clients \ {p} : pc'[q] = pc[q] /\ pc[q] = "idle"
        /\ pc'[p] \in {"findDuplicate", "lockEvent", "transfer", "receive", "start"}
        /\ pc'[p] \in {"receive", "start"} => kit # "completed"
    BY <1>1 DEF RegisterBayEvent, RevertBayEvent, DeclareFinishedGoods, ReceiveLine, StartLine,
       Starts, Goes, table, Startable, Inv, CoreType
  <2>2. UpToDate(p)'
    BY <2>1 DEF UpToDate, Unwinding
  <2> QED BY <2>1, <2>2, SerialMoves
<1>2. ASSUME NEW p \in Clients, Fail(p) PROVE Serial'
  <2>1. KitMatches'
    BY <1>2 DEF Fail, RolledBack, table, Serial, KitMatches, Total, Live
  <2> QED BY <1>2, <2>1, SerialEnds DEF Fail, RolledBack
<1>3. CASE UNCHANGED vars
  BY <1>3 DEF vars, table, stock, locals, Serial, Alone, KitMatches, UpToDate, Total, Live, Later
<1> QED BY <1>1, <1>2, <1>3, SerialServe DEF Next

LEMMA SerialHolds == ASSUME OneAtATime PROVE Spec => [](Inv /\ Balanced /\ Serial)
<1>1. Init => Inv /\ Balanced /\ Counted /\ Serial
  BY InvInit, BalancedInit, CountedInit, SerialInit
<1>2. Inv /\ Balanced /\ Counted /\ Serial /\ [Next]_vars => (Inv /\ Balanced /\ Counted /\ Serial)'
  BY InvStep, BalancedStep, CountedStep, SerialStep
<1> QED BY <1>1, <1>2, PTL DEF Spec

\* updateKit at the end of every report and revert: when nothing is in flight,
\* and requests did not overlap, the kit is complete exactly when its live
\* events reach the quantity of the plan.
THEOREM KitIsFollowed == ASSUME OneAtATime PROVE Spec => []KitFollowsEvents
<1>1. Serial => KitFollowsEvents
  BY DEF Serial, KitMatches, KitFollowsEvents
<1> QED BY <1>1, SerialHolds, PTL

\* revertBayEvent: when requests do not overlap, only the last live event of
\* its bay is ever taken back.
THEOREM OnlyLastIsReverted == ASSUME OneAtATime PROVE Spec => OnlyLastReverted
<1> DEFINE LastOnly == \A e \in EventIds :
             (e \in Live /\ e \notin Live')
               => \A f \in Live : events[f].bay = events[e].bay => f <= e
<1>1. Inv /\ Balanced /\ Serial /\ [Next]_vars => [LastOnly]_vars
  <2> SUFFICES ASSUME Inv, Balanced, Serial, [Next]_vars PROVE LastOnly
    OBVIOUS
  <2>1. CASE UNCHANGED <<material, events>>
    BY <2>1 DEF Live
  <2>2. ASSUME NEW p \in Clients, CommitEvent(p) PROVE LastOnly
    <3>1. eid[p] \in EventIds /\ events[eid[p]] = NoEvent /\ \A e \in EventIds \ {eid[p]} : events'[e] = events[e]
      BY <2>2 DEF CommitEvent, Inv, ClientOK, Inserted, CoreType
    <3> QED BY <3>1 DEF Live
  <2>3. ASSUME NEW p \in Clients, CommitRevert(p) PROVE LastOnly
    <3>1. eid[p] \in Live /\ Live' = Live \ {eid[p]} /\ events[eid[p]].bay = dto[p].bay
      BY <2>3, RevertCounts DEF Balanced
    <3>2. Later(p) = {}
      BY <2>3 DEF CommitRevert, Serial, UpToDate, Unwinding
    <3>3. \A e, f \in EventIds : e \in Nat /\ f \in Nat
      BY ConstantsAssumption
    <3> QED BY <3>1, <3>2, <3>3 DEF Later, Live
  <2> QED BY <2>1, <2>2, <2>3, OnlyCommits
<1> QED BY <1>1, SerialHolds, PTL DEF Spec, OnlyLastReverted
=============================================================================
