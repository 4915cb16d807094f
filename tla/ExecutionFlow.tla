---------------------------- MODULE ExecutionFlow ----------------------------
(***************************************************************************)
(* A work order on the line: modules/mes-execution/mes-execution.service.ts *)
(*                                                                         *)
(* The route of the model is exploded into stations; operators confirm     *)
(* units station by station (material is backflushed, the formal stock is  *)
(* debited by a transaction of its own), undo a confirmation, report       *)
(* incidents that segregate units or block the station, quality disposes   *)
(* of them, and andons stop the line.  A confirmation and an undo are      *)
(* READ COMMITTED transactions without row locks; the other handlers save  *)
(* row by row, so that a crash leaves what was saved.                      *)
(*                                                                         *)
(* Assumed: the handlers that write the counters of one station do not     *)
(* overlap, except the same request sent twice (Free); handlers of         *)
(* different stations do.  One part per station, one of it per unit, so    *)
(* no kit row is shared.  The clock is not kept: an undo may always be     *)
(* late, and nothing depends on the length of a stop.                      *)
(***************************************************************************)
EXTENDS Integers, FiniteSets, Functions

CONSTANTS
  N,             \* stations of the route
  Quantity,      \* plan.quantity
  Requests,      \* values of clientRequestId
  Dto,           \* what each request confirms: [station, good, scrap]
  Incidents,     \* ids of incidents
  Reports,       \* what an incident may say: [station, qty, blocks]
  Andons,        \* ids of andon calls
  Calls,         \* what an andon may say: [station, reason], a reason iff it stops
  Delivered,     \* material the kit delivered to each station
  LineTank,      \* formal stock of the line warehouse
  Workers,       \* concurrent handlers
  Crashes,       \* whether the process may die in the middle of a handler
  Nobody

Stations == 1 .. N

ASSUME ConstantsAssumption ==
  /\ N \in Nat \ {0} /\ Quantity \in Nat
  /\ Dto \in [Requests -> [station : Stations, good : Nat \ {0}, scrap : Nat]]
  /\ IsFiniteSet(Requests)
  /\ Reports \subseteq [station : Stations, qty : Nat, blocks : BOOLEAN]
  /\ Calls \subseteq [station : 0 .. N, reason : {call.reason : call \in Calls}]
  /\ Delivered \in [Stations -> Nat] /\ LineTank \in Nat
  /\ Nobody \notin Requests /\ Nobody \notin Incidents /\ Nobody \notin Andons

StepStatus == {"pending", "in_process", "completed", "blocked"}
Step == [good : Nat, scrap : Nat, segregated : Nat, status : StepStatus]
StepMaterial == [consumed : Int, scrapped : Int, available : Int, kit : Int]
NewStep == [good |-> 0, scrap |-> 0, segregated |-> 0, status |-> "pending"]
NoCall == [station |-> 0, reason |-> Nobody]
NoReport == [station |-> 1, qty |-> 0, blocks |-> FALSE]

VARIABLES
  execution,   \* status of the work order execution, "none" before it is opened
  plan,        \* status of its plan
  route,       \* stations whose row exists: 1 .. route
  step,        \* execution_steps
  material,    \* execution_step_materials and the kit row behind each
  event,       \* execution_events by clientRequestId
  incident,    \* station_incidents
  andon,       \* andon_calls
  downtime,    \* open rows of mes_downtime_events
  tank,        \* formal stock of the line warehouse
  shortage,    \* a material request of the kit is pending
  job,         \* what each handler has read and not yet written
  withdrawn,   \* history: good units taken back from a station
  reworked,    \* history: segregated units released for rework
  unreturned   \* history: units an undo could not take off a counter

rows == <<execution, plan, route, step, material, event, incident, andon, downtime, tank, shortage>>
history == <<withdrawn, reworked, unreturned>>
vars == <<rows, job, history>>

\* A handler: what it does, on which station, the rows as it read them and how
\* many there were (after its commit: the units it left to build).
Task(kind, s, r, i, read, seen) ==
  [kind |-> kind, station |-> s, request |-> r, incident |-> i, read |-> read, seen |-> seen]
Idle == Task("idle", 1, Nobody, Nobody, <<>>, 0)
Writing == {"confirm", "incident", "disposition"}
Job == [kind : Writing \cup {"idle", "open", "after", "short"}, station : Stations,
        request : Requests \cup {Nobody}, incident : Incidents \cup {Nobody},
        read : [Stations -> Step] \cup {<<>>}, seen : Int]

Init ==
  /\ execution = "none" /\ plan = "released" /\ route = 0
  /\ step = [s \in Stations |-> NewStep]
  /\ material = [s \in Stations |-> [consumed |-> 0, scrapped |-> 0, available |-> Delivered[s], kit |-> 0]]
  /\ event = [r \in Requests |-> "none"]
  /\ incident = [i \in Incidents |-> [status |-> "none", report |-> NoReport]]
  /\ andon = [a \in Andons |-> [status |-> "none", call |-> NoCall]]
  /\ downtime = {} /\ tank = LineTank /\ shortage = FALSE
  /\ job = [w \in Workers |-> Idle]
  /\ withdrawn = [s \in Stations |-> 0] /\ reworked = [s \in Stations |-> 0]
  /\ unreturned = [s \in Stations |-> 0]

Least(a, b) == IF a <= b THEN a ELSE b
\* Mutant: nothing stops at zero.
MinusBelow(a, b) == a - b
Minus(a, b) == IF b <= a THEN a - b ELSE 0

\* Nobody else writes the counters of the station, or only the same request.
Free(s, request) ==
  \A w \in Workers : job[w].kind \in Writing /\ job[w].station = s =>
                        job[w].kind = "confirm" /\ job[w].request = request

-----------------------------------------------------------------------------
(* openExecution(): one save per row.  A crash leaves the route short, and  *)
(* the next call returns what is there.                                     *)

OpenExecution(w) ==
  /\ job[w].kind = "idle" /\ execution = "none"
  /\ execution' = "open"
  /\ job' = [job EXCEPT ![w].kind = "open"]
  /\ UNCHANGED <<plan, route, step, material, event, incident, andon, downtime, tank, shortage, history>>

OpenStation(w) ==
  /\ job[w].kind = "open"
  /\ route' = route + 1
  /\ job' = [job EXCEPT ![w].kind = IF route + 1 < N THEN "open" ELSE "idle"]
  /\ UNCHANGED <<execution, plan, step, material, event, incident, andon, downtime, tank, shortage, history>>

-----------------------------------------------------------------------------
(* confirmAdvance()                                                         *)

\* Units a station has taken from the one before it, and what that released.
Taken(row) == row.good + row.scrap + row.segregated
Upstream(st, s) == IF s = 1 THEN Quantity ELSE st[s - 1].good
\* Mutant: the scrap of the request is left out of the guard.
FitsGood(r, st) == LET s == Dto[r].station IN Dto[r].good + Taken(st[s]) <= Upstream(st, s)
Fits(r, st) == LET s == Dto[r].station IN
  Dto[r].good + Dto[r].scrap + Taken(st[s]) <= Upstream(st, s)

\* Reads the rows, refuses what does not fit, and debits the line warehouse
\* when it can (that commits at once, whatever becomes of the confirmation).
ConfirmRead(w, r) ==
  LET s == Dto[r].station
      units == Dto[r].good + Dto[r].scrap
  IN /\ job[w].kind = "idle" /\ s <= route /\ Free(s, r)
     /\ event[r] = "none"
     /\ step[s].status # "blocked"
     /\ Fits(r, step)
     /\ \/ tank' = tank /\ tank < units
        \/ tank' = tank - units /\ units <= tank
     /\ job' = [job EXCEPT ![w] = Task("confirm", s, r, Nobody, step, route)]
     /\ UNCHANGED <<execution, plan, route, step, material, event, incident, andon, downtime, shortage, history>>

\* The row of the station with the units of the request added.
Advanced(r, st, s) ==
  LET old == st[s]
      taken == Taken(old) + Dto[r].good + Dto[r].scrap
      upstreamCompleted == s = 1 \/ st[s - 1].status = "completed"
  IN [good |-> old.good + Dto[r].good, scrap |-> old.scrap + Dto[r].scrap, segregated |-> old.segregated,
      status |-> IF upstreamCompleted /\ Upstream(st, s) <= taken THEN "completed" ELSE "in_process"]

Charged(m, units, scrap, kit) ==
  [consumed |-> m.consumed + units, scrapped |-> m.scrapped + scrap,
   available |-> m.available - units, kit |-> m.kit + kit]
\* Mutant: scrap is not charged to the kit.
ConsumedGood(m, good, scrap) == Charged(m, good + scrap, scrap, good)
Consumed(m, good, scrap) == Charged(m, good + scrap, scrap, good + scrap)

ConfirmCommit(w) ==
  LET s == job[w].station
      r == job[w].request
      st == job[w].read
      done == /\ Advanced(r, st, s).status = "completed"
              /\ \A t \in 1 .. job[w].seen \ {s} : st[t].status = "completed"
      short == Consumed(material[s], Dto[r].good, Dto[r].scrap).available <= 0
  IN /\ job[w].kind = "confirm" /\ event[r] = "none"
     /\ step' = [step EXCEPT ![s] = Advanced(r, st, s)]
     /\ material' = [material EXCEPT ![s] = Consumed(@, Dto[r].good, Dto[r].scrap)]
     /\ event' = [event EXCEPT ![r] = "live"]
     /\ execution' = IF done THEN "completed" ELSE execution
     /\ plan' = IF done /\ execution # "completed" THEN "completed" ELSE plan
     /\ job' = [job EXCEPT ![w] = Task(IF short THEN "short" ELSE "after", s, r, Nobody, <<>>, Quantity - Advanced(r, st, s).good)]
     /\ UNCHANGED <<route, incident, andon, downtime, tank, shortage, history>>

\* clientRequestId is unique: the slower of two equal requests rolls back.
ConfirmRefused(w) ==
  /\ job[w].kind = "confirm" /\ event[job[w].request] # "none"
  /\ job' = [job EXCEPT ![w] = Idle]
  /\ UNCHANGED <<rows, history>>

\* openDowntime(): at most one open row per station and reason; the andon of
\* the first who gave one is kept.
Stopped(D, s, reason, a) ==
  LET open == {d \in D : d.station = s /\ d.reason = reason}
  IN IF open = {} THEN D \cup {[station |-> s, reason |-> reason, andon |-> a]}
     ELSE (D \ open) \cup {[d EXCEPT !.andon = IF @ = Nobody THEN a ELSE @] : d \in open}
\* Mutant: every clock of the station is closed.
RecoveredAll(D, s, reason) == {d \in D : d.station # s}
Recovered(D, s, reason) == {d \in D : d.station # s \/ d.reason # reason}

\* After the commit: a shortage asks for material and stops the clock of the
\* station, unless nothing is left to build; no shortage starts it again.
ConfirmAfter(w) ==
  LET s == job[w].station
  IN /\ job[w].kind \in {"after", "short"}
     /\ IF job[w].kind = "short"
        THEN IF job[w].seen <= 0 THEN UNCHANGED <<downtime, shortage>>
             ELSE shortage' = TRUE /\ downtime' = Stopped(downtime, s, "material_shortage", Nobody)
        ELSE downtime' = Recovered(downtime, s, "material_shortage") /\ UNCHANGED shortage
     /\ job' = [job EXCEPT ![w] = Idle]
     /\ UNCHANGED <<execution, plan, route, step, material, event, incident, andon, tank, history>>

-----------------------------------------------------------------------------
(* revertEvent(): one transaction.                                          *)

Returned(m, units) ==
  [consumed |-> Minus(m.consumed, units), scrapped |-> m.scrapped,
   available |-> m.available + units, kit |-> Minus(m.kit, units)]

RevertEvent(r) ==
  LET s == Dto[r].station
      row == step[s]
      back == [good |-> Minus(row.good, Dto[r].good), scrap |-> Minus(row.scrap, Dto[r].scrap),
               segregated |-> row.segregated,
               status |-> IF row.status = "completed" THEN "in_process" ELSE row.status]
      units == Dto[r].good + Dto[r].scrap
  IN /\ event[r] = "live" /\ Free(s, Nobody)
     /\ event' = [event EXCEPT ![r] = "reverted"]
     /\ step' = [step EXCEPT ![s] = back]
     /\ material' = [material EXCEPT ![s] = Returned(@, units)]
     /\ withdrawn' = [withdrawn EXCEPT ![s] = @ + row.good - back.good]
     /\ unreturned' = [unreturned EXCEPT ![s] = @ + units - (Taken(row) - Taken(back))]
     /\ UNCHANGED <<execution, plan, route, incident, andon, downtime, tank, shortage, job, reworked>>

-----------------------------------------------------------------------------
(* reportIncident() and dispositionIncident()                               *)

\* The incident is saved first; its effect on the station is a later save.
ReportIncident(w, i, report) ==
  /\ job[w].kind = "idle" /\ incident[i].status = "none"
  /\ report.station <= route /\ Free(report.station, Nobody)
  /\ incident' = [incident EXCEPT ![i] = [status |-> "open", report |-> report]]
  /\ job' = [job EXCEPT ![w] = Task("incident", report.station, Nobody, i, step, route)]
  /\ UNCHANGED <<execution, plan, route, step, material, event, andon, downtime, tank, shortage, history>>

\* Mutant: what was reported is segregated, not what was there to segregate.
MovedUnclamped(row, qty) == qty
Moved(row, qty) == Least(qty, row.good)

AfterIncident(status, good, blocks) ==
  IF blocks THEN "blocked"
  ELSE IF status # "completed" /\ good > 0 THEN "in_process" ELSE status

SaveIncident(w) ==
  LET s == job[w].station
      report == incident[job[w].incident].report
      row == job[w].read[s]
      good == Minus(row.good, Least(report.qty, row.good))
  IN /\ job[w].kind = "incident"
     /\ step' = [step EXCEPT ![s] = [good |-> good, scrap |-> row.scrap,
                      segregated |-> row.segregated + Moved(row, report.qty),
                      status |-> AfterIncident(row.status, good, report.blocks)]]
     /\ downtime' = IF report.blocks THEN Stopped(downtime, s, "quality_block", Nobody) ELSE downtime
     /\ withdrawn' = [withdrawn EXCEPT ![s] = @ + row.good - good]
     /\ job' = [job EXCEPT ![w] = Idle]
     /\ UNCHANGED <<execution, plan, route, material, event, incident, andon, tank, shortage, reworked, unreturned>>

Disposition(w, i) ==
  LET s == incident[i].report.station IN
  /\ job[w].kind = "idle" /\ incident[i].status = "open" /\ Free(s, Nobody)
  /\ incident' = [incident EXCEPT ![i] = [status |-> "dispositioned", report |-> incident[i].report]]
  /\ job' = [job EXCEPT ![w] = Task("disposition", s, Nobody, i, step, route)]
  /\ UNCHANGED <<execution, plan, route, step, material, event, andon, downtime, tank, shortage, history>>

OtherBlocking(s) ==
  \E i \in Incidents : incident[i].status = "open" /\ incident[i].report.station = s /\ incident[i].report.blocks

SaveDisposition(w, disposition) ==
  LET s == job[w].station
      row == job[w].read[s]
      released == Least(incident[job[w].incident].report.qty, row.segregated)
      good == row.good + (IF disposition = "use_as_is" THEN released ELSE 0)
      unblocks == row.status = "blocked" /\ ~OtherBlocking(s)
  IN /\ job[w].kind = "disposition"
     /\ step' = [step EXCEPT ![s] = [good |-> good,
                      scrap |-> row.scrap + (IF disposition = "scrap" THEN released ELSE 0),
                      segregated |-> row.segregated - released,
                      status |-> IF ~unblocks THEN row.status
                                 ELSE IF Quantity <= good THEN "completed" ELSE "in_process"]]
     /\ downtime' = IF unblocks THEN Recovered(downtime, s, "quality_block") ELSE downtime
     /\ reworked' = [reworked EXCEPT ![s] = @ + (IF disposition = "rework" THEN released ELSE 0)]
     /\ job' = [job EXCEPT ![w] = Idle]
     /\ UNCHANGED <<execution, plan, route, material, event, incident, andon, tank, shortage, withdrawn, unreturned>>

-----------------------------------------------------------------------------
(* raiseAndon() and updateAndon().  Station 0: an andon of the whole line.  *)

RaiseAndon(a, call) ==
  /\ execution # "none" /\ call.station <= route /\ andon[a].status = "none"
  /\ andon' = [andon EXCEPT ![a] = [status |-> "open", call |-> call]]
  /\ downtime' = IF call.reason # Nobody THEN Stopped(downtime, call.station, call.reason, a) ELSE downtime
  /\ UNCHANGED <<execution, plan, route, step, material, event, incident, tank, shortage, job, history>>

AckAndon(a) ==
  /\ andon[a].status = "open"
  /\ andon' = [andon EXCEPT ![a].status = "ack"]
  /\ UNCHANGED <<execution, plan, route, step, material, event, incident, downtime, tank, shortage, job, history>>

ResolveAndon(a) ==
  /\ andon[a].status \in {"open", "ack"}
  /\ andon' = [andon EXCEPT ![a].status = "resolved"]
  /\ downtime' = IF andon[a].call.reason # Nobody THEN {d \in downtime : d.andon # a} ELSE downtime
  /\ UNCHANGED <<execution, plan, route, step, material, event, incident, tank, shortage, job, history>>

-----------------------------------------------------------------------------
\* The process dies: an open transaction is rolled back, what was saved stays.
Crash(w) ==
  /\ Crashes /\ job[w].kind # "idle"
  /\ job' = [job EXCEPT ![w] = Idle]
  /\ UNCHANGED <<rows, history>>

Next ==
  \/ \E w \in Workers :
       \/ OpenExecution(w) \/ OpenStation(w)
       \/ \E r \in Requests : ConfirmRead(w, r)
       \/ ConfirmCommit(w) \/ ConfirmRefused(w) \/ ConfirmAfter(w)
       \/ \E i \in Incidents, report \in Reports : ReportIncident(w, i, report)
       \/ SaveIncident(w)
       \/ \E i \in Incidents : Disposition(w, i)
       \/ \E d \in {"rework", "scrap", "use_as_is"} : SaveDisposition(w, d)
       \/ Crash(w)
  \/ \E r \in Requests : RevertEvent(r)
  \/ \E a \in Andons : \/ \E call \in Calls : RaiseAndon(a, call)
                       \/ AckAndon(a) \/ ResolveAndon(a)

Spec == Init /\ [][Next]_vars

-----------------------------------------------------------------------------
(* Every row has its type; no counter of a station goes below zero.         *)
TypeOK ==
  /\ execution \in {"none", "open", "completed"} /\ plan \in {"released", "completed"}
  /\ route \in 0 .. N
  /\ step \in [Stations -> Step] /\ material \in [Stations -> StepMaterial]
  /\ event \in [Requests -> {"none", "live", "reverted"}]
  /\ incident \in [Incidents -> [status : {"none", "open", "dispositioned"}, report : Reports \cup {NoReport}]]
  /\ job \in [Workers -> Job]
  /\ withdrawn \in [Stations -> Nat] /\ reworked \in [Stations -> Nat]

(* The forward WIP guard ("cannot consume more than the upstream station has *)
(* released", confirmAdvance) under concurrency: a station never takes more *)
(* than the one before it ever released, counting what an undo or an        *)
(* incident has since taken back; the first never exceeds the plan.         *)
Released(st, wd, s) == Upstream(st, s) + (IF s = 1 THEN 0 ELSE wd[s - 1])
ForwardWip == \A s \in Stations : Taken(step[s]) <= Released(step, withdrawn, s)

Units == [r \in Requests |-> Dto[r].good + Dto[r].scrap]
Live(s) == {r \in Requests : event[r] = "live" /\ Dto[r].station = s}
LiveUnits(s) == SumFunctionOnSet(Units, Live(s))

(* Backflush: the material and the kit row of a station have been charged   *)
(* exactly for the confirmations not undone, however often a request was    *)
(* sent (confirmAdvance, revertEvent).                                      *)
MaterialFollowsEvents ==
  \A s \in Stations :
    /\ material[s].consumed = LiveUnits(s) /\ material[s].kit = LiveUnits(s)
    /\ material[s].available = Delivered[s] - LiveUnits(s)

(* No phantom units: what a station shows as good, scrap and segregated is  *)
(* what was confirmed, less rework, plus what an undo could not take back   *)
(* because an incident had moved it (reportIncident, revertEvent).          *)
UnitsAccounted ==
  \A s \in Stations :
    Taken(step[s]) + reworked[s] = LiveUnits(s) + unreturned[s]

(* "Closed when the cause is resolved" (mes-downtime.entity.ts): while a    *)
(* station is blocked its quality clock runs, unless a stop andon that gave *)
(* the same reason was resolved and took the clock with it.                 *)
BlockedHasClock ==
  \A s \in Stations :
    step[s].status = "blocked" =>
      \/ \E d \in downtime : d.station = s /\ d.reason = "quality_block"
      \/ \E a \in Andons : andon[a] = [status |-> "resolved",
                                        call |-> [station |-> s, reason |-> "quality_block"]]

=============================================================================
