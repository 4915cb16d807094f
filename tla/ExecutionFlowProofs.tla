------------------------- MODULE ExecutionFlowProofs -------------------------
(***************************************************************************)
(* Proofs about ExecutionFlow, for every route, plan and set of requests.  *)
(*                                                                         *)
(* TypeOK and ForwardWip are not inductive: a handler writes rows that it  *)
(* read before.  Exclusive says who may be in flight at a station, Fresh   *)
(* that what such a handler read of its own station is still there, and    *)
(* that what it saw released upstream has not grown since.                 *)
(***************************************************************************)
EXTENDS ExecutionFlow, FunctionSums, TLAPS

Exclusive ==
  \A v, w \in Workers :
    v # w /\ job[v].kind \in Writing /\ job[w].kind \in Writing /\ job[v].station = job[w].station =>
      job[v].kind = "confirm" /\ job[w].kind = "confirm" /\ job[v].request = job[w].request

FreshConfirm(j) ==
  /\ j.request \in Requests /\ Dto[j.request].station = j.station
  /\ event[j.request] = "none" =>
       /\ j.read[j.station] = step[j.station]
       /\ Fits(j.request, j.read)
       /\ Upstream(j.read, j.station) <= Released(step, withdrawn, j.station)

FreshSave(j) == j.incident \in Incidents /\ j.read[j.station] = step[j.station]

Fresh ==
  \A w \in Workers :
    /\ job[w].kind \in Writing => job[w].read \in [Stations -> Step]
    /\ job[w].kind = "confirm" => FreshConfirm(job[w])
    /\ job[w].kind \in {"incident", "disposition"} => FreshSave(job[w])

\* Only the one handler that created the execution adds its stations.
Opening ==
  /\ execution = "none" => route = 0
  /\ \A w \in Workers : job[w].kind = "open" =>
       /\ route < N /\ execution # "none"
       /\ \A v \in Workers : job[v].kind = "open" => v = w

IInv == TypeOK /\ Opening /\ Exclusive /\ Fresh /\ ForwardWip

(* A station whose row becomes `row` keeps the WIP bound of every station,  *)
(* when what it gives up is counted as withdrawn and it fits upstream.      *)
LEMMA Forward ==
  ASSUME NEW st \in [Stations -> Step], NEW wd \in [Stations -> Nat], NEW s \in Stations,
         NEW row \in Step, NEW n \in Nat,
         st[s].good + wd[s] <= row.good + n
  PROVE  \A t \in Stations :
           Released(st, wd, t) <= Released([st EXCEPT ![s] = row], [wd EXCEPT ![s] = n], t)
PROOF
  <1> DEFINE st2 == [st EXCEPT ![s] = row]
             wd2 == [wd EXCEPT ![s] = n]
  <1>1. SUFFICES ASSUME NEW t \in Stations PROVE Released(st, wd, t) <= Released(st2, wd2, t)
    OBVIOUS
  <1>2. CASE t = 1
    BY <1>2, ConstantsAssumption DEF Released, Upstream
  <1>3. CASE t # 1
    <2>1. t - 1 \in Stations
      BY <1>3, ConstantsAssumption DEF Stations
    <2>2. /\ st[t - 1].good \in Nat /\ st2[t - 1].good \in Nat
          /\ wd[t - 1] \in Nat /\ wd2[t - 1] \in Nat
      BY <2>1 DEF Step
    <2>3. st[t - 1].good + wd[t - 1] <= st2[t - 1].good + wd2[t - 1]
      BY <2>1, <2>2
    <2> QED BY <1>3, <2>2, <2>3 DEF Released, Upstream
  <1> QED BY <1>2, <1>3

LEMMA InitInv == Init => IInv
PROOF
  <1> SUFFICES ASSUME Init PROVE IInv
    OBVIOUS
  <1>1. TypeOK
    BY ConstantsAssumption DEF Init, TypeOK, NewStep, Step, StepStatus, StepMaterial, Idle, Task, NoReport, Stations, Job
  <1>2. Opening /\ Exclusive /\ Fresh
    BY DEF Init, Opening, Exclusive, Fresh, Writing, Idle, Task
  <1>3. ForwardWip
    BY ConstantsAssumption DEF Init, ForwardWip, Released, Upstream, Taken, NewStep, Stations
  <1> QED BY <1>1, <1>2, <1>3 DEF IInv

(* An action that leaves the counters, the events and the reads alone.      *)
LEMMA OpenInv ==
  ASSUME NEW w \in Workers, IInv, OpenExecution(w) \/ OpenStation(w) PROVE IInv'
PROOF
  <1> USE DEF IInv, history
  <1>0. job' = [job EXCEPT ![w].kind = job'[w].kind] /\ job'[w].kind \in {"open", "idle"}
        /\ UNCHANGED <<step, event, incident, history>>
    BY DEF TypeOK, OpenExecution, OpenStation, Job
  <1>a. PICK kind \in {"open", "idle"} : job' = [job EXCEPT ![w].kind = kind]
    BY <1>0
  <1>b. execution' \in {"none", "open", "completed"} /\ route' \in 0 .. N
    BY ConstantsAssumption DEF TypeOK, OpenExecution, OpenStation, Opening
  <1>c. UNCHANGED <<plan, step, material, event, incident, history>>
    BY DEF OpenExecution, OpenStation
  <1>1. TypeOK'
    <2>1. job' \in [Workers -> Job]
      BY <1>a DEF TypeOK, Job
    <2> QED BY <2>1, <1>b, <1>c DEF TypeOK
  <1>d. \A v \in Workers : job'[v].kind = "open" => v = w
    <2>1. CASE OpenExecution(w)
      BY <1>a, <2>1 DEF OpenExecution, Opening, TypeOK
    <2>2. CASE OpenStation(w)
      BY <1>a, <2>2 DEF OpenStation, Opening, TypeOK
    <2> QED BY <2>1, <2>2
  <1>e. job'[w].kind = "open" => route' < N /\ execution' # "none"
    <2>1. CASE OpenExecution(w)
      BY <2>1, ConstantsAssumption DEF OpenExecution, TypeOK, Opening
    <2>2. CASE OpenStation(w)
      BY <2>2, <1>a, ConstantsAssumption DEF OpenStation, Opening, TypeOK
    <2> QED BY <2>1, <2>2
  <1>f. execution' = "none" => route' = 0
    BY DEF OpenExecution, OpenStation, Opening
  <1>2. Opening'
    BY <1>d, <1>e, <1>f DEF Opening
  <1>3. \A v \in Workers : job'[v].kind \in Writing => v # w /\ job'[v] = job[v]
    BY <1>0 DEF TypeOK, Writing
  <1>4. Exclusive'
    BY <1>3 DEF Exclusive
  <1>5. Fresh'
    BY <1>0, <1>3 DEF Fresh, FreshConfirm, FreshSave, Writing
  <1>6. ForwardWip'
    BY <1>0 DEF ForwardWip
  <1> QED BY <1>1, <1>2, <1>4, <1>5, <1>6

LEMMA ConfirmReadInv ==
  ASSUME NEW w \in Workers, NEW r \in Requests, IInv, ConfirmRead(w, r) PROVE IInv'
PROOF
  <1> USE DEF IInv, history
  <1> DEFINE s == Dto[r].station
             j == Task("confirm", s, r, Nobody, step, route)
  <1>0. /\ job' = [job EXCEPT ![w] = j] /\ s \in Stations
        /\ UNCHANGED <<execution, route, step, event, incident, history, material, plan>>
        /\ event[r] = "none" /\ Fits(r, step) /\ Free(s, r) /\ job[w].kind = "idle"
    BY ConstantsAssumption DEF ConfirmRead
  <1>1. TypeOK'
    <2>1. j \in Job
      BY <1>0, ConstantsAssumption DEF TypeOK, Writing, Job, Task
    <2> QED BY <1>0, <2>1 DEF TypeOK
  <1>2. Opening'
    BY <1>0 DEF TypeOK, Opening, Task
  <1>3. \A v \in Workers : v # w => job'[v] = job[v]
    BY <1>0 DEF TypeOK
  <1>4. job'[w] = j
    BY <1>0 DEF TypeOK
  <1>5. Exclusive'
    BY <1>0, <1>3, <1>4 DEF Exclusive, Free, Writing, Task
  <1>6. FreshConfirm(j)
    <2>1. Upstream(step, s) <= Released(step, withdrawn, s)
      <3>1. CASE s = 1
        BY <3>1, ConstantsAssumption DEF Released, Upstream
      <3>2. CASE s # 1
        <4>1. s - 1 \in Stations
          BY <3>2, <1>0, ConstantsAssumption DEF Stations
        <4>2. withdrawn[s - 1] \in Nat /\ step[s - 1].good \in Nat
          BY <4>1 DEF TypeOK, Step
        <4> QED BY <3>2, <4>2 DEF Released, Upstream
      <3> QED BY <3>1, <3>2
    <2> QED BY <2>1, <1>0 DEF FreshConfirm, Task
  <1>7. Fresh'
    BY <1>0, <1>3, <1>4, <1>6 DEF Fresh, FreshConfirm, FreshSave, TypeOK, Task, Writing
  <1>8. ForwardWip'
    BY <1>0 DEF ForwardWip
  <1> QED BY <1>1, <1>2, <1>5, <1>7, <1>8

(* A handler writes the row of station s.                                   *)
LEMMA WriterInv ==
  ASSUME IInv, TypeOK', NEW s \in Stations, NEW row \in Step, NEW n \in Nat,
         step' = [step EXCEPT ![s] = row], withdrawn' = [withdrawn EXCEPT ![s] = n],
         Taken(row) <= Released(step, withdrawn, s),
         step[s].good + withdrawn[s] <= row.good + n,
         \A v \in Workers : job'[v].kind \in Writing =>
            /\ job'[v] = job[v]
            /\ \/ job[v].station # s
               \/ job[v].kind = "confirm" /\ event'[job[v].request] # "none",
         \A r \in Requests : event'[r] = "none" => event[r] = "none"
  PROVE  Exclusive' /\ Fresh' /\ ForwardWip'
PROOF
  <1> USE DEF IInv
  <1>1. \A t \in Stations : Released(step, withdrawn, t) <= Released(step', withdrawn', t)
    BY Forward DEF TypeOK
  <1>2. \A t \in Stations : Released(step, withdrawn, t) \in Int /\ Released(step', withdrawn', t) \in Int
    <2> SUFFICES ASSUME NEW t \in Stations
                 PROVE  Released(step, withdrawn, t) \in Int /\ Released(step', withdrawn', t) \in Int
      OBVIOUS
    <2>1. CASE t = 1
      BY <2>1, ConstantsAssumption DEF Released, Upstream
    <2>2. CASE t # 1
      <3>1. t - 1 \in Stations
        BY <2>2, ConstantsAssumption DEF Stations
      <3>2. /\ step[t - 1].good \in Nat /\ step'[t - 1].good \in Nat
            /\ withdrawn[t - 1] \in Nat /\ withdrawn'[t - 1] \in Nat
        BY <3>1 DEF TypeOK, Step
      <3> QED BY <2>2, <3>2 DEF Released, Upstream
    <2> QED BY <2>1, <2>2
  <1>3. Exclusive'
    BY DEF Exclusive
  <1>4. ForwardWip'
    <2> SUFFICES ASSUME NEW t \in Stations
                 PROVE  Taken(step'[t]) <= Released(step', withdrawn', t)
      BY DEF ForwardWip
    <2>1. Taken(step'[t]) <= Released(step, withdrawn, t)
      BY DEF ForwardWip, TypeOK
    <2>2. Taken(step'[t]) \in Int
      BY DEF TypeOK, Step, Taken
    <2>3. Released(step, withdrawn, t) <= Released(step', withdrawn', t)
      BY <1>1
    <2>4. \A a, b, c \in Int : a <= b /\ b <= c => a <= c
      OBVIOUS
    <2> QED BY <1>2, <2>1, <2>2, <2>3, <2>4, Zenon
  <1>5. Fresh'
    <2> SUFFICES ASSUME NEW v \in Workers, job'[v].kind \in Writing
                 PROVE  /\ job[v].read \in [Stations -> Step]
                        /\ job[v].kind = "confirm" => FreshConfirm(job[v])'
                        /\ job[v].kind \in {"incident", "disposition"} => FreshSave(job[v])'
      BY DEF Fresh, Writing, FreshConfirm, FreshSave
    <2>0. job'[v] = job[v] /\ job[v].station \in Stations
      BY DEF TypeOK, Job
    <2>1. job[v].read \in [Stations -> Step]
      BY <2>0 DEF Fresh
    <2>2. CASE job[v].station # s
      <3>1. step'[job[v].station] = step[job[v].station]
        BY <2>2, <2>0 DEF TypeOK
      <3>2. ASSUME job[v].kind = "confirm" PROVE FreshConfirm(job[v])'
        <4>1. FreshConfirm(job[v])
          BY <3>2 DEF Fresh
        <4>2. Upstream(job[v].read, job[v].station) \in Int
          <5>1. CASE job[v].station = 1
            BY <5>1, ConstantsAssumption DEF Upstream
          <5>2. CASE job[v].station # 1
            <6>1. job[v].station - 1 \in Stations
              BY <5>2, <2>0, ConstantsAssumption DEF Stations
            <6>2. job[v].read[job[v].station - 1].good \in Nat
              BY <6>1, <2>1 DEF Step
            <6> QED BY <5>2, <6>2 DEF Upstream
          <5> QED BY <5>1, <5>2
        <4>3. ASSUME event'[job[v].request] = "none"
              PROVE  /\ job[v].read[job[v].station] = step'[job[v].station]
                     /\ Fits(job[v].request, job[v].read)
                     /\ Upstream(job[v].read, job[v].station) <= Released(step', withdrawn', job[v].station)
          <5>1. event[job[v].request] = "none"
            BY <4>1, <4>3 DEF FreshConfirm
          <5>2. Upstream(job[v].read, job[v].station) <= Released(step, withdrawn, job[v].station)
            BY <4>1, <5>1 DEF FreshConfirm
          <5>3. Upstream(job[v].read, job[v].station) <= Released(step', withdrawn', job[v].station)
            <6>1. \A a, b, c \in Int : a <= b /\ b <= c => a <= c
              OBVIOUS
            <6> QED BY <1>1, <1>2, <2>0, <4>2, <5>2, <6>1, Zenon
          <5> QED BY <3>1, <4>1, <5>1, <5>3 DEF FreshConfirm
        <4> QED BY <4>1, <4>3, <2>0 DEF FreshConfirm
      <3>3. job[v].kind \in {"incident", "disposition"} => FreshSave(job[v])'
        BY <3>1, <2>0 DEF Fresh, FreshSave
      <3> QED BY <2>1, <3>2, <3>3
    <2>3. CASE job[v].kind = "confirm" /\ event'[job[v].request] # "none"
      <3>1. FreshConfirm(job[v])
        BY <2>3 DEF Fresh
      <3>2. FreshConfirm(job[v])'
        BY <2>0, <2>3, <3>1 DEF FreshConfirm
      <3> QED BY <2>1, <2>3, <3>2
    <2> QED BY <2>0, <2>2, <2>3
  <1> QED BY <1>3, <1>4, <1>5

LEMMA ConfirmCommitInv ==
  ASSUME NEW w \in Workers, IInv, ConfirmCommit(w) PROVE IInv'
PROOF
  <1> USE DEF IInv, history
  <1>1. PICK s \in Stations, r \in Requests, st \in [Stations -> Step] :
          /\ job[w].station = s /\ job[w].request = r /\ job[w].read = st
          /\ st[s] = step[s] /\ Fits(r, st) /\ Upstream(st, s) <= Released(step, withdrawn, s)
          /\ Dto[r].station = s /\ event[r] = "none" /\ job[w].kind = "confirm"
    BY DEF ConfirmCommit, Fresh, FreshConfirm, Writing, TypeOK, Job
  <1>2. Dto[r].good \in Nat /\ Dto[r].scrap \in Nat
    BY ConstantsAssumption
  <1>3. PICK row \in Step :
          /\ row = Advanced(r, st, s)
          /\ row.good = step[s].good + Dto[r].good /\ row.scrap = step[s].scrap + Dto[r].scrap
          /\ row.segregated = step[s].segregated
    <2>1. st[s] \in Step /\ Advanced(r, st, s).status \in StepStatus
      BY DEF Advanced, StepStatus
    <2>2. /\ Advanced(r, st, s).good = st[s].good + Dto[r].good
          /\ Advanced(r, st, s).scrap = st[s].scrap + Dto[r].scrap
          /\ Advanced(r, st, s).segregated = st[s].segregated
      BY DEF Advanced
    <2>3. Advanced(r, st, s) \in Step
      BY <1>2, <2>1, <2>2 DEF Step, Advanced
    <2> QED BY <1>1, <2>2, <2>3
  <1>4. PICK left \in Int, next \in {"after", "short"} :
          job' = [job EXCEPT ![w] = Task(next, s, r, Nobody, <<>>, left)]
    <2>1. Quantity - row.good \in Int
      BY ConstantsAssumption DEF Step
    <2>2. \E next \in {"after", "short"} :
            job' = [job EXCEPT ![w] = Task(next, s, r, Nobody, <<>>, Quantity - row.good)]
      <3>1. \/ job' = [job EXCEPT ![w] = Task("after", s, r, Nobody, <<>>, Quantity - row.good)]
            \/ job' = [job EXCEPT ![w] = Task("short", s, r, Nobody, <<>>, Quantity - row.good)]
        BY <1>1, <1>3, Zenon DEF ConfirmCommit
      <3> QED BY <3>1
    <2> QED BY <2>1, <2>2
  <1>5. /\ step' = [step EXCEPT ![s] = row] /\ event' = [event EXCEPT ![r] = "live"]
        /\ UNCHANGED <<withdrawn, reworked, route, incident>>
    BY <1>1, <1>3 DEF ConfirmCommit
  <1>6. PICK m \in StepMaterial : material' = [material EXCEPT ![s] = m]
    <2>1. material[s] \in StepMaterial
      BY DEF TypeOK
    <2>2. Consumed(material[s], Dto[r].good, Dto[r].scrap) \in StepMaterial
      BY <1>2, <2>1 DEF Consumed, Charged, StepMaterial
    <2> QED BY <1>1, <2>2 DEF ConfirmCommit
  <1>7. execution' \in {execution, "completed"} /\ plan' \in {plan, "completed"}
    BY DEF ConfirmCommit
  <1>8. TypeOK'
    <2>1. job' \in [Workers -> Job]
      <3>1. Task(next, s, r, Nobody, <<>>, left) \in Job
        BY DEF Job, Task
      <3> QED BY <1>4, <3>1 DEF TypeOK
    <2> QED BY <2>1, <1>5, <1>6, <1>7 DEF TypeOK
  <1>9. \A v \in Workers : v # w => job'[v] = job[v]
    BY <1>4 DEF TypeOK
  <1>10. job'[w].kind \in {"after", "short"}
    BY <1>4 DEF TypeOK, Task
  <1>11. Opening'
    BY <1>5, <1>7, <1>9, <1>10 DEF Opening
  <1>12. Taken(row) <= Released(step, withdrawn, s)
    <2>1. Taken(row) <= Upstream(st, s)
      BY <1>1, <1>2, <1>3 DEF Fits, Taken, Step, TypeOK
    <2>2. Taken(row) \in Int /\ Upstream(st, s) \in Int /\ Released(step, withdrawn, s) \in Int
      <3>1. Taken(row) \in Int
        BY DEF Taken, Step
      <3>2. CASE s = 1
        BY <3>1, <3>2, ConstantsAssumption DEF Upstream, Released
      <3>3. CASE s # 1
        <4>1. s - 1 \in Stations
          BY <3>3, ConstantsAssumption DEF Stations
        <4>2. st[s - 1].good \in Int /\ step[s - 1].good \in Int /\ withdrawn[s - 1] \in Int
          BY <4>1 DEF Step, TypeOK
        <4> QED BY <3>1, <3>3, <4>2 DEF Upstream, Released
      <3> QED BY <3>2, <3>3
    <2>3. \A a, b, c \in Int : a <= b /\ b <= c => a <= c
      OBVIOUS
    <2> QED BY <1>1, <2>1, <2>2, <2>3, Zenon
  <1>13. PICK n \in Nat : n = withdrawn[s] /\ withdrawn' = [withdrawn EXCEPT ![s] = n]
    BY <1>5 DEF TypeOK
  <1>14. step[s].good + withdrawn[s] <= row.good + n
    BY <1>2, <1>3, <1>13 DEF TypeOK, Step
  <1>15. \A v \in Workers : job'[v].kind \in Writing =>
            /\ job'[v] = job[v]
            /\ \/ job[v].station # s
               \/ job[v].kind = "confirm" /\ event'[job[v].request] # "none"
    BY <1>1, <1>5, <1>9, <1>10 DEF Exclusive, Writing, TypeOK
  <1>16. \A q \in Requests : event'[q] = "none" => event[q] = "none"
    BY <1>5 DEF TypeOK
  <1>17. Exclusive' /\ Fresh' /\ ForwardWip'
    <2> HIDE DEF IInv
    <2>1. step' = [step EXCEPT ![s] = row] /\ withdrawn' = [withdrawn EXCEPT ![s] = n]
      BY <1>5, <1>13
    <2> QED BY WriterInv, <1>8, <1>12, <1>14, <1>15, <1>16, <2>1, ZenonT(30)
  <1> QED BY <1>8, <1>11, <1>17

(* The job of a handler ends, or nobody's does, and no counter changes.     *)
LEMMA EndInv ==
  ASSUME NEW w \in Workers, IInv, TypeOK', UNCHANGED <<execution, route, step, event, history>>,
         \A v \in Workers : v # w => job'[v] = job[v],
         job'[w] = job[w] \/ job'[w].kind = "idle"
  PROVE  IInv'
PROOF
  <1> USE DEF IInv, history
  <1>1. Opening'
    BY DEF Opening
  <1>2. Exclusive'
    BY DEF Exclusive, Writing
  <1>3. Fresh'
    BY DEF Fresh, FreshConfirm, FreshSave, Writing
  <1>4. ForwardWip'
    BY DEF ForwardWip
  <1> QED BY <1>1, <1>2, <1>3, <1>4

LEMMA ConfirmEndInv ==
  ASSUME NEW w \in Workers, IInv, ConfirmRefused(w) \/ ConfirmAfter(w) \/ Crash(w) PROVE IInv'
PROOF
  <1> USE DEF IInv, history
  <1>1. /\ job' = [job EXCEPT ![w] = Idle]
        /\ UNCHANGED <<execution, plan, route, step, material, event, incident, history>>
    BY DEF ConfirmRefused, ConfirmAfter, Crash, rows
  <1>2. Idle \in Job /\ Idle.kind = "idle"
    BY ConstantsAssumption DEF Idle, Task, Job, Stations
  <1>3. TypeOK' /\ job'[w] = Idle /\ \A v \in Workers : v # w => job'[v] = job[v]
    BY <1>1, <1>2 DEF TypeOK
  <1> QED BY <1>1, <1>2, <1>3, EndInv

LEMMA AndonInv ==
  ASSUME NEW a \in Andons, IInv, (\E call \in Calls : RaiseAndon(a, call)) \/ AckAndon(a) \/ ResolveAndon(a)
  PROVE  IInv'
PROOF
  <1> USE DEF IInv, history
  <1>1. UNCHANGED <<execution, plan, route, step, material, event, incident, history, job>>
    BY DEF RaiseAndon, AckAndon, ResolveAndon
  <1>2. TypeOK'
    BY <1>1 DEF TypeOK
  <1>3. Opening' /\ Exclusive' /\ Fresh' /\ ForwardWip'
    BY <1>1 DEF Opening, Exclusive, Fresh, FreshConfirm, FreshSave, ForwardWip
  <1> QED BY <1>2, <1>3

(* A row that takes nothing more from upstream than the row it replaces     *)
(* keeps the bound of its own station.                                      *)
LEMMA SmallerFits ==
  ASSUME IInv, NEW s \in Stations, NEW row \in Step, Taken(row) <= Taken(step[s])
  PROVE  Taken(row) <= Released(step, withdrawn, s)
PROOF
  <1>1. Taken(row) \in Int /\ Taken(step[s]) \in Int
    BY DEF IInv, TypeOK, Taken, Step
  <1>2. Released(step, withdrawn, s) \in Int
    <2>1. CASE s = 1
      BY <2>1, ConstantsAssumption DEF Released, Upstream
    <2>2. CASE s # 1
      <3>1. s - 1 \in Stations
        BY <2>2, ConstantsAssumption DEF Stations
      <3>2. step[s - 1].good \in Nat /\ withdrawn[s - 1] \in Nat
        BY <3>1 DEF IInv, TypeOK, Step
      <3> QED BY <2>2, <3>2 DEF Released, Upstream
    <2> QED BY <2>1, <2>2
  <1>3. Taken(step[s]) <= Released(step, withdrawn, s)
    BY DEF IInv, ForwardWip
  <1>4. \A a, b, c \in Int : a <= b /\ b <= c => a <= c
    OBVIOUS
  <1> QED BY <1>1, <1>2, <1>3, <1>4, Zenon

LEMMA RevertEventInv ==
  ASSUME NEW r \in Requests, IInv, RevertEvent(r) PROVE IInv'
PROOF
  <1> USE DEF IInv
  <1>1. PICK s \in Stations : s = Dto[r].station
    BY ConstantsAssumption
  <1>2. Dto[r].good \in Nat /\ Dto[r].scrap \in Nat
    BY ConstantsAssumption
  <1>3. step[s] \in Step /\ withdrawn[s] \in Nat /\ material[s] \in StepMaterial
    BY DEF TypeOK
  <1>4. PICK row \in Step, n \in Nat :
          /\ step' = [step EXCEPT ![s] = row] /\ withdrawn' = [withdrawn EXCEPT ![s] = n]
          /\ Taken(row) <= Taken(step[s]) /\ step[s].good + withdrawn[s] = row.good + n
    <2> DEFINE row == [good |-> Minus(step[s].good, Dto[r].good), scrap |-> Minus(step[s].scrap, Dto[r].scrap),
                       segregated |-> step[s].segregated,
                       status |-> IF step[s].status = "completed" THEN "in_process" ELSE step[s].status]
    <2>1. /\ Minus(step[s].good, Dto[r].good) \in Nat /\ Minus(step[s].good, Dto[r].good) <= step[s].good
          /\ Minus(step[s].scrap, Dto[r].scrap) \in Nat /\ Minus(step[s].scrap, Dto[r].scrap) <= step[s].scrap
      BY <1>2, <1>3 DEF Minus, Step
    <2>2. row \in Step /\ Taken(row) <= Taken(step[s])
      BY <1>3, <2>1 DEF Step, StepStatus, Taken
    <2>3. step' = [step EXCEPT ![s] = row]
      BY <1>1 DEF RevertEvent
    <2>4. withdrawn' = [withdrawn EXCEPT ![s] = withdrawn[s] + step[s].good - row.good]
      BY <1>1 DEF RevertEvent
    <2>5. withdrawn[s] + step[s].good - row.good \in Nat
      BY <1>3, <2>1 DEF Step
    <2>6. step[s].good + withdrawn[s] = row.good + (withdrawn[s] + step[s].good - row.good)
      BY <1>3, <2>1 DEF Step
    <2> HIDE DEF row
    <2> QED BY <2>2, <2>3, <2>4, <2>5, <2>6
  <1>5. UNCHANGED <<execution, plan, route, incident, job, reworked>> /\ Free(s, Nobody)
        /\ event' = [event EXCEPT ![r] = "reverted"] /\ event[r] = "live"
    BY <1>1 DEF RevertEvent
  <1>6. PICK m \in StepMaterial : material' = [material EXCEPT ![s] = m]
    <2>1. Returned(material[s], Dto[r].good + Dto[r].scrap) \in StepMaterial
      BY <1>2, <1>3 DEF Returned, StepMaterial, Minus
    <2> QED BY <1>1, <2>1 DEF RevertEvent
  <1>7. TypeOK'
    BY <1>4, <1>5, <1>6 DEF TypeOK
  <1>8. Opening'
    BY <1>5 DEF Opening
  <1>9. \A v \in Workers : job'[v].kind \in Writing => job'[v] = job[v] /\ job[v].station # s
    <2>1. ASSUME NEW v \in Workers, job[v].kind \in Writing, job[v].station = s PROVE FALSE
      <3>1. job[v].kind = "confirm" /\ job[v].request = Nobody
        BY <1>5, <2>1 DEF Free
      <3>2. job[v].request \in Requests
        BY <3>1 DEF Fresh, FreshConfirm
      <3> QED BY <3>1, <3>2, ConstantsAssumption
    <2> QED BY <1>5, <2>1
  <1>10. Taken(row) <= Released(step, withdrawn, s)
    BY <1>4, SmallerFits
  <1>11. step[s].good + withdrawn[s] <= row.good + n
    BY <1>3, <1>4 DEF Step
  <1>12. \A q \in Requests : event'[q] = "none" => event[q] = "none"
    BY <1>5 DEF TypeOK
  <1>13. Exclusive' /\ Fresh' /\ ForwardWip'
    <2> HIDE DEF IInv
    <2> QED BY WriterInv, <1>4, <1>7, <1>9, <1>10, <1>11, <1>12, ZenonT(30)
  <1> QED BY <1>7, <1>8, <1>13

(* A handler of quality reads the rows of a station nobody is writing.      *)
LEMMA StartSaveInv ==
  ASSUME NEW w \in Workers, NEW i \in Incidents, IInv,
         (\E report \in Reports : ReportIncident(w, i, report)) \/ Disposition(w, i)
  PROVE  IInv'
PROOF
  <1> USE DEF IInv
  <1>1. PICK s \in Stations, kind \in {"incident", "disposition"} :
          job' = [job EXCEPT ![w] = Task(kind, s, Nobody, i, step, route)] /\ Free(s, Nobody)
    <2>1. CASE \E report \in Reports : ReportIncident(w, i, report)
      BY <2>1, ConstantsAssumption DEF ReportIncident
    <2>2. CASE Disposition(w, i)
      <3>1. incident[i].report.station \in Stations
        BY ConstantsAssumption DEF TypeOK, NoReport, Stations
      <3> QED BY <2>2, <3>1 DEF Disposition
    <2> QED BY <2>1, <2>2
  <1>2. /\ incident' \in [Incidents -> [status : {"none", "open", "dispositioned"}, report : Reports \cup {NoReport}]]
        /\ UNCHANGED <<execution, plan, route, step, material, event, history>> /\ job[w].kind = "idle"
    <2>1. CASE \E report \in Reports : ReportIncident(w, i, report)
      BY <2>1 DEF ReportIncident, TypeOK
    <2>2. CASE Disposition(w, i)
      <3>1. PICK row \in [status : {"none", "open", "dispositioned"}, report : Reports \cup {NoReport}] :
              row = incident[i]
        BY DEF TypeOK
      <3>2. incident' = [incident EXCEPT ![i] = [status |-> "dispositioned", report |-> row.report]]
        BY <2>2, <3>1 DEF Disposition, TypeOK
      <3> QED BY <2>2, <3>1, <3>2 DEF Disposition, TypeOK
    <2> QED BY <2>1, <2>2
  <1> DEFINE j == Task(kind, s, Nobody, i, step, route)
  <1>3. j \in Job /\ j.kind = kind /\ j.station = s /\ j.incident = i /\ j.read = step
    BY DEF Task, Job, Writing, TypeOK
  <1>4. TypeOK' /\ job'[w] = j /\ \A v \in Workers : v # w => job'[v] = job[v]
    BY <1>1, <1>2, <1>3 DEF TypeOK, history
  <1>5. Opening'
    BY <1>2, <1>3, <1>4 DEF Opening
  <1>6. \A v \in Workers : v # w /\ job[v].kind \in Writing => job[v].station # s
    <2>1. ASSUME NEW v \in Workers, job[v].kind \in Writing, job[v].station = s PROVE FALSE
      <3>1. job[v].kind = "confirm" /\ job[v].request = Nobody
        BY <1>1, <2>1 DEF Free
      <3>2. job[v].request \in Requests
        BY <3>1 DEF Fresh, FreshConfirm
      <3> QED BY <3>1, <3>2, ConstantsAssumption
    <2> QED BY <2>1
  <1>7. Exclusive'
    BY <1>3, <1>4, <1>6 DEF Exclusive
  <1>8. Fresh'
    BY <1>2, <1>3, <1>4 DEF Fresh, FreshConfirm, FreshSave, TypeOK, history
  <1>9. ForwardWip'
    BY <1>2 DEF ForwardWip, history
  <1> QED BY <1>4, <1>5, <1>7, <1>8, <1>9

LEMMA SaveInv ==
  ASSUME NEW w \in Workers, IInv,
         SaveIncident(w) \/ \E d \in {"rework", "scrap", "use_as_is"} : SaveDisposition(w, d)
  PROVE  IInv'
PROOF
  <1> USE DEF IInv
  <1>1. PICK s \in Stations, i \in Incidents :
          /\ s = job[w].station /\ i = job[w].incident /\ job[w].kind \in {"incident", "disposition"}
          /\ job[w].read[s] = step[s]
    BY DEF SaveIncident, SaveDisposition, Fresh, FreshSave, TypeOK, Job
  <1>2. step[s] \in Step /\ withdrawn[s] \in Nat /\ reworked[s] \in Nat
    BY DEF TypeOK
  <1>3. PICK qty \in Nat : qty = incident[i].report.qty
    BY ConstantsAssumption DEF TypeOK, NoReport
  <1>4. PICK row \in Step, n \in Nat, k \in Nat :
          /\ step' = [step EXCEPT ![s] = row] /\ withdrawn' = [withdrawn EXCEPT ![s] = n]
          /\ reworked' = [reworked EXCEPT ![s] = k]
          /\ Taken(row) <= Taken(step[s]) /\ step[s].good + withdrawn[s] <= row.good + n
    <2>1. CASE SaveIncident(w)
      <3> DEFINE good == Minus(step[s].good, Least(qty, step[s].good))
                 row == [good |-> good, scrap |-> step[s].scrap,
                         segregated |-> step[s].segregated + Moved(step[s], qty),
                         status |-> AfterIncident(step[s].status, good, incident[i].report.blocks)]
      <3>1. /\ good \in Nat /\ Moved(step[s], qty) \in Nat /\ good + Moved(step[s], qty) = step[s].good
        BY <1>2 DEF Minus, Least, Moved, Step
      <3>2. AfterIncident(step[s].status, good, incident[i].report.blocks) \in StepStatus
        BY <1>2 DEF AfterIncident, Step, StepStatus
      <3> HIDE DEF good
      <3>3. row \in Step /\ Taken(row) <= Taken(step[s])
        BY <1>2, <3>1, <3>2 DEF Step, Taken
      <3>4. step' = [step EXCEPT ![s] = row]
        BY <1>1, <1>3, <2>1 DEF SaveIncident, good
      <3>5. withdrawn' = [withdrawn EXCEPT ![s] = withdrawn[s] + step[s].good - row.good]
        BY <1>1, <1>3, <2>1 DEF SaveIncident, good
      <3>6. /\ withdrawn[s] + step[s].good - row.good \in Nat
            /\ step[s].good + withdrawn[s] <= row.good + (withdrawn[s] + step[s].good - row.good)
        BY <1>2, <3>1 DEF Step
      <3>7. reworked' = [reworked EXCEPT ![s] = reworked[s]]
        BY <2>1 DEF SaveIncident, TypeOK
      <3> HIDE DEF row
      <3> QED BY <1>2, <3>3, <3>4, <3>5, <3>6, <3>7
    <2>2. CASE \E d \in {"rework", "scrap", "use_as_is"} : SaveDisposition(w, d)
      <3>a. PICK d \in {"rework", "scrap", "use_as_is"} : SaveDisposition(w, d)
        BY <2>2
      <3>0. PICK released \in Nat : released = Least(qty, step[s].segregated) /\ released <= step[s].segregated
        BY <1>2 DEF Least, Step
      <3>1. PICK toGood \in Nat, toScrap \in Nat, toRework \in Nat :
              /\ toGood = IF d = "use_as_is" THEN released ELSE 0
              /\ toScrap = IF d = "scrap" THEN released ELSE 0
              /\ toRework = IF d = "rework" THEN released ELSE 0
        OBVIOUS
      <3>2. PICK status \in StepStatus :
              step' = [step EXCEPT ![s] = [good |-> step[s].good + toGood, scrap |-> step[s].scrap + toScrap,
                          segregated |-> step[s].segregated - released, status |-> status]]
        BY <1>1, <1>2, <1>3, <3>a, <3>0, <3>1 DEF SaveDisposition, Step, StepStatus
      <3> DEFINE row == [good |-> step[s].good + toGood, scrap |-> step[s].scrap + toScrap,
                         segregated |-> step[s].segregated - released, status |-> status]
      <3>3. row \in Step /\ Taken(row) <= Taken(step[s])
        BY <1>2, <3>0, <3>1 DEF Step, Taken
      <3>4. withdrawn' = [withdrawn EXCEPT ![s] = withdrawn[s]]
        BY <3>a DEF SaveDisposition, TypeOK
      <3>5. reworked' = [reworked EXCEPT ![s] = reworked[s] + toRework]
        BY <1>1, <1>3, <3>a, <3>0, <3>1 DEF SaveDisposition
      <3>6. step[s].good + withdrawn[s] <= row.good + withdrawn[s] /\ reworked[s] + toRework \in Nat
        BY <1>2, <3>1 DEF Step
      <3>7. step' = [step EXCEPT ![s] = row]
        BY <3>2
      <3> HIDE DEF row
      <3> QED BY <1>2, <3>3, <3>4, <3>5, <3>6, <3>7
    <2> QED BY <2>1, <2>2
  <1>5. /\ job' = [job EXCEPT ![w] = Idle]
        /\ UNCHANGED <<execution, plan, route, material, event, incident>>
    BY DEF SaveIncident, SaveDisposition
  <1>6. Idle \in Job /\ Idle.kind = "idle"
    BY ConstantsAssumption DEF Idle, Task, Job, Stations
  <1>7. TypeOK'
    BY <1>4, <1>5, <1>6 DEF TypeOK
  <1>8. \A v \in Workers : job'[v].kind # "idle" => v # w /\ job'[v] = job[v]
    BY <1>5, <1>6 DEF TypeOK
  <1>9. Opening'
    BY <1>5, <1>8 DEF Opening
  <1>10. \A v \in Workers : job'[v].kind \in Writing => job'[v] = job[v] /\ job[v].station # s
    BY <1>1, <1>8 DEF Exclusive, Writing
  <1>11. Taken(row) <= Released(step, withdrawn, s)
    BY <1>4, SmallerFits
  <1>12. Exclusive' /\ Fresh' /\ ForwardWip'
    <2> HIDE DEF IInv
    <2>1. \A r \in Requests : event'[r] = "none" => event[r] = "none"
      BY <1>5
    <2> QED BY WriterInv, <1>4, <1>7, <1>10, <1>11, <2>1, ZenonT(30)
  <1> QED BY <1>7, <1>9, <1>12

LEMMA NextInv == IInv /\ [Next]_vars => IInv'
PROOF
  <1> SUFFICES ASSUME IInv, [Next]_vars PROVE IInv'
    OBVIOUS
  <1>1. ASSUME NEW w \in Workers, OpenExecution(w) \/ OpenStation(w) PROVE IInv'
    BY <1>1, OpenInv
  <1>2. ASSUME NEW w \in Workers, NEW r \in Requests, ConfirmRead(w, r) PROVE IInv'
    BY <1>2, ConfirmReadInv
  <1>3. ASSUME NEW w \in Workers, ConfirmCommit(w) PROVE IInv'
    BY <1>3, ConfirmCommitInv
  <1>4. ASSUME NEW w \in Workers, ConfirmRefused(w) \/ ConfirmAfter(w) \/ Crash(w) PROVE IInv'
    BY <1>4, ConfirmEndInv
  <1>5. ASSUME NEW w \in Workers, NEW i \in Incidents,
               (\E report \in Reports : ReportIncident(w, i, report)) \/ Disposition(w, i)
        PROVE  IInv'
    BY <1>5, StartSaveInv
  <1>6. ASSUME NEW w \in Workers,
               SaveIncident(w) \/ \E d \in {"rework", "scrap", "use_as_is"} : SaveDisposition(w, d)
        PROVE  IInv'
    BY <1>6, SaveInv
  <1>7. ASSUME NEW r \in Requests, RevertEvent(r) PROVE IInv'
    BY <1>7, RevertEventInv
  <1>8. ASSUME NEW a \in Andons, (\E call \in Calls : RaiseAndon(a, call)) \/ AckAndon(a) \/ ResolveAndon(a)
        PROVE  IInv'
    BY <1>8, AndonInv
  <1>9. CASE UNCHANGED vars
    BY <1>9 DEF vars, rows, history, IInv, TypeOK, Opening, Exclusive, Fresh, FreshConfirm, FreshSave, ForwardWip
  <1> QED BY <1>1, <1>2, <1>3, <1>4, <1>5, <1>6, <1>7, <1>8, <1>9 DEF Next

THEOREM IInvHolds == Spec => []IInv
PROOF
  <1>1. Init => IInv
    BY InitInv
  <1>2. IInv /\ [Next]_vars => IInv'
    BY NextInv
  <1> QED BY <1>1, <1>2, PTL DEF Spec

(* Every row keeps its type, and no counter goes below zero, on any route.  *)
THEOREM TypeCorrect == Spec => []TypeOK
PROOF
  <1>1. IInv => TypeOK
    BY DEF IInv
  <1> QED BY <1>1, IInvHolds, PTL

(* The forward WIP guard of confirmAdvance() holds at every station of any  *)
(* route while the handlers of different stations interleave and crash.     *)
THEOREM WipIsForward == Spec => []ForwardWip
PROOF
  <1>1. IInv => ForwardWip
    BY DEF IInv
  <1> QED BY <1>1, IInvHolds, PTL

-----------------------------------------------------------------------------
(* The books of a station: material, units and the confirmations not undone *)

LEMMA LiveNat ==
  ASSUME NEW s PROVE IsFiniteSet(Live(s)) /\ LiveUnits(s) \in Nat /\ \A r \in Requests : Units[r] \in Nat
PROOF
  <1>1. IsFiniteSet(Live(s))
    BY ConstantsAssumption, FS_Subset DEF Live
  <1>2. \A r \in Requests : Units[r] \in Nat
    BY ConstantsAssumption DEF Units
  <1>3. \A r \in Live(s) : Units[r] \in Nat
    BY <1>2 DEF Live
  <1>4. LiveUnits(s) \in Nat
    BY <1>1, <1>3, SumNat DEF LiveUnits
  <1> QED BY <1>1, <1>2, <1>4

(* A confirmation that becomes live adds its units to its station only.     *)
LEMMA LiveAdded ==
  ASSUME TypeOK, NEW r \in Requests, event[r] # "live", event' = [event EXCEPT ![r] = "live"], NEW s
  PROVE  LiveUnits(s)' = LiveUnits(s) + IF Dto[r].station = s THEN Units[r] ELSE 0
PROOF
  <1>1. CASE Dto[r].station = s
    <2>1. Live(s)' = Live(s) \cup {r} /\ r \notin Live(s)
      BY <1>1 DEF Live, TypeOK
    <2>0. \A q \in Live(s) : Units[q] \in Nat
      BY LiveNat DEF Live
    <2>2. \A q \in Live(s) : Units[q] \in Int
      BY ONLY <2>0
    <2>3. IsFiniteSet(Live(s)) /\ Units[r] \in Int
      BY LiveNat
    <2>4. SumFunctionOnSet(Units, Live(s) \cup {r}) = Units[r] + SumFunctionOnSet(Units, Live(s))
      BY ONLY <2>1, <2>2, <2>3, SumAdd
    <2> QED BY <1>1, <2>1, <2>4, LiveNat DEF LiveUnits
  <1>2. CASE Dto[r].station # s
    <2>1. Live(s)' = Live(s)
      BY <1>2 DEF Live, TypeOK
    <2> QED BY <1>2, <2>1, LiveNat DEF LiveUnits
  <1> QED BY <1>1, <1>2

(* One that is undone takes them back, and they were there.                 *)
LEMMA LiveDropped ==
  ASSUME TypeOK, NEW r \in Requests, event[r] = "live", event' = [event EXCEPT ![r] = "reverted"], NEW s
  PROVE  /\ LiveUnits(s) = LiveUnits(s)' + IF Dto[r].station = s THEN Units[r] ELSE 0
         /\ LiveUnits(s)' \in Nat
PROOF
  <1>1. CASE Dto[r].station = s
    <2>1. Live(s)' = Live(s) \ {r} /\ r \in Live(s)
      BY <1>1 DEF Live, TypeOK
    <2>2. \A q \in Live(s) : Units[q] \in Nat
      BY LiveNat DEF Live
    <2>3. SumFunctionOnSet(Units, Live(s)) = Units[r] + SumFunctionOnSet(Units, Live(s) \ {r})
      BY <2>1, <2>2, LiveNat, SumRemove
    <2>4. IsFiniteSet(Live(s) \ {r})
      BY LiveNat, FS_Subset
    <2>5. SumFunctionOnSet(Units, Live(s) \ {r}) \in Nat
      BY <2>2, <2>4, SumNat
    <2> QED BY <1>1, <2>1, <2>3, <2>5, LiveNat DEF LiveUnits
  <1>2. CASE Dto[r].station # s
    <2>1. Live(s)' = Live(s)
      BY <1>2 DEF Live, TypeOK
    <2> QED BY <1>2, <2>1, LiveNat DEF LiveUnits
  <1> QED BY <1>1, <1>2

Books == /\ unreturned \in [Stations -> Int]
         /\ MaterialFollowsEvents /\ UnitsAccounted

LEMMA InitBooks == Init => Books
PROOF
  <1> SUFFICES ASSUME Init PROVE Books
    OBVIOUS
  <1>1. \A s \in Stations : LiveUnits(s) = 0
    <2>1. \A s \in Stations : Live(s) = {}
      BY DEF Init, Live
    <2> QED BY <2>1, SumEmpty DEF LiveUnits
  <1>2. unreturned \in [Stations -> Int] /\ UnitsAccounted
    BY <1>1 DEF Init, UnitsAccounted, Taken, NewStep
  <1>3. MaterialFollowsEvents
    BY <1>1, ConstantsAssumption DEF Init, MaterialFollowsEvents
  <1> QED BY <1>2, <1>3 DEF Books

(* What no step of the books touches.                                       *)
LEMMA SameBooks ==
  ASSUME Books, UNCHANGED <<step, material, event, reworked, unreturned>> PROVE Books'
PROOF
  <1>1. \A s \in Stations : LiveUnits(s)' = LiveUnits(s)
    BY DEF LiveUnits, Live
  <1> QED BY <1>1 DEF Books, MaterialFollowsEvents, UnitsAccounted

LEMMA ConfirmBooks ==
  ASSUME NEW w \in Workers, IInv, Books, ConfirmCommit(w) PROVE Books'
PROOF
  <1> USE DEF IInv
  <1>1. PICK s \in Stations, r \in Requests :
          /\ job[w].station = s /\ job[w].request = r /\ job[w].read[s] = step[s]
          /\ Dto[r].station = s /\ event[r] = "none"
    BY DEF ConfirmCommit, Fresh, FreshConfirm, Writing, TypeOK, Job
  <1>2. Dto[r].good \in Nat /\ Dto[r].scrap \in Nat /\ Units[r] = Dto[r].good + Dto[r].scrap
    BY ConstantsAssumption DEF Units
  <1>3. /\ event' = [event EXCEPT ![r] = "live"] /\ UNCHANGED <<reworked, unreturned>>
        /\ step' = [step EXCEPT ![s] = Advanced(r, job[w].read, s)]
        /\ material' = [material EXCEPT ![s] = Consumed(material[s], Dto[r].good, Dto[r].scrap)]
    BY <1>1 DEF ConfirmCommit, history
  <1>4. \A t \in Stations : LiveUnits(t)' = LiveUnits(t) + IF s = t THEN Units[r] ELSE 0
    BY <1>1, <1>3, LiveAdded
  <1>5. \A t \in Stations : LiveUnits(t) \in Nat
    BY LiveNat
  <1>6. MaterialFollowsEvents'
    <2> SUFFICES ASSUME NEW t \in Stations
                 PROVE  /\ material'[t].consumed = LiveUnits(t)' /\ material'[t].kit = LiveUnits(t)'
                        /\ material'[t].available = Delivered[t] - LiveUnits(t)'
      BY DEF MaterialFollowsEvents
    <2>1. material[t] \in StepMaterial /\ Delivered[t] \in Nat /\ material[t].consumed = LiveUnits(t)
          /\ material[t].kit = LiveUnits(t) /\ material[t].available = Delivered[t] - LiveUnits(t)
      BY ConstantsAssumption DEF Books, MaterialFollowsEvents, TypeOK
    <2>2. CASE t = s
      <3>1. material'[t] = Consumed(material[t], Dto[r].good, Dto[r].scrap)
        BY <1>3, <2>2 DEF TypeOK
      <3>2. LiveUnits(t)' = LiveUnits(t) + Dto[r].good + Dto[r].scrap
        BY <1>2, <1>4, <1>5, <2>2
      <3> QED BY <1>2, <1>5, <2>1, <3>1, <3>2 DEF Consumed, Charged
    <2>3. CASE t # s
      BY <1>3, <1>4, <1>5, <2>1, <2>3 DEF TypeOK
    <2> QED BY <2>2, <2>3
  <1>7. UnitsAccounted'
    <2> SUFFICES ASSUME NEW t \in Stations
                 PROVE  Taken(step'[t]) + reworked'[t] = LiveUnits(t)' + unreturned'[t]
      BY DEF UnitsAccounted
    <2>1. /\ Taken(step[t]) + reworked[t] = LiveUnits(t) + unreturned[t]
          /\ step[t] \in Step /\ reworked[t] \in Nat /\ unreturned[t] \in Int
      BY DEF Books, UnitsAccounted, TypeOK
    <2>2. CASE t = s
      <3>1. Taken(step'[t]) = Taken(step[t]) + Units[r]
        <4>1. step'[t] = Advanced(r, job[w].read, s)
          BY <1>3, <2>2 DEF TypeOK
        <4>2. /\ step'[t].good = step[t].good + Dto[r].good /\ step'[t].scrap = step[t].scrap + Dto[r].scrap
              /\ step'[t].segregated = step[t].segregated
          BY <4>1, <1>1, <2>2 DEF Advanced
        <4> QED BY <1>2, <2>1, <4>2 DEF Taken, Step
      <3>2. Taken(step[t]) \in Nat
        BY <2>1 DEF Taken, Step
      <3> QED BY <1>3, <1>4, <1>5, <2>1, <2>2, <3>1, <3>2, LiveNat
    <2>3. CASE t # s
      BY <1>3, <1>4, <1>5, <2>1, <2>3 DEF TypeOK
    <2> QED BY <2>2, <2>3
  <1> QED BY <1>3, <1>6, <1>7 DEF Books

LEMMA RevertBooks ==
  ASSUME NEW r \in Requests, IInv, Books, RevertEvent(r) PROVE Books'
PROOF
  <1> USE DEF IInv
  <1>1. PICK s \in Stations : s = Dto[r].station
    BY ConstantsAssumption
  <1>2. Dto[r].good \in Nat /\ Dto[r].scrap \in Nat /\ Units[r] = Dto[r].good + Dto[r].scrap /\ Units[r] \in Nat
    BY ConstantsAssumption DEF Units
  <1>3. event[r] = "live" /\ event' = [event EXCEPT ![r] = "reverted"] /\ reworked' = reworked
    BY DEF RevertEvent
  <1>4. PICK row \in Step :
          /\ step' = [step EXCEPT ![s] = row]
          /\ unreturned' = [unreturned EXCEPT ![s] = unreturned[s] + Units[r] - (Taken(step[s]) - Taken(row))]
    <2> DEFINE row == [good |-> Minus(step[s].good, Dto[r].good), scrap |-> Minus(step[s].scrap, Dto[r].scrap),
                       segregated |-> step[s].segregated,
                       status |-> IF step[s].status = "completed" THEN "in_process" ELSE step[s].status]
    <2>1. step[s] \in Step
      BY DEF TypeOK
    <2>2. row \in Step
      BY <1>2, <2>1 DEF Step, StepStatus, Minus
    <2>3. step' = [step EXCEPT ![s] = row]
      BY <1>1 DEF RevertEvent
    <2>4. unreturned' = [unreturned EXCEPT ![s] = unreturned[s] + Units[r] - (Taken(step[s]) - Taken(row))]
      BY <1>1, <1>2 DEF RevertEvent
    <2> HIDE DEF row
    <2> QED BY <2>2, <2>3, <2>4
  <1>5. material' = [material EXCEPT ![s] = Returned(material[s], Units[r])]
    BY <1>1, <1>2 DEF RevertEvent
  <1>6. \A t \in Stations : /\ LiveUnits(t) = LiveUnits(t)' + IF s = t THEN Units[r] ELSE 0
                            /\ LiveUnits(t)' \in Nat
    BY <1>1, <1>3, LiveDropped
  <1>7. MaterialFollowsEvents'
    <2> SUFFICES ASSUME NEW t \in Stations
                 PROVE  /\ material'[t].consumed = LiveUnits(t)' /\ material'[t].kit = LiveUnits(t)'
                        /\ material'[t].available = Delivered[t] - LiveUnits(t)'
      BY DEF MaterialFollowsEvents
    <2>1. material[t] \in StepMaterial /\ Delivered[t] \in Nat /\ material[t].consumed = LiveUnits(t)
          /\ material[t].kit = LiveUnits(t) /\ material[t].available = Delivered[t] - LiveUnits(t)
      BY ConstantsAssumption DEF Books, MaterialFollowsEvents, TypeOK
    <2>2. CASE t = s
      <3>1. material'[t] = Returned(material[t], Units[r])
        BY <1>5, <2>2 DEF TypeOK
      <3>2. LiveUnits(t) = LiveUnits(t)' + Units[r]
        BY <1>6, <2>2
      <3>3. LiveUnits(t)' \in Nat
        BY <1>6
      <3> QED BY <1>2, <2>1, <3>1, <3>2, <3>3 DEF Returned, Minus
    <2>3. CASE t # s
      BY <1>5, <1>6, <2>1, <2>3 DEF TypeOK
    <2> QED BY <2>2, <2>3
  <1>8. unreturned' \in [Stations -> Int]
    <2>1. Taken(step[s]) \in Int /\ Taken(row) \in Int /\ unreturned[s] \in Int
      BY DEF TypeOK, Taken, Step, Books
    <2> QED BY <1>2, <1>4, <2>1 DEF Books
  <1>9. UnitsAccounted'
    <2> SUFFICES ASSUME NEW t \in Stations
                 PROVE  Taken(step'[t]) + reworked'[t] = LiveUnits(t)' + unreturned'[t]
      BY DEF UnitsAccounted
    <2>1. /\ Taken(step[t]) + reworked[t] = LiveUnits(t) + unreturned[t]
          /\ Taken(step[t]) \in Int /\ reworked[t] \in Nat /\ unreturned[t] \in Int /\ Taken(row) \in Int
      BY DEF Books, UnitsAccounted, TypeOK, Step, Taken
    <2>2. CASE t = s
      <3>1. step'[t] = row /\ unreturned'[t] = unreturned[t] + Units[r] - (Taken(step[t]) - Taken(row))
        BY <1>4, <2>2 DEF TypeOK, Books
      <3>2. LiveUnits(t) = LiveUnits(t)' + Units[r] /\ LiveUnits(t)' \in Nat
        BY <1>6, <2>2
      <3> QED BY <1>2, <1>3, <2>1, <3>1, <3>2
    <2>3. CASE t # s
      BY <1>3, <1>4, <1>6, <2>1, <2>3 DEF TypeOK, Books
    <2> QED BY <2>2, <2>3
  <1> QED BY <1>7, <1>8, <1>9 DEF Books

(* Quality moves units between the counters of a station; only rework takes *)
(* them off, and counts them.                                               *)
LEMMA SaveBooks ==
  ASSUME NEW w \in Workers, IInv, Books,
         SaveIncident(w) \/ \E d \in {"rework", "scrap", "use_as_is"} : SaveDisposition(w, d)
  PROVE  Books'
PROOF
  <1> USE DEF IInv
  <1>1. PICK s \in Stations, i \in Incidents :
          /\ s = job[w].station /\ i = job[w].incident /\ job[w].read[s] = step[s]
    BY DEF SaveIncident, SaveDisposition, Fresh, FreshSave, TypeOK, Job
  <1>2. step[s] \in Step /\ reworked[s] \in Nat
    BY DEF TypeOK
  <1>3. PICK qty \in Nat : qty = incident[i].report.qty
    BY ConstantsAssumption DEF TypeOK, NoReport
  <1>4. UNCHANGED <<material, event, unreturned>>
    BY DEF SaveIncident, SaveDisposition
  <1>5. step' \in [Stations -> Step] /\ reworked' \in [Stations -> Nat]
    BY SaveInv DEF TypeOK
  <1>6. /\ Taken(step'[s]) + reworked'[s] = Taken(step[s]) + reworked[s]
        /\ \A t \in Stations \ {s} : step'[t] = step[t] /\ reworked'[t] = reworked[t]
    <2>1. CASE SaveIncident(w)
      <3> DEFINE good == Minus(step[s].good, Least(qty, step[s].good))
      <3>1. good + Moved(step[s], qty) = step[s].good /\ good \in Nat /\ Moved(step[s], qty) \in Nat
        BY <1>2 DEF Minus, Least, Moved, Step
      <3>2. /\ step'[s].good = good /\ step'[s].scrap = step[s].scrap
            /\ step'[s].segregated = step[s].segregated + Moved(step[s], qty)
        BY <1>1, <1>3, <2>1 DEF SaveIncident, TypeOK
      <3> HIDE DEF good
      <3>3. Taken(step'[s]) = Taken(step[s])
        BY <1>2, <3>1, <3>2 DEF Taken, Step
      <3>4. reworked' = reworked /\ \A t \in Stations \ {s} : step'[t] = step[t]
        BY <1>1, <2>1 DEF SaveIncident, TypeOK
      <3> QED BY <3>3, <3>4
    <2>2. CASE \E d \in {"rework", "scrap", "use_as_is"} : SaveDisposition(w, d)
      <3>1. PICK d \in {"rework", "scrap", "use_as_is"} : SaveDisposition(w, d)
        BY <2>2
      <3>2. PICK released \in Nat : released = Least(qty, step[s].segregated) /\ released <= step[s].segregated
        BY <1>2 DEF Least, Step
      <3>3. /\ step'[s].good = step[s].good + (IF d = "use_as_is" THEN released ELSE 0)
            /\ step'[s].scrap = step[s].scrap + (IF d = "scrap" THEN released ELSE 0)
            /\ step'[s].segregated = step[s].segregated - released
            /\ reworked'[s] = reworked[s] + (IF d = "rework" THEN released ELSE 0)
        BY <1>1, <1>3, <3>1, <3>2 DEF SaveDisposition, TypeOK
      <3>4. Taken(step'[s]) + reworked'[s] = Taken(step[s]) + reworked[s]
        BY <1>2, <3>2, <3>3 DEF Taken, Step
      <3>5. \A t \in Stations \ {s} : step'[t] = step[t] /\ reworked'[t] = reworked[t]
        BY <1>1, <3>1 DEF SaveDisposition, TypeOK
      <3> QED BY <3>4, <3>5
    <2> QED BY <2>1, <2>2
  <1>7. \A t \in Stations : LiveUnits(t)' = LiveUnits(t)
    BY <1>4 DEF LiveUnits, Live
  <1>8. MaterialFollowsEvents'
    BY <1>4, <1>7 DEF Books, MaterialFollowsEvents
  <1>9. UnitsAccounted'
    <2> SUFFICES ASSUME NEW t \in Stations
                 PROVE  Taken(step'[t]) + reworked'[t] = LiveUnits(t)' + unreturned'[t]
      BY DEF UnitsAccounted
    <2>1. Taken(step'[t]) + reworked'[t] = Taken(step[t]) + reworked[t]
      BY <1>6
    <2> QED BY <1>4, <1>7, <2>1 DEF Books, UnitsAccounted
  <1> QED BY <1>4, <1>8, <1>9 DEF Books

LEMMA NextBooks == IInv /\ Books /\ [Next]_vars => Books'
PROOF
  <1> SUFFICES ASSUME IInv, Books, [Next]_vars PROVE Books'
    OBVIOUS
  <1>1. ASSUME NEW w \in Workers,
               \/ OpenExecution(w) \/ OpenStation(w) \/ ConfirmRefused(w) \/ ConfirmAfter(w) \/ Crash(w)
               \/ \E r \in Requests : ConfirmRead(w, r)
               \/ \E i \in Incidents : Disposition(w, i) \/ \E report \in Reports : ReportIncident(w, i, report)
        PROVE  Books'
    <2>1. UNCHANGED <<step, material, event, reworked, unreturned>>
      BY <1>1 DEF OpenExecution, OpenStation, ConfirmRefused, ConfirmAfter, Crash, ConfirmRead,
           Disposition, ReportIncident, rows, history
    <2> QED BY <2>1, SameBooks
  <1>2. ASSUME NEW w \in Workers, ConfirmCommit(w) PROVE Books'
    BY <1>2, ConfirmBooks
  <1>3. ASSUME NEW w \in Workers,
               SaveIncident(w) \/ \E d \in {"rework", "scrap", "use_as_is"} : SaveDisposition(w, d)
        PROVE  Books'
    BY <1>3, SaveBooks
  <1>4. ASSUME NEW r \in Requests, RevertEvent(r) PROVE Books'
    BY <1>4, RevertBooks
  <1>5. ASSUME NEW a \in Andons, (\E call \in Calls : RaiseAndon(a, call)) \/ AckAndon(a) \/ ResolveAndon(a)
        PROVE  Books'
    <2>1. UNCHANGED <<step, material, event, reworked, unreturned>>
      BY <1>5 DEF RaiseAndon, AckAndon, ResolveAndon, history
    <2> QED BY <2>1, SameBooks
  <1>6. CASE UNCHANGED vars
    BY <1>6, SameBooks DEF vars, rows, history
  <1> QED BY <1>1, <1>2, <1>3, <1>4, <1>5, <1>6 DEF Next

LEMMA BooksHold == Spec => []Books
PROOF
  <1>1. Init => Books
    BY InitBooks
  <1>2. IInv /\ Books /\ [Next]_vars => Books'
    BY NextBooks
  <1> QED BY <1>1, <1>2, IInvHolds, PTL DEF Spec

(* Backflush: however the handlers interleave, die or are sent twice, the   *)
(* material and the kit of every station are charged for the confirmations  *)
(* that were not undone, and for nothing else.                              *)
THEOREM MaterialIsExact == Spec => []MaterialFollowsEvents
PROOF
  <1>1. Books => MaterialFollowsEvents
    BY DEF Books
  <1> QED BY <1>1, BooksHold, PTL

(* No phantom units: the counters of every station add up to what was       *)
(* confirmed there, whatever incidents, dispositions and undos moved.       *)
THEOREM UnitsAddUp == Spec => []UnitsAccounted
PROOF
  <1>1. Books => UnitsAccounted
    BY DEF Books
  <1> QED BY <1>1, BooksHold, PTL
-----------------------------------------------------------------------------
(* Downtime: the clocks that run and the andons that started them           *)

Reasons == {"material_shortage", "quality_block"} \cup {call.reason : call \in Calls}
Clock == [station : 0 .. N, reason : Reasons, andon : Andons \cup {Nobody}]
AndonCall == [status : {"none", "open", "ack", "resolved"}, call : Calls \cup {NoCall}]

\* A clock that names an andon was asked for by that andon, still open.
Clocks ==
  /\ downtime \subseteq Clock /\ andon \in [Andons -> AndonCall]
  /\ \A d \in downtime :
       d.andon # Nobody => /\ andon[d.andon].status \in {"open", "ack"}
                           /\ andon[d.andon].call.station = d.station
                           /\ andon[d.andon].call.reason = d.reason /\ d.reason # Nobody
  /\ BlockedHasClock

(* openDowntime() loses no clock, starts the one it is asked for, and gives *)
(* its andon to no other.                                                   *)
LEMMA StoppedClocks ==
  ASSUME NEW D \in SUBSET Clock, NEW s \in 0 .. N, NEW reason \in Reasons, NEW a \in Andons \cup {Nobody}
  PROVE  /\ Stopped(D, s, reason, a) \subseteq Clock
         /\ \E e \in Stopped(D, s, reason, a) : e.station = s /\ e.reason = reason
         /\ \A d \in D : \E e \in Stopped(D, s, reason, a) : e.station = d.station /\ e.reason = d.reason
         /\ \A e \in Stopped(D, s, reason, a) : e.andon # Nobody =>
              \/ e.andon = a /\ e.station = s /\ e.reason = reason
              \/ \E d \in D : d.andon = e.andon /\ d.station = e.station /\ d.reason = e.reason
PROOF
  <1> DEFINE open == {d \in D : d.station = s /\ d.reason = reason}
             asked(d) == [d EXCEPT !.andon = IF @ = Nobody THEN a ELSE @]
             new == [station |-> s, reason |-> reason, andon |-> a]
  <1>1. \A d \in Clock : /\ asked(d) \in Clock /\ asked(d).station = d.station /\ asked(d).reason = d.reason
                         /\ asked(d).andon = IF d.andon = Nobody THEN a ELSE d.andon
    BY DEF Clock
  <1>2. new \in Clock
    BY DEF Clock
  <1>3. CASE open = {}
    <2>1. Stopped(D, s, reason, a) = D \cup {new}
      BY <1>3 DEF Stopped
    <2> QED BY <2>1, <1>2
  <1>4. CASE open # {}
    <2>1. Stopped(D, s, reason, a) = (D \ open) \cup {asked(d) : d \in open}
      BY <1>4 DEF Stopped
    <2>2. \A d \in open : asked(d) \in Stopped(D, s, reason, a)
      BY <2>1
    <2>3. \A d \in D \ open : d \in Stopped(D, s, reason, a)
      BY <2>1
    <2>4. \A e \in Stopped(D, s, reason, a) : e \in D \/ \E d \in open : e = asked(d)
      BY <2>1
    <2> HIDE DEF asked
    <2>5. \A d \in open : d \in Clock /\ d \in D /\ d.station = s /\ d.reason = reason
      OBVIOUS
    <2>6. PICK d \in open : TRUE
      BY <1>4
    <2> HIDE DEF open
    <2>7. Stopped(D, s, reason, a) \subseteq Clock
      BY <2>4, <2>5, <1>1
    <2>8. \E e \in Stopped(D, s, reason, a) : e.station = s /\ e.reason = reason
      BY <2>2, <2>5, <2>6, <1>1
    <2>9. \A c \in D : \E e \in Stopped(D, s, reason, a) : e.station = c.station /\ e.reason = c.reason
      BY <2>2, <2>3, <2>5, <1>1
    <2>10. \A e \in Stopped(D, s, reason, a) : e.andon # Nobody =>
              \/ e.andon = a /\ e.station = s /\ e.reason = reason
              \/ \E c \in D : c.andon = e.andon /\ c.station = e.station /\ c.reason = e.reason
      BY <2>4, <2>5, <1>1
    <2> QED BY <2>7, <2>8, <2>9, <2>10
  <1> QED BY <1>3, <1>4

LEMMA InitClocks == Init => Clocks
PROOF
  <1> SUFFICES ASSUME Init PROVE Clocks
    OBVIOUS
  <1>1. andon \in [Andons -> AndonCall]
    BY DEF Init, AndonCall
  <1>2. BlockedHasClock
    BY DEF Init, BlockedHasClock, NewStep
  <1> QED BY <1>1, <1>2 DEF Init, Clocks

(* A step keeps BlockedHasClock when it leaves the resolved andons and the  *)
(* clocks of the stations it leaves blocked.                                *)
Clocked(s) == \E d \in downtime : d.station = s /\ d.reason = "quality_block"
Resolved(s) ==
  \E a \in Andons : andon[a] = [status |-> "resolved", call |-> [station |-> s, reason |-> "quality_block"]]

LEMMA KeepsClocks ==
  ASSUME BlockedHasClock,
         \A s \in Stations : step'[s].status = "blocked" => step[s].status = "blocked" \/ Clocked(s)',
         \A s \in Stations : step'[s].status = "blocked" /\ Clocked(s) => Clocked(s)' \/ Resolved(s)',
         \A a \in Andons : andon[a].status = "resolved" => andon'[a] = andon[a]
  PROVE  BlockedHasClock'
PROOF
  <1>1. \A s \in Stations : step[s].status = "blocked" => Clocked(s) \/ Resolved(s)
    BY DEF BlockedHasClock, Clocked, Resolved
  <1>2. \A s \in Stations : Resolved(s) => Resolved(s)'
    <2> SUFFICES ASSUME NEW s \in Stations, Resolved(s) PROVE Resolved(s)'
      OBVIOUS
    <2>1. PICK a \in Andons :
            andon[a] = [status |-> "resolved", call |-> [station |-> s, reason |-> "quality_block"]]
      BY DEF Resolved
    <2>2. andon[a].status = "resolved"
      BY <2>1
    <2>3. andon'[a] = andon[a]
      BY <2>2
    <2> QED BY <2>1, <2>3 DEF Resolved
  <1>3. \A s \in Stations : step'[s].status = "blocked" => Clocked(s)' \/ Resolved(s)'
    BY <1>1, <1>2
  <1> QED BY <1>3 DEF BlockedHasClock, Clocked, Resolved

(* The clock of a station may start or be asked for while the rows of the   *)
(* andons stay.                                                             *)
LEMMA StopClocks ==
  ASSUME Clocks, NEW s \in 0 .. N, NEW reason \in Reasons,
         downtime' = Stopped(downtime, s, reason, Nobody), andon' = andon,
         \A t \in Stations : step'[t].status = "blocked" =>
            step[t].status = "blocked" \/ (t = s /\ reason = "quality_block")
  PROVE  Clocks'
PROOF
  <1>1. /\ downtime' \subseteq Clock
        /\ \E e \in downtime' : e.station = s /\ e.reason = reason
        /\ \A d \in downtime : \E e \in downtime' : e.station = d.station /\ e.reason = d.reason
        /\ \A e \in downtime' : e.andon # Nobody =>
              \E d \in downtime : d.andon = e.andon /\ d.station = e.station /\ d.reason = e.reason
    BY StoppedClocks DEF Clocks
  <1>2. BlockedHasClock'
    <2>1. \A t \in Stations : step'[t].status = "blocked" => step[t].status = "blocked" \/ Clocked(t)'
      BY <1>1 DEF Clocked
    <2>2. \A t \in Stations : Clocked(t) => Clocked(t)'
      BY <1>1 DEF Clocked
    <2> QED BY <2>1, <2>2, KeepsClocks DEF Clocks
  <1>3. \A e \in downtime' :
           e.andon # Nobody => /\ andon'[e.andon].status \in {"open", "ack"}
                               /\ andon'[e.andon].call.station = e.station
                               /\ andon'[e.andon].call.reason = e.reason /\ e.reason # Nobody
    BY <1>1 DEF Clocks
  <1> QED BY <1>1, <1>2, <1>3 DEF Clocks

(* The clock of one reason may stop where no station is left blocked by it. *)
LEMMA RecoverClocks ==
  ASSUME Clocks, NEW s, NEW reason,
         downtime' = Recovered(downtime, s, reason), andon' = andon,
         \A t \in Stations : step'[t].status = "blocked" =>
            step[t].status = "blocked" /\ ~(t = s /\ reason = "quality_block")
  PROVE  Clocks'
PROOF
  <1>1. downtime' = {d \in downtime : d.station # s \/ d.reason # reason}
    BY DEF Recovered
  <1>2. BlockedHasClock'
    <2>1. \A t \in Stations : step'[t].status = "blocked" /\ Clocked(t) => Clocked(t)'
      BY <1>1 DEF Clocked
    <2> QED BY <2>1, KeepsClocks DEF Clocks
  <1> QED BY <1>1, <1>2 DEF Clocks

LEMMA SameClocks ==
  ASSUME Clocks, UNCHANGED <<downtime, andon>>,
         \A t \in Stations : step'[t].status = "blocked" => step[t].status = "blocked"
  PROVE  Clocks'
PROOF
  <1>1. \A t : Clocked(t) => Clocked(t)'
    BY DEF Clocked
  <1>2. BlockedHasClock'
    BY <1>1, KeepsClocks DEF Clocks
  <1> QED BY <1>2 DEF Clocks

LEMMA AfterClocks ==
  ASSUME NEW w \in Workers, IInv, Clocks, ConfirmAfter(w) PROVE Clocks'
PROOF
  <1>1. job[w].station \in Stations /\ Stations \subseteq 0 .. N /\ "material_shortage" \in Reasons
    BY DEF IInv, TypeOK, Job, Stations, Reasons
  <1>2. step' = step /\ andon' = andon
    BY DEF ConfirmAfter
  <1>3. CASE downtime' = downtime
    BY <1>2, <1>3, SameClocks
  <1>4. CASE downtime' = Stopped(downtime, job[w].station, "material_shortage", Nobody)
    BY <1>1, <1>2, <1>4, StopClocks
  <1>5. CASE downtime' = Recovered(downtime, job[w].station, "material_shortage")
    BY <1>2, <1>5, RecoverClocks
  <1> QED BY <1>3, <1>4, <1>5 DEF ConfirmAfter

LEMMA SaveClocks ==
  ASSUME NEW w \in Workers, IInv, Clocks,
         SaveIncident(w) \/ \E d \in {"rework", "scrap", "use_as_is"} : SaveDisposition(w, d)
  PROVE  Clocks'
PROOF
  <1>1. PICK s \in Stations : s = job[w].station /\ job[w].read[s] = step[s]
    BY DEF SaveIncident, SaveDisposition, IInv, Fresh, FreshSave, TypeOK, Job
  <1>2. s \in 0 .. N /\ "quality_block" \in Reasons
    BY DEF Stations, Reasons
  <1>3. andon' = andon
    BY DEF SaveIncident, SaveDisposition
  <1>4. CASE SaveIncident(w)
    <2> DEFINE blocks == incident[job[w].incident].report.blocks
               good == Minus(step[s].good, Least(incident[job[w].incident].report.qty, step[s].good))
    <2>1. \A t \in Stations : step'[t].status = IF t = s THEN AfterIncident(step[s].status, good, blocks)
                                                ELSE step[t].status
      BY <1>1, <1>4 DEF SaveIncident, IInv, TypeOK
    <2>2. downtime' = IF blocks THEN Stopped(downtime, s, "quality_block", Nobody) ELSE downtime
      BY <1>1, <1>4 DEF SaveIncident
    <2> HIDE DEF blocks, good
    <2>3. CASE blocks
      <3>1. \A t \in Stations : step'[t].status = "blocked" => step[t].status = "blocked" \/ t = s
        BY <2>1
      <3> QED BY <1>2, <1>3, <2>2, <2>3, <3>1, StopClocks
    <2>4. CASE ~blocks
      <3>1. \A t \in Stations : step'[t].status = "blocked" => step[t].status = "blocked"
        BY <2>1, <2>4 DEF AfterIncident
      <3> QED BY <1>3, <2>2, <2>4, <3>1, SameClocks
    <2> QED BY <2>3, <2>4
  <1>5. CASE \E d \in {"rework", "scrap", "use_as_is"} : SaveDisposition(w, d)
    <2>1. PICK d \in {"rework", "scrap", "use_as_is"} : SaveDisposition(w, d)
      BY <1>5
    <2> DEFINE unblocks == step[s].status = "blocked" /\ ~OtherBlocking(s)
    <2>2. downtime' = IF unblocks THEN Recovered(downtime, s, "quality_block") ELSE downtime
      BY <1>1, <2>1 DEF SaveDisposition
    <2>3. \A t \in Stations : step'[t].status = "blocked" =>
             step[t].status = "blocked" /\ ~(t = s /\ unblocks)
      BY <1>1, <2>1 DEF SaveDisposition, IInv, TypeOK
    <2> HIDE DEF unblocks
    <2>4. CASE unblocks
      BY <1>3, <2>2, <2>3, <2>4, RecoverClocks
    <2>5. CASE ~unblocks
      BY <1>3, <2>2, <2>3, <2>5, SameClocks
    <2> QED BY <2>4, <2>5
  <1> QED BY <1>4, <1>5

LEMMA AndonClocks ==
  ASSUME NEW a \in Andons, Clocks, (\E call \in Calls : RaiseAndon(a, call)) \/ AckAndon(a) \/ ResolveAndon(a)
  PROVE  Clocks'
PROOF
  <1>0. /\ step' = step /\ downtime \subseteq Clock /\ andon \in [Andons -> AndonCall] /\ a # Nobody
        /\ \A b \in Andons \ {a} : andon'[b] = andon[b]
    BY ConstantsAssumption DEF Clocks, RaiseAndon, AckAndon, ResolveAndon
  <1>1. CASE \E call \in Calls : RaiseAndon(a, call)
    <2>1. PICK call \in Calls : RaiseAndon(a, call)
      BY <1>1
    <2>2. /\ andon' = [andon EXCEPT ![a] = [status |-> "open", call |-> call]] /\ andon[a].status = "none"
          /\ call.station \in 0 .. N /\ call.reason \in Reasons
      BY <2>1, ConstantsAssumption DEF RaiseAndon, Reasons
    <2>3. andon' \in [Andons -> AndonCall] /\ andon'[a] = [status |-> "open", call |-> call]
      BY <1>0, <2>2 DEF AndonCall
    <2>4. \A d \in downtime : d.andon # Nobody => d.andon # a /\ d.andon \in Andons
      BY <1>0, <2>2 DEF Clocks, Clock
    <2>5. CASE call.reason # Nobody
      <3>1. downtime' = Stopped(downtime, call.station, call.reason, a)
        BY <2>1, <2>5 DEF RaiseAndon
      <3>2. /\ downtime' \subseteq Clock
            /\ \A d \in downtime : \E e \in downtime' : e.station = d.station /\ e.reason = d.reason
            /\ \A e \in downtime' : e.andon # Nobody =>
                 \/ e.andon = a /\ e.station = call.station /\ e.reason = call.reason
                 \/ \E d \in downtime : d.andon = e.andon /\ d.station = e.station /\ d.reason = e.reason
        BY <1>0, <2>2, <3>1, StoppedClocks
      <3>3. \A e \in downtime' : e.andon # Nobody => /\ andon'[e.andon].status \in {"open", "ack"}
                                                     /\ andon'[e.andon].call.station = e.station
                                                     /\ andon'[e.andon].call.reason = e.reason /\ e.reason # Nobody
        BY <1>0, <2>3, <2>4, <2>5, <3>2 DEF Clocks
      <3>4. BlockedHasClock'
        <4>1. \A t \in Stations : Clocked(t) => Clocked(t)'
          BY <3>2 DEF Clocked
        <4>2. \A b \in Andons : andon[b].status = "resolved" => andon'[b] = andon[b]
          BY <1>0, <2>2
        <4> QED BY <1>0, <4>1, <4>2, KeepsClocks DEF Clocks
      <3> QED BY <2>3, <3>2, <3>3, <3>4 DEF Clocks
    <2>6. CASE call.reason = Nobody
      <3>1. downtime' = downtime
        BY <2>1, <2>6 DEF RaiseAndon
      <3>2. BlockedHasClock'
        <4>1. \A t \in Stations : Clocked(t) => Clocked(t)'
          BY <3>1 DEF Clocked
        <4>2. \A b \in Andons : andon[b].status = "resolved" => andon'[b] = andon[b]
          BY <1>0, <2>2
        <4> QED BY <1>0, <4>1, <4>2, KeepsClocks DEF Clocks
      <3>3. \A e \in downtime' : e.andon # Nobody => /\ andon'[e.andon].status \in {"open", "ack"}
                                                     /\ andon'[e.andon].call.station = e.station
                                                     /\ andon'[e.andon].call.reason = e.reason /\ e.reason # Nobody
        BY <1>0, <2>4, <3>1 DEF Clocks
      <3> QED BY <1>0, <2>3, <3>1, <3>2, <3>3 DEF Clocks
    <2> QED BY <2>5, <2>6
  <1>2. CASE AckAndon(a)
    <2>1. /\ andon' = [andon EXCEPT ![a] = [andon[a] EXCEPT !.status = "ack"]] /\ andon[a].status = "open"
          /\ downtime' = downtime
      BY <1>2 DEF AckAndon
    <2>2. andon' \in [Andons -> AndonCall] /\ andon'[a].status = "ack" /\ andon'[a].call = andon[a].call
      BY <1>0, <2>1 DEF AndonCall
    <2>3. BlockedHasClock'
      <3>1. \A t \in Stations : Clocked(t) => Clocked(t)'
        BY <2>1 DEF Clocked
      <3>2. \A b \in Andons : andon[b].status = "resolved" => andon'[b] = andon[b]
        BY <1>0, <2>1
      <3> QED BY <1>0, <3>1, <3>2, KeepsClocks DEF Clocks
    <2>4. \A e \in downtime' : e.andon # Nobody => /\ andon'[e.andon].status \in {"open", "ack"}
                                                   /\ andon'[e.andon].call.station = e.station
                                                   /\ andon'[e.andon].call.reason = e.reason /\ e.reason # Nobody
      BY <1>0, <2>1, <2>2 DEF Clocks, Clock
    <2> QED BY <1>0, <2>1, <2>2, <2>3, <2>4 DEF Clocks
  <1>3. CASE ResolveAndon(a)
    <2>1. /\ andon' = [andon EXCEPT ![a] = [andon[a] EXCEPT !.status = "resolved"]]
          /\ andon[a].status \in {"open", "ack"} /\ downtime' \subseteq downtime
          /\ \A d \in downtime : d \in downtime' \/ (andon[a].call.reason # Nobody /\ d.andon = a)
      BY <1>3 DEF ResolveAndon
    <2>2. \A d \in downtime' : d.andon # a
      <3>1. CASE andon[a].call.reason # Nobody
        BY <1>3, <3>1 DEF ResolveAndon
      <3>2. CASE andon[a].call.reason = Nobody
        <4>1. downtime' = downtime
          BY <1>3, <3>2 DEF ResolveAndon
        <4> QED BY <1>0, <3>2, <4>1 DEF Clocks
      <3> QED BY <3>1, <3>2
    <2>3. /\ andon' \in [Andons -> AndonCall]
          /\ andon'[a] = [status |-> "resolved", call |-> andon[a].call]
      BY <1>0, <2>1 DEF AndonCall
    <2>4. \A e \in downtime' : e.andon # Nobody => /\ andon'[e.andon].status \in {"open", "ack"}
                                                   /\ andon'[e.andon].call.station = e.station
                                                   /\ andon'[e.andon].call.reason = e.reason /\ e.reason # Nobody
      BY <1>0, <2>1, <2>2 DEF Clocks, Clock
    <2>5. BlockedHasClock'
      <3>1. \A b \in Andons : andon[b].status = "resolved" => andon'[b] = andon[b]
        BY <1>0, <2>1
      <3>2. ASSUME NEW s \in Stations, NEW d \in downtime,
                   d.station = s, d.reason = "quality_block", d.andon = a
            PROVE  andon'[a] = [status |-> "resolved", call |-> [station |-> s, reason |-> "quality_block"]]
        <4>1. andon[a].call.station = s /\ andon[a].call.reason = "quality_block"
          BY <1>0, <3>2 DEF Clocks
        <4>2. andon[a].call \in Calls \cup {NoCall}
          BY <1>0 DEF AndonCall
        <4>3. andon[a].call \in [station : 0 .. N, reason : {call.reason : call \in Calls} \cup {Nobody}]
          BY <4>2, ConstantsAssumption DEF NoCall
        <4>4. andon[a].call = [station |-> s, reason |-> "quality_block"]
          BY <4>1, <4>3
        <4> QED BY <2>3, <4>4
      <3>3. \A s \in Stations : Clocked(s) => Clocked(s)' \/ Resolved(s)'
        BY <2>1, <3>2 DEF Clocked, Resolved
      <3> QED BY <1>0, <3>1, <3>3, KeepsClocks DEF Clocks
    <2> QED BY <1>0, <2>1, <2>3, <2>4, <2>5 DEF Clocks
  <1> QED BY <1>1, <1>2, <1>3

LEMMA NextClocks == IInv /\ Clocks /\ [Next]_vars => Clocks'
PROOF
  <1> SUFFICES ASSUME IInv, Clocks, [Next]_vars PROVE Clocks'
    OBVIOUS
  <1>1. ASSUME NEW w \in Workers,
               \/ OpenExecution(w) \/ OpenStation(w) \/ ConfirmRefused(w) \/ Crash(w)
               \/ \E r \in Requests : ConfirmRead(w, r)
               \/ \E i \in Incidents : Disposition(w, i) \/ \E report \in Reports : ReportIncident(w, i, report)
        PROVE  Clocks'
    <2>1. UNCHANGED <<step, downtime, andon>>
      BY <1>1 DEF OpenExecution, OpenStation, ConfirmRefused, Crash, ConfirmRead, Disposition, ReportIncident, rows
    <2> QED BY <2>1, SameClocks
  <1>2. ASSUME NEW w \in Workers, ConfirmCommit(w) PROVE Clocks'
    <2>1. \A t \in Stations : step'[t].status = "blocked" => step[t].status = "blocked"
      BY <1>2 DEF ConfirmCommit, Advanced, IInv, TypeOK
    <2> QED BY <1>2, <2>1, SameClocks DEF ConfirmCommit
  <1>3. ASSUME NEW w \in Workers, ConfirmAfter(w) PROVE Clocks'
    BY <1>3, AfterClocks
  <1>4. ASSUME NEW w \in Workers,
               SaveIncident(w) \/ \E d \in {"rework", "scrap", "use_as_is"} : SaveDisposition(w, d)
        PROVE  Clocks'
    BY <1>4, SaveClocks
  <1>5. ASSUME NEW r \in Requests, RevertEvent(r) PROVE Clocks'
    <2>1. \A t \in Stations : step'[t].status = "blocked" => step[t].status = "blocked"
      BY <1>5 DEF RevertEvent, IInv, TypeOK
    <2> QED BY <1>5, <2>1, SameClocks DEF RevertEvent
  <1>6. ASSUME NEW a \in Andons, (\E call \in Calls : RaiseAndon(a, call)) \/ AckAndon(a) \/ ResolveAndon(a)
        PROVE  Clocks'
    BY <1>6, AndonClocks
  <1>7. CASE UNCHANGED vars
    BY <1>7, SameClocks DEF vars, rows
  <1> QED BY <1>1, <1>2, <1>3, <1>4, <1>5, <1>6, <1>7 DEF Next

(* No station stands blocked with its clock stopped, whatever the other     *)
(* handlers and the andons of the line do, unless a resolved andon that     *)
(* gave the same reason took the clock with it.                             *)
THEOREM BlockedIsClocked == Spec => []BlockedHasClock
PROOF
  <1>1. Init => Clocks
    BY InitClocks
  <1>2. IInv /\ Clocks /\ [Next]_vars => Clocks'
    BY NextClocks
  <1>3. Clocks => BlockedHasClock
    BY DEF Clocks
  <1> QED BY <1>1, <1>2, <1>3, IInvHolds, PTL DEF Spec
=============================================================================
