------------------------- MODULE WarehouseTasksProofs -------------------------
(* Theorems about WarehouseTasks, for any number of requests, calls, tenants *)
(* and tasks.                                                                *)
EXTENDS WarehouseTasks, FiniteSetTheorems, TLAPS

\* A request about a task holds a copy of an existing row, whose identity no
\* save changes, and a copy that says completed is of a task that moved.
CopyOK(j) ==
  /\ j.at \in {"save", "complete", "deliver", "pick"} => j.n # 0
  /\ j.n # 0 =>
       /\ j.n \in Taken
       /\ j.row.ref = task[j.n].ref /\ j.row.tenant = task[j.n].tenant
       /\ j.row.status # "none"
       /\ j.row.status = "completed" => j.n \in settled

\* A row about to be created is pending; what is about to be inserted has a number.
NewOK(w, j) ==
  /\ j.at \in {"count", "insert"} => j.new.status = "pending" /\ j.new.tenant = TenantOf[w]
  /\ j.at = "insert" => j.m \in Number
  /\ j.at = "pick" => j.new.status = "pending" /\ j.new.ref = None /\ j.new.tenant = TenantOf[w]

JobsOK == \A w \in Workers : CopyOK(job[w]) /\ NewOK(w, job[w])

IInv == TypeOK /\ JobsOK /\ CompletedMoved

-----------------------------------------------------------------------------
LEMMA Types ==
  /\ NoTask \in TaskRow /\ Idle \in Job /\ Crashed \in Job
  /\ Idle.n = 0 /\ Idle.at = "idle" /\ Crashed.n = 0 /\ Crashed.at = "crashed"
BY DEF NoTask, TaskRow, Idle, Crashed, On, Step, Job

LEMMA StepFields ==
  ASSUME NEW at, NEW n, NEW row, NEW new, NEW m, NEW todo
  PROVE  /\ Step(at, n, row, new, m, todo).at = at /\ Step(at, n, row, new, m, todo).n = n
         /\ Step(at, n, row, new, m, todo).row = row /\ Step(at, n, row, new, m, todo).new = new
         /\ Step(at, n, row, new, m, todo).m = m /\ Step(at, n, row, new, m, todo).todo = todo
BY DEF Step

LEMMA StepType ==
  ASSUME NEW at \in {"idle", "crashed", "count", "insert", "import", "save", "complete", "deliver", "pick"},
         NEW n \in Number \cup {0}, NEW row \in TaskRow, NEW new \in TaskRow,
         NEW m \in Number \cup {0}, NEW todo \in SUBSET Calls
  PROVE  Step(at, n, row, new, m, todo) \in Job
BY DEF Step, Job

LEMMA NewTaskType ==
  ASSUME NEW w \in Workers, NEW qty \in Int, NEW ref \in Calls \cup {None}
  PROVE  /\ NewTask(w, qty, ref) \in TaskRow
         /\ NewTask(w, qty, ref).status = "pending" /\ NewTask(w, qty, ref).ref = ref
         /\ NewTask(w, qty, ref).tenant = TenantOf[w] /\ NewTask(w, qty, ref).qty = qty
BY DEF NewTask, TaskRow, Tenant

\* A row that only changes its status.
LEMMA StatusChange ==
  ASSUME NEW row \in TaskRow, NEW s \in {"pending", "in_progress", "completed", "cancelled"}
  PROVE  /\ [row EXCEPT !.status = s] \in TaskRow
         /\ [row EXCEPT !.status = s].status = s
         /\ [row EXCEPT !.status = s].ref = row.ref /\ [row EXCEPT !.status = s].tenant = row.tenant
BY DEF TaskRow

(* A step that leaves the rows alone and takes one request on to j.         *)
LEMMA GoesOn ==
  ASSUME IInv, NEW w \in Workers, NEW j \in Job, job' = [job EXCEPT ![w] = j], UNCHANGED task,
         store' \in Nat, line' \in Int, settled \subseteq settled', settled' \subseteq Number,
         CopyOK(j)', NewOK(w, j)
  PROVE  IInv'
PROOF
  <1> USE DEF IInv
  <1>1. TypeOK'
    BY DEF TypeOK
  <1>2. job'[w] = j /\ \A v \in Workers : v # w => job'[v] = job[v]
    BY DEF TypeOK
  <1>3. Taken' = Taken
    BY DEF Taken
  <1>4. ASSUME NEW v \in Workers PROVE CopyOK(job[v])' /\ NewOK(v, job[v])'
    <2>1. CASE v = w
      BY <1>2, <2>1 DEF CopyOK, NewOK
    <2>2. CASE v # w
      <3>1. CopyOK(job[v]) /\ NewOK(v, job[v]) /\ job'[v] = job[v]
        BY <1>2, <2>2 DEF JobsOK
      <3> QED BY <1>3, <3>1 DEF CopyOK, NewOK
    <2> QED BY <2>1, <2>2
  <1>5. JobsOK'
    BY <1>4 DEF JobsOK
  <1> QED BY <1>1, <1>5 DEF CompletedMoved

(* A step that starts on an existing task, with a copy of it.               *)
LEMMA OwnRow ==
  ASSUME IInv, NEW w \in Workers, NEW n \in Number, n \in Own(w)
  PROVE  /\ task[n] \in TaskRow /\ task[n].status # "none" /\ n \in Taken /\ n # 0
         /\ task[n].status = "completed" => n \in settled
BY DEF IInv, TypeOK, Own, Taken, CompletedMoved, Number

LEMMA IdleOK ==
  ASSUME NEW w \in Workers
  PROVE  /\ CopyOK(Idle) /\ CopyOK(Idle)' /\ NewOK(w, Idle)
         /\ CopyOK(Crashed) /\ CopyOK(Crashed)' /\ NewOK(w, Crashed)
BY DEF CopyOK, NewOK, Idle, Crashed, On, Step

LEMMA ImportingOK ==
  ASSUME NEW w \in Workers, NEW todo \in SUBSET Calls
  PROVE  /\ Importing(todo) \in Job /\ CopyOK(Importing(todo)) /\ CopyOK(Importing(todo))'
         /\ NewOK(w, Importing(todo)) /\ Importing(todo).n = 0 /\ Importing(todo).at \in {"idle", "import"}
         /\ Importing(todo).todo \subseteq todo
PROOF
  <1>1. CASE todo = {}
    BY <1>1, IdleOK, Types DEF Importing, Idle, On, Step
  <1>2. CASE todo # {}
    <2>1. Importing(todo) = Step("import", 0, NoTask, NoTask, 0, todo)
      BY <1>2 DEF Importing
    <2>2. Step("import", 0, NoTask, NoTask, 0, todo) \in Job
      BY Types, StepType
    <2> QED BY <2>1, <2>2, StepFields DEF CopyOK, NewOK
  <1> QED BY <1>1, <1>2

\* A request that is about to count the tasks of its tenant for a new one.
LEMMA CreatesOK ==
  ASSUME IInv, NEW w \in Workers, NEW new \in TaskRow, NEW todo \in SUBSET Calls,
         new.status = "pending", new.tenant = TenantOf[w],
         Creates(w, 0, NoTask, new, todo), UNCHANGED task, Unmoved
  PROVE  IInv'
PROOF
  <1> DEFINE j == Step("count", 0, NoTask, new, 0, todo)
  <1>1. j \in Job
    BY Types, StepType
  <1>2. CopyOK(j)' /\ NewOK(w, j)
    BY StepFields DEF CopyOK, NewOK
  <1>3. job' = [job EXCEPT ![w] = j]
    BY DEF Creates, Goes
  <1> HIDE DEF j
  <1> QED BY <1>1, <1>2, <1>3, GoesOn DEF IInv, TypeOK, Unmoved

LEMMA SavesOK ==
  ASSUME IInv, NEW w \in Workers, NEW n \in Number, NEW row \in TaskRow, n \in Own(w),
         row.status # "none", row.ref = task[n].ref, row.tenant = task[n].tenant,
         row.status = "completed" => n \in settled, Saves(w, n, row)
  PROVE  IInv'
PROOF
  <1> DEFINE j == On("save", n, row)
  <1>1. j \in Job
    BY Types, StepType DEF On
  <1>2. CopyOK(j)' /\ NewOK(w, j)
    BY OwnRow, StepFields DEF On, CopyOK, NewOK, Saves, Unmoved, Taken
  <1>3. job' = [job EXCEPT ![w] = j] /\ UNCHANGED task /\ Unmoved
    BY DEF Saves, Goes
  <1> HIDE DEF j
  <1> QED BY <1>1, <1>2, <1>3, GoesOn DEF IInv, TypeOK, Unmoved

LEMMA CreatingSteps ==
  ASSUME IInv, NEW w \in Workers,
         \/ \E qty \in Quantities : AskTask(w, qty)
         \/ Analyze(w) \/ \E c \in Calls : ImportCall(w, c)
         \/ Import(w)
  PROVE  IInv'
PROOF
  <1>1. CASE \E qty \in Quantities : AskTask(w, qty)
    <2>1. PICK qty \in Quantities : AskTask(w, qty)
      BY <1>1
    <2>2. qty \in Int
      BY ConstantsAssumption
    <2> QED BY <2>1, <2>2, NewTaskType, CreatesOK DEF AskTask
  <1>2. CASE Analyze(w)
    <2>1. MaxStock - line \in Int
      BY ConstantsAssumption DEF IInv, TypeOK
    <2> QED BY <1>2, <2>1, NewTaskType, CreatesOK DEF Analyze
  <1>3. CASE \E c \in Calls : ImportCall(w, c)
    <2>1. PICK c \in Calls : ImportCall(w, c)
      BY <1>3
    <2>2. job[w].todo \ {c} \in SUBSET Calls /\ CallQty[c] \in Int
      BY ConstantsAssumption DEF IInv, TypeOK, Job
    <2>3. CASE Existing(w, c) = {}
      BY <2>1, <2>2, <2>3, NewTaskType, CreatesOK DEF ImportCall
    <2>4. CASE Existing(w, c) # {}
      BY <2>1, <2>2, <2>4, ImportingOK, GoesOn DEF ImportCall, Goes, Unmoved, IInv, TypeOK
    <2> QED BY <2>3, <2>4
  <1>4. CASE Import(w)
    BY <1>4, ImportingOK, GoesOn DEF Import, Goes, Unmoved, IInv, TypeOK
  <1> QED BY <1>1, <1>2, <1>3, <1>4

LEMMA TaskSteps ==
  ASSUME IInv, NEW w \in Workers, NEW n \in Number,
         \/ Start(w, n) \/ Cancel(w, n) \/ Assign(w, n) \/ GiveUp(w, n)
         \/ Complete(w, n) \/ Deliver(w, n)
  PROVE  IInv'
PROOF
  <1>1. n \in Own(w)
    BY DEF Start, Cancel, Assign, GiveUp, Complete, Deliver, Has
  <1>2. /\ task[n] \in TaskRow /\ task[n].status # "none" /\ n \in Taken /\ n # 0
        /\ task[n].status = "completed" => n \in settled
    BY <1>1, OwnRow
  <1>3. CASE Start(w, n)
    <2> DEFINE row == [task[n] EXCEPT !.status = "in_progress"]
    <2>1. row \in TaskRow /\ row.status = "in_progress" /\ row.ref = task[n].ref /\ row.tenant = task[n].tenant
      BY <1>2, StatusChange
    <2>2. Saves(w, n, row)
      BY <1>3 DEF Start
    <2> HIDE DEF row
    <2> QED BY <1>1, <2>1, <2>2, SavesOK
  <1>4. CASE Cancel(w, n) \/ GiveUp(w, n)
    <2> DEFINE row == Cancelled(task[n])
    <2>1. row \in TaskRow /\ row.status = "cancelled" /\ row.ref = task[n].ref /\ row.tenant = task[n].tenant
      BY <1>2, StatusChange DEF Cancelled
    <2>2. Saves(w, n, row)
      BY <1>4 DEF Cancel, GiveUp
    <2> HIDE DEF row
    <2> QED BY <1>1, <2>1, <2>2, SavesOK
  <1>5. CASE Assign(w, n)
    BY <1>1, <1>2, <1>5, SavesOK DEF Assign
  <1>6. CASE Complete(w, n) \/ Deliver(w, n)
    <2>1. PICK at \in {"complete", "deliver"} : job' = [job EXCEPT ![w] = On(at, n, task[n])]
      BY <1>6 DEF Complete, Deliver, Goes
    <2>2. On(at, n, task[n]) \in Job
      BY <1>2, Types, StepType DEF On
    <2>3. PICK j \in Job : j = On(at, n, task[n])
      BY <2>2
    <2>4. UNCHANGED task /\ Unmoved
      BY <1>6 DEF Complete, Deliver
    <2>5. CopyOK(j)' /\ NewOK(w, j)
      BY <1>2, <2>3, <2>4, StepFields DEF On, CopyOK, NewOK, Unmoved, Taken
    <2>6. UNCHANGED task /\ store' \in Nat /\ line' \in Int /\ settled \subseteq settled' /\ settled' \subseteq Number
      BY <2>4 DEF IInv, TypeOK, Unmoved
    <2> QED BY <2>1, <2>3, <2>5, <2>6, GoesOn
  <1> QED BY <1>3, <1>4, <1>5, <1>6

LEMMA ShortPickStep ==
  ASSUME IInv, NEW w \in Workers, NEW n \in Number, NEW picked \in Picks, ShortPick(w, n, picked)
  PROVE  IInv'
PROOF
  <1>1. n \in Own(w)
    BY DEF ShortPick, Has
  <1>2. /\ task[n] \in TaskRow /\ task[n].status # "none" /\ n \in Taken /\ n # 0
        /\ task[n].status = "completed" => n \in settled
    BY <1>1, OwnRow
  <1>3. task[n].qty - picked \in Int
    BY <1>2, ConstantsAssumption DEF TaskRow
  <1>4. PICK new \in TaskRow : /\ new = NewTask(w, task[n].qty - picked, None)
                               /\ new.status = "pending" /\ new.ref = None /\ new.tenant = TenantOf[w]
    BY <1>3, NewTaskType
  <1>5. Step("pick", n, task[n], new, 0, {}) \in Job
    BY <1>2, StepType
  <1>6. PICK j \in Job : j = Step("pick", n, task[n], new, 0, {})
    BY <1>5
  <1>7. job' = [job EXCEPT ![w] = j] /\ UNCHANGED task /\ Unmoved
    BY <1>4, <1>6 DEF ShortPick, Goes
  <1>8. CopyOK(j)' /\ NewOK(w, j)
    BY <1>2, <1>4, <1>6, <1>7, StepFields DEF CopyOK, NewOK, Unmoved, Taken
  <1>9. UNCHANGED task /\ store' \in Nat /\ line' \in Int /\ settled \subseteq settled' /\ settled' \subseteq Number
    BY <1>7 DEF IInv, TypeOK, Unmoved
  <1> QED BY <1>7, <1>8, <1>9, GoesOn

(* A step that writes one row, of the same identity if it is not new.       *)
LEMMA Writes ==
  ASSUME IInv, NEW w \in Workers, NEW j \in Job, job' = [job EXCEPT ![w] = j],
         NEW n \in Number, NEW row \in TaskRow, task' = [task EXCEPT ![n] = row], Unmoved,
         row.status # "none", row.status = "completed" => n \in settled,
         n \in Taken => row.ref = task[n].ref /\ row.tenant = task[n].tenant,
         CopyOK(j)', NewOK(w, j)
  PROVE  IInv'
PROOF
  <1> USE DEF IInv
  <1>1. task' \in [Number -> TaskRow] /\ task'[n] = row /\ \A k \in Number : k # n => task'[k] = task[k]
    BY DEF TypeOK
  <1>2. TypeOK'
    BY <1>1 DEF TypeOK, Unmoved
  <1>3. Taken' = Taken \cup {n} /\ settled' = settled
    BY <1>1 DEF Taken, Unmoved
  <1>4. \A k \in Taken : task'[k].ref = task[k].ref /\ task'[k].tenant = task[k].tenant
    BY <1>1 DEF Taken
  <1>5. job'[w] = j /\ \A v \in Workers : v # w => job'[v] = job[v]
    BY DEF TypeOK
  <1>6. ASSUME NEW v \in Workers PROVE CopyOK(job[v])' /\ NewOK(v, job[v])'
    <2>1. CASE v = w
      BY <1>5, <2>1 DEF CopyOK, NewOK
    <2>2. CASE v # w
      <3>1. CopyOK(job[v]) /\ NewOK(v, job[v]) /\ job'[v] = job[v]
        BY <1>5, <2>2 DEF JobsOK
      <3> QED BY <1>3, <1>4, <3>1 DEF CopyOK, NewOK
    <2> QED BY <2>1, <2>2
  <1>7. JobsOK'
    BY <1>6 DEF JobsOK
  <1>8. CompletedMoved'
    BY <1>1, <1>3 DEF CompletedMoved
  <1> QED BY <1>2, <1>7, <1>8

\* What a request holds.
LEMMA Held ==
  ASSUME IInv, NEW w \in Workers
  PROVE  /\ job[w] \in Job /\ CopyOK(job[w]) /\ NewOK(w, job[w])
         /\ job[w].n \in Number \cup {0} /\ job[w].row \in TaskRow /\ job[w].new \in TaskRow
         /\ job[w].todo \in SUBSET Calls /\ job[w].m \in Number \cup {0}
BY DEF IInv, JobsOK, TypeOK, Job

LEMMA CountStep ==
  ASSUME IInv, NEW w \in Workers, Count(w)
  PROVE  IInv'
PROOF
  <1>1. PICK m \in Number : m = NextNumber(w)
    BY DEF Count
  <1>2. Step("insert", job[w].n, job[w].row, job[w].new, m, job[w].todo) \in Job
    BY Held, StepType
  <1>3. PICK j \in Job : j = Step("insert", job[w].n, job[w].row, job[w].new, m, job[w].todo)
    BY <1>2
  <1>4. job' = [job EXCEPT ![w] = j] /\ UNCHANGED task /\ Unmoved
    BY <1>1, <1>3 DEF Count, Goes
  <1>5. CopyOK(j)' /\ NewOK(w, j)
    <2>1. CopyOK(job[w]) /\ NewOK(w, job[w]) /\ job[w].at = "count"
      BY Held DEF Count
    <2>2. j.n = job[w].n /\ j.row = job[w].row /\ j.at = "insert" /\ j.new = job[w].new /\ j.m = m
      BY <1>3, StepFields
    <2>3. Taken' = Taken
      BY <1>4 DEF Taken
    <2> QED BY <1>4, <2>1, <2>2, <2>3 DEF CopyOK, NewOK, Unmoved
  <1>6. UNCHANGED task /\ store' \in Nat /\ line' \in Int /\ settled \subseteq settled' /\ settled' \subseteq Number
    BY <1>4 DEF IInv, TypeOK, Unmoved
  <1> QED BY <1>4, <1>5, <1>6, GoesOn

LEMMA InsertStep ==
  ASSUME IInv, NEW w \in Workers, Insert(w)
  PROVE  IInv'
PROOF
  <1>1. PICK n \in Number, row \in TaskRow : n = job[w].m /\ row = job[w].new
    BY Held DEF Insert, NewOK
  <1>2. /\ task' = [task EXCEPT ![n] = row] /\ Unmoved /\ n \notin Taken
        /\ row.status = "pending"
    BY <1>1, Held DEF Insert, NewOK
  <1>3. task' \in [Number -> TaskRow] /\ Taken' = Taken \cup {n} /\ \A k \in Taken : task'[k] = task[k]
    BY <1>2 DEF IInv, TypeOK, Taken
  <1>4. CASE job[w].n = 0
    <2>1. job' = [job EXCEPT ![w] = Importing(job[w].todo)]
      BY <1>4 DEF Insert, Goes
    <2>2. PICK j \in Job : j = Importing(job[w].todo) /\ CopyOK(j)' /\ NewOK(w, j)
      <3>1. PICK todo \in SUBSET Calls : todo = job[w].todo
        BY Held
      <3> QED BY <3>1, ImportingOK
    <2> QED BY <1>2, <2>1, <2>2, Writes
  <1>5. CASE job[w].n # 0
    <2>1. PICK x \in Number : x = job[w].n
      BY <1>5, Held
    <2>2. PICK c \in TaskRow : /\ c = Cancelled(job[w].row) /\ c.status = "cancelled"
                               /\ c.ref = job[w].row.ref /\ c.tenant = job[w].row.tenant
      BY Held, StatusChange DEF Cancelled
    <2>3. On("save", x, c) \in Job
      BY Types, StepType DEF On
    <2>4. PICK j \in Job : j = On("save", x, c)
      BY <2>3
    <2>5. job' = [job EXCEPT ![w] = j]
      BY <1>5, <2>1, <2>2, <2>4 DEF Insert, Goes
    <2>6. x \in Taken /\ job[w].row.ref = task[x].ref /\ job[w].row.tenant = task[x].tenant
      BY <1>5, <2>1, Held DEF CopyOK
    <2>7. CopyOK(j)' /\ NewOK(w, j)
      BY <1>3, <2>2, <2>4, <2>6, StepFields DEF On, CopyOK, NewOK, Number
    <2> QED BY <1>2, <2>5, <2>7, Writes
  <1> QED BY <1>4, <1>5

LEMMA SaveStep ==
  ASSUME IInv, NEW w \in Workers, Save(w)
  PROVE  IInv'
PROOF
  <1>1. job[w].at = "save" /\ job[w].n # 0
    BY Held DEF Save, CopyOK
  <1>2. PICK n \in Number, row \in TaskRow : n = job[w].n /\ row = job[w].row
    BY <1>1, Held
  <1>3. /\ task' = [task EXCEPT ![n] = row] /\ Unmoved /\ job' = [job EXCEPT ![w] = Idle]
        /\ row.status # "none" /\ row.ref = task[n].ref /\ row.tenant = task[n].tenant
        /\ row.status = "completed" => n \in settled
    BY <1>1, <1>2, Held DEF Save, Goes, CopyOK
  <1> QED BY <1>3, Writes, Types, IdleOK

\* A request that ends, by an error or by a crash.
LEMMA EndSteps ==
  ASSUME IInv, NEW w \in Workers, Clash(w) \/ RefuseMove(w) \/ Crash(w)
  PROVE  IInv'
PROOF
  <1>1. PICK j \in {Idle, Crashed} : job' = [job EXCEPT ![w] = j]
    BY DEF Clash, RefuseMove, Crash, Goes
  <1>2. UNCHANGED task /\ store' \in Nat /\ line' \in Int /\ settled \subseteq settled' /\ settled' \subseteq Number
    BY DEF Clash, RefuseMove, Crash, Unmoved, IInv, TypeOK
  <1>3. CASE j = Idle
    BY <1>1, <1>2, <1>3, GoesOn, Types, IdleOK
  <1>4. CASE j = Crashed
    BY <1>1, <1>2, <1>4, GoesOn, Types, IdleOK
  <1> QED BY <1>3, <1>4

\* A completion or a delivery goes on to save its row as completed.
LEMMA ClosesStep ==
  ASSUME IInv, NEW w \in Workers, job[w].at \in {"complete", "deliver"},
         Goes(w, On("save", job[w].n, Completed(job[w].row))), UNCHANGED task,
         store' \in Nat, line' \in Int, settled' = settled \cup {job[w].n}
  PROVE  IInv'
PROOF
  <1>1. job[w].n # 0 /\ CopyOK(job[w])
    BY Held DEF CopyOK
  <1>2. PICK n \in Number : n = job[w].n
    BY <1>1, Held
  <1>3. PICK c \in TaskRow : /\ c = Completed(job[w].row) /\ c.status = "completed"
                             /\ c.ref = job[w].row.ref /\ c.tenant = job[w].row.tenant
    BY Held, StatusChange DEF Completed
  <1>4. On("save", n, c) \in Job
    BY Types, StepType DEF On
  <1>5. PICK j \in Job : j = On("save", n, c)
    BY <1>4
  <1>6. job' = [job EXCEPT ![w] = j]
    BY <1>2, <1>3, <1>5 DEF Goes
  <1>7. n \in Taken /\ c.ref = task[n].ref /\ c.tenant = task[n].tenant
    BY <1>1, <1>2, <1>3 DEF CopyOK
  <1>8. Taken' = Taken /\ n \in settled'
    BY <1>2 DEF Taken
  <1>9. CopyOK(j)' /\ NewOK(w, j)
    BY <1>3, <1>5, <1>7, <1>8, StepFields DEF On, CopyOK, NewOK, Number
  <1>10. settled \subseteq settled' /\ settled' \subseteq Number
    BY <1>2 DEF IInv, TypeOK
  <1> QED BY <1>6, <1>9, <1>10, GoesOn

LEMMA MoveSteps ==
  ASSUME IInv, NEW w \in Workers, Move(w) \/ DeliverNoted(w)
  PROVE  IInv'
PROOF
  <1>1. CASE DeliverNoted(w)
    <2>1. store' \in Nat /\ line' \in Int
      BY <1>1 DEF DeliverNoted, IInv, TypeOK
    <2> QED BY <1>1, <2>1, ClosesStep DEF DeliverNoted
  <1>2. CASE Move(w)
    <2>1. Quantity(job[w]) \in Int
      BY Held DEF Quantity, TaskRow
    <2>2. store' \in Nat /\ line' \in Int
      BY <1>2, <2>1 DEF Move, Enough, IInv, TypeOK
    <2>3. CASE job[w].at # "pick"
      BY <1>2, <2>2, <2>3, ClosesStep DEF Move
    <2>4. CASE job[w].at = "pick"
      <3>1. Step("count", job[w].n, job[w].row, job[w].new, 0, {}) \in Job
        BY Held, StepType
      <3>2. PICK j \in Job : j = Step("count", job[w].n, job[w].row, job[w].new, 0, {})
        BY <3>1
      <3>3. job' = [job EXCEPT ![w] = j] /\ UNCHANGED <<task, settled>>
        BY <1>2, <2>4, <3>2 DEF Move, Creates, Goes
      <3>4. CopyOK(job[w]) /\ NewOK(w, job[w]) /\ Taken' = Taken
        BY <3>3, Held DEF Taken
      <3>5. CopyOK(j)' /\ NewOK(w, j)
        BY <2>4, <3>2, <3>3, <3>4, StepFields DEF CopyOK, NewOK
      <3>6. settled \subseteq settled' /\ settled' \subseteq Number
        BY <3>3 DEF IInv, TypeOK
      <3> QED BY <2>2, <3>3, <3>5, <3>6, GoesOn
    <2> QED BY <2>3, <2>4
  <1> QED BY <1>1, <1>2

-----------------------------------------------------------------------------
LEMMA Initially == Init => IInv
PROOF
  <1> SUFFICES ASSUME Init PROVE IInv
    OBVIOUS
  <1>1. TypeOK
    BY Types, ConstantsAssumption DEF Init, TypeOK
  <1>2. JobsOK
    BY IdleOK DEF Init, JobsOK
  <1>3. CompletedMoved
    BY DEF Init, CompletedMoved, NoTask
  <1> QED BY <1>1, <1>2, <1>3 DEF IInv

LEMMA NextInv == IInv /\ [Next]_vars => IInv'
PROOF
  <1> SUFFICES ASSUME IInv, [Next]_vars PROVE IInv'
    OBVIOUS
  <1>1. CASE UNCHANGED vars
    BY <1>1 DEF vars, IInv, TypeOK, JobsOK, CopyOK, NewOK, Taken, CompletedMoved
  <1>2. ASSUME NEW w \in Workers, Request(w) PROVE IInv'
    BY <1>2, CreatingSteps, TaskSteps, ShortPickStep DEF Request
  <1>3. ASSUME NEW w \in Workers, Continue(w) PROVE IInv'
    BY <1>3, CreatingSteps, CountStep, InsertStep, SaveStep, EndSteps, MoveSteps DEF Continue
  <1> QED BY <1>1, <1>2, <1>3, EndSteps DEF Next

(* Every reachable state has typed rows, requests with true copies and      *)
(* completed tasks that moved.                                              *)
THEOREM IInvHolds == Spec => []IInv
PROOF
  <1> QED BY Initially, NextInv, PTL DEF Spec

(* The store never goes below zero and every row keeps its type, for any    *)
(* number of requests, of any quantities, that may stop between any two     *)
(* queries.                                                                 *)
THEOREM TypeCorrect == Spec => []TypeOK
PROOF
  <1>1. IInv => TypeOK
    BY DEF IInv
  <1> QED BY <1>1, IInvHolds, PTL

(* A task that says completed has moved its stock, or its note says why     *)
(* not, however many stale copies are saved.                                *)
THEOREM CompletedHaveMoved == Spec => []CompletedMoved
PROOF
  <1>1. IInv => CompletedMoved
    BY DEF IInv
  <1> QED BY <1>1, IInvHolds, PTL

-----------------------------------------------------------------------------
\* How the next step of a request follows from the one before.
Change(v, j) ==
  /\ j.todo # {} => job[v].todo # {} \/ v \in Importers
  /\ j.at \in {"count", "insert"} /\ j.new.ref # None =>
       \/ job[v].at \in {"count", "insert"} /\ j.new = job[v].new
       \/ job[v].todo # {} /\ Existing(v, j.new.ref) = {} /\ j.new.ref \in Calls
  /\ j.at = "insert" => (job[v].at = "insert" /\ j.m = job[v].m) \/ j.m = NextNumber(v)

LEMMA QuietChange ==
  ASSUME NEW v \in Workers, NEW j, j.todo = {}, j.at \notin {"count", "insert"}
  PROVE  Change(v, j)
BY DEF Change

LEMMA OnChange ==
  ASSUME NEW v \in Workers, NEW at, NEW n, NEW row, at \notin {"count", "insert"}
  PROVE  Change(v, On(at, n, row))
BY StepFields, QuietChange DEF On

LEMMA Changes ==
  ASSUME IInv, [Next]_vars, NEW v \in Workers
  PROVE  Change(v, job'[v])
PROOF
  <1>1. CASE job'[v] = job[v]
    BY <1>1 DEF Change
  <1>2. CASE job'[v] # job[v]
    <2>1. PICK w \in Workers : Request(w) \/ Continue(w) \/ Crash(w)
      BY <1>2 DEF Next, vars
    <2>2. \E j : job' = [job EXCEPT ![w] = j]
      BY <2>1 DEF Request, Continue, Crash, AskTask, Analyze, Import, Start, Cancel, Assign, GiveUp,
           Complete, Deliver, ShortPick, Count, Insert, Clash, ImportCall, Save, Move, RefuseMove,
           DeliverNoted, Creates, Saves, Goes
    <2>3. w = v /\ \A j : job' = [job EXCEPT ![w] = j] => job'[v] = j
      BY <1>2, <2>2 DEF IInv, TypeOK
    <2>4. \A j : Goes(w, j) => job'[v] = j
      BY <2>3 DEF Goes
    <2>5. CASE \E qty \in Quantities : AskTask(w, qty)
      <3>1. PICK qty \in Quantities : AskTask(w, qty)
        BY <2>5
      <3>2. job'[v] = Step("count", 0, NoTask, NewTask(w, qty, None), 0, {})
        BY <2>4, <3>1 DEF AskTask, Creates
      <3> QED BY <3>2, StepFields DEF Change, NewTask
    <2>6. CASE Analyze(w)
      <3>1. job'[v] = Step("count", 0, NoTask, NewTask(w, MaxStock - line, None), 0, {})
        BY <2>4, <2>6 DEF Analyze, Creates
      <3> QED BY <3>1, StepFields DEF Change, NewTask
    <2>7. CASE Import(w)
      <3>1. job'[v] = Importing(Calls) /\ v \in Importers
        BY <2>3, <2>4, <2>7 DEF Import
      <3> QED BY <3>1, ImportingOK DEF Change
    <2>8. ASSUME NEW n \in Number,
                 Start(w, n) \/ Cancel(w, n) \/ Assign(w, n) \/ GiveUp(w, n) \/ Complete(w, n) \/ Deliver(w, n)
          PROVE  Change(v, job'[v])
      <3>1. PICK at \in {"save", "complete", "deliver"} : \E row : job'[v] = On(at, n, row)
        BY <2>4, <2>8 DEF Start, Cancel, Assign, GiveUp, Complete, Deliver, Saves
      <3> QED BY <3>1, OnChange
    <2>9. ASSUME NEW n \in Number, NEW picked \in Picks, ShortPick(w, n, picked) PROVE Change(v, job'[v])
      <3>1. job'[v] = Step("pick", n, task[n], NewTask(w, task[n].qty - picked, None), 0, {})
        BY <2>4, <2>9 DEF ShortPick
      <3> QED BY <3>1, StepFields DEF Change
    <2>10. CASE Count(w)
      <3>1. job'[v] = Step("insert", job[v].n, job[v].row, job[v].new, NextNumber(v), job[v].todo) /\ job[v].at = "count"
        BY <2>3, <2>4, <2>10 DEF Count
      <3> QED BY <3>1, StepFields DEF Change
    <2>11. CASE Insert(w)
      <3>1. job'[v] = IF job[v].n # 0 THEN On("save", job[v].n, Cancelled(job[v].row)) ELSE Importing(job[v].todo)
        BY <2>3, <2>4, <2>11 DEF Insert
      <3>2. CASE job[v].n # 0
        BY <3>1, <3>2, OnChange
      <3>3. CASE job[v].n = 0
        <4>1. PICK todo \in SUBSET Calls : todo = job[v].todo
          BY Held
        <4>2. Importing(todo).at \in {"idle", "import"} /\ Importing(todo).todo \subseteq todo
          BY ImportingOK
        <4> QED BY <3>1, <3>3, <4>1, <4>2 DEF Change
      <3> QED BY <3>2, <3>3
    <2>12. CASE Clash(w) \/ RefuseMove(w) \/ Crash(w) \/ Save(w)
      <3>1. job'[v] \in {Idle, Crashed}
        BY <2>4, <2>12 DEF Clash, RefuseMove, Crash, Save
      <3> QED BY <3>1, OnChange DEF Idle, Crashed
    <2>13. ASSUME NEW c \in Calls, ImportCall(w, c) PROVE Change(v, job'[v])
      <3>1. PICK todo \in SUBSET Calls : todo = job[v].todo \ {c} /\ job[v].todo # {}
        BY <2>3, <2>13, Held DEF ImportCall
      <3>2. CASE Existing(w, c) # {}
        <4>1. job'[v] = Importing(todo)
          BY <2>3, <2>4, <2>13, <3>1, <3>2 DEF ImportCall
        <4>2. Importing(todo).at \in {"idle", "import"}
          BY ImportingOK
        <4> QED BY <3>1, <4>1, <4>2 DEF Change
      <3>3. CASE Existing(w, c) = {}
        <4>1. job'[v] = Step("count", 0, NoTask, NewTask(w, CallQty[c], c), 0, todo)
          BY <2>3, <2>4, <2>13, <3>1, <3>3 DEF ImportCall, Creates
        <4>2. NewTask(w, CallQty[c], c).ref = c
          BY DEF NewTask
        <4> QED BY <2>3, <3>1, <3>3, <4>1, <4>2, StepFields DEF Change
      <3> QED BY <3>2, <3>3
    <2>14. CASE Move(w)
      <3>1. CASE job[w].at = "pick"
        <4>1. job'[v] = Step("count", job[v].n, job[v].row, job[v].new, 0, {})
          BY <2>3, <2>4, <2>14, <3>1 DEF Move, Creates
        <4>2. job[v].new.ref = None
          BY <2>3, <3>1, Held DEF NewOK
        <4> QED BY <4>1, <4>2, StepFields DEF Change
      <3>2. CASE job[w].at # "pick"
        BY <2>3, <2>4, <2>14, <3>2, OnChange DEF Move
      <3> QED BY <3>1, <3>2
    <2>15. CASE DeliverNoted(w)
      BY <2>3, <2>4, <2>15, OnChange DEF DeliverNoted
    <2> QED
      BY <2>1, <2>5, <2>6, <2>7, <2>8, <2>9, <2>10, <2>11, <2>12, <2>13, <2>14, <2>15 DEF Request, Continue
  <1> QED BY <1>1, <1>2

\* What a step does to the rows.
LEMMA Rows ==
  ASSUME IInv, [Next]_vars
  PROVE  \/ UNCHANGED task
         \/ \E w \in Workers : Insert(w) \/ Save(w)
BY DEF Next, Request, Continue, Crash, AskTask, Analyze, Import, Start, Cancel, Assign, GiveUp,
       Complete, Deliver, ShortPick, Count, Clash, ImportCall, Move, RefuseMove, DeliverNoted,
       Saves, vars

LEMMA Inserted ==
  ASSUME IInv, NEW w \in Workers, Insert(w)
  PROVE  /\ job[w].m \in Number /\ job[w].m \notin Taken /\ Taken' = Taken \cup {job[w].m}
         /\ task'[job[w].m] = job[w].new /\ job[w].new.tenant = TenantOf[w]
         /\ \A n \in Taken : task'[n] = task[n]
         /\ job[w].at = "insert"
PROOF
  <1>1. job[w].m \in Number /\ job[w].new.status = "pending" /\ job[w].new.tenant = TenantOf[w]
    BY Held DEF Insert, NewOK
  <1> QED BY <1>1 DEF Insert, IInv, TypeOK, Taken

LEMMA Saved ==
  ASSUME IInv, NEW w \in Workers, Save(w)
  PROVE  /\ Taken' = Taken
         /\ \A n \in Taken : task'[n].ref = task[n].ref /\ task'[n].tenant = task[n].tenant
PROOF
  <1>1. job[w].n # 0 /\ CopyOK(job[w])
    BY Held DEF Save, CopyOK
  <1> QED BY <1>1 DEF Save, CopyOK, IInv, TypeOK, Taken

-----------------------------------------------------------------------------
(* The numbers of one tenant                                                *)

\* The numbers have no gap, and what is about to be inserted leaves none.
Dense(k) == Taken = 1..k /\ \A w \in Workers : job[w].at = "insert" => job[w].m <= k + 1
AllOwn == \A n \in Taken, w \in Workers : task[n].tenant = TenantOf[w]
NumberInv == (\E k \in Nat : Dense(k)) /\ AllOwn

LEMMA Counted ==
  ASSUME NEW k \in Nat, Taken = 1..k, AllOwn, NEW w \in Workers
  PROVE  /\ NextNumber(w) = k + 1
         /\ Cardinality({n \in Taken : task[n].tenant = TenantOf[w]}) + 1 \notin Taken
PROOF
  <1>1. {n \in Taken : task[n].tenant = TenantOf[w]} = 1..k /\ Own(w) = 1..k
    BY DEF AllOwn, Own
  <1>2. Cardinality(1..k) = k
    BY FS_Interval
  <1>3. NextNumber(w) = k + 1
    BY <1>1, <1>2 DEF NextNumber
  <1>4. Cardinality({n \in Taken : task[n].tenant = TenantOf[w]}) = k
    BY <1>1, <1>2, Zenon
  <1>5. k + 1 \notin Taken
    OBVIOUS
  <1> QED BY <1>3, <1>4, <1>5

LEMMA NumberStep ==
  ASSUME IInv, [Next]_vars, NumberInv, \A v, w \in Workers : TenantOf[v] = TenantOf[w]
  PROVE  NumberInv'
PROOF
  <1>1. PICK k \in Nat : Dense(k)
    BY DEF NumberInv
  <1>2. \A v \in Workers : job'[v].at = "insert" => job'[v].m <= k + 1
    <2> SUFFICES ASSUME NEW v \in Workers, job'[v].at = "insert" PROVE job'[v].m <= k + 1
      OBVIOUS
    <2>1. NextNumber(v) = k + 1
      BY <1>1, Counted DEF NumberInv, Dense
    <2> QED BY <1>1, <2>1, Changes DEF Change, Dense
  <1>3. CASE UNCHANGED task \/ \E w \in Workers : Save(w)
    <2>1. Taken' = Taken /\ \A n \in Taken : task'[n].tenant = task[n].tenant
      BY <1>3, Saved DEF Taken
    <2> QED BY <1>1, <1>2, <2>1 DEF NumberInv, AllOwn, Dense
  <1>4. CASE \E w \in Workers : Insert(w)
    <2>1. PICK w \in Workers : Insert(w)
      BY <1>4
    <2>2. PICK m \in Nat : m = job[w].m /\ m >= 1
      BY <2>1, Inserted DEF Number
    <2>3. m <= k + 1 /\ m \notin 1..k /\ Taken' = (1..k) \cup {m}
      BY <1>1, <2>1, <2>2, Inserted DEF Dense
    <2>4. m = k + 1
      BY <2>2, <2>3
    <2>5. Taken' = 1..(k + 1)
      BY <2>3, <2>4
    <2>6. \A v \in Workers : job'[v].at = "insert" => job'[v].m <= (k + 1) + 1
      <3> SUFFICES ASSUME NEW v \in Workers, job'[v].at = "insert" PROVE job'[v].m <= (k + 1) + 1
        OBVIOUS
      <3>1. job'[v].m \in Nat
        <4>1. IInv'
          BY NextInv
        <4> QED BY <4>1 DEF IInv, TypeOK, Job, Number
      <3> QED BY <1>2, <3>1
    <2>7. AllOwn'
      <3>1. \A n \in Taken' : task'[n].tenant = TenantOf[w]
        BY <2>1, Inserted DEF NumberInv, AllOwn
      <3> QED BY <3>1 DEF AllOwn
    <2>8. k + 1 \in Nat
      OBVIOUS
    <2> QED BY <2>5, <2>6, <2>7, <2>8 DEF NumberInv, Dense
  <1> QED BY <1>3, <1>4, Rows

(* With one tenant the next number is always free: a request that creates a *)
(* task and meets no other is never refused, for any number of requests     *)
(* that race, clash or stop before.                                         *)
THEOREM NumbersFree ==
  ASSUME \A v, w \in Workers : TenantOf[v] = TenantOf[w]
  PROVE  Spec => []NextNumberFree
PROOF
  <1>1. Init => NumberInv
    <2> SUFFICES ASSUME Init PROVE NumberInv
      OBVIOUS
    <2>1. Taken = 1..0 /\ \A w \in Workers : job[w].at # "insert"
      BY Types DEF Init, Taken, NoTask
    <2>2. Dense(0)
      BY <2>1 DEF Dense
    <2> QED BY <2>1, <2>2 DEF NumberInv, AllOwn
  <1>2. IInv /\ NumberInv /\ [Next]_vars => NumberInv'
    BY NumberStep
  <1>3. NumberInv => NextNumberFree
    BY Counted DEF NumberInv, Dense, NextNumberFree
  <1> QED BY <1>1, <1>2, <1>3, IInvHolds, PTL DEF Spec

-----------------------------------------------------------------------------
(* The pulls of the replenishment calls                                     *)

\* A call has one pull of the tenant of its importer, and whoever is creating
\* one found none.
RefInv ==
  /\ \A m, n \in Taken : task[m].ref # None /\ task[m].ref = task[n].ref => m = n
  /\ \A n \in Taken : task[n].ref # None => \E w \in Importers : task[n].tenant = TenantOf[w]
  /\ \A w \in Workers : job[w].todo # {} => w \in Importers
  /\ \A w \in Workers : job[w].at \in {"count", "insert"} /\ job[w].new.ref # None =>
        w \in Importers /\ \A n \in Taken : task[n].ref # job[w].new.ref

LEMMA PendingPulls ==
  ASSUME IInv, [Next]_vars, RefInv, \A v, w \in Importers : v = w, NEW v \in Workers,
         job'[v].at \in {"count", "insert"}, job'[v].new.ref # None
  PROVE  v \in Importers /\ \A n \in Taken : task[n].ref # job'[v].new.ref
PROOF
  <1>1. CASE job[v].at \in {"count", "insert"} /\ job'[v].new = job[v].new
    BY <1>1 DEF RefInv
  <1>2. CASE job[v].todo # {} /\ Existing(v, job'[v].new.ref) = {}
    <2>1. v \in Importers
      BY <1>2 DEF RefInv
    <2>2. \A n \in Taken : task[n].ref # None => n \in Own(v)
      BY <2>1 DEF RefInv, Own
    <2> QED BY <1>2, <2>1, <2>2 DEF Existing
  <1> QED BY <1>1, <1>2, Changes DEF Change

LEMMA RefStep ==
  ASSUME IInv, [Next]_vars, RefInv, \A v, w \in Importers : v = w
  PROVE  RefInv'
PROOF
  <1>1. \A v \in Workers : job'[v].todo # {} => v \in Importers
    BY Changes DEF Change, RefInv
  <1>2. CASE UNCHANGED task \/ \E w \in Workers : Save(w)
    <2>1. Taken' = Taken /\ \A n \in Taken : task'[n].tenant = task[n].tenant /\ task'[n].ref = task[n].ref
      BY <1>2, Saved DEF Taken
    <2>2. \A v \in Workers : job'[v].at \in {"count", "insert"} /\ job'[v].new.ref # None =>
            v \in Importers /\ \A n \in Taken' : task'[n].ref # job'[v].new.ref
      BY <2>1, PendingPulls
    <2> QED BY <1>1, <2>1, <2>2 DEF RefInv
  <1>3. CASE \E w \in Workers : Insert(w)
    <2>1. PICK w \in Workers : Insert(w)
      BY <1>3
    <2>2. PICK m \in Number : m = job[w].m
      BY <2>1, Inserted
    <2>3. /\ m \notin Taken /\ Taken' = Taken \cup {m} /\ job[w].at = "insert"
          /\ task'[m] = job[w].new /\ task'[m].tenant = TenantOf[w]
          /\ \A n \in Taken : task'[n] = task[n]
      BY <2>1, <2>2, Inserted
    <2>4. task'[m].ref # None => w \in Importers /\ \A n \in Taken : task[n].ref # task'[m].ref
      BY <2>3 DEF RefInv
    <2>5. \A v \in Workers : job'[v].at \in {"count", "insert"} /\ job'[v].new.ref # None =>
            v \in Importers /\ \A n \in Taken' : task'[n].ref # job'[v].new.ref
      <3> SUFFICES ASSUME NEW v \in Workers, job'[v].at \in {"count", "insert"}, job'[v].new.ref # None
                   PROVE  v \in Importers /\ \A n \in Taken' : task'[n].ref # job'[v].new.ref
        OBVIOUS
      <3>1. v \in Importers /\ \A n \in Taken : task[n].ref # job'[v].new.ref
        BY PendingPulls
      <3>2. task'[m].ref # job'[v].new.ref
        <4>1. CASE task'[m].ref = None
          BY <4>1
        <4>2. CASE task'[m].ref # None
          <5>1. v = w
            BY <2>4, <3>1, <4>2
          <5>2. job'[w].at \notin {"count", "insert"}
            <6>1. CASE job[w].n # 0
              <7>1. job'[w] = On("save", job[w].n, Cancelled(job[w].row))
                BY <2>1, <6>1 DEF Insert, Goes, IInv, TypeOK
              <7> QED BY <7>1, StepFields DEF On
            <6>2. CASE job[w].n = 0
              <7>1. job'[w] = Importing(job[w].todo)
                BY <2>1, <6>2 DEF Insert, Goes, IInv, TypeOK
              <7>2. Importing(job[w].todo).at \in {"idle", "import"}
                BY Held, ImportingOK
              <7> QED BY <7>1, <7>2
            <6> QED BY <6>1, <6>2
          <5> QED BY <5>1, <5>2
        <4> QED BY <4>1, <4>2
      <3> QED BY <2>3, <3>1, <3>2
    <2>6. \A x, n \in Taken' : task'[x].ref # None /\ task'[x].ref = task'[n].ref => x = n
      BY <2>3, <2>4 DEF RefInv
    <2>7. \A n \in Taken' : task'[n].ref # None => \E v \in Importers : task'[n].tenant = TenantOf[v]
      BY <2>3, <2>4 DEF RefInv
    <2> QED BY <1>1, <2>5, <2>6, <2>7 DEF RefInv
  <1> QED BY <1>2, <1>3, Rows

(* With one importer at a time, however often it is repeated and wherever   *)
(* it breaks off, no call gets a second pull.                               *)
THEOREM CallsImportedOnce ==
  ASSUME \A v, w \in Importers : v = w
  PROVE  Spec => []ImportedOnce
PROOF
  <1>1. Init => RefInv
    BY Types DEF Init, RefInv, Taken, NoTask, Idle, On, Step
  <1>2. IInv /\ RefInv /\ [Next]_vars => RefInv'
    BY RefStep
  <1>3. RefInv => ImportedOnce
    <2> SUFFICES ASSUME RefInv, NEW c \in Calls PROVE Cardinality({n \in Taken : task[n].ref = c}) <= 1
      BY DEF ImportedOnce
    <2> DEFINE P == {n \in Taken : task[n].ref = c}
    <2>1. \A m, n \in P : m = n
      BY ConstantsAssumption DEF RefInv
    <2>2. CASE P = {}
      <3>1. Cardinality(P) = 0
        BY <2>2, FS_EmptySet
      <3> QED BY <3>1
    <2>3. CASE P # {}
      <3>1. PICK x : P = {x}
        BY <2>1, <2>3
      <3>2. Cardinality({x}) = 1
        BY FS_Singleton
      <3> QED BY <3>1, <3>2
    <2> QED BY <2>2, <2>3
  <1> QED BY <1>1, <1>2, <1>3, IInvHolds, PTL DEF Spec
=============================================================================
