--------------------------- MODULE MapReduceProofs ---------------------------
(***************************************************************************)
(* The coordinator and its workers, for every number of workers, files and *)
(* partitions: no task is lost, and without a timeout and without a failed *)
(* file operation no task is ever in two hands, which makes the outputs    *)
(* exact and the return without Unlock in GetOneTask unreachable.          *)
(***************************************************************************)
EXTENDS MapReduce, FiniteSetTheorems, TLAPS

Active == {"reading", "creating", "writing", "output", "failed", "reporting"}
Registered == {w \in Worker : id[w] # 0}

\* A task names an input file or a partition, as its phase says.
Proper(tk) == tk \in Task /\ tk.seq \in Tasks(tk.phase)

\* Ids are given out once each.
IdTypes ==
    /\ workerSeq = Cardinality(Registered)
    /\ id \in [Worker -> 0 .. workerSeq]
    /\ \A w \in Worker :
         /\ at[w] = "starting" => id[w] = 0
         /\ at[w] \in Active \cup {"asking", "assigning"} => id[w] # 0
    /\ \A v, w \in Worker : id[v] = id[w] /\ id[v] # 0 => v = w

TableTypes ==
    /\ taskPhase \in Phase /\ done \in BOOLEAN
    /\ taskStates \in [Tasks(taskPhase) -> [status : Status, worker : 0 .. workerSeq]]
QueueTypes ==
    /\ taskChan \in Seq(Task) /\ Len(taskChan) <= ChanSize
    /\ \A i \in 1 .. Len(taskChan) : Proper(taskChan[i])
ScanTypes ==
    /\ muLock \in {"free", "scan", "leaked"}
    /\ scan \in [next : 0 .. ChanSize, allDone : BOOLEAN, late : BOOLEAN]

\* Where a worker is says which phase its task is of, and how far it got.
PlaceOf(place, tk, s, resume) ==
    /\ Proper(tk)
    /\ place = "reading" => IF tk.phase = "map" THEN s = 0 ELSE s \in Maps
    /\ place \in {"creating", "writing"} => tk.phase = "map" /\ s \in Parts
    /\ place \in {"output", "failed"} => tk.phase = "reduce"
    /\ place = "reporting" /\ resume = "writing" => tk.phase = "map" /\ s \in Parts
    /\ place = "reporting" /\ resume = "failed" => tk.phase = "reduce"
WorkerAt(w) == PlaceOf(at[w], task[w], step[w], report[w].resume)
WorkerTypes ==
    /\ at \in [Worker -> Place]
    /\ task \in [Worker -> Task] /\ step \in [Worker -> 0 .. ChanSize]
    /\ sound \in [Worker -> BOOLEAN]
    /\ report \in [Worker -> [done : BOOLEAN, resume : {"asking", "writing", "failed"}]]
    /\ \A w \in Worker : WorkerAt(w)
FaultTypes ==
    /\ dead \subseteq Crashable /\ early \in 0 .. MaxEarly /\ errors \in 0 .. MaxErrors
    /\ expired \in BOOLEAN
FileTypes ==
    /\ kvFile \in [Maps -> [Parts -> [by : Worker \cup {Nobody}, whole : BOOLEAN]]]
    /\ outFile \in [Parts -> {"none", "short", "exact"}]
TypeInv ==
    /\ IdTypes /\ TableTypes /\ QueueTypes /\ ScanTypes /\ WorkerTypes
    /\ FaultTypes /\ FileTypes

\* A task that runs was given to a registered worker.
RunsRegistered ==
    \A t \in Tasks(taskPhase) :
       taskStates[t].status = "Running" =>
         taskStates[t].worker # 0 /\ \E w \in Worker : id[w] = taskStates[t].worker
ReadyIsQueued ==
    \A t \in Tasks(taskPhase) : taskStates[t].status = "Ready" => Queued(t)

\* What a scan has found so far.
ScanFound ==
    /\ muLock = "scan" /\ scan.allDone =>
         \A t \in Tasks(taskPhase) : t < scan.next => taskStates[t].status = "Terminated"
    /\ done => muLock # "scan" /\ taskPhase = "reduce"
LateIsExpired == scan.late => expired

-----------------------------------------------------------------------------
(* What holds as long as nothing goes wrong: every task is in one place.   *)

Is(tk, status) == tk.phase = taskPhase /\ taskStates[tk.seq].status = status
Finished(t) == taskStates[t].status = "Terminated"
NoneFailed ==
    /\ \A t \in Tasks(taskPhase) : taskStates[t].status # "Error"
    /\ done => \A t \in Tasks(taskPhase) : Finished(t)
QueuedOnce ==
    \A i \in 1 .. Len(taskChan) :
      /\ Is(taskChan[i], "Ready")
      /\ \A j \in 1 .. Len(taskChan) : taskChan[i].seq = taskChan[j].seq => i = j
TakenOnce ==
    \A w \in Worker : at[w] = "assigning" =>
      /\ Is(task[w], "Ready")
      /\ \A i \in 1 .. Len(taskChan) : taskChan[i].seq # task[w].seq
      /\ \A v \in Worker : at[v] = "assigning" /\ task[v].seq = task[w].seq => v = w
RunOnce ==
    \A w \in Worker : at[w] \in Active =>
      /\ Is(task[w], "Running") /\ taskStates[task[w].seq].worker = id[w]
      /\ at[w] # "failed"
      /\ at[w] = "reporting" => report[w] = [done |-> TRUE, resume |-> "asking"]

Complete(m, r) == kvFile[m][r].by # Nobody /\ kvFile[m][r].whole
MapsWritten ==
    /\ \A m \in Maps : taskPhase = "reduce" \/ Finished(m) =>
         \A r \in Parts : Complete(m, r)
    /\ \A w \in Worker : at[w] \in Active /\ task[w].phase = "map" =>
         /\ sound[w]
         /\ \A r \in Parts : r < step[w] \/ at[w] = "reporting" => Complete(task[w].seq, r)
         /\ at[w] = "writing" => kvFile[task[w].seq][step[w]].by = w
OutputsWritten ==
    /\ \A r \in Parts : outFile[r] # "short"
    /\ taskPhase = "reduce" => \A r \in Parts : Finished(r) => outFile[r] = "exact"
    /\ \A w \in Worker : at[w] \in Active /\ task[w].phase = "reduce" =>
         sound[w] /\ (at[w] = "reporting" => outFile[task[w].seq] = "exact")

InOnePlace ==
    /\ muLock # "leaked" /\ NoneFailed
    /\ QueuedOnce /\ TakenOnce /\ RunOnce
FilesExact == MapsWritten /\ OutputsWritten

MapReduceInv ==
    /\ TypeInv /\ RunsRegistered /\ ReadyIsQueued /\ ScanFound /\ LateIsExpired
    /\ Undisturbed => InOnePlace /\ FilesExact

-----------------------------------------------------------------------------
(* Types *)

USE DEF queueVars, workVars, fileVars, faultVars

LEMMA ConstantFacts ==
    /\ NMap \in Nat /\ NMap > 0 /\ NReduce \in Nat /\ NReduce > 0
    /\ ChanSize \in Nat /\ NMap <= ChanSize /\ NReduce <= ChanSize
    /\ MaxEarly \in Nat /\ MaxErrors \in Nat /\ IsFiniteSet(Worker)
    /\ 0 \in Maps /\ 0 \in Parts /\ Maps \subseteq 0 .. ChanSize /\ Parts \subseteq 0 .. ChanSize
    /\ \A phase \in Phase : Tasks(phase) \subseteq 0 .. ChanSize - 1 /\ Tasks(phase) \subseteq Maps \cup Parts
    /\ Tasks("map") = Maps /\ Tasks("reduce") = Parts
  BY MapReduceAssumption DEF ChanSize, Maps, Parts, Tasks, Phase

LEMMA TypesInit == Init => TypeInv
<1> SUFFICES ASSUME Init PROVE TypeInv
  OBVIOUS
<1> USE ConstantFacts
<1>1. IdTypes
  <2>1. Registered = {}
    BY DEF Registered, Init
  <2>2. workerSeq = Cardinality(Registered)
    BY <2>1, FS_EmptySet DEF Init
  <2> QED
    BY <2>2 DEF IdTypes, Init, Active
<1>2. TableTypes
  <2>1. taskPhase = "map" /\ done = FALSE /\ workerSeq = 0
    BY DEF Init
  <2>2. taskStates = [t \in Maps |-> [status |-> "New", worker |-> 0]]
    BY DEF Init, NewTable
  <2>3. [status |-> "New", worker |-> 0] \in [status : Status, worker : 0 .. workerSeq]
    BY <2>1 DEF Status
  <2>4. Tasks(taskPhase) = Maps
    BY <2>1
  <2> QED
    BY <2>1, <2>2, <2>3, <2>4 DEF TableTypes, Phase
<1>3. QueueTypes /\ ScanTypes /\ FaultTypes
  BY DEF Init, NewScan, QueueTypes, ScanTypes, FaultTypes
<1>6. FileTypes
  <2>1. [by |-> Nobody, whole |-> FALSE] \in [by : Worker \cup {Nobody}, whole : BOOLEAN]
    OBVIOUS
  <2>2. kvFile = [m \in Maps |-> [r \in Parts |-> [by |-> Nobody, whole |-> FALSE]]]
    BY DEF Init
  <2>3. outFile \in [Parts -> {"none", "short", "exact"}]
    BY DEF Init
  <2> HIDE DEF Maps, Parts
  <2>4. kvFile \in [Maps -> [Parts -> [by : Worker \cup {Nobody}, whole : BOOLEAN]]]
    BY <2>1, <2>2, Zenon
  <2> QED
    BY <2>3, <2>4 DEF FileTypes
<1>4. NoTask \in Task /\ NoTask.phase = "map" /\ NoTask.seq = 0
  BY DEF NoTask, Task, Phase
<1>5. WorkerTypes
  BY <1>4 DEF Init, WorkerTypes, WorkerAt, PlaceOf, Proper, NoReport, Place
<1> QED
  BY <1>1, <1>2, <1>3, <1>5, <1>6 DEF TypeInv

\* A worker at work stays at work, under the id it has.
LEMMA WorkPlace ==
    ASSUME NEW w \in Worker, Work(w)
    PROVE  /\ UNCHANGED <<id, workerSeq>> /\ at[w] \in Active
           /\ \E place \in Active : at' = [at EXCEPT ![w] = place]
<1> DEFINE Goes(place) == at' = [at EXCEPT ![w] = place]
<1>1. ASSUME \E ok, resume : Reports(w, ok, resume)
      PROVE  Goes("reporting")
  BY <1>1 DEF Reports
<1>2. CASE ReadInput(w)
  BY <1>1, <1>2 DEF ReadInput, Works, GivesUp, Active
<1>3. CASE CreateFile(w)
  BY <1>1, <1>3 DEF CreateFile, Works, GivesUp, Active
<1>4. CASE WriteFile(w)
  <2>1. UNCHANGED <<id, workerSeq>> /\ at[w] = "writing"
    BY <1>4 DEF WriteFile, Works
  <2>2. Goes("creating") \/ Goes("reporting")
    BY <1>1, <1>4 DEF WriteFile
  <2> QED
    BY <2>1, <2>2 DEF Active
<1>5. CASE WriteFails(w)
  BY <1>1, <1>5 DEF WriteFails, Works, Active
<1>6. CASE ReadPart(w)
  <2>1. UNCHANGED <<id, workerSeq>> /\ at[w] = "reading"
    BY <1>6 DEF ReadPart, Works
  <2>2. \/ Goes("reporting")
        \/ Goes(IF step[w] + 1 \in Maps THEN "reading" ELSE "output")
    BY <1>1, <1>6 DEF ReadPart
  <2>3. Goes("reporting") \/ Goes("reading") \/ Goes("output")
    BY <2>2
  <2> QED
    BY <2>1, <2>3 DEF Active
<1>7. CASE WriteOutput(w)
  <2>1. UNCHANGED <<id, workerSeq>> /\ at[w] = "output"
    BY <1>7 DEF WriteOutput, Works
  <2>2. Goes("reporting")
    BY <1>1, <1>7 DEF WriteOutput
  <2> QED
    BY <2>1, <2>2 DEF Active
<1>8. CASE ReportAnyway(w)
  BY <1>1, <1>8 DEF ReportAnyway, Works, Active
<1> QED
  BY <1>2, <1>3, <1>4, <1>5, <1>6, <1>7, <1>8 DEF Work

\* What a worker's place must have for its id.
LEMMA IdStep == ASSUME TypeInv, [Next]_vars PROVE IdTypes'
<1> USE ConstantFacts DEF TypeInv, IdTypes, WorkerTypes, Active
<1>1. ASSUME NEW w \in Worker, RegWorker(w) PROVE IdTypes'
  <2> USE <1>1
  <2>1. id[w] = 0 /\ workerSeq' = workerSeq + 1 /\ id' = [id EXCEPT ![w] = workerSeq + 1]
    BY DEF RegWorker
  <2>2. w \notin Registered /\ Registered \subseteq Worker
    BY <2>1 DEF Registered
  <2>3. IsFiniteSet(Registered)
    BY <2>2, FS_Subset
  <2>4. workerSeq \in Nat
    BY <2>3, FS_CardinalityType
  <2>5. Registered' = Registered \cup {w}
    <3>1. \A v \in Worker : id'[v] = IF v = w THEN workerSeq + 1 ELSE id[v]
      BY <2>1
    <3>2. \A v \in Worker : id'[v] # 0 <=> v = w \/ id[v] # 0
      BY <2>4, <3>1
    <3> QED
      BY ONLY <3>2, w \in Worker DEF Registered
  <2>6. workerSeq' = Cardinality(Registered')
    BY <2>1, <2>2, <2>3, <2>5, FS_AddElement
  <2>7. id' \in [Worker -> 0 .. workerSeq']
    BY <2>1, <2>4
  <2>8. \A u, v \in Worker : (id[u] = id[v] /\ id[u] # 0 => u = v)'
    BY <2>1, <2>4
  <2>9. \A v \in Worker : at'[v] = IF v = w THEN at'[w] ELSE at[v]
    BY DEF RegWorker, GoesOn
  <2>10. at'[w] # "starting"
    BY DEF RegWorker, GoesOn
  <2> QED
    BY <2>1, <2>4, <2>6, <2>7, <2>8, <2>9, <2>10
<1>2. ASSUME UNCHANGED <<id, workerSeq>>,
             \A w \in Worker : at'[w] # at[w] =>
               at'[w] = "gone" \/ (at'[w] # "starting" /\ at[w] \in Active \cup {"asking", "assigning"})
      PROVE  IdTypes'
  BY <1>2 DEF Registered
<1>3. CASE Scan
  BY <1>2, <1>3 DEF Scan, BeginScan, QueueTask, Requeue, Expire, SkipTask, EndScan
<1>4. ASSUME NEW w \in Worker, ReceiveTask(w) \/ RefuseTask(w) \/ AssignTask(w) PROVE IdTypes'
  BY <1>2, <1>4 DEF ReceiveTask, RefuseTask, AssignTask, GoesOn
<1>5. ASSUME NEW w \in Worker, ReportTask(w) PROVE IdTypes'
  BY <1>2, <1>5 DEF ReportTask, GoesOn
<1>6. ASSUME NEW w \in Worker, Work(w) PROVE IdTypes'
  <2>1. /\ UNCHANGED <<id, workerSeq>> /\ at[w] \in Active
        /\ \E place \in Active : at' = [at EXCEPT ![w] = place]
    BY <1>6, WorkPlace
  <2>2. \A v \in Worker : at'[v] # at[v] => v = w /\ at'[v] # "starting"
    BY <2>1
  <2> QED
    BY <1>2, <2>1, <2>2
<1>7. ASSUME NEW w \in Worker, Crash(w) PROVE IdTypes'
  BY <1>2, <1>7 DEF Crash
<1>8. CASE UNCHANGED vars
  BY <1>2, <1>8 DEF vars
<1> QED
  BY <1>1, <1>3, <1>4, <1>5, <1>6, <1>7, <1>8 DEF Next, Call

LEMMA ScanNext ==
    ASSUME TypeInv, Scanning
    PROVE  /\ scan.next \in Tasks(taskPhase) /\ scan.next + 1 \in 0 .. ChanSize
           /\ NewOneTask(scan.next) \in Task /\ Proper(NewOneTask(scan.next))
           /\ NewOneTask(scan.next).phase = taskPhase /\ NewOneTask(scan.next).seq = scan.next
<1>1. scan.next \in Tasks(taskPhase) /\ taskPhase \in Phase
  BY DEF TypeInv, TableTypes, Scanning
<1>2. scan.next \in Maps \cup Parts /\ scan.next + 1 \in 0 .. ChanSize
  BY <1>1, ConstantFacts
<1> QED
  BY <1>1, <1>2 DEF NewOneTask, Proper, Task

LEMMA QueueStep == ASSUME TypeInv, [Next]_vars PROVE QueueTypes'
<1> USE DEF TypeInv, QueueTypes
<1>1. ASSUME Scanning, Requeue PROVE QueueTypes'
  <2> DEFINE tk == NewOneTask(scan.next)
  <2>1. tk \in Task /\ Proper(tk)
    BY <1>1, ScanNext
  <2>2. taskChan' = Append(taskChan, tk) /\ Len(taskChan) < ChanSize
    BY <1>1 DEF Requeue
  <2> HIDE DEF tk
  <2> QED
    BY <2>1, <2>2, ConstantFacts DEF Proper, Tasks, Maps, Parts
<1>2. ASSUME NEW w \in Worker, ReceiveTask(w) PROVE QueueTypes'
  <2>1. taskChan # <<>> /\ taskChan' = Tail(taskChan)
    BY <1>2 DEF ReceiveTask
  <2>2. Len(taskChan') = Len(taskChan) - 1 /\ taskChan' \in Seq(Task)
    BY <2>1
  <2>3. \A i \in 1 .. Len(taskChan') : taskChan'[i] = taskChan[i + 1] /\ i + 1 \in 1 .. Len(taskChan)
    BY <2>1, <2>2
  <2> QED
    BY <2>2, <2>3, ConstantFacts DEF Proper, Tasks, Maps, Parts
<1>3. ASSUME UNCHANGED taskChan PROVE QueueTypes'
  BY <1>3 DEF Proper, Tasks, Maps, Parts
<1>4. CASE QueueTask
  BY <1>1, <1>4 DEF QueueTask
<1>5. CASE BeginScan \/ Expire \/ SkipTask \/ EndScan
  BY <1>3, <1>5 DEF BeginScan, Expire, SkipTask, EndScan
<1>6. ASSUME NEW w \in Worker, Call(w) PROVE QueueTypes'
  BY <1>3, <1>6 DEF Call, RegWorker, RefuseTask, AssignTask, ReportTask
<1>7. ASSUME NEW w \in Worker, Work(w) \/ Crash(w) PROVE QueueTypes'
  BY <1>3, <1>7 DEF Work, ReadInput, CreateFile, WriteFile, WriteFails, ReadPart, WriteOutput,
     ReportAnyway, GivesUp, Crash
<1>8. CASE UNCHANGED vars
  BY <1>3, <1>8 DEF vars
<1> QED
  BY <1>2, <1>4, <1>5, <1>6, <1>7, <1>8 DEF Next, Scan

LEMMA ScanStep == ASSUME TypeInv, [Next]_vars PROVE ScanTypes'
<1> USE ConstantFacts DEF ScanTypes
<1>1. ScanTypes
  BY DEF TypeInv
<1>2. ASSUME UNCHANGED <<muLock, scan>> PROVE ScanTypes'
  BY <1>1, <1>2
<1>3. ASSUME Scanning, ScanOn(FALSE), UNCHANGED muLock PROVE ScanTypes'
  BY <1>1, <1>3, ScanNext DEF ScanOn
<1>4. CASE QueueTask
  BY <1>3, <1>4 DEF QueueTask, Requeue
<1>10. CASE Expire
  BY <1>1, <1>10 DEF Expire
<1>5. CASE SkipTask
  <2>1. Scanning /\ muLock' = muLock
    BY <1>5 DEF SkipTask
  <2> DEFINE all == scan.allDone /\ ~KeepsOpen(Scanned)
  <2>2. all \in BOOLEAN
    BY <1>1
  <2>3. scan' = [next |-> scan.next + 1, allDone |-> all, late |-> FALSE]
    BY <1>5 DEF SkipTask, ScanOn
  <2> HIDE DEF all
  <2> QED
    BY <1>1, <2>1, <2>2, <2>3, ScanNext
<1>6. CASE BeginScan \/ EndScan
  <2>1. muLock' \in {"scan", "free"} /\ scan' = NewScan
    BY <1>6 DEF BeginScan, EndScan
  <2>2. NewScan \in [next : 0 .. ChanSize, allDone : BOOLEAN, late : BOOLEAN]
    BY DEF NewScan
  <2> QED
    BY <2>1, <2>2
<1>7. ASSUME NEW w \in Worker, ReceiveTask(w) \/ Call(w) PROVE ScanTypes'
  BY <1>1, <1>7 DEF ReceiveTask, Call, RegWorker, RefuseTask, AssignTask, ReportTask
<1>8. ASSUME NEW w \in Worker, Work(w) \/ Crash(w) PROVE ScanTypes'
  BY <1>2, <1>8 DEF Work, ReadInput, CreateFile, WriteFile, WriteFails, ReadPart, WriteOutput,
     ReportAnyway, GivesUp, Crash
<1>9. CASE UNCHANGED vars
  BY <1>2, <1>9 DEF vars
<1> QED
  BY <1>4, <1>5, <1>6, <1>7, <1>8, <1>9, <1>10 DEF Next, Scan

LEMMA TableStep == ASSUME TypeInv, [Next]_vars PROVE TableTypes'
<1> USE DEF TableTypes
<1>1. TableTypes /\ workerSeq \in Nat
  <2>1. IsFiniteSet(Registered)
    BY ConstantFacts, FS_Subset DEF Registered
  <2> QED
    BY <2>1, FS_CardinalityType DEF TypeInv, IdTypes
<1>2. ASSUME UNCHANGED <<taskPhase, taskStates, done, workerSeq>> PROVE TableTypes'
  BY <1>1, <1>2 DEF Tasks, Maps, Parts
<1>3. ASSUME NEW t \in Tasks(taskPhase), NEW status \in Status, NEW v \in 0 .. workerSeq,
             UNCHANGED <<taskPhase, done, workerSeq>>,
             \/ taskStates' = [taskStates EXCEPT ![t].status = status]
             \/ taskStates' = [taskStates EXCEPT ![t] = [status |-> status, worker |-> v]]
      PROVE  TableTypes'
  <2>1. Tasks(taskPhase)' = Tasks(taskPhase)
    BY <1>3 DEF Tasks, Maps, Parts
  <2> QED
    BY <1>1, <1>3, <2>1
<1>4. CASE QueueTask
  <2>1. scan.next \in Tasks(taskPhase) /\ "Ready" \in Status
    BY <1>4, ScanNext DEF QueueTask, Status
  <2> QED
    BY <1>1, <1>3, <1>4, <2>1 DEF QueueTask, Requeue
<1>5. CASE BeginScan \/ Expire \/ SkipTask
  BY <1>2, <1>5 DEF BeginScan, Expire, SkipTask
<1>6. CASE EndScan
  <2>1. CASE scan.allDone /\ taskPhase = "map" /\ taskPhase' = "reduce"
             /\ taskStates' = NewTable("reduce") /\ done' = done
    <3>1. Tasks(taskPhase)' = Parts /\ Tasks("reduce") = Parts
      BY <2>1 DEF Tasks, Parts
    <3>2. [status |-> "New", worker |-> 0] \in [status : Status, worker : 0 .. workerSeq']
      BY <1>1, <1>6 DEF EndScan, Status
    <3>3. taskStates' = [r \in Parts |-> [status |-> "New", worker |-> 0]]
      BY <2>1, <3>1 DEF NewTable
    <3> QED
      BY <1>1, <2>1, <3>1, <3>2, <3>3 DEF Phase
  <2>2. CASE UNCHANGED <<taskPhase, taskStates>> /\ done' \in BOOLEAN
    BY <1>1, <1>6, <2>2 DEF EndScan, Tasks, Maps, Parts
  <2> QED
    BY <1>1, <1>6, <2>1, <2>2 DEF EndScan
<1>7. ASSUME NEW w \in Worker, RegWorker(w) PROVE TableTypes'
  <2>1. workerSeq' = workerSeq + 1 /\ UNCHANGED <<taskPhase, taskStates, done>>
    BY <1>7 DEF RegWorker
  <2>2. Tasks(taskPhase)' = Tasks(taskPhase)
    BY <2>1 DEF Tasks, Maps, Parts
  <2>3. [status : Status, worker : 0 .. workerSeq] \subseteq [status : Status, worker : 0 .. workerSeq']
    BY <1>1, <2>1
  <2> QED
    BY <1>1, <2>1, <2>2, <2>3
<1>8. ASSUME NEW w \in Worker, AssignTask(w) PROVE TableTypes'
  <2>1. task[w].seq \in Tasks(taskPhase) /\ id[w] \in 0 .. workerSeq /\ "Running" \in Status
    BY <1>8 DEF TypeInv, WorkerTypes, WorkerAt, PlaceOf, Proper, IdTypes, AssignTask, Status
  <2> QED
    BY <1>3, <1>8, <2>1 DEF AssignTask
<1>9. ASSUME NEW w \in Worker, ReportTask(w) PROVE TableTypes'
  <2>1. CASE Honoured(w)
    <3> DEFINE status == IF report[w].done THEN "Terminated" ELSE "Error"
    <3>1. task[w].seq \in Tasks(taskPhase) /\ status \in Status /\ 0 \in 0 .. workerSeq
      BY <1>1, <1>9, <2>1 DEF TypeInv, WorkerTypes, WorkerAt, PlaceOf, Proper, Honoured, Status
    <3>2. taskStates' = [taskStates EXCEPT ![task[w].seq].status = status]
      BY <1>9, <2>1, Zenon DEF ReportTask
    <3> HIDE DEF status
    <3> QED
      BY <1>3, <1>9, <3>1, <3>2 DEF ReportTask
  <2>2. CASE ~Honoured(w)
    BY <1>2, <1>9, <2>2 DEF ReportTask
  <2> QED
    BY <2>1, <2>2
<1>10. ASSUME NEW w \in Worker, ReceiveTask(w) \/ RefuseTask(w) PROVE TableTypes'
  BY <1>2, <1>10 DEF ReceiveTask, RefuseTask
<1>11. ASSUME NEW w \in Worker, Work(w) \/ Crash(w) PROVE TableTypes'
  BY <1>2, <1>11 DEF Work, ReadInput, CreateFile, WriteFile, WriteFails, ReadPart, WriteOutput,
     ReportAnyway, GivesUp, Crash
<1>12. CASE UNCHANGED vars
  BY <1>2, <1>12 DEF vars
<1> QED
  BY <1>4, <1>5, <1>6, <1>7, <1>8, <1>9, <1>10, <1>11, <1>12 DEF Next, Scan, Call

LEMMA FaultStep == ASSUME TypeInv, [Next]_vars PROVE FaultTypes'
<1> USE ConstantFacts DEF FaultTypes, TypeInv
<1>1. ASSUME UNCHANGED faultVars PROVE FaultTypes'
  BY <1>1
<1>2. CASE BeginScan \/ QueueTask \/ SkipTask \/ EndScan
  BY <1>1, <1>2 DEF BeginScan, QueueTask, SkipTask, EndScan
<1>3. CASE Expire
  BY <1>3 DEF Expire, TimedOut
<1>4. ASSUME NEW w \in Worker, ReceiveTask(w) \/ Call(w) PROVE FaultTypes'
  BY <1>1, <1>4 DEF ReceiveTask, Call, RegWorker, RefuseTask, AssignTask, ReportTask
<1>5. ASSUME Fails PROVE FaultTypes'
  BY <1>5 DEF Fails
<1>6. ASSUME NEW w \in Worker, Work(w) PROVE FaultTypes'
  BY <1>1, <1>5, <1>6 DEF Work, ReadInput, CreateFile, WriteFile, WriteFails, ReadPart, WriteOutput,
     ReportAnyway, GivesUp
<1>7. ASSUME NEW w \in Worker, Crash(w) PROVE FaultTypes'
  BY <1>7 DEF Crash
<1>8. CASE UNCHANGED vars
  BY <1>1, <1>8 DEF vars
<1> QED
  BY <1>2, <1>3, <1>4, <1>6, <1>7, <1>8 DEF Next, Scan

LEMMA FileStep == ASSUME TypeInv, [Next]_vars PROVE FileTypes'
<1> DEFINE File == [by : Worker \cup {Nobody}, whole : BOOLEAN]
<1>1. kvFile \in [Maps -> [Parts -> File]] /\ outFile \in [Parts -> {"none", "short", "exact"}]
  BY DEF TypeInv, FileTypes
<1>2. ASSUME UNCHANGED fileVars PROVE FileTypes'
  BY <1>1, <1>2 DEF FileTypes, Maps, Parts
<1>3. CASE Scan
  BY <1>2, <1>3 DEF Scan, BeginScan, QueueTask, Requeue, Expire, SkipTask, EndScan
<1>4. ASSUME NEW w \in Worker, ReceiveTask(w) \/ Call(w) \/ Crash(w) PROVE FileTypes'
  BY <1>2, <1>4 DEF ReceiveTask, Call, RegWorker, RefuseTask, AssignTask, ReportTask, Crash
<1>5. ASSUME NEW w \in Worker, ReadInput(w) \/ WriteFails(w) \/ ReadPart(w) \/ ReportAnyway(w)
      PROVE  FileTypes'
  BY <1>2, <1>5 DEF ReadInput, WriteFails, ReadPart, ReportAnyway, GivesUp
<1>6. ASSUME NEW w \in Worker, CreateFile(w) PROVE FileTypes'
  <2>1. CASE UNCHANGED fileVars
    BY <1>2, <2>1
  <2>2. CASE /\ kvFile' = [kvFile EXCEPT ![task[w].seq][step[w]] = [by |-> w, whole |-> FALSE]]
             /\ outFile' = outFile
    <3>1. [by |-> w, whole |-> FALSE] \in File
      OBVIOUS
    <3> HIDE DEF File
    <3>2. kvFile' \in [Maps -> [Parts -> File]]
      BY <1>1, <2>2, <3>1
    <3> QED
      BY <1>1, <2>2, <3>2 DEF FileTypes, File, Maps, Parts
  <2> QED
    BY <1>6, <2>1, <2>2 DEF CreateFile, GivesUp
<1>7. ASSUME NEW w \in Worker, WriteFile(w) PROVE FileTypes'
  <2>1. task[w].seq \in Maps /\ step[w] \in Parts
    BY <1>7, ConstantFacts DEF TypeInv, WorkerTypes, WorkerAt, PlaceOf, Proper, WriteFile, Works
  <2> DEFINE file == kvFile[task[w].seq][step[w]]
  <2>2. file \in File
    BY <1>1, <2>1
  <2>3. PICK whole \in BOOLEAN : kvFile' = [kvFile EXCEPT ![task[w].seq][step[w]].whole = whole]
    BY <1>7, <2>2 DEF WriteFile
  <2>4. [file EXCEPT !.whole = whole] \in File
    BY <2>2
  <2>5. kvFile' = [kvFile EXCEPT ![task[w].seq][step[w]] = [file EXCEPT !.whole = whole]]
    BY <2>3
  <2> HIDE DEF File, file
  <2>6. kvFile' \in [Maps -> [Parts -> File]]
    BY <1>1, <2>4, <2>5
  <2>7. outFile' = outFile
    BY <1>7 DEF WriteFile
  <2> QED
    BY <1>1, <2>6, <2>7 DEF FileTypes, File, Maps, Parts
<1>8. ASSUME NEW w \in Worker, WriteOutput(w) PROVE FileTypes'
  <2>1. kvFile' = kvFile /\ outFile' \in [Parts -> {"none", "short", "exact"}]
    BY <1>1, <1>8 DEF WriteOutput
  <2> QED
    BY <1>1, <2>1 DEF FileTypes, Maps, Parts
<1>9. CASE UNCHANGED vars
  BY <1>2, <1>9 DEF vars
<1> QED
  BY <1>3, <1>4, <1>5, <1>6, <1>7, <1>8, <1>9 DEF Next, Work

\* The fields of a worker that a step leaves alone.
LEMMA SameWorker ==
    ASSUME TypeInv, NEW w \in Worker
    PROVE  /\ at = [at EXCEPT ![w] = at[w]] /\ at[w] \in Place
           /\ task = [task EXCEPT ![w] = task[w]] /\ task[w] \in Task
           /\ step = [step EXCEPT ![w] = step[w]] /\ step[w] \in 0 .. ChanSize
           /\ sound = [sound EXCEPT ![w] = sound[w]] /\ sound[w] \in BOOLEAN
           /\ report = [report EXCEPT ![w] = report[w]]
           /\ report[w] \in [done : BOOLEAN, resume : {"asking", "writing", "failed"}]
  BY DEF TypeInv, WorkerTypes

\* One worker moves and the others stay as they are.
Moves(w, place, tk, s, b, rep) ==
    /\ at' = [at EXCEPT ![w] = place] /\ task' = [task EXCEPT ![w] = tk]
    /\ step' = [step EXCEPT ![w] = s] /\ sound' = [sound EXCEPT ![w] = b]
    /\ report' = [report EXCEPT ![w] = rep] /\ PlaceOf(place, tk, s, rep.resume)

LEMMA OneWorkerStep ==
    ASSUME TypeInv, NEW w \in Worker, NEW place \in Place, NEW tk \in Task, NEW s \in 0 .. ChanSize,
           NEW b \in BOOLEAN, NEW rep \in [done : BOOLEAN, resume : {"asking", "writing", "failed"}],
           Moves(w, place, tk, s, b, rep)
    PROVE  WorkerTypes'
<1>1. \A v \in Worker : WorkerAt(v)'
  BY DEF TypeInv, WorkerTypes, WorkerAt, Moves
<1> QED
  BY <1>1, ConstantFacts DEF TypeInv, WorkerTypes, Moves

LEMMA WorkerStep == ASSUME TypeInv, [Next]_vars PROVE WorkerTypes'
<1> USE ConstantFacts
<1>1. ASSUME UNCHANGED <<at, workVars>> PROVE WorkerTypes'
  BY <1>1 DEF TypeInv, WorkerTypes, WorkerAt
<1>2. CASE Scan
  BY <1>1, <1>2 DEF Scan, BeginScan, QueueTask, Requeue, Expire, SkipTask, EndScan
<1>3. ASSUME NEW w \in Worker, NEW place \in Place, at' = [at EXCEPT ![w] = place],
             UNCHANGED workVars, PlaceOf(place, task[w], step[w], report[w].resume)
      PROVE  WorkerTypes'
  <2>1. Moves(w, place, task[w], step[w], sound[w], report[w])
    BY <1>3, SameWorker DEF Moves
  <2> QED
    BY <2>1, SameWorker, OneWorkerStep
<1>4. \A w \in Worker : Proper(task[w]) /\ PlaceOf(at[w], task[w], step[w], report[w].resume)
  BY DEF TypeInv, WorkerTypes, WorkerAt, PlaceOf
<1>5. ASSUME NEW w \in Worker, RegWorker(w) \/ RefuseTask(w) PROVE WorkerTypes'
  <2> DEFINE place == IF w \in dead THEN "gone" ELSE "asking"
  <2>1. place \in Place
    BY DEF Place
  <2>2. at' = [at EXCEPT ![w] = place] /\ UNCHANGED workVars
    BY <1>5 DEF RegWorker, RefuseTask, GoesOn
  <2>3. PlaceOf(place, task[w], step[w], report[w].resume)
    BY <1>4 DEF PlaceOf
  <2> QED
    BY <1>3, <2>1, <2>2, <2>3
<1>6. ASSUME NEW w \in Worker, ReceiveTask(w) PROVE WorkerTypes'
  <2> DEFINE tk == Head(taskChan)
  <2>1. tk \in Task /\ Proper(tk)
    <3>1. taskChan # <<>> /\ taskChan \in Seq(Task) /\ \A i \in 1 .. Len(taskChan) : Proper(taskChan[i])
      BY <1>6 DEF TypeInv, QueueTypes, ReceiveTask
    <3>2. 1 \in 1 .. Len(taskChan) /\ tk = taskChan[1]
      BY <3>1
    <3> QED
      BY <3>1, <3>2
  <2>2. /\ at' = [at EXCEPT ![w] = "assigning"] /\ task' = [task EXCEPT ![w] = tk]
        /\ UNCHANGED <<step, sound, report>>
    BY <1>6 DEF ReceiveTask
  <2> HIDE DEF tk
  <2>3. PlaceOf("assigning", tk, step[w], report[w].resume)
    BY <2>1 DEF PlaceOf
  <2>4. "assigning" \in Place
    BY DEF Place
  <2>5. Moves(w, "assigning", tk, step[w], sound[w], report[w])
    BY <2>2, <2>3, SameWorker DEF Moves
  <2> QED
    BY <2>1, <2>4, <2>5, SameWorker, OneWorkerStep
<1>7. ASSUME NEW w \in Worker, AssignTask(w) PROVE WorkerTypes'
  <2> DEFINE place == IF w \in dead THEN "gone" ELSE "reading"
  <2>1. place \in Place
    BY DEF Place
  <2>2. /\ at' = [at EXCEPT ![w] = place] /\ step' = [step EXCEPT ![w] = 0]
        /\ sound' = [sound EXCEPT ![w] = TRUE] /\ UNCHANGED <<task, report>>
    BY <1>7 DEF AssignTask, GoesOn
  <2>3. PlaceOf(place, task[w], 0, report[w].resume)
    BY <1>4 DEF PlaceOf
  <2>4. Moves(w, place, task[w], 0, TRUE, report[w])
    BY <2>2, <2>3, SameWorker DEF Moves
  <2> HIDE DEF place
  <2> QED
    BY <2>1, <2>4, SameWorker, OneWorkerStep
<1>8. ASSUME NEW w \in Worker, ReportTask(w) PROVE WorkerTypes'
  <2> DEFINE place == IF w \in dead THEN "gone" ELSE report[w].resume
  <2>1. place \in Place /\ place \in {"gone", "asking", "writing", "failed"}
    <3>1. report[w].resume \in {"asking", "writing", "failed"}
      BY SameWorker
    <3> QED
      BY <3>1 DEF Place
  <2>2. at' = [at EXCEPT ![w] = place] /\ at[w] = "reporting"
    BY <1>8 DEF ReportTask, GoesOn
  <2>3. at'[w] = place
    BY <2>2 DEF TypeInv, WorkerTypes
  <2>4. CASE place \in {"asking", "gone"}
    <3>1. Forgets(w)
      BY <1>8, <2>3, <2>4 DEF ReportTask
    <3>2. NoTask \in Task /\ NoTask.phase = "map" /\ NoTask.seq \in Maps
      BY DEF NoTask, Task, Phase
    <3>3. NoReport \in [done : BOOLEAN, resume : {"asking", "writing", "failed"}]
      BY DEF NoReport
    <3>4. PlaceOf(place, NoTask, 0, NoReport.resume)
      BY <2>4, <3>2 DEF PlaceOf, Proper
    <3>5. Moves(w, place, NoTask, 0, TRUE, NoReport)
      BY <2>2, <3>1, <3>4 DEF Forgets, Moves
    <3> HIDE DEF place
    <3> QED
      BY <2>1, <3>2, <3>3, <3>5, OneWorkerStep
  <2>5. CASE place \in {"writing", "failed"}
    <3>1. UNCHANGED workVars
      BY <1>8, <2>3, <2>5 DEF ReportTask
    <3>2. PlaceOf(place, task[w], step[w], report[w].resume)
      BY <1>4, <2>2, <2>5 DEF PlaceOf
    <3> QED
      BY <1>3, <2>1, <2>2, <3>1, <3>2
  <2> QED
    BY <2>1, <2>4, <2>5
\* A worker that calls ReportTask.
<1>9. ASSUME NEW w \in Worker, NEW ok \in BOOLEAN, NEW resume \in {"asking", "writing", "failed"},
             NEW s \in 0 .. ChanSize, NEW b \in BOOLEAN,
             Reports(w, ok, resume), task' = task,
             step' = [step EXCEPT ![w] = s], sound' = [sound EXCEPT ![w] = b],
             resume = "writing" => task[w].phase = "map" /\ s \in Parts,
             resume = "failed" => task[w].phase = "reduce"
      PROVE  WorkerTypes'
  <2>1. [done |-> ok, resume |-> resume] \in [done : BOOLEAN, resume : {"asking", "writing", "failed"}]
    OBVIOUS
  <2>2. report' = [report EXCEPT ![w] = [done |-> ok, resume |-> resume]]
    BY <1>9 DEF Reports
  <2>3. at' = [at EXCEPT ![w] = "reporting"] /\ "reporting" \in Place
    BY <1>9 DEF Reports, Place
  <2>5. PlaceOf("reporting", task[w], s, resume)
    BY <1>4, <1>9 DEF PlaceOf
  <2>6. Moves(w, "reporting", task[w], s, b, [done |-> ok, resume |-> resume])
    BY <1>9, <2>2, <2>3, <2>5, SameWorker DEF Moves
  <2> QED
    BY <2>1, <2>3, <2>6, SameWorker, OneWorkerStep
<1>10. ASSUME NEW w \in Worker, GivesUp(w) PROVE WorkerTypes'
  BY <1>9, <1>10, SameWorker DEF GivesUp
<1>11. ASSUME NEW w \in Worker, ReadInput(w) PROVE WorkerTypes'
  <2>1. CASE at' = [at EXCEPT ![w] = "creating"] /\ UNCHANGED workVars
    <3>1. PlaceOf("creating", task[w], step[w], report[w].resume) /\ "creating" \in Place
      BY <1>4, <1>11 DEF ReadInput, Works, PlaceOf, Place
    <3> QED
      BY <1>3, <2>1, <3>1
  <2> QED
    BY <1>10, <1>11, <2>1 DEF ReadInput
<1>12. ASSUME NEW w \in Worker, CreateFile(w) PROVE WorkerTypes'
  <2>1. CASE at' = [at EXCEPT ![w] = "writing"] /\ UNCHANGED workVars
    <3>1. PlaceOf("writing", task[w], step[w], report[w].resume) /\ "writing" \in Place
      BY <1>4, <1>12 DEF CreateFile, Works, PlaceOf, Place
    <3> QED
      BY <1>3, <2>1, <3>1
  <2> QED
    BY <1>10, <1>12, <2>1 DEF CreateFile
<1>13. ASSUME NEW w \in Worker, WriteFile(w) PROVE WorkerTypes'
  <2>1. /\ at[w] = "writing" /\ task[w].phase = "map" /\ step[w] \in Parts
        /\ task' = task /\ step' = [step EXCEPT ![w] = step[w] + 1]
        /\ sound' = [sound EXCEPT ![w] = TRUE]
    BY <1>4, <1>13 DEF WriteFile, Works, PlaceOf
  <2>2. step[w] + 1 \in 0 .. ChanSize
    BY <2>1 DEF Parts
  <2>3. CASE step[w] + 1 \in Parts
    <3>1. at' = [at EXCEPT ![w] = "creating"] /\ report' = report /\ "creating" \in Place
      BY <1>13, <2>3 DEF WriteFile, Place
    <3>3. PlaceOf("creating", task[w], step[w] + 1, report[w].resume)
      BY <1>4, <2>1, <2>3 DEF PlaceOf
    <3>4. Moves(w, "creating", task[w], step[w] + 1, TRUE, report[w])
      BY <2>1, <3>1, <3>3, SameWorker DEF Moves
    <3> QED
      BY <2>2, <3>1, <3>4, SameWorker, OneWorkerStep
  <2>4. CASE step[w] + 1 \notin Parts
    <3>1. Reports(w, TRUE, "asking")
      BY <1>13, <2>4 DEF WriteFile
    <3> QED
      BY <1>9, <2>1, <2>2, <3>1
  <2> QED
    BY <2>3, <2>4
<1>14. ASSUME NEW w \in Worker, WriteFails(w) PROVE WorkerTypes'
  <2>1. /\ Reports(w, FALSE, "writing") /\ task' = task /\ step' = step
        /\ sound' = [sound EXCEPT ![w] = FALSE]
        /\ task[w].phase = "map" /\ step[w] \in Parts
    BY <1>4, <1>14 DEF WriteFails, Works, PlaceOf
  <2>2. /\ step' = [step EXCEPT ![w] = step[w]] /\ step[w] \in 0 .. ChanSize
        /\ FALSE \in BOOLEAN /\ "writing" \in {"asking", "writing", "failed"}
        /\ "writing" # "failed"
    BY <2>1, SameWorker
  <2> QED
    BY <1>9, <2>1, <2>2
<1>15. ASSUME NEW w \in Worker, ReadPart(w) PROVE WorkerTypes'
  <2>1. task' = task /\ at[w] = "reading" /\ task[w].phase = "reduce" /\ step[w] \in Maps
    BY <1>4, <1>15, SMTT(30) DEF ReadPart, Works, PlaceOf
  <2>2. CASE Reports(w, FALSE, "asking") /\ UNCHANGED <<step, sound>>
    <3>1. step' = [step EXCEPT ![w] = step[w]] /\ sound' = [sound EXCEPT ![w] = sound[w]]
      BY <2>2, SameWorker, SMTT(30)
    <3>2. /\ step[w] \in 0 .. ChanSize /\ sound[w] \in BOOLEAN
          /\ FALSE \in BOOLEAN /\ "asking" \in {"asking", "writing", "failed"}
          /\ "asking" # "failed" /\ "asking" # "writing"
      BY SameWorker
    <3> QED
      BY <1>9, <2>1, <2>2, <3>1, <3>2
  <2>3. CASE /\ sound' = [sound EXCEPT ![w] = @ /\ kvFile[step[w]][task[w].seq].whole]
             /\ step' = [step EXCEPT ![w] = @ + 1]
             /\ at' = [at EXCEPT ![w] = IF step[w] + 1 \in Maps THEN "reading" ELSE "output"]
             /\ report' = report
    <3> DEFINE b == sound[w] /\ kvFile[step[w]][task[w].seq].whole
               place == IF step[w] + 1 \in Maps THEN "reading" ELSE "output"
    <3>1. step[w] + 1 \in 0 .. ChanSize /\ place \in Place
      BY <2>1 DEF Maps, Place
    <3>2. b \in BOOLEAN /\ sound' = [sound EXCEPT ![w] = b]
      BY <2>3, SameWorker, Zenon
    <3>3. at' = [at EXCEPT ![w] = place] /\ step' = [step EXCEPT ![w] = step[w] + 1]
      BY <2>3, Zenon
    <3>5. PlaceOf(place, task[w], step[w] + 1, report[w].resume)
      BY <1>4, <2>1 DEF PlaceOf
    <3> HIDE DEF b, place
    <3>6. Moves(w, place, task[w], step[w] + 1, b, report[w])
      BY <2>1, <2>3, <3>2, <3>3, <3>5, SameWorker DEF Moves
    <3> QED
      BY <3>1, <3>2, <3>6, SameWorker, OneWorkerStep
  <2> QED
    BY <1>15, <2>2, <2>3, Zenon DEF ReadPart, faultVars, workVars
<1>16. ASSUME NEW w \in Worker, WriteOutput(w) PROVE WorkerTypes'
  <2>1. task' = task /\ step' = step /\ task[w].phase = "reduce"
    BY <1>16 DEF WriteOutput, Works
  <2>4. step' = [step EXCEPT ![w] = step[w]] /\ step[w] \in 0 .. ChanSize
    BY <2>1, SameWorker
  <2>2. CASE Reports(w, TRUE, "asking") /\ sound' = sound
    <3>1. sound' = [sound EXCEPT ![w] = sound[w]] /\ sound[w] \in BOOLEAN
      BY <2>2, SameWorker
    <3> QED
      BY <1>9, <2>1, <2>2, <2>4, <3>1
  <2>3. CASE Reports(w, FALSE, "failed") /\ sound' = [sound EXCEPT ![w] = FALSE]
    BY <1>9, <2>1, <2>3, <2>4
  <2> QED
    BY <1>16, <2>2, <2>3 DEF WriteOutput
<1>17. ASSUME NEW w \in Worker, ReportAnyway(w) PROVE WorkerTypes'
  BY <1>9, <1>17, SameWorker DEF ReportAnyway
<1>18. ASSUME NEW w \in Worker, Crash(w) PROVE WorkerTypes'
  <2>1. CASE at' = [at EXCEPT ![w] = "gone"] /\ UNCHANGED workVars
    <3>1. PlaceOf("gone", task[w], step[w], report[w].resume) /\ "gone" \in Place
      BY <1>4 DEF PlaceOf, Place
    <3> QED
      BY <1>3, <2>1, <3>1
  <2> QED
    BY <1>1, <1>18, <2>1 DEF Crash
<1>19. CASE UNCHANGED vars
  BY <1>1, <1>19 DEF vars
<1> QED
  BY <1>2, <1>5, <1>6, <1>7, <1>8, <1>11, <1>12, <1>13, <1>14, <1>15, <1>16, <1>17, <1>18, <1>19
  DEF Next, Call, Work

LEMMA TypesStep == ASSUME TypeInv, [Next]_vars PROVE TypeInv'
  BY IdStep, TableStep, QueueStep, ScanStep, WorkerStep, FaultStep, FileStep DEF TypeInv

LEMMA TypesOK == TypeInv => TypeOK
<1> SUFFICES ASSUME TypeInv PROVE TypeOK
  OBVIOUS
<1>1. Registered \subseteq Worker
  BY DEF Registered
<1>2. IsFiniteSet(Registered) /\ Cardinality(Registered) <= Cardinality(Worker)
  BY <1>1, ConstantFacts, FS_Subset
<1>3. Cardinality(Registered) \in Nat /\ Cardinality(Worker) \in Nat
  BY <1>2, ConstantFacts, FS_CardinalityType
<1>4. workerSeq \in 0 .. Cardinality(Worker)
  BY <1>2, <1>3 DEF TypeInv, IdTypes
<1> QED
  BY <1>4 DEF TypeInv, IdTypes, TableTypes, QueueTypes, ScanTypes, WorkerTypes, FaultTypes, FileTypes, TypeOK

\* The state has its types, no id is above the number of workers, the queue never holds more than
\* ChanSize tasks and a scan never leaves the table.
THEOREM TypeCorrect == Spec => []TypeOK
<1>1. TypeInv /\ [Next]_vars => TypeInv'
  BY TypesStep
<1> QED
  BY <1>1, TypesInit, TypesOK, PTL DEF Spec

-----------------------------------------------------------------------------
(* No task is lost *)

SameTasks == Tasks(taskPhase)' = Tasks(taskPhase)
LEMMA SamePhase == taskPhase' = taskPhase => SameTasks
  BY DEF SameTasks, Tasks, Maps, Parts

\* Ids are only given, and tables that say Running or Ready only kept: nothing is lost.
LEMMA KeepsQueue ==
    ASSUME TypeInv, ReadyIsQueued, UNCHANGED <<taskPhase, taskChan>>,
           \A t \in Tasks(taskPhase) :
             taskStates'[t].status = "Ready" => taskStates[t].status = "Ready",
           \A w \in Worker : at[w] = "assigning" => at'[w] = "assigning" /\ task'[w] = task[w]
    PROVE  ReadyIsQueued'
<1>1. SameTasks
  BY SamePhase
<1> QED
  BY <1>1 DEF SameTasks, ReadyIsQueued, Queued

LEMMA KeepsRunning ==
    ASSUME TypeInv, RunsRegistered, taskPhase' = taskPhase,
           \A t \in Tasks(taskPhase) : taskStates'[t].status = "Running" =>
             taskStates[t].status = "Running" /\ taskStates'[t].worker = taskStates[t].worker,
           \A w \in Worker : id[w] # 0 => id'[w] = id[w]
    PROVE  RunsRegistered'
<1>1. SameTasks
  BY SamePhase
<1> QED
  BY <1>1 DEF SameTasks, RunsRegistered

\* What happens to the table in each kind of step.
LEMMA RequeueTable ==
    ASSUME TypeInv, Scanning, Requeue
    PROVE  /\ SameTasks /\ scan.next \in Tasks(taskPhase)
           /\ \A t \in Tasks(taskPhase) : t # scan.next => taskStates'[t] = taskStates[t]
           /\ taskStates'[scan.next].status = "Ready"
           /\ taskStates'[scan.next].worker = taskStates[scan.next].worker
<1>1. scan.next \in Tasks(taskPhase) /\ taskPhase' = taskPhase
  BY ScanNext DEF Requeue
<1>2. taskStates' = [taskStates EXCEPT ![scan.next].status = "Ready"]
  BY DEF Requeue
<1> QED
  BY <1>1, <1>2, SamePhase DEF TypeInv, TableTypes

LEMMA AssignTable ==
    ASSUME TypeInv, NEW w \in Worker, AssignTask(w)
    PROVE  /\ SameTasks /\ task[w].seq \in Tasks(taskPhase)
           /\ \A t \in Tasks(taskPhase) : t # task[w].seq => taskStates'[t] = taskStates[t]
           /\ taskStates'[task[w].seq].status = "Running"
           /\ taskStates'[task[w].seq].worker = id[w]
<1>1. task[w].seq \in Tasks(taskPhase) /\ taskPhase' = taskPhase
  BY DEF AssignTask, TypeInv, WorkerTypes, WorkerAt, PlaceOf, Proper
<1>2. taskStates' = [taskStates EXCEPT ![task[w].seq] = [status |-> "Running", worker |-> id[w]]]
  BY DEF AssignTask
<1>3. taskStates'[task[w].seq] = [status |-> "Running", worker |-> id[w]]
  BY <1>1, <1>2 DEF TypeInv, TableTypes
<1> QED
  BY <1>1, <1>2, <1>3, SamePhase DEF TypeInv, TableTypes

LEMMA ReportTable ==
    ASSUME TypeInv, NEW w \in Worker, ReportTask(w)
    PROVE  /\ SameTasks
           /\ \A t \in Tasks(taskPhase) : taskStates'[t].worker = taskStates[t].worker
           /\ \A t \in Tasks(taskPhase) :
                taskStates'[t].status =
                  IF Honoured(w) /\ t = task[w].seq
                  THEN IF report[w].done THEN "Terminated" ELSE "Error"
                  ELSE taskStates[t].status
<1>1. SameTasks
  BY SamePhase DEF ReportTask
<1> DEFINE status == IF report[w].done THEN "Terminated" ELSE "Error"
<1>2. CASE Honoured(w)
  <2>1. task[w].seq \in Tasks(taskPhase)
    BY <1>2 DEF Honoured, TypeInv, WorkerTypes, WorkerAt, PlaceOf, Proper
  <2>2. taskStates' = [taskStates EXCEPT ![task[w].seq].status = status]
    BY <1>2, Zenon DEF ReportTask
  <2> HIDE DEF status
  <2>3. \A t \in Tasks(taskPhase) : taskStates'[t].worker = taskStates[t].worker
    BY <2>1, <2>2 DEF TypeInv, TableTypes
  <2>4. \A t \in Tasks(taskPhase) :
          taskStates'[t].status = IF t = task[w].seq THEN status ELSE taskStates[t].status
    BY <2>1, <2>2 DEF TypeInv, TableTypes
  <2> QED
    BY <1>1, <1>2, <2>3, <2>4, Zenon DEF status
<1>3. CASE ~Honoured(w)
  <2>1. taskStates' = taskStates
    BY <1>3 DEF ReportTask
  <2> QED
    BY <1>1, <1>3, <2>1
<1> QED
  BY <1>2, <1>3

LEMMA EndScanTable ==
    ASSUME TypeInv, EndScan
    PROVE  \/ UNCHANGED <<taskPhase, taskStates>>
           \/ /\ taskPhase = "map" /\ taskPhase' = "reduce" /\ scan.allDone
              /\ Tasks(taskPhase)' = Parts
              /\ \A r \in Parts : taskStates'[r] = [status |-> "New", worker |-> 0]
<1>1. CASE UNCHANGED <<taskPhase, taskStates>>
  BY <1>1
<1>2. CASE taskPhase = "map" /\ taskPhase' = "reduce" /\ taskStates' = NewTable("reduce") /\ scan.allDone
  <2>1. Tasks(taskPhase)' = Parts
    BY <1>2 DEF Tasks, Parts
  <2>2. \A r \in Parts : NewTable("reduce")[r] = [status |-> "New", worker |-> 0]
    BY DEF NewTable, Tasks
  <2> QED
    BY <1>2, <2>1, <2>2
<1> QED
  BY <1>1, <1>2 DEF EndScan

\* A worker works on its own, outside the coordinator.
LEMMA WorkFrame ==
    ASSUME TypeInv, NEW w \in Worker, Work(w)
    PROVE  /\ UNCHANGED <<queueVars, task, id, dead>>
           /\ at[w] \in Active \ {"reporting"} /\ w \notin dead
           /\ \A v \in Worker : v # w =>
                at'[v] = at[v] /\ step'[v] = step[v] /\ sound'[v] = sound[v] /\ report'[v] = report[v]
<1> DEFINE Others == \A v \in Worker : v # w =>
               at'[v] = at[v] /\ step'[v] = step[v] /\ sound'[v] = sound[v] /\ report'[v] = report[v]
<1>1. ASSUME NEW place, at' = [at EXCEPT ![w] = place], UNCHANGED <<step, sound, report>> PROVE Others
  BY <1>1 DEF TypeInv, WorkerTypes
<1>2. ASSUME NEW ok, NEW resume, Reports(w, ok, resume), NEW s, NEW b,
             step' = step \/ step' = [step EXCEPT ![w] = s],
             sound' = sound \/ sound' = [sound EXCEPT ![w] = b]
      PROVE  Others
  BY <1>2 DEF TypeInv, WorkerTypes, Reports
<1>3. ASSUME GivesUp(w) PROVE Others /\ UNCHANGED <<queueVars, task, id, dead>>
  BY <1>2, <1>3 DEF GivesUp, Fails
<1>4. ASSUME ReadInput(w) \/ CreateFile(w) PROVE Others /\ UNCHANGED <<queueVars, task, id, dead>>
  BY <1>1, <1>3, <1>4 DEF ReadInput, CreateFile
<1>5. ASSUME WriteFile(w) PROVE Others /\ UNCHANGED <<queueVars, task, id, dead>>
  <2>1. step' = [step EXCEPT ![w] = @ + 1] /\ sound' = [sound EXCEPT ![w] = TRUE]
    BY <1>5 DEF WriteFile
  <2>2. \/ at' = [at EXCEPT ![w] = "creating"] /\ report' = report
        \/ Reports(w, TRUE, "asking")
    BY <1>5 DEF WriteFile
  <2>3. Others
    BY <2>1, <2>2 DEF TypeInv, WorkerTypes, Reports
  <2> QED
    BY <1>5, <2>3 DEF WriteFile
<1>6. ASSUME WriteFails(w) PROVE Others /\ UNCHANGED <<queueVars, task, id, dead>>
  BY <1>2, <1>6 DEF WriteFails, Fails
<1>7. ASSUME ReadPart(w) PROVE Others /\ UNCHANGED <<queueVars, task, id, dead>>
  <2>1. ASSUME Reports(w, FALSE, "asking"), UNCHANGED <<step, sound>> PROVE Others
    BY <2>1 DEF TypeInv, WorkerTypes, Reports
  <2>2. ASSUME sound' = [sound EXCEPT ![w] = @ /\ kvFile[step[w]][task[w].seq].whole],
               step' = [step EXCEPT ![w] = @ + 1], report' = report,
               at' = [at EXCEPT ![w] = IF step[w] + 1 \in Maps THEN "reading" ELSE "output"]
        PROVE  Others
    <3>1. \A v \in Worker : v # w => sound'[v] = sound[v]
      BY <2>2, Zenon DEF TypeInv, WorkerTypes
    <3>2. \A v \in Worker : v # w => at'[v] = at[v] /\ step'[v] = step[v]
      BY <2>2 DEF TypeInv, WorkerTypes
    <3>3. report' = report
      BY <2>2
    <3> QED
      BY ONLY <3>1, <3>2, <3>3
  <2>3. Others
    BY <1>7, <2>1, <2>2, Zenon DEF ReadPart, faultVars
  <2> QED
    BY <1>7, <2>3 DEF ReadPart, Fails
<1>8. ASSUME WriteOutput(w) PROVE Others /\ UNCHANGED <<queueVars, task, id, dead>>
  BY <1>2, <1>8 DEF WriteOutput, Fails
<1>9. ASSUME ReportAnyway(w) PROVE Others /\ UNCHANGED <<queueVars, task, id, dead>>
  BY <1>2, <1>9 DEF ReportAnyway
<1>10. at[w] \in Active \ {"reporting"} /\ w \notin dead
  BY DEF Work, ReadInput, CreateFile, WriteFile, WriteFails, ReadPart, WriteOutput, ReportAnyway,
     Works, Active
<1> QED
  BY <1>4, <1>5, <1>6, <1>7, <1>8, <1>9, <1>10 DEF Work

LEMMA RunningStep == ASSUME TypeInv, RunsRegistered, [Next]_vars PROVE RunsRegistered'
<1>1. ASSUME UNCHANGED <<taskPhase, taskStates, id>> PROVE RunsRegistered'
  BY <1>1, KeepsRunning
<1>2. CASE BeginScan \/ Expire \/ SkipTask
  BY <1>1, <1>2 DEF BeginScan, Expire, SkipTask
<1>3. CASE QueueTask
  <2>1. Scanning /\ Requeue /\ id' = id /\ taskPhase' = taskPhase
    BY <1>3 DEF QueueTask, Requeue
  <2> QED
    BY <2>1, RequeueTable, KeepsRunning
<1>4. CASE EndScan
  <2>1. id' = id
    BY <1>4 DEF EndScan
  <2>2. CASE UNCHANGED <<taskPhase, taskStates>>
    BY <1>1, <2>1, <2>2
  <2>3. CASE Tasks(taskPhase)' = Parts /\ \A r \in Parts : taskStates'[r] = [status |-> "New", worker |-> 0]
    BY <2>3 DEF RunsRegistered
  <2> QED
    BY <1>4, <2>2, <2>3, EndScanTable
<1>5. ASSUME NEW w \in Worker, RegWorker(w) PROVE RunsRegistered'
  <2>1. UNCHANGED <<taskPhase, taskStates>> /\ id[w] = 0 /\ id' = [id EXCEPT ![w] = workerSeq + 1]
    BY <1>5 DEF RegWorker, TypeInv, IdTypes
  <2>2. \A v \in Worker : id[v] # 0 => id'[v] = id[v]
    BY <2>1 DEF TypeInv, IdTypes
  <2> QED
    BY <2>1, <2>2, KeepsRunning
<1>6. ASSUME NEW w \in Worker, AssignTask(w) PROVE RunsRegistered'
  <2>1. id' = id /\ id[w] # 0
    BY <1>6 DEF AssignTask, TypeInv, IdTypes
  <2> QED
    BY <1>6, <2>1, AssignTable DEF RunsRegistered, SameTasks
<1>7. ASSUME NEW w \in Worker, ReportTask(w) PROVE RunsRegistered'
  <2>1. id' = id /\ taskPhase' = taskPhase
    BY <1>7 DEF ReportTask
  <2> QED
    BY <1>7, <2>1, ReportTable, KeepsRunning
<1>8. ASSUME NEW w \in Worker, ReceiveTask(w) \/ RefuseTask(w) \/ Crash(w) PROVE RunsRegistered'
  BY <1>1, <1>8 DEF ReceiveTask, RefuseTask, Crash
<1>9. ASSUME NEW w \in Worker, Work(w) PROVE RunsRegistered'
  BY <1>1, <1>9 DEF Work, ReadInput, CreateFile, WriteFile, WriteFails, ReadPart, WriteOutput,
     ReportAnyway, GivesUp
<1>10. CASE UNCHANGED vars
  BY <1>1, <1>10 DEF vars
<1> QED
  BY <1>2, <1>3, <1>4, <1>5, <1>6, <1>7, <1>8, <1>9, <1>10 DEF Next, Scan, Call

LEMMA QueuedStep == ASSUME TypeInv, ReadyIsQueued, [Next]_vars PROVE ReadyIsQueued'
<1>1. ASSUME UNCHANGED <<taskPhase, taskStates, taskChan>>,
             \A w \in Worker : at[w] = "assigning" => at'[w] = "assigning" /\ task'[w] = task[w]
      PROVE  ReadyIsQueued'
  BY <1>1, KeepsQueue
<1>2. CASE BeginScan \/ Expire \/ SkipTask
  BY <1>1, <1>2 DEF BeginScan, Expire, SkipTask
<1>3. CASE QueueTask
  <2>1. Scanning /\ Requeue
    BY <1>3 DEF QueueTask
  <2>2. /\ taskPhase' = taskPhase /\ UNCHANGED <<at, task>>
        /\ taskChan' = Append(taskChan, NewOneTask(scan.next))
    BY <2>1 DEF Requeue
  <2>3. /\ NewOneTask(scan.next) = [phase |-> taskPhase, seq |-> scan.next]
        /\ taskChan \in Seq(Task)
    BY DEF NewOneTask, TypeInv, QueueTypes
  <2>4. /\ Len(taskChan') = Len(taskChan) + 1
        /\ \A i \in 1 .. Len(taskChan) : taskChan'[i] = taskChan[i]
        /\ taskChan'[Len(taskChan) + 1] = [phase |-> taskPhase, seq |-> scan.next]
    BY <2>2, <2>3, ScanNext, <2>1
  <2>5. \A i \in DOMAIN taskChan : i \in DOMAIN taskChan' /\ taskChan'[i] = taskChan[i]
    BY <2>2, <2>3, <2>4
  <2>6. Len(taskChan) + 1 \in DOMAIN taskChan'
    BY <2>2, <2>3, <2>4
  <2>7. ASSUME NEW t \in Tasks(taskPhase), taskStates'[t].status = "Ready" PROVE Queued(t)'
    <3>1. CASE t = scan.next
      BY <2>2, <2>4, <2>6, <3>1 DEF Queued
    <3>2. CASE t # scan.next
      <4>1. Queued(t)
        BY <2>1, <2>7, <3>2, RequeueTable DEF ReadyIsQueued
      <4> QED
        BY <2>2, <2>5, <4>1 DEF Queued
    <3> QED
      BY <3>1, <3>2
  <2> QED
    BY <2>1, <2>7, RequeueTable DEF ReadyIsQueued, SameTasks
<1>4. CASE EndScan
  <2>1. UNCHANGED <<taskChan, at, task>>
    BY <1>4 DEF EndScan
  <2>2. CASE UNCHANGED <<taskPhase, taskStates>>
    BY <1>1, <2>1, <2>2
  <2>3. CASE Tasks(taskPhase)' = Parts /\ \A r \in Parts : taskStates'[r] = [status |-> "New", worker |-> 0]
    BY <2>3 DEF ReadyIsQueued
  <2> QED
    BY <1>4, <2>2, <2>3, EndScanTable
<1>5. ASSUME NEW w \in Worker, RegWorker(w) PROVE ReadyIsQueued'
  BY <1>1, <1>5 DEF RegWorker, GoesOn
<1>6. ASSUME NEW w \in Worker, ReceiveTask(w) PROVE ReadyIsQueued'
  <2>1. /\ at[w] = "asking" /\ taskChan # <<>> /\ taskChan' = Tail(taskChan)
        /\ task' = [task EXCEPT ![w] = Head(taskChan)]
        /\ at' = [at EXCEPT ![w] = "assigning"]
        /\ UNCHANGED <<taskPhase, taskStates>>
    BY <1>6 DEF ReceiveTask
  <2>2. taskChan \in Seq(Task) /\ at \in [Worker -> Place] /\ task \in [Worker -> Task]
    BY DEF TypeInv, QueueTypes, WorkerTypes
  <2>3. ASSUME NEW t \in Tasks(taskPhase), Queued(t) PROVE Queued(t)'
    <3> DEFINE tk == [phase |-> taskPhase, seq |-> t]
    <3>1. CASE \E i \in DOMAIN taskChan : taskChan[i] = tk
      <4>1. PICK i \in 1 .. Len(taskChan) : taskChan[i] = tk
        BY <2>2, <3>1
      <4>2. CASE i = 1
        <5>1. at'[w] = "assigning" /\ task'[w] = tk
          BY <2>1, <2>2, <4>1, <4>2
        <5> QED
          BY <2>1, <5>1 DEF Queued
      <4>3. CASE i # 1
        <5>1. i - 1 \in DOMAIN taskChan' /\ taskChan'[i - 1] = tk
          BY <2>1, <2>2, <4>1, <4>3
        <5> QED
          BY <2>1, <5>1 DEF Queued
      <4> QED
        BY <4>2, <4>3
    <3>2. CASE \E v \in Worker : at[v] = "assigning" /\ task[v] = tk
      <4>1. PICK v \in Worker : at[v] = "assigning" /\ task[v] = tk
        BY <3>2
      <4>2. at'[v] = "assigning" /\ task'[v] = tk
        BY <2>1, <2>2, <4>1
      <4> QED
        BY <2>1, <4>2 DEF Queued
    <3> QED
      BY <2>3, <3>1, <3>2 DEF Queued
  <2> QED
    BY <2>1, <2>3, SamePhase DEF ReadyIsQueued, SameTasks
<1>7. ASSUME NEW w \in Worker, RefuseTask(w) PROVE ReadyIsQueued'
  <2>1. /\ UNCHANGED <<taskPhase, taskStates, taskChan, task>> /\ task[w].phase # taskPhase
        /\ \A v \in Worker : v # w => at'[v] = at[v]
    BY <1>7 DEF RefuseTask, GoesOn
  <2>2. \A t \in Tasks(taskPhase) : Queued(t) => Queued(t)'
    BY <2>1 DEF Queued
  <2> QED
    BY <2>1, <2>2, SamePhase DEF ReadyIsQueued, SameTasks
<1>8. ASSUME NEW w \in Worker, AssignTask(w) PROVE ReadyIsQueued'
  <2>1. /\ UNCHANGED <<taskPhase, taskChan, task>>
        /\ \A v \in Worker : v # w => at'[v] = at[v]
    BY <1>8 DEF AssignTask, GoesOn
  <2>2. \A t \in Tasks(taskPhase) : Queued(t) /\ t # task[w].seq => Queued(t)'
    <3> SUFFICES ASSUME NEW t \in Tasks(taskPhase), Queued(t), t # task[w].seq PROVE Queued(t)'
      OBVIOUS
    <3>1. \A v \in Worker : task[v] = [phase |-> taskPhase, seq |-> t] => v # w
      OBVIOUS
    <3> QED
      BY <2>1, <3>1 DEF Queued
  <2> QED
    BY <1>8, <2>1, <2>2, AssignTable DEF ReadyIsQueued, SameTasks
<1>9. ASSUME NEW w \in Worker, ReportTask(w) PROVE ReadyIsQueued'
  <2>1. UNCHANGED <<taskPhase, taskChan>> /\ at[w] = "reporting"
    BY <1>9 DEF ReportTask
  <2>2. \A v \in Worker : v # w => at'[v] = at[v] /\ task'[v] = task[v]
    BY <1>9 DEF ReportTask, GoesOn, Forgets, TypeInv, WorkerTypes
  <2> QED
    BY <1>9, <2>1, <2>2, ReportTable, KeepsQueue
<1>10. ASSUME NEW w \in Worker, Work(w) PROVE ReadyIsQueued'
  <2>1. UNCHANGED <<taskPhase, taskStates, taskChan, task>>
    BY <1>10, WorkFrame
  <2>2. at[w] # "assigning" /\ \A v \in Worker : v # w => at'[v] = at[v]
    BY <1>10, WorkFrame DEF Active
  <2>3. \A v \in Worker : at[v] = "assigning" => at'[v] = "assigning" /\ task'[v] = task[v]
    BY <2>1, <2>2
  <2> QED
    BY <1>1, <2>1, <2>3
<1>11. ASSUME NEW w \in Worker, Crash(w) PROVE ReadyIsQueued'
  <2>1. \A v \in Worker : at[v] = "assigning" => at'[v] = "assigning"
    BY <1>11 DEF Crash, TypeInv, WorkerTypes
  <2> QED
    BY <1>1, <1>11, <2>1 DEF Crash
<1>12. CASE UNCHANGED vars
  BY <1>1, <1>12 DEF vars
<1> QED
  BY <1>2, <1>3, <1>4, <1>5, <1>6, <1>7, <1>8, <1>9, <1>10, <1>11, <1>12 DEF Next, Scan, Call

\* No task is lost: one that is Ready is in the queue or in the hands of a GetOneTask, and one
\* that runs is run by a registered worker, whatever crashes, times out or fails.
THEOREM TasksAreKept == Spec => []NoTaskLost
<1> DEFINE Kept == TypeInv /\ RunsRegistered /\ ReadyIsQueued
<1>1. Init => Kept
  <2>1. Init => \A t \in Tasks(taskPhase) : taskStates[t].status = "New"
    BY DEF Init, NewTable
  <2> QED
    BY <2>1, TypesInit DEF RunsRegistered, ReadyIsQueued
<1>2. Kept /\ [Next]_vars => Kept'
  BY TypesStep, RunningStep, QueuedStep
<1>3. Kept => NoTaskLost
  BY DEF NoTaskLost, RunsRegistered, ReadyIsQueued
<1> QED
  BY <1>1, <1>2, <1>3, PTL DEF Spec

-----------------------------------------------------------------------------
(* What a scan has found *)

LEMMA ScanFoundStep == ASSUME TypeInv, ScanFound, [Next]_vars PROVE ScanFound'
<1> USE DEF ScanFound
<1>1. ASSUME muLock' # "scan", done' = done, taskPhase' = taskPhase PROVE ScanFound'
  BY <1>1
<1>2. ASSUME UNCHANGED <<taskPhase, taskStates, done, muLock, scan>> PROVE ScanFound'
  BY <1>2 DEF Tasks, Maps, Parts
<1>3. CASE BeginScan
  <2>1. UNCHANGED <<taskPhase, taskStates, done>> /\ ~done /\ scan'.next = 0
    BY <1>3 DEF BeginScan, NewScan
  <2>2. \A t \in Tasks(taskPhase)' : ~(t < scan'.next)
    BY <2>1 DEF Tasks, Maps, Parts
  <2> QED
    BY <2>1, <2>2
<1>4. CASE QueueTask
  <2>1. scan'.allDone = FALSE /\ UNCHANGED <<taskPhase, done, muLock>>
    BY <1>4 DEF QueueTask, Requeue, ScanOn
  <2> QED
    BY <2>1
<1>11. CASE Expire
  <2>1. UNCHANGED <<taskPhase, taskStates, done, muLock>>
        /\ scan'.next = scan.next /\ scan'.allDone = scan.allDone
    BY <1>11 DEF Expire, TypeInv, ScanTypes
  <2> QED
    BY <2>1 DEF Tasks, Maps, Parts
<1>5. CASE SkipTask
  <2>1. /\ UNCHANGED <<taskPhase, taskStates, done, muLock>> /\ Scanning
        /\ scan' = [next |-> scan.next + 1, allDone |-> scan.allDone /\ ~KeepsOpen(Scanned),
                    late |-> FALSE]
    BY <1>5 DEF SkipTask, ScanOn
  <2>2. scan'.next = scan.next + 1 /\ scan.next \in Tasks(taskPhase) /\ scan.next \in Nat
    BY <2>1, ScanNext, ConstantFacts DEF TypeInv, ScanTypes
  <2>3. ASSUME scan'.allDone PROVE scan.allDone /\ Scanned = "Terminated"
    BY <2>1, <2>3 DEF KeepsOpen
  <2>4. ASSUME scan'.allDone, muLock = "scan", NEW t \in Tasks(taskPhase), t < scan.next + 1
        PROVE  taskStates[t].status = "Terminated"
    <3>1. t \in Nat
      BY DEF Tasks, Maps, Parts
    <3>2. CASE t = scan.next
      BY <2>3, <2>4, <3>2 DEF Scanned
    <3>3. CASE t # scan.next
      BY <2>2, <2>3, <2>4, <3>1, <3>3
    <3> QED
      BY <3>2, <3>3
  <2>5. SameTasks
    BY <2>1, SamePhase
  <2> QED
    BY <2>1, <2>2, <2>4, <2>5 DEF SameTasks
<1>6. CASE EndScan
  BY <1>6 DEF EndScan
<1>7. ASSUME NEW w \in Worker, ReceiveTask(w) \/ Crash(w) PROVE ScanFound'
  BY <1>2, <1>7 DEF ReceiveTask, Crash
<1>8. ASSUME NEW w \in Worker, Call(w) PROVE ScanFound'
  BY <1>1, <1>8 DEF Call, RegWorker, RefuseTask, AssignTask, ReportTask
<1>9. ASSUME NEW w \in Worker, Work(w) PROVE ScanFound'
  BY <1>2, <1>9, WorkFrame
<1>10. CASE UNCHANGED vars
  BY <1>2, <1>10 DEF vars
<1> QED
  BY <1>3, <1>4, <1>5, <1>6, <1>7, <1>8, <1>9, <1>10, <1>11 DEF Next, Scan

\* A scan waits with a task that has timed out only where one has.
LEMMA LateStep == ASSUME TypeInv, LateIsExpired, [Next]_vars PROVE LateIsExpired'
<1> USE DEF LateIsExpired
<1>1. CASE Expire
  BY <1>1 DEF Expire
<1>2. CASE BeginScan \/ QueueTask \/ SkipTask \/ EndScan
  <2>1. ~scan'.late
    BY <1>2 DEF BeginScan, QueueTask, Requeue, SkipTask, EndScan, ScanOn, NewScan
  <2> QED
    BY <2>1
<1>3. ASSUME UNCHANGED <<scan, expired>> PROVE LateIsExpired'
  BY <1>3
<1>4. ASSUME NEW w \in Worker, ReceiveTask(w) \/ Call(w) \/ Crash(w) PROVE LateIsExpired'
  BY <1>3, <1>4 DEF ReceiveTask, Call, RegWorker, RefuseTask, AssignTask, ReportTask, Crash
<1>5. ASSUME NEW w \in Worker, Work(w) PROVE LateIsExpired'
  BY <1>3, <1>5 DEF Work, ReadInput, CreateFile, WriteFile, WriteFails, ReadPart, WriteOutput,
     ReportAnyway, GivesUp, Fails
<1>6. CASE UNCHANGED vars
  BY <1>3, <1>6 DEF vars
<1> QED
  BY <1>1, <1>2, <1>4, <1>5, <1>6 DEF Next, Scan

LEMMA AllFinished ==
    ASSUME TypeInv, ScanFound, EndScan, scan.allDone
    PROVE  \A t \in Tasks(taskPhase) : Finished(t)
<1>1. scan.next \notin Tasks(taskPhase) /\ scan.next \in Nat /\ muLock = "scan"
  BY ConstantFacts DEF EndScan, TypeInv, TableTypes, ScanTypes
<1>2. \A t \in Tasks(taskPhase) : t < scan.next
  BY <1>1, ConstantFacts DEF Tasks, Maps, Parts, TypeInv, TableTypes, Phase
<1> QED
  BY <1>1, <1>2 DEF ScanFound, Finished

-----------------------------------------------------------------------------
(* While nothing goes wrong every task is in one place *)

LEMMA DisturbedForGood ==
    ASSUME TypeInv, [Next]_vars, Undisturbed'
    PROVE  Undisturbed /\ ~Expire /\ ~Fails
<1>1. ~Fails
  BY DEF Fails, Undisturbed, TypeInv, FaultTypes
<1>2. ~Expire
  BY DEF Expire, Undisturbed
<1>3. UNCHANGED <<expired, errors>>
  BY <1>1, <1>2 DEF Next, Scan, BeginScan, QueueTask, SkipTask, EndScan, ReceiveTask, Call,
     RegWorker, RefuseTask, AssignTask, ReportTask, Work, ReadInput, CreateFile, WriteFile, WriteFails,
     ReadPart, WriteOutput, ReportAnyway, GivesUp, Crash, vars
<1> QED
  BY <1>1, <1>2, <1>3 DEF Undisturbed

\* The queue and the table stay, and nobody takes up a task.
LEMMA KeepsPlaces ==
    ASSUME TypeInv, InOnePlace, UNCHANGED <<taskPhase, taskStates, taskChan>>,
           muLock' # "leaked", done' = done \/ \A t \in Tasks(taskPhase) : Finished(t),
           \A v \in Worker : id[v] # 0 => id'[v] = id[v],
           \A v \in Worker : at'[v] = "assigning" => at[v] = "assigning" /\ task'[v] = task[v],
           \A v \in Worker : at'[v] \in Active =>
             /\ at[v] \in Active /\ task'[v] = task[v] /\ at'[v] # "failed"
             /\ at'[v] = "reporting" => report'[v] = [done |-> TRUE, resume |-> "asking"]
    PROVE  InOnePlace'
<1> USE DEF InOnePlace
<1>1. SameTasks
  BY SamePhase
<1>2. NoneFailed'
  BY <1>1 DEF NoneFailed, SameTasks, Finished
<1>3. QueuedOnce'
  BY DEF QueuedOnce, Is
<1>4. TakenOnce'
  BY DEF TakenOnce, Is
<1>5. \A v \in Worker : at[v] \in Active => id'[v] = id[v]
  BY DEF TypeInv, IdTypes
<1>6. RunOnce'
  BY <1>5 DEF RunOnce, Is
<1> QED
  BY <1>2, <1>3, <1>4, <1>6

\* A scan queues a task that nobody has.
LEMMA RequeuePlaces == ASSUME TypeInv, InOnePlace, QueueTask, ~scan.late PROVE InOnePlace'
<1> DEFINE n == scan.next
           last == Len(taskChan) + 1
<1>1. /\ Scanning /\ Requeue /\ Scanned \in {"New", "Error"}
      /\ UNCHANGED <<taskPhase, done, muLock, at, id, task, report>>
      /\ taskChan' = Append(taskChan, NewOneTask(n))
  BY DEF QueueTask, Overdue, Requeue
<1>2. /\ SameTasks /\ n \in Tasks(taskPhase) /\ taskStates'[n].status = "Ready"
      /\ \A t \in Tasks(taskPhase) : t # n => taskStates'[t] = taskStates[t]
  BY <1>1, RequeueTable
<1>3. taskStates[n].status = "New"
  BY <1>1, <1>2 DEF Scanned, InOnePlace, NoneFailed
<1>4. /\ last \in Nat /\ Len(taskChan') = last
      /\ \A i \in 1 .. Len(taskChan) : taskChan'[i] = taskChan[i]
      /\ taskChan'[last].phase = taskPhase /\ taskChan'[last].seq = n
  BY <1>1, ScanNext DEF TypeInv, QueueTypes
<1> HIDE DEF n, last
<1>5. \A i \in 1 .. Len(taskChan) : Is(taskChan[i], "Ready") /\ taskChan[i].seq # n
                                    /\ taskChan[i].seq \in Tasks(taskPhase)
  BY <1>3 DEF InOnePlace, QueuedOnce, Is, TypeInv, QueueTypes, Proper
<1>6. \A w \in Worker : at[w] \in Active \cup {"assigning"} =>
        task[w].phase = taskPhase /\ task[w].seq # n /\ task[w].seq \in Tasks(taskPhase)
  BY <1>3 DEF InOnePlace, TakenOnce, RunOnce, Is, TypeInv, WorkerTypes, WorkerAt, PlaceOf, Proper
<1>7. NoneFailed'
  <2>1. ~done
    BY <1>2, <1>3 DEF InOnePlace, NoneFailed, Finished
  <2> QED
    BY <1>1, <1>2, <2>1 DEF InOnePlace, NoneFailed, SameTasks
<1>8. QueuedOnce'
  <2>1. \A i \in 1 .. last : i = last \/ i \in 1 .. Len(taskChan)
    BY <1>4 DEF last
  <2>2. \A i \in 1 .. last : Is(taskChan[i], "Ready")'
    BY <1>1, <1>2, <1>4, <1>5, <2>1 DEF Is
  <2>3. \A i, j \in 1 .. last : taskChan'[i].seq = taskChan'[j].seq => i = j
    BY <1>4, <1>5, <2>1 DEF InOnePlace, QueuedOnce
  <2> QED
    BY <1>4, <2>2, <2>3 DEF QueuedOnce
<1>9. TakenOnce'
  <2>1. \A i \in 1 .. last : i = last \/ i \in 1 .. Len(taskChan)
    BY <1>4 DEF last
  <2>2. \A w \in Worker : at[w] = "assigning" => Is(task[w], "Ready")'
    BY <1>1, <1>2, <1>6 DEF InOnePlace, TakenOnce, Is
  <2>3. \A w \in Worker : at[w] = "assigning" =>
          \A i \in 1 .. last : taskChan'[i].seq # task[w].seq
    BY <1>4, <1>6, <2>1 DEF InOnePlace, TakenOnce
  <2> QED
    BY <1>1, <1>4, <2>2, <2>3 DEF InOnePlace, TakenOnce
<1>10. RunOnce'
  BY <1>1, <1>2, <1>6 DEF InOnePlace, RunOnce, Is
<1> QED
  BY <1>1, <1>7, <1>8, <1>9, <1>10 DEF InOnePlace

LEMMA ReceivePlaces == ASSUME TypeInv, InOnePlace, NEW w \in Worker, ReceiveTask(w) PROVE InOnePlace'
<1>1. /\ at[w] = "asking" /\ taskChan # <<>> /\ taskChan' = Tail(taskChan)
      /\ task' = [task EXCEPT ![w] = Head(taskChan)]
      /\ at' = [at EXCEPT ![w] = "assigning"]
      /\ UNCHANGED <<taskPhase, taskStates, done, muLock, id, report>>
  BY DEF ReceiveTask
<1>2. taskChan \in Seq(Task) /\ Len(taskChan) > 0
  BY <1>1 DEF TypeInv, QueueTypes
<1>3. /\ Len(taskChan') = Len(taskChan) - 1
      /\ \A i \in 1 .. Len(taskChan') : i + 1 \in 1 .. Len(taskChan) /\ taskChan'[i] = taskChan[i + 1]
      /\ Head(taskChan) = taskChan[1] /\ 1 \in 1 .. Len(taskChan)
  BY <1>1, <1>2
<1>4. at'[w] = "assigning" /\ task'[w] = taskChan[1]
  BY <1>1, <1>3 DEF TypeInv, WorkerTypes
<1>5. \A v \in Worker : v # w => at'[v] = at[v] /\ task'[v] = task[v]
  BY <1>1 DEF TypeInv, WorkerTypes
<1>6. SameTasks
  BY <1>1, SamePhase
<1>7. NoneFailed'
  BY <1>1, <1>6 DEF InOnePlace, NoneFailed, Finished, SameTasks
<1>8. QueuedOnce'
  <2>1. \A i \in 1 .. Len(taskChan') : Is(taskChan[i], "Ready")'
    BY <1>1, <1>3 DEF InOnePlace, QueuedOnce, Is
  <2>2. \A i, j \in 1 .. Len(taskChan') : taskChan'[i].seq = taskChan'[j].seq => i = j
    <3> SUFFICES ASSUME NEW i \in 1 .. Len(taskChan'), NEW j \in 1 .. Len(taskChan'),
                        taskChan'[i].seq = taskChan'[j].seq
                 PROVE  i = j
      OBVIOUS
    <3>1. taskChan[i + 1].seq = taskChan[j + 1].seq /\ i + 1 \in 1 .. Len(taskChan) /\ j + 1 \in 1 .. Len(taskChan)
      BY <1>3
    <3>2. i + 1 = j + 1
      BY <3>1 DEF InOnePlace, QueuedOnce
    <3> QED
      BY <3>2
  <2> QED
    BY <2>1, <2>2 DEF QueuedOnce
<1>9. TakenOnce'
  <2>1. Is(taskChan[1], "Ready") /\ \A j \in 1 .. Len(taskChan) : taskChan[j].seq = taskChan[1].seq => j = 1
    BY <1>3 DEF InOnePlace, QueuedOnce
  <2>2. \A i \in 1 .. Len(taskChan') : taskChan'[i].seq # taskChan[1].seq
    BY <1>3, <2>1
  <2>3. \A v \in Worker : v # w /\ at[v] = "assigning" => task[v].seq # taskChan[1].seq
    BY <1>3 DEF InOnePlace, TakenOnce
  <2>4. ASSUME NEW v \in Worker, v # w, at[v] = "assigning"
        PROVE  \A i \in 1 .. Len(taskChan') : taskChan'[i].seq # task[v].seq
    BY <1>3, <2>4 DEF InOnePlace, TakenOnce
  <2>5. \A v \in Worker : at'[v] = "assigning" => Is(task[v], "Ready")'
    BY <1>1, <1>4, <1>5, <2>1 DEF InOnePlace, TakenOnce, Is
  <2>6. \A v, u \in Worker : at'[v] = "assigning" /\ at'[u] = "assigning" /\ task'[u].seq = task'[v].seq => u = v
    BY <1>4, <1>5, <2>3 DEF InOnePlace, TakenOnce
  <2>7. \A v \in Worker : at'[v] = "assigning" =>
          \A i \in 1 .. Len(taskChan') : taskChan'[i].seq # task'[v].seq
    BY <1>4, <1>5, <2>2, <2>4
  <2> QED
    BY <2>5, <2>6, <2>7 DEF TakenOnce
<1>10. RunOnce'
  BY <1>1, <1>4, <1>5 DEF InOnePlace, RunOnce, Is, Active
<1> QED
  BY <1>1, <1>7, <1>8, <1>9, <1>10 DEF InOnePlace

LEMMA AssignPlaces == ASSUME TypeInv, InOnePlace, NEW w \in Worker, AssignTask(w) PROVE InOnePlace'
<1> DEFINE n == task[w].seq
<1>1. /\ at[w] = "assigning" /\ task[w].phase = taskPhase /\ muLock = "free"
      /\ at' = [at EXCEPT ![w] = IF w \in dead THEN "gone" ELSE "reading"]
      /\ UNCHANGED <<taskPhase, taskChan, done, muLock, id, task, report>>
  BY DEF AssignTask, GoesOn
<1>2. /\ SameTasks /\ n \in Tasks(taskPhase)
      /\ \A t \in Tasks(taskPhase) : t # n => taskStates'[t] = taskStates[t]
      /\ taskStates'[n].status = "Running" /\ taskStates'[n].worker = id[w]
  BY AssignTable
<1>3. /\ at'[w] \in {"gone", "reading"} /\ \A v \in Worker : v # w => at'[v] = at[v]
  BY <1>1 DEF TypeInv, WorkerTypes
<1>4. /\ taskStates[n].status = "Ready"
      /\ \A i \in 1 .. Len(taskChan) : taskChan[i].seq # n
      /\ \A v \in Worker : v # w /\ at[v] = "assigning" => task[v].seq # n
  BY <1>1 DEF InOnePlace, TakenOnce, Is
<1>5. \A v \in Worker : at[v] \in Active => task[v].seq # n
  BY <1>4 DEF InOnePlace, RunOnce, Is
<1> HIDE DEF n
<1>6. \A v \in Worker : at[v] \in Active \cup {"assigning"} => task[v].seq \in Tasks(taskPhase)
  BY DEF InOnePlace, TakenOnce, RunOnce, Is, TypeInv, WorkerTypes, WorkerAt, PlaceOf, Proper
<1>7. \A i \in 1 .. Len(taskChan) : taskChan[i].seq \in Tasks(taskPhase)
  BY DEF InOnePlace, QueuedOnce, Is, TypeInv, QueueTypes, Proper
<1>8. NoneFailed'
  <2>1. ~done
    BY <1>2, <1>4 DEF InOnePlace, NoneFailed, Finished
  <2> QED
    BY <1>1, <1>2, <2>1 DEF InOnePlace, NoneFailed, SameTasks
<1>9. QueuedOnce'
  BY <1>1, <1>2, <1>4, <1>7 DEF InOnePlace, QueuedOnce, Is
<1>10. TakenOnce'
  BY <1>1, <1>2, <1>3, <1>4, <1>6 DEF InOnePlace, TakenOnce, Is
<1>11. RunOnce'
  <2>1. ASSUME NEW v \in Worker, v # w, at'[v] \in Active
        PROVE  /\ Is(task[v], "Running")' /\ taskStates'[task'[v].seq].worker = id'[v]
               /\ at'[v] # "failed"
               /\ at'[v] = "reporting" => report'[v] = [done |-> TRUE, resume |-> "asking"]
    BY <1>1, <1>2, <1>3, <1>5, <1>6, <2>1 DEF InOnePlace, RunOnce, Is
  <2>2. /\ Is(task[w], "Running")' /\ taskStates'[task'[w].seq].worker = id'[w]
        /\ at'[w] # "failed" /\ at'[w] # "reporting"
    BY <1>1, <1>2, <1>3 DEF Is, n
  <2> QED
    BY <2>1, <2>2 DEF RunOnce
<1> QED
  BY <1>1, <1>8, <1>9, <1>10, <1>11 DEF InOnePlace

\* Whoever reports a task is the one it was given to.
LEMMA ReportIsHonoured ==
    ASSUME InOnePlace, NEW w \in Worker, at[w] = "reporting"
    PROVE  Honoured(w) /\ report[w].done /\ report[w].resume = "asking"
  BY DEF InOnePlace, RunOnce, Is, Honoured, Active

LEMMA ReportPlaces == ASSUME TypeInv, InOnePlace, NEW w \in Worker, ReportTask(w) PROVE InOnePlace'
<1> DEFINE n == task[w].seq
<1>1. /\ at[w] = "reporting" /\ muLock = "free"
      /\ at' = [at EXCEPT ![w] = IF w \in dead THEN "gone" ELSE report[w].resume]
      /\ UNCHANGED <<taskPhase, taskChan, done, muLock, id>>
  BY DEF ReportTask, GoesOn
<1>2. Honoured(w) /\ report[w].done /\ report[w].resume = "asking"
  BY <1>1, ReportIsHonoured
<1>3. at'[w] \in {"gone", "asking"} /\ \A v \in Worker : v # w => at'[v] = at[v]
  BY <1>1, <1>2 DEF TypeInv, WorkerTypes
<1>4. \A v \in Worker : v # w => task'[v] = task[v] /\ report'[v] = report[v]
  BY DEF ReportTask, Forgets, TypeInv, WorkerTypes
<1>5. /\ SameTasks
      /\ \A t \in Tasks(taskPhase) : taskStates'[t].worker = taskStates[t].worker
      /\ \A t \in Tasks(taskPhase) :
           taskStates'[t].status = IF t = n THEN "Terminated" ELSE taskStates[t].status
  BY <1>2, ReportTable
<1>6. Is(task[w], "Running") /\ taskStates[n].worker = id[w] /\ id[w] # 0
  BY <1>1 DEF InOnePlace, RunOnce, Active, TypeInv, IdTypes
<1>7. \A v \in Worker : v # w /\ at[v] \in Active => task[v].seq # n
  BY <1>6 DEF InOnePlace, RunOnce, TypeInv, IdTypes
<1>8. \A v \in Worker : at[v] = "assigning" => task[v].seq # n
  BY <1>6 DEF InOnePlace, TakenOnce, Is
<1>9. \A i \in 1 .. Len(taskChan) : taskChan[i].seq # n
  BY <1>6 DEF InOnePlace, QueuedOnce, Is
<1>10. \A v \in Worker : at[v] \in Active \cup {"assigning"} => task[v].seq \in Tasks(taskPhase)
  BY DEF InOnePlace, TakenOnce, RunOnce, Is, TypeInv, WorkerTypes, WorkerAt, PlaceOf, Proper
<1>11. \A i \in 1 .. Len(taskChan) : taskChan[i].seq \in Tasks(taskPhase)
  BY DEF InOnePlace, QueuedOnce, Is, TypeInv, QueueTypes, Proper
<1> HIDE DEF n
<1>12. NoneFailed'
  BY <1>1, <1>5 DEF InOnePlace, NoneFailed, Finished, SameTasks
<1>13. QueuedOnce'
  BY <1>1, <1>5, <1>9, <1>11 DEF InOnePlace, QueuedOnce, Is
<1>14. TakenOnce'
  BY <1>1, <1>3, <1>4, <1>5, <1>8, <1>10 DEF InOnePlace, TakenOnce, Is
<1>15. RunOnce'
  <2>1. ASSUME NEW v \in Worker, v # w, at'[v] \in Active
        PROVE  /\ Is(task[v], "Running")' /\ taskStates'[task'[v].seq].worker = id'[v]
               /\ at'[v] # "failed"
               /\ at'[v] = "reporting" => report'[v] = [done |-> TRUE, resume |-> "asking"]
    BY <1>1, <1>3, <1>4, <1>5, <1>7, <1>10, <2>1 DEF InOnePlace, RunOnce, Is
  <2>2. at'[w] \notin Active
    BY <1>3 DEF Active
  <2> QED
    BY <2>1, <2>2 DEF RunOnce
<1> QED
  BY <1>1, <1>12, <1>13, <1>14, <1>15 DEF InOnePlace

\* When every task is finished nobody has one.
LEMMA EndScanPlaces == ASSUME TypeInv, ScanFound, InOnePlace, EndScan PROVE InOnePlace'
<1>1. muLock' = "free" /\ UNCHANGED <<taskChan, at, id, task, report>>
  BY DEF EndScan
<1>2. CASE UNCHANGED <<taskPhase, taskStates>>
  <2>1. done' = done \/ \A t \in Tasks(taskPhase) : Finished(t)
    BY AllFinished DEF EndScan
  <2>2. \A v \in Worker : at[v] \in Active =>
          at[v] # "failed" /\ (at[v] = "reporting" => report[v] = [done |-> TRUE, resume |-> "asking"])
    BY DEF InOnePlace, RunOnce
  <2> QED
    BY <1>1, <1>2, <2>1, <2>2, KeepsPlaces
<1>3. CASE /\ taskPhase = "map" /\ taskPhase' = "reduce" /\ scan.allDone
           /\ Tasks(taskPhase)' = Parts
           /\ \A r \in Parts : taskStates'[r] = [status |-> "New", worker |-> 0]
  <2>1. \A t \in Tasks(taskPhase) : taskStates[t].status = "Terminated"
    BY <1>3, AllFinished DEF Finished
  <2>2. \A w \in Worker : at[w] \notin Active \cup {"assigning"}
    <3>1. \A w \in Worker : at[w] \in Active \cup {"assigning"} => task[w].seq \in Tasks(taskPhase)
      BY DEF InOnePlace, TakenOnce, RunOnce, Is, TypeInv, WorkerTypes, WorkerAt, PlaceOf, Proper
    <3> QED
      BY <2>1, <3>1 DEF InOnePlace, TakenOnce, RunOnce, Is
  <2>3. \A i \in 1 .. Len(taskChan) : FALSE
    BY <2>1 DEF InOnePlace, QueuedOnce, Is, TypeInv, QueueTypes, Proper
  <2>4. ~done /\ done' = done
    BY <1>3 DEF ScanFound, EndScan
  <2> QED
    BY <1>1, <1>3, <2>2, <2>3, <2>4 DEF InOnePlace, NoneFailed, QueuedOnce, TakenOnce, RunOnce
<1> QED
  BY <1>2, <1>3, EndScanTable

LEMMA RunsAlone ==
    ASSUME TypeInv, InOnePlace, NEW v \in Worker, NEW w \in Worker,
           at[v] \in Active, at[w] \in Active, v # w
    PROVE  task[v].seq # task[w].seq
  BY DEF InOnePlace, RunOnce, TypeInv, IdTypes

\* What a reduce task reads is there and whole.
LEMMA PartsAreWhole ==
    ASSUME TypeInv, InOnePlace, MapsWritten, NEW w \in Worker, at[w] \in Active,
           task[w].phase = "reduce", NEW m \in Maps
    PROVE  task[w].seq \in Parts /\ Complete(m, task[w].seq)
<1>1. task[w].seq \in Parts
  BY ConstantFacts DEF TypeInv, WorkerTypes, WorkerAt, PlaceOf, Proper
<1>2. taskPhase = "reduce"
  BY DEF InOnePlace, RunOnce, Is
<1> QED
  BY <1>1, <1>2 DEF MapsWritten

\* Each thing a worker can do while no file operation fails.
LEMMA ReadInputExact ==
    ASSUME TypeInv, InOnePlace, NEW w \in Worker, ReadInput(w), ~Fails
    PROVE  /\ at[w] = "reading" /\ task[w].phase = "map" /\ step[w] = 0
           /\ at' = [at EXCEPT ![w] = "creating"] /\ UNCHANGED <<workVars, fileVars>>
  BY DEF ReadInput, GivesUp, Works, TypeInv, WorkerTypes, WorkerAt, PlaceOf

LEMMA CreateFileExact ==
    ASSUME TypeInv, NEW w \in Worker, CreateFile(w), ~Fails
    PROVE  /\ at[w] = "creating" /\ task[w].phase = "map" /\ step[w] \in Parts /\ task[w].seq \in Maps
           /\ kvFile' = [kvFile EXCEPT ![task[w].seq][step[w]] = [by |-> w, whole |-> FALSE]]
           /\ at' = [at EXCEPT ![w] = "writing"] /\ UNCHANGED <<workVars, outFile>>
  BY ConstantFacts DEF CreateFile, GivesUp, Works, TypeInv, WorkerTypes, WorkerAt, PlaceOf, Proper

LEMMA ReadPartExact ==
    ASSUME TypeInv, InOnePlace, MapsWritten, NEW w \in Worker, ReadPart(w), ~Fails
    PROVE  /\ at[w] = "reading" /\ task[w].phase = "reduce" /\ UNCHANGED <<fileVars, task, report>>
           /\ at' = [at EXCEPT ![w] = IF step[w] + 1 \in Maps THEN "reading" ELSE "output"]
           /\ sound[w] => sound'[w]
<1>1. at[w] = "reading" /\ task[w].phase = "reduce" /\ UNCHANGED <<fileVars, task>>
  BY DEF ReadPart, Works
<1>2. step[w] \in Maps /\ at[w] \in Active
  BY <1>1 DEF TypeInv, WorkerTypes, WorkerAt, PlaceOf, Active
<1>3. Complete(step[w], task[w].seq)
  BY <1>1, <1>2, PartsAreWhole
<1>4. /\ sound' = [sound EXCEPT ![w] = @ /\ kvFile[step[w]][task[w].seq].whole] /\ report' = report
      /\ at' = [at EXCEPT ![w] = IF step[w] + 1 \in Maps THEN "reading" ELSE "output"]
  BY <1>3, Zenon DEF ReadPart, Complete
<1>5. sound[w] => sound'[w]
  BY <1>3, <1>4, Zenon DEF TypeInv, WorkerTypes, Complete
<1> QED
  BY <1>1, <1>4, <1>5

LEMMA WriteFileExact ==
    ASSUME TypeInv, InOnePlace, MapsWritten, NEW w \in Worker, WriteFile(w)
    PROVE  /\ at[w] = "writing" /\ task[w].phase = "map" /\ step[w] \in Parts /\ task[w].seq \in Maps
           /\ kvFile' = [kvFile EXCEPT ![task[w].seq][step[w]].whole = TRUE]
           /\ kvFile[task[w].seq][step[w]].by = w
           /\ step' = [step EXCEPT ![w] = @ + 1] /\ sound' = [sound EXCEPT ![w] = TRUE]
           /\ IF step[w] + 1 \in Parts
              THEN at' = [at EXCEPT ![w] = "creating"] /\ report' = report
              ELSE Reports(w, TRUE, "asking")
           /\ UNCHANGED <<task, outFile>>
<1>1. /\ at[w] = "writing" /\ task[w].phase = "map" /\ step[w] \in Parts /\ task[w].seq \in Maps
  BY ConstantFacts DEF WriteFile, Works, TypeInv, WorkerTypes, WorkerAt, PlaceOf, Proper
<1>2. sound[w] /\ kvFile[task[w].seq][step[w]].by = w
  BY <1>1 DEF MapsWritten, Active
<1> QED
  BY <1>1, <1>2 DEF WriteFile

LEMMA WriteOutputExact ==
    ASSUME TypeInv, InOnePlace, OutputsWritten, NEW w \in Worker, WriteOutput(w), ~Fails
    PROVE  /\ at[w] = "output" /\ task[w].phase = "reduce" /\ Reports(w, TRUE, "asking")
           /\ outFile' = [outFile EXCEPT ![task[w].seq] = "exact"] /\ UNCHANGED <<sound, task, kvFile>>
<1>1. at[w] = "output" /\ task[w].phase = "reduce"
  BY DEF WriteOutput, Works
<1>2. sound[w]
  BY <1>1 DEF OutputsWritten, Active
<1> QED
  BY <1>1, <1>2 DEF WriteOutput

LEMMA NothingElseExact ==
    ASSUME InOnePlace, NEW w \in Worker, ~Fails
    PROVE  ~WriteFails(w) /\ ~ReportAnyway(w) /\ ~RefuseTask(w)
<1>1. ~RefuseTask(w)
  BY DEF RefuseTask, InOnePlace, TakenOnce, Is
<1> QED
  BY <1>1 DEF WriteFails, ReportAnyway, InOnePlace, RunOnce, Active

LEMMA WorkPlaces ==
    ASSUME TypeInv, InOnePlace, FilesExact, NEW w \in Worker, Work(w), ~Fails
    PROVE  InOnePlace'
<1> DEFINE Goes == at'[w] \in {"creating", "writing", "reading", "output", "reporting"}
                   /\ (at'[w] = "reporting" => report'[w] = [done |-> TRUE, resume |-> "asking"])
<1> USE DEF FilesExact
<1>1. ASSUME Reports(w, TRUE, "asking") PROVE Goes
  BY <1>1 DEF Reports, TypeInv, WorkerTypes
<1>2. ASSUME ReadInput(w) \/ CreateFile(w) PROVE Goes
  BY <1>2, ReadInputExact, CreateFileExact DEF TypeInv, WorkerTypes
<1>3. ASSUME WriteFile(w) PROVE Goes
  <2>1. at' = [at EXCEPT ![w] = "creating"] \/ Reports(w, TRUE, "asking")
    BY <1>3 DEF WriteFile
  <2> QED
    BY <1>1, <2>1 DEF TypeInv, WorkerTypes
<1>4. ASSUME ReadPart(w) PROVE Goes
  BY <1>4, ReadPartExact DEF TypeInv, WorkerTypes
<1>5. ASSUME WriteOutput(w) PROVE Goes
  BY <1>1, <1>5, WriteOutputExact
<1>6. Goes
  BY <1>2, <1>3, <1>4, <1>5, NothingElseExact DEF Work
<1>7. /\ UNCHANGED <<queueVars, task, id>> /\ at[w] \in Active
      /\ \A v \in Worker : v # w => at'[v] = at[v] /\ report'[v] = report[v]
  BY WorkFrame
<1>8. \A v \in Worker : at'[v] \in Active =>
        /\ at[v] \in Active /\ at'[v] # "failed"
        /\ at'[v] = "reporting" => report'[v] = [done |-> TRUE, resume |-> "asking"]
  <2>1. ASSUME NEW v \in Worker, v # w, at'[v] \in Active
        PROVE  /\ at[v] \in Active /\ at'[v] # "failed"
               /\ at'[v] = "reporting" => report'[v] = [done |-> TRUE, resume |-> "asking"]
    BY <1>7, <2>1 DEF InOnePlace, RunOnce
  <2> QED
    BY <1>6, <1>7, <2>1
<1>9. \A v \in Worker : at'[v] = "assigning" => at[v] = "assigning"
  BY <1>6, <1>7
<1>10. muLock' # "leaked" /\ done' = done
  BY <1>7 DEF InOnePlace
<1> QED
  BY <1>7, <1>8, <1>9, <1>10, KeepsPlaces

LEMMA OnePlaceStep ==
    ASSUME TypeInv, ScanFound, LateIsExpired, InOnePlace, FilesExact, [Next]_vars, Undisturbed'
    PROVE  InOnePlace'
<1>1. ~Expire /\ ~Fails /\ ~scan.late
  BY DisturbedForGood DEF Undisturbed, LateIsExpired
<1>2. ASSUME UNCHANGED <<taskPhase, taskStates, taskChan, done, task, report, at, id>>,
             muLock' # "leaked"
      PROVE  InOnePlace'
  <2>1. \A v \in Worker : at[v] \in Active =>
          at[v] # "failed" /\ (at[v] = "reporting" => report[v] = [done |-> TRUE, resume |-> "asking"])
    BY DEF InOnePlace, RunOnce
  <2> QED
    BY <1>2, <2>1, KeepsPlaces
<1>3. CASE BeginScan \/ SkipTask
  BY <1>2, <1>3 DEF BeginScan, SkipTask, InOnePlace
<1>4. CASE UNCHANGED vars
  BY <1>2, <1>4 DEF vars, InOnePlace
\* A worker that leaves the work it did.
<1>5. ASSUME NEW w \in Worker, UNCHANGED <<taskPhase, taskStates, taskChan, done, task, report, muLock>>,
             \A v \in Worker : id[v] # 0 => id'[v] = id[v],
             \A v \in Worker : v # w => at'[v] = at[v],
             at'[w] \in {"asking", "gone"} \/ at'[w] = at[w]
      PROVE  InOnePlace'
  <2>1. \A v \in Worker : at[v] \in Active =>
          at[v] # "failed" /\ (at[v] = "reporting" => report[v] = [done |-> TRUE, resume |-> "asking"])
    BY DEF InOnePlace, RunOnce
  <2>2. \A v \in Worker : at'[v] \in Active \cup {"assigning"} => at'[v] = at[v]
    BY <1>5 DEF Active
  <2>3. muLock' # "leaked"
    BY <1>5 DEF InOnePlace
  <2> QED
    BY <1>5, <2>1, <2>2, <2>3, KeepsPlaces DEF Active
<1>6. ASSUME NEW w \in Worker, RegWorker(w) PROVE InOnePlace'
  <2>1. /\ UNCHANGED <<taskPhase, taskStates, taskChan, done, task, report, muLock>>
        /\ at' = [at EXCEPT ![w] = IF w \in dead THEN "gone" ELSE "asking"]
        /\ id[w] = 0 /\ id' = [id EXCEPT ![w] = workerSeq + 1]
    BY <1>6 DEF RegWorker, GoesOn, TypeInv, IdTypes
  <2>2. at'[w] \in {"asking", "gone"} /\ \A v \in Worker : v # w => at'[v] = at[v] /\ id'[v] = id[v]
    BY <2>1 DEF TypeInv, WorkerTypes, IdTypes
  <2> QED
    BY <1>5, <2>1, <2>2
<1>7. ASSUME NEW w \in Worker, Crash(w) PROVE InOnePlace'
  <2>1. /\ UNCHANGED <<taskPhase, taskStates, taskChan, done, task, report, muLock, id>>
        /\ at' = at \/ at' = [at EXCEPT ![w] = "gone"]
    BY <1>7 DEF Crash
  <2>2. (at'[w] = "gone" \/ at'[w] = at[w]) /\ \A v \in Worker : v # w => at'[v] = at[v]
    BY <2>1 DEF TypeInv, WorkerTypes
  <2> QED
    BY <1>5, <2>1, <2>2
<1> QED
  BY <1>1, <1>3, <1>4, <1>6, <1>7, RequeuePlaces, EndScanPlaces, ReceivePlaces, AssignPlaces,
     ReportPlaces, WorkPlaces, NothingElseExact DEF Next, Scan, Call

-----------------------------------------------------------------------------
(* While nothing goes wrong every file is whole before it is read *)

\* The files stay, nobody takes up a task, and no task becomes finished.
LEMMA KeepsFiles ==
    ASSUME TypeInv, FilesExact, UNCHANGED <<taskPhase, fileVars>>,
           \A t \in Tasks(taskPhase) :
             taskStates'[t].status = "Terminated" => taskStates[t].status = "Terminated",
           \A v \in Worker : at'[v] \in Active =>
             at'[v] = at[v] /\ task'[v] = task[v] /\ step'[v] = step[v] /\ sound'[v] = sound[v]
    PROVE  FilesExact'
<1> USE DEF FilesExact
<1>1. taskPhase = "map" \/ taskPhase = "reduce"
  BY DEF TypeInv, TableTypes, Phase
<1>2. MapsWritten'
  <2>1. \A m \in Maps : (taskPhase = "reduce" \/ Finished(m))' => \A r \in Parts : Complete(m, r)'
    BY <1>1, ConstantFacts DEF MapsWritten, Finished, Complete
  <2>2. \A v \in Worker : at'[v] \in Active /\ task'[v].phase = "map" =>
          /\ sound'[v]
          /\ \A r \in Parts : r < step'[v] \/ at'[v] = "reporting" => Complete(task[v].seq, r)'
          /\ at'[v] = "writing" => kvFile'[task'[v].seq][step'[v]].by = v
    BY DEF MapsWritten, Complete
  <2> QED
    BY <2>1, <2>2 DEF MapsWritten
<1>3. OutputsWritten'
  BY <1>1, ConstantFacts DEF OutputsWritten, Finished
<1> QED
  BY <1>2, <1>3

LEMMA AssignFiles == ASSUME TypeInv, FilesExact, NEW w \in Worker, AssignTask(w) PROVE FilesExact'
<1> USE DEF FilesExact
<1>1. /\ UNCHANGED <<taskPhase, fileVars, task>> /\ step' = [step EXCEPT ![w] = 0]
      /\ sound' = [sound EXCEPT ![w] = TRUE]
      /\ at' = [at EXCEPT ![w] = IF w \in dead THEN "gone" ELSE "reading"]
  BY DEF AssignTask, GoesOn
<1>2. /\ at'[w] \in {"gone", "reading"} /\ step'[w] = 0 /\ sound'[w]
      /\ \A v \in Worker : v # w => at'[v] = at[v] /\ step'[v] = step[v] /\ sound'[v] = sound[v]
  BY <1>1 DEF TypeInv, WorkerTypes
<1>3. \A t \in Tasks(taskPhase) :
        taskStates'[t].status = "Terminated" => taskStates[t].status = "Terminated"
  BY AssignTable
<1>4. taskPhase = "map" \/ taskPhase = "reduce"
  BY DEF TypeInv, TableTypes, Phase
<1>5. MapsWritten'
  <2>1. \A m \in Maps : (taskPhase = "reduce" \/ Finished(m))' => \A r \in Parts : Complete(m, r)'
    BY <1>1, <1>3, <1>4, ConstantFacts DEF MapsWritten, Finished, Complete
  <2>2. ASSUME NEW v \in Worker, v # w, at'[v] \in Active, task'[v].phase = "map"
        PROVE  /\ sound'[v]
               /\ \A r \in Parts : r < step'[v] \/ at'[v] = "reporting" => Complete(task[v].seq, r)'
               /\ at'[v] = "writing" => kvFile'[task'[v].seq][step'[v]].by = v
    BY <1>1, <1>2, <2>2 DEF MapsWritten, Complete
  <2>3. \A r \in Parts : ~(r < 0)
    BY DEF Parts
  <2> QED
    BY <1>2, <2>1, <2>2, <2>3 DEF MapsWritten
<1>6. OutputsWritten'
  BY <1>1, <1>2, <1>3, <1>4, ConstantFacts DEF OutputsWritten, Finished
<1> QED
  BY <1>5, <1>6

\* Whoever reports a task has written all of its files.
LEMMA ReportFiles ==
    ASSUME TypeInv, InOnePlace, FilesExact, NEW w \in Worker, ReportTask(w) PROVE FilesExact'
<1> USE DEF FilesExact
<1> DEFINE n == task[w].seq
<1>1. /\ UNCHANGED <<taskPhase, fileVars>> /\ at[w] = "reporting" /\ at[w] \in Active
      /\ at' = [at EXCEPT ![w] = IF w \in dead THEN "gone" ELSE report[w].resume]
  BY DEF ReportTask, GoesOn, Active
<1>2. Honoured(w) /\ report[w].done /\ report[w].resume = "asking" /\ task[w].phase = taskPhase
  BY <1>1, ReportIsHonoured DEF Honoured
<1>3. /\ at'[w] \notin Active
      /\ \A v \in Worker : v # w => at'[v] = at[v]
  BY <1>1, <1>2 DEF TypeInv, WorkerTypes, Active
<1>4. \A v \in Worker : v # w => task'[v] = task[v] /\ step'[v] = step[v] /\ sound'[v] = sound[v]
  BY DEF ReportTask, Forgets, TypeInv, WorkerTypes
<1>5. \A t \in Tasks(taskPhase) : taskStates'[t].status = "Terminated" =>
        t = n \/ taskStates[t].status = "Terminated"
  BY <1>2, ReportTable
<1>6. taskPhase = "map" \/ taskPhase = "reduce"
  BY DEF TypeInv, TableTypes, Phase
<1>7. MapsWritten'
  <2>1. taskPhase = "map" => \A r \in Parts : Complete(n, r)
    BY <1>1, <1>2 DEF MapsWritten
  <2>2. ASSUME NEW m \in Maps, (taskPhase = "reduce" \/ Finished(m))', NEW r \in Parts
        PROVE  Complete(m, r)'
    <3>1. Complete(m, r)
      BY <1>1, <1>5, <1>6, <2>1, <2>2, ConstantFacts DEF MapsWritten, Finished
    <3> QED
      BY <1>1, <3>1 DEF Complete
  <2>3. \A v \in Worker : at'[v] \in Active /\ task'[v].phase = "map" =>
          /\ sound'[v]
          /\ \A r \in Parts : r < step'[v] \/ at'[v] = "reporting" => Complete(task[v].seq, r)'
          /\ at'[v] = "writing" => kvFile'[task'[v].seq][step'[v]].by = v
    BY <1>1, <1>3, <1>4 DEF MapsWritten, Complete
  <2> QED
    BY <2>2, <2>3 DEF MapsWritten, Complete
<1>8. OutputsWritten'
  <2>1. taskPhase = "reduce" => outFile[n] = "exact"
    BY <1>1, <1>2 DEF OutputsWritten
  <2>2. taskPhase = "reduce" => \A r \in Parts : Finished(r)' => outFile[r] = "exact"
    BY <1>5, <2>1, ConstantFacts DEF OutputsWritten, Finished
  <2> QED
    BY <1>1, <1>3, <1>4, <2>2 DEF OutputsWritten
<1> QED
  BY <1>7, <1>8

LEMMA EndScanFiles == ASSUME TypeInv, ScanFound, FilesExact, EndScan PROVE FilesExact'
<1>1. UNCHANGED <<fileVars, at, task, step, sound>>
  BY DEF EndScan
<1>2. CASE UNCHANGED <<taskPhase, taskStates>>
  BY <1>1, <1>2, KeepsFiles
<1>3. CASE /\ taskPhase = "map" /\ taskPhase' = "reduce" /\ scan.allDone
           /\ \A r \in Parts : taskStates'[r] = [status |-> "New", worker |-> 0]
  <2>1. \A m \in Maps, r \in Parts : Complete(m, r)
    BY <1>3, AllFinished, ConstantFacts DEF FilesExact, MapsWritten
  <2>2. MapsWritten'
    BY <1>1, <2>1 DEF FilesExact, MapsWritten, Complete
  <2>3. \A r \in Parts : ~Finished(r)'
    BY <1>3 DEF Finished
  <2>4. OutputsWritten'
    BY <1>1, <2>3 DEF FilesExact, OutputsWritten
  <2> QED
    BY <2>2, <2>4 DEF FilesExact
<1> QED
  BY <1>2, <1>3, EndScanTable

\* A worker that writes a map's files touches nobody else's.
LEMMA CreateFiles ==
    ASSUME TypeInv, InOnePlace, FilesExact, NEW w \in Worker, CreateFile(w), ~Fails
    PROVE  FilesExact'
<1> DEFINE n == task[w].seq
           k == step[w]
<1>1. /\ at[w] = "creating" /\ task[w].phase = "map" /\ k \in Parts /\ n \in Maps
      /\ kvFile' = [kvFile EXCEPT ![n][k] = [by |-> w, whole |-> FALSE]]
      /\ at' = [at EXCEPT ![w] = "writing"] /\ UNCHANGED <<workVars, outFile, taskPhase, taskStates>>
  BY CreateFileExact DEF CreateFile, GivesUp
<1>2. at[w] \in Active /\ taskPhase = "map" /\ taskStates[n].status = "Running"
  BY <1>1 DEF InOnePlace, RunOnce, Is, Active
<1>3. kvFile \in [Maps -> [Parts -> [by : Worker \cup {Nobody}, whole : BOOLEAN]]]
  BY DEF TypeInv, FileTypes
<1> HIDE DEF n, k
<1>4. /\ \A m \in Maps, r \in Parts : m # n \/ r # k => kvFile'[m][r] = kvFile[m][r]
      /\ kvFile'[n][k].by = w
  BY <1>1, <1>3
<1>5. \A m \in Maps, r \in Parts : (m # n \/ r # k) /\ Complete(m, r) => Complete(m, r)'
  BY <1>4 DEF Complete
<1>6. at'[w] = "writing" /\ \A v \in Worker : v # w => at'[v] = at[v]
  BY <1>1 DEF TypeInv, WorkerTypes
<1>7. MapsWritten'
  <2>1. \A m \in Maps : (taskPhase = "reduce" \/ Finished(m))' => \A r \in Parts : Complete(m, r)'
    BY <1>1, <1>2, <1>5 DEF FilesExact, MapsWritten, Finished
  <2>2. ASSUME NEW v \in Worker, v # w, at'[v] \in Active, task'[v].phase = "map"
        PROVE  /\ sound'[v]
               /\ \A r \in Parts : r < step'[v] \/ at'[v] = "reporting" => Complete(task[v].seq, r)'
               /\ at'[v] = "writing" => kvFile'[task'[v].seq][step'[v]].by = v
    <3>1. at[v] \in Active /\ at'[v] = at[v] /\ task[v].phase = "map"
      BY <1>1, <1>6, <2>2
    <3>2. task[v].seq # n /\ task[v].seq \in Maps
      BY <1>2, <2>2, <3>1, RunsAlone, ConstantFacts DEF n, TypeInv, WorkerTypes, WorkerAt, PlaceOf, Proper
    <3>3. at[v] = "writing" => step[v] \in Parts
      BY DEF TypeInv, WorkerTypes, WorkerAt, PlaceOf
    <3> QED
      BY <1>1, <1>4, <1>5, <3>1, <3>2, <3>3 DEF FilesExact, MapsWritten
  <2>3. sound'[w] /\ kvFile'[task'[w].seq][step'[w]].by = w
    BY <1>1, <1>2, <1>4 DEF FilesExact, MapsWritten, n, k
  <2>4. \A r \in Parts : r < k => Complete(n, r)'
    <3>1. \A r \in Parts : r < k => r # k
      BY <1>1 DEF Parts
    <3> QED
      BY <1>1, <1>2, <1>5, <3>1 DEF FilesExact, MapsWritten, n, k
  <2>5. \A r \in Parts : r < step'[w] \/ at'[w] = "reporting" => Complete(task[w].seq, r)'
    BY <1>1, <1>6, <2>4 DEF n, k
  <2> QED
    BY <1>1, <2>1, <2>2, <2>3, <2>5 DEF MapsWritten, Complete
<1>8. OutputsWritten'
  BY <1>1, <1>2, <1>6 DEF FilesExact, OutputsWritten
<1> QED
  BY <1>7, <1>8 DEF FilesExact

LEMMA WriteFiles ==
    ASSUME TypeInv, InOnePlace, FilesExact, NEW w \in Worker, WriteFile(w)
    PROVE  FilesExact'
<1>0. PICK n \in Maps, k \in Parts : n = task[w].seq /\ k = step[w]
  BY WriteFileExact DEF FilesExact
<1>1. /\ at[w] = "writing" /\ task[w].phase = "map" /\ k \in Parts /\ n \in Maps
      /\ kvFile' = [kvFile EXCEPT ![n][k].whole = TRUE] /\ kvFile[n][k].by = w
      /\ step' = [step EXCEPT ![w] = k + 1] /\ sound' = [sound EXCEPT ![w] = TRUE]
      /\ UNCHANGED <<task, outFile, taskPhase, taskStates>>
  BY <1>0, WriteFileExact DEF WriteFile, FilesExact
<1>2. \/ k + 1 \in Parts /\ at' = [at EXCEPT ![w] = "creating"]
      \/ k + 1 \notin Parts /\ at' = [at EXCEPT ![w] = "reporting"]
  BY <1>0, WriteFileExact DEF FilesExact, Reports
<1>3. at[w] \in Active /\ taskPhase = "map" /\ taskStates[n].status = "Running"
  BY <1>0, <1>1 DEF InOnePlace, RunOnce, Is, Active
<1>4. kvFile \in [Maps -> [Parts -> [by : Worker \cup {Nobody}, whole : BOOLEAN]]]
  BY DEF TypeInv, FileTypes
<1>5. /\ \A m \in Maps, r \in Parts : m # n \/ r # k => kvFile'[m][r] = kvFile[m][r]
      /\ kvFile'[n][k].by = w /\ kvFile'[n][k].whole
  BY <1>1, <1>4
<1>6. /\ \A m \in Maps, r \in Parts : Complete(m, r) => Complete(m, r)'
      /\ Complete(n, k)'
  <2>1. w # Nobody
    BY MapReduceAssumption
  <2>2. Complete(n, k)'
    BY <1>5, <2>1 DEF Complete
  <2>3. ASSUME NEW m \in Maps, NEW r \in Parts, Complete(m, r) PROVE Complete(m, r)'
    <3>1. CASE m = n /\ r = k
      BY <2>2, <3>1
    <3>2. CASE m # n \/ r # k
      BY <1>5, <2>3, <3>2 DEF Complete
    <3> QED
      BY <3>1, <3>2
  <2> QED
    BY <2>2, <2>3
<1>7. /\ \A v \in Worker : v # w => at'[v] = at[v] /\ step'[v] = step[v] /\ sound'[v] = sound[v]
      /\ step'[w] = k + 1 /\ sound'[w]
      /\ at'[w] = IF k + 1 \in Parts THEN "creating" ELSE "reporting"
  BY <1>1, <1>2 DEF TypeInv, WorkerTypes
<1>8. MapsWritten'
  <2>1. \A m \in Maps : (taskPhase = "reduce" \/ Finished(m))' => \A r \in Parts : Complete(m, r)'
    BY <1>1, <1>3, <1>6 DEF FilesExact, MapsWritten, Finished
  <2>2. ASSUME NEW v \in Worker, v # w, at'[v] \in Active, task'[v].phase = "map"
        PROVE  /\ sound'[v]
               /\ \A r \in Parts : r < step'[v] \/ at'[v] = "reporting" => Complete(task[v].seq, r)'
               /\ at'[v] = "writing" => kvFile'[task'[v].seq][step'[v]].by = v
    <3>1. at[v] \in Active /\ at'[v] = at[v] /\ task[v].phase = "map"
      BY <1>1, <1>7, <2>2
    <3>2. task[v].seq # n /\ task[v].seq \in Maps
      BY <1>0, <1>3, <2>2, <3>1, RunsAlone, ConstantFacts DEF TypeInv, WorkerTypes, WorkerAt, PlaceOf, Proper
    <3>3. at[v] = "writing" => step[v] \in Parts
      BY DEF TypeInv, WorkerTypes, WorkerAt, PlaceOf
    <3> QED
      BY <1>1, <1>5, <1>6, <1>7, <2>2, <3>1, <3>2, <3>3 DEF FilesExact, MapsWritten
  <2>3. \A r \in Parts : r < k + 1 => Complete(n, r)'
    <3>1. \A r \in Parts : r < k + 1 => r = k \/ r < k
      BY <1>1 DEF Parts
    <3>2. \A r \in Parts : r < k => Complete(n, r)
      BY <1>0, <1>1, <1>3 DEF FilesExact, MapsWritten
    <3> QED
      BY <1>1, <1>6, <3>1, <3>2
  <2>4. k + 1 \notin Parts => \A r \in Parts : r < k + 1
    BY <1>1, ConstantFacts DEF Parts
  <2>5. /\ sound'[w] /\ at'[w] # "writing"
        /\ \A r \in Parts : r < step'[w] \/ at'[w] = "reporting" => Complete(task[w].seq, r)'
    BY <1>0, <1>1, <1>7, <2>3, <2>4
  <2> QED
    BY <1>1, <2>1, <2>2, <2>5 DEF MapsWritten, Complete
<1>9. OutputsWritten'
  BY <1>1, <1>3, <1>7 DEF FilesExact, OutputsWritten
<1> QED
  BY <1>8, <1>9 DEF FilesExact

LEMMA ReadFiles ==
    ASSUME TypeInv, InOnePlace, FilesExact, NEW w \in Worker, ReadInput(w) \/ ReadPart(w), ~Fails
    PROVE  FilesExact'
<1>1. at[w] = "reading" /\ UNCHANGED <<taskPhase, taskStates, task, fileVars>>
  BY ReadInputExact, ReadPartExact, WorkFrame DEF FilesExact, Work
<1>2. \A v \in Worker : v # w => at'[v] = at[v] /\ step'[v] = step[v] /\ sound'[v] = sound[v]
  BY WorkFrame DEF Work
<1>3. at[w] \in Active
  BY <1>1 DEF Active
<1>4. /\ sound'[w] /\ at'[w] \notin {"reporting", "writing"}
      /\ task[w].phase = "map" => step'[w] = 0
  <2>1. sound[w]
    BY <1>3, ConstantFacts DEF FilesExact, MapsWritten, OutputsWritten, TypeInv, WorkerTypes, Task, Phase
  <2>2. CASE ReadInput(w)
    BY <2>1, <2>2, ReadInputExact DEF TypeInv, WorkerTypes
  <2>3. CASE ReadPart(w)
    BY <2>1, <2>3, ReadPartExact DEF FilesExact, TypeInv, WorkerTypes
  <2> QED
    BY <2>2, <2>3
<1>5. MapsWritten'
  <2>1. \A m \in Maps : (taskPhase = "reduce" \/ Finished(m))' => \A r \in Parts : Complete(m, r)'
    BY <1>1 DEF FilesExact, MapsWritten, Finished, Complete
  <2>2. ASSUME NEW v \in Worker, v # w, at'[v] \in Active, task'[v].phase = "map"
        PROVE  /\ sound'[v]
               /\ \A r \in Parts : r < step'[v] \/ at'[v] = "reporting" => Complete(task[v].seq, r)'
               /\ at'[v] = "writing" => kvFile'[task'[v].seq][step'[v]].by = v
    BY <1>1, <1>2, <2>2 DEF FilesExact, MapsWritten, Complete
  <2>3. \A r \in Parts : ~(r < 0)
    BY DEF Parts
  <2> QED
    BY <1>1, <1>4, <2>1, <2>2, <2>3 DEF MapsWritten
<1>6. OutputsWritten'
  BY <1>1, <1>2, <1>4 DEF FilesExact, OutputsWritten, Finished
<1> QED
  BY <1>5, <1>6 DEF FilesExact

LEMMA OutputFiles ==
    ASSUME TypeInv, InOnePlace, FilesExact, NEW w \in Worker, WriteOutput(w), ~Fails
    PROVE  FilesExact'
<1> DEFINE n == task[w].seq
<1>1. /\ at[w] = "output" /\ task[w].phase = "reduce" /\ Reports(w, TRUE, "asking")
      /\ outFile' = [outFile EXCEPT ![n] = "exact"] /\ UNCHANGED <<sound, step, task, kvFile>>
      /\ UNCHANGED <<taskPhase, taskStates>>
  BY WriteOutputExact DEF FilesExact, WriteOutput
<1>2. at[w] \in Active /\ sound[w] /\ n \in Parts
  BY <1>1, ConstantFacts DEF FilesExact, OutputsWritten, Active, TypeInv, WorkerTypes, WorkerAt, PlaceOf, Proper
<1>3. at'[w] = "reporting" /\ \A v \in Worker : v # w => at'[v] = at[v]
  BY <1>1 DEF Reports, TypeInv, WorkerTypes
<1>4. \A r \in Parts : outFile'[r] = IF r = n THEN "exact" ELSE outFile[r]
  BY <1>1 DEF TypeInv, FileTypes
<1> HIDE DEF n
<1>5. MapsWritten'
  <2>1. \A m \in Maps : (taskPhase = "reduce" \/ Finished(m))' => \A r \in Parts : Complete(m, r)'
    BY <1>1 DEF FilesExact, MapsWritten, Finished, Complete
  <2>2. \A v \in Worker : at'[v] \in Active /\ task'[v].phase = "map" =>
          /\ v # w /\ sound'[v]
          /\ \A r \in Parts : r < step'[v] \/ at'[v] = "reporting" => Complete(task[v].seq, r)'
          /\ at'[v] = "writing" => kvFile'[task'[v].seq][step'[v]].by = v
    BY <1>1, <1>3 DEF FilesExact, MapsWritten, Complete
  <2> QED
    BY <1>1, <2>1, <2>2 DEF MapsWritten
<1>6. OutputsWritten'
  <2>1. \A v \in Worker : v # w /\ at[v] \in Active /\ task[v].phase = "reduce" => task[v].seq \in Parts
    BY ConstantFacts DEF TypeInv, WorkerTypes, WorkerAt, PlaceOf, Proper
  <2> QED
    BY <1>1, <1>2, <1>3, <1>4, <2>1 DEF FilesExact, OutputsWritten, Finished, n
<1> QED
  BY <1>5, <1>6 DEF FilesExact

LEMMA FilesStep ==
    ASSUME TypeInv, ScanFound, InOnePlace, FilesExact, [Next]_vars, Undisturbed'
    PROVE  FilesExact'
<1>1. ~Expire /\ ~Fails
  BY DisturbedForGood
<1>2. ASSUME UNCHANGED <<taskPhase, taskStates, fileVars, task, step, sound, at>> PROVE FilesExact'
  BY <1>2, KeepsFiles
<1>3. CASE BeginScan \/ SkipTask \/ UNCHANGED vars
  BY <1>2, <1>3 DEF BeginScan, SkipTask, vars
<1>4. CASE QueueTask
  <2>1. /\ Scanning /\ Requeue /\ UNCHANGED <<taskPhase, fileVars, task, step, sound, at>>
    BY <1>4 DEF QueueTask, Requeue
  <2>2. \A t \in Tasks(taskPhase) :
          taskStates'[t].status = "Terminated" => taskStates[t].status = "Terminated"
    BY <2>1, RequeueTable
  <2> QED
    BY <2>1, <2>2, KeepsFiles
\* One worker leaves its work or takes up new one.
<1>5. ASSUME NEW w \in Worker, UNCHANGED <<taskPhase, taskStates, fileVars, step, sound>>,
             \A v \in Worker : v # w => at'[v] = at[v] /\ task'[v] = task[v],
             at'[w] \notin Active \/ (at'[w] = at[w] /\ task'[w] = task[w])
      PROVE  FilesExact'
  BY <1>5, KeepsFiles
<1>6. ASSUME NEW w \in Worker, RegWorker(w) PROVE FilesExact'
  <2>1. /\ UNCHANGED <<taskPhase, taskStates, fileVars, step, sound, task>>
        /\ at' = [at EXCEPT ![w] = IF w \in dead THEN "gone" ELSE "asking"]
    BY <1>6 DEF RegWorker, GoesOn
  <2>2. at'[w] \notin Active /\ \A v \in Worker : v # w => at'[v] = at[v]
    BY <2>1 DEF TypeInv, WorkerTypes, Active
  <2> QED
    BY <1>5, <2>1, <2>2
<1>7. ASSUME NEW w \in Worker, ReceiveTask(w) PROVE FilesExact'
  <2>1. /\ UNCHANGED <<taskPhase, taskStates, fileVars, step, sound>>
        /\ at' = [at EXCEPT ![w] = "assigning"] /\ task' = [task EXCEPT ![w] = Head(taskChan)]
    BY <1>7 DEF ReceiveTask
  <2>2. at'[w] \notin Active /\ \A v \in Worker : v # w => at'[v] = at[v] /\ task'[v] = task[v]
    BY <2>1 DEF TypeInv, WorkerTypes, Active
  <2> QED
    BY <1>5, <2>1, <2>2
<1>8. ASSUME NEW w \in Worker, Crash(w) PROVE FilesExact'
  <2>1. /\ UNCHANGED <<taskPhase, taskStates, fileVars, step, sound, task>>
        /\ at' = at \/ at' = [at EXCEPT ![w] = "gone"]
    BY <1>8 DEF Crash
  <2>2. /\ at'[w] \notin Active \/ at'[w] = at[w]
        /\ \A v \in Worker : v # w => at'[v] = at[v]
    BY <2>1 DEF TypeInv, WorkerTypes, Active
  <2> QED
    BY <1>5, <2>1, <2>2
<1>9. ASSUME NEW w \in Worker, Work(w) PROVE FilesExact'
  BY <1>1, <1>9, ReadFiles, CreateFiles, WriteFiles, OutputFiles, NothingElseExact DEF Work
<1> QED
  BY <1>1, <1>3, <1>4, <1>6, <1>7, <1>8, <1>9, AssignFiles, ReportFiles, EndScanFiles,
     NothingElseExact DEF Next, Scan, Call

-----------------------------------------------------------------------------
LEMMA ExactInit == Init => MapReduceInv
<1> SUFFICES ASSUME Init PROVE MapReduceInv
  OBVIOUS
<1>1. \A t \in Tasks(taskPhase) : taskStates[t].status = "New"
  BY DEF Init, NewTable
<1>2. RunsRegistered /\ ReadyIsQueued
  BY <1>1 DEF RunsRegistered, ReadyIsQueued
<1>3. ScanFound /\ LateIsExpired
  BY DEF Init, NewScan, ScanFound, LateIsExpired
<1>4. \A w \in Worker : at[w] = "starting"
  BY DEF Init
<1>5. InOnePlace
  <2>1. Len(taskChan) = 0 /\ ~done /\ muLock = "free"
    BY DEF Init
  <2> QED
    BY <1>1, <1>4, <2>1 DEF InOnePlace, NoneFailed, QueuedOnce, TakenOnce, RunOnce, Active
<1>6. FilesExact
  <2>1. taskPhase = "map" /\ \A r \in Parts : outFile[r] = "none"
    BY DEF Init
  <2> QED
    BY <1>1, <1>4, <2>1, ConstantFacts DEF FilesExact, MapsWritten, OutputsWritten, Finished, Active
<1> QED
  BY <1>2, <1>3, <1>5, <1>6, TypesInit DEF MapReduceInv

LEMMA ExactStep == MapReduceInv /\ [Next]_vars => MapReduceInv'
<1> SUFFICES ASSUME MapReduceInv, [Next]_vars PROVE MapReduceInv'
  OBVIOUS
<1> USE DEF MapReduceInv
<1>1. TypeInv' /\ RunsRegistered' /\ ReadyIsQueued' /\ ScanFound' /\ LateIsExpired'
  BY TypesStep, RunningStep, QueuedStep, ScanFoundStep, LateStep
<1>2. ASSUME Undisturbed' PROVE InOnePlace' /\ FilesExact'
  BY <1>2, DisturbedForGood, OnePlaceStep, FilesStep
<1> QED
  BY <1>1, <1>2

\* Without a timeout and without a failed file operation, in any schedule and whatever crashes,
\* every output is exact when the coordinator says it is done, and never short before.
THEOREM UndisturbedIsExact == Spec => []OutputsExact
<1>1. MapReduceInv => OutputsExact
  <2> SUFFICES ASSUME MapReduceInv, Undisturbed
               PROVE  /\ done => \A r \in Parts : outFile[r] = "exact"
                      /\ \A r \in Parts : outFile[r] # "short"
    BY DEF OutputsExact
  <2>1. ScanFound /\ NoneFailed /\ OutputsWritten
    BY DEF MapReduceInv, InOnePlace, FilesExact
  <2>2. done => \A r \in Parts : Finished(r)
    BY <2>1, ConstantFacts DEF ScanFound, NoneFailed
  <2> QED
    BY <2>1, <2>2 DEF ScanFound, OutputsWritten
<1> QED
  BY <1>1, ExactInit, ExactStep, PTL DEF Spec

\* GetOneTask's return without Unlock is out of reach as long as nothing goes wrong: the lock of
\* the table is lost only after a timeout or a failed file operation.
THEOREM LeakNeedsFault == Spec => []LockLeakNeedsFault
<1>1. MapReduceInv => LockLeakNeedsFault
  BY DEF MapReduceInv, InOnePlace, LockLeakNeedsFault
<1> QED
  BY <1>1, ExactInit, ExactStep, PTL DEF Spec
=============================================================================
