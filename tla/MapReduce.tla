------------------------------ MODULE MapReduce ------------------------------
(***************************************************************************)
(* The MapReduce coordinator and its workers.  The coordinator keeps a     *)
(* table of the tasks of the current phase and a bounded queue of tasks to *)
(* hand out; muLock guards the table, not the queue.  A scan, which holds  *)
(* muLock, queues the tasks that are new, failed or timed out, blocks when *)
(* the queue is full, and moves from the map to the reduce phase and to    *)
(* done.  A worker's RPC runs in a goroutine of the coordinator, and goes  *)
(* on when the worker has crashed.                                         *)
(***************************************************************************)
EXTENDS Naturals, Sequences, FiniteSets

CONSTANTS
  Worker,        \* the worker processes
  NMap,          \* number of input files
  NReduce,       \* number of partitions
  Crashable,     \* the workers that may crash
  MaxEarly,      \* bound: tasks that time out while their worker lives
  MaxErrors,     \* bound: file operations that fail
  Nobody         \* no worker

ASSUME MapReduceAssumption ==
  /\ NMap \in Nat \ {0} /\ NReduce \in Nat \ {0}
  /\ MaxEarly \in Nat /\ MaxErrors \in Nat
  /\ IsFiniteSet(Worker) /\ Crashable \subseteq Worker /\ Nobody \notin Worker

VARIABLES
  taskPhase,     \* "map" or "reduce"
  taskStates,    \* status of each task of the phase, and its WorkerId
  taskChan,      \* the queue of tasks
  done,
  workerSeq,     \* the last worker id given
  muLock,        \* "free", held by a scan, or "leaked" by GetOneTask
  scan,          \* the task a scan looks at, whether it has timed out, and allDone
  at,            \* where each worker, or the RPC it waits for, is
  id,            \* the worker's id, 0 before it registered
  task,          \* the task in a worker's hands
  step,          \* the partition or file the worker is at
  sound,         \* nothing of this task was read short or failed
  report,        \* the report in flight, and where the worker goes on after it
  dead,          \* workers that crashed
  kvFile,        \* mr-kv-m-r: who created it last, and whether it is whole
  outFile,       \* mr-out-r
  early, errors, \* how often each fault happened
  expired        \* a task has timed out

queueVars == <<taskPhase, taskStates, taskChan, done, workerSeq, muLock, scan>>
workVars  == <<task, step, sound, report>>
fileVars  == <<kvFile, outFile>>
faultVars == <<dead, early, errors, expired>>
vars == <<queueVars, at, id, workVars, fileVars, faultVars>>

Phase  == {"map", "reduce"}
Status == {"New", "Ready", "Running", "Terminated", "Error"}
Maps   == 0 .. NMap - 1
Parts  == 0 .. NReduce - 1
Tasks(phase) == IF phase = "map" THEN Maps ELSE Parts
Task   == [phase : Phase, seq : Maps \cup Parts]
NoTask == [phase |-> "map", seq |-> 0]
NewScan == [next |-> 0, allDone |-> TRUE, late |-> FALSE]
NoReport == [done |-> TRUE, resume |-> "asking"]
Place  == {"starting", "asking", "assigning", "reading", "creating",
           "writing", "output", "failed", "reporting", "gone"}
Calls  == {"starting", "asking", "assigning", "reporting"}

(* The queue holds as many tasks as the longer phase has. *)
ChanSize == IF NMap > NReduce THEN NMap ELSE NReduce
(* Variant with a fault: the table keeps its first length. *)
TableOfFiles(phase) == [t \in Maps |-> [status |-> "New", worker |-> 0]]
NewTable(phase) == [t \in Tasks(phase) |-> [status |-> "New", worker |-> 0]]
NewOneTask(seq) == [phase |-> taskPhase, seq |-> seq]

Init ==
  /\ taskPhase = "map" /\ taskStates = NewTable("map")
  /\ taskChan = <<>> /\ done = FALSE /\ workerSeq = 0
  /\ muLock = "free" /\ scan = NewScan
  /\ at = [w \in Worker |-> "starting"] /\ id = [w \in Worker |-> 0]
  /\ task = [w \in Worker |-> NoTask] /\ step = [w \in Worker |-> 0]
  /\ sound = [w \in Worker |-> TRUE]
  /\ report = [w \in Worker |-> NoReport]
  /\ dead = {} /\ early = 0 /\ errors = 0 /\ expired = FALSE
  /\ kvFile = [m \in Maps |-> [r \in Parts |-> [by |-> Nobody, whole |-> FALSE]]]
  /\ outFile = [r \in Parts |-> "none"]

-----------------------------------------------------------------------------
(* scanTaskState: the schedule goroutine runs it again and again until     *)
(* done, and each report starts one more; whichever gets muLock runs.      *)

BeginScan ==
  /\ muLock = "free" /\ ~done
  /\ muLock' = "scan" /\ scan' = NewScan
  /\ UNCHANGED <<taskPhase, taskStates, taskChan, done, workerSeq, at, id,
                 workVars, fileVars, faultVars>>

Scanned == taskStates[scan.next].status
Scanning == muLock = "scan" /\ scan.next \in DOMAIN taskStates
ScanOn(allDone) == scan' = [next |-> scan.next + 1, allDone |-> allDone, late |-> FALSE]

(* Variant with a fault: a task that finds the queue full is dropped. *)
RequeueIfRoom ==
  /\ taskStates' = [taskStates EXCEPT ![scan.next].status = "Ready"]
  /\ taskChan' = IF Len(taskChan) < ChanSize THEN Append(taskChan, NewOneTask(scan.next)) ELSE taskChan
  /\ ScanOn(FALSE)
  /\ UNCHANGED <<taskPhase, done, workerSeq, muLock, at, id, workVars, fileVars>>

(* Variant with a fault: the status stays as it was. *)
RequeueUnmarked ==
  /\ Len(taskChan) < ChanSize
  /\ taskChan' = Append(taskChan, NewOneTask(scan.next))
  /\ ScanOn(FALSE)
  /\ UNCHANGED <<taskPhase, taskStates, done, workerSeq, muLock, at, id, workVars, fileVars>>

(* The task is made Ready and queued; the send waits while the queue is full. *)
Requeue ==
  /\ Len(taskChan) < ChanSize
  /\ taskStates' = [taskStates EXCEPT ![scan.next].status = "Ready"]
  /\ taskChan' = Append(taskChan, NewOneTask(scan.next))
  /\ ScanOn(FALSE)
  /\ UNCHANGED <<taskPhase, done, workerSeq, muLock, at, id, workVars, fileVars>>

(* A send that waits for room keeps muLock. *)
Overdue == Scanned = "Running" /\ scan.late
QueueTask ==
  /\ Scanning /\ (Scanned \in {"New", "Error"} \/ Overdue)
  /\ Requeue
  /\ UNCHANGED faultVars

(* Variant with a fault: a task that timed out is not queued again. *)
ExpireUnqueued ==
  /\ Scanning /\ Scanned = "Running"
  /\ \E w \in dead : id[w] = taskStates[scan.next].worker
  /\ taskStates' = [taskStates EXCEPT ![scan.next].status = "Ready"]
  /\ ScanOn(FALSE)
  /\ expired' = TRUE
  /\ UNCHANGED <<taskPhase, taskChan, done, workerSeq, muLock, at, id, workVars,
                 fileVars, dead, early, errors>>

(* Five seconds have passed since the task was handed out: always true of  *)
(* a crashed worker in the end, and of a slow one MaxEarly times.  Then    *)
(* the task is queued, however long that takes.                            *)
TimedOut ==
  \E w \in Worker :
    /\ id[w] = taskStates[scan.next].worker
    /\ \/ w \in dead /\ early' = early
       \/ w \notin dead /\ early < MaxEarly /\ early' = early + 1

Expire ==
  /\ Scanning /\ Scanned = "Running" /\ ~scan.late
  /\ TimedOut
  /\ scan' = [scan EXCEPT !.late = TRUE]
  /\ expired' = TRUE
  /\ UNCHANGED <<taskPhase, taskStates, taskChan, done, workerSeq, muLock, at, id, workVars,
                 fileVars, dead, errors>>

(* The other tasks stay; all but the terminated ones keep the phase open. *)
RunningIsDone(status) == status \notin {"Terminated", "Running"}   \* variant with a fault
KeepsOpen(status) == status # "Terminated"
SkipTask ==
  /\ Scanning /\ Scanned \in {"Ready", "Running", "Terminated"} /\ ~Overdue
  /\ ScanOn(scan.allDone /\ ~KeepsOpen(Scanned))
  /\ UNCHANGED <<taskPhase, taskStates, taskChan, done, workerSeq, muLock, at,
                 id, workVars, fileVars, faultVars>>

EndScan ==
  /\ muLock = "scan" /\ scan.next \notin DOMAIN taskStates
  /\ muLock' = "free" /\ scan' = NewScan
  /\ \/ /\ scan.allDone /\ taskPhase = "map"
        /\ taskPhase' = "reduce" /\ taskStates' = NewTable("reduce")
        /\ UNCHANGED done
     \/ /\ scan.allDone /\ taskPhase = "reduce"
        /\ done' = TRUE
        /\ UNCHANGED <<taskPhase, taskStates>>
     \/ /\ ~scan.allDone
        /\ UNCHANGED <<taskPhase, taskStates, done>>
  /\ UNCHANGED <<taskChan, workerSeq, at, id, workVars, fileVars, faultVars>>

-----------------------------------------------------------------------------
(* The RPCs.  A worker that crashed does not see the reply. *)

GoesOn(w, place) == at' = [at EXCEPT ![w] = IF w \in dead THEN "gone" ELSE place]

RegWorker(w) ==
  /\ at[w] = "starting" /\ muLock = "free"
  /\ workerSeq' = workerSeq + 1
  /\ id' = [id EXCEPT ![w] = workerSeq + 1]
  /\ GoesOn(w, "asking")
  /\ UNCHANGED <<taskPhase, taskStates, taskChan, done, muLock, scan, workVars,
                 fileVars, faultVars>>

(* GetOneTask takes a task from the queue before it takes muLock ... *)
ReceiveTask(w) ==
  /\ at[w] = "asking" /\ taskChan # <<>>
  /\ task' = [task EXCEPT ![w] = Head(taskChan)]
  /\ taskChan' = Tail(taskChan)
  /\ at' = [at EXCEPT ![w] = "assigning"]
  /\ UNCHANGED <<taskPhase, taskStates, done, workerSeq, muLock, scan, id, step,
                 sound, report, fileVars, faultVars>>

(* ... and when the phase has changed meanwhile, returns without Unlock. *)
RefuseTask(w) ==
  /\ at[w] = "assigning" /\ muLock = "free"
  /\ task[w].phase # taskPhase
  /\ muLock' = "leaked"
  /\ GoesOn(w, "asking")
  /\ UNCHANGED <<taskPhase, taskStates, taskChan, done, workerSeq, scan, id,
                 workVars, fileVars, faultVars>>

AssignTask(w) ==
  /\ at[w] = "assigning" /\ muLock = "free"
  /\ task[w].phase = taskPhase
  /\ taskStates' = [taskStates EXCEPT ![task[w].seq] = [status |-> "Running", worker |-> id[w]]]
  /\ step' = [step EXCEPT ![w] = 0]
  /\ sound' = [sound EXCEPT ![w] = TRUE]
  /\ GoesOn(w, "reading")
  /\ UNCHANGED <<taskPhase, taskChan, done, workerSeq, muLock, scan, id, task,
                 report, fileVars, faultVars>>

(* A report of an earlier phase, or of a task now given to another worker, *)
(* changes nothing.                                                        *)
Honoured(w) ==
  /\ taskPhase = task[w].phase
  /\ taskStates[task[w].seq].worker = id[w]

(* What doTask knew of the task goes with its return. *)
Forgets(w) ==
  /\ task' = [task EXCEPT ![w] = NoTask] /\ step' = [step EXCEPT ![w] = 0]
  /\ sound' = [sound EXCEPT ![w] = TRUE]
  /\ report' = [report EXCEPT ![w] = NoReport]

ReportTask(w) ==
  /\ at[w] = "reporting" /\ muLock = "free"
  /\ taskStates' =
       IF Honoured(w)
       THEN [taskStates EXCEPT ![task[w].seq].status =
               IF report[w].done THEN "Terminated" ELSE "Error"]
       ELSE taskStates
  /\ GoesOn(w, report[w].resume)
  /\ IF at'[w] \in {"asking", "gone"} THEN Forgets(w) ELSE UNCHANGED workVars
  /\ UNCHANGED <<taskPhase, taskChan, done, workerSeq, muLock, scan, id,
                 fileVars, faultVars>>

-----------------------------------------------------------------------------
(* The worker.  Each file operation may fail.  doMapTask and doReduceTask  *)
(* go on after some failed writes, and then report success as well.        *)

Works(w, place, phase) == w \notin dead /\ at[w] = place /\ task[w].phase = phase
Fails == errors < MaxErrors /\ errors' = errors + 1 /\ UNCHANGED <<dead, early, expired>>

Reports(w, ok, resume) ==
  /\ report' = [report EXCEPT ![w] = [done |-> ok, resume |-> resume]]
  /\ at' = [at EXCEPT ![w] = "reporting"]

GivesUp(w) ==
  /\ Fails
  /\ Reports(w, FALSE, "asking")
  /\ UNCHANGED <<queueVars, id, task, step, sound, fileVars>>

ReadInput(w) ==
  /\ Works(w, "reading", "map")
  /\ \/ /\ at' = [at EXCEPT ![w] = "creating"]
        /\ UNCHANGED <<queueVars, id, workVars, fileVars, faultVars>>
     \/ GivesUp(w)

(* os.Create empties the file, whoever wrote it before. *)
CreateFile(w) ==
  /\ Works(w, "creating", "map")
  /\ \/ /\ kvFile' = [kvFile EXCEPT ![task[w].seq][step[w]] = [by |-> w, whole |-> FALSE]]
        /\ at' = [at EXCEPT ![w] = "writing"]
        /\ UNCHANGED <<queueVars, id, workVars, outFile, faultVars>>
     \/ GivesUp(w)

(* Whoever created the file last makes it whole; another who still writes  *)
(* into it may or may not fill what was cut off.                           *)
WriteFile(w) ==
  /\ Works(w, "writing", "map")
  /\ LET file == kvFile[task[w].seq][step[w]]
     IN  \E whole \in IF ~sound[w] THEN {file.whole}
                      ELSE IF file.by = w THEN {TRUE} ELSE BOOLEAN :
           kvFile' = [kvFile EXCEPT ![task[w].seq][step[w]].whole = whole]
  /\ step' = [step EXCEPT ![w] = @ + 1]
  /\ sound' = [sound EXCEPT ![w] = TRUE]
  /\ IF step[w] + 1 \in Parts
     THEN at' = [at EXCEPT ![w] = "creating"] /\ UNCHANGED report
     ELSE Reports(w, TRUE, "asking")
  /\ UNCHANGED <<queueVars, id, task, outFile, faultVars>>

(* A failed write is reported, and the worker writes on. *)
WriteFails(w) ==
  /\ Works(w, "writing", "map") /\ Fails
  /\ sound' = [sound EXCEPT ![w] = FALSE]
  /\ Reports(w, FALSE, "writing")
  /\ UNCHANGED <<queueVars, id, task, step, fileVars>>

(* A file that ends early is read as far as it goes, without an error. *)
ReadPart(w) ==
  LET file == kvFile[step[w]][task[w].seq]
  IN  /\ Works(w, "reading", "reduce")
      /\ \/ /\ file.by = Nobody
            /\ Reports(w, FALSE, "asking")
            /\ UNCHANGED <<step, sound, faultVars>>
         \/ /\ file.by # Nobody
            /\ sound' = [sound EXCEPT ![w] = @ /\ file.whole]
            /\ step' = [step EXCEPT ![w] = @ + 1]
            /\ at' = [at EXCEPT ![w] = IF step[w] + 1 \in Maps THEN "reading" ELSE "output"]
            /\ UNCHANGED <<report, faultVars>>
         \/ /\ Fails
            /\ Reports(w, FALSE, "asking")
            /\ UNCHANGED <<step, sound>>
      /\ UNCHANGED <<queueVars, id, task, fileVars>>

WriteOutput(w) ==
  /\ Works(w, "output", "reduce")
  /\ \/ /\ outFile' = [outFile EXCEPT ![task[w].seq] = IF sound[w] THEN "exact" ELSE "short"]
        /\ Reports(w, TRUE, "asking")
        /\ UNCHANGED <<sound, faultVars>>
     \/ /\ Fails
        /\ outFile' = [outFile EXCEPT ![task[w].seq] = "short"]
        /\ sound' = [sound EXCEPT ![w] = FALSE]
        /\ Reports(w, FALSE, "failed")
  /\ UNCHANGED <<queueVars, id, task, step, kvFile>>

(* No return after the failed write: success is reported next. *)
ReportAnyway(w) ==
  /\ w \notin dead /\ at[w] = "failed"
  /\ Reports(w, TRUE, "asking")
  /\ UNCHANGED <<queueVars, id, task, step, sound, fileVars, faultVars>>

(* The process dies.  A call it has made goes on in the coordinator. *)
Crash(w) ==
  /\ w \in Crashable \ dead
  /\ dead' = dead \cup {w}
  /\ \/ at[w] # "assigning" /\ at' = [at EXCEPT ![w] = "gone"]
     \/ at[w] \in Calls /\ UNCHANGED at
  /\ UNCHANGED <<queueVars, id, workVars, fileVars, early, errors, expired>>

-----------------------------------------------------------------------------
Scan == BeginScan \/ QueueTask \/ Expire \/ SkipTask \/ EndScan
Call(w) == RegWorker(w) \/ RefuseTask(w) \/ AssignTask(w) \/ ReportTask(w)
Work(w) ==
  \/ ReadInput(w) \/ CreateFile(w) \/ WriteFile(w) \/ WriteFails(w)
  \/ ReadPart(w) \/ WriteOutput(w) \/ ReportAnyway(w)
Next == Scan \/ \E w \in Worker : ReceiveTask(w) \/ Call(w) \/ Work(w) \/ Crash(w)

(* The schedule goroutine runs on, a live worker works on, and sync.Mutex  *)
(* and a Go channel leave nobody waiting for ever among those they serve;  *)
(* a task whose worker crashed times out in the end.                       *)
Fairness ==
  /\ WF_vars(BeginScan \/ QueueTask \/ SkipTask \/ EndScan)
  /\ SF_vars(Expire /\ UNCHANGED early)
  /\ \A w \in Worker :
       /\ SF_vars(Call(w))
       /\ SF_vars(ReceiveTask(w))
       /\ WF_vars(Work(w))

Spec == Init /\ [][Next]_vars /\ Fairness

-----------------------------------------------------------------------------
(* The state has its types, and the queue and the table their sizes. *)
TypeOK ==
  /\ taskPhase \in Phase /\ done \in BOOLEAN /\ workerSeq \in 0 .. Cardinality(Worker)
  /\ taskStates \in [Tasks(taskPhase) -> [status : Status, worker : 0 .. workerSeq]]
  /\ taskChan \in Seq(Task) /\ Len(taskChan) <= ChanSize
  /\ muLock \in {"free", "scan", "leaked"}
  /\ scan \in [next : 0 .. ChanSize, allDone : BOOLEAN, late : BOOLEAN]
  /\ at \in [Worker -> Place] /\ id \in [Worker -> 0 .. workerSeq]
  /\ task \in [Worker -> Task] /\ step \in [Worker -> 0 .. ChanSize]
  /\ sound \in [Worker -> BOOLEAN]
  /\ report \in [Worker -> [done : BOOLEAN, resume : {"asking", "writing", "failed"}]]
  /\ dead \subseteq Crashable /\ early \in 0 .. MaxEarly /\ errors \in 0 .. MaxErrors
  /\ expired \in BOOLEAN
  /\ kvFile \in [Maps -> [Parts -> [by : Worker \cup {Nobody}, whole : BOOLEAN]]]
  /\ outFile \in [Parts -> {"none", "short", "exact"}]

(* No task is lost: one that is Ready, which no scan ever looks at again,  *)
(* is in the queue or in the hands of a GetOneTask, and one that runs is   *)
(* run by a registered worker, whose crash a scan will notice.             *)
Queued(t) ==
  \/ \E i \in DOMAIN taskChan : taskChan[i] = [phase |-> taskPhase, seq |-> t]
  \/ \E w \in Worker : at[w] = "assigning" /\ task[w] = [phase |-> taskPhase, seq |-> t]
NoTaskLost ==
  \A t \in Tasks(taskPhase) :
    /\ taskStates[t].status = "Ready" => Queued(t)
    /\ taskStates[t].status = "Running" => \E w \in Worker : id[w] = taskStates[t].worker

(* Without a timeout and without a failing file operation nothing runs     *)
(* twice and the reduce phase reads only what was written to the end: when *)
(* the coordinator says it is done, every output is exact.                 *)
Undisturbed == ~expired /\ errors = 0
OutputsExact ==
  Undisturbed =>
    /\ done => \A r \in Parts : outFile[r] = "exact"
    /\ \A r \in Parts : outFile[r] # "short"

(* muLock is lost only where a task was queued twice, and that takes a     *)
(* timeout or a failed operation: GetOneTask's return without Unlock is    *)
(* out of reach as long as nothing goes wrong.                             *)
LockLeakNeedsFault == muLock = "leaked" => ~Undisturbed

(* Everyone who could make room in the queue waits for the scan's lock.    *)
ScanStuck ==
  /\ Scanning /\ (Scanned \in {"New", "Error"} \/ Overdue) /\ Len(taskChan) = ChanSize
  /\ \A w \in Worker : at[w] \in {"starting", "assigning", "reporting", "gone"}

(* With a worker that lives, the job is done in the end, whatever crashes, *)
(* times out or fails, unless muLock is lost or held by a scan for ever.   *)
Finishes == <>(done \/ muLock = "leaked" \/ ScanStuck)
=============================================================================
