# A verification project for the distributed-systems assignments

This directory models the programs of the repository whose logic is concurrent or distributed:
two implementations of Raft, the key/value service above one of them, the MapReduce coordinator
with its workers, and the goroutine exercises. It holds TLA+ modules, TLC configurations, and
theorems with proofs for TLAPS. `PROJECT.json` lists the components, the runs, the source lines
behind every definition, the hazards and the theorems.

Paths below are relative to `src/`; `R` is
`分布式计算（实验）/实验课期末大作业（raft）-zrc/代码/Raft2C`.

## Inventory

| Component | State | Operations | What makes it correct |
|---|---|---|---|
| Raft peer, `R/raft.go` | role, term, vote, log with a snapshot marker in slot 0, commit and applied indexes, nextIndex/matchIndex, timers | startElection, RequestVote, AppendEntries, sendAppendEntriesToPeer, Start, tryCommitLog, persist/readPersist | one leader a term, one vote a term, logs that match, committed entries that stay, on a majority of disks |
| Raft snapshots, `R/raft.go` | lastSnapshotIndex/Term, the persisted snapshot | Snapshot, CondInstallSnapshot, InstallSnapshot, sendInstallSnapshotToPeer | indexes stay in the log; a snapshot never undoes newer information |
| Apply loop, `R/raft.go` | applyCh, notifyApplyCh, applyTimer, lastApplied | startApplyLogs, ticker | entries reach the service once and in order; nobody waits for ever |
| Persister, `R/persister.go` | raft state and snapshot | SaveRaftState, SaveStateAndSnapshot | both are written in one step |
| Service and harness, `R/config.go` | commands applied by each server, the snapshot of every tenth | applierSnap, ingestSnap, checkLogs, crash1, start1 | no two servers apply different commands at an index |
| Raft2A, Raft2B | `raft.go`, `persister.go` and `config.go` are the files of Raft2C, byte for byte | | |
| Lab-3A raft, `分布式计算（理论）/理论大作业-zrc/代码/Lab-3A/raft` | a second, independent Raft with one event loop | the same | the same |
| kvraft, `Lab-3A/kvraft`, `Lab-3B/kvraft` | the store, the last request of every clerk, waiting channels | Get, PutAppend, the apply loop, snapshots | every clerk's request takes effect once, and answers reach the caller |
| MapReduce, `分布式计算（实验）/实验课中期作业（mapreduce）-zrc/mr` | the task table, its queue, workers | GetOneTask, RegWorker, ReportTask, the timeout scan | every task is done, the reduce phase starts after the map phase, Done is reached |
| Go exercises, `分布式计算（实验）/实验课第二次作业-zrc/代码` | goroutines, channels, wait groups | | the printed result does not depend on the schedule |
| C++, assembly, Python assignments | | sequential programs | not modelled, see below |

The parts interact by RPC (labrpc, not in the repository: it delays, drops and reorders calls),
through `applyCh` (peer to service), by calls of the service into its peer (`Start`,
`Snapshot`, `CondInstallSnapshot`), and through `rf.mu`, which every handler, timer goroutine and
reply goroutine of a peer takes. What is hard about them: replies that arrive after the peer's
role or term changed, replies read after a timeout while they are still being written, RPCs
executed twice or late, crashes between two persisted steps, log indexes relative to a snapshot
that moves, and channel sends made with the mutex held.

## Modules

| Module | What it is | Code |
|---|---|---|
| `Raft` | the peers, their disks, their goroutines, the network and the service: one action per critical section of `rf.mu` | Raft2C |
| `RaftSafety` | type invariant, safety invariants, action properties, the two refinement mappings | |
| `Voting` | abstract specification: what an election promises | Raft2A |
| `CommitLog` | abstract specification: one log that is committed and only grows | Raft2A |
| `RaftApply` | one server: the peers made for it one after the other, their services, `rf.mu`, `applyCh`, `notifyApplyCh` and the apply timer, one lock or channel operation a step | Raft2B |
| `Lab3ARaft` | the second Raft, with what it does outside its lock | Lab-3A/raft |
| `KVServer` | clerks and key/value servers of both labs, over a committed log | Lab-3A, Lab-3B kvraft |
| `MapReduce` | coordinator, queue, workers, files | mapreduce |
| `Exercises` | the five goroutine programs | exercises |
| `MCRaft`, `MCRaftApply`, `MCLab3ARaft`, `MCKVServer`, `MCMapReduce`, `MCExercises` | instances for TLC | |
| `RaftProofs` | types, votes, elections, and that `Raft` implements `Voting`, proved | |
| `RaftLogProofs` | log matching as long as no log is compacted, proved | |
| `RaftCommitProofs` | that committed entries stay, and that `Raft` implements `CommitLog`, proved within the limits beyond which the code loses entries | |
| `RaftApplyProofs` | the order in which `RaftApply` delivers, and its deadlocks, proved | |
| `Lab3AProofs` | the types, the elections and the senders of `Lab3ARaft`, proved | |
| `KVServerProofs` | the stores, the clerks' history and the channels of `KVServer`, proved | |
| `MapReduceProofs` | the task table and, without faults, the outputs of `MapReduce`, proved | |
| `ExercisesProofs` | what the five programs of `Exercises` report, proved | |

The three copies of `raft.go` are one program. `PROJECT.json` gives the lines of `Raft` in
Raft2C, those of `RaftApply` in Raft2B, and those of the abstract specifications in Raft2A; the
lines of `KVServer` are divided between Lab-3A and Lab-3B in the same way where the two agree.

`Raft` and `RaftApply` overlap on purpose. `Raft` has several peers and takes a critical section
for one step; `RaftApply` has one server, hears of the others only what they make it do (commit,
install a snapshot), keeps the goroutines of its killed peers, and takes critical sections apart at the channel operations inside
them. `KVServer` relies on what Raft promises its services, which `CommitLog` states and
`raft_failover` shows of `Raft`; the Raft under Lab-3A keeps it only in the absence of what
`Lab3ARaft` calls accidents.

### How `Raft` corresponds to the code

A variable with the name of a field is that field. `logs[i]` is the code's slice without slot 0,
whose term is `lastSnapshotTerm[i]`, so index `k` of the log is `logs[i][k - lastSnapshotIndex[i]]`.
`disk[i]` is the persister. `election[i]` is the loop of `startElection` that counts votes;
`campaigns[i]` the terms whose vote goroutines may still see a reply; `aeCall[i][j]` the call the
goroutine of peer `j` waits on, with the replies the network has for it; `snapPending[i]` the
`sendInstallSnapshotToPeer` goroutines that have not yet run; `batch[i]` the messages
`startApplyLogs` computed and has not sent; `applied[i]` and `svc[i]` the service's commands and
the call into the peer it is about to make.

| Action | Code |
|---|---|
| `StartElection`, `CollectVote`, `AbandonElection` | `startElection`, up to its unlock; its loop over grantedChan; its reply goroutines |
| `RequestVote` = `RefuseVote`, `RepeatVote`, `GrantVote`, `AdoptTerm` | `RequestVote`, split by its early returns |
| `Start` | `Start` |
| `SendAppendEntries`, `HandleAppendReply` | `sendAppendEntriesToPeer` before and after the call |
| `AppendEntries` = `AppendStale`, `AppendAccepted`, `AppendRefused` | `AppendEntries` |
| `SendSnapshot`, `InstallSnapshot`, `HandleSnapshotReply` | `sendInstallSnapshotToPeer`, `InstallSnapshot` |
| `Snapshot`, `CondInstallSnapshot` | the service's calls, with `ingestSnap` |
| `StartApplyLogs`, `ApplyOne` | `startApplyLogs` up to its unlock; one send and the service's receive |
| `Restart` | `crash1` and `start1` of config.go, `Make`, `readPersist` |

Every action ends with the `persist()` its critical section makes, and only with that one:
`Start` makes none. The network keeps every request and every useful reply for ever, so a handler
may run late, twice, or never, and a restarted peer may answer a call that was sent to its
predecessor. Timers are nondeterministic.

What the module leaves out: (1) `InstallSnapshot` sends on `applyCh` before it unlocks; here it
waits until the service can take the message. (2) `startApplyLogs` reads the snapshot's index
after it unlocked; here the two are one step. (3) `notifyApplyCh` and its bound. These three are
the subject of `RaftApply`. (4) `lastApplied` is set in the step in which the service takes the
message, not in a critical section of its own (`BumpApplied` in `RaftApply`). (5) The service of
config.go ends the test when an index comes out of order; here it goes on (`fault` in
`RaftApply`).

### How `RaftApply` corresponds to the code

`start1` makes a new peer for a server and `Kill` only sets a flag: the goroutine of `ticker` that
applies (raft.go 412-423) does not read it, nothing closes `stopCh`, and `applierSnap` goes on. So
`peer[n]` is the record of the n-th peer made for the server, `life` the one in `cfg.rafts[i]`, and
every step of a loop, a service or a handler is a step of one of the peers made so far. `svcIndex`
and `svcLog` are `cfg.lastApplied[i]` and the indexes in `cfg.logs[i]`, which all their services
share; `disk` is `cfg.saved[i]`, which only the live peer writes, since `crash1` has copied it
(118-121). A killed loop with `commitIndex > lastApplied` computes and sends a whole new batch, and
the old service may write `cfg.lastApplied` after line 296 has reset it.

In a peer's record `mu` says who blocks on a channel while it holds `rf.mu`: nobody, the sender of a
token after a commit (`"commit"`, 628 and 688), or `InstallSnapshot` (`"install"`, 862). `loop` is
the program counter of the goroutine in `ticker` and of the `startApplyLogs` it calls, `svc` that of
`applierSnap`: the check at 229, the log at 236-240, the write at 244, the call of `Snapshot` or
`CondInstallSnapshot`, `ingestSnap`. `tokens` is what `notifyApplyCh` holds.

| Action | Code |
|---|---|
| `RaiseCommit`, `TokenFits` | `tryCommitLog` and `AppendEntries` from 624: the send of the token, and what follows it when it had to wait |
| `InstallSnapshot`, `ReceiveSnapshot` | `InstallSnapshot` up to its send; the service's receive, with which the handler unlocks |
| `TimerFires`, `NotifyItself`, `TakeToken` | the select of `ticker` |
| `StartApplyLogs`, `ReadSnapshotIndex`, `LoopInstalls`, `SendMessage`, `BumpApplied` | `startApplyLogs` |
| `ServiceChecks`, `ServiceLogs`, `ServiceWrites`, `ServiceSnapshots`, `ServiceInstalls`, `ServiceIngests` | `applierSnap`, with the calls it makes |
| `Crash`, `ResetService`, `Restart` | `crash1`; `start1` up to 296, where a service may read `lastApplied[i]` without the lock; the rest of it, with `Make` |

`installs` records that a leader's snapshot was installed; `owed` that a peer was killed (or committed or
installed something afterwards) while its loop still had something to hand over or its service
something to note. `fault` ends a behaviour as the panic or `log.Fatalf` ends the test; the wrong
index is noted where it is found (229, 238), although the process ends a few lines on, at 262.

Left out: the log (an index stands for its entry, and a handler may commit any index up to
`MaxIndex`); the term checks of `InstallSnapshot`; a kill before the service has read `cfg.rafts[i]`
(214-218), with which it would end at once; and that the service reads the map `cfg.logs[i]` at
252-254 without `cfg.mu`. A killed peer's handlers that were under way take `MaxLate` steps.

### How `Lab3ARaft` corresponds to the code

One action is one critical section of `rf.mu`. The code also acts on what it read before it took
the lock: a sender's loop looks at the role at 404 and `Start` at 605. `late[i]` holds those of
i's goroutines that looked before the peer stepped down; `SendAppendEntries` and `Start` let them
go on. `AppendEntries` compares and assigns `commitIndex` from a goroutine of its own after the
unlock; `deferred[i]` holds these comparisons, and `CompareCommit` and `AssignCommit` are two
steps (in the run's instance nothing can come between them: it has one call a term and one commit
index). `accident` records what the code lets happen and Raft does not: `termBack` (a late refusal
sets the term back, 209-216), `strayStart` and `strayAppend` (a command or a call by a peer that
leads no more), `lateCut` (a late call without entries cuts the log, 352). `panicked` names the
goroutine that ended the process.

Left out: the unlocked look at the role before `startElection` (149); the batch that
`startApplyLogs` copies before it sends (an entry is read from the log when it is sent); an apply
loop that blocks with the lock held; the empty `Snapshot` and `CondInstallSnapshot`.

### How `KVServer` corresponds to the code

`lab` chooses one of the labs for a behaviour; the actions are the same but for what is saved:
Lab-3A's server saves its store after every entry and its peer, separately, `lastApplied`; Lab-3B's
saves a snapshot together with the Raft state, now and then, and may install a leader's. Raft is
external: `pending` holds what was started, `Commit` puts one of it on the log, and what was started
before that and is not committed never will be. (A leader appends in the order of `Start`, and two
logs with a common entry have the same entries before it, so nothing started earlier by another
leader can follow.) A clerk is one goroutine of the test: it repeats a request, under one `MsgId`,
until it is answered. There is one key; its value is the sequence of the requests that made it, so a
request applied twice, dropped or out of order shows. Failing calls, lost answers, timeouts, crashes
and repeated entries are there; `MaxTries` bounds the attempts that reach a leader, not the others.
`lost` records the entries a crash between Lab-3A's two saves leaves out of the store.

The channel of a request is made after `Start` returned (server.go of Lab-3A, 67), so that an entry
may be applied before anybody waits; `MakeChannel` is a step of its own for this. `DropChannel`
keeps that `Get` removes its channel under the wrong key: the channel stays in the table, with the
answer nobody has read when the handler timed out.

Lab-3B's raft package is not in the repository. The model takes from its server's code that the
store and the Raft state are saved by one call (`saveSnapshot`) and that an installed snapshot comes
with its index; what the model says of Lab-3B is as good as that reading.

### How `MapReduce` corresponds to the code

A scan (`scanTaskState`) holds `muLock` from `BeginScan` to `EndScan`; one step looks at one task,
since its send blocks when the queue is full, lock held: of a new or failed task, and of one that
timed out. The RPC handlers run in the coordinator:
`RegWorker`, `ReceiveTask` (the receipt in `GetOneTask`, without the lock), `RefuseTask` or
`AssignTask` (the rest of it, with the lock), `ReportTask`. A worker that crashes in a call does not
see its reply, and the call goes on. `Expire` is the timeout of a running task as the scan finds it (162): always
possible once its worker crashed, `MaxEarly` times while it lives. From then on (`scan.late`) the scan
must queue the task (`QueueTask`) before it goes on, however long that takes. Files have a last creator and are whole or not:
a second worker that repeats a task truncates what the first wrote. File operations fail
`MaxErrors` times; where the code goes on after an error, so does the model, and the task is then
reported as failed and, at its end, as done.

Left out: what the map and reduce functions compute; the sleeps of the loops; how the processes
find each other, and the exit of a worker that cannot reach the coordinator (its `log.Fatal`), which
`Crash` stands for.

### How `Exercises` corresponds to the code

A behaviour runs one of `1.go` to `5.go`. A step is what one goroutine does between two points at
which another can be seen. Sleeps and printing are left out; main's return ends the process.
A sum (of rounds, letters or seconds) is written as the number of the things summed up, which
needs no recursion.

### Bounds

`Raft` and `Lab3ARaft`: `Electable` says which server may campaign in which term, `VoteLinks` and `LogLinks` which pairs
the network may deliver, `Startable` at which index a leader of a term may start a command,
`MaxAppends` how many different AppendEntries are sent, `Restartable` and `MaxRestarts` who crashes
and how often, `TornReplies` whether a reply may be read half written. They appear only in guards:
an instance has fewer behaviours than the program and no others. In `Lab3ARaft` `LateLinks` bounds
which goroutines may act late, and `Appends` the calls of each term. Other modules: `MaxIndex`,
`Installable`, `MaxRestarts` and `MaxLate` (`RaftApply`); `MaxTries`, `MaxEntries`, `Crashable` and `MaxCrashes`
(`KVServer`); `MaxEarly`, `MaxErrors` and `Crashable` (`MapReduce`); the number of goroutines and
rounds (`Exercises`).

Every configuration says `CHECK_DEADLOCK FALSE`: the bounds stop an instance, main returns, and a
process that panics does nothing more. What the code can wait for, for ever, is stated instead:
`LockIsReturned` and `CommittedIsApplied` with the circular waits of `Wedged`, `Finishes` with
`ScanStuck`, `Terminates`.

## Runs

| Run | Instance | What it shows |
|---|---|---|
| `raft_election` | 3 servers, two of which campaign in terms 1 and 2, every link, one crash | `ElectionSafety`, `VoteOnce`, `VoteIsKept`; `VotingRefined`: every step is one of `Voting` or none of its business |
| `raft_log` | s1 leads terms 1 and 3, s3 term 2; different entries at index 1; 4 different AppendEntries in any order, repeated | `TypeOK`, `LogMatching` |
| `raft_failover` | s1 and s3 lead in turn up to term 4, so that an entry of term 1 is on a majority without being safe; torn replies, one crash | `LeaderCompleteness`, `CommittedDurable`, `CommittedStays`; `LogRefined`: together the peers hold one log that only grows |
| `raft_snapshot` | s1 leads, two commands of either value, a snapshot at index 1, a lagging s3 that campaigns in term 2; s1, following, sends its snapshot in term 2; one crash | `StateMachineSafety`, `NeverOutOfLog`, `CommittedStays`; `VoteIsKept` although `InstallSnapshot` resets a candidate's vote within its term |
| `raft_commit5` | 5 servers; s1 leads with one entry its peers lack, crashes, and leads again | a violation of `CommittedDurable`: see Findings |
| `raft_stalevote` | 3 servers lead terms 1, 3 and 4 in turn; a reply to the first is read when it has voted for another | a violation of `StateMachineSafety`: see Findings |
| `raft_install` | the snapshot instance with two servers | a violation of `InstallKeepsRecent`: see Findings |
| `apply` | one server, indexes up to 2, its own snapshot at 1, a leader's at 2, a token channel of 1, one restart after which the killed peer's loop and service go on, one late handler | the service gets every index in order unless a leader's snapshot was installed or the killed peer owed its service something (`FaultNeedsInstall`); committed entries are applied and the lock comes back, except in the three circular waits (`CommittedIsApplied`, `LockIsReturned`), which nothing ends (`WedgedForGood`) |
| `lab3a` | 3 servers, s2 campaigns up to three times against a leader of term 1, whose `Start` may come late; one crash | `OneLeader` unless a term was set back, `CommittedAgree` and no panic of the applier without an accident; `SenderPanicsExplained`: without one a sender panics only when rival leaders started entries at one index |
| `kv` | two servers of either lab, one clerk that writes twice, its first request tried twice, and one that reads; one crash | `StoreIsReplay`, `Linearizable`, `ChannelHasRoom` |
| `mapreduce` | 2 workers, one of which may crash, 2 files, 1 partition, one early timeout, one failing operation | `NoTaskLost`, `OutputsExact`, `LockLeakNeedsFault`, `Finishes` |
| `exercises` | 2 goroutines of a kind, 3 rounds, a channel of 1, three words, tasks of length 1 or 3 against a timeout of 2 | `NothingLost`, `CounterExact`, `TotalOrNothing`, `CancelIsTooLate`, `Terminates` |

`apply`, `kv`, `lab3a` and `mapreduce` take one or two minutes each with two workers, `raft_snapshot`
nearly three, the others less.
`raft_stalevote` has a state constraint, `LateReply`: it keeps the search to the behaviours around
the reply in question (who leads which term, one reply a call, calls with entries). It can only hide
behaviours, and the run is there to show one.

Why the bounds are enough for the cases they are there for. Three servers let two quorums meet in
one server and a server lag behind a quorum; five are used where a quorum must hold a server the
leader never heard of. The snapshot instances take a snapshot every second command instead of every
tenth, so that one is taken early. Entries of different terms differ, so one value is enough except
in `raft_snapshot`, where all entries are of one term. A token channel of 1 fills as one of 100
does: by commits the loop has not read. Two indexes are enough for a batch that is cut between its
messages, and for a snapshot at the first of them that a restart begins from; with one restart two loops
and two services share the service's index. Two files and one partition make the table shrink
between the phases, a task queued twice needs one timeout, and with a failing write and a crash the queue
of two is full when a scan finds another task late. Two attempts of a write, another
write behind it and a crash are the least that makes a repetition meet a store that is old or has
gone on. In `exercises` a channel
smaller than the number of rounds makes senders wait, and durations on both sides of the timeout
let the monitor wake or not.

The weakened properties (`FaultNeedsInstall`, `SenderPanicsExplained`, `LockLeakNeedsFault`, the escape
clauses of the others) name what was seen to go wrong. In `apply`, `kv`, `mapreduce` and `exercises`
every exception is reached by the run itself. One form of a circular wait in `apply` needs a
third index (the loop wants to send, the service waits in `Snapshot`); it was seen, and the properties
hold, with three indexes and no restart. In `lab3a` the run reaches `termBack`, `strayStart`,
`lateCut`, the disagreement of `CommittedAgree` and the panic of a sender without any accident; three
exceptions were seen in variations of the instance that are too large to add to it: two leaders of a
term after a `termBack` (s3 campaigning three times), the panic of the applier (three calls of term
1, one before the command), and `strayAppend` (a late sender).

Each property of a passing run comes with a variant of one definition, marked "variant with a
fault" where it stands, under which TLC finds that property violated.

## Fairness

* `RaftApply`: weak fairness of the live peer's handler that waits for room (`TokenFits`), of its apply
  loop and of its service. The Go runtime runs every goroutine that can run, a timer that is armed fires, and
  `sync.Mutex` hands over to a waiter it has starved for a millisecond. Nothing is assumed of the
  handlers that others call, nor of the goroutines of killed peers, which may take their steps or not;
  what the two liveness properties say of the live peer they say as long as it is not killed.
* `MapReduce`: weak fairness of the scan and of a live worker's own steps; strong fairness of an RPC
  that waits for `muLock` or for a task, since both come and go (mutex as above, and a channel serves
  its receivers in order); strong fairness of the timeout of a crashed worker's task. Crashes, early
  timeouts and failing operations are never assumed.
* `Exercises`: weak fairness of `Next`: the scheduler does not stop. Every program makes finitely many
  steps, so no more is needed.
* `Raft`, `Lab3ARaft` and `KVServer` state safety only: elections with random timeouts need not
  converge, and a clerk may repeat for ever.

## Refinements

* `VotingRefined`. The state of `Voting` is `currentTerm`, `votedFor`, the granted replies to others,
  and the peers whose role is leader. `StartElection` is a `Campaign`, a granted vote a `Cast`, the
  vote that completes a majority a `Lead`, and whatever moves a term on or a leader back a
  `StepDown`; a restart is one too, since the disk holds the term and the vote. Checked in
  `raft_election`, proved in `RaftProofs`.
* `LogRefined`. `known[i]` is peer i's log up to its commit index.
  It is stated where no log is compacted (a compacted entry is not in the state any more) and
  checked in `raft_failover`; proved in `RaftCommitProofs`, within the limits given there.

## Findings

* `changeRole(Role_Leader)` initialises every `matchIndex` with the leader's own last index
  (raft.go:157-160). With three servers the commit rule still needs one acknowledgement from a
  majority; with five, a leader elected with an entry its peers do not have counts them all, and an
  entry is committed that two disks hold. `raft_commit5` shows the shortest such behaviour; the
  comment at raft.go:673 says the opposite.
* `CondInstallSnapshot` installs a snapshot whatever has happened since, and takes `commitIndex`
  and `lastApplied` back (raft.go:272-274, called at 384 after every restart with a snapshot).
  The comment at raft.go:245-246 promises the contrary. `StateMachineSafety` still holds in
  `raft_snapshot`: the entries are applied again.
* `sendAppendEntriesToPeer` takes over a newer term from a reply without looking at its role and
  without resetting `votedFor` (raft.go:752-755). A peer that led, stepped down, and voted for another
  since takes this vote along into a term in which it has not voted; `RequestVote` (979) then
  repeats it there, without comparing the logs. The candidate may lack an entry that a majority holds:
  `raft_stalevote` ends with two services that applied different commands at index 1, which
  checkLogs of config.go (146) calls an error. `OneLeader` still holds, and `OneVoteATerm` too.

These three contradict a sentence of the sources. Other weaknesses, which the code's own comments do
not speak about, are stated as the exceptions of properties that otherwise hold:

* `InstallSnapshot` and the service can wait for each other, and the token channel can fill while its
  only reader waits for a sender that holds `rf.mu`, or sends to it itself (`Wedged`).
* A snapshot that is installed while a batch is on its way makes the service see indexes out of order,
  or `CondInstallSnapshot` slice with a negative index. A killed peer that has committed what it has not
  yet applied makes the service see indexes out of order too, with no snapshot at all: its loop sends them,
  and the service's index is that of the peer started in its place (`FaultNeedsInstall`).
* In Lab-3A a late refusal sets a peer's term back, after which a term may have two leaders
  (`OneLeader`); stale roles and late empty calls break agreement on committed entries
  (`CommittedAgree`); and, without any of these, a leader that meets a follower whose log differs
  from its own lowers `nextIndex` until the sender's index is -1: when two terms have started their
  first entry, or, with the same first entry, another second one (`SenderPanicsExplained`, with two
  terms that started an entry at one index).
* A crash of Lab-3A between the two saves loses an entry from the store (`lost` in `StoreIsReplay`).
* `GetOneTask` returns with `muLock` held when the phase has changed, and a scan can wait for room in
  the queue, for a new, a failed or a timed-out task, while all who could make it wait for its lock
  (`Finishes`).
* `2.go` may lose a datum, `4.go` may print 0, `5.go` never cancels a task in time (`NothingLost`,
  `TotalOrNothing`, `CancelIsTooLate`).

## Theorems

`RaftProofs` proves for any finite set of servers, any values and any bounds:

* `TypeCorrect`: `Spec => []TypeOK`. `TypeOK` is not inductive: `CondInstallSnapshot` computes a
  slice bound from the index in the service's message, which must not be below the snapshot's.
  `InstallIsCurrent` (a pending message is always about the current snapshot) makes it so.

It proves further, with `Server` finite and not empty and `Nil` no server:

* `OneVoteATerm`: `Spec => []VoteOnce`,
* `VotesAreKept`: `Spec => VoteIsKept`,
* `OneLeader`: `Spec => []ElectionSafety`.

The three rest on one inductive invariant, `ElectionInv`. `ElectionSafety` says nothing of the
votes that made a leader, so it is not inductive; `ElectionInv` follows a vote from the voter to
the leader: a candidate or leader has voted for itself (`VotedForSelf`); the disk holds the term
and the vote that memory holds (`VoteOnDisk`, which is what makes `Restart` harmless); a granted
reply is the voter's vote unless the voter has moved on to a newer term (`VotesStand`, `VoteOnce`);
what an election counted was granted (`VotesCounted`); a leader has the votes of a majority
(`LeadersElected`). It holds although `InstallSnapshot` clears `votedFor` within a term: it does so
only for a peer that is not a follower, whose vote was its own. The proof
describes what any step may do to votes (`VoteStep`), shows that each action is such a step, and
that such a step keeps `ElectionInv`. One leader follows: two majorities share a server; if that is
one of the two leaders, it voted for itself and so not for the other; if it is a third, it voted
once.

and the refinement:

* `PeersVote`: `Spec => VotingRefined`.

Each action of `Raft` is mapped, one lemma an action, to `Campaign`, `Cast`, `Lead`, `StepDown` or a
stutter of `Voting`. `TypeInv` and `ElectionInv` supply what the guards of `Voting` ask for: a candidate that counts a majority is for itself, has those votes on the network, and is still in
the term of its election; a peer that resets its vote within a term gave it to itself.

`RaftLogProofs` proves, under the same assumptions:

* `LogsMatch`: `Spec => [](Uncompacted => LogMatching)`, where `Uncompacted` says that no peer has a
  snapshot.

`LogMatching` relates two logs and says nothing of the calls that write them, so it is not
inductive. `LogInv` gives each term `t` a log `TL[t]`, what the leader of `t` has had in its log
(`TermLogs`). Every log, in memory or on disk, is up to each of its entries the log of that entry's
term (`PeersConsistent`), and so are the logs `TL[t]` themselves (`TermsConsistent`); a call of term
`t` carries a part of `TL[t]` (`CallsAreSegments`); the leader of `t` holds all of it
(`LeadersHoldTerms`); and only one server ever led `t` (`LedBy`). `TL` changes in two places: `Start` adds to the
log of the leader's term, and a candidate whose majority is complete makes its log that of a term
which nobody led, and which therefore no entry and no call has. `AppendEntries` drops entries without
comparing terms, but what it makes of a log is a part of `TL[t]` of the call's term: up to the
previous entry because the terms there agree, behind it because that is what was sent.

Why only as long as no log is compacted: a call whose previous index is the receiver's snapshot index
or below is accepted without a comparison of terms, and `InstallSnapshot` takes a leader out of its
role within its term (a candidate, in `raft_snapshot`), so that what a term's leader is may end before the term. With
snapshots the argument would need that what is compacted is committed, and this is false for five
servers (`raft_commit5`). The theorem says of a behaviour with snapshots that its logs match up to the
first one; TLC checks `LogMatching` in `raft_log`, where no log is compacted either.

`RaftCommitProofs` proves, for at most three servers (`TwoAreMajority`) and executions in which
always `Uncompacted` and `NoStaleVote` (`WithinLimits`):

* `LeadersComplete`: `[]LeaderCompleteness`, `CommitsAreDurable`: `[]CommittedDurable`,
* `CommitsAreInLog`: `[]NeverOutOfLog`, `KnownCommitsStay`: `CommittedStays`,
* `ServicesAgree`: `[]StateMachineSafety`,
* `PeersShareOneLog`: `LogRefined`.

The limits are those of the code. With five servers an entry is committed that two disks hold
(`raft_commit5`): a new leader believes that every peer has its log, and only where two servers are a
majority is the one acknowledgement that `tryCommitLog` waits for enough. `NoStaleVote` says that a
peer whose `votedFor` is the candidate that asks gave this vote in the term it is asked for, or that
the term has a leader; beyond it two services apply different commands (`raft_stalevote`).
`Uncompacted` is the limit of `RaftLogProofs`, on which this module builds. Nothing else is limited: terms,
commands, calls, late and torn replies, and crashes are any. Both state predicates hold in every state of
the instances of `raft_log` and `raft_failover`.

The state does not remember enough for an invariant, so that `CommitInv` says that a history exists:
the log `TL[t]` of each term (as in `RaftLogProofs`), the terms `D` that were led, and the
acknowledgements `A`: who has saved, in term `t`, the leader's log up to entry `e`. An entry that the leader
of `t` started itself is `Chosen` when a majority acknowledged it, and `Lost` when a majority has gone on
to newer terms without it; it cannot be both. The invariant then says that

* what a peer acknowledged it still has, in memory and on disk, unless it is lost (`AcksKept`): a late
  call of an older term is refused, one of the same term cuts nothing that was acknowledged before,
  and one of a newer term comes from a log that has the entry (`LeadersSafe`);
* a granted vote went to a log with all that the voter acknowledged (`VotesCompared`); this is where
  `NoStaleVote` is needed, since a repeated vote is given without a comparison;
* so the log of every later term has the entry, unless it is lost (`LeadersSafe`): the majority that
  elected the leader meets the one that acknowledged;
* what a leader takes for matched is acknowledged, as far as it started it itself (`MatchTrue`), and a
  commit index, on a peer, on a disk or in a call, covers only entries up to a chosen one
  (`CommitsChosen`, `CallsCommit`), which is all that the services are given (`AppliedChosen`).

The last part is subtle because `changeRole` sets `matchIndex` too high: `MatchTrue` says nothing of the
entries a leader found in its log, and `tryCommitLog` is called only after a call that ends in an entry
of the leader's own term (`EndsInOwnTerm`). That the entries counted are then acknowledged by the one
peer that answered is what makes up a majority of three, and not of five.

`RaftApplyProofs` proves, for any `MaxIndex`, token capacity, snapshot interval, late handlers and
number of restarts (`ApplyAssumption`: they are natural numbers, the capacity and the interval not 0):

* `TypeCorrect`: `Spec => []TypeOK`,
* `OrderKept`: `Spec => []FaultNeedsInstall`,
* `CircularWaitsStay`: `Spec => WedgedForGood`.

`FaultNeedsInstall` says that no fault was seen; `OrderInv` adds why none can come. Without a leader's
snapshot each peer, killed or not, sends the index after its `lastApplied`, up to what is committed; its
service snapshots only what it was sent; and its snapshot is ahead of `lastApplied` only between its
start and its loop's reading of it (`PeerInv`, `CatchesUp`). So no slice can be wrong. If no killed peer
owed anything either (`Paid`), the killed ones have nothing more to send or to write, and the service's
index is the one the live loop has sent up to, or the snapshot's (`InStep`). The steps of killed peers are
in the proof as they are in the model: any of them may take any step, and owing nothing is kept.

For the circular waits each action of each peer is shown to be disabled in the peer that waits, or to
leave its wait as it is; a restart makes another peer and does not touch it.

`Lab3AProofs` proves, for any finite set of servers (`PeersAssumption`) and every bound:

* `TypeCorrect`: `Spec => []TypeOK`,
* `OneLeaderUnlessTermBack`: `Spec => []OneLeader`,
* `SenderDiesOfRivals`: `Spec => []SenderPanicsExplained`.

The types need that what was applied is on disk as applied (`AppliedExact`) and that a call about
the empty prefix is never refused for its term. The elections follow the pattern of `ElectionInv`,
under the hypothesis that `termBack` has not happened, and with one difference: a refusal raises the
term without saving it, so the disk's term may be older than the memory's. What makes a restart
harmless nevertheless is that the vote is saved whenever it is given: neither the term in memory nor
the one on disk is before that of the vote (`VoteOnDisk`).

For the senders, `SenderInv` assumes that no accident has happened and no two leaders have started
different entries at one index (`Calm`), and then follows `nextIndex` through every answer. Every entry
in a log, on a disk or in a call was started (`EntriesStarted`), so that previous entries match
wherever they exist, and a peer refuses a call only for its term, for missing entries, or because it
had more than the call and has cut its log to it (`CalmReply`). The last is the difficult one: its
answer sends `nextIndex` beyond the leader's log, where a second such answer with the same index would
send the loop of lines 471-482 back below the first entry. It cannot come: a peer that has cut its log
has, in the leader's term and after a restart too, no entry beyond what the leader has sent it
(`Joined`), because the last call the leader waits on reaches as far as any it sent that peer
(`LastReachesFurthest`), and nobody else sends in its term (`LedCalls`).

`KVServerProofs` proves, for any servers, clerks, programs, attempts and crashes (`KVAssumption`
gives the constants their types):

* `TypeCorrect`: `Spec => []TypeOK`,
* `StoresAreReplays`: `Spec => []StoreIsReplay`,
* `ClerksSeeOneHistory`: `Spec => []Linearizable`,
* `NoSendBlocks`: `Spec => []ChannelHasRoom`.

The invariant `KVInv` says that the entries of one clerk are in the log in the order of its requests
and attempts (`Ordered`), that those of its present request were committed after it began
(`AfterSince`), how far each server's store and saved state may be apart (`Positions`), and that a
store is the log's prefix replayed, with a table of last requests that knows every write of that
prefix and no other (`Stores`). A repeated write is recognised because its clerk's table entry is at
least its `MsgId`, and a new one is not mistaken for a repetition because the entries of a clerk are
ordered. The recursive function `Effect` is handled by lemmas about one more entry and about an
entry that is left out, proved with the least index at which two replays would differ.

`MapReduceProofs` proves, for any finite set of workers, files and partitions
(`MapReduceAssumption`):

* `TypeCorrect`: `Spec => []TypeOK`,
* `TasksAreKept`: `Spec => []NoTaskLost`,
* `UndisturbedIsExact`: `Spec => []OutputsExact`,
* `LeakNeedsFault`: `Spec => []LockLeakNeedsFault`.

`NoTaskLost` needs that ids are given out once and that a running task has a registered worker
(`RunsRegistered`). The last two hold only `Undisturbed`; then a task is in one place (`InOnePlace`:
once in the queue, or in one `GetOneTask`, or in the hands of the worker in the table), and a file is
written by the one worker whose task it belongs to (`FilesExact`). The return without `Unlock` needs
a task of the other phase, of which there is none then.

`ExercisesProofs` proves, for any number of goroutines, rounds, words, tasks and any timeout:

* `TypeCorrect`, `NothingIsLost`, `CountIsExact`, `NoPartialSum` and `NothingIsCancelled`:
  `Spec => []TypeOK`, `[]NothingLost`, `[]CounterExact`, `[]TotalOrNothing`, `[]CancelIsTooLate`.

`ExercisesInv` has one part a program: where each item is between producer and consumer, that a
writer is alone inside, how much of the words the reducer has summed up, that the monitor cancels
only what has ended.

All these invariants were given to TLC on the instances of the runs before they were proved.

Model-checked only:

* of `Raft`, what `LogMatching`, `LeaderCompleteness`, `CommittedDurable`, `StateMachineSafety`,
  `NeverOutOfLog` and `CommittedStays` say of executions with snapshots (`raft_snapshot` for the last
  three). The theorems about them end where the first log is compacted;
* of `Lab3ARaft`, `CommittedAgree`;
* every liveness property (`CommittedIsApplied`, `LockIsReturned`, `Finishes`, `Terminates`): fairness
  and ENABLED are out of the prover's reach.

## Not modelled

* labrpc, labgob, porcupine and the models of the key/value tests are not in the repository, nor is
  the raft package of Lab-3B. The network is what the code is exposed to: delay, loss, repetition,
  reordering.
* What config.go does to the network and its statistics: connecting, partitions and long delays are
  the network's freedom not to deliver; counting RPCs and bytes changes nothing a peer sees.
* The tests: they drive the system from outside, and what they assert is stated as properties.
* `coordinator.go` 66-116 and 319-358: a second coordinator pasted into the file, whose types do not
  exist; it does not compile.
* The C++ course-management program, the assembly exercises and the Python notebooks: sequential
  programs about formatting, files and numbers, without a state that several actors share.

## Plan

Done: the modules above. Left:

1. `CommitInv` with snapshots, for at most three servers: that what is compacted is committed.
2. `CommittedAgree` of `Lab3ARaft` without an accident, after the pattern of `CommitInv`.
3. `RaftApply` composed with two servers, so that the snapshots a peer installs are those another took.
4. Larger instances: three servers and a `Get` between two writes in `kv`, a second late goroutine and a
   second call of a term in `lab3a`, so that something comes between `CompareCommit` and `AssignCommit`.
