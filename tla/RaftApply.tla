------------------------------ MODULE RaftApply ------------------------------
(***************************************************************************)
(* How one server of the Raft labs hands committed entries and snapshots   *)
(* to its service: rf.mu, the unbuffered applyCh, the buffered             *)
(* notifyApplyCh, the apply timer, and the goroutines that block on them   *)
(* (raft.go and config.go).  Raft.tla takes every critical section for one *)
(* step; here a channel operation that blocks inside one keeps rf.mu, so   *)
(* that circular waits show.  A killed peer lives on: its loop looks at no *)
(* killed(), its stopCh is never closed, and its service shares            *)
(* cfg.lastApplied and cfg.logs with the service of the peer started in    *)
(* its place.  The log is left out: an index stands for its entry, and a   *)
(* handler may commit any index the instance has.                          *)
(***************************************************************************)
EXTENDS Integers

CONSTANTS
    NotifyCap,          \* cap(notifyApplyCh): 100 in Make
    SnapShotInterval,   \* the service takes a snapshot after each such number of entries
    \* Bounds of an instance
    MaxIndex,           \* the highest index
    Installable,        \* indexes of snapshots a leader may send
    MaxRestarts,
    MaxLate             \* steps of handlers that were under way when their peer was killed

ASSUME ApplyAssumption ==
    /\ NotifyCap \in Nat \ {0} /\ SnapShotInterval \in Nat \ {0}
    /\ MaxIndex \in Nat /\ Installable \subseteq 1 .. MaxIndex
    /\ MaxRestarts \in Nat /\ MaxLate \in Nat

\* The peers made for this server, one after the other.
Life == 0 .. MaxRestarts

VARIABLES
    peer,         \* each peer's fields, channels and goroutines, see Fresh
    life,         \* the peer in cfg.rafts[i]
    stage,        \* how far crash1 and start1 have come
    svcIndex,     \* cfg.lastApplied[i]
    svcLog,       \* the indexes cfg.logs[i] holds
    disk,         \* cfg.saved[i]
    late, installs, owed, fault     \* history

history == <<late, installs, owed>>
service == <<svcIndex, svcLog>>
vars == <<peer, life, stage, service, disk, history, fault>>

Select == [at |-> "select"]
Idle == [at |-> "idle"]
Range(first, last) == [first |-> first, last |-> last]
WithMsgs(at, msgs) == [at |-> at, msgs |-> msgs]
AtIndex(at, index) == [at |-> at, index |-> index]

\* Variant with a fault, and Make: it starts the apply timer.
NoTimer == FALSE
NewTimer == TRUE

\* Make and readPersist: a new peer.
Fresh(saved) ==
    [lastSnapshotIndex |-> saved.snap, commitIndex |-> saved.commit, lastApplied |-> 0,
     mu |-> "free",                \* or who blocks on a channel while it holds rf.mu
     tokens |-> 0,                 \* in notifyApplyCh
     timerArmed |-> NewTimer,      \* applyTimer runs
     loop |-> Select,              \* the goroutine of ticker that applies
     svc |-> Idle]                 \* applierSnap

NothingSaved == [snap |-> 0, commit |-> 0]

Init ==
    /\ peer = [n \in Life |-> Fresh(NothingSaved)] /\ life = 0 /\ stage = "up"
    /\ svcIndex = 0 /\ svcLog = {} /\ disk = NothingSaved
    /\ late = 0 /\ installs = {} /\ owed = FALSE /\ fault = "none"

\* A test's process ends with a fault.
Up == fault = "none"
Runs(n) == Up /\ n <= life
Killed(n) == n < life \/ stage # "up"

\* start1 holds cfg.mu from 294 to 318.
CfgFree == stage # "starting"

\* Variant with a fault, and: nobody blocks while holding rf.mu.
NoLock(n) == Runs(n)
CanLock(n) == Runs(n) /\ peer[n].mu = "free"

Become(n, p) == peer' = [peer EXCEPT ![n] = p]

\* A killed peer's persister is no longer cfg.saved[i]: crash1 copies it (118-121).
Persist(n, p) ==
    disk' = IF Killed(n) THEN disk
            ELSE [snap |-> p.lastSnapshotIndex, commit |-> p.commitIndex]

-----------------------------------------------------------------------------
(* Handlers that hold rf.mu *)

\* No new call reaches a killed peer; one that waits for rf.mu is still served, and so is
\* a leader's answer, in sendAppendEntriesToPeer.
Serves(n) ==
    /\ Killed(n) => late < MaxLate
    /\ late' = IF Killed(n) THEN late + 1 ELSE late

\* tryCommitLog, or AppendEntries at 625: the commit index rises and a token is sent.
\* With room for it the handler goes on to its persist(); otherwise it blocks, locked.
RaiseCommit(n) ==
    /\ CanLock(n)
    /\ Serves(n)
    /\ \E k \in peer[n].commitIndex + 1 .. MaxIndex :
         LET p == [peer[n] EXCEPT !.commitIndex = k]
         IN \/ /\ p.tokens < NotifyCap
               /\ Become(n, [p EXCEPT !.tokens = @ + 1])
               /\ Persist(n, p)
            \/ /\ p.tokens = NotifyCap
               /\ Become(n, [p EXCEPT !.mu = "commit"])
               /\ UNCHANGED disk
    /\ owed' = (owed \/ Killed(n))
    /\ UNCHANGED <<life, stage, service, installs, fault>>

\* The blocked handler finds room and finishes.
TokenFits(n) ==
    /\ Runs(n) /\ peer[n].mu = "commit" /\ peer[n].tokens < NotifyCap
    /\ Become(n, [peer[n] EXCEPT !.tokens = @ + 1, !.mu = "free"])
    /\ Persist(n, peer[n])
    /\ UNCHANGED <<life, stage, service, history, fault>>

\* What CondInstallSnapshot and InstallSnapshot both do with the log.
InstallTo(p, index) ==
    [p EXCEPT !.lastSnapshotIndex = index, !.lastApplied = index, !.commitIndex = index]

\* InstallSnapshot: the log is replaced at once; the message to the service is sent
\* while rf.mu is held.
InstallSnapshot(n, index) ==
    /\ CanLock(n) /\ peer[n].lastSnapshotIndex < index
    /\ Serves(n)
    /\ LET p == InstallTo(peer[n], index)
       IN Become(n, [p EXCEPT !.mu = "install"]) /\ Persist(n, p)
    /\ installs' = installs \cup {index}
    /\ owed' = (owed \/ Killed(n))
    /\ UNCHANGED <<life, stage, service, fault>>

-----------------------------------------------------------------------------
(* The apply loop *)

\* The apply timer fires: the loop, the channel's only reader, will send to it itself.
TimerFires(n) ==
    /\ Runs(n) /\ peer[n].loop = Select /\ peer[n].timerArmed
    /\ Become(n, [peer[n] EXCEPT !.loop = [at |-> "notify"], !.timerArmed = FALSE])
    /\ UNCHANGED <<life, stage, service, disk, history, fault>>

NotifyItself(n) ==
    /\ Runs(n) /\ peer[n].loop.at = "notify" /\ peer[n].tokens < NotifyCap
    /\ Become(n, [peer[n] EXCEPT !.loop = Select, !.tokens = @ + 1])
    /\ UNCHANGED <<life, stage, service, disk, history, fault>>

\* Variant with a fault: the lock is taken before the channel is read.
TakeTokenLocked(n) ==
    /\ CanLock(n) /\ peer[n].loop = Select /\ peer[n].tokens > 0
    /\ Become(n, [peer[n] EXCEPT !.loop = [at |-> "start"], !.tokens = @ - 1])
    /\ UNCHANGED <<life, stage, service, disk, history, fault>>

TakeToken(n) ==
    /\ Runs(n) /\ peer[n].loop = Select /\ peer[n].tokens > 0
    /\ Become(n, [peer[n] EXCEPT !.loop = [at |-> "start"], !.tokens = @ - 1])
    /\ UNCHANGED <<life, stage, service, disk, history, fault>>

\* Variants with a fault: one entry too many, or all since the snapshot.
BatchTooFar(p) == Range(p.lastApplied + 1, p.commitIndex + 1)
BatchSinceSnapshot(p) == Range(p.lastSnapshotIndex + 1, p.commitIndex)
Batch(p) == Range(p.lastApplied + 1, p.commitIndex)

\* A snapshot is newer than what was applied.
Behind(p) == p.lastApplied < p.lastSnapshotIndex

\* The loop is back at its select, and the deferred Reset has armed the timer.
Back(p) == [p EXCEPT !.loop = Select, !.timerArmed = TRUE]

\* startApplyLogs up to its unlock: it is behind, nothing is new, or a batch of messages
\* is computed.
StartApplyLogs(n) ==
    /\ CanLock(n) /\ peer[n].loop.at = "start"
    /\ LET p == peer[n]
       IN \/ /\ Behind(p)
             /\ Become(n, [p EXCEPT !.loop = [at |-> "read"]])
          \/ /\ ~Behind(p) /\ p.commitIndex <= p.lastApplied
             /\ Become(n, Back(p))
          \/ /\ ~Behind(p) /\ p.lastApplied < p.commitIndex
             /\ Become(n, [p EXCEPT !.loop = WithMsgs("send", Batch(p))])
    /\ UNCHANGED <<life, stage, service, disk, history, fault>>

\* Line 384: the snapshot's index is read without the lock ...
ReadSnapshotIndex(n) ==
    /\ Runs(n) /\ peer[n].loop.at = "read"
    /\ Become(n, [peer[n] EXCEPT !.loop = AtIndex("cond", peer[n].lastSnapshotIndex)])
    /\ UNCHANGED <<life, stage, service, disk, history, fault>>

\* CondInstallSnapshot: an index below the snapshot's makes installLen negative, and the
\* slice expression panics.  p is the peer whose caller has gone on.
Cond(n, p, index) ==
    IF index < p.lastSnapshotIndex
    THEN Become(n, p) /\ fault' = "slice" /\ UNCHANGED disk
    ELSE /\ Become(n, InstallTo(p, index))
         /\ Persist(n, InstallTo(p, index))
         /\ UNCHANGED fault

\* ... and used with it.
LoopInstalls(n) ==
    /\ CanLock(n) /\ peer[n].loop.at = "cond"
    /\ Cond(n, Back(peer[n]), peer[n].loop.index)
    /\ UNCHANGED <<life, stage, service, history>>

\* A message of the batch meets the service on applyCh.
SendMessage(n) ==
    /\ Runs(n) /\ peer[n].loop.at = "send" /\ peer[n].svc = Idle
    /\ LET msgs == peer[n].loop.msgs
       IN Become(n, [peer[n] EXCEPT !.loop = WithMsgs("bump", msgs),
                                    !.svc = AtIndex("check", msgs.first)])
    /\ UNCHANGED <<life, stage, service, disk, history, fault>>

\* Lines 403-405: lastApplied takes the message's index, whatever it was.
BumpApplied(n) ==
    /\ CanLock(n) /\ peer[n].loop.at = "bump"
    /\ LET msgs == peer[n].loop.msgs
           p == [peer[n] EXCEPT !.lastApplied = msgs.first]
       IN IF msgs.first < msgs.last
          THEN Become(n, [p EXCEPT !.loop = WithMsgs("send", Range(msgs.first + 1, msgs.last))])
          ELSE Become(n, Back(p))
    /\ UNCHANGED <<life, stage, service, disk, history, fault>>

-----------------------------------------------------------------------------
(* The service, applierSnap *)

TakesSnapshotAt(k) == (k + 1) % SnapShotInterval = 0

\* Line 229, without cfg.mu: the message is the one after cfg.lastApplied[i].  A wrong one
\* ends the process, at 262 at the latest.
ServiceChecks(n) ==
    /\ Runs(n) /\ peer[n].svc.at = "check"
    /\ fault' = IF peer[n].svc.index = svcIndex + 1 THEN fault ELSE "order"
    /\ Become(n, [peer[n] EXCEPT !.svc = AtIndex("log", peer[n].svc.index)])
    /\ UNCHANGED <<life, stage, service, disk, history>>

\* checkLogs, and line 238: the log must hold the index before.
ServiceLogs(n) ==
    /\ Runs(n) /\ CfgFree /\ peer[n].svc.at = "log"
    /\ LET k == peer[n].svc.index
       IN /\ svcLog' = svcLog \cup {k}
          /\ fault' = IF k > 1 /\ k - 1 \notin svcLog THEN "order" ELSE fault
          /\ Become(n, [peer[n] EXCEPT !.svc = AtIndex("write", k)])
    /\ UNCHANGED <<life, stage, svcIndex, disk, history>>

\* Lines 243-247.
ServiceWrites(n) ==
    /\ Runs(n) /\ CfgFree /\ peer[n].svc.at = "write"
    /\ LET k == peer[n].svc.index
       IN /\ svcIndex' = k
          /\ Become(n, [peer[n] EXCEPT !.svc = IF TakesSnapshotAt(k)
                                               THEN AtIndex("snapshot", k) ELSE Idle])
    /\ UNCHANGED <<life, stage, svcLog, disk, history, fault>>

\* Snapshot: ignored when the peer has a newer one.
ServiceSnapshots(n) ==
    /\ CanLock(n) /\ peer[n].svc.at = "snapshot"
    /\ LET p == [peer[n] EXCEPT !.svc = Idle]
           k == peer[n].svc.index
       IN IF k > p.lastSnapshotIndex
          THEN /\ Become(n, [p EXCEPT !.lastSnapshotIndex = k])
               /\ Persist(n, [p EXCEPT !.lastSnapshotIndex = k])
          ELSE Become(n, p) /\ UNCHANGED disk
    /\ UNCHANGED <<life, stage, service, history, fault>>

\* It receives the snapshot InstallSnapshot sends: the handler unlocks.
ReceiveSnapshot(n) ==
    /\ Runs(n) /\ peer[n].mu = "install" /\ peer[n].svc = Idle
    /\ Become(n, [peer[n] EXCEPT !.mu = "free",
                                 !.svc = AtIndex("install", peer[n].lastSnapshotIndex)])
    /\ UNCHANGED <<life, stage, service, disk, history, fault>>

\* CondInstallSnapshot, called by the service at 223.
ServiceInstalls(n) ==
    /\ CanLock(n) /\ peer[n].svc.at = "install"
    /\ LET k == peer[n].svc.index
       IN Cond(n, [peer[n] EXCEPT !.svc = AtIndex("ingest", k)], k)
    /\ UNCHANGED <<life, stage, service, history>>

\* ingestSnap.
Ingest(index) == svcIndex' = index /\ svcLog' = 1 .. index

ServiceIngests(n) ==
    /\ Runs(n) /\ CfgFree /\ peer[n].svc.at = "ingest"
    /\ Ingest(peer[n].svc.index)
    /\ Become(n, [peer[n] EXCEPT !.svc = Idle])
    /\ UNCHANGED <<life, stage, disk, history, fault>>

-----------------------------------------------------------------------------
(* crash1 and start1 *)

\* The last index p's service has got from p's loop.
Sent(p) == IF p.loop.at = "bump" THEN p.loop.msgs.first ELSE p.lastApplied

\* p still has something to hand to its service, or the service something to note.
Owes(p) ==
    \/ p.svc.at \in {"check", "log", "write", "install", "ingest"} \/ p.mu = "install"
    \/ p.loop.at = "send" \/ (p.loop.at = "bump" /\ p.loop.msgs.first < p.loop.msgs.last)
    \/ p.lastSnapshotIndex <= Sent(p) /\ Sent(p) < p.commitIndex

\* crash1: Kill stops neither the apply loop nor the service.
Crash ==
    /\ Up /\ stage = "up" /\ life < MaxRestarts
    /\ stage' = "crashed"
    /\ owed' = (owed \/ Owes(peer[life]))
    /\ UNCHANGED <<peer, life, service, disk, late, installs, fault>>

\* Line 296; the killed peer's service may see it at 229, which takes no lock, before
\* line 309 ...
ResetService ==
    /\ Up /\ stage = "crashed"
    /\ stage' = "starting"
    /\ svcIndex' = 0
    /\ UNCHANGED <<peer, life, svcLog, disk, history, fault>>

\* ... takes the saved snapshot.  Without one cfg.logs[i] stays as it is.
Restart ==
    /\ Up /\ stage = "starting"
    /\ stage' = "up" /\ life' = life + 1
    /\ Become(life + 1, Fresh(disk))
    /\ IF disk.snap > 0 THEN Ingest(disk.snap) ELSE UNCHANGED service
    /\ UNCHANGED <<disk, history, fault>>

LoopStep(n) ==
    \/ TimerFires(n) \/ NotifyItself(n) \/ TakeToken(n) \/ StartApplyLogs(n)
    \/ ReadSnapshotIndex(n) \/ LoopInstalls(n) \/ SendMessage(n) \/ BumpApplied(n)

ServiceStep(n) ==
    \/ ServiceChecks(n) \/ ServiceLogs(n) \/ ServiceWrites(n) \/ ServiceSnapshots(n)
    \/ ReceiveSnapshot(n) \/ ServiceInstalls(n) \/ ServiceIngests(n)

HandlerStep(n) ==
    \/ RaiseCommit(n) \/ TokenFits(n)
    \/ \E index \in Installable : InstallSnapshot(n, index)

Next ==
    \/ \E n \in Life : HandlerStep(n) \/ LoopStep(n) \/ ServiceStep(n)
    \/ Crash \/ ResetService \/ Restart

\* The runtime schedules every goroutine that can run, timers fire, and a sync.Mutex
\* does not starve its waiters.  Nothing is assumed of the peers before cfg.rafts[i]'s.
Spec ==
    /\ Init /\ [][Next]_vars
    /\ WF_vars(TokenFits(life)) /\ WF_vars(LoopStep(life)) /\ WF_vars(ServiceStep(life))

-----------------------------------------------------------------------------
(* Properties *)

Index == 0 .. MaxIndex
LoopState ==
    [at : {"select", "notify", "start", "read"}] \cup [at : {"cond"}, index : Index]
      \cup [at : {"send", "bump"}, msgs : [first : Index, last : Index]]
ServiceState ==
    [at : {"idle"}]
      \cup [at : {"check", "log", "write", "snapshot", "install", "ingest"}, index : Index]
Peers ==
    [lastSnapshotIndex : Index, commitIndex : Index, lastApplied : Index,
     mu : {"free", "commit", "install"}, tokens : 0 .. NotifyCap, timerArmed : BOOLEAN,
     loop : LoopState, svc : ServiceState]

\* Indexes, program counters, batches and the persister's record have their types.
TypeOK ==
    /\ peer \in [Life -> Peers]
    /\ life \in Life /\ stage \in {"up", "crashed", "starting"}
    /\ stage # "up" => life < MaxRestarts
    /\ svcIndex \in Index /\ svcLog \subseteq Index
    /\ disk \in [snap : Index, commit : Index]
    /\ late \in 0 .. MaxLate /\ installs \subseteq Installable /\ owed \in BOOLEAN
    /\ fault \in {"none", "order", "slice"}

\* The service gets every index once and in order, also across its own snapshots and
\* restarts, and no slice expression panics -- unless a leader's snapshot was installed,
\* or a peer was killed that still owed its service something (applierSnap's checks,
\* config.go 229-231 and 238).
FaultNeedsInstall ==
    fault # "none" => installs # {} \/ (owed /\ fault = "order")

\* The circular waits the code has: the snapshot's sender and the service wait for each
\* other (raft.go 862), or the token channel is full and its only reader waits for a
\* sender that holds rf.mu, or for itself (418, 628, 688).
ServiceWaits(p) == p.svc.at \in {"install", "snapshot"}
Circular(p) ==
    \/ p.mu = "install" /\ ServiceWaits(p)
    \/ p.tokens = NotifyCap /\ p.loop.at = "notify"
    \/ /\ p.tokens = NotifyCap /\ p.mu = "commit"
       /\ p.loop.at \in {"start", "cond", "bump"} \/ (p.loop.at = "send" /\ ServiceWaits(p))

Wedged(n) == Circular(peer[n])

\* They are deadlocks: nothing ends one, and a killed peer's goroutines wait on for good.
WedgedForGood == [][\A n \in Life : Wedged(n) => Wedged(n)']_vars

\* A committed entry reaches the service, unless a snapshot takes the commit index back
\* below it, or the peer is killed or in one of the known circular waits.  A killed peer
\* that owed its service something may set cfg.lastApplied[i] back afterwards.
CommittedIsApplied ==
    \A k \in 1 .. MaxIndex :
        peer[life].commitIndex >= k
            ~> \/ svcIndex >= k \/ (owed /\ peer[life].lastApplied >= k)
               \/ peer[life].commitIndex < k \/ stage # "up" \/ Wedged(life) \/ ~Up

\* Whoever blocks with rf.mu held gives it back, with the same exceptions.
LockIsReturned ==
    peer[life].mu # "free"
        ~> peer[life].mu = "free" \/ stage # "up" \/ Wedged(life) \/ ~Up
=============================================================================
