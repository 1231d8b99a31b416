--------------------------- MODULE RaftApplyProofs ---------------------------
(***************************************************************************)
(* How a server hands entries to its service, for every number of entries, *)
(* every capacity of the channel, every snapshot interval and any number   *)
(* of restarts: only a leader's snapshot, or a killed peer that still owed *)
(* its service something, can bring the service an index it does not       *)
(* expect.                                                                 *)
(***************************************************************************)
EXTENDS RaftApply, TLAPS

Noting(p) == p.svc.at \in {"check", "log", "write"}

\* A new peer's lastApplied is behind its snapshot until the loop has read the index.
CatchesUp(p) ==
    /\ Behind(p) /\ p.svc.at = "idle"
    /\ p.loop.at \in {"select", "notify", "start", "read", "cond"}
    /\ p.loop.at = "cond" => p.loop.index = p.lastSnapshotIndex

\* Without a leader's snapshot: a batch starts where the last one ended and stays within
\* what is committed, the service is at the last index sent, a peer's own snapshots are
\* of entries it has sent, and the loop installs one only after a restart.
PeerInv(p) ==
    /\ p.mu # "install" /\ p.svc.at \notin {"install", "ingest"}
    /\ p.loop.at \in {"send", "bump"} =>
         /\ p.loop.msgs.first = p.lastApplied + 1
         /\ p.loop.msgs.first <= p.loop.msgs.last
         /\ p.loop.msgs.last <= p.commitIndex
    /\ p.svc.at # "idle" => p.svc.index = Sent(p)
    /\ CatchesUp(p) \/ (p.lastSnapshotIndex <= Sent(p) /\ p.loop.at \notin {"read", "cond"})

\* The service is where peer p takes it to be.
InStep(p) ==
    /\ svcIndex = IF CatchesUp(p) THEN p.lastSnapshotIndex
                  ELSE IF Noting(p) THEN Sent(p) - 1 ELSE Sent(p)
    /\ 1 .. svcIndex \subseteq svcLog
    /\ p.svc.at = "write" => Sent(p) \in svcLog

\* If, besides, no peer was killed while it owed something, the killed ones are done
\* with the service, and the live one is in step with it.
Paid ==
    /\ fault = "none"
    /\ \A n \in Life : n <= life /\ Killed(n) => ~Owes(peer[n])
    /\ stage = "up" => InStep(peer[life])
    /\ stage = "starting" => svcIndex = 0

OrderInv ==
    installs = {} =>
        /\ fault # "slice"
        /\ \A n \in Life : PeerInv(peer[n])
        /\ ~owed => Paid

-----------------------------------------------------------------------------
(* Types *)

LEMMA ConstantFacts ==
    /\ NotifyCap \in Nat /\ NotifyCap > 0 /\ MaxIndex \in Nat /\ Installable \subseteq Index
    /\ MaxRestarts \in Nat /\ MaxLate \in Nat
  BY ApplyAssumption DEF Index

\* The program counters tell which fields there are.
LEMMA PeerFacts ==
    ASSUME NEW p \in Peers
    PROVE  /\ p.lastSnapshotIndex \in Index /\ p.commitIndex \in Index /\ p.lastApplied \in Index
           /\ p.lastSnapshotIndex \in Int /\ p.commitIndex \in Int /\ p.lastApplied \in Int
           /\ p.tokens \in 0 .. NotifyCap /\ p.tokens \in Int
           /\ p.loop \in LoopState /\ p.svc \in ServiceState
           /\ p.loop = Select <=> p.loop.at = "select"
           /\ p.loop.at = "cond" => p.loop.index \in Index
           /\ p.loop.at \in {"send", "bump"} =>
                p.loop.msgs.first \in Index /\ p.loop.msgs.last \in Index
           /\ p.svc = Idle <=> p.svc.at = "idle"
           /\ p.svc.at # "idle" => p.svc.index \in Index
  BY ConstantFacts DEF Peers, LoopState, ServiceState, Select, Idle, Index

LEMMA States ==
    /\ Select \in LoopState /\ Select.at = "select"
    /\ [at |-> "notify"] \in LoopState /\ [at |-> "start"] \in LoopState
    /\ [at |-> "read"] \in LoopState
    /\ \A k \in Index : AtIndex("cond", k) \in LoopState
    /\ \A k, m \in Index : /\ WithMsgs("send", Range(k, m)) \in LoopState
                           /\ WithMsgs("bump", Range(k, m)) \in LoopState
    /\ Idle \in ServiceState /\ Idle.at = "idle"
    /\ \A k \in Index, at \in {"check", "log", "write", "snapshot", "install", "ingest"} :
           AtIndex(at, k) \in ServiceState
  BY DEF Select, Idle, AtIndex, WithMsgs, Range, LoopState, ServiceState

LEMMA Becomes ==
    ASSUME peer \in [Life -> Peers], NEW n \in Life, NEW q \in Peers, Become(n, q)
    PROVE  /\ peer' \in [Life -> Peers] /\ peer'[n] = q
           /\ \A m \in Life : m # n => peer'[m] = peer[m]
  BY DEF Become

\* A token more, a token less.
LEMMA Tokens ==
    ASSUME NEW p \in Peers
    PROVE  /\ p.tokens < NotifyCap => p.tokens + 1 \in 0 .. NotifyCap
           /\ p.tokens > 0 => p.tokens - 1 \in 0 .. NotifyCap
<1>1. p.tokens \in 0 .. NotifyCap
  BY PeerFacts
<1> QED BY <1>1, ConstantFacts

Saved == [snap : Index, commit : Index]

LEMMA Persists ==
    ASSUME disk \in Saved, NEW n, NEW p \in Peers, Persist(n, p)
    PROVE  disk' \in Saved
  BY PeerFacts DEF Persist, Saved

LEMMA FreshType ==
    ASSUME NEW d \in Saved PROVE Fresh(d) \in Peers
<1>1. d.snap \in Index /\ d.commit \in Index /\ 0 \in Index
  BY ConstantFacts DEF Saved, Index
<1>2. 0 \in 0 .. NotifyCap /\ NewTimer \in BOOLEAN
  BY ConstantFacts DEF NewTimer
<1> QED BY <1>1, <1>2, States DEF Fresh, Peers

LEMMA InstallType ==
    ASSUME NEW p \in Peers, NEW k \in Index PROVE InstallTo(p, k) \in Peers
  BY DEF InstallTo, Peers

LEMMA BackType ==
    ASSUME NEW p \in Peers PROVE Back(p) \in Peers
  BY States DEF Back, Peers

\* The steps that change a peer and nothing else that has a type of its own.
LEMMA OnlyPeer ==
    ASSUME TypeOK, peer' \in [Life -> Peers], disk' \in Saved,
           UNCHANGED <<life, stage, service>>, late' \in 0 .. MaxLate,
           installs' \subseteq Installable, owed' \in BOOLEAN,
           fault' \in {"none", "order", "slice"}
    PROVE  TypeOK'
  BY DEF TypeOK, service, Saved

LEMMA CondType ==
    ASSUME TypeOK, NEW n \in Life, NEW p \in Peers, NEW k \in Index, Cond(n, p, k)
    PROVE  /\ peer' \in [Life -> Peers] /\ disk' \in Saved
           /\ fault' \in {"none", "order", "slice"}
<1>1. peer \in [Life -> Peers] /\ disk \in Saved /\ fault \in {"none", "order", "slice"}
  BY DEF TypeOK, Saved
<1>2. CASE k < p.lastSnapshotIndex
  BY <1>1, <1>2, Becomes DEF Cond
<1>3. CASE ~(k < p.lastSnapshotIndex)
  <2>1. InstallTo(p, k) \in Peers
    BY InstallType
  <2> QED BY <1>1, <1>3, <2>1, Becomes, Persists DEF Cond
<1> QED BY <1>2, <1>3

LEMMA HandlerTypes ==
    ASSUME TypeOK, NEW n \in Life, HandlerStep(n) PROVE TypeOK'
<1> DEFINE p == peer[n]
<1>0. /\ peer \in [Life -> Peers] /\ disk \in Saved /\ p \in Peers
      /\ late \in 0 .. MaxLate /\ installs \subseteq Installable /\ owed \in BOOLEAN
      /\ fault \in {"none", "order", "slice"}
  BY DEF TypeOK, Saved
<1>1. ASSUME Serves(n) PROVE late' \in 0 .. MaxLate
  BY <1>0, <1>1, ConstantFacts DEF Serves
<1>2. (owed \/ Killed(n)) \in BOOLEAN
  OBVIOUS
<1>3. CASE RaiseCommit(n)
  <2>1. PICK k \in p.commitIndex + 1 .. MaxIndex :
           LET q == [p EXCEPT !.commitIndex = k]
           IN \/ /\ q.tokens < NotifyCap
                 /\ Become(n, [q EXCEPT !.tokens = @ + 1])
                 /\ Persist(n, q)
              \/ /\ q.tokens = NotifyCap
                 /\ Become(n, [q EXCEPT !.mu = "commit"])
                 /\ UNCHANGED disk
    BY <1>3 DEF RaiseCommit
  <2>2. k \in Index
    BY <1>0, <2>1, PeerFacts, ConstantFacts DEF Index
  <2> DEFINE q == [p EXCEPT !.commitIndex = k]
  <2>3. q \in Peers /\ q.tokens = p.tokens
    BY <1>0, <2>2 DEF Peers
  <2>4. q.tokens < NotifyCap => [q EXCEPT !.tokens = @ + 1] \in Peers
    <3> HIDE DEF q
    <3>1. q.tokens < NotifyCap => q.tokens + 1 \in 0 .. NotifyCap
      BY <2>3, Tokens
    <3> QED BY <2>3, <3>1 DEF Peers
  <2>5. [q EXCEPT !.mu = "commit"] \in Peers
    BY <2>3 DEF Peers
  <2>6. peer' \in [Life -> Peers] /\ disk' \in Saved
    BY <1>0, <2>1, <2>3, <2>4, <2>5, Becomes, Persists
  <2> QED BY <1>0, <1>1, <1>2, <1>3, <2>6, OnlyPeer DEF RaiseCommit
<1>4. CASE TokenFits(n)
  <2>1. [p EXCEPT !.tokens = @ + 1, !.mu = "free"] \in Peers
    <3>1. p.tokens + 1 \in 0 .. NotifyCap
      BY <1>0, <1>4, Tokens DEF TokenFits
    <3> QED BY <1>0, <3>1 DEF Peers
  <2>2. peer' \in [Life -> Peers] /\ disk' \in Saved
    BY <1>0, <1>4, <2>1, Becomes, Persists DEF TokenFits
  <2> QED BY <1>0, <1>4, <2>2, OnlyPeer DEF TokenFits, history
<1>5. ASSUME NEW index \in Installable, InstallSnapshot(n, index) PROVE TypeOK'
  <2> DEFINE q == InstallTo(p, index)
  <2>1. q \in Peers
    BY <1>0, InstallType, ConstantFacts
  <2>2. [q EXCEPT !.mu = "install"] \in Peers
    BY <2>1 DEF Peers
  <2>3. peer' \in [Life -> Peers] /\ disk' \in Saved
    BY <1>0, <1>5, <2>1, <2>2, Becomes, Persists DEF InstallSnapshot
  <2>4. installs' \subseteq Installable
    BY <1>0, <1>5 DEF InstallSnapshot
  <2> QED BY <1>0, <1>1, <1>2, <1>5, <2>3, <2>4, OnlyPeer DEF InstallSnapshot
<1> QED BY <1>3, <1>4, <1>5 DEF HandlerStep

LEMMA LoopTypes ==
    ASSUME TypeOK, NEW n \in Life, LoopStep(n) PROVE TypeOK'
<1> DEFINE p == peer[n]
<1>0. /\ peer \in [Life -> Peers] /\ disk \in Saved /\ p \in Peers
      /\ late \in 0 .. MaxLate /\ installs \subseteq Installable /\ owed \in BOOLEAN
      /\ fault \in {"none", "order", "slice"}
  BY DEF TypeOK, Saved
<1>1. ASSUME NEW q \in Peers, Become(n, q),
             UNCHANGED <<life, stage, service, disk, history, fault>>
      PROVE  TypeOK'
  BY <1>0, <1>1, Becomes, OnlyPeer DEF history
<1>2. CASE TimerFires(n)
  <2>1. [p EXCEPT !.loop = [at |-> "notify"], !.timerArmed = FALSE] \in Peers
    BY <1>0, States DEF Peers
  <2> QED BY <1>1, <1>2, <2>1 DEF TimerFires
<1>3. CASE NotifyItself(n)
  <2>1. [p EXCEPT !.loop = Select, !.tokens = @ + 1] \in Peers
    <3>1. p.tokens + 1 \in 0 .. NotifyCap
      BY <1>0, <1>3, Tokens DEF NotifyItself
    <3> QED BY <1>0, <3>1, States DEF Peers
  <2> QED BY <1>1, <1>3, <2>1 DEF NotifyItself
<1>4. CASE TakeToken(n)
  <2>1. [p EXCEPT !.loop = [at |-> "start"], !.tokens = @ - 1] \in Peers
    <3>1. p.tokens - 1 \in 0 .. NotifyCap
      BY <1>0, <1>4, Tokens DEF TakeToken
    <3> QED BY <1>0, <3>1, States DEF Peers
  <2> QED BY <1>1, <1>4, <2>1 DEF TakeToken
<1>5. CASE StartApplyLogs(n)
  <2>1. [p EXCEPT !.loop = [at |-> "read"]] \in Peers
    BY <1>0, States DEF Peers
  <2>2. Back(p) \in Peers
    BY <1>0, BackType
  <2>3. p.lastApplied < p.commitIndex =>
          [p EXCEPT !.loop = WithMsgs("send", Batch(p))] \in Peers
    <3>1. p.lastApplied < p.commitIndex => p.lastApplied + 1 \in Index
      BY <1>0, PeerFacts, ConstantFacts DEF Index
    <3>2. p.lastApplied < p.commitIndex => WithMsgs("send", Batch(p)) \in LoopState
      BY <1>0, <3>1, PeerFacts, States DEF Batch
    <3> QED BY <1>0, <3>2 DEF Peers
  <2> QED BY <1>1, <1>5, <2>1, <2>2, <2>3 DEF StartApplyLogs
<1>6. CASE ReadSnapshotIndex(n)
  <2>1. [p EXCEPT !.loop = AtIndex("cond", p.lastSnapshotIndex)] \in Peers
    BY <1>0, PeerFacts, States DEF Peers
  <2> QED BY <1>1, <1>6, <2>1 DEF ReadSnapshotIndex
<1>7. CASE LoopInstalls(n)
  <2>1. p.loop.index \in Index /\ Back(p) \in Peers /\ Cond(n, Back(p), p.loop.index)
    BY <1>0, <1>7, PeerFacts, BackType DEF LoopInstalls
  <2> QED BY <1>0, <1>7, <2>1, CondType, OnlyPeer DEF LoopInstalls, history
<1>8. CASE SendMessage(n)
  <2>1. p.loop.msgs.first \in Index /\ p.loop.msgs.last \in Index
    BY <1>0, <1>8, PeerFacts DEF SendMessage
  <2>2. WithMsgs("bump", p.loop.msgs) \in LoopState
    BY <1>0, <1>8, PeerFacts DEF SendMessage, WithMsgs, LoopState
  <2>3. [p EXCEPT !.loop = WithMsgs("bump", p.loop.msgs),
                  !.svc = AtIndex("check", p.loop.msgs.first)] \in Peers
    BY <1>0, <2>1, <2>2, States DEF Peers
  <2> QED BY <1>1, <1>8, <2>3 DEF SendMessage
<1>9. CASE BumpApplied(n)
  <2> DEFINE msgs == p.loop.msgs
             q == [p EXCEPT !.lastApplied = msgs.first]
  <2>1. msgs.first \in Index /\ msgs.last \in Index
    BY <1>0, <1>9, PeerFacts DEF BumpApplied
  <2>2. q \in Peers
    BY <1>0, <2>1 DEF Peers
  <2>3. Back(q) \in Peers
    BY <2>2, BackType
  <2>4. msgs.first < msgs.last =>
          [q EXCEPT !.loop = WithMsgs("send", Range(msgs.first + 1, msgs.last))] \in Peers
    <3>1. msgs.first < msgs.last => msgs.first + 1 \in Index
      BY <2>1, ConstantFacts DEF Index
    <3> QED BY <2>1, <2>2, <3>1, States DEF Peers
  <2> HIDE DEF q
  <2> QED BY <1>1, <1>9, <2>3, <2>4 DEF BumpApplied, q
<1> QED BY <1>2, <1>3, <1>4, <1>5, <1>6, <1>7, <1>8, <1>9 DEF LoopStep

LEMMA ServiceTypes ==
    ASSUME TypeOK, NEW n \in Life, ServiceStep(n) PROVE TypeOK'
<1> DEFINE p == peer[n]
<1>0. /\ peer \in [Life -> Peers] /\ disk \in Saved /\ p \in Peers
      /\ late \in 0 .. MaxLate /\ installs \subseteq Installable /\ owed \in BOOLEAN
      /\ fault \in {"none", "order", "slice"}
  BY DEF TypeOK, Saved
<1>1. \A k \in Index, at \in {"check", "log", "write", "snapshot", "install", "ingest"} :
          [p EXCEPT !.svc = AtIndex(at, k)] \in Peers
  BY <1>0, States DEF Peers
<1>2. [p EXCEPT !.svc = Idle] \in Peers
  BY <1>0, States DEF Peers
<1>3. p.svc.at # "idle" => p.svc.index \in Index
  BY <1>0, PeerFacts
<1>4. CASE ServiceChecks(n)
  <2>1. peer' \in [Life -> Peers]
    BY <1>0, <1>1, <1>3, <1>4, Becomes DEF ServiceChecks
  <2> QED BY <1>0, <1>4, <2>1, OnlyPeer DEF ServiceChecks, history
<1>5. CASE ServiceLogs(n)
  <2>1. peer' \in [Life -> Peers]
    BY <1>0, <1>1, <1>3, <1>5, Becomes DEF ServiceLogs
  <2>2. svcLog' \subseteq Index /\ fault' \in {"none", "order", "slice"}
    BY <1>0, <1>3, <1>5 DEF ServiceLogs, TypeOK
  <2> QED BY <1>5, <2>1, <2>2 DEF ServiceLogs, TypeOK, history
<1>6. CASE ServiceWrites(n)
  <2>1. peer' \in [Life -> Peers]
    BY <1>0, <1>1, <1>2, <1>3, <1>6, Becomes DEF ServiceWrites
  <2>2. svcIndex' \in Index
    BY <1>3, <1>6 DEF ServiceWrites
  <2> QED BY <1>6, <2>1, <2>2 DEF ServiceWrites, TypeOK, history
<1>7. CASE ServiceSnapshots(n)
  <2> DEFINE q == [p EXCEPT !.svc = Idle]
             k == p.svc.index
  <2>1. q \in Peers /\ k \in Index
    BY <1>2, <1>3, <1>7 DEF ServiceSnapshots
  <2>2. [q EXCEPT !.lastSnapshotIndex = k] \in Peers
    BY <2>1 DEF Peers
  <2>3. peer' \in [Life -> Peers] /\ disk' \in Saved
    <3>1. CASE k > q.lastSnapshotIndex
      BY <1>0, <1>7, <2>2, <3>1, Becomes, Persists DEF ServiceSnapshots
    <3>2. CASE ~(k > q.lastSnapshotIndex)
      BY <1>0, <1>7, <2>1, <3>2, Becomes DEF ServiceSnapshots
    <3> QED BY <3>1, <3>2
  <2> QED BY <1>0, <1>7, <2>3, OnlyPeer DEF ServiceSnapshots, history
<1>8. CASE ReceiveSnapshot(n)
  <2>1. [p EXCEPT !.mu = "free", !.svc = AtIndex("install", p.lastSnapshotIndex)] \in Peers
    BY <1>0, PeerFacts, States DEF Peers
  <2>2. peer' \in [Life -> Peers]
    BY <1>0, <1>8, <2>1, Becomes DEF ReceiveSnapshot
  <2> QED BY <1>0, <1>8, <2>2, OnlyPeer DEF ReceiveSnapshot, history
<1>9. CASE ServiceInstalls(n)
  <2>1. p.svc.index \in Index /\ Cond(n, [p EXCEPT !.svc = AtIndex("ingest", p.svc.index)], p.svc.index)
    BY <1>3, <1>9 DEF ServiceInstalls
  <2>2. [p EXCEPT !.svc = AtIndex("ingest", p.svc.index)] \in Peers
    BY <1>1, <2>1
  <2> QED BY <1>0, <1>9, <2>1, <2>2, CondType, OnlyPeer DEF ServiceInstalls, history
<1>10. CASE ServiceIngests(n)
  <2>1. peer' \in [Life -> Peers]
    BY <1>0, <1>2, <1>10, Becomes DEF ServiceIngests
  <2>2. svcIndex' \in Index /\ svcLog' \subseteq Index
    BY <1>3, <1>10, ConstantFacts DEF ServiceIngests, Ingest, Index
  <2> QED BY <1>10, <2>1, <2>2 DEF ServiceIngests, TypeOK, history
<1> QED BY <1>4, <1>5, <1>6, <1>7, <1>8, <1>9, <1>10 DEF ServiceStep

LEMMA TypesStep == ASSUME TypeOK, [Next]_vars PROVE TypeOK'
<1>1. ASSUME NEW n \in Life, HandlerStep(n) \/ LoopStep(n) \/ ServiceStep(n) PROVE TypeOK'
  BY <1>1, HandlerTypes, LoopTypes, ServiceTypes
<1>2. CASE Crash
  BY <1>2 DEF Crash, TypeOK, service, Owes
<1>3. CASE ResetService
  BY <1>3, ConstantFacts DEF ResetService, TypeOK, history, Index
<1>4. CASE Restart
  <2>1. life + 1 \in Life /\ life' = life + 1 /\ stage' = "up"
    BY <1>4, ConstantFacts DEF Restart, TypeOK, Life
  <2>2. peer \in [Life -> Peers] /\ disk \in Saved
    BY DEF TypeOK, Saved
  <2>3. peer' \in [Life -> Peers]
    <3>1. Become(life + 1, Fresh(disk)) /\ Fresh(disk) \in Peers
      BY <1>4, <2>2, FreshType DEF Restart
    <3> HIDE DEF Fresh
    <3> QED BY <2>1, <2>2, <3>1, Becomes
  <2>4. svcIndex' \in Index /\ svcLog' \subseteq Index
    <3>1. disk.snap \in Index /\ 1 .. disk.snap \subseteq Index
      BY <2>2, ConstantFacts DEF Saved, Index
    <3>2. CASE disk.snap > 0
      BY <1>4, <3>1, <3>2 DEF Restart, Ingest
    <3>3. CASE ~(disk.snap > 0)
      BY <1>4, <3>3 DEF Restart, TypeOK, service
    <3> QED BY <3>2, <3>3
  <2> QED BY <1>4, <2>1, <2>3, <2>4 DEF Restart, TypeOK, history
<1>5. CASE UNCHANGED vars
  BY <1>5 DEF vars, history, service, TypeOK
<1> QED BY <1>1, <1>2, <1>3, <1>4, <1>5 DEF Next

-----------------------------------------------------------------------------
(* The order of the messages *)

LEMMA SentFacts ==
    ASSUME NEW p \in Peers
    PROVE  /\ Sent(p) \in Index /\ Sent(p) \in Int
           /\ p.loop.at # "bump" => Sent(p) = p.lastApplied
  BY PeerFacts, ConstantFacts DEF Sent, Index

\* The loop goes from one statement to another that sends nothing and installs nothing.
LEMMA Idles ==
    ASSUME NEW p, NEW q, PeerInv(p), q.mu # "install",
           q.lastSnapshotIndex = p.lastSnapshotIndex, q.commitIndex = p.commitIndex,
           q.lastApplied = p.lastApplied, q.svc = p.svc,
           p.loop.at \in {"select", "notify", "start"},
           q.loop.at \in {"select", "notify", "start"}
    PROVE  PeerInv(q) /\ (~Owes(p) => ~Owes(q)) /\ (InStep(p) => InStep(q))
  BY DEF PeerInv, CatchesUp, Behind, Sent, Owes, InStep, Noting

LEMMA BecomesAt ==
    ASSUME peer \in [Life -> Peers], NEW n \in Life, NEW q, Become(n, q)
    PROVE  peer'[n] = q /\ \A m \in Life : m # n => peer'[m] = peer[m]
  BY DEF Become

\* What a step of the loop or of the service keeps, without a leader's snapshot.
Keeps(n) ==
    /\ PeerInv(peer'[n]) /\ fault' # "slice"
    /\ ~Owes(peer[n]) => ~Owes(peer'[n]) /\ UNCHANGED <<service, fault>>
    /\ InStep(peer[n]) => InStep(peer[n])' /\ fault' = "none"

\* A step that leaves the service's variables alone.
LEMMA KeepsLocal ==
    ASSUME NEW n \in Life, PeerInv(peer'[n]), ~Owes(peer[n]) => ~Owes(peer'[n]),
           InStep(peer[n]) => InStep(peer'[n]), fault = "none", UNCHANGED <<service, fault>>
    PROVE  Keeps(n)
  BY DEF Keeps, InStep, service

LEMMA LoopKeeps ==
    ASSUME TypeOK, NEW n \in Life, LoopStep(n), PeerInv(peer[n])
    PROVE  Keeps(n)
<1> DEFINE p == peer[n]
           q == peer'[n]
<1>0. /\ peer \in [Life -> Peers] /\ p \in Peers
      /\ p.lastSnapshotIndex \in Int /\ p.commitIndex \in Int /\ p.lastApplied \in Int
  BY PeerFacts DEF TypeOK
<1>1. fault = "none"
  BY DEF LoopStep, TimerFires, NotifyItself, TakeToken, StartApplyLogs, ReadSnapshotIndex,
     LoopInstalls, SendMessage, BumpApplied, CanLock, Runs, Up
\* All of them but LoopInstalls leave the fault alone.
<1>2. ASSUME PeerInv(q), ~Owes(p) => ~Owes(q), InStep(p) => InStep(q), ~LoopInstalls(n)
      PROVE  Keeps(n)
  <2>1. UNCHANGED <<service, fault>>
    BY <1>2 DEF LoopStep, TimerFires, NotifyItself, TakeToken, StartApplyLogs,
       ReadSnapshotIndex, SendMessage, BumpApplied
  <2> QED BY <1>1, <1>2, <2>1, KeepsLocal
<1>3. CASE TimerFires(n)
  <2>1. q = [p EXCEPT !.loop = [at |-> "notify"], !.timerArmed = FALSE]
    BY <1>0, <1>3, BecomesAt DEF TimerFires
  <2>2. /\ q.lastSnapshotIndex = p.lastSnapshotIndex /\ q.commitIndex = p.commitIndex
        /\ q.lastApplied = p.lastApplied /\ q.svc = p.svc /\ q.mu = p.mu /\ q.loop.at = "notify"
    BY <1>0, <2>1 DEF Peers
  <2>3. p.loop.at = "select"
    BY <1>3 DEF TimerFires, Select
  <2>4. q.mu # "install"
    BY <2>2 DEF PeerInv
  <2>5. PeerInv(q) /\ (~Owes(p) => ~Owes(q)) /\ (InStep(p) => InStep(q))
    BY <2>2, <2>3, <2>4, Idles
  <2>6. ~LoopInstalls(n)
    BY <2>3 DEF LoopInstalls
  <2> QED BY <1>2, <2>5, <2>6
<1>4. CASE NotifyItself(n)
  <2>1. q = [p EXCEPT !.loop = Select, !.tokens = @ + 1]
    BY <1>0, <1>4, BecomesAt DEF NotifyItself
  <2>2. /\ q.lastSnapshotIndex = p.lastSnapshotIndex /\ q.commitIndex = p.commitIndex
        /\ q.lastApplied = p.lastApplied /\ q.svc = p.svc /\ q.mu = p.mu /\ q.loop.at = "select"
    BY <1>0, <2>1 DEF Peers, Select
  <2>3. p.loop.at = "notify"
    BY <1>4 DEF NotifyItself
  <2>4. q.mu # "install"
    BY <2>2 DEF PeerInv
  <2>5. PeerInv(q) /\ (~Owes(p) => ~Owes(q)) /\ (InStep(p) => InStep(q))
    BY <2>2, <2>3, <2>4, Idles
  <2>6. ~LoopInstalls(n)
    BY <2>3 DEF LoopInstalls
  <2> QED BY <1>2, <2>5, <2>6
<1>5. CASE TakeToken(n)
  <2>1. q = [p EXCEPT !.loop = [at |-> "start"], !.tokens = @ - 1]
    BY <1>0, <1>5, BecomesAt DEF TakeToken
  <2>2. /\ q.lastSnapshotIndex = p.lastSnapshotIndex /\ q.commitIndex = p.commitIndex
        /\ q.lastApplied = p.lastApplied /\ q.svc = p.svc /\ q.mu = p.mu /\ q.loop.at = "start"
    BY <1>0, <2>1 DEF Peers
  <2>3. p.loop.at = "select"
    BY <1>5 DEF TakeToken, Select
  <2>4. q.mu # "install"
    BY <2>2 DEF PeerInv
  <2>5. PeerInv(q) /\ (~Owes(p) => ~Owes(q)) /\ (InStep(p) => InStep(q))
    BY <2>2, <2>3, <2>4, Idles
  <2>6. ~LoopInstalls(n)
    BY <2>3 DEF LoopInstalls
  <2> QED BY <1>2, <2>5, <2>6
<1>6. CASE StartApplyLogs(n)
  <2>1. p.loop.at = "start" /\ ~LoopInstalls(n) /\ Sent(p) = p.lastApplied
    BY <1>6 DEF StartApplyLogs, LoopInstalls, Sent
  <2>2. CASE Behind(p) /\ Become(n, [p EXCEPT !.loop = [at |-> "read"]])
    <3>1. q = [p EXCEPT !.loop = [at |-> "read"]]
      BY <1>0, <2>2, BecomesAt
    <3>2. /\ q.lastSnapshotIndex = p.lastSnapshotIndex /\ q.commitIndex = p.commitIndex
          /\ q.lastApplied = p.lastApplied /\ q.svc = p.svc /\ q.mu = p.mu /\ q.loop.at = "read"
      BY <1>0, <3>1 DEF Peers
    <3>3. CatchesUp(p) /\ ~(q.lastSnapshotIndex <= Sent(q))
      BY <1>0, <2>1, <2>2, <3>2 DEF PeerInv, Behind, Sent
    <3>4. CatchesUp(q)
      BY <3>2, <3>3 DEF CatchesUp, Behind
    <3>5. PeerInv(q)
      BY <3>2, <3>3, <3>4 DEF PeerInv, CatchesUp
    <3>6. ~Owes(q)
      BY <3>2, <3>3, <3>4, <3>5 DEF Owes, CatchesUp, PeerInv
    <3>7. InStep(p) => InStep(q)
      BY <3>2, <3>3, <3>4 DEF InStep, CatchesUp
    <3> QED BY <1>2, <2>1, <3>5, <3>6, <3>7
  <2>3. CASE Become(n, Back(p))
    <3>1. q = Back(p)
      BY <1>0, <2>3, BecomesAt
    <3>2. /\ q.lastSnapshotIndex = p.lastSnapshotIndex /\ q.commitIndex = p.commitIndex
          /\ q.lastApplied = p.lastApplied /\ q.svc = p.svc /\ q.mu = p.mu /\ q.loop.at = "select"
      BY <1>0, <3>1 DEF Peers, Select, Back
    <3>3. q.mu # "install"
      BY <3>2 DEF PeerInv
    <3>4. PeerInv(q) /\ (~Owes(p) => ~Owes(q)) /\ (InStep(p) => InStep(q))
      BY <2>1, <3>2, <3>3, Idles
    <3> QED BY <1>2, <2>1, <3>4
  <2>4. CASE /\ ~Behind(p) /\ p.lastApplied < p.commitIndex
             /\ Become(n, [p EXCEPT !.loop = WithMsgs("send", Batch(p))])
    <3>1. q = [p EXCEPT !.loop = WithMsgs("send", Batch(p))]
      BY <1>0, <2>4, BecomesAt
    <3>2. /\ q.lastSnapshotIndex = p.lastSnapshotIndex /\ q.commitIndex = p.commitIndex
          /\ q.lastApplied = p.lastApplied /\ q.svc = p.svc /\ q.mu = p.mu
          /\ q.loop.at = "send" /\ q.loop.msgs.first = p.lastApplied + 1
          /\ q.loop.msgs.last = p.commitIndex
      BY <1>0, <3>1 DEF Peers, WithMsgs, Batch, Range
    <3>3. Owes(p) /\ p.lastSnapshotIndex <= p.lastApplied
      BY <1>0, <2>1, <2>4 DEF Owes, Behind
    <3>4. Sent(q) = Sent(p)
      BY <2>1, <3>2 DEF Sent
    <3>5. ~CatchesUp(p) /\ ~CatchesUp(q)
      BY <2>4, <3>2 DEF CatchesUp
    <3>6. PeerInv(q)
      BY <1>0, <2>1, <2>4, <3>2, <3>3, <3>4 DEF PeerInv
    <3>7. InStep(p) => InStep(q)
      BY <3>2, <3>4, <3>5 DEF InStep, Noting
    <3> QED BY <1>2, <2>1, <3>3, <3>6, <3>7
  <2> QED BY <1>6, <2>2, <2>3, <2>4 DEF StartApplyLogs
<1>7. CASE ReadSnapshotIndex(n)
  <2>1. q = [p EXCEPT !.loop = AtIndex("cond", p.lastSnapshotIndex)]
    BY <1>0, <1>7, BecomesAt DEF ReadSnapshotIndex
  <2>2. /\ q.lastSnapshotIndex = p.lastSnapshotIndex /\ q.commitIndex = p.commitIndex
        /\ q.lastApplied = p.lastApplied /\ q.svc = p.svc /\ q.mu = p.mu
        /\ q.loop.at = "cond" /\ q.loop.index = p.lastSnapshotIndex
    BY <1>0, <2>1 DEF Peers, AtIndex
  <2>3. p.loop.at = "read" /\ ~LoopInstalls(n)
    BY <1>7 DEF ReadSnapshotIndex, LoopInstalls
  <2>4. CatchesUp(p) /\ Sent(q) = p.lastApplied
    BY <2>2, <2>3 DEF PeerInv, Sent
  <2>5. CatchesUp(q)
    BY <2>2, <2>4 DEF CatchesUp, Behind
  <2>6. PeerInv(q)
    BY <2>2, <2>5 DEF PeerInv, CatchesUp
  <2>7. ~Owes(q)
    BY <1>0, <2>2, <2>4, <2>5, <2>6 DEF Owes, CatchesUp, PeerInv, Behind
  <2>8. InStep(p) => InStep(q)
    BY <2>2, <2>4, <2>5 DEF InStep, CatchesUp
  <2> QED BY <1>2, <2>3, <2>6, <2>7, <2>8
<1>8. CASE LoopInstalls(n)
  <2>1. p.loop.at = "cond" /\ Cond(n, Back(p), p.loop.index)
    BY <1>8 DEF LoopInstalls
  <2>2. CatchesUp(p) /\ p.loop.index = p.lastSnapshotIndex
    BY <2>1 DEF PeerInv, CatchesUp
  <2>3. Back(p).lastSnapshotIndex = p.lastSnapshotIndex
    BY <1>0 DEF Back, Peers
  <2>4. Become(n, InstallTo(Back(p), p.lastSnapshotIndex)) /\ UNCHANGED fault
    BY <1>0, <2>1, <2>2, <2>3 DEF Cond
  <2>5. q = InstallTo(Back(p), p.lastSnapshotIndex)
    BY <1>0, <2>4, BecomesAt
  <2>6. /\ q.lastSnapshotIndex = p.lastSnapshotIndex /\ q.commitIndex = p.lastSnapshotIndex
        /\ q.lastApplied = p.lastSnapshotIndex /\ q.svc = p.svc /\ q.mu = p.mu
        /\ q.loop.at = "select"
    BY <1>0, <2>5 DEF Peers, InstallTo, Back, Select
  <2>7. Sent(q) = q.lastApplied /\ ~Behind(q)
    BY <1>0, <2>6 DEF Sent, Behind
  <2>8. PeerInv(q)
    BY <1>0, <2>2, <2>6, <2>7 DEF PeerInv, CatchesUp
  <2>9. ~Owes(q)
    BY <1>0, <2>2, <2>6, <2>7, <2>8 DEF Owes, CatchesUp, PeerInv
  <2>10. InStep(p) => InStep(q)
    BY <2>2, <2>6, <2>7 DEF InStep, CatchesUp, Noting
  <2>11. UNCHANGED service
    BY <1>8 DEF LoopInstalls
  <2> QED BY <1>1, <2>4, <2>8, <2>9, <2>10, <2>11, KeepsLocal
<1>9. CASE SendMessage(n)
  <2>1. q = [p EXCEPT !.loop = WithMsgs("bump", p.loop.msgs),
                      !.svc = AtIndex("check", p.loop.msgs.first)]
    BY <1>0, <1>9, BecomesAt DEF SendMessage
  <2>2. /\ q.lastSnapshotIndex = p.lastSnapshotIndex /\ q.commitIndex = p.commitIndex
        /\ q.lastApplied = p.lastApplied /\ q.mu = p.mu
        /\ q.svc.at = "check" /\ q.svc.index = p.loop.msgs.first
        /\ q.loop.at = "bump" /\ q.loop.msgs = p.loop.msgs
    BY <1>0, <2>1 DEF Peers, AtIndex, WithMsgs
  <2>3. p.loop.at = "send" /\ p.svc.at = "idle" /\ ~LoopInstalls(n)
    BY <1>9 DEF SendMessage, Idle, LoopInstalls
  <2>4. Owes(p) /\ Sent(p) = p.lastApplied /\ Sent(q) = p.lastApplied + 1
    BY <2>2, <2>3 DEF Owes, Sent, PeerInv
  <2>5. ~CatchesUp(p) /\ ~CatchesUp(q)
    BY <2>2, <2>3 DEF CatchesUp
  <2>6. PeerInv(q)
    BY <1>0, <2>2, <2>3, <2>4, <2>5 DEF PeerInv
  <2>7. InStep(p) => InStep(q)
    BY <1>0, <2>2, <2>3, <2>4, <2>5 DEF InStep, Noting
  <2> QED BY <1>2, <2>3, <2>4, <2>6, <2>7
<1>10. CASE BumpApplied(n)
  <2> DEFINE msgs == p.loop.msgs
             r == [p EXCEPT !.lastApplied = msgs.first]
  <2>1. p.loop.at = "bump" /\ ~LoopInstalls(n)
    BY <1>10 DEF BumpApplied, LoopInstalls
  <2>2. /\ msgs.first = p.lastApplied + 1 /\ msgs.first <= msgs.last
        /\ msgs.last <= p.commitIndex /\ msgs.last \in Int /\ Sent(p) = msgs.first
        /\ ~CatchesUp(p) /\ p.lastSnapshotIndex <= msgs.first
    BY <1>0, <2>1, PeerFacts DEF PeerInv, CatchesUp, Sent, Index
  <2>3. /\ q = IF msgs.first < msgs.last
               THEN [r EXCEPT !.loop = WithMsgs("send", Range(msgs.first + 1, msgs.last))]
               ELSE Back(r)
    BY <1>0, <1>10, BecomesAt DEF BumpApplied
  <2>4. /\ q.lastSnapshotIndex = p.lastSnapshotIndex /\ q.commitIndex = p.commitIndex
        /\ q.lastApplied = msgs.first /\ q.svc = p.svc /\ q.mu = p.mu
        /\ msgs.first < msgs.last =>
             /\ q.loop.at = "send" /\ q.loop.msgs.first = msgs.first + 1
             /\ q.loop.msgs.last = msgs.last
        /\ ~(msgs.first < msgs.last) => q.loop.at = "select"
    BY <1>0, <2>3 DEF Peers, WithMsgs, Range, Back, Select
  <2>5. Sent(q) = msgs.first /\ ~CatchesUp(q)
    BY <1>0, <2>2, <2>4 DEF Sent, CatchesUp, Behind
  <2>6. PeerInv(q)
    <3>1. CASE msgs.first < msgs.last
      BY <1>0, <2>2, <2>4, <2>5, <3>1 DEF PeerInv
    <3>2. CASE ~(msgs.first < msgs.last)
      BY <1>0, <2>2, <2>4, <2>5, <3>2 DEF PeerInv
    <3> QED BY <3>1, <3>2
  <2>7. ~Owes(p) => ~Owes(q)
    BY <1>0, <2>1, <2>2, <2>4, <2>5 DEF Owes
  <2>8. InStep(p) => InStep(q)
    BY <2>2, <2>4, <2>5 DEF InStep, Noting
  <2> QED BY <1>2, <2>1, <2>6, <2>7, <2>8
<1> QED BY <1>3, <1>4, <1>5, <1>6, <1>7, <1>8, <1>9, <1>10 DEF LoopStep

LEMMA ServiceKeeps ==
    ASSUME TypeOK, NEW n \in Life, ServiceStep(n), PeerInv(peer[n])
    PROVE  Keeps(n)
<1> DEFINE p == peer[n]
           q == peer'[n]
           k == p.svc.index
<1>0. /\ peer \in [Life -> Peers] /\ p \in Peers
      /\ p.lastSnapshotIndex \in Int /\ p.commitIndex \in Int /\ p.lastApplied \in Int
      /\ Sent(p) \in Int /\ svcIndex \in Int
  BY PeerFacts, SentFacts DEF TypeOK, Index
<1>1. fault = "none"
  BY DEF ServiceStep, ServiceChecks, ServiceLogs, ServiceWrites, ServiceSnapshots,
     ReceiveSnapshot, ServiceInstalls, ServiceIngests, CanLock, Runs, Up
<1>2. p.svc.at # "idle" => /\ k = Sent(p) /\ ~CatchesUp(p) /\ p.lastSnapshotIndex <= Sent(p)
                           /\ p.loop.at \notin {"read", "cond"}
  BY DEF PeerInv, CatchesUp
\* While the service works on a message the peer owes it.
<1>3. ASSUME Noting(p), PeerInv(q), fault' # "slice",
             InStep(p) => InStep(peer[n])' /\ fault' = "none"
      PROVE  Keeps(n)
  <2>1. Owes(p)
    BY <1>3 DEF Noting, Owes
  <2> QED BY <1>3, <2>1 DEF Keeps
<1>4. CASE ServiceChecks(n)
  <2>1. /\ q = [p EXCEPT !.svc = AtIndex("log", k)] /\ p.svc.at = "check"
        /\ fault' = IF k = svcIndex + 1 THEN fault ELSE "order"
        /\ svcIndex' = svcIndex /\ svcLog' = svcLog
    BY <1>0, <1>4, BecomesAt DEF ServiceChecks, service
  <2>2. /\ q.lastSnapshotIndex = p.lastSnapshotIndex /\ q.commitIndex = p.commitIndex
        /\ q.lastApplied = p.lastApplied /\ q.mu = p.mu /\ q.loop = p.loop
        /\ q.svc.at = "log" /\ q.svc.index = k
    BY <1>0, <2>1 DEF Peers, AtIndex
  <2>3. Sent(q) = Sent(p) /\ ~CatchesUp(q)
    BY <2>2 DEF Sent, CatchesUp
  <2>4. PeerInv(q)
    BY <1>2, <2>1, <2>2, <2>3 DEF PeerInv
  <2>5. InStep(p) => k = svcIndex + 1
    BY <1>0, <1>2, <2>1 DEF InStep, Noting
  <2>6. InStep(p) => InStep(peer[n])'
    BY <1>2, <2>1, <2>2, <2>3 DEF InStep, Noting, Sent, CatchesUp, Behind
  <2> QED BY <1>1, <1>3, <2>1, <2>4, <2>5, <2>6 DEF Noting
<1>5. CASE ServiceLogs(n)
  <2>1. /\ q = [p EXCEPT !.svc = AtIndex("write", k)] /\ p.svc.at = "log"
        /\ fault' = IF k > 1 /\ k - 1 \notin svcLog THEN "order" ELSE fault
        /\ svcIndex' = svcIndex /\ svcLog' = svcLog \cup {k}
    BY <1>0, <1>5, BecomesAt DEF ServiceLogs
  <2>2. /\ q.lastSnapshotIndex = p.lastSnapshotIndex /\ q.commitIndex = p.commitIndex
        /\ q.lastApplied = p.lastApplied /\ q.mu = p.mu /\ q.loop = p.loop
        /\ q.svc.at = "write" /\ q.svc.index = k
    BY <1>0, <2>1 DEF Peers, AtIndex
  <2>3. Sent(q) = Sent(p) /\ ~CatchesUp(q)
    BY <2>2 DEF Sent, CatchesUp
  <2>4. PeerInv(q)
    BY <1>2, <2>1, <2>2, <2>3 DEF PeerInv
  <2>5. InStep(p) => svcIndex = k - 1 /\ 1 .. svcIndex \subseteq svcLog
    BY <1>0, <1>2, <2>1 DEF InStep, Noting
  <2>6. InStep(p) => ~(k > 1 /\ k - 1 \notin svcLog)
    BY <1>0, <1>2, <2>1, <2>5
  <2>7. InStep(p) => InStep(peer[n])'
    <3>1. ~CatchesUp(peer[n])' /\ Sent(peer[n])' = Sent(p) /\ Noting(peer[n])'
      BY <2>2, <2>3 DEF Noting, Sent, CatchesUp, Behind
    <3>2. Sent(p) \in svcLog' /\ (1 .. svcIndex \subseteq svcLog => 1 .. svcIndex' \subseteq svcLog')
      BY <1>2, <2>1
    <3> QED BY <1>2, <2>1, <2>5, <3>1, <3>2 DEF InStep
  <2> QED BY <1>1, <1>3, <2>1, <2>4, <2>6, <2>7 DEF Noting
<1>6. CASE ServiceWrites(n)
  <2>1. /\ q \in {[p EXCEPT !.svc = AtIndex("snapshot", k)], [p EXCEPT !.svc = Idle]}
        /\ p.svc.at = "write" /\ UNCHANGED fault
        /\ svcIndex' = k /\ svcLog' = svcLog
    BY <1>0, <1>6, BecomesAt DEF ServiceWrites
  <2>2. /\ q.lastSnapshotIndex = p.lastSnapshotIndex /\ q.commitIndex = p.commitIndex
        /\ q.lastApplied = p.lastApplied /\ q.mu = p.mu /\ q.loop = p.loop
        /\ q.svc.at \in {"idle", "snapshot"} /\ (q.svc.at # "idle" => q.svc.index = k)
    BY <1>0, <2>1 DEF Peers, AtIndex, Idle
  <2>3. Sent(q) = Sent(p) /\ ~CatchesUp(q)
    BY <1>0, <1>2, <2>1, <2>2 DEF Sent, CatchesUp, Behind, PeerInv
  <2>4. PeerInv(q)
    BY <1>2, <2>1, <2>2, <2>3 DEF PeerInv
  <2>5. InStep(p) => 1 .. Sent(p) - 1 \subseteq svcLog /\ Sent(p) \in svcLog
    BY <1>2, <2>1 DEF InStep, Noting
  <2>6. InStep(p) => InStep(peer[n])'
    <3>1. ~CatchesUp(peer[n])' /\ Sent(peer[n])' = Sent(p) /\ ~Noting(peer[n])'
      BY <2>2, <2>3 DEF Noting, Sent, CatchesUp, Behind
    <3>2. InStep(p) => 1 .. svcIndex' \subseteq svcLog'
      BY <1>0, <1>2, <2>1, <2>5
    <3>3. q.svc.at # "write"
      BY <2>2
    <3> QED BY <1>2, <2>1, <3>1, <3>2, <3>3 DEF InStep
  <2> QED BY <1>1, <1>3, <2>1, <2>4, <2>6 DEF Noting
<1>7. CASE ServiceSnapshots(n)
  <2>0. p.svc.at = "snapshot"
    BY <1>7 DEF ServiceSnapshots
  <2>1. /\ q = IF k > p.lastSnapshotIndex
               THEN [[p EXCEPT !.svc = Idle] EXCEPT !.lastSnapshotIndex = k]
               ELSE [p EXCEPT !.svc = Idle]
        /\ p.svc.at = "snapshot" /\ UNCHANGED <<service, fault>>
    <3>1. [p EXCEPT !.svc = Idle].lastSnapshotIndex = p.lastSnapshotIndex
      BY <1>0 DEF Peers
    <3> QED BY <1>0, <1>7, <3>1, BecomesAt DEF ServiceSnapshots
  <2>2. /\ q.lastSnapshotIndex \in {k, p.lastSnapshotIndex} /\ q.commitIndex = p.commitIndex
        /\ q.lastApplied = p.lastApplied /\ q.mu = p.mu /\ q.loop = p.loop
        /\ q.svc.at = "idle"
    BY <1>0, <2>1 DEF Peers, Idle
  <2>3. Sent(q) = Sent(p) /\ q.lastSnapshotIndex <= Sent(q)
    BY <1>0, <1>2, <2>1, <2>2 DEF Sent
  <2>4. p.loop.at \notin {"read", "cond"}
    BY <1>2, <2>0
  <2>5. ~CatchesUp(q)
    <3>1. q.lastSnapshotIndex \in Int /\ q.lastApplied \in Int
      BY <1>0, <1>2, <2>0, <2>2
    <3>2. CASE p.loop.at = "bump"
      BY <2>2, <3>2 DEF CatchesUp
    <3>3. CASE p.loop.at # "bump"
      BY <2>2, <2>3, <3>1, <3>3 DEF CatchesUp, Behind, Sent
    <3> QED BY <3>2, <3>3
  <2>6. PeerInv(q)
    BY <2>2, <2>3, <2>4, <2>5 DEF PeerInv
  <2>7. ~Owes(p) => ~Owes(q)
    BY <1>0, <1>2, <2>1, <2>2, <2>3 DEF Owes
  <2>8. InStep(p) => InStep(q)
    BY <1>2, <2>1, <2>2, <2>3, <2>5 DEF InStep, Noting
  <2> QED BY <1>1, <2>1, <2>6, <2>7, <2>8, KeepsLocal
<1>8. ~ReceiveSnapshot(n) /\ ~ServiceInstalls(n) /\ ~ServiceIngests(n)
  BY DEF ReceiveSnapshot, ServiceInstalls, ServiceIngests, PeerInv
<1> QED BY <1>4, <1>5, <1>6, <1>7, <1>8 DEF ServiceStep

\* A handler that commits, or that ends.
LEMMA CommitKeeps ==
    ASSUME TypeOK, NEW n \in Life, RaiseCommit(n), PeerInv(peer[n])
    PROVE  PeerInv(peer'[n]) /\ (InStep(peer[n]) => InStep(peer'[n]))
<1> DEFINE p == peer[n]
           q == peer'[n]
<1>0. peer \in [Life -> Peers] /\ p \in Peers /\ p.commitIndex \in Int
  BY PeerFacts DEF TypeOK
<1>1. PICK k \in p.commitIndex + 1 .. MaxIndex :
         LET r == [p EXCEPT !.commitIndex = k]
         IN \/ q = [r EXCEPT !.tokens = @ + 1]
            \/ q = [r EXCEPT !.mu = "commit"]
  BY <1>0, BecomesAt DEF RaiseCommit
<1>2. /\ q.lastSnapshotIndex = p.lastSnapshotIndex /\ q.commitIndex = k
      /\ q.lastApplied = p.lastApplied /\ q.mu \in {p.mu, "commit"} /\ q.loop = p.loop
      /\ q.svc = p.svc
  BY <1>0, <1>1 DEF Peers
<1>3. k \in Int /\ p.commitIndex < k
  BY <1>0, <1>1, ConstantFacts
<1>4. p.loop.at \in {"send", "bump"} => p.loop.msgs.last \in Int
  BY <1>0, PeerFacts DEF Index
<1>5. PeerInv(q)
  BY <1>0, <1>2, <1>3, <1>4 DEF PeerInv, CatchesUp, Behind, Sent
<1>6. InStep(p) => InStep(q)
  BY <1>2 DEF InStep, CatchesUp, Behind, Sent, Noting
<1> QED BY <1>5, <1>6

LEMMA TokenKeeps ==
    ASSUME TypeOK, NEW n \in Life, TokenFits(n), PeerInv(peer[n])
    PROVE  Keeps(n)
<1> DEFINE p == peer[n]
           q == peer'[n]
<1>0. peer \in [Life -> Peers] /\ p \in Peers
  BY DEF TypeOK
<1>1. q = [p EXCEPT !.tokens = @ + 1, !.mu = "free"]
  BY <1>0, BecomesAt DEF TokenFits
<1>2. /\ q.lastSnapshotIndex = p.lastSnapshotIndex /\ q.commitIndex = p.commitIndex
      /\ q.lastApplied = p.lastApplied /\ q.mu = "free" /\ q.loop = p.loop /\ q.svc = p.svc
  BY <1>0, <1>1 DEF Peers
<1>3. PeerInv(q) /\ (~Owes(p) => ~Owes(q)) /\ (InStep(p) => InStep(q))
  BY <1>2 DEF PeerInv, InStep, CatchesUp, Behind, Sent, Noting, Owes
<1>4. fault = "none" /\ UNCHANGED <<service, fault>>
  BY DEF TokenFits, Runs, Up
<1> QED BY <1>3, <1>4, KeepsLocal

\* A step that Keeps vouches for, of any peer, killed or not.
LEMMA OrderFromKeeps ==
    ASSUME TypeOK, OrderInv, NEW n \in Life, installs = {} => Keeps(n), Runs(n),
           \A m \in Life : m # n => peer'[m] = peer[m],
           UNCHANGED <<life, stage, installs, owed>>
    PROVE  OrderInv'
<1> SUFFICES ASSUME installs = {}
             PROVE  /\ fault' # "slice" /\ \A m \in Life : PeerInv(peer'[m])
                    /\ ~owed => Paid'
  BY DEF OrderInv, PeerInv, CatchesUp, Behind, Sent
<1>1. Keeps(n) /\ \A m \in Life : PeerInv(peer[m])
  BY DEF OrderInv
<1>2. fault' # "slice" /\ \A m \in Life : PeerInv(peer'[m])
  BY <1>1 DEF Keeps
<1>3. ASSUME ~owed PROVE Paid'
  <2>1. /\ \A m \in Life : m <= life /\ Killed(m) => ~Owes(peer[m])
        /\ stage = "up" => InStep(peer[life])
        /\ stage = "starting" => svcIndex = 0
        /\ fault = "none" /\ life \in Life /\ life \in Int /\ n \in Int /\ n <= life
    BY <1>3, ConstantFacts DEF OrderInv, Paid, TypeOK, Life, Runs
  <2>2. \A m \in Life : Killed(m)' <=> Killed(m)
    BY DEF Killed
  <2>3. CASE Killed(n)
    <3>1. ~Owes(peer'[n]) /\ UNCHANGED <<service, fault>>
      BY <1>1, <2>1, <2>3 DEF Keeps
    <3>2. \A m \in Life : m <= life /\ Killed(m) => ~Owes(peer'[m])
      BY <2>1, <3>1
    <3>3. stage = "up" => peer'[life] = peer[life]
      BY <2>1, <2>3 DEF Killed
    <3>4. stage = "up" => InStep(peer[life])'
      BY <2>1, <3>1, <3>3 DEF InStep, service, CatchesUp, Behind, Sent, Noting
    <3>5. stage = "starting" => svcIndex' = 0
      BY <2>1, <3>1 DEF service
    <3> QED BY <2>1, <2>2, <3>1, <3>2, <3>4, <3>5 DEF Paid, Owes, Sent
  <2>4. CASE ~Killed(n)
    <3>1. n = life /\ stage = "up"
      BY <2>1, <2>4 DEF Killed
    <3>2. InStep(peer[life])' /\ fault' = "none"
      BY <1>1, <2>1, <3>1 DEF Keeps
    <3>3. \A m \in Life : m <= life /\ Killed(m) => ~Owes(peer'[m])
      BY <2>1, <2>4
    <3> QED BY <2>1, <2>2, <3>1, <3>2, <3>3 DEF Paid, Owes, Sent
  <2> QED BY <2>3, <2>4
<1> QED BY <1>2, <1>3

LEMMA OthersKept ==
    ASSUME TypeOK, NEW n \in Life, HandlerStep(n) \/ LoopStep(n) \/ ServiceStep(n)
    PROVE  (\A m \in Life : m # n => peer'[m] = peer[m]) /\ UNCHANGED <<life, stage>> /\ Runs(n)
<1>1. peer \in [Life -> Peers]
  BY DEF TypeOK
<1>2. \E q : Become(n, q)
  BY DEF HandlerStep, RaiseCommit, TokenFits, InstallSnapshot, LoopStep, TimerFires,
     NotifyItself, TakeToken, StartApplyLogs, ReadSnapshotIndex, LoopInstalls, SendMessage,
     BumpApplied, ServiceStep, ServiceChecks, ServiceLogs, ServiceWrites, ServiceSnapshots,
     ReceiveSnapshot, ServiceInstalls, ServiceIngests, Cond
<1>3. UNCHANGED <<life, stage>> /\ Runs(n)
  BY DEF HandlerStep, RaiseCommit, TokenFits, InstallSnapshot, LoopStep, TimerFires,
     NotifyItself, TakeToken, StartApplyLogs, ReadSnapshotIndex, LoopInstalls, SendMessage,
     BumpApplied, ServiceStep, ServiceChecks, ServiceLogs, ServiceWrites, ServiceSnapshots,
     ReceiveSnapshot, ServiceInstalls, ServiceIngests, CanLock
<1> QED BY <1>1, <1>2, <1>3, BecomesAt

LEMMA HistoryKept ==
    ASSUME NEW n \in Life, TokenFits(n) \/ LoopStep(n) \/ ServiceStep(n)
    PROVE  UNCHANGED <<installs, owed>>
  BY DEF TokenFits, LoopStep, TimerFires, NotifyItself, TakeToken, StartApplyLogs,
     ReadSnapshotIndex, LoopInstalls, SendMessage, BumpApplied, ServiceStep, ServiceChecks,
     ServiceLogs, ServiceWrites, ServiceSnapshots, ReceiveSnapshot, ServiceInstalls,
     ServiceIngests, history

LEMMA OrderStep == ASSUME TypeOK, OrderInv, [Next]_vars PROVE OrderInv'
<1>1. ASSUME NEW n \in Life, TokenFits(n) \/ LoopStep(n) \/ ServiceStep(n) PROVE OrderInv'
  <2>1. installs = {} => Keeps(n)
    <3>1. installs = {} => PeerInv(peer[n])
      BY DEF OrderInv
    <3> QED BY <1>1, <3>1, TokenKeeps, LoopKeeps, ServiceKeeps
  <2>2. HandlerStep(n) \/ LoopStep(n) \/ ServiceStep(n)
    BY <1>1 DEF HandlerStep
  <2> QED BY <1>1, <2>1, <2>2, OthersKept, HistoryKept, OrderFromKeeps
<1>2. ASSUME NEW n \in Life, RaiseCommit(n) PROVE OrderInv'
  <2>1. /\ \A m \in Life : m # n => peer'[m] = peer[m]
        /\ UNCHANGED <<life, stage>> /\ Runs(n)
    BY <1>2, OthersKept DEF HandlerStep
  <2>2. UNCHANGED <<service, installs, fault>> /\ owed' = (owed \/ Killed(n))
    BY <1>2 DEF RaiseCommit
  <2>3. life \in Int /\ n \in Int /\ n <= life /\ fault = "none"
    BY <2>1, ConstantFacts DEF Runs, Up, TypeOK, Life
  <2> SUFFICES ASSUME installs = {}
               PROVE  /\ fault' # "slice" /\ \A m \in Life : PeerInv(peer'[m])
                      /\ ~owed' => Paid'
    BY <2>2 DEF OrderInv, PeerInv, CatchesUp, Behind, Sent
  <2>4. \A m \in Life : PeerInv(peer[m])
    BY DEF OrderInv
  <2>5. PeerInv(peer'[n]) /\ (InStep(peer[n]) => InStep(peer'[n]))
    BY <1>2, <2>4, CommitKeeps
  <2>6. ASSUME ~owed' PROVE Paid'
    <3>0. ~owed /\ ~Killed(n)
      BY <2>2, <2>6, Zenon
    <3>1. ~owed /\ ~Killed(n) /\ n = life /\ stage = "up"
      BY <2>3, <3>0 DEF Killed
    <3>2. Paid
      BY <3>1 DEF OrderInv
    <3>3. InStep(peer'[life])
      BY <2>5, <3>1, <3>2 DEF Paid
    <3>4. InStep(peer[life])'
      BY <2>1, <2>2, <3>3 DEF InStep, service, CatchesUp, Behind, Sent, Noting
    <3>5. \A m \in Life : m <= life /\ Killed(m)' => Killed(m) /\ m # n
      BY <2>1, <3>1 DEF Killed
    <3>6. \A m \in Life : m <= life /\ Killed(m)' => ~Owes(peer'[m])
      BY <2>1, <3>2, <3>5 DEF Paid
    <3> QED BY <2>1, <2>2, <3>1, <3>2, <3>4, <3>6 DEF Paid, Owes, Sent
  <2> QED BY <2>1, <2>2, <2>3, <2>4, <2>5, <2>6
<1>3. ASSUME NEW n \in Life, NEW index \in Installable, InstallSnapshot(n, index) PROVE OrderInv'
  BY <1>3 DEF InstallSnapshot, OrderInv
<1>4. CASE Crash
  <2>1. /\ UNCHANGED <<peer, life, service, installs, fault>> /\ stage' = "crashed"
        /\ owed' = (owed \/ Owes(peer[life])) /\ stage = "up" /\ fault = "none"
    BY <1>4 DEF Crash, Up
  <2>2. ASSUME installs = {}, ~owed' PROVE Paid'
    <3>0. ~owed /\ ~Owes(peer[life])
      BY <2>1, <2>2, Zenon
    <3>1. Paid /\ ~Owes(peer[life]) /\ life \in Int /\ \A m \in Life : m \in Int
      BY <2>2, <3>0, ConstantFacts DEF OrderInv, TypeOK, Life
    <3>2. \A m \in Life : m <= life => ~Owes(peer[m])
      BY <3>1 DEF Paid, Killed
    <3> QED BY <2>1, <3>1, <3>2 DEF Paid, Owes, Sent
  <2> QED BY <2>1, <2>2 DEF OrderInv, PeerInv, CatchesUp, Behind, Sent
<1>5. CASE ResetService
  <2>1. /\ UNCHANGED <<peer, life, installs, owed, fault>> /\ stage = "crashed"
        /\ stage' = "starting" /\ svcIndex' = 0
    BY <1>5 DEF ResetService, history
  <2>2. ASSUME installs = {}, ~owed PROVE Paid'
    <3>1. Paid
      BY <2>2 DEF OrderInv
    <3> QED BY <2>1, <3>1 DEF Paid, Owes, Sent, Killed
  <2> QED BY <2>1, <2>2 DEF OrderInv, PeerInv, CatchesUp, Behind, Sent
<1>6. CASE Restart
  <2> DEFINE q == Fresh(disk)
  <2>1. /\ stage = "starting" /\ stage' = "up" /\ life' = life + 1 /\ life \in Int
        /\ life + 1 \in Life /\ \A m \in Life : m \in Int
        /\ disk.snap \in Int /\ disk.snap >= 0 /\ UNCHANGED <<installs, owed, fault>>
    BY <1>6, ConstantFacts DEF Restart, TypeOK, Life, Index, history
  <2>2. peer'[life + 1] = q /\ \A m \in Life : m # life + 1 => peer'[m] = peer[m]
    BY <1>6, <2>1, BecomesAt DEF Restart, TypeOK
  <2>3. /\ q.lastSnapshotIndex = disk.snap /\ q.commitIndex = disk.commit /\ q.lastApplied = 0
        /\ q.mu = "free" /\ q.loop.at = "select" /\ q.svc.at = "idle"
    BY DEF Fresh, Select, Idle
  <2> HIDE DEF q
  <2>4. Sent(q) = 0 /\ (CatchesUp(q) <=> disk.snap > 0)
    BY <2>1, <2>3 DEF Sent, CatchesUp, Behind
  <2>5. PeerInv(q)
    BY <2>1, <2>3, <2>4 DEF PeerInv
  <2>6. ASSUME installs = {}, ~owed PROVE Paid'
    <3>1. Paid /\ svcIndex = 0
      BY <2>1, <2>6 DEF OrderInv, Paid
    <3>2. \A m \in Life : m < life + 1 => ~Owes(peer'[m])
      BY <2>1, <2>2, <3>1 DEF Paid, Killed
    <3>3. svcIndex' = disk.snap /\ 1 .. disk.snap \subseteq svcLog'
      <4>1. CASE disk.snap > 0
        BY <1>6, <4>1 DEF Restart, Ingest
      <4>2. CASE disk.snap = 0
        BY <1>6, <3>1, <4>2 DEF Restart, service
      <4> QED BY <2>1, <4>1, <4>2
    <3>4. /\ peer'[life'] = q /\ svcIndex' = (IF CatchesUp(q) THEN disk.snap ELSE 0)
          /\ ~Noting(q) /\ 1 .. svcIndex' \subseteq svcLog'
      BY <2>1, <2>2, <2>3, <2>4, <3>3 DEF Noting
    <3>5. InStep(peer[life])'
      BY <2>3, <2>4, <3>4 DEF InStep, Noting, CatchesUp, Behind, Sent
    <3> QED BY <2>1, <3>1, <3>2, <3>5 DEF Paid, Killed, Owes, Sent
  <2>7. installs = {} => \A m \in Life : PeerInv(peer'[m])
    BY <2>2, <2>5 DEF OrderInv
  <2> QED BY <2>1, <2>6, <2>7 DEF OrderInv, PeerInv, CatchesUp, Behind, Sent
<1>7. CASE UNCHANGED vars
  BY <1>7 DEF vars, history, service, OrderInv, Paid, PeerInv, InStep, CatchesUp, Behind,
     Sent, Noting, Owes, Killed
<1> QED BY <1>1, <1>2, <1>3, <1>4, <1>5, <1>6, <1>7 DEF Next, HandlerStep

-----------------------------------------------------------------------------
(* Theorems *)

LEMMA Start == Init => TypeOK /\ OrderInv
<1> SUFFICES ASSUME Init PROVE TypeOK /\ OrderInv
  OBVIOUS
<1> DEFINE q == Fresh(NothingSaved)
<1>1. NothingSaved \in Saved
  BY ConstantFacts DEF NothingSaved, Saved, Index
<1>2. 0 \in Life /\ q \in Peers /\ peer = [n \in Life |-> q]
  BY <1>1, ConstantFacts, FreshType DEF Init, Life
<1>3. TypeOK
  <2>1. peer \in [Life -> Peers]
    BY <1>2
  <2>2. 0 \in Index /\ 0 \in 0 .. MaxLate
    BY ConstantFacts DEF Index
  <2> HIDE DEF q
  <2> QED BY <1>1, <1>2, <2>1, <2>2 DEF Init, TypeOK, Saved
<1>4. /\ q.lastSnapshotIndex = 0 /\ q.commitIndex = 0 /\ q.lastApplied = 0
      /\ q.mu = "free" /\ q.loop.at = "select" /\ q.svc.at = "idle"
  BY DEF Fresh, NothingSaved, Select, Idle
<1> HIDE DEF q
<1>5. Sent(q) = 0 /\ ~CatchesUp(q) /\ ~Noting(q)
  BY <1>4 DEF Sent, CatchesUp, Behind, Noting
<1>6. PeerInv(q)
  BY <1>4, <1>5 DEF PeerInv
<1>7. InStep(q)
  BY <1>4, <1>5 DEF InStep, Init
<1>8. \A n \in Life : peer[n] = q
  BY <1>2
<1>9. Paid
  BY <1>2, <1>7, <1>8, ConstantFacts DEF Paid, Init, Killed, Life
<1> QED BY <1>3, <1>6, <1>8, <1>9 DEF OrderInv, Init

\* Indexes, program counters, batches and the persister's record have their types, and
\* notifyApplyCh holds no more tokens than it has room for (raft.go, config.go).
THEOREM TypeCorrect == Spec => []TypeOK
<1>1. Init => TypeOK
  BY Start
<1>2. TypeOK /\ [Next]_vars => TypeOK'
  BY TypesStep
<1> QED BY <1>1, <1>2, PTL DEF Spec

\* applierSnap gets every index once and in order, its log holds the index before, and
\* CondInstallSnapshot slices nothing it does not have, however the loops and the services
\* of the live peer and of all the killed ones take turns: only a leader's snapshot can
\* change that, or a peer killed while it still had something to hand over or its service
\* something to note.
THEOREM OrderKept == Spec => []FaultNeedsInstall
<1>1. Init => TypeOK /\ OrderInv
  BY Start
<1>2. TypeOK /\ OrderInv /\ [Next]_vars => TypeOK' /\ OrderInv'
  BY TypesStep, OrderStep
<1>3. TypeOK /\ OrderInv => FaultNeedsInstall
  BY DEF TypeOK, OrderInv, Paid, FaultNeedsInstall
<1> QED BY <1>1, <1>2, <1>3, PTL DEF Spec

\* The service's steps leave the channel of tokens and the loop alone.
LEMMA ServiceOnly ==
    ASSUME TypeOK, NEW n \in Life, ServiceStep(n)
    PROVE  peer'[n].tokens = peer[n].tokens /\ peer'[n].loop = peer[n].loop
<1> DEFINE p == peer[n]
           q == peer'[n]
<1>0. peer \in [Life -> Peers] /\ p \in Peers
  BY DEF TypeOK
<1>1. CASE ServiceChecks(n) \/ ServiceLogs(n) \/ ServiceWrites(n) \/ ServiceIngests(n)
  <2>1. \E v : q = [p EXCEPT !.svc = v]
    BY <1>0, <1>1, BecomesAt DEF ServiceChecks, ServiceLogs, ServiceWrites, ServiceIngests
  <2> QED BY <1>0, <2>1 DEF Peers
<1>2. CASE ServiceSnapshots(n)
  <2>1. \/ q = [p EXCEPT !.svc = Idle]
        \/ q = [[p EXCEPT !.svc = Idle] EXCEPT !.lastSnapshotIndex = p.svc.index]
    BY <1>0, <1>2, BecomesAt DEF ServiceSnapshots
  <2> QED BY <1>0, <2>1 DEF Peers
<1>3. CASE ReceiveSnapshot(n)
  <2>1. q = [p EXCEPT !.mu = "free", !.svc = AtIndex("install", p.lastSnapshotIndex)]
    BY <1>0, <1>3, BecomesAt DEF ReceiveSnapshot
  <2> QED BY <1>0, <2>1 DEF Peers
<1>4. CASE ServiceInstalls(n)
  <2> DEFINE r == [p EXCEPT !.svc = AtIndex("ingest", p.svc.index)]
  <2>1. q = r \/ q = InstallTo(r, p.svc.index)
    BY <1>0, <1>4, BecomesAt DEF ServiceInstalls, Cond
  <2> QED BY <1>0, <2>1 DEF Peers, InstallTo
<1> QED BY <1>1, <1>2, <1>3, <1>4 DEF ServiceStep

\* A peer that waits in a circle takes no step but those that leave the circle closed.
LEMMA CircleStays ==
    ASSUME TypeOK, NEW n \in Life, Circular(peer[n]),
           HandlerStep(n) \/ LoopStep(n) \/ ServiceStep(n)
    PROVE  Circular(peer'[n])
<1> DEFINE p == peer[n]
           q == peer'[n]
<1>0. /\ peer \in [Life -> Peers] /\ p \in Peers /\ p.tokens \in Int /\ NotifyCap \in Int
      /\ (p.loop = Select <=> p.loop.at = "select") /\ (p.svc = Idle <=> p.svc.at = "idle")
  BY PeerFacts, ConstantFacts DEF TypeOK
<1>1. CASE p.mu = "install" /\ ServiceWaits(p)
  <2>1. TimerFires(n) \/ NotifyItself(n) \/ TakeToken(n) \/ ReadSnapshotIndex(n)
    BY <1>0, <1>1 DEF HandlerStep, RaiseCommit, TokenFits, InstallSnapshot, LoopStep,
       StartApplyLogs, LoopInstalls, SendMessage, BumpApplied, ServiceStep, ServiceChecks,
       ServiceLogs, ServiceWrites, ServiceSnapshots, ReceiveSnapshot, ServiceInstalls,
       ServiceIngests, CanLock, ServiceWaits
  <2>2. \/ q = [p EXCEPT !.loop = [at |-> "notify"], !.timerArmed = FALSE]
        \/ q = [p EXCEPT !.loop = Select, !.tokens = @ + 1]
        \/ q = [p EXCEPT !.loop = [at |-> "start"], !.tokens = @ - 1]
        \/ q = [p EXCEPT !.loop = AtIndex("cond", p.lastSnapshotIndex)]
    BY <1>0, <2>1, BecomesAt DEF TimerFires, NotifyItself, TakeToken, ReadSnapshotIndex
  <2>3. q.mu = p.mu /\ q.svc = p.svc
    BY <1>0, <2>2 DEF Peers
  <2> QED BY <1>1, <2>3 DEF Circular, ServiceWaits
<1>2. CASE p.tokens = NotifyCap /\ p.loop.at = "notify"
  <2>1. \/ RaiseCommit(n) \/ (\E index \in Installable : InstallSnapshot(n, index))
        \/ ServiceStep(n)
    BY <1>0, <1>2 DEF HandlerStep, TokenFits, LoopStep, TimerFires, NotifyItself, TakeToken,
       StartApplyLogs, ReadSnapshotIndex, LoopInstalls, SendMessage, BumpApplied
  <2>2. q.tokens = p.tokens /\ q.loop = p.loop
    <3>1. CASE RaiseCommit(n)
      <4>1. PICK k : LET r == [p EXCEPT !.commitIndex = k]
                     IN \/ r.tokens < NotifyCap
                        \/ Become(n, [r EXCEPT !.mu = "commit"])
        BY <3>1 DEF RaiseCommit
      <4>2. [p EXCEPT !.commitIndex = k].tokens = p.tokens
        BY <1>0 DEF Peers
      <4>3. q = [[p EXCEPT !.commitIndex = k] EXCEPT !.mu = "commit"]
        BY <1>0, <1>2, <4>1, <4>2, BecomesAt
      <4> QED BY <1>0, <4>3 DEF Peers
    <3>2. ASSUME NEW index \in Installable, InstallSnapshot(n, index)
          PROVE  q.tokens = p.tokens /\ q.loop = p.loop
      <4>1. q = [InstallTo(p, index) EXCEPT !.mu = "install"]
        BY <1>0, <3>2, BecomesAt DEF InstallSnapshot
      <4> QED BY <1>0, <4>1 DEF Peers, InstallTo
    <3>3. CASE ServiceStep(n)
      BY <3>3, ServiceOnly
    <3> QED BY <2>1, <3>1, <3>2, <3>3
  <2> QED BY <1>2, <2>2 DEF Circular
<1>3. CASE /\ p.tokens = NotifyCap /\ p.mu = "commit"
           /\ p.loop.at \in {"start", "cond", "bump"} \/ (p.loop.at = "send" /\ ServiceWaits(p))
  <2>1. ServiceChecks(n) \/ ServiceLogs(n) \/ ServiceWrites(n) \/ ServiceIngests(n)
    BY <1>0, <1>3 DEF HandlerStep, RaiseCommit, TokenFits, InstallSnapshot, LoopStep,
       TimerFires, NotifyItself, TakeToken, StartApplyLogs, ReadSnapshotIndex, LoopInstalls,
       SendMessage, BumpApplied, ServiceStep, ServiceSnapshots, ReceiveSnapshot,
       ServiceInstalls, CanLock, ServiceWaits
  <2>2. ~ServiceWaits(p)
    BY <2>1 DEF ServiceChecks, ServiceLogs, ServiceWrites, ServiceIngests, ServiceWaits
  <2>3. \E v : q = [p EXCEPT !.svc = v]
    BY <1>0, <2>1, BecomesAt DEF ServiceChecks, ServiceLogs, ServiceWrites, ServiceIngests
  <2>4. q.tokens = p.tokens /\ q.mu = p.mu /\ q.loop = p.loop
    BY <1>0, <2>3 DEF Peers
  <2> QED BY <1>3, <2>2, <2>4 DEF Circular
<1> QED BY <1>1, <1>2, <1>3 DEF Circular

\* A peer that is not made yet.
Unborn == \A n \in Life : n > life => peer[n] = Fresh(NothingSaved)

LEMMA UnbornStep == ASSUME TypeOK, Unborn, [Next]_vars PROVE Unborn'
<1>1. life \in Int /\ peer \in [Life -> Peers] /\ \A n \in Life : n \in Int
  BY ConstantFacts DEF TypeOK, Life
<1>2. ASSUME NEW n \in Life, HandlerStep(n) \/ LoopStep(n) \/ ServiceStep(n) PROVE Unborn'
  <2>1. /\ \A m \in Life : m # n => peer'[m] = peer[m]
        /\ life' = life /\ n <= life
    BY <1>2, OthersKept DEF Runs
  <2> QED BY <1>1, <2>1 DEF Unborn
<1>3. CASE Restart
  <2>1. life + 1 \in Life /\ life' = life + 1
    BY <1>3, ConstantFacts DEF Restart, TypeOK, Life
  <2>2. \A m \in Life : m # life + 1 => peer'[m] = peer[m]
    BY <1>1, <1>3, <2>1, BecomesAt DEF Restart
  <2> QED BY <1>1, <2>1, <2>2 DEF Unborn
<1>4. CASE Crash \/ ResetService \/ UNCHANGED vars
  BY <1>4 DEF Crash, ResetService, vars, Unborn
<1> QED BY <1>2, <1>3, <1>4 DEF Next

\* The three circular waits are deadlocks: no step of any goroutine of the peer, of
\* another peer or of the test ends one (raft.go 418, 628, 688 and 862).
THEOREM CircularWaitsStay == Spec => WedgedForGood
<1>1. Init => Unborn
  BY DEF Init, Unborn
<1>2. TypeOK /\ Unborn /\ [Next]_vars => Unborn'
  BY UnbornStep
<1>3. TypeOK /\ Unborn /\ [Next]_vars => [\A n \in Life : Wedged(n) => Wedged(n)']_vars
  <2> SUFFICES ASSUME TypeOK, Unborn, Next, NEW n \in Life, Wedged(n) PROVE Circular(peer'[n])
    BY DEF Wedged, Circular, ServiceWaits
  <2>0. peer \in [Life -> Peers] /\ Circular(peer[n])
    BY DEF TypeOK, Wedged
  <2>1. ASSUME NEW m \in Life, HandlerStep(m) \/ LoopStep(m) \/ ServiceStep(m)
        PROVE  Circular(peer'[n])
    BY <2>0, <2>1, CircleStays, OthersKept
  <2>2. CASE Crash \/ ResetService
    BY <2>0, <2>2 DEF Crash, ResetService
  <2>3. CASE Restart
    <3>1. life + 1 \in Life /\ life \in Int /\ life + 1 > life
      BY <2>3, ConstantFacts DEF Restart, TypeOK, Life
    <3>2. ~Circular(Fresh(NothingSaved))
      BY ConstantFacts DEF Circular, Fresh, Select, ServiceWaits
    <3>3. n # life + 1
      BY <2>0, <3>1, <3>2 DEF Unborn
    <3>4. peer'[n] = peer[n]
      BY <2>0, <2>3, <3>1, <3>3, BecomesAt DEF Restart
    <3> QED BY <2>0, <3>4
  <2> QED BY <2>1, <2>2, <2>3 DEF Next
<1> QED BY <1>1, <1>2, <1>3, TypeCorrect, PTL DEF Spec, WedgedForGood
=============================================================================
