-------------------------------- MODULE Raft --------------------------------
(***************************************************************************)
(* The Raft peers of Raft2C/raft.go: elections, log replication, snapshots *)
(* and restarts from the persister, with the service of config.go that     *)
(* consumes applyCh.                                                       *)
(*                                                                         *)
(* One action is one critical section of rf.mu.  An RPC is three steps:    *)
(* the caller puts its arguments on the network, the handler runs (any     *)
(* number of times: labrpc delays and loses calls and both senders try up  *)
(* to ten times), and the caller's goroutine looks at the reply it has, or *)
(* gives up.  Timers are nondeterministic: whatever a timer may start may  *)
(* start at any moment.                                                    *)
(***************************************************************************)
EXTENDS Integers, FiniteSets, Sequences

CONSTANTS
    Server,            \* the peers
    Value,             \* commands a client may propose
    Nil,               \* votedFor = -1
    SnapShotInterval,  \* config.go: a snapshot after each such number of commands
    \* Bounds of an instance: they only restrict what may happen.
    Electable,         \* pairs <<i, t>>: i's election timer may start an election of term t
    Appliers,          \* servers whose apply timer may fire
    VoteLinks,         \* pairs <<i, j>>: the network may deliver i's RequestVote to j
    LogLinks,          \* pairs <<i, j>>: and its AppendEntries and InstallSnapshot
    TornReplies,       \* whether a reply may be read while it is being written
    MaxAppends,        \* AppendEntries calls that differ, in one behaviour
    Startable,         \* pairs <<t, k>>: a leader of term t may start a command at index k
    Restartable,       \* servers that may crash and restart
    MaxRestarts        \* how often, in one behaviour

ASSUME ServerAssumption == IsFiniteSet(Server) /\ Server # {}
ASSUME NilAssumption == Nil \notin Server
ASSUME BoundsAssumption == TornReplies \in BOOLEAN /\ MaxAppends \in Nat
ASSUME IntervalAssumption == SnapShotInterval \in Nat \ {0}

VARIABLES
    role, currentTerm, votedFor,            \* who this peer is and for whom it voted
    logs, lastSnapshotIndex, lastSnapshotTerm, commitIndex, lastApplied,
    nextIndex, matchIndex,                  \* a leader's view of its peers
    disk,                                   \* the persister
    election,     \* the startElection loop that is running, if any
    campaigns,    \* terms in which this incarnation asked for votes
    aeCall,       \* aeCall[i][j]: the AppendEntries call i's goroutine for j waits on
    snapPending,  \* snapPending[i]: sendInstallSnapshotToPeer goroutines not yet locked
    batch,        \* messages startApplyLogs has computed and not yet sent
    applied, svc, \* the service: what it applied, and the call it is about to make
    voteReqs, voteReplies, aeReqs, snapReqs, snapReplies,   \* the network
    restarts

roleVars == <<role, currentTerm, votedFor>>
logVars == <<logs, lastSnapshotIndex, lastSnapshotTerm, commitIndex, lastApplied>>
leaderVars == <<nextIndex, matchIndex>>
callVars == <<election, campaigns, aeCall, snapPending>>
serviceVars == <<batch, applied, svc>>
voteNet == <<voteReqs, voteReplies>>
snapNet == <<snapReqs, snapReplies>>
vars == <<roleVars, logVars, leaderVars, disk, callVars, serviceVars,
          voteNet, aeReqs, snapNet, restarts>>

-----------------------------------------------------------------------------
(* Data *)

Role == {"Follower", "Candidate", "Leader"}
Entry == [term : Nat, command : Value]
NoEntry == [term |-> 0, command |-> Nil]     \* a hole of config.go's map of applied commands
AppliedEntry == Entry \cup {NoEntry}

NoElection == [term |-> 0, granted |-> {}]
NoCall == [open |-> FALSE]
Idle == [op |-> "idle"]

VoteRequest == [term : Nat, candidateId : Server, lastLogIndex : Nat, lastLogTerm : Nat]
VoteReply == [term : Nat, granted : BOOLEAN, from : Server, request : VoteRequest]
AppendRequest ==
    [term : Nat, leaderId : Server, to : Server, prevLogIndex : Nat, prevLogTerm : Nat,
     entries : Seq(Entry), leaderCommit : Nat]
AppendReply == [term : Nat, success : BOOLEAN, nextLogIndex : Nat]
SnapshotRequest ==
    [term : Nat, leaderId : Server, to : Server, lastIncludedIndex : Nat,
     lastIncludedTerm : Nat, data : Seq(AppliedEntry)]
SnapshotReply == [term : Nat, request : SnapshotRequest]

Call == {NoCall} \cup [open : {TRUE}, args : AppendRequest, replies : SUBSET AppendReply]
ServiceCall ==
    {Idle} \cup [op : {"snapshot"}, index : Nat]
           \cup [op : {"install"}, index : Nat, term : Nat, data : Seq(AppliedEntry)]
Disk ==
    [currentTerm : Nat, votedFor : Server \cup {Nil}, commitIndex : Nat,
     lastSnapshotIndex : Nat, lastSnapshotTerm : Nat, logs : Seq(Entry),
     snapshot : Seq(AppliedEntry)]

\* More than len(rf.peers)/2, an integer division.
IsMajority(S) == 2 * Cardinality(S) > Cardinality(Server)

\* logs[i] holds the entries after the snapshot: slot 0 of the code's slice, the
\* snapshot's marker, is lastSnapshotTerm[i].
LastLogIndex(i) == lastSnapshotIndex[i] + Len(logs[i])
TermAt(i, k) ==
    IF k = lastSnapshotIndex[i] THEN lastSnapshotTerm[i]
                                ELSE logs[i][k - lastSnapshotIndex[i]].term
LastLogTerm(i) == TermAt(i, LastLogIndex(i))
EntryAt(i, k) == logs[i][k - lastSnapshotIndex[i]]
EntriesFrom(i, k) == SubSeq(logs[i], k - lastSnapshotIndex[i], Len(logs[i]))

\* rf.persist(): everything readPersist restores, at the end of the critical section.
PersistWith(i, data) ==
    disk' = [disk EXCEPT ![i] =
              [currentTerm |-> currentTerm'[i], votedFor |-> votedFor'[i],
               commitIndex |-> commitIndex'[i], lastSnapshotIndex |-> lastSnapshotIndex'[i],
               lastSnapshotTerm |-> lastSnapshotTerm'[i], logs |-> logs'[i],
               snapshot |-> data]]
\* Variant with a fault: the call is forgotten.
PersistNothing(i) == UNCHANGED disk
Persist(i) == PersistWith(i, disk[i].snapshot)

\* changeRole(Role_Follower) with the term that made the peer step down.
Follow(i, term) ==
    /\ role' = [role EXCEPT ![i] = "Follower"]
    /\ currentTerm' = [currentTerm EXCEPT ![i] = term]

Init ==
    /\ role = [i \in Server |-> "Follower"]
    /\ currentTerm = [i \in Server |-> 0]
    /\ votedFor = [i \in Server |-> Nil]
    /\ logs = [i \in Server |-> <<>>]
    /\ lastSnapshotIndex = [i \in Server |-> 0]
    /\ lastSnapshotTerm = [i \in Server |-> 0]
    /\ commitIndex = [i \in Server |-> 0]
    /\ lastApplied = [i \in Server |-> 0]
    /\ nextIndex = [i \in Server |-> [j \in Server |-> 0]]
    /\ matchIndex = [i \in Server |-> [j \in Server |-> 0]]
    /\ disk = [i \in Server |->
                [currentTerm |-> 0, votedFor |-> Nil, commitIndex |-> 0,
                 lastSnapshotIndex |-> 0, lastSnapshotTerm |-> 0, logs |-> <<>>,
                 snapshot |-> <<>>]]
    /\ election = [i \in Server |-> NoElection]
    /\ campaigns = [i \in Server |-> {}]
    /\ aeCall = [i \in Server |-> [j \in Server |-> NoCall]]
    /\ snapPending = [i \in Server |-> {}]
    /\ batch = [i \in Server |-> <<>>]
    /\ applied = [i \in Server |-> <<>>]
    /\ svc = [i \in Server |-> Idle]
    /\ voteReqs = {} /\ voteReplies = {} /\ aeReqs = {}
    /\ snapReqs = {} /\ snapReplies = {}
    /\ restarts = 0

-----------------------------------------------------------------------------
(* Elections *)

\* startElection, up to the calls: a new term, a vote for itself, one request to
\* every peer.  The goroutine runs one election at a time; the one before has ended,
\* as it may at any moment: the flags it still waits for are false (refusals, or
\* timeouts after RPCTimeout), or the peer is no longer a candidate.
StartElection(i) ==
    /\ <<i, currentTerm[i] + 1>> \in Electable
    /\ role[i] # "Leader"
    /\ role' = [role EXCEPT ![i] = "Candidate"]
    /\ currentTerm' = [currentTerm EXCEPT ![i] = @ + 1]
    /\ votedFor' = [votedFor EXCEPT ![i] = i]
    /\ election' = [election EXCEPT ![i] = [term |-> currentTerm[i] + 1, granted |-> {i}]]
    /\ campaigns' = [campaigns EXCEPT ![i] = @ \cup {currentTerm[i] + 1}]
    /\ voteReqs' = voteReqs \cup
         {[term |-> currentTerm[i] + 1, candidateId |-> i,
           lastLogIndex |-> LastLogIndex(i), lastLogTerm |-> LastLogTerm(i)]}
    /\ UNCHANGED <<logVars, leaderVars, aeCall, snapPending, serviceVars, voteReplies,
                   aeReqs, snapNet, restarts>>
    /\ Persist(i)

\* A denial with no term that is new to its caller is as good as a timeout there: the
\* network does not keep it.
AnswerVote(j, m, term, granted) ==
    voteReplies' =
        IF granted \/ term > currentTerm[m.candidateId]
        THEN voteReplies \cup
               {[term |-> term, granted |-> granted, from |-> j, request |-> m]}
        ELSE voteReplies

\* Line 1000 returns when the voter's log is the newer one.
LogUpToDate(j, m) ==
    \/ LastLogTerm(j) < m.lastLogTerm
    \/ LastLogTerm(j) = m.lastLogTerm /\ LastLogIndex(j) <= m.lastLogIndex

\* The early returns: an older term, a leader of this term, or a vote given to another.
RefuseVote(j, m) ==
    /\ \/ m.term < currentTerm[j]
       \/ m.term = currentTerm[j] /\ role[j] = "Leader"
       \/ m.term = currentTerm[j] /\ votedFor[j] \notin {Nil, m.candidateId}
    /\ AnswerVote(j, m, currentTerm[j], FALSE)
    /\ UNCHANGED <<roleVars, disk>>

\* votedFor already names the candidate: granted again, with no look at the log.
RepeatVote(j, m) ==
    /\ m.term = currentTerm[j]
    /\ role[j] # "Leader"
    /\ votedFor[j] = m.candidateId
    /\ AnswerVote(j, m, m.term, TRUE)
    /\ UNCHANGED <<roleVars, disk>>

\* Variant with a fault: a vote already given in this term does not stop the next one.
GrantVoteAgain(j, m) ==
    /\ m.term >= currentTerm[j] /\ role[j] # "Leader"
    /\ LogUpToDate(j, m)
    /\ Follow(j, m.term)
    /\ votedFor' = [votedFor EXCEPT ![j] = m.candidateId]
    /\ AnswerVote(j, m, m.term, TRUE)
    /\ Persist(j)

\* A first request of this term, from a candidate whose log is at least as new.
GrantVote(j, m) ==
    /\ \/ m.term > currentTerm[j]
       \/ m.term = currentTerm[j] /\ role[j] # "Leader" /\ votedFor[j] = Nil
    /\ LogUpToDate(j, m)
    /\ Follow(j, m.term)
    /\ votedFor' = [votedFor EXCEPT ![j] = m.candidateId]
    /\ AnswerVote(j, m, m.term, TRUE)
    /\ Persist(j)

\* A newer term whose candidate is refused: the term is adopted, no vote is cast.
AdoptTerm(j, m) ==
    /\ m.term > currentTerm[j]
    /\ ~LogUpToDate(j, m)
    /\ Follow(j, m.term)
    /\ votedFor' = [votedFor EXCEPT ![j] = Nil]
    /\ AnswerVote(j, m, m.term, FALSE)
    /\ Persist(j)

RequestVote(j, m) ==
    /\ m.candidateId # j /\ <<m.candidateId, j>> \in VoteLinks
    /\ UNCHANGED <<logVars, leaderVars, callVars, serviceVars, voteReqs, aeReqs, snapNet,
                   restarts>>
    /\ \/ RefuseVote(j, m)
       \/ RepeatVote(j, m)
       \/ GrantVote(j, m)
       \/ AdoptTerm(j, m)

\* Variant with a fault: one before the last index.
BecomeLeaderOneBefore(i) ==
    /\ role' = [role EXCEPT ![i] = "Leader"]
    /\ nextIndex' = [nextIndex EXCEPT ![i] = [j \in Server |-> LastLogIndex(i)]]
    /\ matchIndex' = [matchIndex EXCEPT ![i] = [j \in Server |-> LastLogIndex(i) - 1]]

\* changeRole(Role_Leader): every matchIndex starts at the leader's own last index.
BecomeLeader(i) ==
    /\ role' = [role EXCEPT ![i] = "Leader"]
    /\ nextIndex' = [nextIndex EXCEPT ![i] = [j \in Server |-> LastLogIndex(i) + 1]]
    /\ matchIndex' = [matchIndex EXCEPT ![i] = [j \in Server |-> LastLogIndex(i)]]

\* Variant with a fault, and what the loop looks at before it takes the leadership.
InAnyRole(i) == TRUE
StillCandidate(i) == role[i] = "Candidate" /\ currentTerm[i] = election[i].term

\* The loop of startElection takes a granted vote off grantedChan.  With a majority
\* it becomes leader, unless it is no longer a candidate of that term, and persists.
CollectVote(i, r) ==
    /\ election[i] # NoElection
    /\ r.granted /\ r.request.candidateId = i /\ r.request.term = election[i].term
    /\ r.from \notin election[i].granted
    /\ LET granted == election[i].granted \cup {r.from}
           won == IsMajority(granted)
           leads == won /\ StillCandidate(i)
       IN /\ election' = [election EXCEPT ![i] =
                            IF won THEN NoElection
                            ELSE [term |-> election[i].term, granted |-> granted]]
          /\ IF leads THEN BecomeLeader(i) ELSE UNCHANGED <<role, leaderVars>>
          /\ UNCHANGED <<currentTerm, votedFor, logVars>>
          /\ IF won THEN Persist(i) ELSE UNCHANGED disk
    /\ UNCHANGED <<campaigns, aeCall, snapPending, serviceVars, voteNet, aeReqs, snapNet,
                   restarts>>

\* A vote goroutine finds a newer term in its reply, during the election or after it.
AbandonElection(i, r) ==
    /\ r.request.candidateId = i /\ r.request.term \in campaigns[i]
    /\ r.term > r.request.term /\ r.term > currentTerm[i]
    /\ Follow(i, r.term)
    /\ votedFor' = [votedFor EXCEPT ![i] = Nil]
    /\ UNCHANGED <<logVars, leaderVars, callVars, serviceVars, voteNet, aeReqs, snapNet,
                   restarts>>
    /\ Persist(i)

-----------------------------------------------------------------------------
(* Log replication *)

\* Start: a leader appends the command to its log.  Nothing is persisted here.
Start(i, v) ==
    /\ <<currentTerm[i], LastLogIndex(i) + 1>> \in Startable
    /\ role[i] = "Leader"
    /\ logs' = [logs EXCEPT ![i] = Append(@, [term |-> currentTerm[i], command |-> v])]
    /\ matchIndex' = [matchIndex EXCEPT ![i][i] = LastLogIndex(i) + 1]
    /\ nextIndex' = [nextIndex EXCEPT ![i][i] = LastLogIndex(i) + 2]
    /\ UNCHANGED <<roleVars, lastSnapshotIndex, lastSnapshotTerm, commitIndex, lastApplied,
                   disk, callVars, serviceVars, voteNet, aeReqs, snapNet, restarts>>

\* getAppendLogs: from nextIndex to the end, or nothing after the leader's last entry
\* when nextIndex lies beyond the log or was compacted away.
HasEntriesFor(i, j) ==
    lastSnapshotIndex[i] < nextIndex[i][j] /\ nextIndex[i][j] <= LastLogIndex(i)

AppendArgs(i, j) ==
    LET prev == IF HasEntriesFor(i, j) THEN nextIndex[i][j] - 1 ELSE LastLogIndex(i)
    IN [term |-> currentTerm[i], leaderId |-> i, to |-> j,
        prevLogIndex |-> prev, prevLogTerm |-> TermAt(i, prev),
        entries |-> EntriesFrom(i, prev + 1), leaderCommit |-> commitIndex[i]]

\* The goroutine for peer j sends one call at a time.  A call still open when the next
\* begins has timed out: its reply is read as zero, which changes nothing.
SendAppendEntries(i, j) ==
    /\ i # j /\ <<i, j>> \in LogLinks
    /\ role[i] = "Leader"
    /\ aeReqs' = aeReqs \cup {AppendArgs(i, j)}
    /\ Cardinality(aeReqs') <= MaxAppends
    /\ aeCall' = [aeCall EXCEPT ![i][j] =
                    [open |-> TRUE, args |-> AppendArgs(i, j), replies |-> {}]]
    /\ UNCHANGED <<roleVars, logVars, leaderVars, disk, election, campaigns, snapPending,
                   serviceVars, voteNet, snapNet, restarts>>

\* The reply reaches the goroutine only while it waits on that call.
AnswerAppend(j, m, term, success, next) ==
    LET call == aeCall[m.leaderId][j]
    IN aeCall' = IF call.open /\ call.args = m
                 THEN [aeCall EXCEPT ![m.leaderId][j].replies =
                         @ \cup {[term |-> term, success |-> success, nextLogIndex |-> next]}]
                 ELSE aeCall

\* Variant with a fault: late arguments are never recognised.
NeverOutOfArgs(j, m) == FALSE

\* isOutOfArgsAppendEntries: the log goes on, in the sender's term, past the arguments.
OutOfArgs(j, m) ==
    /\ LastLogTerm(j) = m.term
    /\ m.prevLogIndex + Len(m.entries) < LastLogIndex(j)

InLog(j, k) == lastSnapshotIndex[j] <= k /\ k <= LastLogIndex(j)

\* Variant with a fault: the terms are never compared.
PrevInLog(j, m) == InLog(j, m.prevLogIndex)

\* At the snapshot's own index the terms are not compared.
PrevMatches(j, m) ==
    /\ InLog(j, m.prevLogIndex)
    /\ \/ m.prevLogIndex = lastSnapshotIndex[j]
       \/ TermAt(j, m.prevLogIndex) = m.prevLogTerm

\* Where the walk back over one term stops: it also stops at the commit index.
SkipsTo(j, prev, k) ==
    LET inRun(n) == /\ n > commitIndex[j] /\ n > lastSnapshotIndex[j]
                    /\ TermAt(j, n) = TermAt(j, prev)
    IN ~inRun(k) /\ \A n \in (k + 1)..prev : inRun(n)

AppendStale(j, m) ==
    /\ m.term < currentTerm[j]
    /\ AnswerAppend(j, m, currentTerm[j], FALSE, 0)
    /\ UNCHANGED <<roleVars, logVars, disk>>

\* votedFor is left as it was, even when the term is a new one.
AppendAccepted(j, m) ==
    /\ m.term >= currentTerm[j]
    /\ PrevMatches(j, m) /\ ~OutOfArgs(j, m)
    /\ Follow(j, m.term)
    /\ logs' = [logs EXCEPT ![j] =
                  SubSeq(@, 1, m.prevLogIndex - lastSnapshotIndex[j]) \o m.entries]
    /\ commitIndex' = [commitIndex EXCEPT ![j] = IF @ < m.leaderCommit THEN m.leaderCommit ELSE @]
    /\ AnswerAppend(j, m, currentTerm[j], TRUE, m.prevLogIndex + Len(m.entries) + 1)
    /\ UNCHANGED <<votedFor, lastSnapshotIndex, lastSnapshotTerm, lastApplied>>
    /\ Persist(j)

\* The nextLogIndex of a refusal; 0 tells the sender that its call is an older one.
RefusalIndex(j, m, next) ==
    \/ m.prevLogIndex < lastSnapshotIndex[j] /\ next = lastSnapshotIndex[j] + 1
    \/ m.prevLogIndex > LastLogIndex(j) /\ next = LastLogIndex(j) + 1
    \/ PrevMatches(j, m) /\ OutOfArgs(j, m) /\ next = 0
    \/ /\ InLog(j, m.prevLogIndex) /\ ~PrevMatches(j, m)
       /\ next - 1 \in lastSnapshotIndex[j]..m.prevLogIndex
       /\ SkipsTo(j, m.prevLogIndex, next - 1)

AppendRefused(j, m) ==
    /\ m.term >= currentTerm[j]
    /\ Follow(j, m.term)
    /\ \E next \in 0..(LastLogIndex(j) + 1) :
         /\ RefusalIndex(j, m, next)
         /\ AnswerAppend(j, m, currentTerm[j], FALSE, next)
    /\ UNCHANGED <<votedFor, logVars>>
    /\ Persist(j)

AppendEntries(j, m) ==
    /\ m.to = j /\ <<m.leaderId, j>> \in LogLinks
    /\ UNCHANGED <<leaderVars, election, campaigns, snapPending, serviceVars, voteNet, aeReqs,
                   snapNet, restarts>>
    /\ \/ AppendStale(j, m)
       \/ AppendAccepted(j, m)
       \/ AppendRefused(j, m)

\* After the timeout the reply is read while the RPC goroutine may still write it: each
\* field is the zero value or the one that was sent.
Observed(r) ==
    IF TornReplies
    THEN [term : {0, r.term}, success : {FALSE, r.success}, nextLogIndex : {0, r.nextLogIndex}]
    ELSE {r}

CloseCall(i, j) == aeCall' = [aeCall EXCEPT ![i][j] = NoCall]

\* tryCommitLog: one index after the other, as long as a majority of matchIndex has it.
Committable(i, match, n) ==
    LET held(k) == IsMajority({j \in Server : match[j] >= k})
    IN /\ \A k \in (commitIndex[i] + 1)..n : held(k)
       /\ n < LastLogIndex(i) => ~held(n + 1)

StepDownOnAppend(i, j, r) ==
    /\ r.term > currentTerm[i]
    /\ Follow(i, r.term)
    /\ UNCHANGED <<votedFor, logVars, leaderVars, snapPending>>
    /\ Persist(i)

StillLeads(i, call) == role[i] = "Leader" /\ currentTerm[i] = call.args.term

\* Variant with a fault: entries of any term count.
EndsInAnyTerm(i, args) == args.entries # <<>>
EndsInOwnTerm(i, args) ==
    args.entries # <<>> /\ args.entries[Len(args.entries)].term = currentTerm[i]

\* Success: the peer holds what was sent.  Only a call that ends in an entry of the
\* leader's own term moves the commit index.
AppendAcknowledged(i, j, r) ==
    LET args == aeCall[i][j].args
        ahead == r.nextLogIndex > nextIndex[i][j]
        match == IF ahead THEN [matchIndex[i] EXCEPT ![j] = r.nextLogIndex - 1]
                          ELSE matchIndex[i]
    IN /\ r.term <= currentTerm[i] /\ StillLeads(i, aeCall[i][j])
       /\ r.success
       /\ matchIndex' = [matchIndex EXCEPT ![i] = match]
       /\ nextIndex' = [nextIndex EXCEPT ![i][j] = IF ahead THEN r.nextLogIndex ELSE @]
       /\ IF EndsInOwnTerm(i, args)
          THEN \E n \in commitIndex[i]..LastLogIndex(i) :
                 /\ Committable(i, match, n)
                 /\ commitIndex' = [commitIndex EXCEPT ![i] = n]
          ELSE UNCHANGED commitIndex
       /\ UNCHANGED <<roleVars, logs, lastSnapshotIndex, lastSnapshotTerm, lastApplied,
                      snapPending>>
       /\ Persist(i)

\* Refusal: back to the index the peer asks for, by a snapshot if it was compacted away.
AppendRejected(i, j, r) ==
    /\ r.term <= currentTerm[i] /\ StillLeads(i, aeCall[i][j])
    /\ ~r.success /\ r.nextLogIndex # 0
    /\ IF r.nextLogIndex > lastSnapshotIndex[i]
       THEN /\ nextIndex' = [nextIndex EXCEPT ![i][j] = r.nextLogIndex]
            /\ UNCHANGED snapPending
       ELSE /\ snapPending' = [snapPending EXCEPT ![i] = @ \cup {j}]
            /\ UNCHANGED nextIndex
    /\ UNCHANGED <<roleVars, logVars, matchIndex, disk>>

HandleAppendReply(i, j) ==
    /\ aeCall[i][j].open
    /\ CloseCall(i, j)
    /\ UNCHANGED <<election, campaigns, serviceVars, voteNet, aeReqs, snapNet, restarts>>
    /\ \E reply \in aeCall[i][j].replies : \E r \in Observed(reply) :
         \/ StepDownOnAppend(i, j, r)
         \/ AppendAcknowledged(i, j, r)
         \/ AppendRejected(i, j, r)

-----------------------------------------------------------------------------
(* Snapshots *)

\* Variant with a fault: the entry at the snapshot's index stays.
LogAfterKeepsOne(i, index) ==
    IF index > LastLogIndex(i) THEN <<>>
    ELSE EntriesFrom(i, IF index > lastSnapshotIndex[i] THEN index ELSE index + 1)

\* What a snapshot leaves of the log: nothing when it reaches past the log's end.
LogAfter(i, index) ==
    IF index > LastLogIndex(i) THEN <<>> ELSE EntriesFrom(i, index + 1)

\* The state that InstallSnapshot and CondInstallSnapshot take from a snapshot.
InstallState(i, index, term, data) ==
    /\ logs' = [logs EXCEPT ![i] = LogAfter(i, index)]
    /\ lastSnapshotIndex' = [lastSnapshotIndex EXCEPT ![i] = index]
    /\ lastSnapshotTerm' = [lastSnapshotTerm EXCEPT ![i] = term]
    /\ lastApplied' = [lastApplied EXCEPT ![i] = index]
    /\ commitIndex' = [commitIndex EXCEPT ![i] = index]
    /\ PersistWith(i, data)

\* sendInstallSnapshotToPeer, once it has the lock.  It does not look at its role: the
\* peer may have lost the leadership since it was told to send.
SendSnapshot(i, j) ==
    /\ j \in snapPending[i]
    /\ snapPending' = [snapPending EXCEPT ![i] = @ \ {j}]
    /\ snapReqs' = snapReqs \cup
         {[term |-> currentTerm[i], leaderId |-> i, to |-> j,
           lastIncludedIndex |-> lastSnapshotIndex[i],
           lastIncludedTerm |-> lastSnapshotTerm[i], data |-> disk[i].snapshot]}
    /\ UNCHANGED <<roleVars, logVars, leaderVars, disk, election, campaigns, aeCall,
                   serviceVars, voteNet, aeReqs, snapReplies, restarts>>

\* Variant with a fault: every snapshot message resets the peer.
AlwaysDemoted(j, m) == TRUE

\* A peer that does not already follow in this term is reset, its vote included.
Demoted(j, m) == m.term > currentTerm[j] \/ role[j] # "Follower"

DemoteBySnapshot(j, m) ==
    IF Demoted(j, m)
    THEN Follow(j, m.term) /\ votedFor' = [votedFor EXCEPT ![j] = Nil]
    ELSE UNCHANGED roleVars

\* The handler hands the snapshot to the service before it unlocks: it waits, lock held,
\* for a service that is in a call of its own.
InstallSnapshot(j, m) ==
    /\ m.to = j /\ <<m.leaderId, j>> \in LogLinks
    /\ snapReplies' = snapReplies \cup {[term |-> currentTerm[j], request |-> m]}
    /\ UNCHANGED <<leaderVars, callVars, batch, applied, voteNet, aeReqs, snapReqs, restarts>>
    /\ \/ /\ m.term < currentTerm[j]
          /\ UNCHANGED <<roleVars, logVars, disk, svc>>
       \/ /\ m.term >= currentTerm[j] /\ lastSnapshotIndex[j] >= m.lastIncludedIndex
          /\ DemoteBySnapshot(j, m)
          /\ UNCHANGED <<logVars, svc>>
          /\ IF Demoted(j, m) THEN Persist(j) ELSE UNCHANGED disk
       \/ /\ m.term >= currentTerm[j] /\ lastSnapshotIndex[j] < m.lastIncludedIndex
          /\ svc[j] = Idle
          /\ DemoteBySnapshot(j, m)
          /\ InstallState(j, m.lastIncludedIndex, m.lastIncludedTerm, m.data)
          /\ svc' = [svc EXCEPT ![j] =
                       [op |-> "install", index |-> m.lastIncludedIndex,
                        term |-> m.lastIncludedTerm, data |-> m.data]]

HandleSnapshotReply(i, r) ==
    LET args == r.request
        j == args.to
    IN /\ args.leaderId = i /\ role[i] = "Leader" /\ args.term = currentTerm[i]
       /\ IF r.term > currentTerm[i]
          THEN Follow(i, r.term) /\ UNCHANGED <<votedFor, logVars, leaderVars>> /\ Persist(i)
          ELSE /\ matchIndex' = [matchIndex EXCEPT ![i][j] =
                    IF args.lastIncludedIndex > @ THEN args.lastIncludedIndex ELSE @]
               /\ nextIndex' = [nextIndex EXCEPT ![i][j] =
                    IF args.lastIncludedIndex + 1 > @ THEN args.lastIncludedIndex + 1 ELSE @]
               /\ UNCHANGED <<roleVars, logVars, disk>>
       /\ UNCHANGED <<callVars, serviceVars, voteNet, aeReqs, snapNet, restarts>>

\* The data of a snapshot is what config.go encodes, its map of commands up to index.
Prefix(map, index) ==
    [k \in 1..index |-> IF k <= Len(map) THEN map[k] ELSE NoEntry]

\* Snapshot, called by the service: the entries up to index are dropped.  An index past
\* the log would be a panic (NeverOutOfLog).
Snapshot(i) ==
    /\ svc[i].op = "snapshot"
    /\ svc' = [svc EXCEPT ![i] = Idle]
    /\ LET index == svc[i].index
       IN IF lastSnapshotIndex[i] >= index
          THEN UNCHANGED <<roleVars, logVars, disk>>
          ELSE /\ index <= LastLogIndex(i)
               /\ logs' = [logs EXCEPT ![i] = LogAfter(i, index)]
               /\ lastSnapshotTerm' = [lastSnapshotTerm EXCEPT ![i] = TermAt(i, index)]
               /\ lastSnapshotIndex' = [lastSnapshotIndex EXCEPT ![i] = index]
               /\ UNCHANGED <<roleVars, commitIndex, lastApplied>>
               /\ PersistWith(i, Prefix(applied[i], index))
    /\ UNCHANGED <<leaderVars, callVars, batch, applied, voteNet, aeReqs, snapNet, restarts>>

\* The service answers a snapshot message: CondInstallSnapshot, which always agrees, and
\* then ingestSnap, which replaces what it had applied.
CondInstallSnapshot(i) ==
    /\ svc[i].op = "install"
    /\ svc' = [svc EXCEPT ![i] = Idle]
    /\ applied' = [applied EXCEPT ![i] = svc[i].data]
    /\ UNCHANGED roleVars
    /\ InstallState(i, svc[i].index, svc[i].term, svc[i].data)
    /\ UNCHANGED <<leaderVars, callVars, batch, voteNet, aeReqs, snapNet, restarts>>

-----------------------------------------------------------------------------
(* Applying *)

\* startApplyLogs, up to the unlock: the messages to send are computed all at once.
\* When the snapshot is ahead of lastApplied it is installed again instead.  A commit
\* index past the log would be a panic (NeverOutOfLog).
StartApplyLogs(i) ==
    /\ i \in Appliers
    /\ batch[i] = <<>>
    /\ UNCHANGED <<roleVars, leaderVars, callVars, applied, svc, voteNet, aeReqs, snapNet,
                   restarts>>
    /\ \/ /\ lastApplied[i] < lastSnapshotIndex[i]
          /\ InstallState(i, lastSnapshotIndex[i], lastSnapshotTerm[i], disk[i].snapshot)
          /\ UNCHANGED batch
       \/ /\ lastSnapshotIndex[i] <= lastApplied[i] /\ lastApplied[i] < commitIndex[i]
          /\ commitIndex[i] <= LastLogIndex(i)
          /\ batch' = [batch EXCEPT ![i] =
                         [n \in 1..(commitIndex[i] - lastApplied[i]) |->
                            [index |-> lastApplied[i] + n,
                             entry |-> EntryAt(i, lastApplied[i] + n)]]]
          /\ UNCHANGED <<logVars, disk>>

\* cfg.logs[i][index] = entry, where indexes below it may be missing.
Record(map, index, entry) ==
    [k \in 1..(IF index > Len(map) THEN index ELSE Len(map)) |->
       IF k = index THEN entry ELSE IF k <= Len(map) THEN map[k] ELSE NoEntry]

\* One message of the batch goes to the service, which may then take a snapshot.
ApplyOne(i) ==
    /\ batch[i] # <<>> /\ svc[i] = Idle
    /\ LET m == Head(batch[i])
       IN /\ applied' = [applied EXCEPT ![i] = Record(@, m.index, m.entry)]
          /\ lastApplied' = [lastApplied EXCEPT ![i] = m.index]
          /\ svc' = [svc EXCEPT ![i] =
                       IF (m.index + 1) % SnapShotInterval = 0
                       THEN [op |-> "snapshot", index |-> m.index] ELSE Idle]
    /\ batch' = [batch EXCEPT ![i] = Tail(@)]
    /\ UNCHANGED <<roleVars, logs, lastSnapshotIndex, lastSnapshotTerm, commitIndex,
                   leaderVars, disk, callVars, voteNet, aeReqs, snapNet, restarts>>

-----------------------------------------------------------------------------
(* Crash and restart: crash1 and start1 of config.go, Make and readPersist *)

\* readPersist: what the persister holds.
ReadPersist(i) ==
    /\ currentTerm' = [currentTerm EXCEPT ![i] = disk[i].currentTerm]
    /\ votedFor' = [votedFor EXCEPT ![i] = disk[i].votedFor]
    /\ logs' = [logs EXCEPT ![i] = disk[i].logs]
    /\ lastSnapshotIndex' = [lastSnapshotIndex EXCEPT ![i] = disk[i].lastSnapshotIndex]
    /\ lastSnapshotTerm' = [lastSnapshotTerm EXCEPT ![i] = disk[i].lastSnapshotTerm]
    /\ commitIndex' = [commitIndex EXCEPT ![i] = disk[i].commitIndex]

\* The goroutines of the old incarnation are gone, with the calls they wait on; the
\* service starts from the snapshot, if there is one.
Restart(i) ==
    /\ i \in Restartable /\ restarts < MaxRestarts
    /\ restarts' = restarts + 1
    /\ role' = [role EXCEPT ![i] = "Follower"]
    /\ ReadPersist(i)
    /\ lastApplied' = [lastApplied EXCEPT ![i] = 0]
    /\ nextIndex' = [nextIndex EXCEPT ![i] = [j \in Server |-> 0]]
    /\ matchIndex' = [matchIndex EXCEPT ![i] = [j \in Server |-> 0]]
    /\ election' = [election EXCEPT ![i] = NoElection]
    /\ campaigns' = [campaigns EXCEPT ![i] = {}]
    /\ aeCall' = [aeCall EXCEPT ![i] = [j \in Server |-> NoCall]]
    /\ snapPending' = [snapPending EXCEPT ![i] = {}]
    /\ batch' = [batch EXCEPT ![i] = <<>>]
    /\ svc' = [svc EXCEPT ![i] = Idle]
    /\ applied' = [applied EXCEPT ![i] = IF disk[i].snapshot = <<>> THEN @ ELSE disk[i].snapshot]
    /\ UNCHANGED <<disk, voteNet, aeReqs, snapNet>>

-----------------------------------------------------------------------------

Next ==
    \/ \E i \in Server : StartElection(i)
    \/ \E j \in Server, m \in voteReqs : RequestVote(j, m)
    \/ \E i \in Server, r \in voteReplies : CollectVote(i, r)
    \/ \E i \in Server, r \in voteReplies : AbandonElection(i, r)
    \/ \E i \in Server, v \in Value : Start(i, v)
    \/ \E i, j \in Server : SendAppendEntries(i, j)
    \/ \E j \in Server, m \in aeReqs : AppendEntries(j, m)
    \/ \E i, j \in Server : HandleAppendReply(i, j)
    \/ \E i, j \in Server : SendSnapshot(i, j)
    \/ \E j \in Server, m \in snapReqs : InstallSnapshot(j, m)
    \/ \E i \in Server, r \in snapReplies : HandleSnapshotReply(i, r)
    \/ \E i \in Server : Snapshot(i)
    \/ \E i \in Server : CondInstallSnapshot(i)
    \/ \E i \in Server : StartApplyLogs(i)
    \/ \E i \in Server : ApplyOne(i)
    \/ \E i \in Server : Restart(i)

Spec == Init /\ [][Next]_vars

=============================================================================
