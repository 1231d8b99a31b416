----------------------------- MODULE RaftSafety -----------------------------
(***************************************************************************)
(* What Raft.tla promises: the type invariant, the safety invariants and   *)
(* the action properties that the runs check and RaftProofs proves.        *)
(***************************************************************************)
EXTENDS Raft

RoleTypes ==
    /\ role \in [Server -> Role]
    /\ currentTerm \in [Server -> Nat]
    /\ votedFor \in [Server -> Server \cup {Nil}]

LogTypes ==
    /\ logs \in [Server -> Seq(Entry)]
    /\ lastSnapshotIndex \in [Server -> Nat]
    /\ lastSnapshotTerm \in [Server -> Nat]
    /\ commitIndex \in [Server -> Nat]
    /\ lastApplied \in [Server -> Nat]

LeaderTypes ==
    /\ nextIndex \in [Server -> [Server -> Nat]]
    /\ matchIndex \in [Server -> [Server -> Nat]]

CallTypes ==
    /\ election \in [Server -> [term : Nat, granted : SUBSET Server]]
    /\ campaigns \in [Server -> SUBSET Nat]
    /\ aeCall \in [Server -> [Server -> Call]]
    /\ snapPending \in [Server -> SUBSET Server]

ServiceTypes ==
    /\ batch \in [Server -> Seq([index : Nat, entry : Entry])]
    /\ applied \in [Server -> Seq(AppliedEntry)]
    /\ svc \in [Server -> ServiceCall]

NetTypes ==
    /\ voteReqs \subseteq VoteRequest
    /\ voteReplies \subseteq VoteReply
    /\ aeReqs \subseteq AppendRequest
    /\ snapReqs \subseteq SnapshotRequest
    /\ snapReplies \subseteq SnapshotReply

\* The state of every peer, its disk, its goroutines, its service and the network has
\* the shape of the code's structs.
TypeOK ==
    /\ RoleTypes /\ LogTypes /\ LeaderTypes
    /\ disk \in [Server -> Disk]
    /\ CallTypes /\ ServiceTypes /\ NetTypes
    /\ restarts \in Nat

-----------------------------------------------------------------------------

\* No two servers lead in the same term at the same time (config.go checkOneLeader:
\* "term %d has %d (>1) leaders"): a vote may be asked for twice, answered late,
\* repeated after a restart, or dropped by InstallSnapshot's reset of votedFor.
ElectionSafety ==
    \A i, j \in Server :
        role[i] = "Leader" /\ role[j] = "Leader" /\ currentTerm[i] = currentTerm[j]
            => i = j

\* A server grants its vote to one other server at most in a term, whatever the order
\* of requests, restarts and resets of votedFor in RequestVote and InstallSnapshot.
VoteOnce ==
    \A r1, r2 \in voteReplies :
        /\ r1.granted /\ r2.granted /\ r1.from = r2.from
        /\ r1.request.term = r2.request.term
        => r1.request.candidateId = r2.request.candidateId

\* The vote a server has given to another survives its steps, its crashes and its
\* restarts until the term changes; only its own candidacy may be taken back, by
\* InstallSnapshot.
VoteIsKept ==
    [][\A i \in Server :
         /\ currentTerm'[i] >= currentTerm[i]
         /\ currentTerm'[i] = currentTerm[i] /\ votedFor[i] \notin {Nil, i}
              => votedFor'[i] = votedFor[i]]_vars

\* What Voting.tla sees of the peers: the votes are those the network holds.
VotesCast ==
    {<<r.from, r.request.candidateId, r.request.term>> : r \in {v \in voteReplies : v.granted}}
Leaders == {i \in Server : role[i] = "Leader"}
Majorities == {Q \in SUBSET Server : IsMajority(Q)}

Voting == INSTANCE Voting
    WITH term <- currentTerm, choice <- votedFor, votes <- VotesCast, leaders <- Leaders

\* The peers hold an election as Voting.tla describes it: each step of a peer, its network
\* or its disk starts a candidacy, casts one vote that may still be cast, makes a peer
\* that a majority is for a leader, steps down, or is none of the election's business.
VotingRefined == Voting!Spec

\* Indexes whose entries both servers still hold.
Shared(i, j) ==
    {k \in 1..LastLogIndex(i) : /\ k > lastSnapshotIndex[i] /\ k > lastSnapshotIndex[j]
                                /\ k <= LastLogIndex(j)}

\* Two logs that agree on the term at an index agree on every entry both hold up to it:
\* AppendEntries cuts and extends a log without looking at the terms it drops.
LogMatching ==
    \A i, j \in Server : \A k \in Shared(i, j) :
        TermAt(i, k) = TermAt(j, k)
            => \A n \in Shared(i, j) : n <= k => EntryAt(i, n) = EntryAt(j, n)

\* A leader of a term at least as new as that of a server that committed an entry has
\* that entry, or has compacted it: an election never loses what was committed.
LeaderCompleteness ==
    \A i, j \in Server : role[j] = "Leader" /\ currentTerm[j] >= currentTerm[i] =>
        \A k \in (lastSnapshotIndex[i] + 1)..commitIndex[i] :
            \/ k <= lastSnapshotIndex[j]
            \/ k \in Shared(i, j) /\ EntryAt(i, k) = EntryAt(j, k)

\* No two servers apply different commands at the same index (config.go checkLogs,
\* "commit index=%v server=%v %v != server=%v %v"), over what each service has recorded.
StateMachineSafety ==
    \A i, j \in Server : \A k \in 1..Len(applied[i]) :
        k <= Len(applied[j]) /\ applied[i][k] # NoEntry /\ applied[j][k] # NoEntry
            => applied[i][k].command = applied[j][k].command

\* What is committed, or applied and about to be compacted, is in the log: AppendEntries
\* takes the leader's commit index as it comes, and both startApplyLogs and Snapshot
\* would index past the slice and panic.
NeverOutOfLog ==
    \A i \in Server :
        /\ lastSnapshotIndex[i] <= commitIndex[i] /\ commitIndex[i] <= LastLogIndex(i)
        /\ svc[i].op = "snapshot" => svc[i].index <= LastLogIndex(i)

OnDisk(j, k, entry) ==
    LET d == disk[j]
    IN \/ k <= d.lastSnapshotIndex
       \/ /\ k <= d.lastSnapshotIndex + Len(d.logs)
          /\ d.logs[k - d.lastSnapshotIndex] = entry

\* A committed entry is on the disks of a majority, so that no crash can lose it
\* (tryCommitLog counts matchIndex, and Start persists nothing).
CommittedDurable ==
    \A i \in Server : \A k \in (lastSnapshotIndex[i] + 1)..commitIndex[i] :
        IsMajority({j \in Server : OnDisk(j, k, EntryAt(i, k))})

\* An entry a server knows committed is never cut from its log by a late or repeated
\* AppendEntries, a snapshot or a restart: it stays where it is until it is compacted.
CommittedStays ==
    [][\A i \in Server : \A k \in (lastSnapshotIndex[i] + 1)..commitIndex[i] :
         \/ k <= lastSnapshotIndex'[i]
         \/ /\ k <= lastSnapshotIndex'[i] + Len(logs'[i])
            /\ logs'[i][k - lastSnapshotIndex'[i]] = EntryAt(i, k)]_vars

\* What CommitLog.tla sees of the peers, in an instance that compacts no log.
CommittedLog == [i \in Server |-> SubSeq(logs[i], 1, commitIndex[i])]

Log == INSTANCE CommitLog WITH known <- CommittedLog

\* The peers hold one committed log: through elections, late calls and restarts, a peer's
\* part of it only grows, one peer at a time, and never parts from another peer's.
LogRefined == Log!Spec

\* CondInstallSnapshot's comment: "Only do so if Raft hasn't have more recent info":
\* installing a snapshot never takes the commit index back.
InstallKeepsRecent ==
    [][\A i \in Server : commitIndex'[i] >= commitIndex[i]]_vars

=============================================================================
