---------------------------- MODULE RaftLogProofs ----------------------------
(***************************************************************************)
(* Log matching, for every set of servers and every bound, as long as no   *)
(* peer has compacted its log.  The invariant gives each term the log of   *)
(* its leader: AppendEntries cuts and extends a log without looking at the *)
(* terms it drops, but only ever to a part of such a log.                  *)
(***************************************************************************)
EXTENDS RaftProofs

-----------------------------------------------------------------------------
(* The inductive invariant *)

\* No peer has taken or installed a snapshot.
Uncompacted == \A i \in Server : lastSnapshotIndex[i] = 0

\* What a restart would read back is the snapshot index a peer has.
IndexOnDisk == \A i \in Server : disk[i].lastSnapshotIndex = lastSnapshotIndex[i]

\* No peer has been told to send a snapshot: none will be reset within its term.
NoSnapshots == snapReqs = {} /\ \A i \in Server : snapPending[i] = {}

\* The first k entries of two logs are the same.
AgreeUpTo(X, Y, k) == k <= Len(X) /\ k <= Len(Y) /\ \A n \in 1..k : X[n] = Y[n]

\* TL[t] is what the leader of term t has had in its log.  Up to each entry a log is the
\* one that the leader of the entry's term had.
Consistent(TL, X) == \A k \in 1..Len(X) : AgreeUpTo(X, TL[X[k].term], k)

\* The arguments of a call are a part of the log of the term's leader.
Segment(L, m) ==
    /\ m.prevLogIndex + Len(m.entries) <= Len(L)
    /\ \A n \in 1..Len(m.entries) : m.entries[n] = L[m.prevLogIndex + n]
    /\ m.prevLogIndex > 0 => m.prevLogTerm = L[m.prevLogIndex].term

\* l led term t, or may still lead it, and nobody else does: it keeps its own vote until
\* the term is over, and never gives one to another.
LedBy(l, t) ==
    /\ Elected(l, t)
    /\ currentTerm[l] >= t
    /\ currentTerm[l] = t => role[l] # "Candidate" /\ votedFor[l] = l
    /\ \A r \in voteReplies : r.granted /\ r.from = l => r.request.term # t

PeersConsistent(TL) ==
    \A i \in Server : Consistent(TL, logs[i]) /\ Consistent(TL, disk[i].logs)
TermsConsistent(TL) == \A t \in Nat : Consistent(TL, TL[t])
CallsAreSegments(TL) == \A m \in aeReqs : Segment(TL[m.term], m)
LeadersHoldTerms(TL) ==
    \A i \in Server : role[i] = "Leader" =>
        logs[i] = TL[currentTerm[i]] /\ LedBy(i, currentTerm[i])
TermsWereLed(TL) == \A t \in Nat : TL[t] # <<>> => \E l \in Server : LedBy(l, t)

TermLogs(TL) ==
    /\ PeersConsistent(TL) /\ TermsConsistent(TL) /\ CallsAreSegments(TL)
    /\ LeadersHoldTerms(TL) /\ TermsWereLed(TL)

LogInv ==
    /\ IndexOnDisk
    /\ Uncompacted => NoSnapshots /\ \E TL \in [Nat -> Seq(Entry)] : TermLogs(TL)

-----------------------------------------------------------------------------
(* Compaction is for good *)

\* A snapshot index never goes back, and is on the disk at the end of the step.
LEMMA SnapshotIndexKept ==
    ASSUME TypeInv, IndexOnDisk, [Next]_vars
    PROVE  /\ IndexOnDisk'
           /\ \A i \in Server : lastSnapshotIndex'[i] >= lastSnapshotIndex[i]
<1>0. /\ lastSnapshotIndex \in [Server -> Nat] /\ disk \in [Server -> Disk]
      /\ \A m \in snapReqs : m.lastIncludedIndex \in Nat
  BY DEF TypeInv, TypeOK, LogTypes, NetTypes, SnapshotRequest
<1>1. ASSUME NEW i \in Server, NEW data, UNCHANGED lastSnapshotIndex, PersistWith(i, data)
      PROVE  IndexOnDisk'
  BY <1>0, <1>1 DEF PersistWith, IndexOnDisk
<1>2. ASSUME NEW i \in Server, NEW index \in Nat, index >= lastSnapshotIndex[i],
             lastSnapshotIndex' = [lastSnapshotIndex EXCEPT ![i] = index],
             \E data : PersistWith(i, data)
      PROVE  /\ IndexOnDisk'
             /\ \A s \in Server : lastSnapshotIndex'[s] >= lastSnapshotIndex[s]
  BY <1>0, <1>2 DEF PersistWith, IndexOnDisk
<1>3. ASSUME UNCHANGED lastSnapshotIndex,
             UNCHANGED disk \/ \E i \in Server : \E data : PersistWith(i, data)
      PROVE  /\ IndexOnDisk'
             /\ \A s \in Server : lastSnapshotIndex'[s] >= lastSnapshotIndex[s]
  BY <1>0, <1>1, <1>3 DEF IndexOnDisk
<1>4. CASE UNCHANGED vars
  BY <1>3, <1>4 DEF vars, logVars
<1>5. ASSUME NEW i \in Server, StartElection(i)
      PROVE  UNCHANGED lastSnapshotIndex /\ \E data : PersistWith(i, data)
  BY <1>5 DEF StartElection, logVars, Persist
<1>6. ASSUME NEW j \in Server, NEW m \in voteReqs, RequestVote(j, m)
      PROVE  /\ UNCHANGED lastSnapshotIndex
             /\ UNCHANGED disk \/ \E data : PersistWith(j, data)
  BY <1>6 DEF RequestVote, RefuseVote, RepeatVote, GrantVote, AdoptTerm, logVars, Persist
<1>7. ASSUME NEW i \in Server, NEW r \in voteReplies, CollectVote(i, r) \/ AbandonElection(i, r)
      PROVE  /\ UNCHANGED lastSnapshotIndex
             /\ UNCHANGED disk \/ \E data : PersistWith(i, data)
  <2>1. CASE CollectVote(i, r)
    <3>1. UNCHANGED lastSnapshotIndex /\ (UNCHANGED disk \/ Persist(i))
      BY <2>1 DEF CollectVote, logVars
    <3> QED BY <3>1 DEF Persist
  <2>2. CASE AbandonElection(i, r)
    BY <2>2 DEF AbandonElection, logVars, Persist
  <2> QED BY <1>7, <2>1, <2>2
<1>8. ASSUME NEW i \in Server,
             \/ \E v \in Value : Start(i, v)
             \/ \E j \in Server : SendAppendEntries(i, j)
             \/ \E j \in Server : SendSnapshot(i, j)
             \/ ApplyOne(i)
      PROVE  UNCHANGED <<lastSnapshotIndex, disk>>
  BY <1>8 DEF Start, SendAppendEntries, SendSnapshot, ApplyOne, logVars
<1>9. ASSUME NEW j \in Server, NEW m \in aeReqs, AppendEntries(j, m)
      PROVE  /\ UNCHANGED lastSnapshotIndex
             /\ UNCHANGED disk \/ \E data : PersistWith(j, data)
  BY <1>9 DEF AppendEntries, AppendStale, AppendAccepted, AppendRefused, logVars, Persist
<1>10. ASSUME NEW i \in Server, NEW j \in Server, HandleAppendReply(i, j)
       PROVE  /\ UNCHANGED lastSnapshotIndex
              /\ UNCHANGED disk \/ \E data : PersistWith(i, data)
  BY <1>10 DEF HandleAppendReply, StepDownOnAppend, AppendAcknowledged, AppendRejected,
               logVars, Persist
<1>11. ASSUME NEW i \in Server, NEW r \in snapReplies, HandleSnapshotReply(i, r)
       PROVE  /\ UNCHANGED lastSnapshotIndex
              /\ UNCHANGED disk \/ \E data : PersistWith(i, data)
  BY <1>11 DEF HandleSnapshotReply, logVars, Persist
<1>12. ASSUME NEW j \in Server, NEW m \in snapReqs, InstallSnapshot(j, m)
       PROVE  /\ IndexOnDisk'
              /\ \A i \in Server : lastSnapshotIndex'[i] >= lastSnapshotIndex[i]
  <2>1. CASE /\ UNCHANGED lastSnapshotIndex
             /\ UNCHANGED disk \/ \E data : PersistWith(j, data)
    BY <1>3, <2>1
  <2>2. CASE /\ lastSnapshotIndex[j] < m.lastIncludedIndex
             /\ InstallState(j, m.lastIncludedIndex, m.lastIncludedTerm, m.data)
    <3>1. /\ m.lastIncludedIndex \in Nat /\ m.lastIncludedIndex >= lastSnapshotIndex[j]
          /\ lastSnapshotIndex' = [lastSnapshotIndex EXCEPT ![j] = m.lastIncludedIndex]
          /\ \E data : PersistWith(j, data)
      BY <1>0, <2>2 DEF InstallState
    <3> QED BY <1>2, <3>1
  <2> QED BY <1>12, <2>1, <2>2 DEF InstallSnapshot, logVars, Persist
<1>13. ASSUME NEW i \in Server, Snapshot(i)
       PROVE  /\ IndexOnDisk'
              /\ \A s \in Server : lastSnapshotIndex'[s] >= lastSnapshotIndex[s]
  <2>1. CASE lastSnapshotIndex[i] >= svc[i].index
    BY <1>3, <1>13, <2>1 DEF Snapshot, logVars
  <2>2. CASE ~(lastSnapshotIndex[i] >= svc[i].index)
    <3>1. svc[i].index \in Nat
      BY <1>13 DEF Snapshot, TypeInv, TypeOK, ServiceTypes, ServiceCall, Idle
    <3>2. /\ svc[i].index >= lastSnapshotIndex[i]
          /\ lastSnapshotIndex' = [lastSnapshotIndex EXCEPT ![i] = svc[i].index]
          /\ \E data : PersistWith(i, data)
      BY <1>0, <1>13, <2>2, <3>1 DEF Snapshot
    <3> QED BY <1>2, <3>1, <3>2
  <2> QED BY <2>1, <2>2
<1>14. ASSUME NEW i \in Server, NEW term, NEW data,
              InstallState(i, lastSnapshotIndex[i], term, data)
       PROVE  /\ IndexOnDisk'
              /\ \A s \in Server : lastSnapshotIndex'[s] >= lastSnapshotIndex[s]
  <2>1. lastSnapshotIndex[i] \in Nat /\ lastSnapshotIndex[i] >= lastSnapshotIndex[i]
    BY <1>0
  <2> QED BY <1>2, <1>14, <2>1 DEF InstallState
<1>15. ASSUME NEW i \in Server, CondInstallSnapshot(i)
       PROVE  /\ IndexOnDisk'
              /\ \A s \in Server : lastSnapshotIndex'[s] >= lastSnapshotIndex[s]
  BY <1>14, <1>15 DEF CondInstallSnapshot, TypeInv, InstallIsCurrent
<1>16. ASSUME NEW i \in Server, StartApplyLogs(i)
       PROVE  /\ IndexOnDisk'
              /\ \A s \in Server : lastSnapshotIndex'[s] >= lastSnapshotIndex[s]
  <2>1. CASE InstallState(i, lastSnapshotIndex[i], lastSnapshotTerm[i], disk[i].snapshot)
    BY <1>14, <2>1
  <2>2. CASE UNCHANGED <<logVars, disk>>
    BY <1>3, <2>2 DEF logVars
  <2> QED BY <1>16, <2>1, <2>2 DEF StartApplyLogs
<1>17. ASSUME NEW i \in Server, Restart(i)
       PROVE  UNCHANGED <<lastSnapshotIndex, disk>>
  BY <1>0, <1>17 DEF Restart, ReadPersist, IndexOnDisk
<1> HIDE <1>0
<1>18. CASE Next
  <2>1. CASE \/ \E i \in Server : StartElection(i)
             \/ \E j \in Server, m \in voteReqs : RequestVote(j, m)
             \/ \E i \in Server, r \in voteReplies : CollectVote(i, r) \/ AbandonElection(i, r)
             \/ \E i \in Server, v \in Value : Start(i, v)
             \/ \E i, j \in Server : SendAppendEntries(i, j)
             \/ \E j \in Server, m \in aeReqs : AppendEntries(j, m)
             \/ \E i, j \in Server : HandleAppendReply(i, j)
             \/ \E i, j \in Server : SendSnapshot(i, j)
             \/ \E i \in Server, r \in snapReplies : HandleSnapshotReply(i, r)
             \/ \E i \in Server : ApplyOne(i)
             \/ \E i \in Server : Restart(i)
    <3>1. /\ UNCHANGED lastSnapshotIndex
          /\ UNCHANGED disk \/ \E i \in Server : \E data : PersistWith(i, data)
      BY <1>5, <1>6, <1>7, <1>8, <1>9, <1>10, <1>11, <1>17, <2>1
    <3> QED BY <1>3, <3>1
  <2>2. CASE \/ \E j \in Server, m \in snapReqs : InstallSnapshot(j, m)
             \/ \E i \in Server : Snapshot(i)
             \/ \E i \in Server : CondInstallSnapshot(i)
             \/ \E i \in Server : StartApplyLogs(i)
    BY <1>12, <1>13, <1>15, <1>16, <2>2
  <2> QED BY <1>18, <2>1, <2>2 DEF Next
<1> QED BY <1>4, <1>18

-----------------------------------------------------------------------------
(* Leaders of a term *)

\* What every step does where no snapshot is under way: a peer keeps its own vote as well,
\* and nobody returns to a candidacy it has left.
OwnVotesKept ==
    \A i \in Server : currentTerm'[i] = currentTerm[i] =>
        /\ votedFor[i] = i => votedFor'[i] = i
        /\ role'[i] = "Candidate" => role[i] = "Candidate"

\* A step by which peer i follows.
LEMMA FollowKeepsOwnVote ==
    ASSUME TypeInv, NEW i \in Server, NEW term \in Nat, Follow(i, term),
           \/ UNCHANGED votedFor
           \/ term > currentTerm[i] /\ \E v : votedFor' = [votedFor EXCEPT ![i] = v]
           \/ votedFor[i] = Nil /\ \E v : votedFor' = [votedFor EXCEPT ![i] = v]
    PROVE  OwnVotesKept
<1>1. /\ role \in [Server -> Role] /\ currentTerm \in [Server -> Nat]
      /\ votedFor \in [Server -> Server \cup {Nil}]
  BY DEF TypeInv, TypeOK, RoleTypes
<1> QED BY <1>1, NilAssumption DEF Follow, OwnVotesKept

LEMMA EveryStepKeepsOwnVotes ==
    ASSUME TypeInv, ElectionInv, NoSnapshots, [Next]_vars
    PROVE  OwnVotesKept
<1>1. /\ role \in [Server -> Role] /\ currentTerm \in [Server -> Nat]
      /\ votedFor \in [Server -> Server \cup {Nil}]
  BY DEF TypeInv, TypeOK, RoleTypes
<1>2. ASSUME UNCHANGED roleVars PROVE OwnVotesKept
  BY <1>2 DEF roleVars, OwnVotesKept
<1>3. CASE UNCHANGED vars
  BY <1>2, <1>3 DEF vars
<1>4. ASSUME NEW i \in Server, StartElection(i) PROVE OwnVotesKept
  BY <1>1, <1>4 DEF StartElection, OwnVotesKept
<1>5. ASSUME NEW j \in Server, NEW m \in voteReqs, RequestVote(j, m) PROVE OwnVotesKept
  <2>1. m.term \in Nat
    BY DEF TypeInv, TypeOK, NetTypes, VoteRequest
  <2>2. CASE RefuseVote(j, m) \/ RepeatVote(j, m)
    BY <1>2, <2>2 DEF RefuseVote, RepeatVote
  <2>3. CASE GrantVote(j, m)
    <3>1. /\ Follow(j, m.term) /\ votedFor' = [votedFor EXCEPT ![j] = m.candidateId]
          /\ m.term > currentTerm[j] \/ votedFor[j] = Nil
      BY <2>3 DEF GrantVote
    <3> QED BY <2>1, <3>1, FollowKeepsOwnVote
  <2>4. CASE AdoptTerm(j, m)
    <3>1. /\ Follow(j, m.term) /\ votedFor' = [votedFor EXCEPT ![j] = Nil]
          /\ m.term > currentTerm[j]
      BY <2>4 DEF AdoptTerm
    <3> QED BY <2>1, <3>1, FollowKeepsOwnVote
  <2> QED BY <1>5, <2>2, <2>3, <2>4 DEF RequestVote
<1>6. ASSUME NEW i \in Server, NEW r \in voteReplies, CollectVote(i, r) PROVE OwnVotesKept
  <2>1. BecomeLeader(i) \/ UNCHANGED role
    BY <1>6 DEF CollectVote
  <2>2. UNCHANGED <<currentTerm, votedFor>>
    BY <1>6 DEF CollectVote
  <2> QED BY <1>1, <2>1, <2>2 DEF BecomeLeader, OwnVotesKept
<1>7. ASSUME NEW i \in Server, NEW r \in voteReplies, AbandonElection(i, r) PROVE OwnVotesKept
  <2>1. r.term \in Nat
    BY DEF TypeInv, TypeOK, NetTypes, VoteReply
  <2>2. /\ Follow(i, r.term) /\ votedFor' = [votedFor EXCEPT ![i] = Nil]
        /\ r.term > currentTerm[i]
    BY <1>7 DEF AbandonElection
  <2> QED BY <2>1, <2>2, FollowKeepsOwnVote
<1>8. ASSUME NEW j \in Server, NEW m \in aeReqs, AppendEntries(j, m) PROVE OwnVotesKept
  <2>1. m.term \in Nat
    BY DEF TypeInv, TypeOK, NetTypes, AppendRequest
  <2>2. CASE AppendStale(j, m)
    BY <1>2, <2>2 DEF AppendStale
  <2>3. CASE AppendAccepted(j, m) \/ AppendRefused(j, m)
    <3>1. Follow(j, m.term) /\ UNCHANGED votedFor
      BY <2>3 DEF AppendAccepted, AppendRefused
    <3> QED BY <2>1, <3>1, FollowKeepsOwnVote
  <2> QED BY <1>8, <2>2, <2>3 DEF AppendEntries
<1>9. ASSUME NEW i \in Server, NEW j \in Server, HandleAppendReply(i, j) PROVE OwnVotesKept
  <2>1. PICK reply \in aeCall[i][j].replies : \E r \in Observed(reply) :
          \/ StepDownOnAppend(i, j, r)
          \/ AppendAcknowledged(i, j, r)
          \/ AppendRejected(i, j, r)
    BY <1>9 DEF HandleAppendReply
  <2>2. PICK r \in Observed(reply) :
          \/ StepDownOnAppend(i, j, r)
          \/ AppendAcknowledged(i, j, r)
          \/ AppendRejected(i, j, r)
    BY <2>1
  <2>3. CASE StepDownOnAppend(i, j, r)
    <3>1. r.term \in Nat
      BY <1>9, <2>1, <2>2, ObservedType DEF HandleAppendReply, TypeInv, TypeOK
    <3>2. Follow(i, r.term) /\ UNCHANGED votedFor
      BY <2>3 DEF StepDownOnAppend
    <3> QED BY <3>1, <3>2, FollowKeepsOwnVote
  <2>4. CASE AppendAcknowledged(i, j, r) \/ AppendRejected(i, j, r)
    BY <1>2, <2>4 DEF AppendAcknowledged, AppendRejected
  <2> QED BY <2>2, <2>3, <2>4
<1>10. ASSUME NEW i \in Server, NEW r \in snapReplies, HandleSnapshotReply(i, r)
       PROVE  OwnVotesKept
  <2>1. r.term \in Nat
    BY DEF TypeInv, TypeOK, NetTypes, SnapshotReply
  <2>2. \/ Follow(i, r.term) /\ UNCHANGED votedFor
        \/ UNCHANGED roleVars
    BY <1>10 DEF HandleSnapshotReply
  <2> QED BY <1>2, <2>1, <2>2, FollowKeepsOwnVote
<1>11. ASSUME NEW i \in Server,
              \/ \E v \in Value : Start(i, v)
              \/ \E j \in Server : SendAppendEntries(i, j)
              \/ \E j \in Server : SendSnapshot(i, j)
              \/ Snapshot(i)
              \/ CondInstallSnapshot(i)
              \/ StartApplyLogs(i)
              \/ ApplyOne(i)
       PROVE  OwnVotesKept
  <2>1. UNCHANGED roleVars
    BY <1>11 DEF Start, SendAppendEntries, SendSnapshot, Snapshot, CondInstallSnapshot,
                 StartApplyLogs, ApplyOne
  <2> QED BY <1>2, <2>1
<1>12. ASSUME NEW i \in Server, Restart(i) PROVE OwnVotesKept
  <2>1. /\ role' = [role EXCEPT ![i] = "Follower"] /\ votedFor' = votedFor
    BY <1>1, <1>12 DEF Restart, ReadPersist, ElectionInv, VoteOnDisk
  <2> QED BY <1>1, <2>1 DEF OwnVotesKept
<1>13. ASSUME NEW j \in Server, NEW m \in snapReqs PROVE FALSE
  BY DEF NoSnapshots
<1>14. CASE Next
  BY <1>4, <1>5, <1>6, <1>7, <1>8, <1>9, <1>10, <1>11, <1>12, <1>13, <1>14 DEF Next
<1> QED BY <1>3, <1>14

LEMMA LedByStays ==
    ASSUME TypeInv, TypeInv', ElectionInv, VoteStep, OwnVotesKept,
           NEW l \in Server, NEW t \in Nat, LedBy(l, t)
    PROVE  LedBy(l, t)'
<1>1. /\ currentTerm[l] \in Nat /\ currentTerm'[l] \in Nat
      /\ currentTerm'[l] >= currentTerm[l]
  BY DEF TypeInv, TypeOK, RoleTypes, VoteStep, VotesKept
<1>2. Elected(l, t)'
  <2>1. PICK Q \in SUBSET Server : IsMajority(Q) /\ \A s \in Q \ {l} : Voted(s, l, t)
    BY DEF LedBy, Elected
  <2>2. \A s \in Q \ {l} : Voted(s, l, t)'
    BY <2>1, VotedStays DEF VoteStep
  <2> QED BY <2>1, <2>2 DEF Elected
<1>3. currentTerm'[l] >= t
  BY <1>1 DEF LedBy
<1>4. currentTerm'[l] = t => role'[l] # "Candidate" /\ votedFor'[l] = l
  BY <1>1 DEF LedBy, OwnVotesKept
<1>5. ASSUME NEW r \in voteReplies', r.granted, r.from = l PROVE r.request.term # t
  <2>1. CASE r \in voteReplies
    BY <1>5, <2>1 DEF LedBy
  <2>2. CASE r \notin voteReplies
    <3>1. /\ r.from # r.request.candidateId
          /\ currentTerm'[r.from] = r.request.term
          /\ votedFor'[r.from] = r.request.candidateId
      BY <1>5, <2>2 DEF VoteStep, NewVotesRecorded
    <3> QED BY <1>4, <1>5, <3>1
  <2> QED BY <2>1, <2>2
<1> QED BY <1>2, <1>3, <1>4, <1>5 DEF LedBy

LEMMA LedByInCurrentTerm ==
    ASSUME NEW l \in Server, NEW t \in Nat, LedBy(l, t)', currentTerm'[l] = t
    PROVE  LedBy(l, currentTerm[l])'
BY DEF LedBy, Elected, Voted

LEMMA LeaderTermStays ==
    ASSUME TypeInv, TypeInv', ElectionInv, VoteStep, OwnVotesKept,
           NEW l \in Server, LedBy(l, currentTerm[l]), currentTerm'[l] = currentTerm[l]
    PROVE  LedBy(l, currentTerm[l])'
<1>1. \A t \in Nat : LedBy(l, t) => LedBy(l, t)'
  BY LedByStays
<1>2. PICK t \in Nat : t = currentTerm[l]
  BY DEF TypeInv, TypeOK, RoleTypes
<1>3. LedBy(l, t)'
  BY <1>1, <1>2
<1>4. currentTerm'[l] = t
  BY <1>2
<1> QED BY <1>3, <1>4, LedByInCurrentTerm

\* A term that has been led has no other candidate with a majority.
LEMMA OnlyLeader ==
    ASSUME TypeInv, ElectionInv, NEW l \in Server, NEW i \in Server, NEW t \in Nat,
           LedBy(l, t), Elected(i, t), currentTerm[i] = t, votedFor[i] = i
    PROVE  l = i
<1> SUFFICES ASSUME l # i PROVE FALSE
  OBVIOUS
<1>1. PICK P \in SUBSET Server : IsMajority(P) /\ \A s \in P \ {l} : Voted(s, l, t)
  BY DEF LedBy, Elected
<1>2. PICK Q \in SUBSET Server : IsMajority(Q) /\ \A s \in Q \ {i} : Voted(s, i, t)
  BY DEF Elected
<1>3. PICK s \in Server : s \in P /\ s \in Q
  BY <1>1, <1>2, MajoritiesMeet
<1>4. CASE s = i
  <2>1. Voted(i, l, t)
    BY <1>1, <1>3, <1>4
  <2> QED BY <2>1 DEF Voted, ElectionInv, VotesStand
<1>5. CASE s = l
  <2>1. Voted(l, i, t)
    BY <1>2, <1>3, <1>5
  <2> QED BY <2>1 DEF Voted, LedBy
<1>6. CASE s # i /\ s # l
  <2>1. Voted(s, l, t) /\ Voted(s, i, t)
    BY <1>1, <1>2, <1>3, <1>6
  <2> QED BY <2>1 DEF Voted, ElectionInv, VoteOnce
<1> QED BY <1>4, <1>5, <1>6

-----------------------------------------------------------------------------
(* The logs of the terms *)

\* The log of a term only grows.
Extends(TL, more) == \A t \in Nat : AgreeUpTo(TL[t], more[t], Len(TL[t]))

LEMMA ExtendsItself ==
    ASSUME NEW TL \in [Nat -> Seq(Entry)]
    PROVE  Extends(TL, TL)
<1>1. \A t \in Nat : TL[t] \in Seq(Entry) /\ Len(TL[t]) \in Nat
  OBVIOUS
<1> QED BY <1>1 DEF Extends, AgreeUpTo

LEMMA AgreementPasses ==
    ASSUME NEW X \in Seq(Entry), NEW Y \in Seq(Entry), NEW Z \in Seq(Entry),
           NEW k \in Nat, NEW n \in Nat, AgreeUpTo(X, Y, k), AgreeUpTo(Y, Z, n), k <= n
    PROVE  AgreeUpTo(X, Z, k)
<1>1. Len(X) \in Nat /\ Len(Y) \in Nat /\ Len(Z) \in Nat
  OBVIOUS
<1>2. k <= Len(X) /\ k <= Len(Z)
  BY <1>1 DEF AgreeUpTo
<1>3. ASSUME NEW a \in 1..k PROVE X[a] = Z[a]
  <2>1. a \in 1..n
    BY <1>3
  <2> QED BY <1>3, <2>1 DEF AgreeUpTo
<1> QED BY <1>2, <1>3 DEF AgreeUpTo

LEMMA ConsistentExtends ==
    ASSUME NEW TL \in [Nat -> Seq(Entry)], NEW more \in [Nat -> Seq(Entry)],
           Extends(TL, more), NEW X \in Seq(Entry), Consistent(TL, X)
    PROVE  Consistent(more, X)
<1> SUFFICES ASSUME NEW k \in 1..Len(X) PROVE AgreeUpTo(X, more[X[k].term], k)
  BY DEF Consistent
<1>1. X[k] \in Entry
  BY ElementOfSeq
<1>2. X[k].term \in Nat
  BY <1>1 DEF Entry
<1>3. PICK t \in Nat : t = X[k].term
  BY <1>2
<1>4. TL[t] \in Seq(Entry) /\ more[t] \in Seq(Entry)
  OBVIOUS
<1>5. Len(TL[t]) \in Nat
  BY <1>4
<1>6. AgreeUpTo(X, TL[t], k) /\ AgreeUpTo(TL[t], more[t], Len(TL[t]))
  BY <1>3 DEF Consistent, Extends
<1>7. k \in Nat /\ k <= Len(TL[t])
  BY <1>6 DEF AgreeUpTo
<1>8. AgreeUpTo(X, more[t], k)
  BY <1>4, <1>5, <1>6, <1>7, AgreementPasses
<1> QED BY <1>3, <1>8

LEMMA PartAgrees ==
    ASSUME NEW X \in Seq(Entry), NEW L \in Seq(Entry), AgreeUpTo(X, L, Len(X)),
           NEW k \in 1..Len(X)
    PROVE  AgreeUpTo(X, L, k) /\ k \in 1..Len(L) /\ X[k] = L[k]
<1>1. k \in Nat /\ 1 <= k /\ k <= Len(X) /\ Len(X) \in Nat /\ Len(L) \in Nat
  OBVIOUS
<1>2. Len(X) <= Len(L) /\ \A n \in 1..Len(X) : X[n] = L[n]
  BY DEF AgreeUpTo
<1>3. \A n \in 1..k : X[n] = L[n]
  BY <1>1, <1>2
<1> QED BY <1>1, <1>2, <1>3 DEF AgreeUpTo

\* A part of the log of a term, from its start, is consistent as it is.
LEMMA ConsistentPart ==
    ASSUME NEW TL \in [Nat -> Seq(Entry)], NEW t \in Nat, Consistent(TL, TL[t]),
           NEW X \in Seq(Entry), AgreeUpTo(X, TL[t], Len(X))
    PROVE  Consistent(TL, X)
<1> SUFFICES ASSUME NEW k \in 1..Len(X) PROVE AgreeUpTo(X, TL[X[k].term], k)
  BY DEF Consistent
<1>1. /\ TL[t] \in Seq(Entry) /\ k \in Nat
      /\ AgreeUpTo(X, TL[t], k) /\ k \in 1..Len(TL[t]) /\ X[k] = TL[t][k]
  BY PartAgrees
<1>2. X[k] \in Entry
  BY ElementOfSeq
<1>3. PICK n \in Nat : n = X[k].term
  BY <1>2 DEF Entry
<1>4. AgreeUpTo(TL[t], TL[n], k)
  BY <1>1, <1>3 DEF Consistent
<1>5. AgreeUpTo(X, TL[n], k)
  <2>1. TL[n] \in Seq(Entry)
    OBVIOUS
  <2> QED BY <1>1, <1>4, <2>1, AgreementPasses
<1> QED BY <1>3, <1>5

LEMMA SegmentExtends ==
    ASSUME NEW L \in Seq(Entry), NEW more \in Seq(Entry), AgreeUpTo(L, more, Len(L)),
           NEW m \in AppendRequest, Segment(L, m)
    PROVE  Segment(more, m)
<1>1. /\ Len(L) \in Nat /\ Len(more) \in Nat /\ m.prevLogIndex \in Nat
      /\ Len(m.entries) \in Nat
  BY DEF AppendRequest
<1>2. m.prevLogIndex + Len(m.entries) <= Len(L) /\ Len(L) <= Len(more)
  BY <1>1 DEF Segment, AgreeUpTo
<1>3. ASSUME NEW n \in 1..Len(m.entries) PROVE m.entries[n] = more[m.prevLogIndex + n]
  <2>1. m.prevLogIndex + n \in 1..Len(L)
    BY <1>1, <1>2, <1>3
  <2> QED BY <2>1, <1>3 DEF Segment, AgreeUpTo
<1>4. ASSUME m.prevLogIndex > 0 PROVE m.prevLogTerm = more[m.prevLogIndex].term
  <2>1. m.prevLogIndex \in 1..Len(L)
    BY <1>1, <1>2, <1>4
  <2> QED BY <2>1, <1>4 DEF Segment, AgreeUpTo
<1> QED BY <1>1, <1>2, <1>3, <1>4 DEF Segment

\* What a step must show: the new logs, the new call and the new leader are consistent with
\* logs of the terms that extend the ones before.
LEMMA TermLogsStep ==
    ASSUME TypeInv, TypeInv', ElectionInv, VoteStep, OwnVotesKept,
           NEW TL \in [Nat -> Seq(Entry)], NEW more \in [Nat -> Seq(Entry)],
           TermLogs(TL), Extends(TL, more), TermsConsistent(more),
           \A i \in Server : Consistent(more, logs'[i]),
           \A i \in Server : disk'[i].logs \in {disk[i].logs, logs'[i]},
           \A m \in aeReqs' \ aeReqs : Segment(more[m.term], m),
           \A i \in Server : role'[i] = "Leader" =>
               logs'[i] = more[currentTerm'[i]] /\ LedBy(i, currentTerm[i])',
           \A t \in Nat : more[t] # <<>> => TL[t] # <<>> \/ \E l \in Server : LedBy(l, t)'
    PROVE  TermLogs(more)'
<1>1. PeersConsistent(more)'
  <2>1. ASSUME NEW i \in Server PROVE Consistent(more, disk[i].logs)
    <3>1. disk[i].logs \in Seq(Entry)
      BY DEF TypeInv, TypeOK, Disk
    <3> QED BY <3>1, ConsistentExtends DEF TermLogs, PeersConsistent
  <2>2. \A i \in Server : Consistent(more, disk'[i].logs)
    BY <2>1
  <2> QED BY <2>2 DEF PeersConsistent
<1>2. CallsAreSegments(more)'
  <2> SUFFICES ASSUME NEW m \in aeReqs' PROVE Segment(more[m.term], m)
    BY DEF CallsAreSegments
  <2>1. CASE m \in aeReqs
    <3>1. m \in AppendRequest /\ m.term \in Nat
      BY <2>1 DEF TypeInv, TypeOK, NetTypes, AppendRequest
    <3>2. Segment(TL[m.term], m)
      BY <2>1 DEF TermLogs, CallsAreSegments
    <3>3. TL[m.term] \in Seq(Entry) /\ more[m.term] \in Seq(Entry)
          /\ AgreeUpTo(TL[m.term], more[m.term], Len(TL[m.term]))
      BY <3>1 DEF Extends
    <3> QED BY <3>1, <3>2, <3>3, SegmentExtends
  <2> QED BY <2>1
<1>3. LeadersHoldTerms(more)'
  BY DEF LeadersHoldTerms
<1>4. TermsWereLed(more)'
  <2> SUFFICES ASSUME NEW t \in Nat, more[t] # <<>> PROVE \E l \in Server : LedBy(l, t)'
    BY DEF TermsWereLed
  <2>1. CASE TL[t] # <<>>
    <3>1. PICK l \in Server : LedBy(l, t)
      BY <2>1 DEF TermLogs, TermsWereLed
    <3> QED BY <3>1, LedByStays
  <2> QED BY <2>1
<1>5. TermsConsistent(more)'
  BY DEF TermsConsistent
<1> QED BY <1>1, <1>2, <1>3, <1>4, <1>5 DEF TermLogs

\* The steps that change no log and elect nobody.
LogsStand ==
    /\ logs' = logs /\ aeReqs' = aeReqs
    /\ \A i \in Server : disk'[i].logs \in {disk[i].logs, logs[i]}
    /\ \A i \in Server : role'[i] = "Leader" =>
         role[i] = "Leader" /\ currentTerm'[i] = currentTerm[i]

\* A step that elects nobody and changes followers' logs at most, each to a consistent one.
LEMMA FollowerLogStep ==
    ASSUME TypeInv, TypeInv', ElectionInv, VoteStep, OwnVotesKept,
           NEW TL \in [Nat -> Seq(Entry)], TermLogs(TL), aeReqs' \subseteq aeReqs,
           \A i \in Server : Consistent(TL, logs'[i]),
           \A i \in Server : disk'[i].logs \in {disk[i].logs, logs'[i]},
           \A i \in Server : role'[i] = "Leader" =>
               role[i] = "Leader" /\ currentTerm'[i] = currentTerm[i] /\ logs'[i] = logs[i]
    PROVE  TermLogs(TL)'
<1>1. Extends(TL, TL) /\ TermsConsistent(TL)
  BY ExtendsItself DEF TermLogs
<1>2. ASSUME NEW i \in Server, role'[i] = "Leader"
      PROVE  logs'[i] = TL[currentTerm'[i]] /\ LedBy(i, currentTerm[i])'
  <2>1. /\ role[i] = "Leader" /\ currentTerm'[i] = currentTerm[i] /\ logs'[i] = logs[i]
    BY <1>2
  <2>2. logs[i] = TL[currentTerm[i]] /\ LedBy(i, currentTerm[i])
    BY <2>1 DEF TermLogs, LeadersHoldTerms
  <2>3. LedBy(i, currentTerm[i])'
    BY <2>1, <2>2, LeaderTermStays
  <2> QED BY <2>1, <2>2, <2>3
<1>3. /\ \A m \in aeReqs' \ aeReqs : Segment(TL[m.term], m)
      /\ \A t \in Nat : TL[t] # <<>> => TL[t] # <<>> \/ \E l \in Server : LedBy(l, t)'
  OBVIOUS
<1> QED BY <1>1, <1>2, <1>3, TermLogsStep

LEMMA LogsStandStep ==
    ASSUME TypeInv, TypeInv', ElectionInv, VoteStep, OwnVotesKept, LogsStand,
           NEW TL \in [Nat -> Seq(Entry)], TermLogs(TL)
    PROVE  TermLogs(TL)'
<1>1. \A i \in Server : Consistent(TL, logs'[i])
  BY DEF TermLogs, PeersConsistent, LogsStand
<1> QED BY <1>1, FollowerLogStep DEF LogsStand

-----------------------------------------------------------------------------
(* Steps that change no log *)

LEMMA PersistLogs ==
    ASSUME TypeInv, NEW i \in Server, logs' = logs,
           UNCHANGED disk \/ \E data : PersistWith(i, data)
    PROVE  \A s \in Server : disk'[s].logs \in {disk[s].logs, logs[s]}
<1>1. DOMAIN disk = Server
  BY DEF TypeInv, TypeOK
<1> QED BY <1>1 DEF PersistWith

LEMMA FollowKeepsLogs ==
    ASSUME TypeInv, NEW i \in Server, NEW term, Follow(i, term),
           UNCHANGED <<logs, aeReqs>>, Persist(i)
    PROVE  LogsStand
<1>1. role \in [Server -> Role] /\ currentTerm \in [Server -> Nat]
  BY DEF TypeInv, TypeOK, RoleTypes
<1>2. \A s \in Server : role'[s] = "Leader" =>
        role[s] = "Leader" /\ currentTerm'[s] = currentTerm[s]
  BY <1>1 DEF Follow
<1>3. \A s \in Server : disk'[s].logs \in {disk[s].logs, logs[s]}
  BY PersistLogs DEF Persist
<1> QED BY <1>2, <1>3 DEF LogsStand

LEMMA QuietKeepsLogs ==
    ASSUME TypeInv, NEW i \in Server, UNCHANGED <<roleVars, logs, aeReqs>>,
           UNCHANGED disk \/ \E data : PersistWith(i, data)
    PROVE  LogsStand
  BY PersistLogs DEF LogsStand, roleVars

\* A snapshot up to index 0 is none: all of the log stays.
LEMMA InstallNothing ==
    ASSUME TypeInv, NEW i \in Server, lastSnapshotIndex[i] = 0
    PROVE  [logs EXCEPT ![i] = LogAfter(i, 0)] = logs
<1>1. /\ logs \in [Server -> Seq(Entry)] /\ logs[i] \in Seq(Entry) /\ Len(logs[i]) \in Nat
  BY DEF TypeInv, TypeOK, LogTypes
<1>2. LogAfter(i, 0) = SubSeq(logs[i], 1, Len(logs[i]))
  BY <1>1 DEF LogAfter, LastLogIndex, EntriesFrom
<1>3. SubSeq(logs[i], 1, Len(logs[i])) = logs[i]
  BY <1>1
<1> QED BY <1>1, <1>2, <1>3

LEMMA ElectionsKeepLogs ==
    ASSUME TypeInv, NEW i \in Server,
           \/ StartElection(i)
           \/ \E m \in voteReqs : RequestVote(i, m)
           \/ \E r \in voteReplies : AbandonElection(i, r)
    PROVE  LogsStand
<1>1. /\ role \in [Server -> Role] /\ currentTerm \in [Server -> Nat]
  BY DEF TypeInv, TypeOK, RoleTypes
<1>2. CASE StartElection(i)
  <2>1. /\ logs' = logs /\ aeReqs' = aeReqs /\ Persist(i)
        /\ role' = [role EXCEPT ![i] = "Candidate"]
        /\ currentTerm' = [currentTerm EXCEPT ![i] = @ + 1]
    BY <1>2 DEF StartElection, logVars
  <2>2. \A s \in Server : disk'[s].logs \in {disk[s].logs, logs[s]}
    BY <2>1, PersistLogs DEF Persist
  <2>3. \A s \in Server : role'[s] = "Leader" =>
          role[s] = "Leader" /\ currentTerm'[s] = currentTerm[s]
    BY <1>1, <2>1
  <2> QED BY <2>1, <2>2, <2>3 DEF LogsStand
<1>3. ASSUME NEW m \in voteReqs, RequestVote(i, m) PROVE LogsStand
  <2>1. UNCHANGED <<logs, aeReqs>>
    BY <1>3 DEF RequestVote, logVars
  <2>2. \/ UNCHANGED <<roleVars, disk>>
        \/ Follow(i, m.term) /\ Persist(i)
    BY <1>3 DEF RequestVote, RefuseVote, RepeatVote, GrantVote, AdoptTerm
  <2> QED BY <2>1, <2>2, FollowKeepsLogs, QuietKeepsLogs
<1>4. ASSUME NEW r \in voteReplies, AbandonElection(i, r) PROVE LogsStand
  BY <1>4, FollowKeepsLogs DEF AbandonElection, logVars
<1> QED BY <1>2, <1>3, <1>4

LEMMA RepliesKeepLogs ==
    ASSUME TypeInv, NEW i \in Server,
           \/ \E j \in Server : HandleAppendReply(i, j)
           \/ \E j \in Server : SendSnapshot(i, j)
           \/ \E r \in snapReplies : HandleSnapshotReply(i, r)
    PROVE  LogsStand
<1>1. ASSUME NEW j \in Server, HandleAppendReply(i, j) PROVE LogsStand
  <2>1. aeReqs' = aeReqs
    BY <1>1 DEF HandleAppendReply
  <2>2. PICK reply \in aeCall[i][j].replies : \E r \in Observed(reply) :
          \/ StepDownOnAppend(i, j, r)
          \/ AppendAcknowledged(i, j, r)
          \/ AppendRejected(i, j, r)
    BY <1>1 DEF HandleAppendReply
  <2>3. PICK r \in Observed(reply) :
          \/ StepDownOnAppend(i, j, r)
          \/ AppendAcknowledged(i, j, r)
          \/ AppendRejected(i, j, r)
    BY <2>2
  <2>4. CASE StepDownOnAppend(i, j, r)
    BY <2>1, <2>4, FollowKeepsLogs DEF StepDownOnAppend, logVars
  <2>5. CASE AppendAcknowledged(i, j, r)
    <3>1. UNCHANGED <<roleVars, logs>> /\ Persist(i)
      BY <2>5 DEF AppendAcknowledged
    <3> QED BY <2>1, <3>1, QuietKeepsLogs DEF Persist
  <2>6. CASE AppendRejected(i, j, r)
    BY <2>1, <2>6, QuietKeepsLogs DEF AppendRejected, logVars
  <2> QED BY <2>3, <2>4, <2>5, <2>6
<1>2. ASSUME NEW j \in Server, SendSnapshot(i, j) PROVE LogsStand
  BY <1>2, QuietKeepsLogs DEF SendSnapshot, logVars
<1>3. ASSUME NEW r \in snapReplies, HandleSnapshotReply(i, r) PROVE LogsStand
  <2>1. UNCHANGED <<logs, aeReqs>>
    BY <1>3 DEF HandleSnapshotReply, logVars
  <2>2. \/ Follow(i, r.term) /\ Persist(i)
        \/ UNCHANGED <<roleVars, disk>>
    BY <1>3 DEF HandleSnapshotReply
  <2> QED BY <2>1, <2>2, FollowKeepsLogs, QuietKeepsLogs
<1> QED BY <1>1, <1>2, <1>3

\* The service's calls: nothing is dropped as long as no snapshot index is above 0.
LEMMA ServiceKeepsLogs ==
    ASSUME TypeInv, TypeInv', Uncompacted, Uncompacted', NEW i \in Server,
           Snapshot(i) \/ CondInstallSnapshot(i) \/ StartApplyLogs(i) \/ ApplyOne(i)
    PROVE  LogsStand
<1>1. /\ lastSnapshotIndex[i] = 0 /\ lastSnapshotIndex'[i] = 0
      /\ lastSnapshotIndex \in [Server -> Nat] /\ lastApplied[i] \in Nat
  BY DEF TypeInv, TypeOK, LogTypes, Uncompacted
<1>2. CASE Snapshot(i)
  <2>1. svc[i].index \in Nat
    BY <1>2 DEF Snapshot, TypeInv, TypeOK, ServiceTypes, ServiceCall, Idle
  <2>2. UNCHANGED aeReqs
    BY <1>2 DEF Snapshot
  <2>3. CASE lastSnapshotIndex[i] >= svc[i].index
    BY <1>2, <2>2, <2>3, QuietKeepsLogs DEF Snapshot, logVars
  <2>4. CASE ~(lastSnapshotIndex[i] >= svc[i].index)
    <3>1. lastSnapshotIndex' = [lastSnapshotIndex EXCEPT ![i] = svc[i].index]
      BY <1>2, <2>4 DEF Snapshot
    <3> QED BY <1>1, <2>1, <2>4, <3>1
  <2> QED BY <2>3, <2>4
<1>3. CASE CondInstallSnapshot(i)
  <2>1. svc[i].index = 0
    BY <1>1, <1>3 DEF CondInstallSnapshot, TypeInv, InstallIsCurrent
  <2>2. /\ logs' = [logs EXCEPT ![i] = LogAfter(i, 0)] /\ UNCHANGED <<roleVars, aeReqs>>
        /\ \E data : PersistWith(i, data)
    BY <1>3, <2>1 DEF CondInstallSnapshot, InstallState
  <2> QED BY <1>1, <2>2, InstallNothing, QuietKeepsLogs
<1>4. CASE StartApplyLogs(i)
  <2>1. UNCHANGED <<roleVars, logVars, disk, aeReqs>>
    BY <1>1, <1>4 DEF StartApplyLogs
  <2> QED BY <2>1, QuietKeepsLogs DEF logVars
<1>5. CASE ApplyOne(i)
  BY <1>5, QuietKeepsLogs DEF ApplyOne
<1> QED BY <1>2, <1>3, <1>4, <1>5

-----------------------------------------------------------------------------
(* Steps that change a log, a leader or the calls *)

\* The log of one term is replaced by a longer one.
GrowsTo(TL, more, t, L) ==
    Extends(TL, more) /\ more[t] = L /\ \A s \in Nat \ {t} : more[s] = TL[s]

LEMMA TermGrows ==
    ASSUME NEW TL \in [Nat -> Seq(Entry)], NEW t \in Nat, NEW L \in Seq(Entry),
           AgreeUpTo(TL[t], L, Len(TL[t]))
    PROVE  \E more \in [Nat -> Seq(Entry)] : GrowsTo(TL, more, t, L)
<1> DEFINE more == [TL EXCEPT ![t] = L]
<1>1. more \in [Nat -> Seq(Entry)] /\ more[t] = L /\ \A s \in Nat \ {t} : more[s] = TL[s]
  OBVIOUS
<1>2. Extends(TL, TL)
  BY ExtendsItself
<1> HIDE DEF more
<1>3. ASSUME NEW s \in Nat PROVE AgreeUpTo(TL[s], more[s], Len(TL[s]))
  <2>1. CASE s = t
    BY <1>1, <2>1
  <2>2. CASE s # t
    BY <1>1, <1>2, <2>2 DEF Extends
  <2> QED BY <2>1, <2>2
<1>4. Extends(TL, more)
  BY <1>3 DEF Extends
<1> QED BY <1>1, <1>4 DEF GrowsTo

LEMMA AppendFacts ==
    ASSUME NEW X \in Seq(Entry), NEW e \in Entry, NEW L \in Seq(Entry), L = Append(X, e)
    PROVE  /\ Len(X) \in Nat /\ Len(L) \in Nat /\ Len(L) = Len(X) + 1 /\ L[Len(X) + 1] = e
           /\ \A n \in 1..Len(X) : L[n] = X[n]
           /\ \A k \in 1..Len(L) : k \in 1..Len(X) \/ k = Len(X) + 1
           /\ AgreeUpTo(X, L, Len(X))
<1>1. Len(X) \in Nat /\ Len(L) \in Nat
  OBVIOUS
<1>2. /\ Len(Append(X, e)) = Len(X) + 1 /\ Append(X, e)[Len(X) + 1] = e
      /\ \A n \in 1..Len(X) : Append(X, e)[n] = X[n]
  BY AppendProperties
<1>3. AgreeUpTo(X, L, Len(X))
  BY <1>1, <1>2 DEF AgreeUpTo
<1>4. \A k \in 1..Len(L) : k \in 1..Len(X) \/ k = Len(X) + 1
  BY <1>1, <1>2
<1> QED BY <1>1, <1>2, <1>3, <1>4

LEMMA ConsistentAppend ==
    ASSUME NEW TL \in [Nat -> Seq(Entry)], NEW X \in Seq(Entry), NEW e \in Entry,
           NEW L \in Seq(Entry), L = Append(X, e), Consistent(TL, X), TL[e.term] = L
    PROVE  Consistent(TL, L)
<1>1. /\ Len(X) \in Nat /\ Len(L) \in Nat /\ Len(L) = Len(X) + 1 /\ L[Len(X) + 1] = e
      /\ \A n \in 1..Len(X) : L[n] = X[n]
  BY AppendFacts
<1>2. \A k \in 1..Len(L) : k \in 1..Len(X) \/ k = Len(X) + 1
  BY AppendFacts
<1>3. ASSUME NEW k \in 1..Len(L) PROVE AgreeUpTo(L, TL[L[k].term], k)
  <2>1. k \in 1..Len(X) \/ k = Len(X) + 1
    BY <1>2
  <2>2. CASE k = Len(X) + 1
    <3>1. L[k] = e /\ k = Len(L)
      BY <1>1, <2>2
    <3>2. AgreeUpTo(L, L, k)
      BY <1>1, <3>1 DEF AgreeUpTo
    <3> QED BY <3>1, <3>2
  <2>3. CASE k \in 1..Len(X)
    <3>1. L[k] = X[k]
      BY <1>1, <2>3
    <3>2. AgreeUpTo(X, TL[L[k].term], k)
      BY <2>3, <3>1 DEF Consistent
    <3>3. k \in Nat /\ k <= Len(L) /\ \A n \in 1..k : L[n] = X[n]
      BY <1>1, <2>3
    <3> QED BY <3>2, <3>3 DEF AgreeUpTo
  <2> QED BY <2>1, <2>2, <2>3
<1> QED BY <1>3 DEF Consistent

\* Start: the leader's log is the log of its term, and both grow by the command.
LEMMA StartTermLogs ==
    ASSUME TypeInv, TypeInv', ElectionInv, VoteStep, OwnVotesKept,
           NEW TL \in [Nat -> Seq(Entry)], TermLogs(TL),
           NEW i \in Server, NEW v \in Value, Start(i, v)
    PROVE  \E more \in [Nat -> Seq(Entry)] :
             /\ GrowsTo(TL, more, currentTerm[i],
                        Append(logs[i], [term |-> currentTerm[i], command |-> v]))
             /\ TermLogs(more)'
<1>1. PICK t \in Nat : t = currentTerm[i]
  BY DEF TypeInv, TypeOK, RoleTypes
<1>2. PICK e \in Entry : e = [term |-> t, command |-> v]
  BY DEF Entry
<1>3. logs \in [Server -> Seq(Entry)]
  BY DEF TypeInv, TypeOK, LogTypes
<1>4. PICK X \in Seq(Entry) : X = logs[i]
  BY <1>3
<1>5. PICK L \in Seq(Entry) : L = Append(X, e)
  BY AppendProperties
<1>6. /\ role[i] = "Leader" /\ logs' = [logs EXCEPT ![i] = L]
      /\ UNCHANGED <<roleVars, disk, aeReqs>>
  BY <1>1, <1>2, <1>4, <1>5 DEF Start
<1>7. X = TL[t] /\ LedBy(i, t)
  BY <1>1, <1>4, <1>6 DEF TermLogs, LeadersHoldTerms
<1>8. AgreeUpTo(TL[t], L, Len(TL[t]))
  BY <1>5, <1>7, AppendFacts
<1>9. PICK more \in [Nat -> Seq(Entry)] : GrowsTo(TL, more, t, L)
  BY <1>8, TermGrows
<1>10. Extends(TL, more) /\ more[t] = L /\ \A s \in Nat \ {t} : more[s] = TL[s]
  BY <1>9 DEF GrowsTo
<1>11. Consistent(more, L)
  <2>1. Consistent(more, X)
    BY <1>4, <1>10, ConsistentExtends DEF TermLogs, PeersConsistent
  <2>2. more[e.term] = L
    BY <1>2, <1>10
  <2> QED BY <1>5, <2>1, <2>2, ConsistentAppend
<1>12. TermsConsistent(more)
  <2> SUFFICES ASSUME NEW s \in Nat PROVE Consistent(more, more[s])
    BY DEF TermsConsistent
  <2>1. CASE s = t
    BY <1>10, <1>11, <2>1
  <2>2. CASE s # t
    <3>1. TL[s] \in Seq(Entry) /\ Consistent(TL, TL[s])
      BY DEF TermLogs, TermsConsistent
    <3> QED BY <1>10, <2>2, <3>1, ConsistentExtends
  <2> QED BY <2>1, <2>2
<1>13. ASSUME NEW s \in Server PROVE Consistent(more, logs'[s])
  <2>1. CASE s = i
    BY <1>3, <1>6, <1>11, <2>1
  <2>2. CASE s # i
    <3>1. logs'[s] = logs[s] /\ logs[s] \in Seq(Entry)
      BY <1>3, <1>6, <2>2
    <3> QED BY <1>10, <3>1, ConsistentExtends DEF TermLogs, PeersConsistent
  <2> QED BY <2>1, <2>2
<1>14. ASSUME NEW s \in Server, role'[s] = "Leader"
       PROVE  logs'[s] = more[currentTerm'[s]] /\ LedBy(s, currentTerm[s])'
  <2>1. /\ role[s] = "Leader" /\ currentTerm'[s] = currentTerm[s] /\ currentTerm[s] \in Nat
    BY <1>6, <1>14 DEF roleVars, TypeInv, TypeOK, RoleTypes
  <2>2. logs[s] = TL[currentTerm[s]] /\ LedBy(s, currentTerm[s])
    BY <2>1 DEF TermLogs, LeadersHoldTerms
  <2>3. LedBy(s, currentTerm[s])'
    BY <2>1, <2>2, LeaderTermStays
  <2>4. CASE s = i
    BY <1>1, <1>3, <1>6, <1>10, <2>1, <2>3, <2>4
  <2>5. CASE s # i
    <3>1. currentTerm[s] # t
      BY <1>1, <1>6, <2>1, <2>5, OneLeaderATerm DEF ElectionSafety
    <3> QED BY <1>3, <1>6, <1>10, <2>1, <2>2, <2>3, <2>5, <3>1
  <2> QED BY <2>4, <2>5
<1>15. ASSUME NEW s \in Nat, more[s] # <<>>
       PROVE  TL[s] # <<>> \/ \E l \in Server : LedBy(l, s)'
  <2>1. CASE s = t
    <3>1. \A n \in Nat : LedBy(i, n) => LedBy(i, n)'
      BY LedByStays
    <3> QED BY <1>7, <2>1, <3>1
  <2>2. CASE s # t
    BY <1>10, <1>15, <2>2
  <2> QED BY <2>1, <2>2
<1>16. /\ \A s \in Server : disk'[s].logs \in {disk[s].logs, logs'[s]}
       /\ \A m \in aeReqs' \ aeReqs : Segment(more[m.term], m)
  BY <1>6
<1>17. TermLogs(more)'
  BY <1>10, <1>12, <1>13, <1>14, <1>15, <1>16, TermLogsStep
<1> QED BY <1>1, <1>2, <1>4, <1>5, <1>9, <1>17

\* A peer that takes the leadership leads a term nobody has led: the log of that term is
\* its own, whatever it holds.
LEMMA CollectVoteTermLogs ==
    ASSUME TypeInv, TypeInv', ElectionInv, ElectionInv', VoteStep, OwnVotesKept,
           NEW TL \in [Nat -> Seq(Entry)], TermLogs(TL),
           NEW i \in Server, NEW r \in voteReplies, CollectVote(i, r)
    PROVE  \/ LogsStand
           \/ /\ role[i] = "Candidate" /\ role' = [role EXCEPT ![i] = "Leader"]
              /\ \A l \in Server : ~LedBy(l, currentTerm[i])
              /\ \E more \in [Nat -> Seq(Entry)] :
                   GrowsTo(TL, more, currentTerm[i], logs[i]) /\ TermLogs(more)'
<1>1. /\ role \in [Server -> Role] /\ logs \in [Server -> Seq(Entry)]
  BY DEF TypeInv, TypeOK, RoleTypes, LogTypes
<1>2. /\ UNCHANGED <<currentTerm, votedFor, logs, aeReqs, voteReplies>>
      /\ UNCHANGED disk \/ \E data : PersistWith(i, data)
      /\ UNCHANGED role
           \/ (StillCandidate(i) /\ role' = [role EXCEPT ![i] = "Leader"])
  BY DEF CollectVote, logVars, voteNet, Persist, BecomeLeader
<1>3. CASE UNCHANGED role
  <2>1. LogsStand
    BY <1>2, <1>3, QuietKeepsLogs DEF roleVars
  <2> QED BY <2>1
<1>4. CASE role[i] = "Candidate" /\ role' = [role EXCEPT ![i] = "Leader"]
  <2>1. PICK t \in Nat : t = currentTerm[i]
    BY DEF TypeInv, TypeOK, RoleTypes
  <2>2. PICK L \in Seq(Entry) : L = logs[i]
    BY <1>1
  <2>3. role'[i] = "Leader" /\ currentTerm'[i] = t /\ votedFor[i] = i
    BY <1>1, <1>2, <1>4, <2>1 DEF ElectionInv, VotedForSelf
  <2>4. Elected(i, t)
    BY <2>3 DEF VoteStep, CountedBefore
  <2>5. ASSUME NEW l \in Server, LedBy(l, t) PROVE FALSE
    <3>1. l = i
      BY <2>1, <2>3, <2>4, <2>5, OnlyLeader
    <3> QED BY <1>4, <2>1, <2>5, <3>1 DEF LedBy
  <2>6. TL[t] = <<>>
    BY <2>5 DEF TermLogs, TermsWereLed
  <2>7. PICK more \in [Nat -> Seq(Entry)] : GrowsTo(TL, more, t, L)
    <3>1. AgreeUpTo(TL[t], L, Len(TL[t]))
      <4>1. Len(TL[t]) = 0 /\ Len(L) \in Nat
        BY <2>6
      <4> QED BY <4>1 DEF AgreeUpTo
    <3> QED BY <3>1, TermGrows
  <2>8. Extends(TL, more) /\ more[t] = L /\ \A s \in Nat \ {t} : more[s] = TL[s]
    BY <2>7 DEF GrowsTo
  <2>9. ASSUME NEW s \in Server PROVE Consistent(more, logs'[s])
    <3>1. logs'[s] = logs[s] /\ logs[s] \in Seq(Entry)
      BY <1>1, <1>2
    <3> QED BY <2>8, <3>1, ConsistentExtends DEF TermLogs, PeersConsistent
  <2>10. TermsConsistent(more)
    <3> SUFFICES ASSUME NEW s \in Nat PROVE Consistent(more, more[s])
      BY DEF TermsConsistent
    <3>1. CASE s = t
      BY <1>2, <2>2, <2>8, <2>9, <3>1
    <3>2. CASE s # t
      <4>1. TL[s] \in Seq(Entry) /\ Consistent(TL, TL[s])
        BY DEF TermLogs, TermsConsistent
      <4> QED BY <2>8, <3>2, <4>1, ConsistentExtends
    <3> QED BY <3>1, <3>2
  <2>11. LedBy(i, t)'
    <3>1. Elected(i, t)'
      <4>1. PICK Q \in SUBSET Server : IsMajority(Q) /\ \A s \in Q \ {i} : Voted(s, i, t)
        BY <2>4 DEF Elected
      <4>2. \A s \in Q \ {i} : Voted(s, i, t)'
        BY <4>1, VotedStays DEF VoteStep
      <4> QED BY <4>1, <4>2 DEF Elected
    <3>2. currentTerm'[i] >= t /\ role'[i] # "Candidate" /\ votedFor'[i] = i
      BY <1>2, <2>3
    <3>3. ASSUME NEW v \in voteReplies', v.granted, v.from = i PROVE v.request.term # t
      <4>1. v \in voteReplies
        BY <1>2, <3>3
      <4>2. v.from # v.request.candidateId /\ v.request.term \in Nat
        BY <3>3, <4>1
           DEF ElectionInv, VotesStand, TypeInv, TypeOK, NetTypes, VoteReply, VoteRequest
      <4>3. \/ currentTerm[v.from] > v.request.term
            \/ votedFor[v.from] = v.request.candidateId
        BY <3>3, <4>1 DEF ElectionInv, VotesStand
      <4>4. votedFor[v.from] # v.request.candidateId
        BY <2>3, <3>3, <4>2
      <4>5. currentTerm[v.from] = t
        BY <2>1, <3>3
      <4>6. PICK n \in Nat : n = v.request.term
        BY <4>2
      <4>7. t > n
        BY <4>3, <4>4, <4>5, <4>6
      <4>8. t # n
        BY <4>7
      <4> QED BY <4>6, <4>8
    <3> QED BY <3>1, <3>2, <3>3 DEF LedBy
  <2>12. ASSUME NEW s \in Server, role'[s] = "Leader"
         PROVE  logs'[s] = more[currentTerm'[s]] /\ LedBy(s, currentTerm[s])'
    <3>1. CASE s = i
      <4>1. LedBy(i, currentTerm[i])'
        BY <2>3, <2>11, LedByInCurrentTerm
      <4> QED BY <1>2, <2>2, <2>3, <2>8, <3>1, <4>1
    <3>2. CASE s # i
      <4>1. /\ role[s] = "Leader" /\ currentTerm'[s] = currentTerm[s]
            /\ currentTerm[s] \in Nat /\ logs'[s] = logs[s]
        BY <1>1, <1>2, <1>4, <2>12, <3>2 DEF TypeInv, TypeOK, RoleTypes
      <4>2. logs[s] = TL[currentTerm[s]] /\ LedBy(s, currentTerm[s])
        BY <4>1 DEF TermLogs, LeadersHoldTerms
      <4>3. currentTerm[s] # t
        BY <2>5, <4>2
      <4>4. LedBy(s, currentTerm[s])'
        BY <4>1, <4>2, LeaderTermStays
      <4> QED BY <2>8, <4>1, <4>2, <4>3, <4>4
    <3> QED BY <3>1, <3>2
  <2>13. ASSUME NEW s \in Nat, more[s] # <<>>
         PROVE  TL[s] # <<>> \/ \E l \in Server : LedBy(l, s)'
    <3>1. CASE s = t
      BY <2>11, <3>1
    <3>2. CASE s # t
      BY <2>8, <2>13, <3>2
    <3> QED BY <3>1, <3>2
  <2>14. /\ \A s \in Server : disk'[s].logs \in {disk[s].logs, logs'[s]}
         /\ \A m \in aeReqs' \ aeReqs : Segment(more[m.term], m)
    BY <1>2, PersistLogs
  <2>15. TermLogs(more)'
    BY <2>8, <2>9, <2>10, <2>12, <2>13, <2>14, TermLogsStep
  <2> QED BY <1>4, <2>1, <2>2, <2>5, <2>7, <2>15
<1> QED BY <1>2, <1>3, <1>4 DEF StillCandidate

LEMMA SuffixFacts ==
    ASSUME NEW X \in Seq(Entry), NEW prev \in Nat, prev <= Len(X)
    PROVE  /\ Len(SubSeq(X, prev + 1, Len(X))) = Len(X) - prev
           /\ \A n \in 1..(Len(X) - prev) : SubSeq(X, prev + 1, Len(X))[n] = X[prev + n]
<1>1. Len(X) \in Nat
  OBVIOUS
<1>2. \A n \in (prev + 1)..Len(X) : X[n] \in Entry
  BY ElementOfSeq
<1>3. Len(SubSeq(X, prev + 1, Len(X))) = IF prev + 1 <= Len(X) THEN Len(X) - (prev + 1) + 1 ELSE 0
  BY <1>1, <1>2, SubSeqProperties
<1>4. \A n \in 1..(Len(X) - prev) : SubSeq(X, prev + 1, Len(X))[n] = X[prev + n]
  BY <1>1, <1>2, SubSeqProperties
<1> QED BY <1>1, <1>3, <1>4

LEMMA AppendArgsSegment ==
    ASSUME TypeInv, Uncompacted, NEW i \in Server, NEW j \in Server
    PROVE  Segment(logs[i], AppendArgs(i, j)) /\ AppendArgs(i, j).term = currentTerm[i]
<1>1. PICK X \in Seq(Entry) : X = logs[i]
  BY DEF TypeInv, TypeOK, LogTypes
<1>2. Len(X) \in Nat /\ lastSnapshotIndex[i] = 0 /\ LastLogIndex(i) = Len(X)
  BY <1>1 DEF Uncompacted, LastLogIndex
<1>3. ASSUME NEW prev \in Nat, prev <= Len(X), NEW m,
             m = [term |-> currentTerm[i], leaderId |-> i, to |-> j,
                  prevLogIndex |-> prev, prevLogTerm |-> TermAt(i, prev),
                  entries |-> EntriesFrom(i, prev + 1), leaderCommit |-> commitIndex[i]]
      PROVE  Segment(X, m) /\ m.term = currentTerm[i]
  <2>1. /\ m.term = currentTerm[i] /\ m.prevLogIndex = prev /\ m.prevLogTerm = TermAt(i, prev)
        /\ m.entries = EntriesFrom(i, prev + 1)
    BY <1>3
  <2>2. EntriesFrom(i, prev + 1) = SubSeq(X, prev + 1, Len(X))
    BY <1>1, <1>2 DEF EntriesFrom
  <2>3. prev > 0 => TermAt(i, prev) = X[prev].term
    BY <1>1, <1>2 DEF TermAt
  <2>4. PICK E : E = SubSeq(X, prev + 1, Len(X))
    OBVIOUS
  <2>5. /\ Len(E) = Len(X) - prev
        /\ \A n \in 1..(Len(X) - prev) : E[n] = X[prev + n]
    BY <1>3, <2>4, SuffixFacts
  <2>6. /\ prev + Len(E) <= Len(X) /\ \A n \in 1..Len(E) : E[n] = X[prev + n]
    BY <1>2, <1>3, <2>5
  <2>7. m.entries = E
    BY <2>1, <2>2, <2>4
  <2> QED BY <2>1, <2>3, <2>6, <2>7 DEF Segment
<1>4. PICK m : m = AppendArgs(i, j)
  OBVIOUS
<1>5. CASE HasEntriesFor(i, j)
  <2>1. nextIndex[i][j] \in Nat
    BY DEF TypeInv, TypeOK, LeaderTypes
  <2>2. PICK prev \in Nat : prev = nextIndex[i][j] - 1 /\ prev <= Len(X)
    BY <1>2, <1>5, <2>1 DEF HasEntriesFor
  <2>3. Segment(X, m) /\ m.term = currentTerm[i]
    BY <1>3, <1>4, <1>5, <2>2 DEF AppendArgs
  <2> QED BY <1>1, <1>4, <2>3
<1>6. CASE ~HasEntriesFor(i, j)
  <2>1. PICK prev \in Nat : prev = LastLogIndex(i) /\ prev <= Len(X)
    BY <1>2
  <2>2. Segment(X, m) /\ m.term = currentTerm[i]
    BY <1>3, <1>4, <1>6, <2>1 DEF AppendArgs
  <2> QED BY <1>1, <1>4, <2>2
<1> QED BY <1>5, <1>6

\* A leader sends parts of its log, that is, of the log of its term.
LEMMA SendTermLogs ==
    ASSUME TypeInv, TypeInv', Uncompacted, ElectionInv, VoteStep, OwnVotesKept,
           NEW TL \in [Nat -> Seq(Entry)], TermLogs(TL),
           NEW i \in Server, NEW j \in Server, SendAppendEntries(i, j)
    PROVE  TermLogs(TL)'
<1>1. /\ role[i] = "Leader" /\ aeReqs' = aeReqs \cup {AppendArgs(i, j)}
      /\ UNCHANGED <<role, currentTerm, logs, disk>>
  BY DEF SendAppendEntries, roleVars, logVars
<1>2. logs[i] = TL[currentTerm[i]]
  BY <1>1 DEF TermLogs, LeadersHoldTerms
<1>3. \A a \in aeReqs' \ aeReqs : Segment(TL[a.term], a)
  BY <1>1, <1>2, AppendArgsSegment
<1>4. ASSUME NEW s \in Server, role'[s] = "Leader"
       PROVE  logs'[s] = TL[currentTerm'[s]] /\ LedBy(s, currentTerm[s])'
  <2>1. logs[s] = TL[currentTerm[s]] /\ LedBy(s, currentTerm[s]) /\ currentTerm'[s] = currentTerm[s]
    BY <1>1, <1>4 DEF TermLogs, LeadersHoldTerms
  <2>2. LedBy(s, currentTerm[s])'
    BY <2>1, LeaderTermStays
  <2> QED BY <1>1, <2>1, <2>2
<1>5. /\ Extends(TL, TL) /\ TermsConsistent(TL)
      /\ \A s \in Server : Consistent(TL, logs'[s])
      /\ \A s \in Server : disk'[s].logs \in {disk[s].logs, logs'[s]}
      /\ \A t \in Nat : TL[t] # <<>> => TL[t] # <<>> \/ \E l \in Server : LedBy(l, t)'
  BY <1>1, ExtendsItself DEF TermLogs, PeersConsistent
<1> QED BY <1>3, <1>4, <1>5, TermLogsStep

\* Y is the first k entries of L.
FirstOf(Y, L, k) == Y \in Seq(Entry) /\ Len(Y) = k /\ AgreeUpTo(Y, L, k)

LEMMA SpliceFacts ==
    ASSUME NEW X \in Seq(Entry), NEW L \in Seq(Entry), NEW E \in Seq(Entry), NEW prev \in Nat,
           AgreeUpTo(X, L, prev), NEW k \in Nat, k = prev + Len(E), k <= Len(L),
           \A n \in 1..Len(E) : E[n] = L[prev + n],
           NEW Y, Y = SubSeq(X, 1, prev) \o E
    PROVE  FirstOf(Y, L, k)
<1>1. Len(X) \in Nat /\ Len(E) \in Nat /\ Len(L) \in Nat /\ prev <= Len(X)
  BY DEF AgreeUpTo
<1>2. PICK P : P = SubSeq(X, 1, prev)
  OBVIOUS
<1>3. P \in Seq(Entry) /\ Len(P) = prev /\ \A n \in 1..prev : P[n] = X[n]
  <2>1. \A n \in 1..prev : X[n] \in Entry
    BY <1>1, ElementOfSeq
  <2>2. /\ SubSeq(X, 1, prev) \in Seq(Entry)
        /\ Len(SubSeq(X, 1, prev)) = IF 1 <= prev THEN prev - 1 + 1 ELSE 0
        /\ \A n \in 1..(prev - 1 + 1) : SubSeq(X, 1, prev)[n] = X[1 + n - 1]
    BY <2>1, SubSeqProperties
  <2> QED BY <1>2, <2>2
<1>4. /\ Y \in Seq(Entry) /\ Len(Y) = prev + Len(E)
      /\ \A n \in 1..(prev + Len(E)) : Y[n] = IF n <= prev THEN P[n] ELSE E[n - prev]
  BY <1>2, <1>3, ConcatProperties
<1>5. ASSUME NEW n \in 1..Len(Y) PROVE Y[n] = L[n]
  <2>1. CASE n <= prev
    <3>1. n \in 1..prev
      BY <1>1, <1>4, <2>1
    <3>2. Y[n] = P[n] /\ P[n] = X[n]
      BY <1>3, <1>4, <2>1, <3>1
    <3> QED BY <3>1, <3>2 DEF AgreeUpTo
  <2>2. CASE ~(n <= prev)
    <3>1. n - prev \in 1..Len(E) /\ prev + (n - prev) = n
      BY <1>1, <1>4, <2>2
    <3>2. Y[n] = E[n - prev]
      BY <1>4, <2>2
    <3>3. E[n - prev] = L[prev + (n - prev)]
      BY <3>1
    <3> QED BY <3>1, <3>2, <3>3
  <2> QED BY <2>1, <2>2
<1> QED BY <1>1, <1>4, <1>5 DEF FirstOf, AgreeUpTo

\* Where two consistent logs have an entry of the same term, they are the same up to it.
LEMMA ConsistentMatch ==
    ASSUME NEW TL \in [Nat -> Seq(Entry)], NEW X \in Seq(Entry), NEW Y \in Seq(Entry),
           Consistent(TL, X), Consistent(TL, Y), NEW k \in Nat,
           k \in 1..Len(X), k \in 1..Len(Y), X[k].term = Y[k].term
    PROVE  AgreeUpTo(X, Y, k)
<1>1. PICK Z : Z = TL[X[k].term]
  OBVIOUS
<1>2. AgreeUpTo(X, Z, k) /\ AgreeUpTo(Y, Z, k)
  BY <1>1 DEF Consistent
<1>3. \A n \in 1..k : X[n] = Y[n]
  BY <1>2 DEF AgreeUpTo
<1>4. k <= Len(X) /\ k <= Len(Y)
  BY <1>2 DEF AgreeUpTo
<1> QED BY <1>3, <1>4 DEF AgreeUpTo

\* What AppendEntries makes of a log is a part of the log of the sender's term: up to the
\* previous entry because the terms match there, and from it on because it is what was sent.
LEMMA AcceptedIsPart ==
    ASSUME TypeInv, Uncompacted, NEW TL \in [Nat -> Seq(Entry)], TermLogs(TL),
           NEW j \in Server, NEW m \in aeReqs, PrevMatches(j, m)
    PROVE  \E Y \in Seq(Entry) :
             /\ Y = SubSeq(logs[j], 1, m.prevLogIndex - lastSnapshotIndex[j]) \o m.entries
             /\ Consistent(TL, Y)
             /\ Len(Y) = m.prevLogIndex + Len(m.entries) /\ AgreeUpTo(Y, TL[m.term], Len(Y))
<1>1. PICK X \in Seq(Entry) : X = logs[j]
  BY DEF TypeInv, TypeOK, LogTypes
<1>2. m.term \in Nat /\ m.prevLogIndex \in Nat /\ m.entries \in Seq(Entry)
  BY DEF TypeInv, TypeOK, NetTypes, AppendRequest
<1>3. PICK t \in Nat : t = m.term
  BY <1>2
<1>4. PICK prev \in Nat : prev = m.prevLogIndex
  BY <1>2
<1>5. PICK E \in Seq(Entry) : E = m.entries
  BY <1>2
<1>6. PICK L \in Seq(Entry) : L = TL[t]
  OBVIOUS
<1>7. /\ prev + Len(E) <= Len(L) /\ \A n \in 1..Len(E) : E[n] = L[prev + n]
      /\ prev > 0 => m.prevLogTerm = L[prev].term
  <2>1. Segment(L, m)
    BY <1>3, <1>6 DEF TermLogs, CallsAreSegments
  <2> QED BY <1>4, <1>5, <2>1 DEF Segment
<1>8. Consistent(TL, X) /\ Consistent(TL, L)
  BY <1>1, <1>6 DEF TermLogs, PeersConsistent, TermsConsistent
<1>9. Len(X) \in Nat /\ Len(L) \in Nat /\ Len(E) \in Nat
  OBVIOUS
<1>10. prev <= Len(X) /\ (prev > 0 => X[prev].term = m.prevLogTerm)
  <2>1. lastSnapshotIndex[j] = 0
    BY DEF Uncompacted
  <2>2. LastLogIndex(j) = Len(X)
    BY <1>1, <1>9, <2>1 DEF LastLogIndex
  <2>3. prev <= LastLogIndex(j)
    BY <1>4 DEF PrevMatches, InLog
  <2>4. m.prevLogIndex = 0 \/ TermAt(j, m.prevLogIndex) = m.prevLogTerm
    BY <2>1 DEF PrevMatches
  <2>5. prev = 0 \/ TermAt(j, prev) = m.prevLogTerm
    BY <1>4, <2>4
  <2>6. ASSUME prev > 0 PROVE X[prev].term = m.prevLogTerm
    <3>1. TermAt(j, prev) = X[prev].term
      BY <1>1, <2>1, <2>6 DEF TermAt
    <3>2. TermAt(j, prev) = m.prevLogTerm
      BY <2>5, <2>6
    <3> QED BY <3>1, <3>2
  <2> QED BY <2>2, <2>3, <2>6
<1>11. AgreeUpTo(X, L, prev)
  <2>1. CASE prev = 0
    BY <1>9, <2>1 DEF AgreeUpTo
  <2>2. CASE prev > 0
    <3>1. prev \in 1..Len(X) /\ prev \in 1..Len(L)
      BY <1>7, <1>9, <1>10, <2>2
    <3>2. X[prev].term = L[prev].term
      BY <1>7, <1>10, <2>2
    <3> QED BY <1>8, <3>1, <3>2, ConsistentMatch
  <2> QED BY <2>1, <2>2
<1>12. PICK Y : Y = SubSeq(X, 1, prev) \o E
  OBVIOUS
<1>13. Y \in Seq(Entry) /\ Len(Y) = prev + Len(E) /\ AgreeUpTo(Y, L, Len(Y))
  <2>1. PICK k \in Nat : k = prev + Len(E)
    BY <1>9
  <2>2. k <= Len(L) /\ \A n \in 1..Len(E) : E[n] = L[prev + n]
    BY <1>7, <2>1
  <2>3. FirstOf(Y, L, k)
    BY <1>11, <1>12, <2>1, <2>2, SpliceFacts
  <2> QED BY <2>1, <2>3 DEF FirstOf
<1>14. Consistent(TL, Y)
  BY <1>6, <1>8, <1>13, ConsistentPart
<1>15. Y = SubSeq(logs[j], 1, m.prevLogIndex - lastSnapshotIndex[j]) \o m.entries
  <2>1. lastSnapshotIndex[j] = 0
    BY DEF Uncompacted
  <2>2. m.prevLogIndex - lastSnapshotIndex[j] = prev - 0
    BY <1>4, <2>1
  <2>3. prev - 0 = prev
    OBVIOUS
  <2> QED BY <1>1, <1>5, <1>12, <2>2, <2>3
<1>16. Len(Y) = m.prevLogIndex + Len(m.entries) /\ AgreeUpTo(Y, TL[m.term], Len(Y))
  BY <1>3, <1>4, <1>5, <1>6, <1>13
<1> QED BY <1>13, <1>14, <1>15, <1>16

LEMMA AppendEntriesTermLogs ==
    ASSUME TypeInv, TypeInv', Uncompacted, ElectionInv, VoteStep, OwnVotesKept,
           NEW TL \in [Nat -> Seq(Entry)], TermLogs(TL),
           NEW j \in Server, NEW m \in aeReqs, AppendEntries(j, m)
    PROVE  TermLogs(TL)'
<1>1. aeReqs' = aeReqs
  BY DEF AppendEntries
<1>2. CASE AppendStale(j, m)
  <2>1. LogsStand
    BY <1>1, <1>2, QuietKeepsLogs DEF AppendStale, logVars
  <2> QED BY <2>1, LogsStandStep
<1>3. CASE AppendRefused(j, m)
  <2>1. LogsStand
    BY <1>1, <1>3, FollowKeepsLogs DEF AppendRefused, logVars
  <2> QED BY <2>1, LogsStandStep
<1>4. CASE AppendAccepted(j, m)
  <2>1. PrevMatches(j, m) /\ Follow(j, m.term) /\ Persist(j)
    BY <1>4 DEF AppendAccepted
  <2>2. PICK Y \in Seq(Entry) :
          /\ Y = SubSeq(logs[j], 1, m.prevLogIndex - lastSnapshotIndex[j]) \o m.entries
          /\ Consistent(TL, Y)
    BY <2>1, AcceptedIsPart
  <2>3. logs' = [logs EXCEPT ![j] = Y]
    BY <1>4, <2>2 DEF AppendAccepted
  <2>4. /\ role \in [Server -> Role] /\ currentTerm \in [Server -> Nat]
        /\ logs \in [Server -> Seq(Entry)] /\ DOMAIN disk = Server
    BY DEF TypeInv, TypeOK, RoleTypes, LogTypes
  <2>5. \A s \in Server : Consistent(TL, logs'[s])
    BY <2>2, <2>3, <2>4 DEF TermLogs, PeersConsistent
  <2>6. \A s \in Server : disk'[s].logs \in {disk[s].logs, logs'[s]}
    BY <2>1, <2>4 DEF Persist, PersistWith
  <2>7. \A s \in Server : role'[s] = "Leader" =>
          role[s] = "Leader" /\ currentTerm'[s] = currentTerm[s] /\ logs'[s] = logs[s]
    BY <2>1, <2>3, <2>4 DEF Follow
  <2> QED BY <1>1, <2>5, <2>6, <2>7, FollowerLogStep
<1> QED BY <1>2, <1>3, <1>4 DEF AppendEntries

\* A restart reads back a log that was consistent when it was written: terms only grow.
LEMMA RestartTermLogs ==
    ASSUME TypeInv, TypeInv', ElectionInv, VoteStep, OwnVotesKept,
           NEW TL \in [Nat -> Seq(Entry)], TermLogs(TL), NEW i \in Server, Restart(i)
    PROVE  TermLogs(TL)'
<1>1. /\ role \in [Server -> Role] /\ logs \in [Server -> Seq(Entry)]
      /\ currentTerm \in [Server -> Nat]
  BY DEF TypeInv, TypeOK, RoleTypes, LogTypes
<1>2. /\ role' = [role EXCEPT ![i] = "Follower"]
      /\ currentTerm' = [currentTerm EXCEPT ![i] = disk[i].currentTerm]
      /\ logs' = [logs EXCEPT ![i] = disk[i].logs]
      /\ UNCHANGED <<disk, aeReqs>>
  BY DEF Restart, ReadPersist
<1>3. \A s \in Server : Consistent(TL, logs'[s])
  BY <1>1, <1>2 DEF TermLogs, PeersConsistent
<1>4. \A s \in Server : role'[s] = "Leader" =>
        role[s] = "Leader" /\ currentTerm'[s] = currentTerm[s] /\ logs'[s] = logs[s]
  BY <1>1, <1>2
<1>5. aeReqs' \subseteq aeReqs /\ \A s \in Server : disk'[s].logs \in {disk[s].logs, logs'[s]}
  BY <1>2
<1> QED BY <1>3, <1>4, <1>5, FollowerLogStep

-----------------------------------------------------------------------------
(* The theorem *)

\* A peer that has compacted nothing is never asked for an entry it cannot send.
LEMMA NoSnapshotsStay ==
    ASSUME TypeInv, Uncompacted, NoSnapshots, [Next]_vars
    PROVE  NoSnapshots'
<1>1. snapPending \in [Server -> SUBSET Server]
  BY DEF TypeInv, TypeOK, CallTypes
<1>2. ASSUME UNCHANGED <<snapReqs, snapPending>> PROVE NoSnapshots'
  BY <1>2 DEF NoSnapshots
<1>3. CASE UNCHANGED vars
  BY <1>2, <1>3 DEF vars, callVars, snapNet
<1>4. ASSUME NEW i \in Server,
             \/ StartElection(i)
             \/ \E m \in voteReqs : RequestVote(i, m)
             \/ \E r \in voteReplies : CollectVote(i, r) \/ AbandonElection(i, r)
             \/ \E v \in Value : Start(i, v)
             \/ \E j \in Server : SendAppendEntries(i, j)
             \/ \E m \in aeReqs : AppendEntries(i, m)
             \/ \E r \in snapReplies : HandleSnapshotReply(i, r)
             \/ Snapshot(i) \/ CondInstallSnapshot(i) \/ StartApplyLogs(i) \/ ApplyOne(i)
      PROVE  NoSnapshots'
  <2>1. UNCHANGED <<snapReqs, snapPending>>
    BY <1>4 DEF StartElection, RequestVote, CollectVote, AbandonElection, Start,
                SendAppendEntries, AppendEntries, HandleSnapshotReply, Snapshot,
                CondInstallSnapshot, StartApplyLogs, ApplyOne, callVars, snapNet
  <2> QED BY <1>2, <2>1
<1>5. ASSUME NEW i \in Server, NEW j \in Server, HandleAppendReply(i, j) PROVE NoSnapshots'
  <2>1. UNCHANGED snapReqs
    BY <1>5 DEF HandleAppendReply, snapNet
  <2>2. PICK reply \in aeCall[i][j].replies : \E r \in Observed(reply) :
          \/ StepDownOnAppend(i, j, r)
          \/ AppendAcknowledged(i, j, r)
          \/ AppendRejected(i, j, r)
    BY <1>5 DEF HandleAppendReply
  <2>3. PICK r \in Observed(reply) :
          \/ StepDownOnAppend(i, j, r)
          \/ AppendAcknowledged(i, j, r)
          \/ AppendRejected(i, j, r)
    BY <2>2
  <2>4. CASE StepDownOnAppend(i, j, r) \/ AppendAcknowledged(i, j, r)
    BY <1>2, <2>1, <2>4 DEF StepDownOnAppend, AppendAcknowledged
  <2>5. CASE AppendRejected(i, j, r)
    <3>1. r.nextLogIndex \in Nat
      BY <1>5, <2>2, <2>3, ObservedType DEF HandleAppendReply, TypeInv, TypeOK
    <3>2. r.nextLogIndex # 0 /\ lastSnapshotIndex[i] = 0
      BY <2>5 DEF AppendRejected, Uncompacted
    <3>3. r.nextLogIndex > lastSnapshotIndex[i]
      BY <3>1, <3>2
    <3>4. UNCHANGED snapPending
      BY <2>5, <3>3 DEF AppendRejected
    <3> QED BY <1>2, <2>1, <3>4
  <2> QED BY <2>3, <2>4, <2>5
<1>6. ASSUME NEW i \in Server, Restart(i) PROVE NoSnapshots'
  BY <1>1, <1>6 DEF Restart, NoSnapshots, snapNet
<1>7. ASSUME NEW i \in Server, NEW j \in Server PROVE ~SendSnapshot(i, j)
  BY DEF SendSnapshot, NoSnapshots
<1>8. ASSUME NEW j \in Server, NEW m \in snapReqs PROVE FALSE
  BY DEF NoSnapshots
<1>9. CASE Next
  BY <1>4, <1>5, <1>6, <1>7, <1>8, <1>9 DEF Next
<1> QED BY <1>3, <1>9

LEMMA TermLogsNext ==
    ASSUME TypeInv, TypeInv', ElectionInv, ElectionInv', Uncompacted, Uncompacted', NoSnapshots,
           [Next]_vars, NEW TL \in [Nat -> Seq(Entry)], TermLogs(TL)
    PROVE  \E more \in [Nat -> Seq(Entry)] : TermLogs(more)'
<1>1. VoteStep /\ OwnVotesKept
  BY EveryStepVotes, EveryStepKeepsOwnVotes
<1>2. ASSUME LogsStand PROVE TermLogs(TL)'
  BY <1>1, <1>2, LogsStandStep
<1>3. CASE UNCHANGED vars
  <2>1. LogsStand
    BY <1>3 DEF LogsStand, vars, roleVars, logVars
  <2> QED BY <1>2, <2>1
<1>4. ASSUME NEW i \in Server,
             \/ StartElection(i)
             \/ \E m \in voteReqs : RequestVote(i, m)
             \/ \E r \in voteReplies : AbandonElection(i, r)
             \/ \E j \in Server : HandleAppendReply(i, j)
             \/ \E j \in Server : SendSnapshot(i, j)
             \/ \E r \in snapReplies : HandleSnapshotReply(i, r)
             \/ Snapshot(i) \/ CondInstallSnapshot(i) \/ StartApplyLogs(i) \/ ApplyOne(i)
      PROVE  TermLogs(TL)'
  <2>1. LogsStand
    BY <1>4, ElectionsKeepLogs, RepliesKeepLogs, ServiceKeepsLogs
  <2> QED BY <1>2, <2>1
<1>5. ASSUME NEW i \in Server, NEW r \in voteReplies, CollectVote(i, r)
      PROVE  \E more \in [Nat -> Seq(Entry)] : TermLogs(more)'
  BY <1>1, <1>2, <1>5, CollectVoteTermLogs
<1>6. ASSUME NEW i \in Server, NEW v \in Value, Start(i, v)
      PROVE  \E more \in [Nat -> Seq(Entry)] : TermLogs(more)'
  BY <1>1, <1>6, StartTermLogs
<1>7. ASSUME NEW i \in Server, NEW j \in Server, SendAppendEntries(i, j) PROVE TermLogs(TL)'
  BY <1>1, <1>7, SendTermLogs
<1>8. ASSUME NEW j \in Server, NEW m \in aeReqs, AppendEntries(j, m) PROVE TermLogs(TL)'
  BY <1>1, <1>8, AppendEntriesTermLogs
<1>9. ASSUME NEW i \in Server, Restart(i) PROVE TermLogs(TL)'
  BY <1>1, <1>9, RestartTermLogs
<1>10. ASSUME NEW j \in Server, NEW m \in snapReqs PROVE FALSE
  BY DEF NoSnapshots
<1>11. CASE Next
  BY <1>4, <1>5, <1>6, <1>7, <1>8, <1>9, <1>10, <1>11 DEF Next
<1> QED BY <1>3, <1>11

LEMMA InitLogs == Init => LogInv
<1> SUFFICES ASSUME Init PROVE LogInv
  OBVIOUS
<1>1. /\ \A i \in Server : /\ logs[i] = <<>> /\ disk[i].logs = <<>> /\ role[i] = "Follower"
                           /\ disk[i].lastSnapshotIndex = lastSnapshotIndex[i]
      /\ aeReqs = {} /\ NoSnapshots
  BY DEF Init, NoSnapshots
<1>2. PICK TL \in [Nat -> Seq(Entry)] : \A t \in Nat : TL[t] = <<>>
  <2>1. <<>> \in Seq(Entry)
    OBVIOUS
  <2>2. [t \in Nat |-> <<>>] \in [Nat -> Seq(Entry)]
    BY <2>1
  <2>3. \A t \in Nat : [n \in Nat |-> <<>>][t] = <<>>
    OBVIOUS
  <2> QED BY <2>2, <2>3
<1>3. Consistent(TL, <<>>)
  BY DEF Consistent
<1>4. TermLogs(TL)
  BY <1>1, <1>2, <1>3 DEF TermLogs, PeersConsistent, TermsConsistent, CallsAreSegments,
                          LeadersHoldTerms, TermsWereLed
<1> QED BY <1>1, <1>4 DEF LogInv, IndexOnDisk

LEMMA LogStep ==
    TypeInv /\ TypeInv' /\ ElectionInv /\ ElectionInv' /\ LogInv /\ [Next]_vars => LogInv'
<1> SUFFICES ASSUME TypeInv, TypeInv', ElectionInv, ElectionInv', LogInv, [Next]_vars
             PROVE  LogInv'
  OBVIOUS
<1>1. /\ IndexOnDisk'
      /\ \A i \in Server : lastSnapshotIndex'[i] >= lastSnapshotIndex[i]
  BY SnapshotIndexKept DEF LogInv
<1>2. ASSUME Uncompacted'
      PROVE  NoSnapshots' /\ \E more \in [Nat -> Seq(Entry)] : TermLogs(more)'
  <2>1. Uncompacted
    <3>1. \A i \in Server : lastSnapshotIndex'[i] = 0 /\ lastSnapshotIndex[i] \in Nat
      BY <1>2 DEF Uncompacted, TypeInv, TypeOK, LogTypes
    <3> QED BY <1>1, <3>1 DEF Uncompacted
  <2>2. NoSnapshots
    BY <2>1 DEF LogInv
  <2>3. PICK TL \in [Nat -> Seq(Entry)] : TermLogs(TL)
    BY <2>1 DEF LogInv
  <2> QED BY <1>2, <2>1, <2>2, <2>3, NoSnapshotsStay, TermLogsNext
<1> QED BY <1>1, <1>2 DEF LogInv

LEMMA LogInvariant == Spec => []LogInv
<1> QED BY InitLogs, LogStep, TypeInvariant, ElectionInvariant, PTL DEF Spec

LEMMA LogInvMatches == TypeInv /\ LogInv /\ Uncompacted => LogMatching
<1> SUFFICES ASSUME TypeInv, LogInv, Uncompacted, NEW i \in Server, NEW j \in Server,
                    NEW k \in Shared(i, j), TermAt(i, k) = TermAt(j, k),
                    NEW n \in Shared(i, j), n <= k
             PROVE  EntryAt(i, n) = EntryAt(j, n)
  BY DEF LogMatching
<1>1. PICK X \in Seq(Entry) : X = logs[i]
  BY DEF TypeInv, TypeOK, LogTypes
<1>2. PICK Y \in Seq(Entry) : Y = logs[j]
  BY DEF TypeInv, TypeOK, LogTypes
<1>3. PICK TL \in [Nat -> Seq(Entry)] : TermLogs(TL)
  BY DEF LogInv
<1>4. Consistent(TL, X) /\ Consistent(TL, Y)
  BY <1>1, <1>2, <1>3 DEF TermLogs, PeersConsistent
<1>5. lastSnapshotIndex[i] = 0 /\ lastSnapshotIndex[j] = 0 /\ Len(X) \in Nat /\ Len(Y) \in Nat
  BY DEF Uncompacted
<1>6. LastLogIndex(i) = Len(X) /\ LastLogIndex(j) = Len(Y)
  BY <1>1, <1>2, <1>5 DEF LastLogIndex
<1>7. /\ k \in Nat /\ k \in 1..Len(X) /\ k \in 1..Len(Y)
      /\ n \in Nat /\ n \in 1..Len(X) /\ n \in 1..Len(Y) /\ n \in 1..k
  BY <1>5, <1>6 DEF Shared
<1>8. X[k].term = Y[k].term
  BY <1>1, <1>2, <1>5, <1>7 DEF TermAt
<1>9. AgreeUpTo(X, Y, k)
  BY <1>4, <1>7, <1>8, ConsistentMatch
<1>10. X[n] = Y[n]
  BY <1>7, <1>9 DEF AgreeUpTo
<1>11. n - lastSnapshotIndex[i] = n /\ n - lastSnapshotIndex[j] = n
  BY <1>5, <1>7
<1> QED BY <1>1, <1>2, <1>10, <1>11 DEF EntryAt

\* As long as no peer has compacted its log, two logs that agree on the term at an index
\* are the same up to it: late and repeated AppendEntries, restarts that bring back an
\* older log and cuts that look at no term cannot make them part.
THEOREM LogsMatch == Spec => [](Uncompacted => LogMatching)
<1> QED BY LogInvMatches, LogInvariant, TypeInvariant, PTL

=============================================================================
