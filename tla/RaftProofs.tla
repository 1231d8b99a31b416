----------------------------- MODULE RaftProofs -----------------------------
(***************************************************************************)
(* The types of Raft.tla, one vote a term and one leader a term, for every *)
(* set of servers and every bound.  Each action keeps every index, log,    *)
(* message and disk of its type.  What is inductive about votes is         *)
(* ElectionInv: who has voted for whom, in memory, on disk, on the network *)
(* and in the elections under way.  The peers then implement the election  *)
(* of Voting.tla.                                                          *)
(***************************************************************************)
EXTENDS RaftSafety, SequenceTheorems, FiniteSetTheorems, TLAPS

-----------------------------------------------------------------------------
(* Types *)

\* While the service is about to answer a snapshot message, the peer's snapshot is the
\* one in that message: a second one waits for the service (InstallSnapshot).
InstallIsCurrent ==
    \A i \in Server : svc[i].op = "install" => svc[i].index = lastSnapshotIndex[i]

TypeInv == TypeOK /\ InstallIsCurrent

\* The log operators stay within the log: their results have the types of its entries.
LEMMA LogFacts ==
    ASSUME LogTypes, NEW i \in Server
    PROVE  /\ LastLogIndex(i) \in Nat /\ lastSnapshotIndex[i] <= LastLogIndex(i)
           /\ \A k \in Nat : InLog(i, k) => TermAt(i, k) \in Nat
           /\ LastLogTerm(i) \in Nat
           /\ \A k \in Nat : lastSnapshotIndex[i] < k /\ k <= LastLogIndex(i)
                                => EntryAt(i, k) \in Entry
           /\ \A k \in Nat : lastSnapshotIndex[i] < k => EntriesFrom(i, k) \in Seq(Entry)
<1>1. /\ logs[i] \in Seq(Entry) /\ Len(logs[i]) \in Nat
      /\ lastSnapshotIndex[i] \in Nat /\ lastSnapshotTerm[i] \in Nat
  BY DEF LogTypes
<1>2. LastLogIndex(i) \in Nat /\ lastSnapshotIndex[i] <= LastLogIndex(i)
  BY <1>1 DEF LastLogIndex
<1>3. ASSUME NEW k \in Nat, lastSnapshotIndex[i] < k, k <= LastLogIndex(i)
      PROVE  EntryAt(i, k) \in Entry
  <2>1. k - lastSnapshotIndex[i] \in 1..Len(logs[i])
    BY <1>1, <1>3 DEF LastLogIndex
  <2> QED BY <1>1, <2>1, ElementOfSeq DEF EntryAt
<1>4. ASSUME NEW k \in Nat, InLog(i, k)
      PROVE  TermAt(i, k) \in Nat
  <2>1. CASE k = lastSnapshotIndex[i]
    BY <1>1, <2>1 DEF TermAt
  <2>2. CASE k # lastSnapshotIndex[i]
    <3>1. EntryAt(i, k) \in Entry
      BY <1>1, <1>3, <1>4, <2>2 DEF InLog
    <3> QED BY <2>2, <3>1 DEF TermAt, EntryAt, Entry
  <2> QED BY <2>1, <2>2
<1>5. LastLogTerm(i) \in Nat
  BY <1>2, <1>4 DEF LastLogTerm, InLog
<1>6. ASSUME NEW k \in Nat, lastSnapshotIndex[i] < k
      PROVE  EntriesFrom(i, k) \in Seq(Entry)
  <2>1. \A n \in (k - lastSnapshotIndex[i])..Len(logs[i]) : logs[i][n] \in Entry
    BY <1>1, <1>6, ElementOfSeq
  <2> QED BY <1>1, <1>6, <2>1, SubSeqProperties DEF EntriesFrom
<1> QED BY <1>2, <1>3, <1>4, <1>5, <1>6

\* persist() writes a record of the disk's type.
LEMMA PersistTypes ==
    ASSUME RoleTypes', LogTypes', disk \in [Server -> Disk], NEW i \in Server,
           NEW data \in Seq(AppliedEntry), PersistWith(i, data)
    PROVE  disk' \in [Server -> Disk]
  BY DEF PersistWith, RoleTypes, LogTypes, Disk

LEMMA PersistSameSnapshot ==
    ASSUME RoleTypes', LogTypes', disk \in [Server -> Disk], NEW i \in Server, Persist(i)
    PROVE  disk' \in [Server -> Disk]
<1>1. disk[i].snapshot \in Seq(AppliedEntry)
  BY DEF Disk
<1> QED BY <1>1, PersistTypes DEF Persist

LEMMA FollowTypes ==
    ASSUME RoleTypes, NEW i \in Server, NEW term \in Nat, Follow(i, term),
           \/ UNCHANGED votedFor
           \/ \E v \in Server \cup {Nil} : votedFor' = [votedFor EXCEPT ![i] = v]
    PROVE  RoleTypes'
  BY DEF RoleTypes, Follow, Role

LEMMA InitTypes == Init => TypeInv
<1> SUFFICES ASSUME Init PROVE TypeInv
  OBVIOUS
<1>1. RoleTypes /\ LeaderTypes
  BY DEF Init, RoleTypes, LeaderTypes, Role
<1>2. LogTypes
  BY DEF Init, LogTypes
<1>3. disk \in [Server -> Disk]
  BY DEF Init, Disk
<1>4. CallTypes
  BY DEF Init, CallTypes, NoElection, Call, NoCall
<1>5. ServiceTypes /\ InstallIsCurrent
  BY DEF Init, ServiceTypes, ServiceCall, Idle, InstallIsCurrent
<1>6. NetTypes /\ restarts \in Nat
  BY DEF Init, NetTypes
<1> QED BY <1>1, <1>2, <1>3, <1>4, <1>5, <1>6 DEF TypeInv, TypeOK

LEMMA StartElectionTypes ==
    ASSUME TypeInv, NEW i \in Server, StartElection(i)
    PROVE  TypeInv'
<1> USE DEF TypeInv, TypeOK
<1>1. RoleTypes'
  BY DEF StartElection, RoleTypes, Role
<1>2. LogTypes' /\ LeaderTypes' /\ ServiceTypes' /\ restarts' \in Nat /\ InstallIsCurrent'
  BY DEF StartElection, logVars, leaderVars, serviceVars, LogTypes, LeaderTypes,
         ServiceTypes, InstallIsCurrent
<1>3. disk' \in [Server -> Disk]
  BY <1>1, <1>2, PersistSameSnapshot DEF StartElection
<1>4. CallTypes'
  BY DEF StartElection, CallTypes, RoleTypes
<1>5. NetTypes'
  <2>1. /\ currentTerm[i] \in Nat /\ LastLogIndex(i) \in Nat /\ LastLogTerm(i) \in Nat
    BY LogFacts DEF RoleTypes
  <2> QED BY <2>1 DEF StartElection, NetTypes, VoteRequest, snapNet
<1> QED BY <1>1, <1>2, <1>3, <1>4, <1>5

LEMMA RequestVoteTypes ==
    ASSUME TypeInv, NEW j \in Server, NEW m \in voteReqs, RequestVote(j, m)
    PROVE  TypeInv'
<1> USE DEF TypeInv, TypeOK
<1>1. m \in VoteRequest /\ m.term \in Nat /\ m.candidateId \in Server
  BY DEF NetTypes, VoteRequest
<1>2. currentTerm[j] \in Nat
  BY DEF RoleTypes
<1>3. LogTypes' /\ LeaderTypes' /\ ServiceTypes' /\ CallTypes' /\ restarts' \in Nat
      /\ InstallIsCurrent'
  BY DEF RequestVote, logVars, leaderVars, serviceVars, callVars, LogTypes, LeaderTypes,
         ServiceTypes, CallTypes, InstallIsCurrent
<1>4. ASSUME NEW term \in Nat, NEW granted \in BOOLEAN, AnswerVote(j, m, term, granted)
      PROVE  NetTypes'
  BY <1>1, <1>4 DEF AnswerVote, NetTypes, VoteReply, RequestVote, snapNet
<1>5. NetTypes'
  BY <1>1, <1>2, <1>4 DEF RequestVote, RefuseVote, RepeatVote, GrantVote, AdoptTerm
<1>6. RoleTypes'
  <2>1. CASE RefuseVote(j, m) \/ RepeatVote(j, m)
    BY <2>1 DEF RefuseVote, RepeatVote, roleVars, RoleTypes
  <2>2. CASE GrantVote(j, m) \/ AdoptTerm(j, m)
    BY <1>1, <2>2, FollowTypes DEF GrantVote, AdoptTerm
  <2> QED BY <2>1, <2>2 DEF RequestVote
<1>7. disk' \in [Server -> Disk]
  <2>1. CASE RefuseVote(j, m) \/ RepeatVote(j, m)
    BY <2>1 DEF RefuseVote, RepeatVote
  <2>2. CASE GrantVote(j, m) \/ AdoptTerm(j, m)
    BY <1>3, <1>6, <2>2, PersistSameSnapshot DEF GrantVote, AdoptTerm
  <2> QED BY <2>1, <2>2 DEF RequestVote
<1> QED BY <1>3, <1>5, <1>6, <1>7

LEMMA CollectVoteTypes ==
    ASSUME TypeInv, NEW i \in Server, NEW r \in voteReplies, CollectVote(i, r)
    PROVE  TypeInv'
<1> USE DEF TypeInv, TypeOK
<1>1. r.from \in Server /\ LastLogIndex(i) \in Nat
  BY LogFacts DEF NetTypes, VoteReply
<1>2. RoleTypes' /\ LeaderTypes'
  <2>1. \/ BecomeLeader(i)
        \/ UNCHANGED <<role, leaderVars>>
    BY DEF CollectVote
  <2>2. UNCHANGED <<currentTerm, votedFor>>
    BY DEF CollectVote
  <2>3. CASE BecomeLeader(i)
    <3>1. [j \in Server |-> LastLogIndex(i) + 1] \in [Server -> Nat]
      BY <1>1
    <3>2. [j \in Server |-> LastLogIndex(i)] \in [Server -> Nat]
      BY <1>1
    <3> QED BY <2>2, <2>3, <3>1, <3>2 DEF BecomeLeader, RoleTypes, LeaderTypes, Role
  <2>4. CASE UNCHANGED <<role, leaderVars>>
    BY <2>2, <2>4 DEF RoleTypes, LeaderTypes, leaderVars
  <2> QED BY <2>1, <2>3, <2>4
<1>3. LogTypes' /\ ServiceTypes' /\ NetTypes' /\ restarts' \in Nat /\ InstallIsCurrent'
  BY DEF CollectVote, logVars, serviceVars, voteNet, snapNet, LogTypes, ServiceTypes,
         NetTypes, InstallIsCurrent
<1>4. CallTypes'
  BY <1>1 DEF CollectVote, CallTypes, NoElection
<1>5. disk' \in [Server -> Disk]
  BY <1>2, <1>3, PersistSameSnapshot DEF CollectVote
<1> QED BY <1>2, <1>3, <1>4, <1>5

LEMMA AbandonElectionTypes ==
    ASSUME TypeInv, NEW i \in Server, NEW r \in voteReplies, AbandonElection(i, r)
    PROVE  TypeInv'
<1> USE DEF TypeInv, TypeOK
<1>1. RoleTypes'
  <2>1. r.term \in Nat
    BY DEF NetTypes, VoteReply
  <2> QED BY <2>1, FollowTypes DEF AbandonElection
<1>2. /\ LogTypes' /\ LeaderTypes' /\ CallTypes' /\ ServiceTypes' /\ NetTypes'
      /\ restarts' \in Nat /\ InstallIsCurrent'
  BY DEF AbandonElection, logVars, leaderVars, callVars, serviceVars, voteNet, snapNet,
         LogTypes, LeaderTypes, CallTypes, ServiceTypes, NetTypes, InstallIsCurrent
<1>3. disk' \in [Server -> Disk]
  BY <1>1, <1>2, PersistSameSnapshot DEF AbandonElection
<1> QED BY <1>1, <1>2, <1>3

LEMMA StartTypes ==
    ASSUME TypeInv, NEW i \in Server, NEW v \in Value, Start(i, v)
    PROVE  TypeInv'
<1> USE DEF TypeInv, TypeOK
<1>1. LogTypes'
  <2>1. [term |-> currentTerm[i], command |-> v] \in Entry
    BY DEF RoleTypes, Entry
  <2>2. Append(logs[i], [term |-> currentTerm[i], command |-> v]) \in Seq(Entry)
    BY <2>1, AppendProperties DEF LogTypes
  <2> QED BY <2>2 DEF Start, LogTypes
<1>2. LeaderTypes'
  BY LogFacts DEF Start, LeaderTypes
<1>3. /\ RoleTypes' /\ disk' \in [Server -> Disk] /\ CallTypes' /\ ServiceTypes'
      /\ NetTypes' /\ restarts' \in Nat /\ InstallIsCurrent'
  BY DEF Start, roleVars, callVars, serviceVars, voteNet, snapNet, RoleTypes, CallTypes,
         ServiceTypes, NetTypes, InstallIsCurrent
<1> QED BY <1>1, <1>2, <1>3

LEMMA AppendArgsType ==
    ASSUME RoleTypes, LogTypes, LeaderTypes, NEW i \in Server, NEW j \in Server
    PROVE  AppendArgs(i, j) \in AppendRequest
<1> DEFINE prev == IF HasEntriesFor(i, j) THEN nextIndex[i][j] - 1 ELSE LastLogIndex(i)
<1>1. /\ LastLogIndex(i) \in Nat /\ lastSnapshotIndex[i] \in Nat
      /\ lastSnapshotIndex[i] <= LastLogIndex(i) /\ nextIndex[i][j] \in Nat
  BY LogFacts DEF LogTypes, LeaderTypes
<1>2. prev \in Nat /\ InLog(i, prev) /\ prev + 1 \in Nat /\ lastSnapshotIndex[i] < prev + 1
  BY <1>1 DEF HasEntriesFor, InLog
<1>3. TermAt(i, prev) \in Nat /\ EntriesFrom(i, prev + 1) \in Seq(Entry)
  <2> HIDE DEF prev
  <2> QED BY <1>2, LogFacts
<1>4. currentTerm[i] \in Nat /\ commitIndex[i] \in Nat
  BY DEF RoleTypes, LogTypes
<1> HIDE DEF prev
<1>5. [term |-> currentTerm[i], leaderId |-> i, to |-> j,
       prevLogIndex |-> prev, prevLogTerm |-> TermAt(i, prev),
       entries |-> EntriesFrom(i, prev + 1), leaderCommit |-> commitIndex[i]]
         \in AppendRequest
  BY <1>2, <1>3, <1>4 DEF AppendRequest
<1> QED BY <1>5 DEF AppendArgs, prev

LEMMA SendAppendEntriesTypes ==
    ASSUME TypeInv, NEW i \in Server, NEW j \in Server, SendAppendEntries(i, j)
    PROVE  TypeInv'
<1> USE DEF TypeInv, TypeOK
<1>1. AppendArgs(i, j) \in AppendRequest
  BY AppendArgsType
<1>2. NetTypes'
  BY <1>1 DEF SendAppendEntries, NetTypes, voteNet, snapNet
<1>3. [open |-> TRUE, args |-> AppendArgs(i, j), replies |-> {}] \in Call
  BY <1>1 DEF Call
<1>4. CallTypes'
  BY <1>3 DEF SendAppendEntries, CallTypes
<1>5. /\ RoleTypes' /\ LogTypes' /\ LeaderTypes' /\ disk' \in [Server -> Disk]
      /\ ServiceTypes' /\ restarts' \in Nat /\ InstallIsCurrent'
  BY DEF SendAppendEntries, roleVars, logVars, leaderVars, serviceVars, RoleTypes,
         LogTypes, LeaderTypes, ServiceTypes, InstallIsCurrent
<1> QED BY <1>2, <1>4, <1>5

LEMMA AnswerAppendTypes ==
    ASSUME CallTypes, NEW j \in Server, NEW m \in AppendRequest, NEW term \in Nat,
           NEW success \in BOOLEAN, NEW next \in Nat, AnswerAppend(j, m, term, success, next)
    PROVE  aeCall' \in [Server -> [Server -> Call]]
<1> DEFINE call == aeCall[m.leaderId][j]
           reply == [term |-> term, success |-> success, nextLogIndex |-> next]
<1>1. m.leaderId \in Server /\ reply \in AppendReply /\ call \in Call
  BY DEF AppendRequest, AppendReply, CallTypes
<1>2. CASE call.open /\ call.args = m
  <2>1. call \in [open : {TRUE}, args : AppendRequest, replies : SUBSET AppendReply]
    <3>1. ASSUME call = NoCall PROVE FALSE
      <4>1. NoCall.open = FALSE
        BY DEF NoCall
      <4> QED BY <1>2, <3>1, <4>1
    <3> HIDE DEF call
    <3> QED BY <1>1, <3>1 DEF Call
  <2>2. [call EXCEPT !.replies = @ \cup {reply}] \in Call
    BY <1>1, <2>1 DEF Call
  <2>3. aeCall' = [aeCall EXCEPT ![m.leaderId][j].replies = @ \cup {reply}]
    BY <1>2 DEF AnswerAppend
  <2> QED BY <1>1, <2>2, <2>3 DEF CallTypes
<1>3. CASE ~(call.open /\ call.args = m)
  BY <1>3 DEF AnswerAppend, CallTypes
<1> QED BY <1>2, <1>3

LEMMA AppendEntriesTypes ==
    ASSUME TypeInv, NEW j \in Server, NEW m \in aeReqs, AppendEntries(j, m)
    PROVE  TypeInv'
<1> USE DEF TypeInv, TypeOK
<1>1. /\ m \in AppendRequest /\ m.term \in Nat /\ m.prevLogIndex \in Nat
      /\ m.entries \in Seq(Entry) /\ m.leaderCommit \in Nat /\ Len(m.entries) \in Nat
  BY LenProperties DEF NetTypes, AppendRequest
<1>2. currentTerm[j] \in Nat /\ LastLogIndex(j) \in Nat
  BY LogFacts DEF RoleTypes
<1>3. LeaderTypes' /\ ServiceTypes' /\ NetTypes' /\ restarts' \in Nat
  BY DEF AppendEntries, leaderVars, serviceVars, voteNet, snapNet, LeaderTypes,
         ServiceTypes, NetTypes
<1>4. /\ election' \in [Server -> [term : Nat, granted : SUBSET Server]]
      /\ campaigns' \in [Server -> SUBSET Nat] /\ snapPending' \in [Server -> SUBSET Server]
  BY DEF AppendEntries, CallTypes
<1>5. svc' = svc
  BY DEF AppendEntries, serviceVars
<1>6. CASE AppendStale(j, m)
  <2>1. aeCall' \in [Server -> [Server -> Call]]
    BY <1>1, <1>2, <1>6, AnswerAppendTypes DEF AppendStale
  <2>2. RoleTypes' /\ LogTypes' /\ disk' \in [Server -> Disk] /\ InstallIsCurrent'
    BY <1>5, <1>6 DEF AppendStale, roleVars, logVars, RoleTypes, LogTypes, InstallIsCurrent
  <2> QED BY <1>3, <1>4, <2>1, <2>2 DEF CallTypes
<1>7. CASE AppendAccepted(j, m)
  <2>1. aeCall' \in [Server -> [Server -> Call]]
    <3>1. m.prevLogIndex + Len(m.entries) + 1 \in Nat /\ TRUE \in BOOLEAN
      BY <1>1
    <3>2. AnswerAppend(j, m, currentTerm[j], TRUE, m.prevLogIndex + Len(m.entries) + 1)
      BY <1>7 DEF AppendAccepted
    <3> QED BY <1>1, <1>2, <3>1, <3>2, AnswerAppendTypes
  <2>2. RoleTypes'
    BY <1>1, <1>7, FollowTypes DEF AppendAccepted
  <2>3. LogTypes'
    <3>1. logs[j] \in Seq(Entry) /\ lastSnapshotIndex[j] \in Nat
      BY DEF LogTypes
    <3>2. /\ lastSnapshotIndex[j] <= m.prevLogIndex
          /\ m.prevLogIndex - lastSnapshotIndex[j] <= Len(logs[j])
      BY <1>1, <1>7, <3>1, LenProperties DEF AppendAccepted, PrevMatches, InLog, LastLogIndex
    <3>3. SubSeq(logs[j], 1, m.prevLogIndex - lastSnapshotIndex[j]) \in Seq(Entry)
      <4>1. \A n \in 1..(m.prevLogIndex - lastSnapshotIndex[j]) : logs[j][n] \in Entry
        BY <1>1, <3>1, <3>2, ElementOfSeq, LenProperties
      <4> QED BY <1>1, <3>1, <4>1, SubSeqProperties
    <3>4. SubSeq(logs[j], 1, m.prevLogIndex - lastSnapshotIndex[j]) \o m.entries \in Seq(Entry)
      BY <1>1, <3>3, ConcatProperties
    <3> QED BY <1>1, <1>7, <3>4 DEF AppendAccepted, LogTypes
  <2>4. disk' \in [Server -> Disk]
    BY <1>7, <2>2, <2>3, PersistSameSnapshot DEF AppendAccepted
  <2>5. InstallIsCurrent'
    BY <1>5, <1>7 DEF AppendAccepted, InstallIsCurrent
  <2> QED BY <1>3, <1>4, <2>1, <2>2, <2>3, <2>4, <2>5 DEF CallTypes
<1>8. CASE AppendRefused(j, m)
  <2>1. aeCall' \in [Server -> [Server -> Call]]
    <3>1. PICK next \in 0..(LastLogIndex(j) + 1) : AnswerAppend(j, m, currentTerm[j], FALSE, next)
      BY <1>8 DEF AppendRefused
    <3>2. next \in Nat /\ FALSE \in BOOLEAN
      BY <1>2, <3>1
    <3> QED BY <1>1, <1>2, <3>1, <3>2, AnswerAppendTypes
  <2>2. RoleTypes'
    BY <1>1, <1>8, FollowTypes DEF AppendRefused
  <2>3. LogTypes' /\ InstallIsCurrent'
    BY <1>5, <1>8 DEF AppendRefused, logVars, LogTypes, InstallIsCurrent
  <2>4. disk' \in [Server -> Disk]
    BY <1>8, <2>2, <2>3, PersistSameSnapshot DEF AppendRefused
  <2> QED BY <1>3, <1>4, <2>1, <2>2, <2>3, <2>4 DEF CallTypes
<1> QED BY <1>6, <1>7, <1>8 DEF AppendEntries

\* What a sender reads of a reply, torn or not, has the types of a reply.
LEMMA ObservedType ==
    ASSUME CallTypes, NEW i \in Server, NEW j \in Server, aeCall[i][j].open,
           NEW reply \in aeCall[i][j].replies, NEW r \in Observed(reply)
    PROVE  r.term \in Nat /\ r.nextLogIndex \in Nat
<1>1. aeCall[i][j] \in Call /\ aeCall[i][j] # NoCall
  BY DEF CallTypes, NoCall
<1>2. reply \in AppendReply
  BY <1>1 DEF Call
<1>3. CASE TornReplies
  BY <1>2, <1>3 DEF Observed, AppendReply
<1>4. CASE ~TornReplies
  BY <1>2, <1>4 DEF Observed, AppendReply
<1> QED BY <1>3, <1>4

LEMMA HandleAppendReplyTypes ==
    ASSUME TypeInv, NEW i \in Server, NEW j \in Server, HandleAppendReply(i, j)
    PROVE  TypeInv'
<1> USE DEF TypeInv, TypeOK
<1>0. PICK reply \in aeCall[i][j].replies : \E r \in Observed(reply) :
         \/ StepDownOnAppend(i, j, r)
         \/ AppendAcknowledged(i, j, r)
         \/ AppendRejected(i, j, r)
  BY DEF HandleAppendReply
<1>1. PICK r \in Observed(reply) :
         \/ StepDownOnAppend(i, j, r)
         \/ AppendAcknowledged(i, j, r)
         \/ AppendRejected(i, j, r)
  BY <1>0
<1>2. r.term \in Nat /\ r.nextLogIndex \in Nat
  BY <1>0, <1>1, ObservedType DEF HandleAppendReply
<1>3. ServiceTypes' /\ NetTypes' /\ restarts' \in Nat /\ svc' = svc
  BY DEF HandleAppendReply, serviceVars, voteNet, snapNet, ServiceTypes, NetTypes
<1>4. /\ election' \in [Server -> [term : Nat, granted : SUBSET Server]]
      /\ campaigns' \in [Server -> SUBSET Nat]
      /\ aeCall' \in [Server -> [Server -> Call]]
  BY DEF HandleAppendReply, CloseCall, CallTypes, Call
<1>5. CASE StepDownOnAppend(i, j, r)
  <2>1. RoleTypes'
    BY <1>2, <1>5, FollowTypes DEF StepDownOnAppend
  <2>2. LogTypes' /\ LeaderTypes' /\ InstallIsCurrent' /\ CallTypes'
    BY <1>3, <1>4, <1>5 DEF StepDownOnAppend, logVars, leaderVars, LogTypes, LeaderTypes,
                            InstallIsCurrent, CallTypes
  <2>3. disk' \in [Server -> Disk]
    BY <1>5, <2>1, <2>2, PersistSameSnapshot DEF StepDownOnAppend
  <2> QED BY <1>3, <2>1, <2>2, <2>3
<1>6. CASE AppendAcknowledged(i, j, r)
  <2> DEFINE ahead == r.nextLogIndex > nextIndex[i][j]
             match == IF ahead THEN [matchIndex[i] EXCEPT ![j] = r.nextLogIndex - 1]
                               ELSE matchIndex[i]
  <2>1. RoleTypes' /\ CallTypes'
    BY <1>4, <1>6 DEF AppendAcknowledged, roleVars, RoleTypes, CallTypes
  <2>2. LeaderTypes'
    <3>1. nextIndex[i] \in [Server -> Nat] /\ matchIndex[i] \in [Server -> Nat]
      BY DEF LeaderTypes
    <3>2. match \in [Server -> Nat]
      BY <1>2, <3>1
    <3>3. /\ matchIndex' = [matchIndex EXCEPT ![i] = match]
          /\ nextIndex' = [nextIndex EXCEPT ![i][j] = IF ahead THEN r.nextLogIndex ELSE @]
      BY <1>6 DEF AppendAcknowledged
    <3> HIDE DEF match
    <3> QED BY <1>2, <3>1, <3>2, <3>3 DEF LeaderTypes
  <2>3. LogTypes'
    <3>1. \A n \in commitIndex[i]..LastLogIndex(i) : n \in Nat
      BY LogFacts DEF LogTypes
    <3>2. \/ UNCHANGED commitIndex
          \/ \E n \in commitIndex[i]..LastLogIndex(i) :
                commitIndex' = [commitIndex EXCEPT ![i] = n]
      BY <1>6 DEF AppendAcknowledged
    <3>3. UNCHANGED <<logs, lastSnapshotIndex, lastSnapshotTerm, lastApplied>>
      BY <1>6 DEF AppendAcknowledged
    <3> QED BY <3>1, <3>2, <3>3 DEF LogTypes
  <2>4. InstallIsCurrent'
    BY <1>3, <1>6 DEF AppendAcknowledged, InstallIsCurrent
  <2>5. disk' \in [Server -> Disk]
    BY <1>6, <2>1, <2>3, PersistSameSnapshot DEF AppendAcknowledged
  <2> QED BY <1>3, <2>1, <2>2, <2>3, <2>4, <2>5
<1>7. CASE AppendRejected(i, j, r)
  <2>1. RoleTypes' /\ LogTypes' /\ disk' \in [Server -> Disk] /\ InstallIsCurrent'
    BY <1>3, <1>7 DEF AppendRejected, roleVars, logVars, RoleTypes, LogTypes, InstallIsCurrent
  <2>2. LeaderTypes' /\ CallTypes'
    <3>1. UNCHANGED matchIndex
      BY <1>7 DEF AppendRejected
    <3>2. CASE r.nextLogIndex > lastSnapshotIndex[i]
      <4>1. nextIndex' = [nextIndex EXCEPT ![i][j] = r.nextLogIndex] /\ UNCHANGED snapPending
        BY <1>7, <3>2 DEF AppendRejected
      <4> QED BY <1>2, <1>4, <3>1, <4>1 DEF LeaderTypes, CallTypes
    <3>3. CASE ~(r.nextLogIndex > lastSnapshotIndex[i])
      <4>1. snapPending' = [snapPending EXCEPT ![i] = @ \cup {j}] /\ UNCHANGED nextIndex
        BY <1>7, <3>3 DEF AppendRejected
      <4> QED BY <1>4, <3>1, <4>1 DEF LeaderTypes, CallTypes
    <3> QED BY <3>2, <3>3
  <2> QED BY <1>3, <2>1, <2>2
<1> QED BY <1>1, <1>5, <1>6, <1>7

LEMMA InstallStateTypes ==
    ASSUME RoleTypes', LogTypes, disk \in [Server -> Disk], NEW i \in Server,
           NEW index \in Nat, NEW term \in Nat, NEW data \in Seq(AppliedEntry),
           lastSnapshotIndex[i] <= index, InstallState(i, index, term, data)
    PROVE  LogTypes' /\ disk' \in [Server -> Disk] /\ lastSnapshotIndex'[i] = index
<1>1. LogAfter(i, index) \in Seq(Entry)
  BY LogFacts DEF LogAfter, LogTypes
<1>2. LogTypes' /\ lastSnapshotIndex'[i] = index
  BY <1>1 DEF InstallState, LogTypes
<1>3. disk' \in [Server -> Disk]
  BY <1>2, PersistTypes DEF InstallState
<1> QED BY <1>2, <1>3

LEMMA SendSnapshotTypes ==
    ASSUME TypeInv, NEW i \in Server, NEW j \in Server, SendSnapshot(i, j)
    PROVE  TypeInv'
<1> USE DEF TypeInv, TypeOK
<1>1. [term |-> currentTerm[i], leaderId |-> i, to |-> j,
       lastIncludedIndex |-> lastSnapshotIndex[i],
       lastIncludedTerm |-> lastSnapshotTerm[i], data |-> disk[i].snapshot]
         \in SnapshotRequest
  BY DEF RoleTypes, LogTypes, Disk, SnapshotRequest
<1>2. NetTypes'
  BY <1>1 DEF SendSnapshot, voteNet, NetTypes
<1>3. CallTypes'
  BY DEF SendSnapshot, CallTypes
<1>4. /\ RoleTypes' /\ LogTypes' /\ LeaderTypes' /\ disk' \in [Server -> Disk]
      /\ ServiceTypes' /\ restarts' \in Nat /\ InstallIsCurrent'
  BY DEF SendSnapshot, roleVars, logVars, leaderVars, serviceVars, RoleTypes, LogTypes,
         LeaderTypes, ServiceTypes, InstallIsCurrent
<1> QED BY <1>2, <1>3, <1>4

LEMMA InstallSnapshotTypes ==
    ASSUME TypeInv, NEW j \in Server, NEW m \in snapReqs, InstallSnapshot(j, m)
    PROVE  TypeInv'
<1> USE DEF TypeInv, TypeOK
<1>1. /\ m \in SnapshotRequest /\ m.term \in Nat /\ m.lastIncludedIndex \in Nat
      /\ m.lastIncludedTerm \in Nat /\ m.data \in Seq(AppliedEntry)
  BY DEF NetTypes, SnapshotRequest
<1>2. NetTypes'
  <2>1. currentTerm[j] \in Nat
    BY DEF RoleTypes
  <2> QED BY <1>1, <2>1 DEF InstallSnapshot, voteNet, NetTypes, SnapshotReply
<1>3. /\ LeaderTypes' /\ CallTypes' /\ restarts' \in Nat
      /\ batch' \in [Server -> Seq([index : Nat, entry : Entry])]
      /\ applied' \in [Server -> Seq(AppliedEntry)]
  BY DEF InstallSnapshot, leaderVars, callVars, LeaderTypes, CallTypes, ServiceTypes
<1>4. ASSUME DemoteBySnapshot(j, m) PROVE RoleTypes'
  <2>1. CASE Demoted(j, m)
    BY <1>1, <1>4, <2>1, FollowTypes DEF DemoteBySnapshot
  <2>2. CASE ~Demoted(j, m)
    BY <1>4, <2>2 DEF DemoteBySnapshot, roleVars, RoleTypes
  <2> QED BY <2>1, <2>2
<1>5. CASE m.term < currentTerm[j] /\ UNCHANGED <<roleVars, logVars, disk, svc>>
  <2>1. RoleTypes' /\ LogTypes' /\ disk' \in [Server -> Disk] /\ InstallIsCurrent'
    BY <1>5 DEF roleVars, logVars, RoleTypes, LogTypes, InstallIsCurrent
  <2>2. ServiceTypes'
    BY <1>3, <1>5 DEF ServiceTypes
  <2> QED BY <1>2, <1>3, <2>1, <2>2
<1>6. CASE /\ DemoteBySnapshot(j, m)
           /\ UNCHANGED <<logVars, svc>>
           /\ IF Demoted(j, m) THEN Persist(j) ELSE UNCHANGED disk
  <2>1. LogTypes' /\ InstallIsCurrent'
    BY <1>6 DEF logVars, LogTypes, InstallIsCurrent
  <2>2. disk' \in [Server -> Disk]
    BY <1>4, <1>6, <2>1, PersistSameSnapshot
  <2>3. ServiceTypes'
    BY <1>3, <1>6 DEF ServiceTypes
  <2> QED BY <1>2, <1>3, <1>4, <1>6, <2>1, <2>2, <2>3
<1>7. CASE /\ lastSnapshotIndex[j] < m.lastIncludedIndex
           /\ DemoteBySnapshot(j, m)
           /\ InstallState(j, m.lastIncludedIndex, m.lastIncludedTerm, m.data)
           /\ svc' = [svc EXCEPT ![j] =
                       [op |-> "install", index |-> m.lastIncludedIndex,
                        term |-> m.lastIncludedTerm, data |-> m.data]]
  <2>1. lastSnapshotIndex[j] <= m.lastIncludedIndex
    BY <1>1, <1>7 DEF LogTypes
  <2>2. LogTypes' /\ disk' \in [Server -> Disk] /\ lastSnapshotIndex'[j] = m.lastIncludedIndex
    BY <1>1, <1>4, <1>7, <2>1, InstallStateTypes
  <2>3. ServiceTypes'
    <3>1. [op |-> "install", index |-> m.lastIncludedIndex,
           term |-> m.lastIncludedTerm, data |-> m.data] \in ServiceCall
      BY <1>1 DEF ServiceCall
    <3> QED BY <1>3, <1>7, <3>1 DEF ServiceTypes
  <2>4. InstallIsCurrent'
    <3>1. lastSnapshotIndex' = [lastSnapshotIndex EXCEPT ![j] = m.lastIncludedIndex]
      BY <1>7 DEF InstallState
    <3> QED BY <1>7, <3>1 DEF InstallIsCurrent, ServiceTypes, LogTypes
  <2> QED BY <1>2, <1>3, <1>4, <1>7, <2>2, <2>3, <2>4
<1> QED BY <1>5, <1>6, <1>7 DEF InstallSnapshot

LEMMA HandleSnapshotReplyTypes ==
    ASSUME TypeInv, NEW i \in Server, NEW r \in snapReplies, HandleSnapshotReply(i, r)
    PROVE  TypeInv'
<1> USE DEF TypeInv, TypeOK
<1>1. /\ r.term \in Nat /\ r.request.to \in Server /\ r.request.lastIncludedIndex \in Nat
  BY DEF NetTypes, SnapshotReply, SnapshotRequest
<1>2. CallTypes' /\ ServiceTypes' /\ NetTypes' /\ restarts' \in Nat /\ svc' = svc
  BY DEF HandleSnapshotReply, callVars, serviceVars, voteNet, snapNet, CallTypes,
         ServiceTypes, NetTypes
<1>3. CASE r.term > currentTerm[i]
  <2>1. RoleTypes'
    BY <1>1, <1>3, FollowTypes DEF HandleSnapshotReply
  <2>2. LogTypes' /\ LeaderTypes' /\ InstallIsCurrent'
    BY <1>2, <1>3 DEF HandleSnapshotReply, logVars, leaderVars, LogTypes, LeaderTypes,
                      InstallIsCurrent
  <2>3. disk' \in [Server -> Disk]
    BY <1>3, <2>1, <2>2, PersistSameSnapshot DEF HandleSnapshotReply
  <2> QED BY <1>2, <2>1, <2>2, <2>3
<1>4. CASE ~(r.term > currentTerm[i])
  <2>1. RoleTypes' /\ LogTypes' /\ disk' \in [Server -> Disk] /\ InstallIsCurrent'
    BY <1>2, <1>4 DEF HandleSnapshotReply, roleVars, logVars, RoleTypes, LogTypes,
                      InstallIsCurrent
  <2>2. LeaderTypes'
    <3> DEFINE j == r.request.to
               k == r.request.lastIncludedIndex
               match == IF k > matchIndex[i][j] THEN k ELSE matchIndex[i][j]
               next == IF k + 1 > nextIndex[i][j] THEN k + 1 ELSE nextIndex[i][j]
    <3>1. matchIndex[i][j] \in Nat /\ nextIndex[i][j] \in Nat
      BY <1>1 DEF LeaderTypes
    <3>2. match \in Nat /\ next \in Nat
      BY <1>1, <3>1
    <3>3. /\ matchIndex' = [matchIndex EXCEPT ![i][j] = match]
          /\ nextIndex' = [nextIndex EXCEPT ![i][j] = next]
      BY <1>1, <1>4 DEF HandleSnapshotReply, LeaderTypes
    <3> HIDE DEF match, next
    <3> QED BY <1>1, <3>2, <3>3 DEF LeaderTypes
  <2> QED BY <1>2, <2>1, <2>2
<1> QED BY <1>3, <1>4

LEMMA FunctionIsSeq ==
    ASSUME NEW S, NEW n \in Nat, NEW f \in [1..n -> S]
    PROVE  f \in Seq(S)
  BY SeqDef

\* What config.go encodes of its map is a sequence of commands and holes.
LEMMA PrefixType ==
    ASSUME NEW map \in Seq(AppliedEntry), NEW index \in Nat
    PROVE  Prefix(map, index) \in Seq(AppliedEntry)
<1>1. \A k \in 1..index : k <= Len(map) => map[k] \in AppliedEntry
  BY ElementOfSeq, LenProperties
<1>2. NoEntry \in AppliedEntry
  BY DEF AppliedEntry
<1>3. Prefix(map, index) \in [1..index -> AppliedEntry]
  BY <1>1, <1>2 DEF Prefix
<1> QED BY <1>3, FunctionIsSeq

LEMMA RecordType ==
    ASSUME NEW map \in Seq(AppliedEntry), NEW index \in Nat, NEW entry \in AppliedEntry
    PROVE  Record(map, index, entry) \in Seq(AppliedEntry)
<1> DEFINE size == IF index > Len(map) THEN index ELSE Len(map)
<1>1. size \in Nat
  BY LenProperties
<1>2. \A k \in 1..size : k <= Len(map) => map[k] \in AppliedEntry
  BY ElementOfSeq, LenProperties, <1>1
<1>3. NoEntry \in AppliedEntry
  BY DEF AppliedEntry
<1>4. Record(map, index, entry) \in [1..size -> AppliedEntry]
  <2> HIDE DEF size
  <2>1. \A k \in 1..size : (IF k = index THEN entry
                            ELSE IF k <= Len(map) THEN map[k] ELSE NoEntry) \in AppliedEntry
    BY <1>2, <1>3
  <2>2. Record(map, index, entry) =
          [k \in 1..size |-> IF k = index THEN entry
                             ELSE IF k <= Len(map) THEN map[k] ELSE NoEntry]
    BY DEF Record, size
  <2> QED BY <2>1, <2>2
<1> QED BY <1>1, <1>4, FunctionIsSeq

LEMMA SnapshotTypes ==
    ASSUME TypeInv, NEW i \in Server, Snapshot(i)
    PROVE  TypeInv'
<1> USE DEF TypeInv, TypeOK
<1> DEFINE index == svc[i].index
<1>1. index \in Nat
  <2>1. svc[i] \in ServiceCall /\ svc[i].op = "snapshot"
    BY DEF ServiceTypes, Snapshot
  <2> QED BY <2>1 DEF ServiceCall, Idle
<1>2. /\ LeaderTypes' /\ CallTypes' /\ NetTypes' /\ restarts' \in Nat
      /\ ServiceTypes'
  BY DEF Snapshot, leaderVars, callVars, voteNet, snapNet, LeaderTypes, CallTypes,
         NetTypes, ServiceTypes, ServiceCall, Idle
<1>3. svc' = [svc EXCEPT ![i] = Idle] /\ Idle.op # "install"
  BY DEF Snapshot, Idle
<1>4. CASE lastSnapshotIndex[i] >= index
  <2>1. UNCHANGED <<roleVars, logVars, disk>>
    BY <1>4 DEF Snapshot
  <2>2. RoleTypes' /\ LogTypes' /\ disk' \in [Server -> Disk] /\ InstallIsCurrent'
    BY <1>3, <2>1 DEF roleVars, logVars, RoleTypes, LogTypes, InstallIsCurrent, ServiceTypes
  <2> QED BY <1>2, <2>2
<1>5. CASE ~(lastSnapshotIndex[i] >= index)
  <2>1. /\ index <= LastLogIndex(i)
        /\ logs' = [logs EXCEPT ![i] = LogAfter(i, index)]
        /\ lastSnapshotTerm' = [lastSnapshotTerm EXCEPT ![i] = TermAt(i, index)]
        /\ lastSnapshotIndex' = [lastSnapshotIndex EXCEPT ![i] = index]
        /\ UNCHANGED <<roleVars, commitIndex, lastApplied>>
        /\ PersistWith(i, Prefix(applied[i], index))
    BY <1>5 DEF Snapshot
  <2>2. RoleTypes'
    BY <2>1 DEF roleVars, RoleTypes
  <2>3. LogTypes'
    <3>1. lastSnapshotIndex[i] < index + 1 /\ InLog(i, index) /\ index + 1 \in Nat
      BY <1>1, <1>5, <2>1 DEF LogTypes, InLog
    <3>2. LogAfter(i, index) \in Seq(Entry) /\ TermAt(i, index) \in Nat
      <4> HIDE DEF index
      <4> QED BY <1>1, <3>1, LogFacts DEF LogAfter
    <3> HIDE DEF index
    <3> QED BY <1>1, <2>1, <3>2 DEF LogTypes
  <2>4. disk' \in [Server -> Disk]
    <3>1. Prefix(applied[i], index) \in Seq(AppliedEntry)
      BY <1>1, PrefixType DEF ServiceTypes
    <3> QED BY <2>1, <2>2, <2>3, <3>1, PersistTypes
  <2>5. InstallIsCurrent'
    <3> HIDE DEF index
    <3> QED BY <1>3, <2>1 DEF InstallIsCurrent, ServiceTypes, LogTypes
  <2> QED BY <1>2, <2>2, <2>3, <2>4, <2>5
<1> QED BY <1>4, <1>5

LEMMA CondInstallSnapshotTypes ==
    ASSUME TypeInv, NEW i \in Server, CondInstallSnapshot(i)
    PROVE  TypeInv'
<1> USE DEF TypeInv, TypeOK
<1>1. /\ svc[i].index \in Nat /\ svc[i].term \in Nat /\ svc[i].data \in Seq(AppliedEntry)
      /\ svc[i].index = lastSnapshotIndex[i]
  <2>1. svc[i] \in ServiceCall /\ svc[i].op = "install"
    BY DEF ServiceTypes, CondInstallSnapshot
  <2> QED BY <2>1 DEF ServiceCall, Idle, InstallIsCurrent
<1>2. /\ LeaderTypes' /\ CallTypes' /\ NetTypes' /\ restarts' \in Nat /\ RoleTypes'
  BY DEF CondInstallSnapshot, leaderVars, callVars, voteNet, snapNet, roleVars,
         LeaderTypes, CallTypes, NetTypes, RoleTypes
<1>3. ServiceTypes'
  BY <1>1 DEF CondInstallSnapshot, ServiceTypes, ServiceCall, Idle
<1>4. LogTypes' /\ disk' \in [Server -> Disk]
  <2>1. InstallState(i, svc[i].index, svc[i].term, svc[i].data)
    BY DEF CondInstallSnapshot
  <2>2. lastSnapshotIndex[i] <= svc[i].index
    BY <1>1
  <2> QED BY <1>1, <1>2, <2>1, <2>2, InstallStateTypes
<1>5. InstallIsCurrent'
  BY <1>1 DEF CondInstallSnapshot, InstallState, InstallIsCurrent, ServiceTypes, LogTypes, Idle
<1> QED BY <1>2, <1>3, <1>4, <1>5

LEMMA StartApplyLogsTypes ==
    ASSUME TypeInv, NEW i \in Server, StartApplyLogs(i)
    PROVE  TypeInv'
<1> USE DEF TypeInv, TypeOK
<1>1. /\ RoleTypes' /\ LeaderTypes' /\ CallTypes' /\ NetTypes' /\ restarts' \in Nat
      /\ applied' \in [Server -> Seq(AppliedEntry)] /\ svc' = svc
  BY DEF StartApplyLogs, roleVars, leaderVars, callVars, voteNet, snapNet, RoleTypes,
         LeaderTypes, CallTypes, NetTypes, ServiceTypes
<1>2. /\ lastSnapshotIndex[i] \in Nat /\ lastSnapshotTerm[i] \in Nat
      /\ lastApplied[i] \in Nat /\ commitIndex[i] \in Nat
      /\ disk[i].snapshot \in Seq(AppliedEntry)
  BY DEF LogTypes, Disk
<1>3. CASE /\ InstallState(i, lastSnapshotIndex[i], lastSnapshotTerm[i], disk[i].snapshot)
           /\ UNCHANGED batch
  <2>1. LogTypes' /\ disk' \in [Server -> Disk] /\ lastSnapshotIndex'[i] = lastSnapshotIndex[i]
    BY <1>1, <1>2, <1>3, InstallStateTypes
  <2>2. ServiceTypes' /\ InstallIsCurrent'
    BY <1>1, <1>3 DEF InstallState, ServiceTypes, InstallIsCurrent, LogTypes
  <2> QED BY <1>1, <2>1, <2>2
<1>4. CASE /\ lastSnapshotIndex[i] <= lastApplied[i] /\ lastApplied[i] < commitIndex[i]
           /\ commitIndex[i] <= LastLogIndex(i)
           /\ batch' = [batch EXCEPT ![i] =
                         [n \in 1..(commitIndex[i] - lastApplied[i]) |->
                            [index |-> lastApplied[i] + n,
                             entry |-> EntryAt(i, lastApplied[i] + n)]]]
           /\ UNCHANGED <<logVars, disk>>
  <2>1. LogTypes' /\ disk' \in [Server -> Disk] /\ InstallIsCurrent'
    BY <1>1, <1>4 DEF logVars, LogTypes, InstallIsCurrent
  <2> DEFINE size == commitIndex[i] - lastApplied[i]
             messages == [n \in 1..size |-> [index |-> lastApplied[i] + n,
                                             entry |-> EntryAt(i, lastApplied[i] + n)]]
  <2>2. size \in Nat
    BY <1>2, <1>4
  <2>3. \A n \in 1..size : EntryAt(i, lastApplied[i] + n) \in Entry
    <3> TAKE n \in 1..size
    <3>1. /\ lastApplied[i] + n \in Nat /\ lastSnapshotIndex[i] < lastApplied[i] + n
          /\ lastApplied[i] + n <= LastLogIndex(i)
      BY <1>2, <1>4, LogFacts
    <3> QED BY <3>1, LogFacts
  <2>4. messages \in [1..size -> [index : Nat, entry : Entry]]
    <3> HIDE DEF size
    <3> QED BY <1>2, <2>2, <2>3
  <2>5. messages \in Seq([index : Nat, entry : Entry])
    <3> HIDE DEF size, messages
    <3> QED BY <2>2, <2>4, FunctionIsSeq
  <2>6. batch' = [batch EXCEPT ![i] = messages]
    BY <1>4
  <2>7. ServiceTypes'
    <3> HIDE DEF messages
    <3> QED BY <1>1, <2>5, <2>6 DEF ServiceTypes
  <2> QED BY <1>1, <2>1, <2>7
<1> QED BY <1>3, <1>4 DEF StartApplyLogs

LEMMA ApplyOneTypes ==
    ASSUME TypeInv, NEW i \in Server, ApplyOne(i)
    PROVE  TypeInv'
<1> USE DEF TypeInv, TypeOK
<1> DEFINE m == Head(batch[i])
<1>1. /\ batch[i] \in Seq([index : Nat, entry : Entry]) /\ batch[i] # <<>>
      /\ applied[i] \in Seq(AppliedEntry)
  BY DEF ServiceTypes, ApplyOne
<1>2. m \in [index : Nat, entry : Entry] /\ Tail(batch[i]) \in Seq([index : Nat, entry : Entry])
  BY <1>1, HeadTailProperties
<1>3. m.index \in Nat /\ m.entry \in AppliedEntry
  BY <1>2 DEF AppliedEntry
<1>4. Record(applied[i], m.index, m.entry) \in Seq(AppliedEntry)
  BY <1>1, <1>3, RecordType
<1>5. /\ applied' = [applied EXCEPT ![i] = Record(@, m.index, m.entry)]
      /\ lastApplied' = [lastApplied EXCEPT ![i] = m.index]
      /\ batch' = [batch EXCEPT ![i] = Tail(@)]
      /\ \/ svc' = [svc EXCEPT ![i] = [op |-> "snapshot", index |-> m.index]]
         \/ svc' = [svc EXCEPT ![i] = Idle]
      /\ UNCHANGED <<logs, lastSnapshotIndex, lastSnapshotTerm, commitIndex>>
  BY DEF ApplyOne
<1>6. /\ RoleTypes' /\ LeaderTypes' /\ CallTypes' /\ NetTypes' /\ restarts' \in Nat
      /\ disk' \in [Server -> Disk]
  BY DEF ApplyOne, roleVars, leaderVars, callVars, voteNet, snapNet, RoleTypes,
         LeaderTypes, CallTypes, NetTypes
<1> HIDE DEF m
<1>7. LogTypes'
  BY <1>3, <1>5 DEF LogTypes
<1>8. ServiceTypes'
  <2>1. Idle \in ServiceCall /\ [op |-> "snapshot", index |-> m.index] \in ServiceCall
    BY <1>3 DEF ServiceCall
  <2> QED BY <1>2, <1>4, <1>5, <2>1 DEF ServiceTypes
<1>9. InstallIsCurrent'
  <2>1. svc'[i].op # "install"
    BY <1>5 DEF ServiceTypes, Idle
  <2>2. \A s \in Server \ {i} : svc'[s] = svc[s]
    BY <1>5 DEF ServiceTypes
  <2> QED BY <1>5, <2>1, <2>2 DEF InstallIsCurrent
<1> QED BY <1>6, <1>7, <1>8, <1>9

LEMMA RestartTypes ==
    ASSUME TypeInv, NEW i \in Server, Restart(i)
    PROVE  TypeInv'
<1> USE DEF TypeInv, TypeOK
<1>1. disk[i] \in Disk
  OBVIOUS
<1>2. RoleTypes'
  BY <1>1 DEF Restart, ReadPersist, RoleTypes, Role, Disk
<1>3. LogTypes'
  BY <1>1 DEF Restart, ReadPersist, LogTypes, Disk
<1>4. LeaderTypes'
  BY DEF Restart, LeaderTypes
<1>5. CallTypes'
  BY DEF Restart, CallTypes, Call, NoElection
<1>6. ServiceTypes'
  <2>1. <<>> \in Seq([index : Nat, entry : Entry]) /\ Idle \in ServiceCall
    BY EmptySeq DEF ServiceCall
  <2>2. (IF disk[i].snapshot = <<>> THEN applied[i] ELSE disk[i].snapshot)
          \in Seq(AppliedEntry)
    BY <1>1 DEF ServiceTypes, Disk
  <2>3. /\ batch' = [batch EXCEPT ![i] = <<>>]
        /\ svc' = [svc EXCEPT ![i] = Idle]
        /\ applied' = [applied EXCEPT ![i] = IF disk[i].snapshot = <<>> THEN applied[i]
                                             ELSE disk[i].snapshot]
    BY DEF Restart
  <2> QED BY <2>1, <2>2, <2>3 DEF ServiceTypes
<1>7. InstallIsCurrent'
  BY DEF Restart, ReadPersist, InstallIsCurrent, ServiceTypes, LogTypes, Idle
<1>8. NetTypes' /\ disk' \in [Server -> Disk] /\ restarts' \in Nat
  BY DEF Restart, voteNet, snapNet, NetTypes
<1> QED BY <1>2, <1>3, <1>4, <1>5, <1>6, <1>7, <1>8

\* Every step of every peer, its service and the network keeps the types, and with them
\* every slice bound the code relies on in InstallSnapshot and CondInstallSnapshot.
LEMMA TypeStep == TypeInv /\ [Next]_vars => TypeInv'
<1> SUFFICES ASSUME TypeInv, [Next]_vars PROVE TypeInv'
  OBVIOUS
<1>1. CASE UNCHANGED vars
  <2>1. /\ RoleTypes' /\ LogTypes' /\ LeaderTypes'
    BY <1>1 DEF vars, roleVars, logVars, leaderVars, TypeInv, TypeOK, RoleTypes, LogTypes,
                LeaderTypes
  <2>2. /\ CallTypes' /\ ServiceTypes' /\ InstallIsCurrent'
    BY <1>1 DEF vars, callVars, serviceVars, logVars, TypeInv, TypeOK, CallTypes,
                ServiceTypes, InstallIsCurrent
  <2>3. NetTypes' /\ disk' \in [Server -> Disk] /\ restarts' \in Nat
    BY <1>1 DEF vars, voteNet, snapNet, TypeInv, TypeOK, NetTypes
  <2> QED BY <2>1, <2>2, <2>3 DEF TypeInv, TypeOK
<1>2. CASE Next
  BY <1>2, StartElectionTypes, RequestVoteTypes, CollectVoteTypes, AbandonElectionTypes,
     StartTypes, SendAppendEntriesTypes, AppendEntriesTypes, HandleAppendReplyTypes,
     SendSnapshotTypes, InstallSnapshotTypes, HandleSnapshotReplyTypes, SnapshotTypes,
     CondInstallSnapshotTypes, StartApplyLogsTypes, ApplyOneTypes, RestartTypes DEF Next
<1> QED BY <1>1, <1>2

LEMMA TypeInvariant == Spec => []TypeInv
<1>1. Init => TypeInv
  BY InitTypes
<1>2. TypeInv /\ [Next]_vars => TypeInv'
  BY TypeStep
<1> QED BY <1>1, <1>2, PTL DEF Spec

\* In every behaviour the state keeps the shape of the code's structs, whatever the
\* number of servers and the bounds: an index that is negative or a log with a hole
\* would not be of that shape.
THEOREM TypeCorrect == Spec => []TypeOK
<1>1. TypeInv => TypeOK
  BY DEF TypeInv
<1> QED BY <1>1, TypeInvariant, PTL

-----------------------------------------------------------------------------
(* Votes: the inductive invariant *)

\* The network holds a vote of s for i in term t.
Voted(s, i, t) ==
    \E r \in voteReplies :
        r.granted /\ r.from = s /\ r.request.candidateId = i /\ r.request.term = t

\* A candidate or a leader has voted for itself.
VotedForSelf == \A i \in Server : role[i] # "Follower" => votedFor[i] = i

\* What a restart would read back is the term and the vote a peer has.
VoteOnDisk ==
    \A i \in Server : disk[i].currentTerm = currentTerm[i] /\ disk[i].votedFor = votedFor[i]

\* A granted vote is that of its server, unless the server has gone on to a newer term.
VotesStand ==
    \A r \in voteReplies : r.granted =>
        /\ r.from # r.request.candidateId
        /\ \/ currentTerm[r.from] > r.request.term
           \/ /\ currentTerm[r.from] = r.request.term
              /\ votedFor[r.from] = r.request.candidateId

\* The votes an election has counted were cast.
VotesCounted ==
    \A i \in Server : \A s \in election[i].granted \ {i} : Voted(s, i, election[i].term)

\* A leader has the votes of a majority, its own among them.
Elected(i, t) ==
    \E Q \in SUBSET Server : IsMajority(Q) /\ \A s \in Q \ {i} : Voted(s, i, t)
LeadersElected == \A i \in Server : role[i] = "Leader" => Elected(i, currentTerm[i])

ElectionInv ==
    /\ VotedForSelf /\ VoteOnDisk /\ VotesStand /\ VoteOnce
    /\ VotesCounted /\ LeadersElected

-----------------------------------------------------------------------------
(* What every step does to the votes *)

\* Terms never go back, and within a term a vote for another server stays.
VotesKept ==
    \A i \in Server :
        /\ currentTerm'[i] >= currentTerm[i]
        /\ currentTerm'[i] = currentTerm[i] /\ votedFor[i] \notin {Nil, i}
             => votedFor'[i] = votedFor[i]

\* A vote that a step casts is the one the voter has just recorded.
NewVotesRecorded ==
    /\ voteReplies \subseteq voteReplies'
    /\ \A r \in voteReplies' \ voteReplies : r.granted =>
         /\ r.from # r.request.candidateId
         /\ currentTerm'[r.from] = r.request.term
         /\ votedFor'[r.from] = r.request.candidateId

\* Counted votes and new leaders rest on votes that were there before the step.
CountedBefore ==
    /\ \A i \in Server : \A s \in election'[i].granted \ {i} : Voted(s, i, election'[i].term)
    /\ \A i \in Server : role'[i] = "Leader" => Elected(i, currentTerm'[i])

VoteStep == VotesKept /\ NewVotesRecorded /\ CountedBefore /\ VotedForSelf' /\ VoteOnDisk'

\* Votes on the network stay there.
LEMMA VotedStays ==
    ASSUME NewVotesRecorded, NEW s, NEW i, NEW t, Voted(s, i, t)
    PROVE  Voted(s, i, t)'
  BY DEF NewVotesRecorded, Voted

LEMMA VoteStepKeepsInv ==
    ASSUME TypeInv, TypeInv', ElectionInv, VoteStep
    PROVE  ElectionInv'
<1>1. VotedForSelf' /\ VoteOnDisk'
  BY DEF VoteStep
<1>2. /\ currentTerm \in [Server -> Nat] /\ currentTerm' \in [Server -> Nat]
      /\ voteReplies \subseteq VoteReply /\ voteReplies' \subseteq VoteReply
  BY DEF TypeInv, TypeOK, RoleTypes, NetTypes
<1>3. \A r \in voteReplies' : /\ r.from \in Server /\ r.request.term \in Nat
                              /\ r.request.candidateId \in Server
  BY <1>2 DEF VoteReply, VoteRequest
<1>4. ASSUME NEW r \in voteReplies', r.granted
      PROVE  /\ r.from # r.request.candidateId
             /\ \/ currentTerm'[r.from] > r.request.term
                \/ /\ currentTerm'[r.from] = r.request.term
                   /\ votedFor'[r.from] = r.request.candidateId
  <2>1. CASE r \in voteReplies
    <3>1. /\ r.from # r.request.candidateId
          /\ \/ currentTerm[r.from] > r.request.term
             \/ /\ currentTerm[r.from] = r.request.term
                /\ votedFor[r.from] = r.request.candidateId
      BY <1>4, <2>1 DEF ElectionInv, VotesStand
    <3>2. /\ currentTerm'[r.from] >= currentTerm[r.from]
          /\ currentTerm'[r.from] = currentTerm[r.from] /\ votedFor[r.from] \notin {Nil, r.from}
               => votedFor'[r.from] = votedFor[r.from]
      BY <1>3 DEF VoteStep, VotesKept
    <3>3. r.request.candidateId # Nil
      BY <1>3, NilAssumption
    <3>4. currentTerm[r.from] \in Nat /\ currentTerm'[r.from] \in Nat /\ r.request.term \in Nat
      BY <1>2, <1>3
    <3> QED BY <3>1, <3>2, <3>3, <3>4
  <2>2. CASE r \notin voteReplies
    BY <1>4, <2>2 DEF VoteStep, NewVotesRecorded
  <2> QED BY <2>1, <2>2
<1>5. VotesStand'
  BY <1>4 DEF VotesStand
<1>6. VoteOnce'
  <2> SUFFICES ASSUME NEW r1 \in voteReplies', NEW r2 \in voteReplies',
                      r1.granted, r2.granted, r1.from = r2.from,
                      r1.request.term = r2.request.term
               PROVE  r1.request.candidateId = r2.request.candidateId
    BY DEF VoteOnce
  <2>1. CASE r1 \in voteReplies /\ r2 \in voteReplies
    BY <2>1 DEF ElectionInv, VoteOnce
  <2>2. ASSUME NEW new \in voteReplies' \ voteReplies, NEW old \in voteReplies',
               new.granted, old.granted, new.from = old.from,
               new.request.term = old.request.term
        PROVE  new.request.candidateId = old.request.candidateId
    <3>1. /\ currentTerm'[new.from] = new.request.term
          /\ votedFor'[new.from] = new.request.candidateId
      BY <2>2 DEF VoteStep, NewVotesRecorded
    <3>2. \/ currentTerm'[new.from] > new.request.term
          \/ votedFor'[new.from] = old.request.candidateId
      BY <1>4, <2>2
    <3>3. new.request.term \in Nat
      BY <1>3, <2>2
    <3> QED BY <3>1, <3>2, <3>3
  <2> QED BY <2>1, <2>2
<1>7. VotesCounted'
  BY VotedStays DEF VoteStep, CountedBefore, VotesCounted
<1>8. LeadersElected'
  <2> SUFFICES ASSUME NEW i \in Server, role'[i] = "Leader"
               PROVE  \E Q \in SUBSET Server :
                        IsMajority(Q) /\ \A s \in Q \ {i} : Voted(s, i, currentTerm[i])'
    BY DEF LeadersElected, Elected
  <2>1. PICK Q \in SUBSET Server :
          IsMajority(Q) /\ \A s \in Q \ {i} : Voted(s, i, currentTerm'[i])
    BY DEF VoteStep, CountedBefore, Elected
  <2>2. \A s \in Q \ {i} : Voted(s, i, currentTerm[i])'
    BY <2>1 DEF VoteStep, NewVotesRecorded, Voted
  <2> QED BY <2>1, <2>2
<1> QED BY <1>1, <1>5, <1>6, <1>7, <1>8 DEF ElectionInv

-----------------------------------------------------------------------------
(* The kinds of steps *)

\* persist() after a change of one peer's term or vote puts both on its disk.
LEMMA PersistVote ==
    ASSUME TypeInv, TypeInv', VoteOnDisk, NEW i \in Server, NEW data, PersistWith(i, data),
           \A s \in Server \ {i} : currentTerm'[s] = currentTerm[s] /\ votedFor'[s] = votedFor[s]
    PROVE  VoteOnDisk'
<1>1. DOMAIN disk = Server
  BY DEF TypeInv, TypeOK
<1> QED BY <1>1 DEF PersistWith, VoteOnDisk

\* A step that touches neither roles nor votes.
LEMMA QuietStep ==
    ASSUME TypeInv, ElectionInv, UNCHANGED <<roleVars, election, voteReplies>>, VoteOnDisk'
    PROVE  VoteStep
<1> USE DEF ElectionInv, roleVars
<1>1. VotesKept
  BY DEF VotesKept, TypeInv, TypeOK, RoleTypes
<1>2. NewVotesRecorded
  BY DEF NewVotesRecorded
<1>3. CountedBefore
  BY DEF CountedBefore, VotesCounted, LeadersElected
<1>4. VotedForSelf'
  BY DEF VotedForSelf
<1> QED BY <1>1, <1>2, <1>3, <1>4 DEF VoteStep

\* A step by which peer i follows: its vote stays, or goes because the term is newer or
\* because the vote was its own candidacy.
LEMMA FollowStep ==
    ASSUME TypeInv, ElectionInv, UNCHANGED <<election, voteReplies>>, VoteOnDisk',
           NEW i \in Server, NEW term \in Nat, term >= currentTerm[i], Follow(i, term),
           \/ UNCHANGED votedFor
           \/ /\ votedFor' = [votedFor EXCEPT ![i] = Nil]
              /\ term > currentTerm[i] \/ role[i] # "Follower"
    PROVE  VoteStep
<1> USE DEF ElectionInv
<1>1. /\ role \in [Server -> Role] /\ currentTerm \in [Server -> Nat]
      /\ votedFor \in [Server -> Server \cup {Nil}]
  BY DEF TypeInv, TypeOK, RoleTypes
<1>2. /\ role'[i] = "Follower" /\ currentTerm'[i] = term
      /\ \A s \in Server \ {i} : /\ role'[s] = role[s] /\ currentTerm'[s] = currentTerm[s]
                                 /\ votedFor'[s] = votedFor[s]
  BY <1>1 DEF Follow
<1>3. VotesKept
  <2>1. currentTerm'[i] = currentTerm[i] /\ votedFor[i] \notin {Nil, i}
          => votedFor'[i] = votedFor[i]
    BY <1>1, <1>2 DEF VotedForSelf
  <2> QED BY <1>1, <1>2, <2>1 DEF VotesKept
<1>4. NewVotesRecorded
  BY DEF NewVotesRecorded
<1>5. CountedBefore
  BY <1>2 DEF CountedBefore, VotesCounted, LeadersElected
<1>6. VotedForSelf'
  BY <1>2 DEF VotedForSelf
<1> QED BY <1>3, <1>4, <1>5, <1>6 DEF VoteStep

-----------------------------------------------------------------------------
(* The actions *)

LEMMA StartElectionVotes ==
    ASSUME TypeInv, TypeInv', ElectionInv, NEW i \in Server, StartElection(i)
    PROVE  VoteStep
<1> USE DEF ElectionInv
<1>1. /\ role \in [Server -> Role] /\ currentTerm \in [Server -> Nat]
      /\ votedFor \in [Server -> Server \cup {Nil}]
      /\ election \in [Server -> [term : Nat, granted : SUBSET Server]]
  BY DEF TypeInv, TypeOK, RoleTypes, CallTypes
<1>2. /\ role' = [role EXCEPT ![i] = "Candidate"]
      /\ currentTerm' = [currentTerm EXCEPT ![i] = @ + 1]
      /\ votedFor' = [votedFor EXCEPT ![i] = i]
      /\ election' = [election EXCEPT ![i] = [term |-> currentTerm[i] + 1, granted |-> {i}]]
      /\ voteReplies' = voteReplies
      /\ PersistWith(i, disk[i].snapshot)
  BY DEF StartElection, Persist
<1>3. VotesKept
  BY <1>1, <1>2 DEF VotesKept
<1>4. NewVotesRecorded
  BY <1>2 DEF NewVotesRecorded
<1>5. CountedBefore
  <2>1. ASSUME NEW j \in Server, NEW s \in election'[j].granted \ {j}
        PROVE  Voted(s, j, election'[j].term)
    <3>1. j # i
      BY <1>1, <1>2, <2>1
    <3> QED BY <1>2, <2>1, <3>1 DEF VotesCounted
  <2>2. ASSUME NEW j \in Server, role'[j] = "Leader"
        PROVE  Elected(j, currentTerm'[j])
    <3>1. j # i
      BY <1>1, <1>2, <2>2
    <3> QED BY <1>2, <2>2, <3>1 DEF LeadersElected
  <2> QED BY <2>1, <2>2 DEF CountedBefore
<1>6. VotedForSelf'
  BY <1>1, <1>2 DEF VotedForSelf
<1>7. VoteOnDisk'
  BY <1>2, PersistVote
<1> QED BY <1>3, <1>4, <1>5, <1>6, <1>7 DEF VoteStep

\* A vote for a candidate other than the voter, recorded before it is answered.
LEMMA RequestVoteVotes ==
    ASSUME TypeInv, TypeInv', ElectionInv,
           NEW j \in Server, NEW m \in voteReqs, RequestVote(j, m)
    PROVE  VoteStep
<1> USE DEF ElectionInv
<1>1. /\ role \in [Server -> Role] /\ currentTerm \in [Server -> Nat]
      /\ votedFor \in [Server -> Server \cup {Nil}]
      /\ m.term \in Nat /\ m.candidateId \in Server /\ m.candidateId # j
  BY DEF TypeInv, TypeOK, RoleTypes, NetTypes, VoteRequest, RequestVote
<1>2. election' = election
  BY DEF RequestVote, callVars
<1>3. ASSUME NEW term, AnswerVote(j, m, term, FALSE)
      PROVE  /\ NewVotesRecorded
             /\ \A r \in voteReplies' \ voteReplies : ~r.granted
  BY <1>3 DEF AnswerVote, NewVotesRecorded
<1>4. ASSUME AnswerVote(j, m, m.term, TRUE),
             currentTerm'[j] = m.term, votedFor'[j] = m.candidateId
      PROVE  NewVotesRecorded
  BY <1>1, <1>4 DEF AnswerVote, NewVotesRecorded
<1>5. CASE RefuseVote(j, m) \/ RepeatVote(j, m)
  <2>1. UNCHANGED <<role, currentTerm, votedFor, disk>>
    BY <1>5 DEF RefuseVote, RepeatVote, roleVars
  <2>2. NewVotesRecorded
    <3>1. CASE RefuseVote(j, m)
      BY <1>3, <3>1 DEF RefuseVote
    <3>2. CASE RepeatVote(j, m)
      BY <1>4, <2>1, <3>2 DEF RepeatVote
    <3> QED BY <1>5, <3>1, <3>2
  <2>3. VotesKept
    BY <1>1, <2>1 DEF VotesKept
  <2>4. CountedBefore /\ VotedForSelf' /\ VoteOnDisk'
    BY <1>2, <2>1 DEF CountedBefore, VotesCounted, LeadersElected, VotedForSelf, VoteOnDisk
  <2> QED BY <2>2, <2>3, <2>4 DEF VoteStep
<1>6. ASSUME NEW vote \in Server \cup {Nil}, Follow(j, m.term),
             votedFor' = [votedFor EXCEPT ![j] = vote],
             m.term > currentTerm[j] \/ (m.term = currentTerm[j] /\ votedFor[j] = Nil),
             Persist(j), NewVotesRecorded
      PROVE  VoteStep
  <2>1. /\ role' = [role EXCEPT ![j] = "Follower"]
        /\ currentTerm' = [currentTerm EXCEPT ![j] = m.term]
    BY <1>6 DEF Follow
  <2>2. VotesKept
    BY <1>1, <1>6, <2>1 DEF VotesKept
  <2>3. CountedBefore
    BY <1>1, <1>2, <2>1 DEF CountedBefore, VotesCounted, LeadersElected
  <2>4. VotedForSelf'
    BY <1>1, <1>6, <2>1 DEF VotedForSelf
  <2>5. VoteOnDisk'
    BY <1>1, <1>6, <2>1, PersistVote DEF Persist
  <2> QED BY <1>6, <2>2, <2>3, <2>4, <2>5 DEF VoteStep
<1>7. CASE GrantVote(j, m)
  <2>1. /\ Follow(j, m.term) /\ votedFor' = [votedFor EXCEPT ![j] = m.candidateId]
        /\ m.term > currentTerm[j] \/ (m.term = currentTerm[j] /\ votedFor[j] = Nil)
        /\ AnswerVote(j, m, m.term, TRUE) /\ Persist(j)
    BY <1>7 DEF GrantVote
  <2>2. NewVotesRecorded
    BY <1>1, <1>4, <2>1 DEF Follow
  <2> QED BY <1>1, <1>6, <2>1, <2>2
<1>8. CASE AdoptTerm(j, m)
  BY <1>1, <1>3, <1>6, <1>8 DEF AdoptTerm
<1> QED BY <1>5, <1>7, <1>8 DEF RequestVote

\* The vote that makes the majority was cast, as were the ones counted before it.
LEMMA CollectVoteVotes ==
    ASSUME TypeInv, TypeInv', ElectionInv,
           NEW i \in Server, NEW r \in voteReplies, CollectVote(i, r)
    PROVE  VoteStep
<1> USE DEF ElectionInv
<1> DEFINE granted == election[i].granted \cup {r.from}
           won == IsMajority(granted)
           leads == won /\ StillCandidate(i)
<1>1. /\ role \in [Server -> Role] /\ currentTerm \in [Server -> Nat]
      /\ votedFor \in [Server -> Server \cup {Nil}]
      /\ election \in [Server -> [term : Nat, granted : SUBSET Server]]
      /\ r.from \in Server
  BY DEF TypeInv, TypeOK, RoleTypes, CallTypes, NetTypes, VoteReply
<1>2. /\ r.granted /\ r.request.candidateId = i /\ r.request.term = election[i].term
      /\ election' = [election EXCEPT ![i] =
                        IF won THEN NoElection ELSE [term |-> election[i].term, granted |-> granted]]
      /\ IF leads THEN BecomeLeader(i) ELSE UNCHANGED <<role, leaderVars>>
      /\ UNCHANGED <<currentTerm, votedFor, voteReplies>>
      /\ IF won THEN Persist(i) ELSE UNCHANGED disk
  BY DEF CollectVote, voteNet
<1>3. granted \in SUBSET Server /\ \A s \in granted \ {i} : Voted(s, i, election[i].term)
  BY <1>1, <1>2 DEF VotesCounted, Voted
<1> HIDE DEF granted
<1>4. VotesKept
  BY <1>1, <1>2 DEF VotesKept
<1>5. NewVotesRecorded
  BY <1>2 DEF NewVotesRecorded
<1>6. ASSUME NEW j \in Server, NEW s \in election'[j].granted \ {j}
      PROVE  Voted(s, j, election'[j].term)
  <2>1. CASE j # i
    BY <1>2, <1>6, <2>1 DEF VotesCounted
  <2>2. CASE j = i /\ won
    BY <1>1, <1>2, <1>6, <2>2 DEF NoElection
  <2>3. CASE j = i /\ ~won
    BY <1>1, <1>2, <1>3, <1>6, <2>3
  <2> QED BY <2>1, <2>2, <2>3
<1>7. ASSUME NEW j \in Server, role'[j] = "Leader"
      PROVE  Elected(j, currentTerm'[j])
  <2>1. CASE role[j] = "Leader"
    BY <1>2, <2>1 DEF LeadersElected
  <2>2. CASE role[j] # "Leader"
    <3>1. leads /\ BecomeLeader(i)
      BY <1>2, <1>7, <2>2
    <3>2. j = i /\ currentTerm'[j] = election[i].term
      BY <1>1, <1>2, <1>7, <2>2, <3>1 DEF BecomeLeader, StillCandidate
    <3> QED BY <1>3, <3>1, <3>2 DEF Elected
  <2> QED BY <2>1, <2>2
<1>8. VotedForSelf'
  <2>1. CASE leads
    BY <1>1, <1>2, <2>1 DEF BecomeLeader, StillCandidate, VotedForSelf
  <2>2. CASE ~leads
    BY <1>2, <2>2 DEF VotedForSelf
  <2> QED BY <2>1, <2>2
<1>9. VoteOnDisk'
  <2>1. CASE won
    BY <1>2, <2>1, PersistVote DEF Persist
  <2>2. CASE ~won
    BY <1>2, <2>2 DEF VoteOnDisk
  <2> QED BY <2>1, <2>2
<1> QED BY <1>4, <1>5, <1>6, <1>7, <1>8, <1>9 DEF VoteStep, CountedBefore

LEMMA AbandonElectionVotes ==
    ASSUME TypeInv, TypeInv', ElectionInv,
           NEW i \in Server, NEW r \in voteReplies, AbandonElection(i, r)
    PROVE  VoteStep
<1>1. /\ r.term \in Nat /\ r.term > currentTerm[i] /\ r.term >= currentTerm[i]
      /\ currentTerm \in [Server -> Nat]
  BY DEF TypeInv, TypeOK, RoleTypes, NetTypes, VoteReply, AbandonElection
<1>2. /\ Follow(i, r.term) /\ votedFor' = [votedFor EXCEPT ![i] = Nil] /\ Persist(i)
      /\ UNCHANGED <<election, voteReplies>>
  BY DEF AbandonElection, callVars, voteNet
<1>3. VoteOnDisk'
  BY <1>1, <1>2, PersistVote DEF Persist, Follow, ElectionInv, TypeInv, TypeOK, RoleTypes
<1> QED BY <1>1, <1>2, <1>3, FollowStep

LEMMA AppendEntriesVotes ==
    ASSUME TypeInv, TypeInv', ElectionInv,
           NEW j \in Server, NEW m \in aeReqs, AppendEntries(j, m)
    PROVE  VoteStep
<1>1. /\ m.term \in Nat /\ currentTerm \in [Server -> Nat]
      /\ UNCHANGED <<election, voteReplies>>
  BY DEF TypeInv, TypeOK, RoleTypes, NetTypes, AppendRequest, AppendEntries, voteNet
<1>2. CASE AppendStale(j, m)
  <2>1. UNCHANGED <<roleVars, disk>>
    BY <1>2 DEF AppendStale
  <2>2. VoteOnDisk'
    BY <2>1 DEF ElectionInv, VoteOnDisk, roleVars
  <2> QED BY <1>1, <2>1, <2>2, QuietStep
<1>3. CASE AppendAccepted(j, m) \/ AppendRefused(j, m)
  <2>1. Follow(j, m.term) /\ UNCHANGED votedFor /\ Persist(j) /\ m.term >= currentTerm[j]
    BY <1>3 DEF AppendAccepted, AppendRefused
  <2>2. VoteOnDisk'
    BY <1>1, <2>1, PersistVote DEF Persist, Follow, ElectionInv
  <2> QED BY <1>1, <2>1, <2>2, FollowStep
<1> QED BY <1>2, <1>3 DEF AppendEntries

LEMMA HandleAppendReplyVotes ==
    ASSUME TypeInv, TypeInv', ElectionInv,
           NEW i \in Server, NEW j \in Server, HandleAppendReply(i, j)
    PROVE  VoteStep
<1>1. /\ currentTerm \in [Server -> Nat] /\ UNCHANGED <<election, voteReplies>>
  BY DEF TypeInv, TypeOK, RoleTypes, HandleAppendReply, voteNet
<1>2. PICK reply \in aeCall[i][j].replies : \E r \in Observed(reply) :
        \/ StepDownOnAppend(i, j, r)
        \/ AppendAcknowledged(i, j, r)
        \/ AppendRejected(i, j, r)
  BY DEF HandleAppendReply
<1>3. PICK r \in Observed(reply) :
        \/ StepDownOnAppend(i, j, r)
        \/ AppendAcknowledged(i, j, r)
        \/ AppendRejected(i, j, r)
  BY <1>2
<1>4. CASE StepDownOnAppend(i, j, r)
  <2>1. r.term \in Nat
    BY <1>2, <1>3, ObservedType DEF HandleAppendReply, TypeInv, TypeOK
  <2>2. /\ Follow(i, r.term) /\ UNCHANGED votedFor /\ Persist(i)
        /\ r.term >= currentTerm[i]
    BY <1>1, <1>4, <2>1 DEF StepDownOnAppend
  <2>3. VoteOnDisk'
    BY <1>1, <2>2, PersistVote DEF Persist, Follow, ElectionInv
  <2> QED BY <1>1, <2>1, <2>2, <2>3, FollowStep
<1>5. CASE AppendAcknowledged(i, j, r)
  <2>1. UNCHANGED roleVars /\ Persist(i)
    BY <1>5 DEF AppendAcknowledged
  <2>2. VoteOnDisk'
    BY <2>1, PersistVote DEF Persist, roleVars, ElectionInv
  <2> QED BY <1>1, <2>1, <2>2, QuietStep
<1>6. CASE AppendRejected(i, j, r)
  <2>1. UNCHANGED <<roleVars, disk>>
    BY <1>6 DEF AppendRejected
  <2>2. VoteOnDisk'
    BY <2>1 DEF ElectionInv, VoteOnDisk, roleVars
  <2> QED BY <1>1, <2>1, <2>2, QuietStep
<1> QED BY <1>3, <1>4, <1>5, <1>6

\* The reset of votedFor in the peer's own term takes back nothing but its candidacy.
LEMMA InstallSnapshotVotes ==
    ASSUME TypeInv, TypeInv', ElectionInv,
           NEW j \in Server, NEW m \in snapReqs, InstallSnapshot(j, m)
    PROVE  VoteStep
<1>1. /\ m.term \in Nat /\ currentTerm \in [Server -> Nat]
      /\ votedFor \in [Server -> Server \cup {Nil}]
      /\ UNCHANGED <<election, voteReplies>>
  BY DEF TypeInv, TypeOK, RoleTypes, NetTypes, SnapshotRequest, InstallSnapshot, voteNet,
         callVars
<1>2. ASSUME UNCHANGED <<roleVars, disk>> PROVE VoteStep
  <2>1. VoteOnDisk'
    BY <1>2 DEF ElectionInv, VoteOnDisk, roleVars
  <2> QED BY <1>1, <1>2, <2>1, QuietStep
<1>3. ASSUME m.term >= currentTerm[j], DemoteBySnapshot(j, m), NEW data, PersistWith(j, data)
      PROVE  VoteStep
  <2>1. CASE Demoted(j, m)
    <3>1. /\ Follow(j, m.term) /\ votedFor' = [votedFor EXCEPT ![j] = Nil]
          /\ m.term > currentTerm[j] \/ role[j] # "Follower"
      BY <1>3, <2>1 DEF DemoteBySnapshot, Demoted
    <3>2. VoteOnDisk'
      BY <1>1, <1>3, <3>1, PersistVote DEF Follow, ElectionInv
    <3> QED BY <1>1, <1>3, <3>1, <3>2, FollowStep
  <2>2. CASE ~Demoted(j, m)
    <3>1. UNCHANGED roleVars
      BY <1>3, <2>2 DEF DemoteBySnapshot
    <3>2. VoteOnDisk'
      BY <1>3, <3>1, PersistVote DEF roleVars, ElectionInv
    <3> QED BY <1>1, <3>1, <3>2, QuietStep
  <2> QED BY <2>1, <2>2
<1>4. CASE m.term < currentTerm[j] /\ UNCHANGED <<roleVars, disk>>
  BY <1>2, <1>4
<1>5. CASE /\ m.term >= currentTerm[j] /\ DemoteBySnapshot(j, m)
           /\ IF Demoted(j, m) THEN Persist(j) ELSE UNCHANGED disk
  <2>1. CASE Demoted(j, m)
    BY <1>3, <1>5, <2>1 DEF Persist
  <2>2. CASE ~Demoted(j, m)
    BY <1>2, <1>5, <2>2 DEF DemoteBySnapshot
  <2> QED BY <2>1, <2>2
<1>6. CASE /\ m.term >= currentTerm[j] /\ DemoteBySnapshot(j, m)
           /\ InstallState(j, m.lastIncludedIndex, m.lastIncludedTerm, m.data)
  BY <1>3, <1>6 DEF InstallState
<1> QED BY <1>4, <1>5, <1>6 DEF InstallSnapshot

LEMMA HandleSnapshotReplyVotes ==
    ASSUME TypeInv, TypeInv', ElectionInv,
           NEW i \in Server, NEW r \in snapReplies, HandleSnapshotReply(i, r)
    PROVE  VoteStep
<1>1. /\ r.term \in Nat /\ currentTerm \in [Server -> Nat]
      /\ UNCHANGED <<election, voteReplies>>
  BY DEF TypeInv, TypeOK, RoleTypes, NetTypes, SnapshotReply, HandleSnapshotReply, voteNet,
         callVars
<1>2. CASE r.term > currentTerm[i]
  <2>1. /\ Follow(i, r.term) /\ UNCHANGED votedFor /\ Persist(i)
        /\ r.term >= currentTerm[i]
    BY <1>1, <1>2 DEF HandleSnapshotReply
  <2>2. VoteOnDisk'
    BY <1>1, <2>1, PersistVote DEF Persist, Follow, ElectionInv
  <2> QED BY <1>1, <2>1, <2>2, FollowStep
<1>3. CASE ~(r.term > currentTerm[i])
  <2>1. UNCHANGED <<roleVars, disk>>
    BY <1>3 DEF HandleSnapshotReply, logVars
  <2>2. VoteOnDisk'
    BY <2>1 DEF ElectionInv, VoteOnDisk, roleVars
  <2> QED BY <1>1, <2>1, <2>2, QuietStep
<1> QED BY <1>2, <1>3

\* The steps that leave every role, term and vote alone.
LEMMA LogActionVotes ==
    ASSUME TypeInv, TypeInv', ElectionInv, NEW i \in Server,
           \/ \E v \in Value : Start(i, v)
           \/ \E j \in Server : SendAppendEntries(i, j)
           \/ \E j \in Server : SendSnapshot(i, j)
           \/ Snapshot(i)
           \/ CondInstallSnapshot(i)
           \/ StartApplyLogs(i)
           \/ ApplyOne(i)
    PROVE  VoteStep
<1>1. UNCHANGED <<roleVars, election, voteReplies>>
  BY DEF Start, SendAppendEntries, SendSnapshot, Snapshot, CondInstallSnapshot,
         StartApplyLogs, ApplyOne, callVars, voteNet
<1>2. UNCHANGED disk \/ \E data : PersistWith(i, data)
  BY DEF Start, SendAppendEntries, SendSnapshot, Snapshot, CondInstallSnapshot,
         StartApplyLogs, ApplyOne, InstallState
<1>3. VoteOnDisk'
  <2>1. CASE UNCHANGED disk
    BY <1>1, <2>1 DEF ElectionInv, VoteOnDisk, roleVars
  <2>2. CASE \E data : PersistWith(i, data)
    BY <1>1, <2>2, PersistVote DEF ElectionInv, roleVars
  <2> QED BY <1>2, <2>1, <2>2
<1> QED BY <1>1, <1>3, QuietStep

\* readPersist restores the vote: nobody forgets one by crashing.
LEMMA RestartVotes ==
    ASSUME TypeInv, TypeInv', ElectionInv, NEW i \in Server, Restart(i)
    PROVE  VoteStep
<1> USE DEF ElectionInv
<1>1. /\ role \in [Server -> Role] /\ currentTerm \in [Server -> Nat]
      /\ votedFor \in [Server -> Server \cup {Nil}]
      /\ election \in [Server -> [term : Nat, granted : SUBSET Server]]
  BY DEF TypeInv, TypeOK, RoleTypes, CallTypes
<1>2. /\ role' = [role EXCEPT ![i] = "Follower"]
      /\ currentTerm' = currentTerm /\ votedFor' = votedFor
      /\ election' = [election EXCEPT ![i] = NoElection]
      /\ UNCHANGED <<disk, voteReplies>>
  BY <1>1 DEF Restart, ReadPersist, VoteOnDisk, voteNet
<1>3. VotesKept /\ NewVotesRecorded
  BY <1>1, <1>2 DEF VotesKept, NewVotesRecorded
<1>4. CountedBefore
  BY <1>1, <1>2 DEF CountedBefore, VotesCounted, LeadersElected, NoElection
<1>5. VotedForSelf' /\ VoteOnDisk'
  BY <1>1, <1>2 DEF VotedForSelf, VoteOnDisk
<1> QED BY <1>3, <1>4, <1>5 DEF VoteStep

-----------------------------------------------------------------------------
(* The theorems *)

LEMMA InitVotes == Init => ElectionInv
  BY DEF Init, ElectionInv, VotedForSelf, VoteOnDisk, VotesStand, VoteOnce, VotesCounted,
         LeadersElected, NoElection

\* Every step of every peer, and every step that is none, is a VoteStep.
LEMMA EveryStepVotes == TypeInv /\ TypeInv' /\ ElectionInv /\ [Next]_vars => VoteStep
<1> SUFFICES ASSUME TypeInv, TypeInv', ElectionInv, [Next]_vars PROVE VoteStep
  OBVIOUS
<1>1. CASE UNCHANGED vars
  <2>1. UNCHANGED <<roleVars, election, voteReplies, disk>>
    BY <1>1 DEF vars, callVars, voteNet
  <2>2. VoteOnDisk'
    BY <2>1 DEF ElectionInv, VoteOnDisk, roleVars
  <2> QED BY <2>1, <2>2, QuietStep
<1>2. CASE Next
  BY <1>2, StartElectionVotes, RequestVoteVotes, CollectVoteVotes, AbandonElectionVotes,
     AppendEntriesVotes, HandleAppendReplyVotes, InstallSnapshotVotes,
     HandleSnapshotReplyVotes, LogActionVotes, RestartVotes DEF Next
<1> QED BY <1>1, <1>2

LEMMA ElectionInvariant == Spec => []ElectionInv
<1>1. Init => ElectionInv
  BY InitVotes
<1>2. ElectionInv /\ TypeInv /\ TypeInv' /\ [Next]_vars => ElectionInv'
  BY EveryStepVotes, VoteStepKeepsInv
<1> QED BY <1>1, <1>2, TypeInvariant, PTL DEF Spec

\* No server grants its vote to two others in a term, however RequestVote, the resets of
\* votedFor and the restarts interleave.
THEOREM OneVoteATerm == Spec => []VoteOnce
<1>1. ElectionInv => VoteOnce
  BY DEF ElectionInv
<1> QED BY <1>1, ElectionInvariant, PTL

\* No step, restart or snapshot takes back a vote given to another server in its term.
THEOREM VotesAreKept == Spec => VoteIsKept
<1>1. TypeInv /\ TypeInv' /\ ElectionInv /\ [Next]_vars =>
        [\A i \in Server :
           /\ currentTerm'[i] >= currentTerm[i]
           /\ currentTerm'[i] = currentTerm[i] /\ votedFor[i] \notin {Nil, i}
                => votedFor'[i] = votedFor[i]]_vars
  BY EveryStepVotes DEF VoteStep, VotesKept
<1> QED BY <1>1, TypeInvariant, ElectionInvariant, PTL DEF Spec, VoteIsKept

\* Two majorities of the peers have one in common.
LEMMA MajoritiesMeet ==
    ASSUME NEW P \in SUBSET Server, NEW Q \in SUBSET Server, IsMajority(P), IsMajority(Q)
    PROVE  P \cap Q # {}
<1>1. IsFiniteSet(Server) /\ IsFiniteSet(P) /\ IsFiniteSet(Q)
  BY ServerAssumption, FS_Subset
<1>2. Cardinality(Server) \in Nat /\ Cardinality(P) \in Nat /\ Cardinality(Q) \in Nat
  BY <1>1, FS_CardinalityType
<1>3. Cardinality(P) + Cardinality(Q) > Cardinality(Server)
  BY <1>2 DEF IsMajority
<1> QED BY <1>1, <1>3, FS_MajoritiesIntersect

LEMMA OneLeaderATerm == TypeInv /\ ElectionInv => ElectionSafety
<1> SUFFICES ASSUME TypeInv, ElectionInv, NEW i \in Server, NEW j \in Server,
                    role[i] = "Leader", role[j] = "Leader", currentTerm[i] = currentTerm[j],
                    i # j
             PROVE  FALSE
  BY DEF ElectionSafety
<1> DEFINE t == currentTerm[i]
<1>1. PICK P \in SUBSET Server : IsMajority(P) /\ \A s \in P \ {i} : Voted(s, i, t)
  BY DEF ElectionInv, LeadersElected, Elected
<1>2. PICK Q \in SUBSET Server : IsMajority(Q) /\ \A s \in Q \ {j} : Voted(s, j, t)
  BY DEF ElectionInv, LeadersElected, Elected
<1>3. PICK s \in Server : s \in P /\ s \in Q
  BY <1>1, <1>2, MajoritiesMeet
<1>4. votedFor[i] = i /\ votedFor[j] = j /\ t \in Nat
  BY DEF ElectionInv, VotedForSelf, TypeInv, TypeOK, RoleTypes
<1>5. ASSUME NEW a \in Server, NEW b \in Server, a # b, votedFor[a] = a,
             currentTerm[a] = t
      PROVE  ~Voted(a, b, t)
  BY <1>4, <1>5 DEF Voted, ElectionInv, VotesStand
<1>6. CASE s = i
  BY <1>2, <1>3, <1>4, <1>5, <1>6
<1>7. CASE s = j
  BY <1>1, <1>3, <1>4, <1>5, <1>7
<1>8. CASE s # i /\ s # j
  <2>1. Voted(s, i, t) /\ Voted(s, j, t)
    BY <1>1, <1>2, <1>3, <1>8
  <2> QED BY <2>1 DEF Voted, ElectionInv, VoteOnce
<1> QED BY <1>6, <1>7, <1>8

\* No term has two leaders at once, for any number of servers: the promise that
\* config.go's checkOneLeader tests.
THEOREM OneLeader == Spec => []ElectionSafety
<1> QED BY OneLeaderATerm, TypeInvariant, ElectionInvariant, PTL

-----------------------------------------------------------------------------
(* The peers implement the election of Voting.tla: initial states map to    *)
(* initial states, and every step to one action of Voting or to none.       *)

\* What a step of the peers may be for the election.
ElectionStep == Voting!Next \/ UNCHANGED Voting!ballot

LEMMA InitIsVotingInit == Init => Voting!Init
  BY DEF Init, Voting!Init, VotesCast, Leaders

\* A step that touches no role and no vote is none of an election.
LEMMA QuietIsStutter ==
    ASSUME UNCHANGED <<roleVars, voteReplies>>
    PROVE  ElectionStep
  BY DEF ElectionStep, roleVars, VotesCast, Leaders, Voting!ballot

\* Following, in a term that is not over, steps down.
LEMMA FollowIsStepDown ==
    ASSUME TypeInv, ElectionInv, UNCHANGED voteReplies,
           NEW i \in Server, NEW term \in Nat, term >= currentTerm[i], Follow(i, term),
           \/ UNCHANGED votedFor
           \/ /\ votedFor' = [votedFor EXCEPT ![i] = Nil]
              /\ term > currentTerm[i] \/ role[i] # "Follower"
    PROVE  ElectionStep
<1>1. role \in [Server -> Role] /\ currentTerm \in [Server -> Nat]
  BY DEF TypeInv, TypeOK, RoleTypes
<1>2. /\ role' = [role EXCEPT ![i] = "Follower"]
      /\ currentTerm' = [currentTerm EXCEPT ![i] = term]
  BY DEF Follow
<1>3. currentTerm'[i] = term
  BY <1>1, <1>2
<1>4. Voting!Advances(i)
  BY <1>2, <1>3 DEF Voting!Advances
<1>5. \/ UNCHANGED votedFor
      \/ /\ currentTerm'[i] > currentTerm[i] \/ votedFor[i] = i
         /\ votedFor' = [votedFor EXCEPT ![i] = Nil]
  BY <1>3 DEF ElectionInv, VotedForSelf
<1>6. Leaders' = Leaders \ {i} /\ UNCHANGED VotesCast
  BY <1>1, <1>2 DEF Leaders, VotesCast
<1>7. Voting!StepDown(i)
  BY <1>4, <1>5, <1>6 DEF Voting!StepDown
<1> QED BY <1>7 DEF ElectionStep, Voting!Next

-----------------------------------------------------------------------------
(* The actions *)

LEMMA StartElectionIsCampaign ==
    ASSUME TypeInv, NEW i \in Server, StartElection(i)
    PROVE  ElectionStep
<1>1. role \in [Server -> Role]
  BY DEF TypeInv, TypeOK, RoleTypes
<1>2. /\ role[i] # "Leader" /\ role' = [role EXCEPT ![i] = "Candidate"]
      /\ currentTerm' = [currentTerm EXCEPT ![i] = @ + 1]
      /\ votedFor' = [votedFor EXCEPT ![i] = i]
      /\ UNCHANGED voteReplies
  BY DEF StartElection
<1>3. i \notin Leaders /\ UNCHANGED <<VotesCast, Leaders>>
  BY <1>1, <1>2 DEF Leaders, VotesCast
<1>4. Voting!Campaign(i)
  BY <1>2, <1>3 DEF Voting!Campaign
<1> QED BY <1>4 DEF ElectionStep, Voting!Next

\* The only step that casts a vote.
LEMMA RequestVoteIsCast ==
    ASSUME TypeInv, ElectionInv, NEW j \in Server, NEW m \in voteReqs, RequestVote(j, m)
    PROVE  ElectionStep
<1> DEFINE c == m.candidateId
<1>1. /\ role \in [Server -> Role] /\ currentTerm \in [Server -> Nat]
      /\ votedFor \in [Server -> Server \cup {Nil}]
      /\ m.term \in Nat /\ c \in Server /\ c # j
  BY DEF TypeInv, TypeOK, RoleTypes, NetTypes, VoteRequest, RequestVote
<1>2. ASSUME NEW term, AnswerVote(j, m, term, FALSE)
      PROVE  UNCHANGED VotesCast
  <2>1. \/ UNCHANGED voteReplies
        \/ voteReplies' = voteReplies \cup
             {[term |-> term, granted |-> FALSE, from |-> j, request |-> m]}
    BY <1>2 DEF AnswerVote
  <2>2. {v \in voteReplies' : v.granted} = {v \in voteReplies : v.granted}
    BY <2>1
  <2> QED BY <2>2 DEF VotesCast
<1>3. ASSUME AnswerVote(j, m, m.term, TRUE)
      PROVE  VotesCast' = VotesCast \cup {<<j, c, m.term>>}
  <2> DEFINE vote == [term |-> m.term, granted |-> TRUE, from |-> j, request |-> m]
  <2>1. voteReplies' = voteReplies \cup {vote}
    BY <1>3 DEF AnswerVote
  <2>2. {v \in voteReplies' : v.granted} = {v \in voteReplies : v.granted} \cup {vote}
    BY <2>1
  <2>3. /\ vote.from = j /\ vote.request.candidateId = c /\ vote.request.term = m.term
    OBVIOUS
  <2> HIDE DEF vote
  <2> QED BY <2>2, <2>3 DEF VotesCast
<1>4. CASE RefuseVote(j, m)
  <2>1. UNCHANGED roleVars /\ UNCHANGED VotesCast
    BY <1>2, <1>4 DEF RefuseVote
  <2> QED BY <2>1 DEF ElectionStep, roleVars, Leaders, Voting!ballot
<1>5. CASE AdoptTerm(j, m)
  <2>1. /\ m.term > currentTerm[j] /\ Follow(j, m.term)
        /\ votedFor' = [votedFor EXCEPT ![j] = Nil] /\ UNCHANGED VotesCast
    BY <1>2, <1>5 DEF AdoptTerm
  <2>2. /\ Leaders' = Leaders \ {j} /\ currentTerm'[j] = m.term
        /\ currentTerm' = [currentTerm EXCEPT ![j] = m.term]
    BY <1>1, <2>1 DEF Follow, Leaders
  <2>3. Voting!StepDown(j)
    BY <1>1, <2>1, <2>2 DEF Voting!StepDown, Voting!Advances
  <2> QED BY <2>3 DEF ElectionStep, Voting!Next
<1>6. CASE RepeatVote(j, m) \/ GrantVote(j, m)
  <2>0. AnswerVote(j, m, m.term, TRUE)
    BY <1>6 DEF RepeatVote, GrantVote
  <2>1. /\ currentTerm' = [currentTerm EXCEPT ![j] = m.term]
        /\ votedFor' = [votedFor EXCEPT ![j] = c]
        /\ m.term >= currentTerm[j]
        /\ m.term = currentTerm[j] => votedFor[j] \in {Nil, c} /\ role[j] # "Leader"
    <3>1. CASE RepeatVote(j, m)
      <4>1. /\ UNCHANGED <<currentTerm, votedFor>>
            /\ m.term = currentTerm[j] /\ votedFor[j] = c /\ role[j] # "Leader"
        BY <3>1 DEF RepeatVote, roleVars
      <4>2. /\ currentTerm = [currentTerm EXCEPT ![j] = m.term]
            /\ votedFor = [votedFor EXCEPT ![j] = c]
        BY <1>1, <4>1
      <4> QED BY <1>1, <4>1, <4>2
    <3>2. CASE GrantVote(j, m)
      <4>1. /\ currentTerm' = [currentTerm EXCEPT ![j] = m.term]
            /\ votedFor' = [votedFor EXCEPT ![j] = c]
        BY <3>2 DEF GrantVote, Follow
      <4>2. \/ m.term > currentTerm[j]
            \/ m.term = currentTerm[j] /\ role[j] # "Leader" /\ votedFor[j] = Nil
        BY <3>2 DEF GrantVote
      <4> QED BY <1>1, <4>1, <4>2
    <3> QED BY <1>6, <3>1, <3>2
  <2>2. Leaders' = Leaders \ {j}
    <3>1. CASE RepeatVote(j, m)
      BY <3>1 DEF RepeatVote, roleVars, Leaders
    <3>2. CASE GrantVote(j, m)
      BY <1>1, <3>2 DEF GrantVote, Follow, Leaders
    <3> QED BY <1>6, <3>1, <3>2
  <2>3. currentTerm'[j] = m.term /\ Voting!Advances(j)
    BY <1>1, <2>1 DEF Voting!Advances
  <2>4. m.term = currentTerm[j] => j \notin Leaders
    BY <2>1 DEF Leaders
  <2>5. VotesCast' = VotesCast \cup {<<j, c, currentTerm'[j]>>}
    BY <1>3, <2>0, <2>3
  <2>6. Voting!Cast(j, c)
    BY <1>1, <2>1, <2>2, <2>3, <2>4, <2>5 DEF Voting!Cast
  <2> QED BY <1>1, <2>6 DEF ElectionStep, Voting!Next
<1> QED BY <1>4, <1>5, <1>6 DEF RequestVote

\* A majority is for the peer that takes the leadership: the votes it has counted are
\* votes of the term it is in.
LEMMA CollectVoteIsLead ==
    ASSUME TypeInv, ElectionInv, NEW i \in Server, NEW r \in voteReplies, CollectVote(i, r)
    PROVE  ElectionStep
<1> DEFINE granted == election[i].granted \cup {r.from}
           leads == IsMajority(granted) /\ StillCandidate(i)
<1>1. /\ role \in [Server -> Role]
      /\ election \in [Server -> [term : Nat, granted : SUBSET Server]]
      /\ r.from \in Server
  BY DEF TypeInv, TypeOK, RoleTypes, CallTypes, NetTypes, VoteReply
<1>2. /\ r.granted /\ r.request.candidateId = i /\ r.request.term = election[i].term
      /\ IF leads THEN BecomeLeader(i) ELSE UNCHANGED <<role, leaderVars>>
      /\ UNCHANGED <<currentTerm, votedFor, voteReplies>>
  BY DEF CollectVote, voteNet
<1>3. granted \in SUBSET Server /\ \A s \in granted \ {i} : Voted(s, i, election[i].term)
  BY <1>1, <1>2 DEF ElectionInv, VotesCounted, Voted
<1> HIDE DEF granted
<1>4. CASE leads
  <2>1. /\ role[i] = "Candidate" /\ currentTerm[i] = election[i].term
        /\ role' = [role EXCEPT ![i] = "Leader"]
    BY <1>2, <1>4 DEF StillCandidate, BecomeLeader
  <2>2. votedFor[i] = i
    BY <2>1 DEF ElectionInv, VotedForSelf
  <2>3. \A s \in granted \ {i} : <<s, i, currentTerm[i]>> \in VotesCast
    BY <1>3, <2>1 DEF Voted, VotesCast
  <2>4. granted \subseteq Voting!Supporters(i)
    BY <1>3, <2>3 DEF Voting!Supporters
  <2>5. \E Q \in Majorities : Q \subseteq Voting!Supporters(i)
    BY <1>3, <1>4, <2>4 DEF Majorities
  <2>6. Leaders' = Leaders \cup {i} /\ UNCHANGED VotesCast
    BY <1>1, <1>2, <2>1 DEF Leaders, VotesCast
  <2>7. UNCHANGED <<currentTerm, votedFor, VotesCast>>
    BY <1>2, <2>6
  <2>8. Voting!Lead(i)
    BY <2>2, <2>5, <2>6, <2>7 DEF Voting!Lead
  <2> QED BY <2>8 DEF ElectionStep, Voting!Next
<1>5. CASE ~leads
  BY <1>2, <1>5, QuietIsStutter DEF roleVars
<1> QED BY <1>4, <1>5

LEMMA AbandonElectionStepsDown ==
    ASSUME TypeInv, ElectionInv, NEW i \in Server, NEW r \in voteReplies, AbandonElection(i, r)
    PROVE  ElectionStep
<1>1. r.term \in Nat /\ r.term > currentTerm[i] /\ r.term >= currentTerm[i]
  BY DEF TypeInv, TypeOK, RoleTypes, NetTypes, VoteReply, AbandonElection
<1>2. /\ Follow(i, r.term) /\ votedFor' = [votedFor EXCEPT ![i] = Nil]
      /\ UNCHANGED voteReplies
  BY DEF AbandonElection, voteNet
<1> QED BY <1>1, <1>2, FollowIsStepDown

LEMMA AppendEntriesStepsDown ==
    ASSUME TypeInv, ElectionInv, NEW j \in Server, NEW m \in aeReqs, AppendEntries(j, m)
    PROVE  ElectionStep
<1>1. m.term \in Nat /\ UNCHANGED voteReplies
  BY DEF TypeInv, TypeOK, NetTypes, AppendRequest, AppendEntries, voteNet
<1>2. CASE AppendStale(j, m)
  BY <1>1, <1>2, QuietIsStutter DEF AppendStale
<1>3. CASE AppendAccepted(j, m) \/ AppendRefused(j, m)
  <2>1. Follow(j, m.term) /\ UNCHANGED votedFor /\ m.term >= currentTerm[j]
    BY <1>3 DEF AppendAccepted, AppendRefused
  <2> QED BY <1>1, <2>1, FollowIsStepDown
<1> QED BY <1>2, <1>3 DEF AppendEntries

LEMMA HandleAppendReplyStepsDown ==
    ASSUME TypeInv, ElectionInv, NEW i \in Server, NEW j \in Server, HandleAppendReply(i, j)
    PROVE  ElectionStep
<1>1. currentTerm \in [Server -> Nat] /\ UNCHANGED voteReplies
  BY DEF TypeInv, TypeOK, RoleTypes, HandleAppendReply, voteNet
<1>2. PICK reply \in aeCall[i][j].replies : \E r \in Observed(reply) :
        \/ StepDownOnAppend(i, j, r)
        \/ AppendAcknowledged(i, j, r)
        \/ AppendRejected(i, j, r)
  BY DEF HandleAppendReply
<1>3. PICK r \in Observed(reply) :
        \/ StepDownOnAppend(i, j, r)
        \/ AppendAcknowledged(i, j, r)
        \/ AppendRejected(i, j, r)
  BY <1>2
<1>4. CASE StepDownOnAppend(i, j, r)
  <2>1. r.term \in Nat
    BY <1>2, <1>3, ObservedType DEF HandleAppendReply, TypeInv, TypeOK
  <2>2. Follow(i, r.term) /\ UNCHANGED votedFor /\ r.term >= currentTerm[i]
    BY <1>1, <1>4, <2>1 DEF StepDownOnAppend
  <2> QED BY <1>1, <2>1, <2>2, FollowIsStepDown
<1>5. CASE AppendAcknowledged(i, j, r) \/ AppendRejected(i, j, r)
  BY <1>1, <1>5, QuietIsStutter DEF AppendAcknowledged, AppendRejected
<1> QED BY <1>3, <1>4, <1>5

LEMMA InstallSnapshotStepsDown ==
    ASSUME TypeInv, ElectionInv, NEW j \in Server, NEW m \in snapReqs, InstallSnapshot(j, m)
    PROVE  ElectionStep
<1>1. m.term \in Nat /\ UNCHANGED voteReplies
  BY DEF TypeInv, TypeOK, NetTypes, SnapshotRequest, InstallSnapshot, voteNet
<1>2. CASE UNCHANGED roleVars
  BY <1>1, <1>2, QuietIsStutter
<1>3. CASE m.term >= currentTerm[j] /\ DemoteBySnapshot(j, m)
  <2>1. CASE Demoted(j, m)
    BY <1>1, <1>3, <2>1, FollowIsStepDown DEF DemoteBySnapshot, Demoted
  <2>2. CASE ~Demoted(j, m)
    BY <1>2, <1>3, <2>2 DEF DemoteBySnapshot
  <2> QED BY <2>1, <2>2
<1> QED BY <1>2, <1>3 DEF InstallSnapshot

LEMMA HandleSnapshotReplyStepsDown ==
    ASSUME TypeInv, ElectionInv, NEW i \in Server, NEW r \in snapReplies,
           HandleSnapshotReply(i, r)
    PROVE  ElectionStep
<1>1. /\ r.term \in Nat /\ currentTerm \in [Server -> Nat] /\ UNCHANGED voteReplies
  BY DEF TypeInv, TypeOK, RoleTypes, NetTypes, SnapshotReply, HandleSnapshotReply, voteNet
<1>2. CASE r.term > currentTerm[i]
  BY <1>1, <1>2, FollowIsStepDown DEF HandleSnapshotReply
<1>3. CASE ~(r.term > currentTerm[i])
  BY <1>1, <1>3, QuietIsStutter DEF HandleSnapshotReply
<1> QED BY <1>2, <1>3

\* A restart reads back the term and the vote, and only leads no more.
LEMMA RestartStepsDown ==
    ASSUME TypeInv, ElectionInv, NEW i \in Server, Restart(i)
    PROVE  ElectionStep
<1>1. currentTerm \in [Server -> Nat] /\ votedFor \in [Server -> Server \cup {Nil}]
  BY DEF TypeInv, TypeOK, RoleTypes
<1>2. /\ role' = [role EXCEPT ![i] = "Follower"]
      /\ currentTerm' = currentTerm /\ votedFor' = votedFor /\ UNCHANGED voteReplies
  BY <1>1 DEF Restart, ReadPersist, ElectionInv, VoteOnDisk, voteNet
<1>3. Follow(i, currentTerm[i])
  BY <1>1, <1>2 DEF Follow
<1> QED BY <1>1, <1>2, <1>3, FollowIsStepDown

LEMMA LogActionIsStutter ==
    ASSUME NEW i \in Server,
           \/ \E v \in Value : Start(i, v)
           \/ \E j \in Server : SendAppendEntries(i, j)
           \/ \E j \in Server : SendSnapshot(i, j)
           \/ Snapshot(i)
           \/ CondInstallSnapshot(i)
           \/ StartApplyLogs(i)
           \/ ApplyOne(i)
    PROVE  ElectionStep
<1>1. UNCHANGED <<roleVars, voteReplies>>
  BY DEF Start, SendAppendEntries, SendSnapshot, Snapshot, CondInstallSnapshot,
         StartApplyLogs, ApplyOne, voteNet
<1> QED BY <1>1, QuietIsStutter

-----------------------------------------------------------------------------
(* The theorem *)

LEMMA EveryStepIsElectionStep == TypeInv /\ ElectionInv /\ [Next]_vars => ElectionStep
<1> SUFFICES ASSUME TypeInv, ElectionInv, [Next]_vars PROVE ElectionStep
  OBVIOUS
<1>1. CASE UNCHANGED vars
  BY <1>1, QuietIsStutter DEF vars, voteNet
<1>2. CASE Next
  BY <1>2, StartElectionIsCampaign, RequestVoteIsCast, CollectVoteIsLead,
     AbandonElectionStepsDown, AppendEntriesStepsDown, HandleAppendReplyStepsDown,
     InstallSnapshotStepsDown, HandleSnapshotReplyStepsDown, LogActionIsStutter,
     RestartStepsDown DEF Next
<1> QED BY <1>1, <1>2

\* Whatever the network, the timers, the restarts and the snapshots do, the peers hold
\* an election as Voting.tla describes it.
THEOREM PeersVote == Spec => VotingRefined
<1>1. TypeInv /\ ElectionInv /\ [Next]_vars => [Voting!Next]_(Voting!ballot)
  BY EveryStepIsElectionStep DEF ElectionStep
<1> QED
  BY <1>1, InitIsVotingInit, TypeInvariant, ElectionInvariant,
     PTL DEF Spec, VotingRefined, Voting!Spec

=============================================================================
