------------------------------ MODULE Lab3AProofs ------------------------------
(***************************************************************************)
(* The peers of Lab-3A for any number of servers and every bound: their    *)
(* types, one leader a term as long as no late refusal has set a term      *)
(* back, and what it takes for a sender to index before its log.           *)
(***************************************************************************)
EXTENDS Lab3ARaft, FiniteSetTheorems, SequenceTheorems, NaturalsInduction, TLAPS

-----------------------------------------------------------------------------
(* Types *)

Role == {"Follower", "Candidate", "Leader"}
Answer == {r \in AppendEntriesReply : r.Success => r.NextIndex > 0}
CallState == {NoCall} \cup [open : {TRUE}, args : HeartBeatArgs, replies : SUBSET Answer]
Disk == [Term : Nat, voteFor : VoteFor, commitIndex : Nat, lastApplied : Nat,
         logEntries : Seq(LogEntry)]

VoteTypes ==
    /\ State \in [Server -> Role] /\ Term \in [Server -> Nat] /\ voteFor \in [Server -> VoteFor]
    /\ late \in [Server -> SUBSET Server]
LogTypes == logEntries \in [Server -> Seq(LogEntry)]
ApplyTypes ==
    /\ commitIndex \in [Server -> Nat] /\ lastApplied \in [Server -> Nat]
    /\ notified \in [Server -> BOOLEAN] /\ applied \in [Server -> Seq(LogEntry)]
LeaderTypes ==
    /\ nextIndex \in [Server -> [Server -> Nat]] /\ matchIndex \in [Server -> [Server -> Nat]]
RoutineTypes ==
    /\ election \in [Server -> [Term : Nat, granted : SUBSET Server]]
    /\ calls \in [Server -> [Server -> CallState]]
    /\ deferred \in [Server -> SUBSET [commit : Nat, seen : BOOLEAN]]
VoteNetTypes == voteReqs \subseteq RequestVoteArgs /\ voteReplies \subseteq RequestVoteReply

\* Nothing precedes the first entry, so nothing can differ there.
FirstMatches(m) == m.PrevLogIndex = 0 => m.PervLogTerm = 0
CallTypes == aeReqs \subseteq {m \in HeartBeatArgs : FirstMatches(m)}

\* What was applied is persisted as applied at once: a restart applies nothing twice.
AppliedExact ==
    \A i \in Server : Len(applied[i]) = lastApplied[i] /\ disk[i].lastApplied = lastApplied[i]

TypeInv ==
    /\ VoteTypes /\ LogTypes /\ ApplyTypes /\ LeaderTypes /\ RoutineTypes
    /\ VoteNetTypes /\ CallTypes /\ disk \in [Server -> Disk] /\ AppliedExact

-----------------------------------------------------------------------------
(* One vote a term, one leader a term *)

\* The network holds a vote of s for i in term t.
Voted(s, i, t) ==
    \E r \in voteReplies : r.granted /\ r.from = s /\ r.args.CandidateId = i /\ r.args.Term = t

\* The vote is on disk, and no peer is in a term before that of its vote -- nor would it
\* be after a restart, even if its newest term was not persisted (RefuseTail).
VoteOnDisk ==
    \A i \in Server : /\ disk[i].voteFor = voteFor[i]
                      /\ voteFor[i].Term <= Term[i] /\ voteFor[i].Term <= disk[i].Term

VotedForSelf ==
    \A i \in Server :
        /\ State[i] # "Follower" => voteFor[i] = [Term |-> Term[i], id |-> i]
        /\ State[i] = "Candidate" => election[i].Term = Term[i]

\* A granted vote is its server's last one, unless the server has voted in a newer term.
VotesStand ==
    \A r \in voteReplies : r.granted =>
        /\ r.from # r.args.CandidateId
        /\ \/ voteFor[r.from].Term > r.args.Term
           \/ voteFor[r.from] = [Term |-> r.args.Term, id |-> r.args.CandidateId]

VoteOnce ==
    \A r1, r2 \in voteReplies :
        r1.granted /\ r2.granted /\ r1.from = r2.from /\ r1.args.Term = r2.args.Term
          => r1.args.CandidateId = r2.args.CandidateId

VotesCounted ==
    \A i \in Server : \A s \in election[i].granted \ {i} : Voted(s, i, election[i].Term)

Elected(i, t) ==
    \E Q \in SUBSET Server : IsMajority(Q) /\ \A s \in Q \ {i} : Voted(s, i, t)
LeadersElected == \A i \in Server : State[i] = "Leader" => Elected(i, Term[i])

ElectionInv ==
    /\ VoteOnDisk /\ VotedForSelf /\ VotesStand /\ VoteOnce
    /\ VotesCounted /\ LeadersElected

Lab3AInv == TypeInv /\ ("termBack" \notin accident => ElectionInv)

-----------------------------------------------------------------------------
(* The operators of the model *)

USE DEF voteVars, applyVars, leaderVars, routineVars, voteNet, history

LEMMA LogFacts ==
    ASSUME LogTypes, NEW i \in Server
    PROVE  /\ logEntries[i] \in Seq(LogEntry) /\ LastLogIndex(i) \in Nat
           /\ LastLogIndex(i) = Len(logEntries[i])
           /\ \A k \in Nat : k <= LastLogIndex(i) => TermAt(i, k) \in Nat
           /\ LastLogTerm(i) \in Nat
<1>1. logEntries[i] \in Seq(LogEntry) /\ Len(logEntries[i]) \in Nat
  BY DEF LogTypes
<1>2. ASSUME NEW k \in Nat, k <= Len(logEntries[i]) PROVE TermAt(i, k) \in Nat
  <2>1. CASE k = 0
    BY <2>1 DEF TermAt
  <2>2. CASE k # 0
    <3>1. logEntries[i][k] \in LogEntry
      BY <1>1, <1>2, <2>2, ElementOfSeq
    <3> QED
      BY <2>2, <3>1 DEF TermAt, LogEntry
  <2> QED
    BY <2>1, <2>2
<1> QED
  BY <1>1, <1>2 DEF LastLogIndex, LastLogTerm

LEMMA SubSeqType ==
    ASSUME NEW S, NEW s \in Seq(S), NEW a \in Nat, a > 0, NEW b \in Nat, b <= Len(s)
    PROVE  /\ SubSeq(s, a, b) \in Seq(S)
           /\ a <= b + 1 => Len(SubSeq(s, a, b)) = b + 1 - a
<1>1. Len(s) \in Nat
  OBVIOUS
<1>2. \A n \in a..b : s[n] \in S
  BY <1>1, ElementOfSeq
<1> QED
  BY <1>1, <1>2, SubSeqProperties

\* The largest of finitely many indices is one of them.
LEMMA LeastNumber ==
    ASSUME NEW S, S \subseteq Nat, S # {}
    PROVE  \E n \in S : \A m \in S : n <= m
<1> DEFINE Less == {p \in Nat \X Nat : p[1] < p[2]}
<1>1. PICK x \in S : \A y \in S : <<y, x>> \notin Less
  <2>1. IsWellFoundedOn(Less, Nat)
    BY NatLessThanWellFounded DEF OpToRel
  <2> QED
    BY <2>1, WFMin
<1>2. ASSUME NEW y \in S PROVE x <= y
  <2>1. <<y, x>> \notin Less /\ x \in Nat /\ y \in Nat
    BY <1>1
  <2>2. ~(y < x)
    BY <2>1
  <2> QED
    BY <2>1, <2>2
<1> QED
  BY <1>2

LEMMA LargestIn ==
    ASSUME NEW n \in Nat, NEW S \in SUBSET (0..n), S # {}
    PROVE  Largest(S) \in S
<1> DEFINE K == {k \in 0..n : n - k \in S}
<1>1. K \subseteq Nat /\ K # {}
  <2>1. PICK l \in S : TRUE
    OBVIOUS
  <2>2. n - l \in 0..n /\ n - (n - l) = l
    OBVIOUS
  <2>3. n - l \in K
    BY <2>2
  <2>4. K \subseteq Nat
    OBVIOUS
  <2> QED
    BY <2>3, <2>4
<1>2. PICK k \in K : \A j \in K : k <= j
  <2> HIDE DEF K
  <2> QED
    BY <1>1, LeastNumber
<1>3. \A l \in S : l <= n - k
  <2> SUFFICES ASSUME NEW l \in S PROVE l <= n - k
    OBVIOUS
  <2>1. n - l \in 0..n /\ n - (n - l) = l
    OBVIOUS
  <2>2. k <= n - l /\ k \in 0..n /\ l \in 0..n
    BY <1>2, <2>1
  <2> QED
    BY <2>2
<1>4. n - k \in S
  OBVIOUS
<1> HIDE DEF K
<1> QED
  BY <1>3, <1>4 DEF Largest

LEMMA PersistTypes ==
    ASSUME VoteTypes', LogTypes', ApplyTypes', disk \in [Server -> Disk], NEW i \in Server, Persist(i)
    PROVE  /\ disk' \in [Server -> Disk]
           /\ disk'[i].Term = Term'[i] /\ disk'[i].voteFor = voteFor'[i]
           /\ disk'[i].lastApplied = lastApplied'[i]
           /\ \A j \in Server \ {i} : disk'[j] = disk[j]
<1> DEFINE d == [Term |-> Term'[i], voteFor |-> voteFor'[i], commitIndex |-> commitIndex'[i],
                 lastApplied |-> lastApplied'[i], logEntries |-> logEntries'[i]]
<1>1. disk' = [disk EXCEPT ![i] = d]
  BY DEF Persist
<1>2. /\ Term'[i] \in Nat /\ voteFor'[i] \in VoteFor /\ commitIndex'[i] \in Nat
      /\ lastApplied'[i] \in Nat /\ logEntries'[i] \in Seq(LogEntry)
  BY DEF VoteTypes, LogTypes, ApplyTypes
<1>3. /\ d \in Disk /\ d.Term = Term'[i] /\ d.voteFor = voteFor'[i]
      /\ d.lastApplied = lastApplied'[i]
  BY <1>2 DEF Disk
<1> HIDE DEF d
<1> QED
  BY <1>1, <1>3

\* A step that applies nothing and persists, or not, what one peer has.
LEMMA NothingApplied ==
    ASSUME VoteTypes', LogTypes', ApplyTypes', disk \in [Server -> Disk], AppliedExact,
           UNCHANGED <<lastApplied, applied>>,
           UNCHANGED disk \/ \E i \in Server : Persist(i)
    PROVE  disk' \in [Server -> Disk] /\ AppliedExact'
<1>1. CASE UNCHANGED disk
  BY <1>1 DEF AppliedExact
<1>2. ASSUME NEW i \in Server, Persist(i) PROVE disk' \in [Server -> Disk] /\ AppliedExact'
  <2>1. /\ disk' \in [Server -> Disk] /\ disk'[i].lastApplied = lastApplied'[i]
        /\ \A j \in Server \ {i} : disk'[j] = disk[j]
    BY <1>2, PersistTypes
  <2> QED
    BY <2>1 DEF AppliedExact
<1> QED
  BY <1>1, <1>2

LEMMA StepDownTypes ==
    ASSUME VoteTypes, NEW i \in Server, NEW term \in Nat, StepDown(i, term), UNCHANGED voteFor
    PROVE  /\ VoteTypes' /\ State'[i] = "Follower" /\ Term'[i] = term
           /\ \A j \in Server \ {i} : State'[j] = State[j] /\ Term'[j] = Term[j]
<1>1. State' = [State EXCEPT ![i] = "Follower"] /\ Term' = [Term EXCEPT ![i] = term]
  BY DEF StepDown
<1>2. late' \in [Server -> SUBSET Server]
  <2>1. CASE State[i] = "Leader"
    BY <2>1 DEF StepDown, VoteTypes
  <2>2. CASE State[i] # "Leader"
    BY <2>2 DEF StepDown, VoteTypes
  <2> QED
    BY <2>1, <2>2
<1> QED
  BY <1>1, <1>2 DEF VoteTypes, Role

-----------------------------------------------------------------------------
(* Types: elections *)

LEMMA InitTypes == Init => TypeInv
<1> SUFFICES ASSUME Init PROVE TypeInv
  OBVIOUS
<1>1. [Term |-> -1, id |-> NoOne] \in VoteFor
  BY DEF VoteFor
<1>2. VoteTypes
  BY <1>1 DEF Init, VoteTypes, Role
<1>3. <<>> \in Seq(LogEntry) /\ Len(<<>>) = 0
  OBVIOUS
<1>4. LogTypes /\ ApplyTypes
  BY <1>3 DEF Init, LogTypes, ApplyTypes
<1>5. LeaderTypes
  BY DEF Init, LeaderTypes
<1>6. RoutineTypes
  BY DEF Init, RoutineTypes, NoElection, CallState
<1>7. VoteNetTypes /\ CallTypes
  BY DEF Init, VoteNetTypes, CallTypes
<1>8. disk \in [Server -> Disk]
  BY <1>1, <1>3 DEF Init, Disk
<1>9. AppliedExact
  BY <1>3 DEF Init, AppliedExact
<1> QED
  BY <1>2, <1>4, <1>5, <1>6, <1>7, <1>8, <1>9 DEF TypeInv

LEMMA StartElectionTypes ==
    ASSUME TypeInv, NEW i \in Server, StartElection(i) PROVE TypeInv'
<1> USE DEF TypeInv
<1>1. Term[i] \in Nat /\ Term[i] + 1 \in Nat /\ LastLogIndex(i) \in Nat /\ LastLogTerm(i) \in Nat
  BY LogFacts DEF VoteTypes
<1>2. [Term |-> Term[i] + 1, id |-> i] \in VoteFor
  BY <1>1 DEF VoteFor
<1>3. VoteTypes'
  BY <1>1, <1>2 DEF StartElection, VoteTypes, Role
<1>4. LogTypes' /\ ApplyTypes' /\ LeaderTypes' /\ CallTypes'
  BY DEF StartElection, LogTypes, ApplyTypes, LeaderTypes, CallTypes
<1>5. RoutineTypes'
  <2>1. [Term |-> Term[i] + 1, granted |-> {i}] \in [Term : Nat, granted : SUBSET Server]
    BY <1>1
  <2> QED
    BY <2>1 DEF StartElection, RoutineTypes
<1>6. VoteNetTypes'
  <2>1. [Term |-> Term[i] + 1, CandidateId |-> i, LastLogIndex |-> LastLogIndex(i),
         LastLogTerm |-> LastLogTerm(i)] \in RequestVoteArgs
    BY <1>1 DEF RequestVoteArgs
  <2> QED
    BY <2>1 DEF StartElection, VoteNetTypes
<1>7. disk' \in [Server -> Disk] /\ AppliedExact'
  BY <1>3, <1>4, NothingApplied DEF StartElection
<1> QED
  BY <1>3, <1>4, <1>5, <1>6, <1>7

LEMMA AnswerVoteTypes ==
    ASSUME VoteNetTypes, VoteTypes, NEW j \in Server, NEW m \in voteReqs, NEW granted \in BOOLEAN,
           AnswerVote(j, m, granted)
    PROVE  /\ voteReplies' \subseteq RequestVoteReply /\ voteReplies \subseteq voteReplies'
           /\ \A r \in voteReplies' \ voteReplies :
                r.granted = granted /\ r.from = j /\ r.args = m
<1> DEFINE x == [Term |-> IF Term[j] > m.Term THEN Term[j] ELSE 0, granted |-> granted,
                 from |-> j, args |-> m]
<1>1. m \in RequestVoteArgs /\ Term[j] \in Nat
  BY DEF VoteNetTypes, VoteTypes
<1>2. x \in RequestVoteReply /\ x.granted = granted /\ x.from = j /\ x.args = m
  BY <1>1 DEF RequestVoteReply
<1>3. voteReplies' = voteReplies \cup {x} \/ voteReplies' = voteReplies
  BY DEF AnswerVote
<1> HIDE DEF x
<1> QED
  BY <1>2, <1>3 DEF VoteNetTypes

LEMMA RequestVoteTypes ==
    ASSUME TypeInv, NEW j \in Server, NEW m \in voteReqs, RequestVote(j, m) PROVE TypeInv'
<1> USE DEF TypeInv
<1>1. m \in RequestVoteArgs /\ m.Term \in Nat /\ m.CandidateId \in Server
  BY DEF VoteNetTypes, RequestVoteArgs
<1>2. /\ LogTypes' /\ ApplyTypes' /\ LeaderTypes' /\ RoutineTypes' /\ CallTypes'
      /\ UNCHANGED <<late, voteReqs, lastApplied, applied>>
  BY DEF RequestVote, LogTypes, ApplyTypes, LeaderTypes, RoutineTypes, CallTypes
<1>3. CASE RefuseVote(j, m) \/ RepeatVote(j, m)
  <2>1. VoteTypes' /\ UNCHANGED disk
    BY <1>2, <1>3 DEF RefuseVote, RepeatVote, VoteTypes
  <2>2. VoteNetTypes'
    <3>1. PICK granted \in BOOLEAN : AnswerVote(j, m, granted)
      BY <1>3 DEF RefuseVote, RepeatVote
    <3> QED
      BY <1>2, <3>1, AnswerVoteTypes DEF VoteNetTypes
  <2> QED
    BY <1>2, <2>1, <2>2, NothingApplied
<1>4. CASE MeetNewTerm(j, m)
  <2>1. VoteTypes'
    <3>1. [Term |-> m.Term, id |-> m.CandidateId] \in VoteFor
      BY <1>1 DEF VoteFor
    <3> QED
      BY <1>1, <1>2, <1>4, <3>1 DEF MeetNewTerm, VoteTypes, Role
  <2>2. VoteNetTypes'
    <3>1. LogUpToDate(j, m) \in BOOLEAN
      BY DEF LogUpToDate
    <3>2. AnswerVote(j, m, LogUpToDate(j, m))
      BY <1>4 DEF MeetNewTerm
    <3> QED
      BY <1>2, <3>1, <3>2, AnswerVoteTypes DEF VoteNetTypes
  <2>3. Persist(j)
    BY <1>4 DEF MeetNewTerm
  <2> QED
    BY <1>2, <2>1, <2>2, <2>3, NothingApplied
<1> QED
  BY <1>3, <1>4 DEF RequestVote

LEMMA CountVoteTypes ==
    ASSUME TypeInv, NEW i \in Server, NEW r \in voteReplies, CountVote(i, r) PROVE TypeInv'
<1> USE DEF TypeInv
<1> DEFINE granted == election[i].granted \cup {r.from}
           leads == IsMajority(granted) /\ State[i] = "Candidate"
<1>1. r.from \in Server /\ election[i].Term \in Nat /\ granted \subseteq Server
      /\ LastLogIndex(i) \in Nat
  BY LogFacts DEF VoteNetTypes, RequestVoteReply, RoutineTypes
<1>2. /\ election' = [election EXCEPT ![i] = IF IsMajority(granted) THEN NoElection
                                   ELSE [Term |-> election[i].Term, granted |-> granted]]
      /\ IF leads THEN BecomeLeader(i) ELSE UNCHANGED <<State, leaderVars>>
      /\ UNCHANGED <<Term, voteFor, logEntries, applyVars, calls, late, deferred, voteNet, aeReqs>>
      /\ IF leads THEN Persist(i) ELSE UNCHANGED disk
  BY DEF CountVote
<1>3. RoutineTypes'
  <2> HIDE DEF granted
  <2>1. (IF IsMajority(granted) THEN NoElection ELSE [Term |-> election[i].Term, granted |-> granted])
          \in [Term : Nat, granted : SUBSET Server]
    BY <1>1 DEF NoElection
  <2> QED
    BY <1>2, <2>1 DEF RoutineTypes
<1> HIDE DEF leads
<1>4. VoteTypes' /\ LeaderTypes'
  <2>1. CASE leads
    <3>1. BecomeLeader(i)
      BY <1>2, <2>1
    <3>2. VoteTypes'
      BY <1>2, <3>1 DEF BecomeLeader, VoteTypes, Role
    <3>3. /\ [j \in Server |-> LastLogIndex(i) + 1] \in [Server -> Nat]
          /\ [j \in Server |-> IF j = i THEN LastLogIndex(i) ELSE 0] \in [Server -> Nat]
      BY <1>1
    <3> QED
      BY <3>1, <3>2, <3>3 DEF BecomeLeader, LeaderTypes
  <2>2. CASE ~leads
    BY <1>2, <2>2 DEF VoteTypes, LeaderTypes
  <2> QED
    BY <2>1, <2>2
<1>5. LogTypes' /\ ApplyTypes' /\ VoteNetTypes' /\ CallTypes'
  BY <1>2 DEF LogTypes, ApplyTypes, VoteNetTypes, CallTypes
<1>6. disk' \in [Server -> Disk] /\ AppliedExact'
  BY <1>2, <1>4, <1>5, NothingApplied
<1> QED
  BY <1>3, <1>4, <1>5, <1>6

LEMMA TakeTermOfReplyTypes ==
    ASSUME TypeInv, NEW i \in Server, NEW r \in voteReplies, TakeTermOfReply(i, r) PROVE TypeInv'
<1> USE DEF TypeInv
<1>1. r.Term \in Nat
  BY DEF VoteNetTypes, RequestVoteReply
<1>2. VoteTypes'
  BY <1>1, StepDownTypes DEF TakeTermOfReply
<1>3. /\ LogTypes' /\ ApplyTypes' /\ LeaderTypes' /\ RoutineTypes' /\ VoteNetTypes' /\ CallTypes'
  BY DEF TakeTermOfReply, LogTypes, ApplyTypes, LeaderTypes, RoutineTypes, VoteNetTypes, CallTypes
<1>4. disk' \in [Server -> Disk] /\ AppliedExact'
  BY <1>2, <1>3, NothingApplied DEF TakeTermOfReply
<1> QED
  BY <1>2, <1>3, <1>4

-----------------------------------------------------------------------------
(* Types: log replication *)

LEMMA StartTypes == ASSUME TypeInv, NEW i \in Server, Start(i) PROVE TypeInv'
<1> USE DEF TypeInv
<1>1. /\ Term[i] \in Nat /\ logEntries[i] \in Seq(LogEntry) /\ LastLogIndex(i) + 1 \in Nat
  BY LogFacts DEF VoteTypes
<1>2. [Term |-> Term[i], Command |-> i] \in LogEntry
  BY <1>1 DEF LogEntry
<1>3. Append(logEntries[i], [Term |-> Term[i], Command |-> i]) \in Seq(LogEntry)
  BY <1>1, <1>2, AppendProperties
<1>4. LogTypes'
  BY <1>3 DEF Start, LogTypes
<1>5. VoteTypes' /\ ApplyTypes' /\ RoutineTypes' /\ VoteNetTypes' /\ CallTypes'
  BY DEF Start, VoteTypes, ApplyTypes, RoutineTypes, VoteNetTypes, CallTypes
<1>6. LeaderTypes'
  <2>1. matchIndex[i] \in [Server -> Nat]
    BY DEF LeaderTypes
  <2>2. [matchIndex[i] EXCEPT ![i] = LastLogIndex(i) + 1] \in [Server -> Nat]
    BY <1>1, <2>1
  <2> QED
    BY <2>2 DEF Start, LeaderTypes
<1>7. disk' \in [Server -> Disk] /\ AppliedExact'
  BY <1>4, <1>5, NothingApplied DEF Start
<1> QED
  BY <1>4, <1>5, <1>6, <1>7

LEMMA ArgsForType ==
    ASSUME VoteTypes, LogTypes, ApplyTypes, LeaderTypes, NEW i \in Server, NEW j \in Server,
           nextIndex[i][j] # 0
    PROVE  /\ ArgsFor(i, j) \in {m \in HeartBeatArgs : FirstMatches(m)}
           /\ ArgsFor(i, j).to = j /\ ArgsFor(i, j).LeaderId = i /\ ArgsFor(i, j).Term = Term[i]
<1> DEFINE prev == IF nextIndex[i][j] > LastLogIndex(i) THEN LastLogIndex(i) ELSE nextIndex[i][j] - 1
           m == [LeaderId |-> i, to |-> j, Term |-> Term[i],
                 PrevLogIndex |-> prev, PervLogTerm |-> TermAt(i, prev),
                 Entries |-> SubSeq(logEntries[i], prev + 1, LastLogIndex(i)),
                 LeaderCommit |-> commitIndex[i]]
<1>1. /\ nextIndex[i][j] \in Nat /\ LastLogIndex(i) \in Nat /\ logEntries[i] \in Seq(LogEntry)
      /\ LastLogIndex(i) = Len(logEntries[i]) /\ Term[i] \in Nat /\ commitIndex[i] \in Nat
  BY LogFacts DEF VoteTypes, ApplyTypes, LeaderTypes
<1>2. prev \in Nat /\ prev <= LastLogIndex(i)
  BY <1>1
<1> HIDE DEF prev
<1>3. TermAt(i, prev) \in Nat /\ (prev = 0 => TermAt(i, prev) = 0)
  BY <1>2, LogFacts DEF TermAt
<1>4. SubSeq(logEntries[i], prev + 1, LastLogIndex(i)) \in Seq(LogEntry)
  BY <1>1, <1>2, SubSeqType
<1>5. m \in HeartBeatArgs /\ FirstMatches(m) /\ m.to = j /\ m.LeaderId = i /\ m.Term = Term[i]
  BY <1>1, <1>2, <1>3, <1>4 DEF HeartBeatArgs, FirstMatches
<1>6. ArgsFor(i, j) = m
  BY DEF ArgsFor, prev
<1> QED
  BY <1>5, <1>6

LEMMA SendAppendEntriesTypes ==
    ASSUME TypeInv, NEW i \in Server, NEW j \in Server, SendAppendEntries(i, j) PROVE TypeInv'
<1> USE DEF TypeInv
<1>1. /\ VoteTypes' /\ LogTypes' /\ ApplyTypes' /\ LeaderTypes' /\ VoteNetTypes'
      /\ UNCHANGED <<election, deferred, disk>>
  BY DEF SendAppendEntries, VoteTypes, LogTypes, ApplyTypes, LeaderTypes, VoteNetTypes
<1>2. CASE nextIndex[i][j] = 0
  <2>1. UNCHANGED <<aeReqs, calls>>
    BY <1>2 DEF SendAppendEntries
  <2>2. RoutineTypes' /\ CallTypes'
    BY <1>1, <2>1 DEF RoutineTypes, CallTypes
  <2> QED
    BY <1>1, <2>2, NothingApplied DEF SendAppendEntries
<1>3. CASE nextIndex[i][j] # 0
  <2> DEFINE m == ArgsFor(i, j)
  <2>1. m \in {a \in HeartBeatArgs : FirstMatches(a)}
    BY <1>3, ArgsForType
  <2>2. /\ aeReqs' = aeReqs \cup {m}
        /\ calls' = [calls EXCEPT ![i][j] = [open |-> TRUE, args |-> m, replies |-> {}]]
    BY <1>3 DEF SendAppendEntries
  <2> HIDE DEF m
  <2>3. [open |-> TRUE, args |-> m, replies |-> {}] \in CallState
    BY <2>1 DEF CallState
  <2>4. RoutineTypes' /\ CallTypes'
    BY <1>1, <2>1, <2>2, <2>3 DEF RoutineTypes, CallTypes
  <2> QED
    BY <1>1, <2>4, NothingApplied DEF SendAppendEntries
<1> QED
  BY <1>2, <1>3

LEMMA AnswerAppendTypes ==
    ASSUME RoutineTypes, NEW j \in Server, NEW m \in HeartBeatArgs, NEW reply \in Answer,
           AnswerAppend(j, m, reply)
    PROVE  calls' \in [Server -> [Server -> CallState]]
<1> DEFINE call == calls[m.LeaderId][j]
<1>1. m.LeaderId \in Server /\ call \in CallState
  BY DEF HeartBeatArgs, RoutineTypes
<1>2. CASE UNCHANGED calls
  BY <1>2 DEF RoutineTypes
<1>3. CASE call.open /\ calls' = [calls EXCEPT ![m.LeaderId][j].replies = {reply}]
  <2>1. call \in [open : {TRUE}, args : HeartBeatArgs, replies : SUBSET Answer]
    <3>1. ASSUME call = NoCall PROVE FALSE
      <4>1. NoCall.open = FALSE
        BY DEF NoCall
      <4> QED
        BY <1>3, <3>1, <4>1
    <3> HIDE DEF call
    <3> QED
      BY <1>1, <3>1 DEF CallState
  <2>2. [call EXCEPT !.replies = {reply}] \in CallState
    BY <2>1 DEF CallState
  <2> QED
    BY <1>1, <1>3, <2>2 DEF RoutineTypes
<1> QED
  BY <1>2, <1>3 DEF AnswerAppend

LEMMA OverwriteTypes ==
    ASSUME LogTypes, NEW j \in Server, NEW keep \in Nat, keep <= LastLogIndex(j), NEW m,
           NEW entries \in Seq(LogEntry), Overwrite(j, keep, m, entries)
    PROVE  LogTypes' /\ (accident' = accident \/ accident' = accident \cup {"lateCut"})
<1>1. /\ logEntries[j] \in Seq(LogEntry) /\ keep <= Len(logEntries[j])
  BY LogFacts
<1>2. SubSeq(logEntries[j], 1, keep) \in Seq(LogEntry)
  BY <1>1, SubSeqType
<1>3. SubSeq(logEntries[j], 1, keep) \o entries \in Seq(LogEntry)
  BY <1>2, ConcatProperties
<1>4. logEntries' = [logEntries EXCEPT ![j] = SubSeq(logEntries[j], 1, keep) \o entries]
  BY DEF Overwrite
<1>5. accident' = accident \/ accident' = accident \cup {"lateCut"}
  BY DEF Overwrite
<1> QED
  BY <1>3, <1>4, <1>5 DEF LogTypes

LEMMA AppendEntriesTypes ==
    ASSUME TypeInv, NEW j \in Server, NEW m \in aeReqs, AppendEntries(j, m) PROVE TypeInv'
<1> USE DEF TypeInv
<1>1. /\ m \in HeartBeatArgs /\ m.Term \in Nat /\ m.PrevLogIndex \in Nat /\ FirstMatches(m)
      /\ m.Entries \in Seq(LogEntry) /\ Len(m.Entries) \in Nat /\ m.LeaderCommit \in Nat
  BY DEF CallTypes, HeartBeatArgs
<1>2. Term[j] \in Nat /\ LastLogIndex(j) \in Nat
  BY LogFacts DEF VoteTypes
<1>3. /\ ApplyTypes' /\ LeaderTypes' /\ VoteNetTypes' /\ CallTypes'
      /\ UNCHANGED <<election, lastApplied, applied>>
  BY DEF AppendEntries, ApplyTypes, LeaderTypes, VoteNetTypes, CallTypes
<1>4. ASSUME NEW term \in Nat, NEW success \in BOOLEAN, NEW next \in Nat, success => next > 0,
             AnswerAppend(j, m, [Term |-> term, Success |-> success, NextIndex |-> next])
      PROVE  calls' \in [Server -> [Server -> CallState]]
  <2>1. [Term |-> term, Success |-> success, NextIndex |-> next] \in Answer
    BY <1>4 DEF Answer, AppendEntriesReply
  <2> QED
    BY <1>1, <1>4, <2>1, AnswerAppendTypes
<1>5. Accepts(j, m) => VoteTypes'
  BY <1>1, StepDownTypes DEF Accepts
<1>6. ASSUME VoteTypes', LogTypes', calls' \in [Server -> [Server -> CallState]],
             deferred' \in [Server -> SUBSET [commit : Nat, seen : BOOLEAN]],
             UNCHANGED disk \/ Persist(j)
      PROVE  TypeInv'
  <2>1. RoutineTypes'
    BY <1>3, <1>6 DEF RoutineTypes
  <2>2. disk' \in [Server -> Disk] /\ AppliedExact'
    BY <1>3, <1>6, NothingApplied
  <2> QED
    BY <1>3, <1>6, <2>1, <2>2
<1>7. UNCHANGED deferred => deferred' \in [Server -> SUBSET [commit : Nat, seen : BOOLEAN]]
  BY DEF RoutineTypes
<1>8. UNCHANGED logEntries => LogTypes'
  BY DEF LogTypes
<1> HIDE DEF TypeInv
<1>9. CASE RejectAppend(j, m)
  <2>1. calls' \in [Server -> [Server -> CallState]]
    BY <1>2, <1>4, <1>9 DEF RejectAppend
  <2>2. VoteTypes'
    BY <1>9 DEF RejectAppend, TypeInv, VoteTypes
  <2> QED
    BY <1>6, <1>7, <1>8, <1>9, <2>1, <2>2 DEF RejectAppend
<1>10. CASE MissEntries(j, m)
  <2>1. calls' \in [Server -> [Server -> CallState]]
    <3>1. AnswerAppend(j, m, [Term |-> Term[j], Success |-> FALSE, NextIndex |-> LastLogIndex(j) + 1])
      BY <1>10 DEF MissEntries
    <3>2. LastLogIndex(j) + 1 \in Nat /\ FALSE \in BOOLEAN
      BY <1>2
    <3> QED
      BY <1>2, <1>4, <3>1, <3>2
  <2> QED
    BY <1>5, <1>6, <1>7, <1>8, <1>10, <2>1 DEF MissEntries
<1>11. CASE CutTail(j, m)
  <2>1. calls' \in [Server -> [Server -> CallState]]
    <3>1. AnswerAppend(j, m, [Term |-> Term[j], Success |-> FALSE, NextIndex |-> LastLogIndex(j) + 1])
      BY <1>11 DEF CutTail
    <3>2. LastLogIndex(j) + 1 \in Nat /\ FALSE \in BOOLEAN
      BY <1>2
    <3> QED
      BY <1>2, <1>4, <3>1, <3>2
  <2>2. LogTypes'
    <3>1. m.PrevLogIndex <= LastLogIndex(j) /\ <<>> \in Seq(LogEntry)
      BY <1>1, <1>2, <1>11 DEF CutTail
    <3> QED
      BY <1>1, <1>11, <3>1, OverwriteTypes DEF CutTail, TypeInv
  <2> QED
    BY <1>5, <1>6, <1>7, <1>11, <2>1, <2>2 DEF CutTail
<1>12. CASE OverwriteTail(j, m)
  <2>1. calls' \in [Server -> [Server -> CallState]]
    <3>1. Matches(j, m) \in BOOLEAN
      BY DEF Matches
    <3>2. /\ m.PrevLogIndex + 1 + (IF Matches(j, m) THEN Len(m.Entries) ELSE 0) \in Nat
          /\ m.PrevLogIndex + 1 + (IF Matches(j, m) THEN Len(m.Entries) ELSE 0) > 0
      BY <1>1
    <3> QED
      BY <1>2, <1>4, <1>12, <3>1, <3>2 DEF OverwriteTail
  <2>2. LogTypes'
    <3>1. m.PrevLogIndex <= LastLogIndex(j) /\ <<>> \in Seq(LogEntry)
      BY <1>1, <1>2, <1>12 DEF OverwriteTail
    <3>2. CASE Matches(j, m)
      BY <1>1, <1>12, <3>1, <3>2, OverwriteTypes DEF OverwriteTail, TypeInv
    <3>3. CASE ~Matches(j, m)
      <4>1. m.PrevLogIndex # 0
        BY <1>1, <3>3 DEF Matches, FirstMatches, TermAt
      <4>2. m.PrevLogIndex - 1 \in Nat /\ m.PrevLogIndex - 1 <= LastLogIndex(j)
        BY <1>1, <1>2, <3>1, <4>1
      <4> QED
        BY <1>12, <3>1, <3>3, <4>2, OverwriteTypes DEF OverwriteTail, TypeInv
    <3> QED
      BY <3>2, <3>3
  <2> QED
    BY <1>5, <1>6, <1>7, <1>12, <2>1, <2>2 DEF OverwriteTail
<1>13. CASE RefuseTail(j, m)
  <2>1. calls' \in [Server -> [Server -> CallState]]
    <3>1. AnswerAppend(j, m, [Term |-> Term[j], Success |-> FALSE, NextIndex |-> LastLogIndex(j) + 1])
      BY <1>13 DEF RefuseTail
    <3>2. LastLogIndex(j) + 1 \in Nat /\ FALSE \in BOOLEAN
      BY <1>2
    <3> QED
      BY <1>2, <1>4, <3>1, <3>2
  <2> QED
    BY <1>5, <1>6, <1>7, <1>8, <1>13, <2>1 DEF RefuseTail
<1>14. CASE AppendTail(j, m)
  <2>1. calls' \in [Server -> [Server -> CallState]]
    <3>1. m.PrevLogIndex + 1 + Len(m.Entries) \in Nat /\ m.PrevLogIndex + 1 + Len(m.Entries) > 0
      BY <1>1
    <3> QED
      BY <1>2, <1>4, <1>14, <3>1 DEF AppendTail
  <2>2. LogTypes'
    <3>1. m.PrevLogIndex <= LastLogIndex(j)
      BY <1>1, <1>2, <1>14 DEF AppendTail
    <3> QED
      BY <1>1, <1>14, <3>1, OverwriteTypes DEF AppendTail, TypeInv
  <2>3. deferred' \in [Server -> SUBSET [commit : Nat, seen : BOOLEAN]]
    <3>1. deferred \in [Server -> SUBSET [commit : Nat, seen : BOOLEAN]]
      BY DEF TypeInv, RoutineTypes
    <3>2. [commit |-> m.LeaderCommit, seen |-> FALSE] \in [commit : Nat, seen : BOOLEAN]
      BY <1>1
    <3> QED
      BY <1>14, <3>1, <3>2 DEF AppendTail
  <2> QED
    BY <1>5, <1>6, <1>14, <2>1, <2>2, <2>3 DEF AppendTail
<1> QED
  BY <1>9, <1>10, <1>11, <1>12, <1>13, <1>14 DEF AppendEntries

LEMMA CommitTypes ==
    ASSUME TypeInv, NEW j \in Server, NEW c \in deferred[j], CompareCommit(j, c) \/ AssignCommit(j, c)
    PROVE  TypeInv'
<1> USE DEF TypeInv
<1>1. deferred[j] \in SUBSET [commit : Nat, seen : BOOLEAN] /\ c \in [commit : Nat, seen : BOOLEAN]
  BY DEF RoutineTypes
<1>2. /\ VoteTypes' /\ LogTypes' /\ LeaderTypes' /\ VoteNetTypes' /\ CallTypes'
      /\ UNCHANGED <<disk, election, calls, lastApplied, applied>>
  BY DEF CompareCommit, AssignCommit, VoteTypes, LogTypes, LeaderTypes, VoteNetTypes, CallTypes
<1>3. ApplyTypes' /\ deferred' \in [Server -> SUBSET [commit : Nat, seen : BOOLEAN]]
  <2>1. CASE CompareCommit(j, c)
    <3>1. [c EXCEPT !.seen = TRUE] \in [commit : Nat, seen : BOOLEAN]
      BY <1>1
    <3> QED
      BY <1>1, <2>1, <3>1 DEF CompareCommit, ApplyTypes, RoutineTypes
  <2>2. CASE AssignCommit(j, c)
    BY <1>1, <2>2 DEF AssignCommit, ApplyTypes, RoutineTypes
  <2> QED
    BY <2>1, <2>2
<1>4. RoutineTypes'
  BY <1>2, <1>3 DEF RoutineTypes
<1> QED
  BY <1>2, <1>3, <1>4, NothingApplied

LEMMA CheckReplyTypes ==
    ASSUME TypeInv, NEW i \in Server, NEW j \in Open(i), NEW r \in calls[i][j].replies,
           CheckReply(i, j, r)
    PROVE  TypeInv'
<1> USE DEF TypeInv
<1> DEFINE m == calls[i][j].args
<1>1. j \in Server /\ r \in Answer
  <2>1. j \in Server /\ calls[i][j].open /\ calls[i][j] \in CallState
    BY DEF Open, RoutineTypes
  <2>2. calls[i][j] # NoCall
    BY <2>1 DEF NoCall
  <2> QED
    BY <2>1, <2>2 DEF CallState
<1>2. r.Term \in Nat /\ r.NextIndex \in Nat /\ (r.Success => r.NextIndex - 1 \in Nat)
  BY <1>1 DEF Answer, AppendEntriesReply
<1>3. /\ LogTypes' /\ VoteNetTypes' /\ CallTypes' /\ UNCHANGED <<voteFor, lastApplied, applied>>
  BY DEF CheckReply, LogTypes, VoteNetTypes, CallTypes
<1>4. RoutineTypes'
  BY DEF CheckReply, RoutineTypes, CallState
<1>5. /\ nextIndex[i] \in [Server -> Nat] /\ matchIndex[i] \in [Server -> Nat]
      /\ nextIndex \in [Server -> [Server -> Nat]] /\ matchIndex \in [Server -> [Server -> Nat]]
      /\ commitIndex \in [Server -> Nat] /\ notified \in [Server -> BOOLEAN]
  BY DEF LeaderTypes, ApplyTypes
<1>6. ASSUME VoteTypes', LeaderTypes', commitIndex' \in [Server -> Nat],
             notified' \in [Server -> BOOLEAN], UNCHANGED disk \/ Persist(i)
      PROVE  TypeInv'
  <2>1. ApplyTypes'
    BY <1>3, <1>6 DEF ApplyTypes
  <2> QED
    BY <1>3, <1>4, <1>6, <2>1, NothingApplied
<1>7. UNCHANGED <<State, Term, late>> => VoteTypes'
  BY <1>3 DEF VoteTypes
<1>8. CASE r.Term > Term[i] /\ StepDown(i, r.Term)
           /\ UNCHANGED <<leaderVars, commitIndex, notified, panicked>> /\ Persist(i)
  <2>1. VoteTypes'
    BY <1>2, <1>3, <1>8, StepDownTypes
  <2> QED
    BY <1>5, <1>6, <1>8, <2>1 DEF LeaderTypes
<1>9. CASE UNCHANGED <<State, Term, late, leaderVars, commitIndex, notified, disk, panicked>>
  BY <1>5, <1>6, <1>7, <1>9 DEF LeaderTypes
<1>10. CASE UNCHANGED <<State, Term, late>> /\ ReplyAccepted(i, j, m, r)
  <2>1. r.NextIndex - 1 \in Nat
    BY <1>2, <1>10 DEF ReplyAccepted
  <2>2. LeaderTypes'
    <3>1. /\ [nextIndex[i] EXCEPT ![j] = r.NextIndex] \in [Server -> Nat]
          /\ [matchIndex[i] EXCEPT ![j] = r.NextIndex - 1] \in [Server -> Nat]
      BY <1>2, <1>5, <2>1
    <3> QED
      BY <1>1, <1>5, <1>10, <3>1 DEF ReplyAccepted, LeaderTypes
  <2>3. commitIndex' \in [Server -> Nat] /\ notified' \in [Server -> BOOLEAN]
    <3> DEFINE ready == Committable(i, [matchIndex[i] EXCEPT ![j] = r.NextIndex - 1])
    <3>1. \/ UNCHANGED <<commitIndex, notified>>
          \/ ready # {} /\ commitIndex' = [commitIndex EXCEPT ![i] = Largest(ready)]
                        /\ notified' = [notified EXCEPT ![i] = TRUE]
      BY <1>10 DEF ReplyAccepted, AdvanceCommit
    <3>2. LastLogIndex(i) \in Nat /\ ready \in SUBSET (0..LastLogIndex(i))
      BY <1>5, LogFacts DEF Committable
    <3> HIDE DEF ready
    <3>3. ready # {} => Largest(ready) \in Nat
      BY <3>2, LargestIn
    <3> QED
      BY <1>5, <3>1, <3>3
  <2> QED
    BY <1>6, <1>7, <1>10, <2>2, <2>3 DEF ReplyAccepted
<1>11. CASE UNCHANGED <<State, Term, late>> /\ ReplyMoves(i, j, r)
  <2>1. LeaderTypes'
    <3>1. [nextIndex[i] EXCEPT ![j] = r.NextIndex] \in [Server -> Nat]
      BY <1>2, <1>5
    <3> QED
      BY <1>1, <1>5, <1>11, <3>1 DEF ReplyMoves, LeaderTypes
  <2> QED
    BY <1>5, <1>6, <1>7, <1>11, <2>1 DEF ReplyMoves
<1>12. CASE UNCHANGED <<State, Term, late>> /\ ReplyBacksUp(i, j, m, r)
  <2> DEFINE lower == {k \in 0 .. nextIndex[i][j] - 2 : TermAt(i, k) < m.PervLogTerm}
  <2>1. /\ UNCHANGED <<matchIndex, commitIndex, notified>>
        /\ \/ UNCHANGED <<nextIndex, disk>>
           \/ lower # {} /\ nextIndex' = [nextIndex EXCEPT ![i][j] = Largest(lower)] /\ Persist(i)
    BY <1>12 DEF ReplyBacksUp
  <2>2. /\ nextIndex[i][j] \in Nat /\ lower \in SUBSET (0..nextIndex[i][j])
        /\ \A k \in lower : k \in Nat
    BY <1>1, <1>5
  <2> HIDE DEF lower
  <2>3. lower # {} => Largest(lower) \in Nat
    <3>1. lower # {} => Largest(lower) \in lower
      BY <2>2, LargestIn
    <3> QED
      BY <2>2, <3>1, Zenon
  <2>4. LeaderTypes'
    BY <1>1, <1>5, <2>1, <2>3 DEF LeaderTypes
  <2> QED
    BY <1>5, <1>6, <1>7, <1>12, <2>1, <2>4
<1> QED
  BY <1>8, <1>9, <1>10, <1>11, <1>12 DEF CheckReply

-----------------------------------------------------------------------------
(* Types: applying, restarts *)

LEMMA StartApplyLogsTypes == ASSUME TypeInv, NEW i \in Server, StartApplyLogs(i) PROVE TypeInv'
<1> USE DEF TypeInv
<1>1. /\ VoteTypes' /\ LogTypes' /\ LeaderTypes' /\ RoutineTypes' /\ VoteNetTypes' /\ CallTypes'
      /\ UNCHANGED commitIndex
  BY DEF StartApplyLogs, VoteTypes, LogTypes, LeaderTypes, RoutineTypes, VoteNetTypes, CallTypes
<1>2. /\ lastApplied \in [Server -> Nat] /\ notified \in [Server -> BOOLEAN]
      /\ applied \in [Server -> Seq(LogEntry)] /\ commitIndex \in [Server -> Nat]
      /\ logEntries[i] \in Seq(LogEntry) /\ LastLogIndex(i) = Len(logEntries[i])
      /\ LastLogIndex(i) \in Nat
  BY LogFacts DEF ApplyTypes
<1>3. CASE UNCHANGED <<lastApplied, applied, disk>> /\ notified' \in [Server -> BOOLEAN]
  <2>1. ApplyTypes'
    BY <1>1, <1>2, <1>3 DEF ApplyTypes
  <2> QED
    BY <1>1, <1>3, <2>1, NothingApplied
<1>4. ASSUME NEW k \in lastApplied[i] + 1 .. commitIndex[i],
             commitIndex[i] <= LastLogIndex(i), lastApplied[i] < commitIndex[i],
             applied' = [applied EXCEPT ![i] = SubSeq(@, 1, lastApplied[i]) \o
                                               SubSeq(logEntries[i], lastApplied[i] + 1, k)],
             lastApplied' = [lastApplied EXCEPT ![i] = k],
             notified' = [notified EXCEPT ![i] = k < commitIndex[i]],
             Persist(i)
      PROVE  TypeInv'
  <2> DEFINE old == SubSeq(applied[i], 1, lastApplied[i])
             new == SubSeq(logEntries[i], lastApplied[i] + 1, k)
  <2>1. k \in Nat /\ lastApplied[i] + 1 <= k /\ k <= Len(logEntries[i]) /\ lastApplied[i] \in Nat
        /\ applied[i] \in Seq(LogEntry) /\ lastApplied[i] = Len(applied[i])
        /\ lastApplied[i] + 1 > 0 /\ lastApplied[i] + 1 \in Nat
    BY <1>2, <1>4 DEF AppliedExact
  <2>2. old \in Seq(LogEntry) /\ Len(old) = lastApplied[i]
    BY <2>1, SubSeqType
  <2>3. new \in Seq(LogEntry) /\ Len(new) = k - lastApplied[i]
    BY <1>2, <2>1, SubSeqType
  <2> HIDE DEF old, new
  <2>4. old \o new \in Seq(LogEntry) /\ Len(old \o new) = k
    <3>1. old \o new \in Seq(LogEntry) /\ Len(old \o new) = Len(old) + Len(new)
      BY <2>2, <2>3, ConcatProperties
    <3> QED
      BY <2>1, <2>2, <2>3, <3>1
  <2>5. /\ applied' = [applied EXCEPT ![i] = old \o new] /\ applied' \in [Server -> Seq(LogEntry)]
        /\ lastApplied' \in [Server -> Nat] /\ lastApplied'[i] = k /\ applied'[i] = old \o new
        /\ \A s \in Server \ {i} : lastApplied'[s] = lastApplied[s] /\ applied'[s] = applied[s]
    BY <1>2, <1>4, <2>1, <2>4 DEF old, new
  <2>6. notified' \in [Server -> BOOLEAN]
    <3> DEFINE b == k < commitIndex[i]
    <3>1. b \in BOOLEAN /\ notified' = [notified EXCEPT ![i] = b]
      BY <1>4
    <3> HIDE DEF b
    <3> QED
      BY <1>2, <3>1, Zenon
  <2>7. ApplyTypes'
    BY <1>1, <1>2, <2>5, <2>6 DEF ApplyTypes
  <2>8. disk' \in [Server -> Disk] /\ AppliedExact'
    <3>1. /\ disk' \in [Server -> Disk] /\ disk'[i].lastApplied = lastApplied'[i]
          /\ \A s \in Server \ {i} : disk'[s] = disk[s]
      BY <1>1, <1>4, <2>7, PersistTypes
    <3> QED
      BY <2>4, <2>5, <3>1 DEF AppliedExact
  <2> QED
    BY <1>1, <2>7, <2>8
<1>5. \/ UNCHANGED <<lastApplied, applied, disk>> /\ notified' \in [Server -> BOOLEAN]
      \/ /\ lastApplied[i] < commitIndex[i] /\ commitIndex[i] <= LastLogIndex(i)
         /\ \E k \in lastApplied[i] + 1 .. commitIndex[i] :
              /\ applied' = [applied EXCEPT ![i] = SubSeq(@, 1, lastApplied[i]) \o
                                                   SubSeq(logEntries[i], lastApplied[i] + 1, k)]
              /\ lastApplied' = [lastApplied EXCEPT ![i] = k]
              /\ notified' = [notified EXCEPT ![i] = k < commitIndex[i]]
         /\ Persist(i)
  BY <1>2 DEF StartApplyLogs
<1> QED
  BY <1>3, <1>4, <1>5

LEMMA RestartTypes == ASSUME TypeInv, NEW i \in Server, Restart(i) PROVE TypeInv'
<1> USE DEF TypeInv
<1>1. disk[i] \in Disk
  OBVIOUS
<1>2. /\ disk[i].Term \in Nat /\ disk[i].voteFor \in VoteFor /\ disk[i].commitIndex \in Nat
      /\ disk[i].lastApplied \in Nat /\ disk[i].logEntries \in Seq(LogEntry)
  BY <1>1 DEF Disk
<1>3. VoteTypes'
  BY <1>2 DEF Restart, VoteTypes, Role
<1>4. LogTypes' /\ VoteNetTypes' /\ CallTypes' /\ UNCHANGED disk
  BY <1>2 DEF Restart, LogTypes, VoteNetTypes, CallTypes
<1>5. LeaderTypes'
  <2>1. [j \in Server |-> 0] \in [Server -> Nat]
    OBVIOUS
  <2> QED
    BY <2>1 DEF Restart, LeaderTypes
<1>6. RoutineTypes'
  <2>1. NoElection \in [Term : Nat, granted : SUBSET Server]
    BY DEF NoElection
  <2>2. [j \in Server |-> NoCall] \in [Server -> CallState]
    BY DEF CallState
  <2> QED
    BY <2>1, <2>2 DEF Restart, RoutineTypes
<1>7. ApplyTypes' /\ AppliedExact'
  BY <1>2 DEF Restart, ApplyTypes, AppliedExact
<1> QED
  BY <1>3, <1>4, <1>5, <1>6, <1>7

LEMMA TypeStep == TypeInv /\ [Next]_vars => TypeInv'
<1> SUFFICES ASSUME TypeInv, [Next]_vars PROVE TypeInv'
  OBVIOUS
<1>1. CASE UNCHANGED vars
  BY <1>1 DEF vars, TypeInv, VoteTypes, LogTypes, ApplyTypes, LeaderTypes, RoutineTypes,
              VoteNetTypes, CallTypes, AppliedExact
<1>2. CASE Next
  <2>1. Alive \subseteq Server
    BY DEF Alive
  <2> QED
    BY <1>2, <2>1, StartElectionTypes, RequestVoteTypes, CountVoteTypes, TakeTermOfReplyTypes,
       StartTypes, SendAppendEntriesTypes, AppendEntriesTypes, CommitTypes, CheckReplyTypes,
       StartApplyLogsTypes, RestartTypes DEF Next
<1> QED
  BY <1>1, <1>2

LEMMA TypeInvariant == Spec => []TypeInv
  BY InitTypes, TypeStep, PTL DEF Spec

\* Every variable, message and persisted record has its type: no index is negative, no
\* reply that was accepted moves a peer's next index below 1, whatever is reordered or lost.
THEOREM TypeCorrect == Spec => []TypeOK
<1>1. TypeInv => TypeOK
  <2> SUFFICES ASSUME TypeInv PROVE TypeOK
    OBVIOUS
  <2>1. \A i, j \in Server : calls[i][j].open => calls[i][j].replies \subseteq AppendEntriesReply
    <3> SUFFICES ASSUME NEW i \in Server, NEW j \in Server, calls[i][j].open
                 PROVE  calls[i][j].replies \subseteq AppendEntriesReply
      OBVIOUS
    <3>1. calls[i][j] \in CallState /\ calls[i][j] # NoCall
      BY DEF TypeInv, RoutineTypes, NoCall
    <3> QED
      BY <3>1 DEF CallState, Answer
  <2>2. \A i \in Server : logEntries[i] \in Seq(LogEntry) /\ applied[i] \in Seq(LogEntry)
    BY DEF TypeInv, LogTypes, ApplyTypes
  <2>3. \A i \in Server : disk[i].Term \in Nat /\ disk[i].logEntries \in Seq(LogEntry)
    BY DEF TypeInv, Disk
  <2> QED
    BY <2>1, <2>2, <2>3 DEF TypeInv, TypeOK, VoteTypes, Role, ApplyTypes, LeaderTypes,
                            VoteNetTypes, CallTypes
<1> QED
  BY <1>1, TypeInvariant, PTL

-----------------------------------------------------------------------------
(* What every step does to the votes *)

\* A peer's vote stays, or gives way to one of a newer term.
VotesKept == \A i \in Server : voteFor'[i] = voteFor[i] \/ voteFor'[i].Term > voteFor[i].Term

\* A vote that a step casts is the one the voter has just recorded.
NewVotesRecorded ==
    /\ voteReplies \subseteq voteReplies'
    /\ \A r \in voteReplies' \ voteReplies : r.granted =>
         /\ r.from # r.args.CandidateId
         /\ voteFor'[r.from] = [Term |-> r.args.Term, id |-> r.args.CandidateId]

\* Counted votes and new leaders rest on votes that were there before the step.
CountedBefore ==
    /\ \A i \in Server : \A s \in election'[i].granted \ {i} : Voted(s, i, election'[i].Term)
    /\ \A i \in Server : State'[i] = "Leader" => Elected(i, Term'[i])

VoteStep == VotesKept /\ NewVotesRecorded /\ CountedBefore /\ VotedForSelf' /\ VoteOnDisk'

LEMMA VotedStays ==
    ASSUME NewVotesRecorded, NEW s, NEW i, NEW t, Voted(s, i, t) PROVE Voted(s, i, t)'
  BY DEF NewVotesRecorded, Voted

LEMMA ReplyTypes ==
    ASSUME TypeInv, NEW r \in voteReplies
    PROVE  r.from \in Server /\ r.args.Term \in Nat /\ r.args.CandidateId \in Server /\ r.Term \in Nat
  BY DEF TypeInv, VoteNetTypes, RequestVoteReply, RequestVoteArgs

LEMMA VoteTerms ==
    ASSUME TypeInv, NEW i \in Server
    PROVE  /\ voteFor[i].Term \in Int /\ Term[i] \in Nat /\ disk[i].Term \in Nat
           /\ voteFor[i] = [Term |-> voteFor[i].Term, id |-> voteFor[i].id]
  BY DEF TypeInv, VoteTypes, VoteFor, Disk

LEMMA VoteStepKeepsInv ==
    ASSUME TypeInv, TypeInv', ElectionInv, VoteStep PROVE ElectionInv'
<1>1. VotedForSelf' /\ VoteOnDisk'
  BY DEF VoteStep
<1>2. \A r \in voteReplies' : r.from \in Server /\ r.args.Term \in Nat
  <2> SUFFICES ASSUME NEW r \in voteReplies' PROVE r.from \in Server /\ r.args.Term \in Nat
    OBVIOUS
  <2>1. voteReplies' \subseteq RequestVoteReply
    BY DEF TypeInv, VoteNetTypes
  <2> QED
    BY <2>1 DEF RequestVoteReply, RequestVoteArgs
<1>3. \A i \in Server : voteFor[i].Term \in Int /\ voteFor'[i].Term \in Int
  BY DEF TypeInv, VoteTypes, VoteFor
<1>4. ASSUME NEW r \in voteReplies', r.granted
      PROVE  /\ r.from # r.args.CandidateId
             /\ \/ voteFor'[r.from].Term > r.args.Term
                \/ voteFor'[r.from] = [Term |-> r.args.Term, id |-> r.args.CandidateId]
  <2>1. CASE r \in voteReplies
    <3>1. /\ r.from # r.args.CandidateId
          /\ \/ voteFor[r.from].Term > r.args.Term
             \/ voteFor[r.from] = [Term |-> r.args.Term, id |-> r.args.CandidateId]
      BY <1>4, <2>1 DEF ElectionInv, VotesStand
    <3>2. voteFor'[r.from] = voteFor[r.from] \/ voteFor'[r.from].Term > voteFor[r.from].Term
      BY <1>2 DEF VoteStep, VotesKept
    <3>3. /\ voteFor[r.from].Term \in Int /\ voteFor'[r.from].Term \in Int /\ r.args.Term \in Nat
          /\ voteFor[r.from].Term >= r.args.Term
      <4>1. voteFor[r.from].Term \in Int /\ voteFor'[r.from].Term \in Int /\ r.args.Term \in Nat
        BY <1>2, <1>3
      <4> QED
        BY <3>1, <4>1
    <3> QED
      BY <3>1, <3>2, <3>3
  <2>2. CASE r \notin voteReplies
    BY <1>4, <2>2 DEF VoteStep, NewVotesRecorded
  <2> QED
    BY <2>1, <2>2
<1>5. VotesStand'
  BY <1>4 DEF VotesStand
<1>6. VoteOnce'
  <2>1. ASSUME NEW new \in voteReplies' \ voteReplies, NEW r \in voteReplies',
               new.granted, r.granted, new.from = r.from, new.args.Term = r.args.Term
        PROVE  new.args.CandidateId = r.args.CandidateId
    <3>1. voteFor'[new.from] = [Term |-> new.args.Term, id |-> new.args.CandidateId]
      BY <2>1 DEF VoteStep, NewVotesRecorded
    <3>2. voteFor'[new.from].Term = r.args.Term /\ r.args.Term \in Nat
      BY <1>2, <2>1, <3>1
    <3>3. voteFor'[r.from] = [Term |-> r.args.Term, id |-> r.args.CandidateId]
      BY <1>4, <2>1, <3>2
    <3> QED
      BY <2>1, <3>1, <3>3
  <2>2. ASSUME NEW r1 \in voteReplies', NEW r2 \in voteReplies',
               r1.granted, r2.granted, r1.from = r2.from, r1.args.Term = r2.args.Term
        PROVE  r1.args.CandidateId = r2.args.CandidateId
    <3>1. CASE r1 \in voteReplies /\ r2 \in voteReplies
      BY <2>2, <3>1 DEF ElectionInv, VoteOnce
    <3>2. CASE r1 \notin voteReplies
      BY <2>1, <2>2, <3>2
    <3>3. CASE r2 \notin voteReplies
      BY <2>1, <2>2, <3>3
    <3> QED
      BY <3>1, <3>2, <3>3
  <2> QED
    BY <2>2 DEF VoteOnce
<1>7. VotesCounted'
  <2>1. ASSUME NEW i \in Server, NEW s \in election'[i].granted \ {i}
        PROVE  Voted(s, i, election[i].Term)'
    <3>1. Voted(s, i, election'[i].Term)
      BY DEF VoteStep, CountedBefore
    <3> QED
      BY <3>1 DEF VoteStep, NewVotesRecorded, Voted
  <2> QED
    BY <2>1 DEF VotesCounted
<1>8. LeadersElected'
  <2>1. ASSUME NEW i \in Server, State'[i] = "Leader" PROVE Elected(i, Term[i])'
    <3>1. PICK Q \in SUBSET Server : IsMajority(Q) /\ \A s \in Q \ {i} : Voted(s, i, Term'[i])
      BY <2>1 DEF VoteStep, CountedBefore, Elected
    <3>2. \A s \in Q \ {i} : Voted(s, i, Term[i])'
      BY <3>1 DEF VoteStep, NewVotesRecorded, Voted
    <3> QED
      BY <3>1, <3>2 DEF Elected, IsMajority
  <2> QED
    BY <2>1 DEF LeadersElected
<1> QED
  BY <1>1, <1>5, <1>6, <1>7, <1>8 DEF ElectionInv

\* What keeps the disk ahead of the vote: nothing, or persist().
LEMMA PersistVote ==
    ASSUME TypeInv, TypeInv', VoteOnDisk, NEW i \in Server,
           (UNCHANGED disk /\ voteFor'[i] = voteFor[i]) \/ Persist(i),
           voteFor'[i].Term <= Term'[i],
           \A s \in Server \ {i} : voteFor'[s] = voteFor[s] /\ Term'[s] = Term[s]
    PROVE  VoteOnDisk'
<1>1. CASE UNCHANGED disk /\ voteFor'[i] = voteFor[i]
  BY <1>1 DEF VoteOnDisk
<1>2. CASE Persist(i)
  <2>1. /\ disk'[i].Term = Term'[i] /\ disk'[i].voteFor = voteFor'[i]
        /\ \A s \in Server \ {i} : disk'[s] = disk[s]
    BY <1>2, PersistTypes DEF TypeInv
  <2> QED
    BY <2>1 DEF VoteOnDisk
<1> QED
  BY <1>1, <1>2

\* A step that touches neither roles nor votes.
LEMMA QuietStep ==
    ASSUME TypeInv, TypeInv', ElectionInv,
           UNCHANGED <<State, Term, voteFor, election, voteReplies>>,
           UNCHANGED disk \/ \E i \in Server : Persist(i)
    PROVE  VoteStep
<1> USE DEF ElectionInv
<1>1. VotesKept /\ NewVotesRecorded
  BY DEF VotesKept, NewVotesRecorded
<1>2. CountedBefore
  BY DEF CountedBefore, VotesCounted, LeadersElected
<1>3. VotedForSelf'
  BY DEF VotedForSelf
<1>4. VoteOnDisk'
  <2>1. CASE UNCHANGED disk
    BY <2>1 DEF VoteOnDisk
  <2>2. ASSUME NEW i \in Server, Persist(i) PROVE VoteOnDisk'
    BY <2>2, PersistVote DEF VoteOnDisk
  <2> QED
    BY <2>1, <2>2
<1> QED
  BY <1>1, <1>2, <1>3, <1>4 DEF VoteStep

\* A step by which peer i follows, in a term not before that of its vote.
LEMMA FollowStep ==
    ASSUME TypeInv, TypeInv', ElectionInv, NEW i \in Server, UNCHANGED <<voteFor, voteReplies>>,
           State'[i] = "Follower", voteFor[i].Term <= Term'[i],
           \A s \in Server \ {i} : State'[s] = State[s] /\ Term'[s] = Term[s],
           UNCHANGED election \/ election' = [election EXCEPT ![i] = NoElection],
           UNCHANGED disk \/ Persist(i)
    PROVE  VoteStep
<1> USE DEF ElectionInv
<1>1. VotesKept /\ NewVotesRecorded
  BY DEF VotesKept, NewVotesRecorded
<1>2. /\ DOMAIN election = Server /\ NoElection.granted = {}
  BY DEF TypeInv, RoutineTypes, NoElection
<1>3. \A s \in Server : election'[s] = election[s] \/ (s = i /\ election'[s].granted = {})
  BY <1>2
<1>4. CountedBefore
  <2>1. \A s \in Server : \A v \in election'[s].granted \ {s} : Voted(v, s, election'[s].Term)
    BY <1>3 DEF VotesCounted
  <2>2. \A s \in Server : State'[s] = "Leader" => Elected(s, Term'[s])
    BY DEF LeadersElected
  <2> QED
    BY <2>1, <2>2 DEF CountedBefore
<1>5. VotedForSelf'
  <2> SUFFICES ASSUME NEW s \in Server
               PROVE  /\ State'[s] # "Follower" => voteFor'[s] = [Term |-> Term'[s], id |-> s]
                      /\ State'[s] = "Candidate" => election'[s].Term = Term'[s]
    BY DEF VotedForSelf
  <2>1. CASE s = i
    BY <2>1
  <2>2. CASE s # i
    BY <1>3, <2>2 DEF VotedForSelf
  <2> QED
    BY <2>1, <2>2
<1>6. VoteOnDisk'
  BY PersistVote
<1> QED
  BY <1>1, <1>4, <1>5, <1>6 DEF VoteStep

-----------------------------------------------------------------------------
(* The actions *)

LEMMA StartElectionVotes ==
    ASSUME TypeInv, TypeInv', ElectionInv, NEW i \in Server, StartElection(i) PROVE VoteStep
<1> USE DEF ElectionInv
<1>1. /\ State \in [Server -> Role] /\ Term \in [Server -> Nat] /\ voteFor \in [Server -> VoteFor]
      /\ election \in [Server -> [Term : Nat, granted : SUBSET Server]]
  BY DEF TypeInv, VoteTypes, RoutineTypes
<1>2. /\ State' = [State EXCEPT ![i] = "Candidate"]
      /\ Term' = [Term EXCEPT ![i] = Term[i] + 1]
      /\ voteFor' = [voteFor EXCEPT ![i] = [Term |-> Term[i] + 1, id |-> i]]
      /\ election' = [election EXCEPT ![i] = [Term |-> Term[i] + 1, granted |-> {i}]]
      /\ voteReplies' = voteReplies /\ Persist(i)
  BY DEF StartElection
<1>3. /\ State'[i] = "Candidate" /\ Term'[i] = Term[i] + 1
      /\ voteFor'[i] = [Term |-> Term[i] + 1, id |-> i]
      /\ election'[i].Term = Term[i] + 1 /\ election'[i].granted = {i}
      /\ \A s \in Server \ {i} : /\ State'[s] = State[s] /\ Term'[s] = Term[s]
                                 /\ voteFor'[s] = voteFor[s] /\ election'[s] = election[s]
  BY <1>1, <1>2
<1>4. VotesKept
  <2>1. voteFor'[i].Term > voteFor[i].Term
    <3>1. voteFor[i].Term <= Term[i] /\ voteFor[i].Term \in Int /\ Term[i] \in Nat
      BY VoteTerms DEF VoteOnDisk
    <3> QED
      BY <1>3, <3>1
  <2> QED
    BY <1>3, <2>1 DEF VotesKept
<1>5. NewVotesRecorded
  BY <1>2 DEF NewVotesRecorded
<1>6. CountedBefore
  <2>1. ASSUME NEW j \in Server, NEW s \in election'[j].granted \ {j}
        PROVE  Voted(s, j, election'[j].Term)
    <3>1. j # i
      BY <1>3, <2>1
    <3> QED
      BY <1>3, <2>1, <3>1 DEF VotesCounted
  <2>2. ASSUME NEW j \in Server, State'[j] = "Leader" PROVE Elected(j, Term'[j])
    <3>1. j # i
      BY <1>3, <2>2
    <3> QED
      BY <1>3, <2>2, <3>1 DEF LeadersElected
  <2> QED
    BY <2>1, <2>2 DEF CountedBefore
<1>7. VotedForSelf'
  <2> SUFFICES ASSUME NEW s \in Server
               PROVE  /\ State'[s] # "Follower" => voteFor'[s] = [Term |-> Term'[s], id |-> s]
                      /\ State'[s] = "Candidate" => election'[s].Term = Term'[s]
    BY DEF VotedForSelf
  <2>1. CASE s = i
    BY <1>3, <2>1
  <2>2. CASE s # i
    BY <1>3, <2>2 DEF VotedForSelf
  <2> QED
    BY <2>1, <2>2
<1>8. VoteOnDisk'
  <2>1. voteFor'[i].Term <= Term'[i]
    <3>1. voteFor'[i].Term = Term'[i] /\ Term'[i] \in Nat
      BY <1>1, <1>3
    <3> QED
      BY <3>1
  <2> QED
    BY <1>2, <1>3, <2>1, PersistVote
<1> QED
  BY <1>4, <1>5, <1>6, <1>7, <1>8 DEF VoteStep

\* A vote for a candidate other than the voter, recorded before it is answered.
LEMMA RequestVoteVotes ==
    ASSUME TypeInv, TypeInv', ElectionInv, NEW j \in Server, NEW m \in voteReqs, RequestVote(j, m)
    PROVE  VoteStep
<1> USE DEF ElectionInv
<1>1. /\ State \in [Server -> Role] /\ Term \in [Server -> Nat] /\ voteFor \in [Server -> VoteFor]
      /\ VoteNetTypes /\ VoteTypes
      /\ m.Term \in Nat /\ m.CandidateId \in Server /\ m.CandidateId # j
  BY DEF TypeInv, VoteTypes, VoteNetTypes, RequestVoteArgs, RequestVote
<1>2. election' = election
  BY DEF RequestVote
<1>3. ASSUME NEW granted \in BOOLEAN, AnswerVote(j, m, granted),
             granted => voteFor'[j] = [Term |-> m.Term, id |-> m.CandidateId]
      PROVE  NewVotesRecorded
  <2>1. /\ voteReplies \subseteq voteReplies'
        /\ \A r \in voteReplies' \ voteReplies : r.granted = granted /\ r.from = j /\ r.args = m
    BY <1>1, <1>3, AnswerVoteTypes
  <2> QED
    BY <1>1, <1>3, <2>1 DEF NewVotesRecorded
<1>4. CASE RefuseVote(j, m) \/ RepeatVote(j, m)
  <2>1. UNCHANGED <<State, Term, voteFor, election, disk>>
    BY <1>2, <1>4 DEF RefuseVote, RepeatVote
  <2>2. NewVotesRecorded
    <3>1. CASE RefuseVote(j, m)
      <4>1. AnswerVote(j, m, FALSE)
        BY <3>1 DEF RefuseVote
      <4> QED
        BY <1>3, <4>1
    <3>2. CASE RepeatVote(j, m)
      <4>1. AnswerVote(j, m, TRUE) /\ voteFor'[j] = [Term |-> m.Term, id |-> m.CandidateId]
        BY <2>1, <3>2 DEF RepeatVote
      <4> QED
        BY <1>3, <4>1
    <3> QED
      BY <1>4, <3>1, <3>2
  <2>3. VotesKept /\ VotedForSelf' /\ VoteOnDisk'
    BY <2>1 DEF VotesKept, VotedForSelf, VoteOnDisk
  <2>4. CountedBefore
    BY <2>1 DEF CountedBefore, VotesCounted, LeadersElected
  <2> QED
    BY <2>2, <2>3, <2>4 DEF VoteStep
<1>5. CASE MeetNewTerm(j, m)
  <2> DEFINE new == [Term |-> m.Term, id |-> m.CandidateId]
  <2>1. /\ m.Term > Term[j]
        /\ State' = [State EXCEPT ![j] = "Follower"] /\ Term' = [Term EXCEPT ![j] = m.Term]
        /\ IF LogUpToDate(j, m) THEN voteFor' = [voteFor EXCEPT ![j] = new] ELSE UNCHANGED voteFor
        /\ AnswerVote(j, m, LogUpToDate(j, m)) /\ Persist(j)
    BY <1>5 DEF MeetNewTerm
  <2>2. /\ State'[j] = "Follower" /\ Term'[j] = m.Term
        /\ voteFor'[j] = IF LogUpToDate(j, m) THEN new ELSE voteFor[j]
        /\ \A s \in Server \ {j} : /\ State'[s] = State[s] /\ Term'[s] = Term[s]
                                   /\ voteFor'[s] = voteFor[s]
    BY <1>1, <2>1
  <2>3. voteFor[j].Term <= Term[j] /\ voteFor[j].Term \in Int /\ Term[j] \in Nat
    BY VoteTerms DEF VoteOnDisk
  <2>4. VotesKept
    <3>1. voteFor'[j] = voteFor[j] \/ voteFor'[j].Term > voteFor[j].Term
      BY <1>1, <2>1, <2>2, <2>3
    <3> QED
      BY <2>2, <3>1 DEF VotesKept
  <2>5. NewVotesRecorded
    <3>1. LogUpToDate(j, m) \in BOOLEAN
      BY DEF LogUpToDate
    <3> QED
      BY <1>3, <2>1, <2>2, <3>1
  <2>6. CountedBefore
    <3>1. \A i \in Server : \A s \in election'[i].granted \ {i} : Voted(s, i, election'[i].Term)
      BY <1>2 DEF VotesCounted
    <3>2. \A i \in Server : State'[i] = "Leader" => Elected(i, Term'[i])
      BY <2>2 DEF LeadersElected
    <3> QED
      BY <3>1, <3>2 DEF CountedBefore
  <2>7. VotedForSelf'
    <3> SUFFICES ASSUME NEW s \in Server
                 PROVE  /\ State'[s] # "Follower" => voteFor'[s] = [Term |-> Term'[s], id |-> s]
                        /\ State'[s] = "Candidate" => election'[s].Term = Term'[s]
      BY DEF VotedForSelf
    <3>1. CASE s = j
      BY <2>2, <3>1
    <3>2. CASE s # j
      BY <1>2, <2>2, <3>2 DEF VotedForSelf
    <3> QED
      BY <3>1, <3>2
  <2>8. VoteOnDisk'
    <3>1. voteFor'[j].Term <= Term'[j]
      BY <1>1, <2>1, <2>2, <2>3
    <3> QED
      BY <2>1, <2>2, <3>1, PersistVote
  <2> QED
    BY <2>4, <2>5, <2>6, <2>7, <2>8 DEF VoteStep
<1> QED
  BY <1>4, <1>5 DEF RequestVote

LEMMA CountVoteVotes ==
    ASSUME TypeInv, TypeInv', ElectionInv, NEW i \in Server, NEW r \in voteReplies, CountVote(i, r)
    PROVE  VoteStep
<1> USE DEF ElectionInv
<1> DEFINE granted == election[i].granted \cup {r.from}
           leads == IsMajority(granted) /\ State[i] = "Candidate"
<1>1. /\ r.granted /\ r.args.CandidateId = i /\ r.args.Term = election[i].Term
      /\ election' = [election EXCEPT ![i] = IF IsMajority(granted) THEN NoElection
                                   ELSE [Term |-> election[i].Term, granted |-> granted]]
      /\ IF leads THEN BecomeLeader(i) ELSE UNCHANGED <<State, leaderVars>>
      /\ UNCHANGED <<Term, voteFor, voteReplies>>
      /\ IF leads THEN Persist(i) ELSE UNCHANGED disk
  BY DEF CountVote
<1>2. /\ State \in [Server -> Role] /\ r.from \in Server /\ granted \in SUBSET Server
      /\ election \in [Server -> [Term : Nat, granted : SUBSET Server]]
  BY ReplyTypes DEF TypeInv, VoteTypes, RoutineTypes
<1>3. \A s \in granted \ {i} : Voted(s, i, election[i].Term)
  <2>1. Voted(r.from, i, election[i].Term)
    BY <1>1 DEF Voted
  <2> QED
    BY <2>1 DEF VotesCounted
<1>4. /\ election'[i] = IF IsMajority(granted) THEN NoElection
                        ELSE [Term |-> election[i].Term, granted |-> granted]
      /\ \A s \in Server \ {i} : election'[s] = election[s]
  BY <1>1, <1>2
<1> HIDE DEF granted
<1>5. \A s \in Server : \A v \in election'[s].granted \ {s} : Voted(v, s, election'[s].Term)
  <2> SUFFICES ASSUME NEW s \in Server, NEW v \in election'[s].granted \ {s}
               PROVE  Voted(v, s, election'[s].Term)
    OBVIOUS
  <2>1. CASE s # i
    BY <1>4, <2>1 DEF VotesCounted
  <2>2. CASE s = i
    <3>1. ~IsMajority(granted)
      BY <1>4, <2>2 DEF NoElection
    <3>2. election'[i].Term = election[i].Term /\ election'[i].granted = granted
      BY <1>4, <3>1
    <3> QED
      BY <1>3, <2>2, <3>2
  <2> QED
    BY <2>1, <2>2
<1>6. CASE leads
  <2>1. State'[i] = "Leader" /\ \A s \in Server \ {i} : State'[s] = State[s]
    BY <1>1, <1>2, <1>6 DEF BecomeLeader
  <2>2. Elected(i, Term[i])
    <3>1. election[i].Term = Term[i]
      BY <1>6 DEF VotedForSelf
    <3> QED
      BY <1>2, <1>3, <1>6, <3>1 DEF Elected
  <2>3. \A s \in Server : State'[s] = "Leader" => Elected(s, Term'[s])
    BY <1>1, <2>1, <2>2 DEF LeadersElected
  <2>4. VotedForSelf'
    <3>1. voteFor[i] = [Term |-> Term[i], id |-> i]
      BY <1>6 DEF VotedForSelf
    <3> QED
      BY <1>1, <1>4, <2>1, <3>1 DEF VotedForSelf
  <2>5. VoteOnDisk'
    <3>1. Persist(i) /\ voteFor'[i].Term <= Term'[i]
      BY <1>1, <1>6 DEF VoteOnDisk
    <3> QED
      BY <1>1, <3>1, PersistVote
  <2>6. VotesKept /\ NewVotesRecorded
    BY <1>1 DEF VotesKept, NewVotesRecorded
  <2> QED
    BY <1>5, <2>3, <2>4, <2>5, <2>6 DEF VoteStep, CountedBefore
<1>7. CASE ~leads
  <2>1. UNCHANGED <<State, Term, voteFor, voteReplies, disk>>
    BY <1>1, <1>7
  <2>2. VotedForSelf'
    <3>1. State[i] = "Candidate" => election'[i].Term = election[i].Term
      BY <1>4, <1>7
    <3> QED
      BY <1>4, <2>1, <3>1 DEF VotedForSelf
  <2>3. VotesKept /\ NewVotesRecorded /\ VoteOnDisk'
    BY <2>1 DEF VotesKept, NewVotesRecorded, VoteOnDisk
  <2>4. \A s \in Server : State'[s] = "Leader" => Elected(s, Term'[s])
    BY <2>1 DEF LeadersElected
  <2> QED
    BY <1>5, <2>2, <2>3, <2>4 DEF VoteStep, CountedBefore
<1> QED
  BY <1>6, <1>7

\* The step that may set a term back, when it does not.
LEMMA TakeTermOfReplyVotes ==
    ASSUME TypeInv, TypeInv', ElectionInv, NEW i \in Server, NEW r \in voteReplies,
           TakeTermOfReply(i, r), "termBack" \notin accident'
    PROVE  VoteStep
<1>1. /\ StepDown(i, r.Term) /\ UNCHANGED <<voteFor, election, voteReplies>> /\ Persist(i)
      /\ ~(r.Term < Term[i]) /\ r.Term \in Nat
  BY ReplyTypes DEF TakeTermOfReply
<1>2. /\ State'[i] = "Follower" /\ Term'[i] = r.Term
      /\ \A s \in Server \ {i} : State'[s] = State[s] /\ Term'[s] = Term[s]
  BY <1>1, StepDownTypes DEF TypeInv
<1>3. voteFor[i].Term <= Term'[i]
  <2>1. voteFor[i].Term <= Term[i] /\ voteFor[i].Term \in Int /\ Term[i] \in Nat
    BY VoteTerms DEF ElectionInv, VoteOnDisk
  <2> QED
    BY <1>1, <1>2, <2>1
<1> QED
  BY <1>1, <1>2, <1>3, FollowStep

LEMMA AppendEntriesVotes ==
    ASSUME TypeInv, TypeInv', ElectionInv, NEW j \in Server, NEW m \in aeReqs, AppendEntries(j, m)
    PROVE  VoteStep
<1>1. UNCHANGED <<election, voteReplies>> /\ m.Term \in Nat
  BY DEF AppendEntries, TypeInv, CallTypes, HeartBeatArgs
<1>2. CASE UNCHANGED <<State, Term, voteFor>> /\ UNCHANGED disk
  BY <1>1, <1>2, QuietStep
<1>3. CASE Accepts(j, m) /\ (UNCHANGED disk \/ Persist(j))
  <2>1. m.Term >= Term[j] /\ StepDown(j, m.Term) /\ UNCHANGED voteFor
    BY <1>3 DEF Accepts
  <2>2. /\ State'[j] = "Follower" /\ Term'[j] = m.Term
        /\ \A s \in Server \ {j} : State'[s] = State[s] /\ Term'[s] = Term[s]
    BY <1>1, <2>1, StepDownTypes DEF TypeInv
  <2>3. voteFor[j].Term <= Term'[j]
    <3>1. voteFor[j].Term <= Term[j] /\ voteFor[j].Term \in Int /\ Term[j] \in Nat
      BY VoteTerms DEF ElectionInv, VoteOnDisk
    <3> QED
      BY <1>1, <2>1, <2>2, <3>1
  <2> QED
    BY <1>1, <1>3, <2>1, <2>2, <2>3, FollowStep
<1>4. RejectAppend(j, m) => UNCHANGED <<State, Term, voteFor>> /\ UNCHANGED disk
  BY DEF RejectAppend
<1>5. MissEntries(j, m) \/ CutTail(j, m) \/ OverwriteTail(j, m) \/ RefuseTail(j, m) \/ AppendTail(j, m)
        => Accepts(j, m) /\ (UNCHANGED disk \/ Persist(j))
  BY DEF MissEntries, CutTail, OverwriteTail, RefuseTail, AppendTail
<1> QED
  BY <1>2, <1>3, <1>4, <1>5 DEF AppendEntries

LEMMA CheckReplyVotes ==
    ASSUME TypeInv, TypeInv', ElectionInv, NEW i \in Server, NEW j \in Open(i),
           NEW r \in calls[i][j].replies, CheckReply(i, j, r)
    PROVE  VoteStep
<1>1. UNCHANGED <<voteFor, election, voteReplies>>
  BY DEF CheckReply
<1>2. r.Term \in Nat
  <2>1. j \in Server /\ calls[i][j].open /\ calls[i][j] \in CallState
    BY DEF Open, TypeInv, RoutineTypes
  <2>2. calls[i][j] # NoCall
    BY <2>1 DEF NoCall
  <2> QED
    BY <2>1, <2>2 DEF CallState, Answer, AppendEntriesReply
<1>3. CASE r.Term > Term[i] /\ StepDown(i, r.Term) /\ Persist(i)
  <2>1. /\ State'[i] = "Follower" /\ Term'[i] = r.Term
        /\ \A s \in Server \ {i} : State'[s] = State[s] /\ Term'[s] = Term[s]
    BY <1>1, <1>2, <1>3, StepDownTypes DEF TypeInv
  <2>2. voteFor[i].Term <= Term'[i]
    <3>1. voteFor[i].Term <= Term[i] /\ voteFor[i].Term \in Int /\ Term[i] \in Nat
      BY VoteTerms DEF ElectionInv, VoteOnDisk
    <3> QED
      BY <1>2, <1>3, <2>1, <3>1
  <2> QED
    BY <1>1, <1>3, <2>1, <2>2, FollowStep
<1>4. CASE UNCHANGED <<State, Term>> /\ (UNCHANGED disk \/ Persist(i))
  BY <1>1, <1>4, QuietStep
<1>5. \A m : ReplyAccepted(i, j, m, r) \/ ReplyMoves(i, j, r) \/ ReplyBacksUp(i, j, m, r)
        => UNCHANGED disk \/ Persist(i)
  BY DEF ReplyAccepted, ReplyMoves, ReplyBacksUp
<1> QED
  BY <1>3, <1>4, <1>5 DEF CheckReply

\* Entries, calls and commit indices come and go without a vote.
LEMMA LogActionVotes ==
    ASSUME TypeInv, TypeInv', ElectionInv, NEW i \in Server,
           \/ Start(i) \/ \E j \in Server : SendAppendEntries(i, j)
           \/ \E c \in deferred[i] : CompareCommit(i, c) \/ AssignCommit(i, c)
           \/ StartApplyLogs(i)
    PROVE  VoteStep
<1>1. UNCHANGED <<State, Term, voteFor, election, voteReplies>>
  BY DEF Start, SendAppendEntries, CompareCommit, AssignCommit, StartApplyLogs
<1>2. UNCHANGED disk \/ Persist(i)
  BY DEF Start, SendAppendEntries, CompareCommit, AssignCommit, StartApplyLogs
<1> QED
  BY <1>1, <1>2, QuietStep

LEMMA RestartVotes ==
    ASSUME TypeInv, TypeInv', ElectionInv, NEW i \in Server, Restart(i) PROVE VoteStep
<1>1. /\ State' = [State EXCEPT ![i] = "Follower"] /\ Term' = [Term EXCEPT ![i] = disk[i].Term]
      /\ voteFor' = [voteFor EXCEPT ![i] = disk[i].voteFor]
      /\ election' = [election EXCEPT ![i] = NoElection] /\ UNCHANGED <<voteReplies, disk>>
  BY DEF Restart
<1>2. disk[i].voteFor = voteFor[i] /\ voteFor[i].Term <= disk[i].Term
  BY DEF ElectionInv, VoteOnDisk
<1>3. State \in [Server -> Role] /\ Term \in [Server -> Nat] /\ voteFor \in [Server -> VoteFor]
  BY DEF TypeInv, VoteTypes
<1>4. UNCHANGED voteFor
  BY <1>1, <1>2, <1>3
<1>5. /\ State'[i] = "Follower" /\ voteFor[i].Term <= Term'[i]
      /\ \A s \in Server \ {i} : State'[s] = State[s] /\ Term'[s] = Term[s]
  BY <1>1, <1>2, <1>3
<1> QED
  BY <1>1, <1>4, <1>5, FollowStep

-----------------------------------------------------------------------------
(* One leader a term *)

LEMMA InitVotes == Init => ElectionInv
<1> SUFFICES ASSUME Init PROVE ElectionInv
  OBVIOUS
<1>1. VoteOnDisk
  BY DEF Init, VoteOnDisk
<1>2. VotedForSelf /\ LeadersElected
  BY DEF Init, VotedForSelf, LeadersElected
<1>3. VotesStand /\ VoteOnce /\ VotesCounted
  BY DEF Init, VotesStand, VoteOnce, VotesCounted, NoElection
<1> QED
  BY <1>1, <1>2, <1>3 DEF ElectionInv

\* No step takes an accident back.
LEMMA AccidentsStay == [Next]_vars => accident \subseteq accident'
<1>1. ASSUME NEW j, NEW keep, NEW m, NEW entries, Overwrite(j, keep, m, entries)
      PROVE  accident \subseteq accident'
  BY <1>1 DEF Overwrite
<1>2. ASSUME NEW j, NEW m, AppendEntries(j, m) PROVE accident \subseteq accident'
  BY <1>1, <1>2 DEF AppendEntries, RejectAppend, MissEntries, CutTail, OverwriteTail, RefuseTail,
                    AppendTail
<1>3. ASSUME NEW i \in Server, StartElection(i) \/ Start(i) \/ Restart(i) \/ StartApplyLogs(i)
      PROVE  accident \subseteq accident'
  BY <1>3 DEF StartElection, Start, Restart, StartApplyLogs
<1>4. ASSUME NEW i, NEW c, CompareCommit(i, c) \/ AssignCommit(i, c)
      PROVE  accident \subseteq accident'
  BY <1>4 DEF CompareCommit, AssignCommit
<1>5. ASSUME NEW i, NEW m, RequestVote(i, m) \/ CountVote(i, m) \/ TakeTermOfReply(i, m)
      PROVE  accident \subseteq accident'
  BY <1>5 DEF RequestVote, CountVote, TakeTermOfReply
<1>6. ASSUME NEW i, NEW j, SendAppendEntries(i, j) \/ \E r : CheckReply(i, j, r)
      PROVE  accident \subseteq accident'
  BY <1>6 DEF SendAppendEntries, CheckReply
<1>7. CASE Next
  <2>1. Alive \subseteq Server
    BY DEF Alive
  <2> QED
    BY <1>2, <1>3, <1>4, <1>5, <1>6, <1>7, <2>1 DEF Next
<1> QED
  BY <1>7 DEF vars

LEMMA EveryStepVotes ==
    TypeInv /\ TypeInv' /\ ElectionInv /\ [Next]_vars /\ "termBack" \notin accident' => VoteStep
<1> SUFFICES ASSUME TypeInv, TypeInv', ElectionInv, [Next]_vars, "termBack" \notin accident'
             PROVE  VoteStep
  OBVIOUS
<1>1. CASE UNCHANGED vars
  BY <1>1, QuietStep DEF vars
<1>2. CASE Next
  <2>1. Alive \subseteq Server
    BY DEF Alive
  <2> QED
    BY <1>2, <2>1, StartElectionVotes, RequestVoteVotes, CountVoteVotes, TakeTermOfReplyVotes,
       AppendEntriesVotes, CheckReplyVotes, LogActionVotes, RestartVotes DEF Next
<1> QED
  BY <1>1, <1>2

LEMMA Lab3AInvariant == Spec => []Lab3AInv
<1>1. Init => Lab3AInv
  BY InitTypes, InitVotes DEF Lab3AInv
<1>2. Lab3AInv /\ [Next]_vars => Lab3AInv'
  BY TypeStep, AccidentsStay, EveryStepVotes, VoteStepKeepsInv DEF Lab3AInv
<1> QED
  BY <1>1, <1>2, PTL DEF Spec

\* Two majorities of the peers have one in common.
LEMMA MajoritiesMeet ==
    ASSUME NEW P \in SUBSET Server, NEW Q \in SUBSET Server, IsMajority(P), IsMajority(Q)
    PROVE  P \cap Q # {}
<1>1. IsFiniteSet(Server) /\ IsFiniteSet(P) /\ IsFiniteSet(Q)
  BY PeersAssumption, FS_Subset
<1>2. Cardinality(Server) \in Nat /\ Cardinality(P) \in Nat /\ Cardinality(Q) \in Nat
  BY <1>1, FS_CardinalityType
<1>3. Cardinality(P) + Cardinality(Q) > Cardinality(Server)
  BY <1>2 DEF IsMajority
<1> QED
  BY <1>1, <1>3, FS_MajoritiesIntersect

LEMMA OneLeaderATerm ==
    ASSUME TypeInv, ElectionInv, NEW i \in Server, NEW j \in Server,
           State[i] = "Leader", State[j] = "Leader", Term[i] = Term[j]
    PROVE  i = j
<1> SUFFICES ASSUME i # j PROVE FALSE
  OBVIOUS
<1> DEFINE t == Term[i]
<1>1. PICK P \in SUBSET Server : IsMajority(P) /\ \A s \in P \ {i} : Voted(s, i, t)
  BY DEF ElectionInv, LeadersElected, Elected
<1>2. PICK Q \in SUBSET Server : IsMajority(Q) /\ \A s \in Q \ {j} : Voted(s, j, t)
  BY DEF ElectionInv, LeadersElected, Elected
<1>3. PICK s \in Server : s \in P /\ s \in Q
  BY <1>1, <1>2, MajoritiesMeet
<1>4. /\ voteFor[i] = [Term |-> t, id |-> i] /\ voteFor[j] = [Term |-> t, id |-> j]
      /\ t \in Nat
  BY VoteTerms DEF ElectionInv, VotedForSelf
<1> HIDE DEF t
<1>5. ASSUME NEW a \in Server, NEW b \in Server, a # b, voteFor[a] = [Term |-> t, id |-> a]
      PROVE  ~Voted(a, b, t)
  <2> SUFFICES ASSUME NEW r \in voteReplies, r.granted, r.from = a, r.args.CandidateId = b,
                      r.args.Term = t
               PROVE  FALSE
    BY DEF Voted
  <2>1. voteFor[a].Term > t \/ voteFor[a] = [Term |-> t, id |-> b]
    BY DEF ElectionInv, VotesStand
  <2>2. voteFor[a].Term = t /\ voteFor[a].id = a
    BY <1>5
  <2> QED
    BY <1>4, <1>5, <2>1, <2>2
<1>6. CASE s = i
  BY <1>2, <1>3, <1>4, <1>5, <1>6
<1>7. CASE s = j
  BY <1>1, <1>3, <1>4, <1>5, <1>7
<1>8. CASE s # i /\ s # j
  <2>1. Voted(s, i, t) /\ Voted(s, j, t)
    BY <1>1, <1>2, <1>3, <1>8
  <2> QED
    BY <2>1 DEF Voted, ElectionInv, VoteOnce
<1> QED
  BY <1>6, <1>7, <1>8

\* No term has two leaders at once, for any number of servers, restarts that forget a
\* newer term included -- until a late refusal has set a peer's term back.
THEOREM OneLeaderUnlessTermBack == Spec => []OneLeader
<1>1. Lab3AInv => OneLeader
  BY OneLeaderATerm DEF Lab3AInv, OneLeader
<1> QED
  BY <1>1, Lab3AInvariant, PTL

-----------------------------------------------------------------------------
(* What a leader has sent, and what it has heard *)

\* The last index a call is about.
EndOf(m) == m.PrevLogIndex + Len(m.Entries)

\* Every entry, in a log, on a disk or on its way, was started at its index in its term.
StartedLog(S, L) == \A k \in 1..Len(L) : <<L[k].Term, k>> \in S
StartedCall(S, m) ==
    /\ m.PrevLogIndex > 0 => <<m.PervLogTerm, m.PrevLogIndex>> \in S
    /\ \A n \in 1..Len(m.Entries) : <<m.Entries[n].Term, m.PrevLogIndex + n>> \in S
EntriesStarted ==
    /\ \A i \in Server :
         StartedLog(started, logEntries[i]) /\ StartedLog(started, disk[i].logEntries)
    /\ \A m \in aeReqs : StartedCall(started, m)

\* No accident, and no two leaders that started different entries at one index.
Calm == accident = {} /\ ~RivalsStarted

\* The disk may be behind, never ahead.
TermsSaved == \A i \in Server : disk[i].Term <= Term[i]

\* Who sends a call was elected in its term, has not voted for another in it, and is in it
\* or a newer one, after a restart too.
Chosen(i, t) ==
    Elected(i, t) /\ \A r \in voteReplies : r.granted /\ r.from = i => r.args.Term # t
LedBy(i, t) ==
    /\ Chosen(i, t) /\ t <= disk[i].Term
    /\ State[i] = "Candidate" => t < Term[i]
    /\ voteFor[i].Term > t \/ voteFor[i] = [Term |-> t, id |-> i]
LedCalls == \A m \in aeReqs : LedBy(m.LeaderId, m.Term)

OpenSent ==
    \A i, j \in Server : calls[i][j].open =>
        /\ calls[i][j].args \in aeReqs /\ calls[i][j].args.LeaderId = i
        /\ calls[i][j].args.to = j /\ i # j

\* i, which leads, waits for an answer to a call of its term.
Current(i, j) == State[i] = "Leader" /\ calls[i][j].open /\ calls[i][j].args.Term = Term[i]

\* A leader has whatever it has sent; the call it waits on reaches as far as any other.
SentInLog ==
    \A i \in Server : \A m \in aeReqs :
        State[i] = "Leader" /\ m.Term = Term[i] => EndOf(m) <= LastLogIndex(i)
LastReachesFurthest ==
    \A i, j \in Server : Current(i, j) =>
        \A m \in aeReqs : m.Term = Term[i] /\ m.to = j => EndOf(m) <= EndOf(calls[i][j].args)

SentInv ==
    /\ TermsSaved /\ LedCalls /\ OpenSent /\ SentInLog /\ LastReachesFurthest

Leads(i) == State[i] = "Leader" \/ late[i] # {}

\* What a peer may answer as long as previous entries match: it took the call, is in a
\* newer term, misses entries, or had more than the leader and has cut it.
CutReply(m, r) == ~r.Success /\ m.Entries = <<>> /\ r.NextIndex > m.PrevLogIndex + 1
CalmReply(m, r) ==
    \/ r.Success /\ r.NextIndex = EndOf(m) + 1
    \/ ~r.Success /\ r.NextIndex = 0 /\ r.Term > m.Term
    \/ ~r.Success /\ r.NextIndex \in 1..m.PrevLogIndex
    \/ CutReply(m, r)

\* A peer in term t has, after a restart too, no entries beyond n; one in a newer term is
\* of no interest to the leader of t.
Joined(j, t, n) ==
    /\ Term[j] >= t /\ disk[j].Term >= t
    /\ Term[j] = t => Len(logEntries[j]) <= n
    /\ disk[j].Term = t => Len(disk[j].logEntries) <= n

\* nextIndex is beyond what the leader has sent only for a peer that has cut its log, which
\* it does once.
SentTo(i, j) == IF Current(i, j) THEN EndOf(calls[i][j].args) ELSE LastLogIndex(i)
AheadAfterCut(i, j) ==
    State[i] = "Leader" /\ i # j /\ nextIndex[i][j] > SentTo(i, j) + 1
        => Joined(j, Term[i], SentTo(i, j))
CutOnce(i, j) ==
    Current(i, j) => \A r \in calls[i][j].replies : CutReply(calls[i][j].args, r) =>
        /\ Joined(j, Term[i], EndOf(calls[i][j].args))
        /\ nextIndex[i][j] <= EndOf(calls[i][j].args) + 1

NextPositive(i, j) == Leads(i) => nextIndex[i][j] > 0
NextBehind(i, j) == Current(i, j) => nextIndex[i][j] > calls[i][j].args.PrevLogIndex
RepliesCalm(i, j) ==
    calls[i][j].open => \A r \in calls[i][j].replies : CalmReply(calls[i][j].args, r)

PairInv(i, j) ==
    /\ NextPositive(i, j) /\ NextBehind(i, j) /\ RepliesCalm(i, j)
    /\ AheadAfterCut(i, j) /\ CutOnce(i, j)
NextInv == \A i, j \in Server : PairInv(i, j)

SenderInv == EntriesStarted /\ (Calm => SentInv /\ NextInv /\ panicked # "sender")

-----------------------------------------------------------------------------
(* What was started *)

LEMMA StartedStays ==
    ASSUME NEW S, NEW R, S \subseteq R
    PROVE  /\ \A L : StartedLog(S, L) => StartedLog(R, L)
           /\ \A m : StartedCall(S, m) => StartedCall(R, m)
  BY DEF StartedLog, StartedCall

LEMMA StartedKept ==
    ASSUME TypeInv, TypeInv', EntriesStarted, started \subseteq started',
           \A i \in Server : StartedLog(started', logEntries'[i]),
           UNCHANGED disk \/ \E i \in Server : Persist(i),
           \A m \in aeReqs' : m \in aeReqs \/ StartedCall(started', m)
    PROVE  EntriesStarted'
<1>1. \A i \in Server : disk'[i].logEntries = disk[i].logEntries
                        \/ disk'[i].logEntries = logEntries'[i]
  <2>1. ASSUME NEW s \in Server, Persist(s), NEW i \in Server
        PROVE  disk'[i].logEntries = disk[i].logEntries
               \/ disk'[i].logEntries = logEntries'[i]
    BY <2>1 DEF Persist, TypeInv
  <2> QED BY <2>1
<1>2. \A i \in Server : StartedLog(started', disk'[i].logEntries)
  BY <1>1, StartedStays DEF EntriesStarted
<1>3. \A m \in aeReqs' : StartedCall(started', m)
  BY StartedStays DEF EntriesStarted
<1> QED BY <1>2, <1>3 DEF EntriesStarted

\* A step that changes one log at most, and saves what a peer has, or nothing.
LEMMA StartedStep ==
    ASSUME TypeInv, TypeInv', EntriesStarted, started \subseteq started',
           NEW j \in Server, NEW L \in Seq(LogEntry), StartedLog(started', L),
           logEntries' = [logEntries EXCEPT ![j] = L],
           UNCHANGED disk \/ \E i \in Server : Persist(i),
           \A m \in aeReqs' : m \in aeReqs \/ StartedCall(started', m)
    PROVE  EntriesStarted'
<1>1. \A i \in Server : logEntries'[i] = IF i = j THEN L ELSE logEntries[i]
  BY DEF TypeInv, LogTypes
<1>2. \A i \in Server : StartedLog(started', logEntries'[i])
  BY <1>1, StartedStays DEF EntriesStarted
<1> QED BY <1>2, StartedKept

LEMMA StartedQuiet ==
    ASSUME TypeInv, TypeInv', EntriesStarted, UNCHANGED <<logEntries, aeReqs, started>>,
           UNCHANGED disk \/ \E i \in Server : Persist(i)
    PROVE  EntriesStarted'
<1>1. \A i \in Server : StartedLog(started', logEntries'[i])
  BY DEF EntriesStarted
<1> QED BY <1>1, StartedKept

LEMMA StartStarted ==
    ASSUME TypeInv, TypeInv', EntriesStarted, NEW i \in Server, Start(i) PROVE EntriesStarted'
<1>1. PICK X \in Seq(LogEntry) : X = logEntries[i]
  BY DEF TypeInv, LogTypes
<1>2. PICK n \in LogEntry : n = [Term |-> Term[i], Command |-> i]
  BY DEF TypeInv, VoteTypes, LogEntry
<1>3. PICK L \in Seq(LogEntry) : L = Append(X, n)
  BY AppendProperties
<1>4. /\ logEntries' = [logEntries EXCEPT ![i] = L] /\ UNCHANGED <<disk, aeReqs>>
      /\ started' = started \cup {<<Term[i], Len(X) + 1>>}
  BY <1>1, <1>2, <1>3 DEF Start, LastLogIndex, TypeInv, LogTypes
<1>5. StartedLog(started', L)
  <2>1. StartedLog(started, X)
    BY <1>1 DEF EntriesStarted
  <2>2. /\ Len(L) = Len(X) + 1 /\ Len(X) \in Nat /\ L[Len(X) + 1] = n
        /\ \A k \in 1..Len(X) : L[k] = X[k]
    BY <1>3, AppendProperties
  <2>3. \A k \in 1..Len(L) : k \in 1..Len(X) \/ k = Len(X) + 1
    BY <2>2
  <2>4. n.Term = Term[i]
    BY <1>2
  <2> QED BY <1>4, <2>1, <2>2, <2>3, <2>4 DEF StartedLog
<1> QED BY <1>4, <1>5, StartedStep

\* A call goes from nextIndex, or the end of the log, to the end of the log.
LEMMA ArgsEnd ==
    ASSUME TypeInv, NEW i \in Server, NEW j \in Server, nextIndex[i][j] # 0,
           NEW m, m = ArgsFor(i, j)
    PROVE  /\ m.LeaderId = i /\ m.to = j /\ m.Term = Term[i]
           /\ m.PrevLogIndex \in Nat /\ Len(m.Entries) \in Nat /\ EndOf(m) = LastLogIndex(i)
           /\ m.PrevLogIndex < nextIndex[i][j] /\ m.PrevLogIndex <= LastLogIndex(i)
           /\ m.PervLogTerm = TermAt(i, m.PrevLogIndex)
           /\ \A n \in 1..Len(m.Entries) : m.Entries[n] = logEntries[i][m.PrevLogIndex + n]
<1> DEFINE prev == IF nextIndex[i][j] > LastLogIndex(i) THEN LastLogIndex(i) ELSE nextIndex[i][j] - 1
           E == SubSeq(logEntries[i], prev + 1, LastLogIndex(i))
<1>1. /\ nextIndex[i][j] \in Nat /\ LastLogIndex(i) \in Nat /\ logEntries[i] \in Seq(LogEntry)
      /\ LastLogIndex(i) = Len(logEntries[i])
  BY LogFacts DEF TypeInv, LeaderTypes
<1>2. prev \in Nat /\ prev <= LastLogIndex(i) /\ prev < nextIndex[i][j]
  BY <1>1
<1>3. /\ m.LeaderId = i /\ m.to = j /\ m.Term = Term[i] /\ m.PrevLogIndex = prev
      /\ m.PervLogTerm = TermAt(i, prev) /\ m.Entries = E
  BY DEF ArgsFor
<1> HIDE DEF prev
<1>4. Len(E) = LastLogIndex(i) - prev
  BY <1>1, <1>2, SubSeqType
<1>5. \A n \in 1..Len(E) : E[n] = logEntries[i][prev + n]
  BY <1>1, <1>2, <1>4, SubSeqProperties
<1> HIDE DEF E
<1>6. EndOf(m) = LastLogIndex(i) /\ Len(E) \in Nat
  BY <1>1, <1>2, <1>3, <1>4 DEF EndOf
<1> QED BY <1>2, <1>3, <1>5, <1>6

LEMMA SendStarted ==
    ASSUME TypeInv, TypeInv', EntriesStarted, NEW i \in Server, NEW j \in Server,
           SendAppendEntries(i, j)
    PROVE  EntriesStarted'
<1>1. UNCHANGED <<logEntries, disk, started>>
  BY DEF SendAppendEntries
<1>2. CASE nextIndex[i][j] = 0
  BY <1>1, <1>2, StartedQuiet DEF SendAppendEntries
<1>3. CASE nextIndex[i][j] # 0
  <2>1. PICK m : m = ArgsFor(i, j)
    OBVIOUS
  <2>2. aeReqs' = aeReqs \cup {m}
    BY <1>3, <2>1 DEF SendAppendEntries
  <2>3. PICK X \in Seq(LogEntry) : X = logEntries[i]
    BY DEF TypeInv, LogTypes
  <2>4. StartedLog(started, X)
    BY <2>3 DEF EntriesStarted
  <2>5. PICK prev \in Nat : prev = m.PrevLogIndex
    BY <1>3, <2>1, ArgsEnd
  <2>6. PICK E : E = m.Entries
    OBVIOUS
  <2>7. /\ prev <= Len(X) /\ Len(X) \in Nat /\ prev + Len(E) = Len(X) /\ Len(E) \in Nat
        /\ m.PervLogTerm = TermAt(i, prev) /\ \A n \in 1..Len(E) : E[n] = X[prev + n]
    <3>1. /\ m.PrevLogIndex <= LastLogIndex(i) /\ EndOf(m) = LastLogIndex(i)
          /\ Len(m.Entries) \in Nat /\ m.PervLogTerm = TermAt(i, m.PrevLogIndex)
          /\ \A n \in 1..Len(m.Entries) : m.Entries[n] = logEntries[i][m.PrevLogIndex + n]
      BY <1>3, <2>1, ArgsEnd
    <3> QED BY <2>3, <2>5, <2>6, <3>1 DEF EndOf, LastLogIndex
  <2>8. prev > 0 => <<m.PervLogTerm, prev>> \in started
    BY <2>3, <2>4, <2>7 DEF TermAt, StartedLog
  <2>9. \A n \in 1..Len(E) : <<E[n].Term, prev + n>> \in started
    BY <2>4, <2>7 DEF StartedLog
  <2>10. StartedCall(started, m)
    BY <2>5, <2>6, <2>8, <2>9 DEF StartedCall
  <2>11. \A s \in Server : StartedLog(started', logEntries'[s])
    BY <1>1 DEF EntriesStarted
  <2> QED BY <1>1, <2>2, <2>10, <2>11, StartedKept
<1> QED BY <1>2, <1>3

LEMMA OverwriteStarted ==
    ASSUME TypeInv, EntriesStarted, NEW j \in Server, NEW keep \in Nat, keep <= LastLogIndex(j),
           NEW m, NEW entries \in Seq(LogEntry), Overwrite(j, keep, m, entries),
           \A n \in 1..Len(entries) : <<entries[n].Term, keep + n>> \in started
    PROVE  \E L \in Seq(LogEntry) :
             /\ logEntries' = [logEntries EXCEPT ![j] = L] /\ StartedLog(started, L)
             /\ Len(L) = keep + Len(entries)
<1>1. PICK X \in Seq(LogEntry) : X = logEntries[j]
  BY DEF TypeInv, LogTypes
<1>2. PICK P \in Seq(LogEntry) : P = SubSeq(X, 1, keep) /\ Len(P) = keep
  <2>1. keep <= Len(X) /\ keep + 1 - 1 = keep /\ 1 <= keep + 1 /\ 1 \in Nat /\ 1 > 0
    BY <1>1 DEF LastLogIndex
  <2>2. SubSeq(X, 1, keep) \in Seq(LogEntry) /\ Len(SubSeq(X, 1, keep)) = keep
    BY <2>1, SubSeqType
  <2> QED BY <2>2
<1>3. PICK L \in Seq(LogEntry) : L = P \o entries
  BY ConcatProperties
<1>4. logEntries' = [logEntries EXCEPT ![j] = L]
  BY <1>1, <1>2, <1>3 DEF Overwrite
<1>5. /\ Len(L) = keep + Len(entries) /\ Len(entries) \in Nat
      /\ \A k \in 1..keep : L[k] = P[k]
      /\ \A k \in keep + 1 .. keep + Len(entries) : L[k] = entries[k - keep]
  BY <1>2, <1>3, ConcatProperties
<1>6. \A k \in 1..keep : P[k] = X[k] /\ k \in 1..Len(X)
  BY <1>1, <1>2, SubSeqProperties DEF LastLogIndex
<1>7. StartedLog(started, X)
  BY <1>1 DEF EntriesStarted
<1>8. ASSUME NEW k \in 1..Len(L) PROVE <<L[k].Term, k>> \in started
  <2>1. CASE k <= keep
    <3>1. k \in 1..keep
      BY <1>5, <2>1
    <3> QED BY <1>5, <1>6, <1>7, <3>1 DEF StartedLog
  <2>2. CASE ~(k <= keep)
    <3>1. k \in keep + 1 .. keep + Len(entries) /\ k - keep \in 1..Len(entries)
          /\ keep + (k - keep) = k
      BY <1>5, <2>2
    <3>2. L[k] = entries[k - keep]
      BY <1>5, <3>1
    <3>3. <<entries[k - keep].Term, keep + (k - keep)>> \in started
      BY <3>1
    <3> QED BY <3>1, <3>2, <3>3
  <2> QED BY <2>1, <2>2
<1> QED BY <1>4, <1>5, <1>8 DEF StartedLog

LEMMA CallFacts ==
    ASSUME TypeInv, EntriesStarted, NEW m \in aeReqs
    PROVE  /\ m.Term \in Nat /\ m.PrevLogIndex \in Nat /\ Len(m.Entries) \in Nat
           /\ m.Entries \in Seq(LogEntry) /\ m.LeaderId \in Server /\ m.to \in Server
           /\ m.PrevLogIndex <= EndOf(m) /\ EndOf(m) \in Nat /\ FirstMatches(m)
           /\ (m.Entries = <<>> => EndOf(m) = m.PrevLogIndex)
           /\ (m.PrevLogIndex > 0 => <<m.PervLogTerm, m.PrevLogIndex>> \in started)
           /\ \A n \in 1..Len(m.Entries) : <<m.Entries[n].Term, m.PrevLogIndex + n>> \in started
<1>1. m \in HeartBeatArgs /\ FirstMatches(m)
  BY DEF TypeInv, CallTypes
<1>2. /\ m.Term \in Nat /\ m.PrevLogIndex \in Nat /\ m.Entries \in Seq(LogEntry)
      /\ m.LeaderId \in Server /\ m.to \in Server
  BY <1>1 DEF HeartBeatArgs
<1>3. Len(m.Entries) \in Nat /\ (m.Entries = <<>> => Len(m.Entries) = 0)
  BY <1>2
<1>4. /\ m.PrevLogIndex <= EndOf(m) /\ EndOf(m) \in Nat
      /\ (m.Entries = <<>> => EndOf(m) = m.PrevLogIndex)
  BY <1>2, <1>3 DEF EndOf
<1>5. StartedCall(started, m)
  BY DEF EntriesStarted
<1> QED BY <1>1, <1>2, <1>3, <1>4, <1>5 DEF StartedCall

\* A call leaves entries that were started, and none beyond its last.
LEMMA AppendLog ==
    ASSUME TypeInv, EntriesStarted, NEW j \in Server, NEW m \in aeReqs, AppendEntries(j, m)
    PROVE  /\ RejectAppend(j, m) \/ MissEntries(j, m) \/ RefuseTail(j, m) => UNCHANGED logEntries
           /\ CutTail(j, m) \/ OverwriteTail(j, m) \/ AppendTail(j, m) =>
                \E L \in Seq(LogEntry) :
                  /\ logEntries' = [logEntries EXCEPT ![j] = L] /\ StartedLog(started, L)
                  /\ Len(L) <= EndOf(m)
<1>1. PICK prev \in Nat : prev = m.PrevLogIndex
  BY CallFacts
<1>2. PICK E \in Seq(LogEntry) : E = m.Entries
  BY CallFacts
<1>3. /\ prev <= EndOf(m) /\ EndOf(m) = prev + Len(E) /\ Len(E) \in Nat /\ FirstMatches(m)
      /\ \A n \in 1..Len(E) : <<E[n].Term, prev + n>> \in started
  BY <1>1, <1>2, CallFacts DEF EndOf
<1>4. <<>> \in Seq(LogEntry) /\ Len(<<>>) = 0 /\ LastLogIndex(j) \in Nat
  BY LogFacts DEF TypeInv
<1>5. ASSUME NEW keep \in Nat, keep <= LastLogIndex(j), NEW e \in Seq(LogEntry),
             keep + Len(e) <= EndOf(m), Overwrite(j, keep, m, e),
             \A n \in 1..Len(e) : <<e[n].Term, keep + n>> \in started
      PROVE  \E L \in Seq(LogEntry) :
                /\ logEntries' = [logEntries EXCEPT ![j] = L] /\ StartedLog(started, L)
                /\ Len(L) <= EndOf(m)
  <2>1. PICK L \in Seq(LogEntry) :
          /\ logEntries' = [logEntries EXCEPT ![j] = L] /\ StartedLog(started, L)
          /\ Len(L) = keep + Len(e)
    BY <1>5, OverwriteStarted
  <2> QED BY <1>5, <2>1
<1>6. ASSUME prev <= LastLogIndex(j), Overwrite(j, prev, m, E)
      PROVE  \E L \in Seq(LogEntry) :
                /\ logEntries' = [logEntries EXCEPT ![j] = L] /\ StartedLog(started, L)
                /\ Len(L) <= EndOf(m)
  <2>1. prev + Len(E) <= EndOf(m)
    BY <1>3
  <2> QED BY <1>3, <1>5, <1>6, <2>1
<1>11. ASSUME NEW keep \in Nat, keep <= LastLogIndex(j), keep <= prev, Overwrite(j, keep, m, <<>>)
      PROVE  \E L \in Seq(LogEntry) :
                /\ logEntries' = [logEntries EXCEPT ![j] = L] /\ StartedLog(started, L)
                /\ Len(L) <= EndOf(m)
  <2>1. PICK none \in Seq(LogEntry) : none = <<>>
    BY <1>4
  <2>2. Overwrite(j, keep, m, none) /\ keep <= LastLogIndex(j)
    BY <1>11, <2>1
  <2>3. keep + Len(none) <= EndOf(m)
    BY <1>3, <1>4, <1>11, <2>1
  <2>4. \A n \in 1..Len(none) : <<none[n].Term, keep + n>> \in started
    BY <1>4, <2>1
  <2> QED BY <1>5, <2>2, <2>3, <2>4
<1>7. RejectAppend(j, m) \/ MissEntries(j, m) \/ RefuseTail(j, m) => UNCHANGED logEntries
  BY DEF RejectAppend, MissEntries, RefuseTail
<1>8. ASSUME CutTail(j, m)
      PROVE  \E L \in Seq(LogEntry) :
                /\ logEntries' = [logEntries EXCEPT ![j] = L] /\ StartedLog(started, L)
                /\ Len(L) <= EndOf(m)
  <2>1. prev < LastLogIndex(j) /\ Overwrite(j, prev, m, <<>>)
    BY <1>1, <1>8 DEF CutTail
  <2>2. prev <= LastLogIndex(j) /\ prev <= prev
    BY <1>4, <2>1
  <2> QED BY <1>11, <2>1, <2>2
<1>9. ASSUME OverwriteTail(j, m)
      PROVE  \E L \in Seq(LogEntry) :
                /\ logEntries' = [logEntries EXCEPT ![j] = L] /\ StartedLog(started, L)
                /\ Len(L) <= EndOf(m)
  <2>1. /\ prev < LastLogIndex(j)
        /\ IF Matches(j, m) THEN Overwrite(j, prev, m, E) ELSE Overwrite(j, prev - 1, m, <<>>)
    BY <1>1, <1>2, <1>9 DEF OverwriteTail
  <2>2. CASE Matches(j, m)
    <3>1. prev <= LastLogIndex(j)
      BY <1>4, <2>1
    <3> QED BY <1>6, <2>1, <2>2, <3>1
  <2>3. CASE ~Matches(j, m)
    <3>1. prev # 0
      BY <1>1, <1>3, <2>3 DEF Matches, FirstMatches, TermAt
    <3>2. prev - 1 \in Nat /\ prev - 1 <= LastLogIndex(j) /\ prev - 1 <= prev
      BY <1>4, <2>1, <3>1
    <3> QED BY <1>11, <2>1, <2>3, <3>2
  <2> QED BY <2>2, <2>3
<1>10. ASSUME AppendTail(j, m)
      PROVE  \E L \in Seq(LogEntry) :
                /\ logEntries' = [logEntries EXCEPT ![j] = L] /\ StartedLog(started, L)
                /\ Len(L) <= EndOf(m)
  <2>1. prev = LastLogIndex(j) /\ Overwrite(j, prev, m, E)
    BY <1>1, <1>2, <1>10 DEF AppendTail
  <2>2. prev <= LastLogIndex(j)
    BY <1>4, <2>1
  <2> QED BY <1>6, <2>1, <2>2
<1> QED BY <1>7, <1>8, <1>9, <1>10

LEMMA AppendSaves ==
    ASSUME NEW j \in Server, NEW m, AppendEntries(j, m)
    PROVE  (UNCHANGED disk \/ Persist(j)) /\ UNCHANGED <<aeReqs, started>>
  BY DEF AppendEntries, RejectAppend, MissEntries, CutTail, OverwriteTail, RefuseTail, AppendTail

LEMMA AppendStarted ==
    ASSUME TypeInv, TypeInv', EntriesStarted, NEW j \in Server, NEW m \in aeReqs,
           AppendEntries(j, m)
    PROVE  EntriesStarted'
<1>1. (UNCHANGED disk \/ \E i \in Server : Persist(i)) /\ UNCHANGED <<aeReqs, started>>
  BY AppendSaves
<1>2. CASE UNCHANGED logEntries
  BY <1>1, <1>2, StartedQuiet
<1>3. ASSUME NEW L \in Seq(LogEntry), logEntries' = [logEntries EXCEPT ![j] = L],
             StartedLog(started, L)
      PROVE  EntriesStarted'
  <2>1. started \subseteq started' /\ StartedLog(started', L)
    BY <1>1, <1>3
  <2>2. \A c \in aeReqs' : c \in aeReqs \/ StartedCall(started', c)
    BY <1>1
  <2> QED BY <1>1, <1>3, <2>1, <2>2, StartedStep
<1> QED BY <1>2, <1>3, AppendLog DEF AppendEntries

LEMMA RestartStarted ==
    ASSUME TypeInv, TypeInv', EntriesStarted, NEW i \in Server, Restart(i) PROVE EntriesStarted'
<1>1. PICK L \in Seq(LogEntry) : L = disk[i].logEntries
  BY DEF TypeInv, Disk
<1>2. logEntries' = [logEntries EXCEPT ![i] = L] /\ UNCHANGED <<disk, aeReqs, started>>
  BY <1>1 DEF Restart
<1>3. StartedLog(started', L) /\ started \subseteq started'
  BY <1>1, <1>2 DEF EntriesStarted
<1>4. \A c \in aeReqs' : c \in aeReqs \/ StartedCall(started', c)
  BY <1>2
<1> QED BY <1>2, <1>3, <1>4, StartedStep

LEMMA OthersStarted ==
    ASSUME TypeInv, TypeInv', EntriesStarted, NEW i \in Server,
           \/ StartElection(i) \/ StartApplyLogs(i)
           \/ \E m \in voteReqs : RequestVote(i, m)
           \/ \E r \in voteReplies : CountVote(i, r) \/ TakeTermOfReply(i, r)
           \/ \E c \in deferred[i] : CompareCommit(i, c) \/ AssignCommit(i, c)
           \/ \E j \in Server : \E r : CheckReply(i, j, r)
    PROVE  EntriesStarted'
<1>1. UNCHANGED <<logEntries, aeReqs, started>>
  BY DEF StartElection, StartApplyLogs, RequestVote, CountVote, TakeTermOfReply, CompareCommit,
         AssignCommit, CheckReply
<1>2. ASSUME NEW m \in voteReqs, RequestVote(i, m) PROVE UNCHANGED disk \/ Persist(i)
  BY <1>2 DEF RequestVote, RefuseVote, RepeatVote, MeetNewTerm
<1>3. ASSUME NEW r \in voteReplies, CountVote(i, r) \/ TakeTermOfReply(i, r)
      PROVE  UNCHANGED disk \/ Persist(i)
  BY <1>3 DEF CountVote, TakeTermOfReply
<1>4. ASSUME NEW j \in Server, NEW r, CheckReply(i, j, r) PROVE UNCHANGED disk \/ Persist(i)
  BY <1>4 DEF CheckReply, ReplyAccepted, ReplyMoves, ReplyBacksUp
<1>5. UNCHANGED disk \/ Persist(i)
  BY <1>2, <1>3, <1>4 DEF StartElection, StartApplyLogs, CompareCommit, AssignCommit
<1> QED BY <1>1, <1>5, StartedQuiet

LEMMA EntriesStartedStep ==
    ASSUME TypeInv, TypeInv', EntriesStarted, [Next]_vars PROVE EntriesStarted'
<1>1. CASE UNCHANGED vars
  BY <1>1, StartedQuiet DEF vars
<1>2. CASE Next
  <2>1. Alive \subseteq Server /\ \A i \in Server : Open(i) \subseteq Server
    BY DEF Alive, Open
  <2> QED BY <1>2, <2>1, StartStarted, SendStarted, AppendStarted, RestartStarted, OthersStarted
          DEF Next
<1> QED BY <1>1, <1>2

LEMMA StartedGrows == [Next]_vars => started \subseteq started'
<1>1. ASSUME NEW i \in Server, StartElection(i) \/ Start(i) \/ Restart(i) \/ StartApplyLogs(i)
      PROVE  started \subseteq started'
  BY <1>1 DEF StartElection, Start, Restart, StartApplyLogs
<1>2. ASSUME NEW i, NEW c, CompareCommit(i, c) \/ AssignCommit(i, c)
      PROVE  started \subseteq started'
  BY <1>2 DEF CompareCommit, AssignCommit
<1>3. ASSUME NEW i, NEW m, RequestVote(i, m) \/ CountVote(i, m) \/ TakeTermOfReply(i, m)
      PROVE  started \subseteq started'
  BY <1>3 DEF RequestVote, CountVote, TakeTermOfReply
<1>4. ASSUME NEW i, NEW j, SendAppendEntries(i, j) \/ AppendEntries(i, j)
                            \/ \E r : CheckReply(i, j, r)
      PROVE  started \subseteq started'
  BY <1>4 DEF SendAppendEntries, AppendEntries, CheckReply
<1>5. CASE Next
  <2>1. Alive \subseteq Server
    BY DEF Alive
  <2> QED BY <1>1, <1>2, <1>3, <1>4, <1>5, <2>1 DEF Next
<1> QED BY <1>5 DEF vars

LEMMA CalmBefore == [Next]_vars /\ Calm' => Calm
  BY StartedGrows, AccidentsStay DEF Calm, RivalsStarted

\* Without rivals there is one entry an index: previous entries match where they exist.
LEMMA CalmMatches ==
    ASSUME TypeInv, EntriesStarted, Calm, NEW j \in Server, NEW m \in aeReqs,
           m.PrevLogIndex <= LastLogIndex(j)
    PROVE  Matches(j, m)
<1>1. PICK prev \in Nat : prev = m.PrevLogIndex
  BY CallFacts
<1>2. CASE prev = 0
  BY <1>1, <1>2, CallFacts DEF Matches, FirstMatches, TermAt
<1>3. CASE prev # 0
  <2>1. <<m.PervLogTerm, prev>> \in started
    BY <1>1, <1>3, CallFacts
  <2>2. prev \in 1..Len(logEntries[j])
    BY <1>1, <1>3, LogFacts DEF TypeInv
  <2>3. <<logEntries[j][prev].Term, prev>> \in started
    BY <2>2 DEF EntriesStarted, StartedLog
  <2>4. m.PervLogTerm = logEntries[j][prev].Term
    BY <2>1, <2>3 DEF Calm, RivalsStarted
  <2> QED BY <1>1, <1>3, <2>4 DEF Matches, TermAt
<1> QED BY <1>2, <1>3

-----------------------------------------------------------------------------
(* What every step does to a leader and its calls *)

\* A leader stays or comes of a candidacy; a candidacy is of a new term.
RoleStep(s) ==
    /\ State'[s] = "Leader" =>
         /\ Term'[s] = Term[s] /\ LastLogIndex(s) <= Len(logEntries'[s])
         /\ State[s] = "Leader" \/ (State[s] = "Candidate" /\ UNCHANGED aeReqs)
    /\ State'[s] = "Candidate" =>
         (State[s] = "Candidate" /\ Term'[s] = Term[s]) \/ Term'[s] > Term[s]

\* A log grows within a term only as its leader or by a call of that term; the disk stays
\* or is as the peer; only a restart takes a term back, to the disk's.
DiskStep(s) ==
    \/ disk'[s] = disk[s]
    \/ disk'[s].Term = Term'[s] /\ disk'[s].logEntries = logEntries'[s]
NotLonger(s) ==
    \/ Term'[s] > Term[s] \/ Len(logEntries'[s]) <= LastLogIndex(s)
    \/ State[s] = "Leader" /\ Term'[s] = Term[s]
    \/ \E m \in aeReqs : m.to = s /\ m.Term = Term'[s] /\ Len(logEntries'[s]) <= EndOf(m)
SavedStep(s) ==
    \/ Term'[s] >= Term[s] /\ DiskStep(s) /\ NotLonger(s)
    \/ Term'[s] = disk[s].Term /\ logEntries'[s] = disk[s].logEntries /\ disk'[s] = disk[s]

\* A call is sent by a leader, which waits on it; it reaches to the end of its log.
CallSent(m) ==
    /\ m.LeaderId \in Server /\ m.to \in Server
    /\ State[m.LeaderId] = "Leader" /\ Term[m.LeaderId] = m.Term
    /\ EndOf(m) = LastLogIndex(m.LeaderId)
    /\ calls'[m.LeaderId][m.to].open /\ calls'[m.LeaderId][m.to].args = m
CallsStep == aeReqs \subseteq aeReqs' /\ \A m \in aeReqs' \ aeReqs : CallSent(m)

\* An answer of a peer that has cut its log, on its disk too.
HasCut(j, m) ==
    /\ Term[j] <= m.Term /\ LastLogIndex(j) > m.PrevLogIndex
    /\ Term'[j] = m.Term /\ disk'[j].Term = m.Term
    /\ Len(logEntries'[j]) <= m.PrevLogIndex /\ Len(disk'[j].logEntries) <= m.PrevLogIndex
NewReply(j, m, r) == CalmReply(m, r) /\ (CutReply(m, r) => HasCut(j, m))

\* What a step does to the call that i waits on for j, and to nextIndex[i][j].
CallKept(i, j) ==
    \/ calls'[i][j] = calls[i][j]
    \/ calls'[i][j] = NoCall /\ (State'[i] = "Leader" => ~Current(i, j))
    \/ /\ calls[i][j].open /\ calls'[i][j].open /\ calls'[i][j].args = calls[i][j].args
       /\ \A r \in calls'[i][j].replies : NewReply(j, calls[i][j].args, r)
KeptPair(i, j) ==
    /\ State'[i] = "Leader" => State[i] = "Leader"
    /\ late'[i] # {} => Leads(i)
    /\ nextIndex'[i][j] = nextIndex[i][j] /\ CallKept(i, j)
WonPair(i, j) ==
    /\ State[i] = "Candidate" /\ nextIndex'[i][j] = LastLogIndex(i) + 1
    /\ logEntries'[i] = logEntries[i] /\ calls'[i][j] = calls[i][j]
RestartedPair(i, j) ==
    State'[i] = "Follower" /\ late'[i] = {} /\ calls'[i][j] = NoCall
SentPair(i, j) ==
    /\ State[i] = "Leader" /\ i # j /\ logEntries'[i] = logEntries[i]
    /\ nextIndex'[i][j] = nextIndex[i][j]
    /\ calls'[i][j].open /\ calls'[i][j].replies = {}
    /\ \E m \in aeReqs' :
         /\ calls'[i][j].args = m /\ m.LeaderId = i /\ m.to = j /\ m.Term = Term[i]
         /\ EndOf(m) = LastLogIndex(i) /\ m.PrevLogIndex < nextIndex[i][j]
AnsweredPair(i, j) ==
    /\ Current(i, j) /\ calls'[i][j] = NoCall /\ logEntries'[i] = logEntries[i]
    /\ \E r \in calls[i][j].replies : r.Term <= Term[i] /\ nextIndex'[i][j] = r.NextIndex
PairStep(i, j) ==
    \/ KeptPair(i, j) \/ WonPair(i, j) \/ RestartedPair(i, j)
    \/ SentPair(i, j) \/ AnsweredPair(i, j)

SenderStep ==
    /\ \A s \in Server : RoleStep(s) /\ SavedStep(s)
    /\ CallsStep /\ \A i, j \in Server : PairStep(i, j)
    /\ panicked' # "sender"

LEMMA ChosenStays ==
    ASSUME TypeInv, TypeInv', VoteStep, NEW i \in Server, NEW t \in Nat, Chosen(i, t),
           voteFor[i].Term > t \/ voteFor[i] = [Term |-> t, id |-> i]
    PROVE  /\ Chosen(i, t)'
           /\ voteFor'[i].Term > t \/ voteFor'[i] = [Term |-> t, id |-> i]
<1>1. PICK Q \in SUBSET Server : IsMajority(Q) /\ \A s \in Q \ {i} : Voted(s, i, t)
  BY DEF Chosen, Elected
<1>2. \A s \in Q \ {i} : Voted(s, i, t)'
  BY <1>1, VotedStays DEF VoteStep
<1>3. Elected(i, t)'
  BY <1>1, <1>2 DEF Elected, IsMajority
<1>4. /\ voteFor[i].Term \in Int /\ voteFor'[i].Term \in Int
      /\ voteFor'[i] = voteFor[i] \/ voteFor'[i].Term > voteFor[i].Term
  BY DEF TypeInv, VoteTypes, VoteFor, VoteStep, VotesKept
<1>5. voteFor[i] = [Term |-> t, id |-> i] => voteFor[i].Term = t
  OBVIOUS
<1>6. voteFor'[i].Term > t \/ voteFor'[i] = [Term |-> t, id |-> i]
  BY <1>4, <1>5
<1>7. ASSUME NEW r \in voteReplies', r.granted, r.from = i PROVE r.args.Term # t
  <2>1. CASE r \in voteReplies
    BY <1>7, <2>1 DEF Chosen
  <2>2. CASE r \notin voteReplies
    <3>1. /\ i # r.args.CandidateId
          /\ voteFor'[i] = [Term |-> r.args.Term, id |-> r.args.CandidateId]
      BY <1>7, <2>2 DEF VoteStep, NewVotesRecorded
    <3>2. voteFor'[i].Term = r.args.Term /\ voteFor'[i].id = r.args.CandidateId
      BY <3>1
    <3>3. voteFor'[i] = [Term |-> t, id |-> i] => voteFor'[i].id = i
      OBVIOUS
    <3> QED BY <1>6, <3>1, <3>2, <3>3
  <2> QED BY <2>1, <2>2
<1> QED BY <1>3, <1>6, <1>7 DEF Chosen

LEMMA LeaderLed ==
    ASSUME TypeInv, ElectionInv, NEW i \in Server, State[i] = "Leader"
    PROVE  LedBy(i, Term[i])
<1>1. /\ voteFor[i] = [Term |-> Term[i], id |-> i] /\ voteFor[i].Term <= disk[i].Term
      /\ Elected(i, Term[i])
  BY DEF ElectionInv, VotedForSelf, VoteOnDisk, LeadersElected
<1>2. voteFor[i].Term = Term[i] /\ voteFor[i].id = i /\ Term[i] \in Nat
  BY <1>1, VoteTerms
<1>3. ASSUME NEW r \in voteReplies, r.granted, r.from = i PROVE r.args.Term # Term[i]
  <2>1. /\ i # r.args.CandidateId
        /\ \/ voteFor[i].Term > r.args.Term
           \/ voteFor[i] = [Term |-> r.args.Term, id |-> r.args.CandidateId]
    BY <1>3 DEF ElectionInv, VotesStand
  <2> QED BY <1>2, <2>1
<1> QED BY <1>1, <1>2, <1>3 DEF LedBy, Chosen

\* Who wins an election was chosen by votes cast before.
LEMMA WinnerChosen ==
    ASSUME TypeInv, ElectionInv, VoteStep, NEW i \in Server, RoleStep(i), State'[i] = "Leader"
    PROVE  Chosen(i, Term[i])
<1>1. Term'[i] = Term[i] /\ State[i] # "Follower"
  BY DEF RoleStep
<1>2. Elected(i, Term[i])
  BY <1>1 DEF VoteStep, CountedBefore
<1>3. voteFor[i] = [Term |-> Term[i], id |-> i]
  BY <1>1 DEF ElectionInv, VotedForSelf
<1>4. voteFor[i].Term = Term[i] /\ voteFor[i].id = i /\ Term[i] \in Nat
  BY <1>3, VoteTerms
<1>5. ASSUME NEW r \in voteReplies, r.granted, r.from = i PROVE r.args.Term # Term[i]
  <2>1. /\ i # r.args.CandidateId
        /\ \/ voteFor[i].Term > r.args.Term
           \/ voteFor[i] = [Term |-> r.args.Term, id |-> r.args.CandidateId]
    BY <1>5 DEF ElectionInv, VotesStand
  <2> QED BY <1>4, <2>1
<1> QED BY <1>2, <1>5 DEF Chosen

LEMMA OneChosen ==
    ASSUME TypeInv, ElectionInv, NEW i \in Server, NEW l \in Server, NEW t \in Nat,
           Chosen(i, t), Chosen(l, t)
    PROVE  i = l
<1> SUFFICES ASSUME i # l PROVE FALSE
  OBVIOUS
<1>1. PICK P \in SUBSET Server : IsMajority(P) /\ \A s \in P \ {i} : Voted(s, i, t)
  BY DEF Chosen, Elected
<1>2. PICK Q \in SUBSET Server : IsMajority(Q) /\ \A s \in Q \ {l} : Voted(s, l, t)
  BY DEF Chosen, Elected
<1>3. PICK s \in Server : s \in P /\ s \in Q
  BY <1>1, <1>2, MajoritiesMeet
<1>4. \A a, b \in Server : Chosen(a, t) => ~Voted(a, b, t)
  BY DEF Chosen, Voted
<1>5. CASE s = i
  BY <1>2, <1>3, <1>4, <1>5
<1>6. CASE s = l
  BY <1>1, <1>3, <1>4, <1>6
<1>7. CASE s # i /\ s # l
  <2>1. Voted(s, i, t) /\ Voted(s, l, t)
    BY <1>1, <1>2, <1>3, <1>7
  <2> QED BY <2>1 DEF Voted, ElectionInv, VoteOnce
<1> QED BY <1>5, <1>6, <1>7

LEMMA SavedOn ==
    ASSUME TypeInv, TypeInv', TermsSaved, NEW s \in Server, SavedStep(s)
    PROVE  disk[s].Term <= disk'[s].Term /\ disk'[s].Term <= Term'[s]
<1>1. /\ disk[s].Term \in Nat /\ disk'[s].Term \in Nat /\ Term[s] \in Nat /\ Term'[s] \in Nat
      /\ disk[s].Term <= Term[s]
  BY VoteTerms DEF TermsSaved, TypeInv, Disk, VoteTypes
<1> QED BY <1>1 DEF SavedStep, DiskStep

LEMMA LedByStays ==
    ASSUME TypeInv, TypeInv', VoteStep, TermsSaved, NEW i \in Server, NEW t \in Nat,
           RoleStep(i), SavedStep(i), LedBy(i, t)
    PROVE  LedBy(i, t)'
<1>1. /\ Chosen(i, t)'
      /\ voteFor'[i].Term > t \/ voteFor'[i] = [Term |-> t, id |-> i]
  BY ChosenStays DEF LedBy
<1>2. /\ disk[i].Term \in Nat /\ disk'[i].Term \in Nat /\ Term[i] \in Nat /\ Term'[i] \in Nat
      /\ disk[i].Term <= Term[i]
  BY VoteTerms DEF TermsSaved, TypeInv, Disk, VoteTypes
<1>3. t <= disk[i].Term /\ disk[i].Term <= disk'[i].Term
  BY SavedOn DEF LedBy
<1>4. t <= disk'[i].Term
  BY <1>2, <1>3
<1>5. State'[i] = "Candidate" => t < Term'[i]
  <2>1. CASE State[i] = "Candidate" /\ Term'[i] = Term[i]
    BY <2>1 DEF LedBy
  <2>2. CASE Term'[i] > Term[i]
    BY <1>2, <1>3, <2>2
  <2> QED BY <2>1, <2>2 DEF RoleStep
<1> QED BY <1>1, <1>4, <1>5 DEF LedBy

\* Who wins an election has not sent a call in its term.
LEMMA WinnerSilent ==
    ASSUME TypeInv, ElectionInv, VoteStep, EntriesStarted, LedCalls, NEW i \in Server, RoleStep(i),
           State[i] = "Candidate", State'[i] = "Leader", NEW m \in aeReqs
    PROVE  m.Term # Term[i]
<1> SUFFICES ASSUME m.Term = Term[i] PROVE FALSE
  OBVIOUS
<1>1. PICK t \in Nat : t = Term[i] /\ t = m.Term
  BY CallFacts
<1>2. PICK l \in Server : l = m.LeaderId
  BY CallFacts
<1>3. LedBy(l, t)
  BY <1>1, <1>2 DEF LedCalls
<1>4. Chosen(l, t)
  BY <1>3 DEF LedBy
<1>5. Chosen(i, t)
  BY <1>1, WinnerChosen
<1>6. i = l
  BY <1>4, <1>5, OneChosen
<1>7. t < Term[i]
  BY <1>3, <1>6 DEF LedBy
<1> QED BY <1>1, <1>7

\* Who may have sent a call of a term that a step leaves it leading has led it before.
LEMMA LedBefore ==
    ASSUME TypeInv, ElectionInv, VoteStep, EntriesStarted, LedCalls, CallsStep,
           NEW i \in Server, RoleStep(i), State'[i] = "Leader",
           NEW m \in aeReqs', m.Term = Term'[i]
    PROVE  /\ State[i] = "Leader" /\ Term'[i] = Term[i]
           /\ LastLogIndex(i) <= Len(logEntries'[i])
           /\ m \in aeReqs \/ (CallSent(m) /\ m.LeaderId = i)
<1>1. Term'[i] = Term[i] /\ LastLogIndex(i) <= Len(logEntries'[i])
  BY DEF RoleStep
<1>2. CASE m \in aeReqs
  <2>1. State[i] # "Candidate"
    BY <1>1, <1>2, WinnerSilent
  <2> QED BY <1>1, <1>2, <2>1 DEF RoleStep
<1>3. CASE m \notin aeReqs
  <2>1. CallSent(m)
    BY <1>3 DEF CallsStep
  <2>2. State[i] = "Leader"
    BY <1>3 DEF RoleStep
  <2>3. m.LeaderId = i
    BY <1>1, <2>1, <2>2, OneLeaderATerm DEF CallSent
  <2> QED BY <1>1, <2>1, <2>2, <2>3
<1> QED BY <1>2, <1>3

LEMMA CallsTyped ==
    ASSUME TypeInv, NEW m \in aeReqs
    PROVE  /\ m.Term \in Nat /\ EndOf(m) \in Nat /\ m.LeaderId \in Server /\ m.to \in Server
           /\ m.PrevLogIndex \in Nat
<1>1. m \in HeartBeatArgs
  BY DEF TypeInv, CallTypes
<1> QED BY <1>1 DEF HeartBeatArgs, EndOf

LEMMA NextCallsTyped ==
    ASSUME TypeInv', NEW m \in aeReqs'
    PROVE  /\ m.Term \in Nat /\ EndOf(m) \in Nat /\ m.LeaderId \in Server /\ m.to \in Server
           /\ m.PrevLogIndex \in Nat
<1>1. m \in HeartBeatArgs
  BY DEF TypeInv, CallTypes
<1> QED BY <1>1 DEF HeartBeatArgs, EndOf

LEMMA LedCallsStep ==
    ASSUME TypeInv, TypeInv', ElectionInv, VoteStep, SentInv, SenderStep PROVE LedCalls'
<1> SUFFICES ASSUME NEW m \in aeReqs' PROVE LedBy(m.LeaderId, m.Term)'
  BY DEF LedCalls
<1>1. PICK t \in Nat : t = m.Term
  BY NextCallsTyped
<1>2. PICK l \in Server : l = m.LeaderId
  BY NextCallsTyped
<1>3. LedBy(l, t)
  <2>1. CASE m \in aeReqs
    BY <1>1, <1>2, <2>1 DEF SentInv, LedCalls
  <2>2. CASE m \notin aeReqs
    <3>1. State[l] = "Leader" /\ Term[l] = t
      BY <1>1, <1>2, <2>2 DEF SenderStep, CallsStep, CallSent
    <3> QED BY <3>1, LeaderLed
  <2> QED BY <2>1, <2>2
<1>4. LedBy(l, t)'
  BY <1>3, LedByStays DEF SentInv, SenderStep
<1> QED BY <1>1, <1>2, <1>4

LEMMA SentInLogStep ==
    ASSUME TypeInv, TypeInv', ElectionInv, VoteStep, EntriesStarted, SentInv, SenderStep
    PROVE  SentInLog'
<1> SUFFICES ASSUME NEW i \in Server, NEW m \in aeReqs', State'[i] = "Leader", m.Term = Term'[i]
             PROVE  EndOf(m) <= Len(logEntries'[i])
  BY DEF SentInLog, LastLogIndex
<1>1. RoleStep(i) /\ LedCalls /\ CallsStep
  BY DEF SenderStep, SentInv
<1>2. /\ State[i] = "Leader" /\ Term'[i] = Term[i]
      /\ LastLogIndex(i) <= Len(logEntries'[i])
      /\ m \in aeReqs \/ (CallSent(m) /\ m.LeaderId = i)
  BY <1>1, LedBefore
<1>3. EndOf(m) <= LastLogIndex(i)
  <2>1. CASE m \in aeReqs
    BY <1>2, <2>1 DEF SentInv, SentInLog
  <2>2. CASE CallSent(m) /\ m.LeaderId = i
    <3>1. LastLogIndex(i) \in Nat
      BY LogFacts DEF TypeInv
    <3> QED BY <2>2, <3>1 DEF CallSent
  <2> QED BY <1>2, <2>1, <2>2
<1>4. LastLogIndex(i) \in Nat /\ Len(logEntries'[i]) \in Nat /\ EndOf(m) \in Nat
  BY LogFacts, NextCallsTyped DEF TypeInv, LogTypes
<1> QED BY <1>2, <1>3, <1>4

LEMMA OpenSentStep ==
    ASSUME TypeInv, OpenSent, SenderStep PROVE OpenSent'
<1> SUFFICES ASSUME NEW i \in Server, NEW j \in Server, calls'[i][j].open
             PROVE  /\ calls'[i][j].args \in aeReqs' /\ calls'[i][j].args.LeaderId = i
                    /\ calls'[i][j].args.to = j /\ i # j
  BY DEF OpenSent
<1>1. PairStep(i, j) /\ aeReqs \subseteq aeReqs'
  BY DEF SenderStep, CallsStep
<1>2. calls'[i][j] # NoCall
  BY DEF NoCall
<1>3. CASE SentPair(i, j)
  BY <1>3 DEF SentPair
<1>4. CASE ~SentPair(i, j)
  <2>1. calls[i][j].open /\ calls'[i][j].args = calls[i][j].args
    BY <1>1, <1>2, <1>4 DEF PairStep, KeptPair, CallKept, WonPair, RestartedPair, AnsweredPair
  <2> QED BY <1>1, <2>1 DEF OpenSent
<1> QED BY <1>3, <1>4

\* A leader that waits on a call after a step has sent it then, or waited on it before.
LEMMA CurrentBefore ==
    ASSUME TypeInv, ElectionInv, VoteStep, EntriesStarted, SentInv, SenderStep,
           NEW i \in Server, NEW j \in Server, Current(i, j)'
    PROVE  /\ Term'[i] = Term[i] /\ State[i] = "Leader"
           /\ \/ SentPair(i, j)
              \/ KeptPair(i, j) /\ Current(i, j) /\ calls'[i][j].args = calls[i][j].args
<1>1. /\ PairStep(i, j) /\ RoleStep(i) /\ State'[i] = "Leader" /\ calls'[i][j].open
      /\ calls'[i][j].args.Term = Term'[i]
  BY DEF SenderStep, Current
<1>2. calls'[i][j] # NoCall /\ Term'[i] = Term[i]
  BY <1>1 DEF NoCall, RoleStep
<1>3. ~WonPair(i, j)
  <2> SUFFICES ASSUME WonPair(i, j) PROVE FALSE
    OBVIOUS
  <2>1. /\ State[i] = "Candidate" /\ calls[i][j].open /\ calls[i][j].args.Term = Term[i]
    BY <1>1, <1>2 DEF WonPair
  <2>2. calls[i][j].args \in aeReqs /\ LedCalls
    BY <2>1 DEF SentInv, OpenSent
  <2> QED BY <1>1, <2>1, <2>2, WinnerSilent
<1>4. SentPair(i, j) \/ KeptPair(i, j)
  BY <1>1, <1>2, <1>3 DEF PairStep, RestartedPair, AnsweredPair
<1>5. CASE SentPair(i, j)
  BY <1>2, <1>5 DEF SentPair
<1>6. CASE KeptPair(i, j)
  <2>1. State[i] = "Leader" /\ calls[i][j].open /\ calls'[i][j].args = calls[i][j].args
    BY <1>1, <1>2, <1>6 DEF KeptPair, CallKept
  <2> QED BY <1>1, <1>2, <1>6, <2>1 DEF Current
<1> QED BY <1>4, <1>5, <1>6

LEMMA LastReachesStep ==
    ASSUME TypeInv, TypeInv', ElectionInv, VoteStep, EntriesStarted, SentInv, SenderStep
    PROVE  LastReachesFurthest'
<1> SUFFICES ASSUME NEW i \in Server, NEW j \in Server, Current(i, j)', NEW m \in aeReqs',
                    m.Term = Term'[i], m.to = j
             PROVE  EndOf(m) <= EndOf(calls'[i][j].args)
  BY DEF LastReachesFurthest
<1>1. /\ Term'[i] = Term[i] /\ State[i] = "Leader"
      /\ \/ SentPair(i, j)
         \/ KeptPair(i, j) /\ Current(i, j) /\ calls'[i][j].args = calls[i][j].args
  BY CurrentBefore
<1>2. State'[i] = "Leader" /\ RoleStep(i) /\ LedCalls /\ CallsStep
  BY DEF Current, SenderStep, SentInv
<1>3. m \in aeReqs \/ (CallSent(m) /\ m.LeaderId = i)
  BY <1>2, LedBefore
<1>4. EndOf(m) \in Nat
  BY NextCallsTyped
<1>5. CASE CallSent(m) /\ m.LeaderId = i
  BY <1>4, <1>5 DEF CallSent
<1>6. CASE m \in aeReqs /\ SentPair(i, j)
  BY <1>1, <1>6 DEF SentPair, SentInv, SentInLog
<1>7. CASE m \in aeReqs /\ Current(i, j) /\ calls'[i][j].args = calls[i][j].args
  BY <1>1, <1>7 DEF SentInv, LastReachesFurthest
<1> QED BY <1>1, <1>3, <1>5, <1>6, <1>7

LEMMA SentInvStep ==
    ASSUME TypeInv, TypeInv', ElectionInv, VoteStep, EntriesStarted, SentInv, SenderStep
    PROVE  SentInv'
<1>1. TermsSaved'
  BY SavedOn DEF TermsSaved, SentInv, SenderStep
<1>2. OpenSent'
  BY OpenSentStep DEF SentInv
<1> QED BY <1>1, <1>2, LedCallsStep, SentInLogStep, LastReachesStep DEF SentInv

-----------------------------------------------------------------------------
(* What every step does to nextIndex *)

LEMMA PairTypes ==
    ASSUME TypeInv, SentInv, NEW i \in Server, NEW j \in Server
    PROVE  /\ nextIndex[i][j] \in Nat /\ LastLogIndex(i) \in Nat /\ Term[i] \in Nat
           /\ LastLogIndex(i) = Len(logEntries[i])
           /\ calls[i][j].open =>
                /\ calls[i][j].args \in aeReqs /\ EndOf(calls[i][j].args) \in Nat
                /\ calls[i][j].args.PrevLogIndex \in Nat
                /\ calls[i][j].args.PrevLogIndex <= EndOf(calls[i][j].args)
                /\ calls[i][j].args.to = j /\ i # j
                /\ \A r \in calls[i][j].replies : r.NextIndex \in Nat
<1>1. nextIndex[i][j] \in Nat /\ LastLogIndex(i) \in Nat /\ Term[i] \in Nat
      /\ LastLogIndex(i) = Len(logEntries[i])
  BY LogFacts DEF TypeInv, LeaderTypes, VoteTypes
<1>2. ASSUME calls[i][j].open
      PROVE  /\ calls[i][j].args \in aeReqs /\ EndOf(calls[i][j].args) \in Nat
             /\ calls[i][j].args.PrevLogIndex \in Nat
             /\ calls[i][j].args.PrevLogIndex <= EndOf(calls[i][j].args)
             /\ calls[i][j].args.to = j /\ i # j
             /\ \A r \in calls[i][j].replies : r.NextIndex \in Nat
  <2>1. calls[i][j].args \in aeReqs /\ calls[i][j].args.to = j /\ i # j
    BY <1>2 DEF SentInv, OpenSent
  <2>2. PICK m \in aeReqs : m = calls[i][j].args
    BY <2>1
  <2>3. m.PrevLogIndex \in Nat /\ Len(m.Entries) \in Nat
    BY DEF TypeInv, CallTypes, HeartBeatArgs
  <2>4. EndOf(m) \in Nat /\ m.PrevLogIndex <= EndOf(m)
    BY <2>3 DEF EndOf
  <2>5. calls[i][j] \in CallState /\ calls[i][j] # NoCall
    BY <1>2 DEF TypeInv, RoutineTypes, NoCall
  <2>6. \A r \in calls[i][j].replies : r.NextIndex \in Nat
    BY <2>5 DEF CallState, Answer, AppendEntriesReply
  <2> QED BY <2>1, <2>2, <2>3, <2>4, <2>6
<1> QED BY <1>1, <1>2

\* No call of a leader's term to a peer goes beyond what it waits on, or its log.
LEMMA SentReaches ==
    ASSUME TypeInv, SentInv, NEW i \in Server, NEW j \in Server, State[i] = "Leader"
    PROVE  /\ SentTo(i, j) \in Nat /\ SentTo(i, j) <= LastLogIndex(i)
           /\ Current(i, j) => SentTo(i, j) = EndOf(calls[i][j].args)
           /\ \A m \in aeReqs : m.to = j /\ m.Term = Term[i] => EndOf(m) <= SentTo(i, j)
<1>1. CASE Current(i, j)
  <2>1. SentTo(i, j) = EndOf(calls[i][j].args)
    BY <1>1 DEF SentTo
  <2>2. EndOf(calls[i][j].args) <= LastLogIndex(i) /\ EndOf(calls[i][j].args) \in Nat
    BY <1>1, PairTypes DEF Current, SentInv, SentInLog
  <2> QED BY <1>1, <2>1, <2>2 DEF SentInv, LastReachesFurthest
<1>2. CASE ~Current(i, j)
  <2>1. SentTo(i, j) = LastLogIndex(i) /\ LastLogIndex(i) \in Nat
    BY <1>2, PairTypes DEF SentTo
  <2> QED BY <1>2, <2>1 DEF SentInv, SentInLog
<1> QED BY <1>1, <1>2

LEMMA JoinedStays ==
    ASSUME TypeInv, TypeInv', ElectionInv, SentInv, NEW i \in Server, NEW j \in Server, i # j,
           State[i] = "Leader", NEW t \in Nat, t = Term[i], NEW n \in Nat, NEW n2 \in Nat,
           n <= n2, SentTo(i, j) <= n2, Joined(j, t, n), SavedStep(j)
    PROVE  Joined(j, t, n2)'
<1>1. /\ Term[j] \in Nat /\ Term'[j] \in Nat /\ disk[j].Term \in Nat /\ disk'[j].Term \in Nat
      /\ disk[j].Term <= Term[j] /\ SentTo(i, j) \in Nat
  BY VoteTerms, SentReaches DEF SentInv, TermsSaved, TypeInv, Disk, VoteTypes
<1>2. /\ LastLogIndex(j) = Len(logEntries[j]) /\ Len(logEntries[j]) \in Nat
      /\ Len(logEntries'[j]) \in Nat /\ Len(disk[j].logEntries) \in Nat
      /\ Len(disk'[j].logEntries) \in Nat
  <2>1. LastLogIndex(j) = Len(logEntries[j]) /\ logEntries[j] \in Seq(LogEntry)
    BY LogFacts DEF TypeInv
  <2>2. logEntries'[j] \in Seq(LogEntry)
    BY DEF TypeInv, LogTypes
  <2>3. disk[j].logEntries \in Seq(LogEntry) /\ disk'[j].logEntries \in Seq(LogEntry)
    BY DEF TypeInv, Disk
  <2> QED BY <2>1, <2>2, <2>3
<1>3. Term[j] >= t /\ disk[j].Term >= t
      /\ (Term[j] = t => Len(logEntries[j]) <= n)
      /\ (disk[j].Term = t => Len(disk[j].logEntries) <= n)
  BY DEF Joined
<1>4. CASE Term'[j] >= Term[j] /\ DiskStep(j) /\ NotLonger(j)
  <2>1. Term'[j] = t => Len(logEntries'[j]) <= n2
    <3> SUFFICES ASSUME Term'[j] = t PROVE Len(logEntries'[j]) <= n2
      OBVIOUS
    <3>1. Term[j] = t
      BY <1>1, <1>3, <1>4
    <3>2. State[j] # "Leader"
      BY <3>1, OneLeaderATerm
    <3>3. CASE Len(logEntries'[j]) <= LastLogIndex(j)
      BY <1>2, <1>3, <3>1, <3>3
    <3>4. ASSUME NEW m \in aeReqs, m.to = j, m.Term = Term'[j], Len(logEntries'[j]) <= EndOf(m)
          PROVE  Len(logEntries'[j]) <= n2
      <4>1. EndOf(m) <= SentTo(i, j) /\ EndOf(m) \in Nat
        BY <3>4, SentReaches, CallsTyped
      <4> QED BY <1>1, <1>2, <3>4, <4>1
    <3> QED BY <1>1, <1>4, <3>1, <3>2, <3>3, <3>4 DEF NotLonger
  <2>2. Term'[j] >= t
    BY <1>1, <1>3, <1>4
  <2>3. disk'[j].Term >= t /\ (disk'[j].Term = t => Len(disk'[j].logEntries) <= n2)
    BY <1>1, <1>2, <1>3, <1>4, <2>1, <2>2 DEF DiskStep
  <2> QED BY <2>1, <2>2, <2>3 DEF Joined
<1>5. CASE Term'[j] = disk[j].Term /\ logEntries'[j] = disk[j].logEntries /\ disk'[j] = disk[j]
  BY <1>1, <1>2, <1>3, <1>5 DEF Joined
<1> QED BY <1>4, <1>5 DEF SavedStep

\* An answer that counts points at most behind what was sent, unless the peer has cut its log.
LEMMA AnswerPoints ==
    ASSUME TypeInv, SentInv, NEW i \in Server, NEW j \in Server, PairInv(i, j), Current(i, j),
           NEW r \in calls[i][j].replies, r.Term <= Term[i]
    PROVE  \/ r.Success /\ r.NextIndex = EndOf(calls[i][j].args) + 1
           \/ ~r.Success /\ r.NextIndex \in 1..calls[i][j].args.PrevLogIndex
           \/ CutReply(calls[i][j].args, r)
<1>1. CalmReply(calls[i][j].args, r)
  BY DEF PairInv, RepliesCalm, Current
<1>2. calls[i][j].args.Term = Term[i] /\ Term[i] \in Nat /\ r.Term \in Nat
  <2>1. calls[i][j] \in CallState /\ calls[i][j] # NoCall
    BY DEF TypeInv, RoutineTypes, NoCall, Current
  <2>2. r.Term \in Nat
    BY <2>1 DEF CallState, Answer, AppendEntriesReply
  <2> QED BY <2>2, PairTypes DEF Current
<1> QED BY <1>1, <1>2 DEF CalmReply

LEMMA NextPositiveStep ==
    ASSUME TypeInv, SentInv, NEW i \in Server, NEW j \in Server, PairInv(i, j), PairStep(i, j),
           RoleStep(i), Leads(i)'
    PROVE  nextIndex'[i][j] > 0
<1>1. State'[i] = "Leader" \/ late'[i] # {}
  BY DEF Leads
<1>2. LastLogIndex(i) \in Nat /\ nextIndex[i][j] \in Nat
  BY PairTypes
<1>3. CASE KeptPair(i, j) \/ SentPair(i, j)
  <2>1. Leads(i) /\ nextIndex'[i][j] = nextIndex[i][j]
    BY <1>1, <1>3 DEF KeptPair, SentPair, Leads
  <2> QED BY <2>1 DEF PairInv, NextPositive
<1>4. CASE WonPair(i, j)
  BY <1>2, <1>4 DEF WonPair
<1>5. CASE RestartedPair(i, j)
  BY <1>1, <1>5 DEF RestartedPair
<1>6. CASE AnsweredPair(i, j)
  <2>1. PICK r \in calls[i][j].replies : r.Term <= Term[i] /\ nextIndex'[i][j] = r.NextIndex
    BY <1>6 DEF AnsweredPair
  <2>2. Current(i, j) /\ calls[i][j].open
    BY <1>6 DEF AnsweredPair, Current
  <2>3. /\ r.NextIndex \in Nat /\ EndOf(calls[i][j].args) \in Nat
        /\ calls[i][j].args.PrevLogIndex \in Nat
    BY <2>2, PairTypes
  <2> QED BY <2>1, <2>2, <2>3, AnswerPoints DEF CutReply
<1> QED BY <1>3, <1>4, <1>5, <1>6 DEF PairStep

LEMMA NextBehindStep ==
    ASSUME TypeInv, ElectionInv, VoteStep, EntriesStarted, SentInv, SenderStep,
           NEW i \in Server, NEW j \in Server, PairInv(i, j), Current(i, j)'
    PROVE  nextIndex'[i][j] > calls'[i][j].args.PrevLogIndex
<1>1. \/ SentPair(i, j)
      \/ KeptPair(i, j) /\ Current(i, j) /\ calls'[i][j].args = calls[i][j].args
  BY CurrentBefore
<1>2. CASE SentPair(i, j)
  <2>1. PICK m : calls'[i][j].args = m /\ m.PrevLogIndex < nextIndex[i][j]
                 /\ nextIndex'[i][j] = nextIndex[i][j]
    BY <1>2 DEF SentPair
  <2> QED BY <2>1
<1>3. CASE KeptPair(i, j) /\ Current(i, j) /\ calls'[i][j].args = calls[i][j].args
  BY <1>3 DEF KeptPair, PairInv, NextBehind
<1> QED BY <1>1, <1>2, <1>3

LEMMA RepliesCalmStep ==
    ASSUME NEW i \in Server, NEW j \in Server, PairInv(i, j), PairStep(i, j),
           calls'[i][j].open, NEW r \in calls'[i][j].replies
    PROVE  CalmReply(calls'[i][j].args, r)
<1>1. calls'[i][j] # NoCall
  BY DEF NoCall
<1>2. \/ calls'[i][j] = calls[i][j]
      \/ /\ calls'[i][j].args = calls[i][j].args
         /\ \A x \in calls'[i][j].replies : NewReply(j, calls[i][j].args, x)
  BY <1>1 DEF PairStep, KeptPair, CallKept, WonPair, RestartedPair, SentPair, AnsweredPair
<1> QED BY <1>2 DEF PairInv, RepliesCalm, NewReply

LEMMA AheadStep ==
    ASSUME TypeInv, TypeInv', ElectionInv, VoteStep, EntriesStarted, SentInv, SentInv', SenderStep,
           NEW i \in Server, NEW j \in Server, PairInv(i, j), State'[i] = "Leader", i # j,
           NEW t \in Nat, t = Term'[i], NEW n2 \in Nat, n2 = SentTo(i, j)',
           nextIndex'[i][j] > n2 + 1
    PROVE  Joined(j, t, n2)'
<1>1. PairStep(i, j) /\ RoleStep(i) /\ SavedStep(j) /\ Term[i] = t
  BY DEF SenderStep, RoleStep
<1>2. /\ LastLogIndex(i) \in Nat /\ nextIndex[i][j] \in Nat
      /\ LastLogIndex(i) = Len(logEntries[i]) /\ LastLogIndex(i) <= Len(logEntries'[i])
      /\ Len(logEntries'[i]) \in Nat
  <2>1. logEntries'[i] \in Seq(LogEntry)
    BY DEF TypeInv, LogTypes
  <2> QED BY <1>1, <2>1, PairTypes DEF RoleStep
<1>3. ~Current(i, j)' => n2 = Len(logEntries'[i])
  BY DEF SentTo, LastLogIndex
<1>4. ASSUME State[i] = "Leader", NEW n \in Nat, n <= n2, SentTo(i, j) <= n2, Joined(j, t, n)
      PROVE  Joined(j, t, n2)'
  BY <1>1, <1>4, JoinedStays
<1>5. CASE KeptPair(i, j) \/ SentPair(i, j)
  <2>1. State[i] = "Leader" /\ nextIndex'[i][j] = nextIndex[i][j]
    BY <1>5 DEF KeptPair, SentPair
  <2>2. PICK n \in Nat : n = SentTo(i, j) /\ n <= LastLogIndex(i)
                         /\ (Current(i, j) => n = EndOf(calls[i][j].args))
    BY <2>1, SentReaches
  <2>3. n <= n2
    <3>1. CASE Current(i, j)'
      <4>1. n2 = EndOf(calls'[i][j].args)
        BY <3>1 DEF SentTo
      <4>2. CASE SentPair(i, j)
        BY <1>2, <2>2, <4>1, <4>2 DEF SentPair
      <4>3. CASE Current(i, j) /\ calls'[i][j].args = calls[i][j].args
        BY <2>2, <4>1, <4>3
      <4> QED BY <3>1, <4>2, <4>3, CurrentBefore
    <3>2. CASE ~Current(i, j)'
      BY <1>2, <1>3, <2>2, <3>2
    <3> QED BY <3>1, <3>2
  <2>4. nextIndex[i][j] > SentTo(i, j) + 1
    BY <1>2, <2>1, <2>2, <2>3
  <2>5. Joined(j, t, n)
    BY <1>1, <2>1, <2>2, <2>4 DEF PairInv, AheadAfterCut
  <2> QED BY <1>4, <2>1, <2>2, <2>3, <2>5
<1>6. CASE WonPair(i, j)
  <2>1. ~Current(i, j)'
    BY <1>6, CurrentBefore DEF WonPair
  <2> QED BY <1>2, <1>3, <1>6, <2>1 DEF WonPair
<1>7. CASE RestartedPair(i, j)
  BY <1>7 DEF RestartedPair
<1>8. CASE AnsweredPair(i, j)
  <2>1. PICK r \in calls[i][j].replies : r.Term <= Term[i] /\ nextIndex'[i][j] = r.NextIndex
    BY <1>8 DEF AnsweredPair
  <2>2. /\ Current(i, j) /\ calls[i][j].open /\ State[i] = "Leader"
        /\ logEntries'[i] = logEntries[i] /\ calls'[i][j] = NoCall
    BY <1>8 DEF AnsweredPair, Current
  <2>3. n2 = LastLogIndex(i)
    <3>1. ~Current(i, j)'
      BY <2>2 DEF Current, NoCall
    <3> QED BY <1>2, <1>3, <2>2, <3>1
  <2>4. PICK n \in Nat : n = SentTo(i, j) /\ n <= n2 /\ n = EndOf(calls[i][j].args)
    BY <2>2, <2>3, SentReaches
  <2>5. /\ r.NextIndex \in Nat /\ calls[i][j].args.PrevLogIndex \in Nat
        /\ calls[i][j].args.PrevLogIndex <= n
    BY <2>2, <2>4, PairTypes
  <2>6. CutReply(calls[i][j].args, r)
    BY <2>1, <2>2, <2>4, <2>5, AnswerPoints
  <2>7. Joined(j, t, n)
    BY <1>1, <2>2, <2>4, <2>6 DEF PairInv, CutOnce
  <2> QED BY <1>4, <2>2, <2>4, <2>7
<1> QED BY <1>1, <1>5, <1>6, <1>7, <1>8 DEF PairStep

LEMMA CutOnceStep ==
    ASSUME TypeInv, TypeInv', ElectionInv, VoteStep, EntriesStarted, SentInv, SenderStep,
           NEW i \in Server, NEW j \in Server, PairInv(i, j), Current(i, j)',
           NEW t \in Nat, t = Term'[i], NEW n \in Nat, n = EndOf(calls'[i][j].args),
           NEW r \in calls'[i][j].replies, CutReply(calls'[i][j].args, r)
    PROVE  Joined(j, t, n)' /\ nextIndex'[i][j] <= n + 1
<1>1. /\ Term[i] = t /\ State[i] = "Leader"
      /\ \/ SentPair(i, j)
         \/ KeptPair(i, j) /\ Current(i, j) /\ calls'[i][j].args = calls[i][j].args
  BY CurrentBefore
<1>2. ~SentPair(i, j)
  BY DEF SentPair
<1>3. PICK m \in aeReqs : m = calls[i][j].args /\ m = calls'[i][j].args
  BY <1>1, <1>2, PairTypes DEF Current
<1>4. /\ i # j /\ m.Term = t /\ calls'[i][j] # NoCall /\ SentTo(i, j) = n
      /\ nextIndex'[i][j] = nextIndex[i][j] /\ nextIndex[i][j] \in Nat
  <2>1. i # j /\ nextIndex[i][j] \in Nat
    BY <1>1, <1>2, PairTypes DEF Current
  <2>2. m.Term = t /\ calls'[i][j] # NoCall
    BY <1>1, <1>2, <1>3 DEF Current, NoCall
  <2>3. SentTo(i, j) = n
    BY <1>1, <1>2, <1>3 DEF SentTo
  <2> QED BY <1>1, <1>2, <2>1, <2>2, <2>3 DEF KeptPair
<1>5. CASE calls'[i][j] = calls[i][j]
  <2>1. Joined(j, t, n) /\ nextIndex[i][j] <= n + 1
    BY <1>1, <1>2, <1>3, <1>5 DEF PairInv, CutOnce
  <2>2. SavedStep(j) /\ n <= n
    BY DEF SenderStep
  <2> QED BY <1>1, <1>4, <2>1, <2>2, JoinedStays
<1>6. CASE NewReply(j, m, r)
  <2>1. HasCut(j, m) /\ n = m.PrevLogIndex
    <3>1. CutReply(m, r) /\ m.Entries = <<>> /\ Len(<<>>) = 0
      BY <1>3 DEF CutReply
    <3>2. m.PrevLogIndex \in Nat
      BY CallsTyped
    <3> QED BY <1>3, <1>6, <3>1, <3>2 DEF NewReply, EndOf
  <2>2. Joined(j, t, n)'
    BY <1>4, <2>1 DEF HasCut, Joined
  <2>3. ~Joined(j, t, n)
    <3>1. LastLogIndex(j) = Len(logEntries[j]) /\ LastLogIndex(j) \in Nat /\ Term[j] \in Nat
      BY PairTypes
    <3> QED BY <1>4, <2>1, <3>1 DEF HasCut, Joined
  <2>4. ~(nextIndex[i][j] > SentTo(i, j) + 1)
    BY <1>1, <1>4, <2>3 DEF PairInv, AheadAfterCut
  <2> QED BY <1>4, <2>2, <2>4
<1> QED BY <1>1, <1>2, <1>3, <1>4, <1>5, <1>6 DEF KeptPair, CallKept

LEMMA PairInvStep ==
    ASSUME TypeInv, TypeInv', ElectionInv, VoteStep, EntriesStarted, SentInv, SentInv', SenderStep,
           NEW i \in Server, NEW j \in Server, PairInv(i, j)
    PROVE  PairInv(i, j)'
<1>1. PairStep(i, j) /\ RoleStep(i)
  BY DEF SenderStep
<1>2. NextPositive(i, j)'
  BY <1>1, NextPositiveStep DEF NextPositive
<1>3. NextBehind(i, j)'
  BY NextBehindStep DEF NextBehind
<1>4. RepliesCalm(i, j)'
  BY <1>1, RepliesCalmStep DEF RepliesCalm
<1>5. PICK t \in Nat : t = Term'[i]
  BY DEF TypeInv, VoteTypes
<1>6. AheadAfterCut(i, j)'
  <2> SUFFICES ASSUME State'[i] = "Leader", i # j, nextIndex'[i][j] > SentTo(i, j)' + 1
               PROVE  Joined(j, Term[i], SentTo(i, j))'
    BY DEF AheadAfterCut
  <2>1. PICK n2 \in Nat : n2 = SentTo(i, j)'
    <3>1. \/ SentTo(i, j)' = EndOf(calls'[i][j].args) /\ calls'[i][j].args \in aeReqs'
          \/ SentTo(i, j)' = Len(logEntries'[i])
      BY DEF SentTo, LastLogIndex, Current, SentInv, OpenSent
    <3>2. logEntries'[i] \in Seq(LogEntry)
      BY DEF TypeInv, LogTypes
    <3> QED BY <3>1, <3>2, NextCallsTyped
  <2>2. Joined(j, t, n2)'
    BY <1>5, <2>1, AheadStep
  <2> QED BY <1>5, <2>1, <2>2
<1>7. CutOnce(i, j)'
  <2> SUFFICES ASSUME Current(i, j)', NEW r \in calls'[i][j].replies,
                      CutReply(calls'[i][j].args, r)
               PROVE  /\ Joined(j, Term[i], EndOf(calls[i][j].args))'
                      /\ nextIndex'[i][j] <= EndOf(calls'[i][j].args) + 1
    BY DEF CutOnce
  <2>1. PICK n \in Nat : n = EndOf(calls'[i][j].args)
    <3>1. calls'[i][j].args \in aeReqs'
      BY DEF Current, SentInv, OpenSent
    <3> QED BY <3>1, NextCallsTyped
  <2>2. Joined(j, t, n)' /\ nextIndex'[i][j] <= n + 1
    BY <1>5, <2>1, CutOnceStep
  <2> QED BY <1>5, <2>1, <2>2
<1> QED BY <1>2, <1>3, <1>4, <1>6, <1>7 DEF PairInv

-----------------------------------------------------------------------------
(* The actions, while it is calm *)

SameRole(s) == State'[s] = State[s] /\ Term'[s] = Term[s] /\ late'[s] = late[s]
MovesOn(s) ==
    /\ State'[s] # "Leader" /\ Term'[s] >= Term[s]
    /\ State'[s] = "Candidate" => Term'[s] > Term[s]
    /\ late'[s] # {} => Leads(s)
LogStep(s) == NotLonger(s) /\ (State'[s] = "Leader" => LastLogIndex(s) <= Len(logEntries'[s]))

LEMMA RoleKept ==
    ASSUME TypeInv, NEW s \in Server, SameRole(s) \/ MovesOn(s), DiskStep(s), LogStep(s)
    PROVE  RoleStep(s) /\ SavedStep(s)
<1>1. Term'[s] >= Term[s]
  BY DEF TypeInv, VoteTypes, SameRole, MovesOn
<1>2. SavedStep(s)
  BY <1>1 DEF LogStep, SavedStep
<1>3. CASE SameRole(s)
  BY <1>2, <1>3 DEF RoleStep, LogStep, SameRole
<1>4. CASE MovesOn(s)
  BY <1>2, <1>4 DEF RoleStep, MovesOn
<1> QED BY <1>3, <1>4

LEMMA PairKept ==
    ASSUME NEW i \in Server, NEW j \in Server, SameRole(i) \/ MovesOn(i),
           nextIndex'[i][j] = nextIndex[i][j], CallKept(i, j)
    PROVE  PairStep(i, j)
  BY DEF PairStep, KeptPair, SameRole, MovesOn, Leads

LEMMA KeptStep ==
    ASSUME TypeInv, UNCHANGED <<nextIndex, aeReqs>>,
           \A s \in Server : SameRole(s) \/ MovesOn(s),
           \A s \in Server : DiskStep(s), \A s \in Server : LogStep(s),
           \A i, j \in Server : CallKept(i, j), panicked' # "sender"
    PROVE  SenderStep
<1>1. \A s \in Server : RoleStep(s) /\ SavedStep(s)
  BY RoleKept
<1>2. \A i, j \in Server : PairStep(i, j)
  BY PairKept
<1>3. CallsStep
  BY DEF CallsStep
<1> QED BY <1>1, <1>2, <1>3 DEF SenderStep

LEMMA DiskSteps ==
    ASSUME TypeInv, TypeInv', UNCHANGED disk \/ \E i \in Server : Persist(i)
    PROVE  \A s \in Server : DiskStep(s)
<1>1. CASE UNCHANGED disk
  BY <1>1 DEF DiskStep
<1>2. ASSUME NEW i \in Server, Persist(i), NEW s \in Server PROVE DiskStep(s)
  <2>1. CASE s = i
    BY <1>2, <2>1 DEF Persist, DiskStep, TypeInv
  <2>2. CASE s # i
    BY <1>2, <2>2 DEF Persist, DiskStep, TypeInv
  <2> QED BY <2>1, <2>2
<1> QED BY <1>1, <1>2

LEMMA LogsSame ==
    ASSUME TypeInv, UNCHANGED logEntries PROVE \A s \in Server : LogStep(s)
<1>1. \A s \in Server : LastLogIndex(s) \in Nat /\ LastLogIndex(s) = Len(logEntries'[s])
  BY LogFacts DEF TypeInv
<1> QED BY <1>1 DEF LogStep, NotLonger

LEMMA QuietSender ==
    ASSUME TypeInv, TypeInv', UNCHANGED <<logEntries, nextIndex, calls, aeReqs>>,
           \A s \in Server : SameRole(s) \/ MovesOn(s),
           UNCHANGED disk \/ \E i \in Server : Persist(i), panicked' # "sender"
    PROVE  SenderStep
<1>1. \A i, j \in Server : CallKept(i, j)
  BY DEF CallKept
<1> QED BY <1>1, DiskSteps, LogsSame, KeptStep

LEMMA StepDownRoles ==
    ASSUME TypeInv, NEW i \in Server, NEW term \in Nat, StepDown(i, term), Term[i] <= term
    PROVE  \A s \in Server : SameRole(s) \/ MovesOn(s)
<1>1. /\ State' = [State EXCEPT ![i] = "Follower"] /\ Term' = [Term EXCEPT ![i] = term]
      /\ State \in [Server -> Role] /\ Term \in [Server -> Nat]
      /\ late \in [Server -> SUBSET Server]
  BY DEF StepDown, TypeInv, VoteTypes
<1>2. ASSUME NEW s \in Server PROVE late'[s] = late[s] \/ (s = i /\ State[i] = "Leader")
  <2>1. CASE State[i] = "Leader"
    <3>1. \E c : late' = [late EXCEPT ![i] = c]
      BY <2>1 DEF StepDown
    <3> QED BY <1>1, <2>1, <3>1
  <2>2. CASE State[i] # "Leader"
    BY <2>2 DEF StepDown
  <2> QED BY <2>1, <2>2
<1>3. MovesOn(i)
  BY <1>1, <1>2 DEF MovesOn, Leads
<1>4. ASSUME NEW s \in Server, s # i PROVE SameRole(s)
  BY <1>1, <1>2, <1>4 DEF SameRole
<1> QED BY <1>3, <1>4

LEMMA StartElectionSender ==
    ASSUME TypeInv, TypeInv', panicked # "sender", NEW i \in Server, StartElection(i)
    PROVE  SenderStep
<1>1. /\ State \in [Server -> Role] /\ Term \in [Server -> Nat]
      /\ State' = [State EXCEPT ![i] = "Candidate"] /\ Term' = [Term EXCEPT ![i] = Term[i] + 1]
      /\ UNCHANGED <<late, logEntries, nextIndex, calls, aeReqs, panicked>> /\ Persist(i)
  BY DEF StartElection, TypeInv, VoteTypes
<1>2. MovesOn(i)
  BY <1>1 DEF MovesOn, Leads
<1>3. \A s \in Server \ {i} : SameRole(s)
  BY <1>1 DEF SameRole
<1> QED BY <1>1, <1>2, <1>3, QuietSender

LEMMA RequestVoteSender ==
    ASSUME TypeInv, TypeInv', panicked # "sender", NEW j \in Server, NEW m \in voteReqs,
           RequestVote(j, m)
    PROVE  SenderStep
<1>1. /\ State \in [Server -> Role] /\ Term \in [Server -> Nat] /\ m.Term \in Nat
      /\ UNCHANGED <<late, logEntries, nextIndex, calls, aeReqs, panicked>>
  BY DEF RequestVote, TypeInv, VoteTypes, VoteNetTypes, RequestVoteArgs
<1>2. CASE RefuseVote(j, m) \/ RepeatVote(j, m)
  <2>1. UNCHANGED <<State, Term, disk>>
    BY <1>2 DEF RefuseVote, RepeatVote
  <2>2. \A s \in Server : SameRole(s)
    BY <1>1, <2>1 DEF SameRole
  <2> QED BY <1>1, <2>1, <2>2, QuietSender
<1>3. CASE MeetNewTerm(j, m)
  <2>1. /\ m.Term > Term[j] /\ State' = [State EXCEPT ![j] = "Follower"]
        /\ Term' = [Term EXCEPT ![j] = m.Term] /\ Persist(j)
    BY <1>3 DEF MeetNewTerm
  <2>2. MovesOn(j)
    BY <1>1, <2>1 DEF MovesOn, Leads
  <2>3. \A s \in Server \ {j} : SameRole(s)
    BY <1>1, <2>1 DEF SameRole
  <2> QED BY <1>1, <2>1, <2>2, <2>3, QuietSender
<1> QED BY <1>2, <1>3 DEF RequestVote

\* A new leader takes every peer for as far as it is.
LEMMA CountVoteSender ==
    ASSUME TypeInv, TypeInv', panicked # "sender", NEW i \in Server, NEW r \in voteReplies,
           CountVote(i, r)
    PROVE  SenderStep
<1>1. /\ State \in [Server -> Role] /\ nextIndex \in [Server -> [Server -> Nat]]
      /\ UNCHANGED <<Term, late, logEntries, calls, aeReqs, panicked>>
      /\ UNCHANGED disk \/ Persist(i)
  BY DEF CountVote, TypeInv, VoteTypes, LeaderTypes
<1>2. CASE UNCHANGED <<State, leaderVars>>
  <2>1. \A s \in Server : SameRole(s)
    BY <1>1, <1>2 DEF SameRole
  <2> QED BY <1>1, <1>2, <2>1, QuietSender
<1>3. CASE State[i] = "Candidate" /\ BecomeLeader(i)
  <2>1. /\ State' = [State EXCEPT ![i] = "Leader"]
        /\ nextIndex' = [nextIndex EXCEPT ![i] = [j \in Server |-> LastLogIndex(i) + 1]]
    BY <1>3 DEF BecomeLeader
  <2>2. /\ State'[i] = "Leader" /\ \A j \in Server : nextIndex'[i][j] = LastLogIndex(i) + 1
        /\ \A s \in Server \ {i} : State'[s] = State[s] /\ nextIndex'[s] = nextIndex[s]
    BY <1>1, <2>1
  <2>3. \A s \in Server \ {i} : SameRole(s)
    BY <1>1, <2>2 DEF SameRole
  <2>4. \A s \in Server : DiskStep(s) /\ LogStep(s)
    BY <1>1, DiskSteps, LogsSame
  <2>5. RoleStep(i) /\ SavedStep(i)
    <3>1. Term'[i] >= Term[i]
      BY <1>1 DEF TypeInv, VoteTypes
    <3> QED BY <1>1, <1>3, <2>2, <2>4, <3>1 DEF RoleStep, SavedStep, LogStep
  <2>6. \A s \in Server : RoleStep(s) /\ SavedStep(s)
    BY <2>3, <2>4, <2>5, RoleKept
  <2>7. \A j \in Server : PairStep(i, j)
    BY <1>1, <1>3, <2>2 DEF PairStep, WonPair
  <2>8. ASSUME NEW s \in Server, NEW j \in Server, s # i PROVE PairStep(s, j)
    <3>1. CallKept(s, j) /\ SameRole(s) /\ nextIndex'[s][j] = nextIndex[s][j]
      BY <1>1, <2>2, <2>3, <2>8 DEF CallKept
    <3> QED BY <3>1, PairKept
  <2>9. CallsStep
    BY <1>1 DEF CallsStep
  <2> QED BY <1>1, <2>6, <2>7, <2>8, <2>9 DEF SenderStep
<1> QED BY <1>2, <1>3 DEF CountVote

LEMMA TakeTermSender ==
    ASSUME TypeInv, TypeInv', panicked # "sender", Calm', NEW i \in Server, NEW r \in voteReplies,
           TakeTermOfReply(i, r)
    PROVE  SenderStep
<1>1. /\ StepDown(i, r.Term) /\ Persist(i) /\ r.Term \in Nat /\ Term[i] \in Nat
      /\ UNCHANGED <<logEntries, nextIndex, calls, aeReqs, panicked>>
  BY ReplyTypes, VoteTerms DEF TakeTermOfReply
<1>2. ~(r.Term < Term[i])
  BY DEF TakeTermOfReply, Calm
<1>3. Term[i] <= r.Term
  BY <1>1, <1>2
<1> QED BY <1>1, <1>3, StepDownRoles, QuietSender

LEMMA StartSender ==
    ASSUME TypeInv, TypeInv', panicked # "sender", Calm', NEW i \in Server, Start(i)
    PROVE  SenderStep
<1>1. /\ UNCHANGED <<State, Term, nextIndex, calls, aeReqs, disk, panicked>>
      /\ late' = [late EXCEPT ![i] = IF State[i] = "Leader" THEN @ ELSE @ \ {i}]
      /\ logEntries' = [logEntries EXCEPT ![i] = Append(@, [Term |-> Term[i], Command |-> i])]
  BY DEF Start
<1>2. State[i] = "Leader"
  BY DEF Start, Calm
<1>3. \A s \in Server : SameRole(s)
  BY <1>1, <1>2 DEF SameRole, TypeInv, VoteTypes
<1>4. \A s \in Server : DiskStep(s)
  BY <1>1 DEF DiskStep
<1>5. ASSUME NEW s \in Server PROVE LogStep(s)
  <2>1. LastLogIndex(s) \in Nat /\ LastLogIndex(s) = Len(logEntries[s])
        /\ logEntries[i] \in Seq(LogEntry) /\ DOMAIN logEntries = Server
    BY LogFacts DEF TypeInv, LogTypes
  <2>2. CASE s = i
    <3>1. Len(logEntries'[i]) = Len(logEntries[i]) + 1
      BY <1>1, <2>1
    <3> QED BY <1>1, <1>2, <2>1, <2>2, <3>1 DEF LogStep, NotLonger
  <2>3. CASE s # i
    <3>1. logEntries'[s] = logEntries[s]
      BY <1>1, <2>1, <2>3
    <3> QED BY <2>1, <3>1 DEF LogStep, NotLonger
  <2> QED BY <2>2, <2>3
<1>6. \A a, b \in Server : CallKept(a, b)
  BY <1>1 DEF CallKept
<1> QED BY <1>1, <1>3, <1>4, <1>5, <1>6, KeptStep

LEMMA SendSender ==
    ASSUME TypeInv, TypeInv', panicked # "sender", NextInv, Calm', NEW i \in Server,
           NEW j \in Server, SendAppendEntries(i, j)
    PROVE  SenderStep
<1>1. nextIndex[i][j] # 0 /\ nextIndex[i][j] \in Nat
  <2>1. Leads(i)
    BY DEF SendAppendEntries, Leads
  <2>2. nextIndex[i][j] \in Nat
    BY DEF TypeInv, LeaderTypes
  <2> QED BY <2>1, <2>2 DEF NextInv, PairInv, NextPositive
<1>2. PICK m : m = ArgsFor(i, j)
  OBVIOUS
<1>3. /\ aeReqs' = aeReqs \cup {m} /\ i # j
      /\ calls' = [calls EXCEPT ![i][j] = [open |-> TRUE, args |-> m, replies |-> {}]]
      /\ accident' = IF State[i] = "Leader" THEN accident ELSE accident \cup {"strayAppend"}
      /\ UNCHANGED <<State, Term, logEntries, nextIndex, disk, panicked>>
      /\ late' = [late EXCEPT ![i] = IF State[i] = "Leader" THEN @ ELSE @ \ {j}]
  BY <1>1, <1>2 DEF SendAppendEntries
<1>4. State[i] = "Leader"
  BY <1>3 DEF Calm
<1>5. /\ m.LeaderId = i /\ m.to = j /\ m.Term = Term[i] /\ EndOf(m) = LastLogIndex(i)
      /\ m.PrevLogIndex < nextIndex[i][j]
  BY <1>1, <1>2, ArgsEnd
<1>6. \A s \in Server : SameRole(s)
  BY <1>3, <1>4 DEF SameRole, TypeInv, VoteTypes
<1>7. \A s \in Server : RoleStep(s) /\ SavedStep(s)
  BY <1>3, <1>6, DiskSteps, LogsSame, RoleKept
<1>8. /\ calls'[i][j].open /\ calls'[i][j].args = m /\ calls'[i][j].replies = {}
      /\ \A a, b \in Server : a # i \/ b # j => calls'[a][b] = calls[a][b]
  BY <1>3 DEF TypeInv, RoutineTypes
<1>9. CallsStep
  BY <1>3, <1>4, <1>5, <1>8 DEF CallsStep, CallSent
<1>10. SentPair(i, j)
  BY <1>3, <1>4, <1>5, <1>8 DEF SentPair
<1>11. ASSUME NEW a \in Server, NEW b \in Server, a # i \/ b # j PROVE PairStep(a, b)
  <2>1. CallKept(a, b) /\ nextIndex'[a][b] = nextIndex[a][b]
    BY <1>3, <1>8, <1>11 DEF CallKept
  <2> QED BY <1>6, <2>1, PairKept
<1> QED BY <1>3, <1>7, <1>9, <1>10, <1>11 DEF SenderStep, PairStep

LEMMA AnswerKept ==
    ASSUME TypeInv, NEW j \in Server, NEW m \in aeReqs, NEW reply, AnswerAppend(j, m, reply),
           NewReply(j, m, reply)
    PROVE  \A a, b \in Server : CallKept(a, b)
<1>1. CASE UNCHANGED calls
  BY <1>1 DEF CallKept
<1>2. ASSUME NEW l \in Server, calls[l][j].open, calls[l][j].args = m,
             calls' = [calls EXCEPT ![l][j].replies = {reply}]
      PROVE  \A a, b \in Server : CallKept(a, b)
  <2>1. \A a, b \in Server : a # l \/ b # j => calls'[a][b] = calls[a][b]
    BY <1>2 DEF TypeInv, RoutineTypes
  <2>2. calls[l][j] \in [open : {TRUE}, args : HeartBeatArgs, replies : SUBSET Answer]
    <3>1. calls[l][j] \in CallState /\ calls[l][j] # NoCall
      BY <1>2 DEF TypeInv, RoutineTypes, NoCall
    <3> QED BY <3>1 DEF CallState
  <2>3. calls'[l][j] = [calls[l][j] EXCEPT !.replies = {reply}]
    BY <1>2 DEF TypeInv, RoutineTypes
  <2>4. calls'[l][j].open /\ calls'[l][j].args = m /\ calls'[l][j].replies = {reply}
    BY <1>2, <2>2, <2>3
  <2>5. CallKept(l, j)
    BY <1>2, <2>4 DEF CallKept
  <2> QED BY <2>1, <2>5 DEF CallKept
<1>3. m.LeaderId \in Server
  BY CallsTyped
<1> QED BY <1>1, <1>2, <1>3 DEF AnswerAppend

LEMMA AcceptRoles ==
    ASSUME TypeInv, NEW j \in Server, NEW m \in aeReqs, Accepts(j, m)
    PROVE  /\ \A s \in Server : SameRole(s) \/ MovesOn(s)
           /\ State'[j] = "Follower" /\ Term'[j] = m.Term /\ Term[j] <= m.Term
<1>1. m.Term \in Nat /\ Term[j] \in Nat /\ m.Term >= Term[j] /\ StepDown(j, m.Term)
  BY CallsTyped, VoteTerms DEF Accepts
<1>2. Term[j] <= m.Term
  BY <1>1
<1>3. State'[j] = "Follower" /\ Term'[j] = m.Term
  BY DEF Accepts, StepDown, TypeInv, VoteTypes
<1> QED BY <1>1, <1>2, <1>3, StepDownRoles

\* While it is calm, previous entries match wherever they exist.
LEMMA AppendReply ==
    ASSUME TypeInv, TypeInv', EntriesStarted, Calm, NEW j \in Server, NEW m \in aeReqs,
           AppendEntries(j, m)
    PROVE  \E reply : AnswerAppend(j, m, reply) /\ NewReply(j, m, reply)
<1>1. /\ m.PrevLogIndex \in Nat /\ Len(m.Entries) \in Nat /\ m.Term \in Nat /\ Term[j] \in Nat
      /\ LastLogIndex(j) \in Nat /\ EndOf(m) = m.PrevLogIndex + Len(m.Entries)
  BY CallFacts, VoteTerms, LogFacts DEF TypeInv, EndOf
<1>2. CASE RejectAppend(j, m)
  <2>1. PICK reply : reply = [Term |-> Term[j], Success |-> FALSE, NextIndex |-> 0]
    OBVIOUS
  <2>2. /\ ~reply.Success /\ reply.NextIndex = 0 /\ reply.Term > m.Term
        /\ AnswerAppend(j, m, reply)
    BY <1>1, <1>2, <2>1 DEF RejectAppend
  <2> QED BY <1>1, <2>2 DEF NewReply, CalmReply, CutReply
<1>3. CASE MissEntries(j, m)
  <2>1. PICK reply : reply = [Term |-> Term[j], Success |-> FALSE,
                              NextIndex |-> LastLogIndex(j) + 1]
    OBVIOUS
  <2>2. /\ ~reply.Success /\ reply.NextIndex \in 1..m.PrevLogIndex
        /\ AnswerAppend(j, m, reply)
    BY <1>1, <1>3, <2>1 DEF MissEntries
  <2> QED BY <1>1, <2>2 DEF NewReply, CalmReply, CutReply
<1>4. CASE CutTail(j, m)
  <2>1. PICK reply : reply = [Term |-> Term[j], Success |-> FALSE,
                              NextIndex |-> LastLogIndex(j) + 1]
    OBVIOUS
  <2>2. /\ ~reply.Success /\ reply.NextIndex = LastLogIndex(j) + 1 /\ AnswerAppend(j, m, reply)
        /\ m.PrevLogIndex < LastLogIndex(j) /\ m.Entries = <<>> /\ Accepts(j, m) /\ Persist(j)
    BY <1>4, <2>1 DEF CutTail
  <2>3. CutReply(m, reply)
    BY <1>1, <2>2 DEF CutReply
  <2>4. Term[j] <= m.Term /\ Term'[j] = m.Term
    BY <2>2, AcceptRoles
  <2>5. disk'[j].Term = Term'[j] /\ disk'[j].logEntries = logEntries'[j]
    BY <2>2 DEF Persist, TypeInv
  <2>6. Len(logEntries'[j]) <= m.PrevLogIndex
    <3>1. PICK L \in Seq(LogEntry) : /\ logEntries' = [logEntries EXCEPT ![j] = L]
                                      /\ Len(L) <= EndOf(m)
      BY <1>4, AppendLog
    <3>2. EndOf(m) = m.PrevLogIndex
      BY <2>2, CallFacts
    <3> QED BY <3>1, <3>2 DEF TypeInv, LogTypes
  <2>7. HasCut(j, m)
    BY <1>1, <2>2, <2>4, <2>5, <2>6 DEF HasCut
  <2> QED BY <2>2, <2>3, <2>7 DEF NewReply, CalmReply
<1>5. ASSUME NEW reply, reply.Success, reply.NextIndex = EndOf(m) + 1 PROVE NewReply(j, m, reply)
  BY <1>5 DEF NewReply, CalmReply, CutReply
<1>6. CASE OverwriteTail(j, m)
  <2>1. Matches(j, m)
    <3>1. m.PrevLogIndex <= LastLogIndex(j)
      BY <1>1, <1>6 DEF OverwriteTail
    <3> QED BY <3>1, CalmMatches
  <2>2. PICK reply : reply = [Term |-> Term[j], Success |-> Matches(j, m),
                              NextIndex |-> m.PrevLogIndex + 1 + IF Matches(j, m)
                                                                 THEN Len(m.Entries) ELSE 0]
    OBVIOUS
  <2>3. AnswerAppend(j, m, reply)
    BY <1>6, <2>2 DEF OverwriteTail
  <2>4. reply.Success /\ reply.NextIndex = EndOf(m) + 1
    BY <1>1, <2>1, <2>2
  <2> QED BY <1>5, <2>3, <2>4
<1>7. CASE RefuseTail(j, m)
  <2>1. m.PrevLogIndex <= LastLogIndex(j) /\ ~Matches(j, m)
    BY <1>1, <1>7 DEF RefuseTail
  <2> QED BY <2>1, CalmMatches
<1>8. CASE AppendTail(j, m)
  <2>1. PICK reply : reply = [Term |-> Term[j], Success |-> TRUE,
                              NextIndex |-> m.PrevLogIndex + 1 + Len(m.Entries)]
    OBVIOUS
  <2>2. AnswerAppend(j, m, reply)
    BY <1>8, <2>1 DEF AppendTail
  <2>3. reply.Success /\ reply.NextIndex = EndOf(m) + 1
    BY <1>1, <2>1
  <2> QED BY <1>5, <2>2, <2>3
<1> QED BY <1>2, <1>3, <1>4, <1>6, <1>7, <1>8 DEF AppendEntries

LEMMA AppendSender ==
    ASSUME TypeInv, TypeInv', panicked # "sender", EntriesStarted, Calm, NEW j \in Server,
           NEW m \in aeReqs, AppendEntries(j, m)
    PROVE  SenderStep
<1>1. UNCHANGED <<nextIndex, aeReqs, panicked>> /\ m.to = j
  BY DEF AppendEntries
<1>2. \A a, b \in Server : CallKept(a, b)
  BY AppendReply, AnswerKept
<1>3. \A s \in Server : DiskStep(s)
  BY AppendSaves, DiskSteps
<1>4. CASE RejectAppend(j, m)
  <2>1. \A s \in Server : SameRole(s)
    BY <1>4 DEF RejectAppend, SameRole
  <2>2. \A s \in Server : LogStep(s)
    BY <1>4, LogsSame DEF RejectAppend
  <2> QED BY <1>1, <1>2, <1>3, <2>1, <2>2, KeptStep
<1>5. CASE Accepts(j, m)
  <2>1. /\ \A s \in Server : SameRole(s) \/ MovesOn(s)
        /\ State'[j] = "Follower" /\ Term'[j] = m.Term
    BY <1>5, AcceptRoles
  <2>2. CASE UNCHANGED logEntries
    BY <1>1, <1>2, <1>3, <2>1, <2>2, LogsSame, KeptStep
  <2>3. ASSUME NEW L \in Seq(LogEntry), logEntries' = [logEntries EXCEPT ![j] = L],
               Len(L) <= EndOf(m)
        PROVE  SenderStep
    <3>1. logEntries'[j] = L /\ \A s \in Server \ {j} : logEntries'[s] = logEntries[s]
      BY <2>3 DEF TypeInv, LogTypes
    <3>2. LogStep(j)
      BY <1>1, <2>1, <2>3, <3>1 DEF LogStep, NotLonger
    <3>3. ASSUME NEW s \in Server, s # j PROVE LogStep(s)
      <4>1. LastLogIndex(s) \in Nat /\ LastLogIndex(s) = Len(logEntries'[s])
        BY <3>1, <3>3, LogFacts DEF TypeInv
      <4> QED BY <4>1 DEF LogStep, NotLonger
    <3> QED BY <1>1, <1>2, <1>3, <2>1, <3>2, <3>3, KeptStep
  <2>4. UNCHANGED logEntries
        \/ \E L \in Seq(LogEntry) : logEntries' = [logEntries EXCEPT ![j] = L] /\ Len(L) <= EndOf(m)
    BY AppendLog DEF AppendEntries
  <2> QED BY <2>2, <2>3, <2>4
<1>6. RejectAppend(j, m) \/ Accepts(j, m)
  BY DEF AppendEntries, MissEntries, CutTail, OverwriteTail, RefuseTail, AppendTail
<1> QED BY <1>4, <1>5, <1>6

\* An answer that counts moves nextIndex; it never sends the sender below the first entry.
LEMMA CheckReplySender ==
    ASSUME TypeInv, TypeInv', panicked # "sender", SentInv, NextInv, NEW i \in Server,
           NEW j \in Server, calls[i][j].open, NEW r \in calls[i][j].replies, CheckReply(i, j, r)
    PROVE  SenderStep
<1> DEFINE m == calls[i][j].args
<1>1. /\ calls' = [calls EXCEPT ![i][j] = NoCall] /\ UNCHANGED <<logEntries, aeReqs>>
      /\ r.Term \in Nat /\ Term[i] \in Nat /\ nextIndex \in [Server -> [Server -> Nat]]
      /\ r.NextIndex \in Nat
  <2>1. calls[i][j] \in CallState /\ calls[i][j] # NoCall
    BY DEF TypeInv, RoutineTypes, NoCall
  <2>2. r.Term \in Nat /\ r.NextIndex \in Nat
    BY <2>1 DEF CallState, Answer, AppendEntriesReply
  <2> QED BY <2>2, VoteTerms DEF CheckReply, TypeInv, LeaderTypes
<1>2. /\ calls'[i][j] = NoCall
      /\ \A a, b \in Server : a # i \/ b # j => calls'[a][b] = calls[a][b]
  BY <1>1 DEF TypeInv, RoutineTypes
<1>3. ASSUME UNCHANGED <<nextIndex, panicked>>, \A s \in Server : SameRole(s) \/ MovesOn(s),
             UNCHANGED disk \/ Persist(i), State'[i] = "Leader" => ~Current(i, j)
      PROVE  SenderStep
  <2>1. \A a, b \in Server : CallKept(a, b)
    BY <1>2, <1>3 DEF CallKept
  <2> QED BY <1>1, <1>3, <2>1, DiskSteps, LogsSame, KeptStep
<1>4. CASE r.Term > Term[i] /\ StepDown(i, r.Term) /\ Persist(i)
           /\ UNCHANGED <<leaderVars, panicked>>
  <2>1. Term[i] <= r.Term /\ State'[i] = "Follower"
    BY <1>1, <1>4 DEF StepDown, TypeInv, VoteTypes
  <2> QED BY <1>1, <1>3, <1>4, <2>1, StepDownRoles
<1>5. CASE (State[i] # "Leader" \/ Term[i] # m.Term)
           /\ UNCHANGED <<State, Term, late, leaderVars, disk, panicked>>
  <2>1. \A s \in Server : SameRole(s)
    BY <1>5 DEF SameRole
  <2>2. ~Current(i, j)
    BY <1>5 DEF Current
  <2> QED BY <1>3, <1>5, <2>1, <2>2
<1>6. ASSUME r.Term <= Term[i], State[i] = "Leader", Term[i] = m.Term,
             UNCHANGED <<State, Term, late>>,
             ReplyAccepted(i, j, m, r) \/ ReplyMoves(i, j, r) \/ ReplyBacksUp(i, j, m, r)
      PROVE  SenderStep
  <2>1. Current(i, j)
    BY <1>6 DEF Current
  <2>2. ~ReplyBacksUp(i, j, m, r)
    <3> SUFFICES ASSUME ~r.Success, nextIndex[i][j] = r.NextIndex PROVE FALSE
      BY DEF ReplyBacksUp
    <3>1. PairInv(i, j)
      BY DEF NextInv
    <3>2. /\ r.NextIndex > m.PrevLogIndex /\ m.PrevLogIndex \in Nat
          /\ CutReply(m, r) => r.NextIndex <= EndOf(m) + 1
      BY <2>1, <3>1, PairTypes DEF PairInv, NextBehind, CutOnce
    <3>3. CutReply(m, r)
      BY <1>6, <2>1, <3>1, <3>2, AnswerPoints
    <3>4. m.Entries = <<>> /\ r.NextIndex > m.PrevLogIndex + 1
      BY <3>3 DEF CutReply
    <3>5. EndOf(m) = m.PrevLogIndex
      <4>1. Len(<<>>) = 0
        OBVIOUS
      <4> QED BY <3>2, <3>4, <4>1 DEF EndOf
    <3> QED BY <1>1, <3>2, <3>3, <3>4, <3>5
  <2>3. /\ nextIndex' = [nextIndex EXCEPT ![i][j] = r.NextIndex] /\ UNCHANGED panicked
        /\ Persist(i)
    BY <1>6, <2>2 DEF ReplyAccepted, ReplyMoves
  <2>4. /\ nextIndex'[i][j] = r.NextIndex
        /\ \A a, b \in Server : a # i \/ b # j => nextIndex'[a][b] = nextIndex[a][b]
    BY <1>1, <2>3
  <2>5. \A s \in Server : SameRole(s)
    BY <1>6 DEF SameRole
  <2>6. \A s \in Server : RoleStep(s) /\ SavedStep(s)
    BY <1>1, <2>3, <2>5, DiskSteps, LogsSame, RoleKept
  <2>7. PairStep(i, j)
    BY <1>1, <1>2, <1>6, <2>1, <2>4 DEF PairStep, AnsweredPair
  <2>8. ASSUME NEW a \in Server, NEW b \in Server, a # i \/ b # j PROVE PairStep(a, b)
    <3>1. CallKept(a, b) /\ nextIndex'[a][b] = nextIndex[a][b]
      BY <1>2, <2>4, <2>8 DEF CallKept
    <3> QED BY <2>5, <3>1, PairKept
  <2>9. CallsStep
    BY <1>1 DEF CallsStep
  <2> QED BY <2>3, <2>6, <2>7, <2>8, <2>9 DEF SenderStep
<1> QED BY <1>4, <1>5, <1>6 DEF CheckReply

LEMMA RestartSender ==
    ASSUME TypeInv, TypeInv', panicked # "sender", NEW i \in Server, Restart(i) PROVE SenderStep
<1>1. /\ State' = [State EXCEPT ![i] = "Follower"] /\ Term' = [Term EXCEPT ![i] = disk[i].Term]
      /\ logEntries' = [logEntries EXCEPT ![i] = disk[i].logEntries]
      /\ nextIndex' = [nextIndex EXCEPT ![i] = [j \in Server |-> 0]]
      /\ calls' = [calls EXCEPT ![i] = [j \in Server |-> NoCall]]
      /\ late' = [late EXCEPT ![i] = {}] /\ UNCHANGED <<disk, aeReqs, panicked>>
  BY DEF Restart
<1>2. /\ State'[i] = "Follower" /\ Term'[i] = disk[i].Term /\ late'[i] = {}
      /\ logEntries'[i] = disk[i].logEntries /\ \A j \in Server : calls'[i][j] = NoCall
      /\ \A s \in Server \ {i} :
           /\ State'[s] = State[s] /\ Term'[s] = Term[s] /\ late'[s] = late[s]
           /\ logEntries'[s] = logEntries[s] /\ nextIndex'[s] = nextIndex[s]
           /\ calls'[s] = calls[s]
  BY <1>1 DEF TypeInv, VoteTypes, LogTypes, LeaderTypes, RoutineTypes
<1>3. RoleStep(i) /\ SavedStep(i)
  BY <1>1, <1>2 DEF RoleStep, SavedStep
<1>4. ASSUME NEW s \in Server, s # i PROVE SameRole(s) /\ RoleStep(s) /\ SavedStep(s)
  <2>1. SameRole(s) /\ DiskStep(s)
    BY <1>1, <1>2, <1>4 DEF SameRole, DiskStep
  <2>2. LogStep(s)
    <3>1. LastLogIndex(s) \in Nat /\ LastLogIndex(s) = Len(logEntries'[s])
      BY <1>2, <1>4, LogFacts DEF TypeInv
    <3> QED BY <3>1 DEF LogStep, NotLonger
  <2> QED BY <2>1, <2>2, RoleKept
<1>5. \A j \in Server : PairStep(i, j)
  BY <1>2 DEF PairStep, RestartedPair
<1>6. ASSUME NEW s \in Server, NEW j \in Server, s # i PROVE PairStep(s, j)
  <2>1. CallKept(s, j) /\ nextIndex'[s][j] = nextIndex[s][j]
    BY <1>2, <1>6 DEF CallKept
  <2> QED BY <1>4, <1>6, <2>1, PairKept
<1>7. CallsStep
  BY <1>1 DEF CallsStep
<1> QED BY <1>1, <1>3, <1>4, <1>5, <1>6, <1>7 DEF SenderStep

LEMMA OtherSender ==
    ASSUME TypeInv, TypeInv', panicked # "sender", NEW i \in Server,
           \/ \E c \in deferred[i] : CompareCommit(i, c) \/ AssignCommit(i, c)
           \/ StartApplyLogs(i)
    PROVE  SenderStep
<1>1. /\ UNCHANGED <<State, Term, late, logEntries, nextIndex, calls, aeReqs>>
      /\ UNCHANGED disk \/ Persist(i)
  BY DEF CompareCommit, AssignCommit, StartApplyLogs
<1>2. panicked' # "sender"
  BY DEF CompareCommit, AssignCommit, StartApplyLogs
<1>3. \A s \in Server : SameRole(s)
  BY <1>1 DEF SameRole
<1> QED BY <1>1, <1>2, <1>3, QuietSender

LEMMA EverySenderStep ==
    ASSUME TypeInv, TypeInv', EntriesStarted, SentInv, NextInv, panicked # "sender", Calm, Calm',
           [Next]_vars
    PROVE  SenderStep
<1>1. CASE UNCHANGED vars
  <2>1. \A s \in Server : SameRole(s)
    BY <1>1 DEF SameRole, vars
  <2> QED BY <1>1, <2>1, QuietSender DEF vars
<1>2. CASE Next
  <2>1. Alive \subseteq Server
    BY DEF Alive
  <2>2. \A i \in Server : \A j \in Open(i) : j \in Server /\ calls[i][j].open
    BY DEF Open
  <2> QED BY <1>2, <2>1, <2>2, StartElectionSender, RequestVoteSender, CountVoteSender,
             TakeTermSender, StartSender, SendSender, AppendSender, CheckReplySender,
             RestartSender, OtherSender DEF Next
<1> QED BY <1>1, <1>2

-----------------------------------------------------------------------------
(* No sender dies of missing entries *)

LEMMA InitSender == Init => SenderInv
<1> SUFFICES ASSUME Init PROVE SenderInv
  OBVIOUS
<1>1. EntriesStarted
  <2>1. StartedLog({}, <<>>)
    BY DEF StartedLog
  <2> QED BY <2>1 DEF Init, EntriesStarted
<1>2. \A i, j \in Server : ~calls[i][j].open /\ State[i] = "Follower" /\ late[i] = {}
  BY DEF Init, NoCall
<1>3. SentInv
  <2>1. TermsSaved
    BY DEF Init, TermsSaved
  <2>2. aeReqs = {}
    BY DEF Init
  <2> QED BY <1>2, <2>1, <2>2
          DEF SentInv, LedCalls, OpenSent, SentInLog, LastReachesFurthest, Current
<1>4. NextInv
  BY <1>2 DEF NextInv, PairInv, NextPositive, NextBehind, RepliesCalm, AheadAfterCut, CutOnce,
              Current, Leads
<1>5. panicked # "sender"
  BY DEF Init
<1> QED BY <1>1, <1>3, <1>4, <1>5 DEF SenderInv

LEMMA SenderInvStep ==
    ASSUME TypeInv, TypeInv', Lab3AInv, SenderInv, [Next]_vars PROVE SenderInv'
<1>1. EntriesStarted /\ EntriesStarted'
  BY EntriesStartedStep DEF SenderInv
<1>2. ASSUME Calm' PROVE (SentInv /\ NextInv /\ panicked # "sender")'
  <2>1. Calm
    BY <1>2, CalmBefore
  <2>2. SentInv /\ NextInv /\ panicked # "sender"
    BY <2>1 DEF SenderInv
  <2>3. SenderStep
    BY <1>1, <1>2, <2>1, <2>2, EverySenderStep
  <2>4. ElectionInv /\ "termBack" \notin accident'
    BY <1>2, <2>1 DEF Lab3AInv, Calm
  <2>5. VoteStep
    BY <2>4, EveryStepVotes
  <2>6. SentInv'
    BY <1>1, <2>2, <2>3, <2>4, <2>5, SentInvStep
  <2>7. NextInv'
    <3>1. ASSUME NEW i \in Server, NEW j \in Server PROVE PairInv(i, j)'
      BY <1>1, <2>2, <2>3, <2>4, <2>5, <2>6, PairInvStep DEF NextInv
    <3> QED BY <3>1 DEF NextInv
  <2>8. panicked' # "sender"
    BY <2>3 DEF SenderStep
  <2> QED BY <2>6, <2>7, <2>8
<1> QED BY <1>1, <1>2 DEF SenderInv

LEMMA SenderInvariant == Spec => []SenderInv
<1>1. Lab3AInv => TypeInv
  BY DEF Lab3AInv
<1>2. TypeInv /\ TypeInv' /\ Lab3AInv /\ SenderInv /\ [Next]_vars => SenderInv'
  BY SenderInvStep
<1> QED BY <1>1, <1>2, InitSender, Lab3AInvariant, TypeInvariant, PTL DEF Spec

\* A sender's process dies on index -1 only once two leaders have started different entries
\* at one index, or after an accident: for any number of servers, and however calls and
\* answers are lost, late or repeated, missing entries alone never take nextIndex below 1.
THEOREM SenderDiesOfRivals == Spec => []SenderPanicsExplained
<1>1. SenderInv => SenderPanicsExplained
  BY DEF SenderInv, SenderPanicsExplained, Calm
<1> QED BY <1>1, SenderInvariant, PTL

=============================================================================
