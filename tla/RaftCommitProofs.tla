-------------------------- MODULE RaftCommitProofs --------------------------
(***************************************************************************)
(* What is committed is never lost: for up to three servers, any commands, *)
(* calls, losses, crashes and restarts, as long as no peer compacts its    *)
(* log and no peer repeats a vote that it gave in an earlier term.  Both   *)
(* limits are the code's: the runs raft_commit5 and raft_stalevote show    *)
(* how committed entries are lost beyond them.                             *)
(***************************************************************************)
EXTENDS RaftLogProofs

-----------------------------------------------------------------------------
(* Beyond which the code loses entries *)

\* Where a peer would repeat its vote to a candidate that asks for it, it gave that vote
\* in this very term, or the term has a leader already (see raft_stalevote).
NoStaleVote ==
    \A j \in Server, m \in voteReqs :
        m.term = currentTerm[j] /\ votedFor[j] = m.candidateId /\ m.candidateId # j
          => Voted(j, m.candidateId, m.term) \/ \E a \in aeReqs : a.term = m.term

\* Two of the peers are a majority (see raft_commit5).
TwoAreMajority == Cardinality(Server) <= 3

-----------------------------------------------------------------------------
(* What became of the entries of a term *)

\* The state does not remember all that the proof is about.  TL[t] is the log of term t
\* (TermLogs), D the terms that got a leader, and A the acknowledgements: <<q, t, e>> is in
\* A when q, in term t, has saved a log that is the leader's up to e.
Acked(A, q, t, e) == <<q, t, e>> \in A

\* The leader of term t has started its entry e itself.
Own(TL, t, e) == e \in 1..Len(TL[t]) /\ TL[t][e].term = t

\* A majority holds such an entry: it is committed, whoever knows.
Chosen(TL, A, t, e) ==
    /\ Own(TL, t, e)
    /\ \E Q \in SUBSET Server : IsMajority(Q) /\ \A q \in Q : Acked(A, q, t, e)

\* It never will be: a majority has gone on to newer terms without it.
Lost(A, t, e) ==
    \E Q \in SUBSET Server :
        IsMajority(Q) /\ \A q \in Q : currentTerm[q] > t /\ ~Acked(A, q, t, e)

\* The first c entries of X are committed, by term T at the latest.
Committed(TL, A, X, c, T) ==
    \/ c = 0
    \/ \E t \in Nat, e \in Nat :
         t <= T /\ c <= e /\ Chosen(TL, A, t, e) /\ AgreeUpTo(TL[t], X, c)

\* The entry is the committed one at index k.
Fixed(TL, A, k, entry) ==
    \E t \in Nat, e \in Nat : k <= e /\ Chosen(TL, A, t, e) /\ entry = TL[t][k]

-----------------------------------------------------------------------------
(* The inductive invariant *)

\* Terms never fall along a log, and none is above t.
Sorted(X, t) ==
    \A k \in 1..Len(X) : X[k].term <= t /\ \A n \in 1..k : X[n].term <= X[k].term
Reaches(X, t) == \A k \in 1..Len(X) : X[k].term <= t

TermsSorted(TL) == \A t \in Nat : Sorted(TL[t], t)
TermsReached ==
    \A i \in Server : Reaches(logs[i], currentTerm[i]) /\ Reaches(disk[i].logs, currentTerm[i])

\* D holds the terms that were led, and only those.
TermsLed(TL, D) ==
    /\ D \subseteq Nat
    /\ \A u \in D : \E l \in Server : LedBy(l, u)
    /\ \A t \in Nat : TL[t] # <<>> => t \in D
    /\ \A i \in Server : role[i] = "Leader" => currentTerm[i] \in D
    /\ \A m \in aeReqs : m.term \in D

\* A call goes on to the end of its sender's log: what is past it was started later.
EndOf(m) == m.prevLogIndex + Len(m.entries)
CallReaches(L, m) == \A k \in 1..Len(L) : k > EndOf(m) => L[k].term = m.term
CallsReach(TL) == \A m \in aeReqs : CallReaches(TL[m.term], m)

AcksStand(TL, A) ==
    \A q \in Server, t \in Nat, e \in Nat : Acked(A, q, t, e) =>
        e \in 1..Len(TL[t]) /\ currentTerm[q] >= t

\* What a peer has acknowledged it still has, in memory and on disk, unless it is of no use.
HeldBy(TL, q, t, e) == AgreeUpTo(TL[t], logs[q], e) /\ AgreeUpTo(TL[t], disk[q].logs, e)
AcksKept(TL, A) ==
    \A q \in Server, t \in Nat, e \in Nat :
        Own(TL, t, e) /\ Acked(A, q, t, e) => Lost(A, t, e) \/ HeldBy(TL, q, t, e)

\* A request for votes comes from a log that ends no earlier than entry e of term t.
AtLeast(m, t, e) == m.lastLogTerm > t \/ (m.lastLogTerm = t /\ m.lastLogIndex >= e)
Compared(TL, A, r) ==
    \A t \in Nat, e \in Nat :
        t < r.request.term /\ Own(TL, t, e) /\ Acked(A, r.from, t, e)
            => Lost(A, t, e) \/ AtLeast(r.request, t, e)
\* A vote that may still count went to a log that has what the voter had acknowledged.
VotesCompared(TL, D, A) ==
    \A r \in voteReplies : r.granted => r.request.term \in D \/ Compared(TL, A, r)

\* The leader of a later term has the entry, unless it is lost.
LeadersSafe(TL, D, A) ==
    \A u \in D, t \in Nat, e \in Nat :
        t < u /\ Own(TL, t, e) => Lost(A, t, e) \/ AgreeUpTo(TL[t], TL[u], e)

Core(TL, D, A) ==
    /\ TermsSorted(TL) /\ TermsReached /\ TermsLed(TL, D) /\ CallsReach(TL)
    /\ AcksStand(TL, A) /\ AcksKept(TL, A) /\ VotesCompared(TL, D, A) /\ LeadersSafe(TL, D, A)

\* There is one request for votes a candidacy, and it tells of the candidate's log.
EndsLike(m, X) ==
    /\ m.lastLogIndex = Len(X)
    /\ X = <<>> => m.lastLogTerm = 0
    /\ X # <<>> => m.lastLogTerm = X[Len(X)].term
OwnRequest(m) ==
    LET c == m.candidateId
    IN /\ currentTerm[c] >= m.term
       /\ role[c] = "Candidate" /\ currentTerm[c] = m.term => EndsLike(m, logs[c])
RequestsStand ==
    /\ \A m \in voteReqs : OwnRequest(m)
    /\ \A m1, m2 \in voteReqs :
         m1.candidateId = m2.candidateId /\ m1.term = m2.term => m1 = m2
    /\ \A r \in voteReplies : r.request \in voteReqs

\* A reply a goroutine waits for that tells of success rests on an acknowledgement.
AckedUpTo(A, q, t, k) == \A e \in 1..k : Acked(A, q, t, e)
TrueReply(A, j, m, r) ==
    r.success => r.nextLogIndex = EndOf(m) + 1 /\ AckedUpTo(A, j, m.term, EndOf(m))
TrueCall(A, i, j, call) ==
    call.open =>
        /\ call.args \in aeReqs /\ call.args.leaderId = i /\ call.args.to = j /\ i # j
        /\ \A r \in call.replies : TrueReply(A, j, call.args, r)
RepliesTrue(A) == \A i, j \in Server : TrueCall(A, i, j, aeCall[i][j])

\* What a leader takes for matched is, in the entries it has started itself.
MatchTrue(TL, A) ==
    \A i, j \in Server : role[i] = "Leader" /\ i # j =>
        /\ matchIndex[i][j] <= Len(logs[i])
        /\ \A e \in 1..matchIndex[i][j] :
             Own(TL, currentTerm[i], e) => Acked(A, j, currentTerm[i], e)

\* Commit indexes, in memory, on disk and on the network, cover committed entries only.
CommitsChosen(TL, A) ==
    \A i \in Server :
        /\ disk[i].commitIndex = commitIndex[i]
        /\ Committed(TL, A, logs[i], commitIndex[i], currentTerm[i])
        /\ Committed(TL, A, disk[i].logs, commitIndex[i], currentTerm[i])
CallCommits(TL, A, m) ==
    m.leaderCommit <= EndOf(m) /\ Committed(TL, A, TL[m.term], m.leaderCommit, m.term)
CallsCommit(TL, A) == \A m \in aeReqs : CallCommits(TL, A, m)

\* So does what the services have applied, and what is on its way to them.
AppliedChosen(TL, A) ==
    \A i \in Server :
        /\ \A k \in 1..Len(applied[i]) :
             applied[i][k] = NoEntry \/ Fixed(TL, A, k, applied[i][k])
        /\ \A n \in 1..Len(batch[i]) :
             /\ batch[i][n].index \in 1..commitIndex[i]
             /\ Fixed(TL, A, batch[i][n].index, batch[i][n].entry)
        /\ svc[i].op = "snapshot" => svc[i].index <= commitIndex[i]

\* Where no peer compacts its log, no snapshot is saved, sent or installed.
NothingInstalled ==
    /\ snapReplies = {}
    /\ \A i \in Server :
         /\ svc[i].op # "install" /\ disk[i].snapshot = <<>>
         /\ lastSnapshotTerm[i] = 0 /\ disk[i].lastSnapshotTerm = 0

History(TL, D, A) ==
    /\ TermLogs(TL) /\ Core(TL, D, A)
    /\ RequestsStand /\ RepliesTrue(A) /\ MatchTrue(TL, A)
    /\ CommitsChosen(TL, A) /\ CallsCommit(TL, A) /\ AppliedChosen(TL, A)

TermLogSet == [Nat -> Seq(Entry)]
AckSet == SUBSET (Server \X Nat \X Nat)

CommitInv ==
    /\ NothingInstalled
    /\ \E TL \in TermLogSet, D \in SUBSET Nat, A \in AckSet : History(TL, D, A)

-----------------------------------------------------------------------------
(* What a step leaves as it was *)

StepFacts ==
    /\ TypeInv /\ TypeInv' /\ ElectionInv /\ ElectionInv' /\ VoteStep /\ OwnVotesKept
    /\ Uncompacted /\ Uncompacted' /\ NoSnapshots

\* A peer acknowledges entries of the term it is in.
AcksGrow(A, wider) ==
    \A q \in Server, t \in Nat, e \in Nat :
        /\ Acked(A, q, t, e) => Acked(wider, q, t, e)
        /\ Acked(wider, q, t, e) => Acked(A, q, t, e) \/ currentTerm'[q] = t

AcksAdded(A, wider, j, t, k) ==
    \A q \in Server, u \in Nat, e \in Nat :
        Acked(wider, q, u, e) <=> Acked(A, q, u, e) \/ (q = j /\ u = t /\ e \in 1..k)

LEMMA AddAcks ==
    ASSUME NEW A \in AckSet, NEW j \in Server, NEW t \in Nat, NEW k \in Nat
    PROVE  \E wider \in AckSet : AcksAdded(A, wider, j, t, k)
<1> DEFINE more == {<<j, t, e>> : e \in 1..k}
<1>1. more \subseteq Server \X Nat \X Nat
  OBVIOUS
<1>2. \A q \in Server, u \in Nat, e \in Nat :
        <<q, u, e>> \in more <=> q = j /\ u = t /\ e \in 1..k
  OBVIOUS
<1> HIDE DEF more
<1>3. A \cup more \in AckSet
  BY <1>1 DEF AckSet
<1>4. AcksAdded(A, A \cup more, j, t, k)
  BY <1>2 DEF AcksAdded, Acked
<1> QED BY <1>3, <1>4

LEMMA AddedAcksGrow ==
    ASSUME NEW A, NEW wider, NEW j, NEW t, NEW k, AcksAdded(A, wider, j, t, k),
           currentTerm'[j] = t
    PROVE  AcksGrow(A, wider)
  BY DEF AcksAdded, AcksGrow

LEMMA SameAcksGrow ==
    ASSUME NEW A
    PROVE  AcksGrow(A, A)
  BY DEF AcksGrow

LEMMA TermsRise ==
    ASSUME StepFacts
    PROVE  /\ currentTerm \in [Server -> Nat] /\ currentTerm' \in [Server -> Nat]
           /\ \A q \in Server : currentTerm'[q] >= currentTerm[q]
  BY DEF StepFacts, TypeInv, TypeOK, RoleTypes, VoteStep, VotesKept

LEMMA TermLogType ==
    ASSUME NEW TL \in TermLogSet, NEW t \in Nat
    PROVE  TL[t] \in Seq(Entry) /\ Len(TL[t]) \in Nat
<1>1. TL[t] \in Seq(Entry)
  BY DEF TermLogSet
<1> QED BY <1>1

LEMMA OwnStays ==
    ASSUME NEW TL \in TermLogSet, NEW more \in TermLogSet, Extends(TL, more),
           NEW t \in Nat, NEW e \in Nat
    PROVE  /\ Own(TL, t, e) => Own(more, t, e) /\ TL[t][e] = more[t][e]
           /\ Own(more, t, e) /\ e <= Len(TL[t]) => Own(TL, t, e)
<1>1. Len(TL[t]) \in Nat /\ Len(more[t]) \in Nat
  BY TermLogType
<1>2. /\ Len(TL[t]) <= Len(more[t]) /\ \A n \in 1..Len(TL[t]) : TL[t][n] = more[t][n]
  BY <1>1 DEF Extends, AgreeUpTo
<1> QED BY <1>1, <1>2 DEF Own

\* What agrees with the log of a term agrees with the longer one.
LEMMA AgreementStays ==
    ASSUME NEW TL \in TermLogSet, NEW more \in TermLogSet, Extends(TL, more),
           NEW t \in Nat, NEW X, NEW e \in Nat, AgreeUpTo(TL[t], X, e)
    PROVE  AgreeUpTo(more[t], X, e)
<1>1. Len(TL[t]) \in Nat /\ Len(more[t]) \in Nat
  BY TermLogType
<1>2. /\ Len(TL[t]) <= Len(more[t]) /\ \A n \in 1..Len(TL[t]) : TL[t][n] = more[t][n]
  BY <1>1 DEF Extends, AgreeUpTo
<1>3. e <= Len(TL[t]) /\ e <= Len(X) /\ \A n \in 1..e : TL[t][n] = X[n]
  BY DEF AgreeUpTo
<1>4. \A n \in 1..e : more[t][n] = X[n]
  BY <1>1, <1>2, <1>3
<1> QED BY <1>1, <1>2, <1>3, <1>4 DEF AgreeUpTo

LEMMA LostStays ==
    ASSUME StepFacts, NEW A, NEW wider, AcksGrow(A, wider),
           NEW t \in Nat, NEW e \in Nat, Lost(A, t, e)
    PROVE  Lost(wider, t, e)'
<1>1. PICK Q \in SUBSET Server :
        IsMajority(Q) /\ \A q \in Q : currentTerm[q] > t /\ ~Acked(A, q, t, e)
  BY DEF Lost
<1>2. ASSUME NEW q \in Q PROVE currentTerm'[q] > t /\ ~Acked(wider, q, t, e)
  <2>1. currentTerm'[q] > t
    BY <1>1, TermsRise
  <2> QED BY <1>1, <2>1 DEF AcksGrow
<1> QED BY <1>1, <1>2 DEF Lost

LEMMA ChosenNotLost ==
    ASSUME NEW TL, NEW A, NEW t \in Nat, NEW e \in Nat, Chosen(TL, A, t, e), Lost(A, t, e)
    PROVE  FALSE
<1>1. PICK P \in SUBSET Server : IsMajority(P) /\ \A q \in P : Acked(A, q, t, e)
  BY DEF Chosen
<1>2. PICK Q \in SUBSET Server : IsMajority(Q) /\ \A q \in Q : ~Acked(A, q, t, e)
  BY DEF Lost
<1>3. PICK s \in Server : s \in P /\ s \in Q
  BY <1>1, <1>2, MajoritiesMeet
<1> QED BY <1>1, <1>2, <1>3

LEMMA ChosenStays ==
    ASSUME NEW TL \in TermLogSet, NEW more \in TermLogSet, Extends(TL, more),
           NEW A, NEW wider, AcksGrow(A, wider),
           NEW t \in Nat, NEW e \in Nat, Chosen(TL, A, t, e)
    PROVE  Chosen(more, wider, t, e)
<1>1. PICK Q \in SUBSET Server : IsMajority(Q) /\ \A q \in Q : Acked(A, q, t, e)
  BY DEF Chosen
<1>2. \A q \in Q : Acked(wider, q, t, e)
  BY <1>1 DEF AcksGrow
<1>3. Own(more, t, e)
  BY OwnStays DEF Chosen
<1> QED BY <1>1, <1>2, <1>3 DEF Chosen

LEMMA CommittedStand ==
    ASSUME NEW TL \in TermLogSet, NEW more \in TermLogSet, Extends(TL, more),
           NEW A, NEW wider, AcksGrow(A, wider),
           NEW X, NEW c \in Nat, NEW s \in Nat, NEW u \in Nat, s <= u,
           Committed(TL, A, X, c, s)
    PROVE  Committed(more, wider, X, c, u)
<1>1. CASE c = 0
  BY <1>1 DEF Committed
<1>2. CASE c # 0
  <2>1. PICK t \in Nat, e \in Nat :
          t <= s /\ c <= e /\ Chosen(TL, A, t, e) /\ AgreeUpTo(TL[t], X, c)
    BY <1>2 DEF Committed
  <2>2. t <= u /\ Chosen(more, wider, t, e) /\ AgreeUpTo(more[t], X, c)
    BY <2>1, ChosenStays, AgreementStays
  <2> QED BY <2>1, <2>2 DEF Committed
<1> QED BY <1>1, <1>2

LEMMA FixedStands ==
    ASSUME NEW TL \in TermLogSet, NEW more \in TermLogSet, Extends(TL, more),
           NEW A, NEW wider, AcksGrow(A, wider),
           NEW k \in Nat \ {0}, NEW entry, Fixed(TL, A, k, entry)
    PROVE  Fixed(more, wider, k, entry)
<1>1. PICK t \in Nat, e \in Nat : k <= e /\ Chosen(TL, A, t, e) /\ entry = TL[t][k]
  BY DEF Fixed
<1>2. Chosen(more, wider, t, e)
  BY <1>1, ChosenStays
<1>3. entry = more[t][k]
  <2>1. Len(TL[t]) \in Nat /\ Len(more[t]) \in Nat
    BY TermLogType
  <2>2. \A n \in 1..Len(TL[t]) : TL[t][n] = more[t][n]
    BY <2>1 DEF Extends, AgreeUpTo
  <2>3. e \in 1..Len(TL[t])
    BY <1>1 DEF Chosen, Own
  <2> QED BY <1>1, <2>1, <2>2, <2>3
<1> QED BY <1>1, <1>2, <1>3 DEF Fixed

-----------------------------------------------------------------------------
(* What a step must show of the logs, the acknowledgements and the votes *)

LEMMA AgreementTurns ==
    ASSUME NEW X, NEW Y, NEW k, AgreeUpTo(X, Y, k)
    PROVE  AgreeUpTo(Y, X, k)
  BY DEF AgreeUpTo

LEMMA TermsLedStep ==
    ASSUME StepFacts, NEW TL \in TermLogSet, NEW more \in TermLogSet,
           NEW D \in SUBSET Nat, NEW D2 \in SUBSET Nat, D \subseteq D2, TermsLed(TL, D),
           \A u \in D2 \ D : \E l \in Server : LedBy(l, u)',
           \A t \in Nat : more[t] # <<>> => t \in D2,
           \A i \in Server : role'[i] = "Leader" => currentTerm'[i] \in D2,
           \A m \in aeReqs' \ aeReqs : m.term \in D2
    PROVE  TermsLed(more, D2)'
<1>1. ASSUME NEW u \in D PROVE \E l \in Server : LedBy(l, u)'
  <2>1. PICK l \in Server : LedBy(l, u)
    BY DEF TermsLed
  <2>2. LedBy(l, u)'
    BY <2>1, LedByStays DEF StepFacts
  <2> QED BY <2>2
<1>2. \A u \in D2 : \E l \in Server : LedBy(l, u)'
  BY <1>1
<1>3. \A m \in aeReqs' : m.term \in D2
  BY DEF TermsLed
<1> QED BY <1>2, <1>3 DEF TermsLed

LEMMA ReachesLater ==
    ASSUME NEW X \in Seq(Entry), NEW t \in Nat, NEW u \in Nat, t <= u, Reaches(X, t)
    PROVE  Reaches(X, u)
<1> SUFFICES ASSUME NEW k \in 1..Len(X) PROVE X[k].term <= u
  BY DEF Reaches
<1>1. X[k] \in Entry
  BY ElementOfSeq
<1>2. X[k].term \in Nat
  BY <1>1 DEF Entry
<1> QED BY <1>2 DEF Reaches

LEMMA TermsReachedStep ==
    ASSUME StepFacts, TermsReached,
           \A i \in Server : Reaches(logs'[i], currentTerm'[i]),
           \A i \in Server : disk'[i].logs \in {disk[i].logs, logs'[i]}
    PROVE  TermsReached'
<1>1. ASSUME NEW i \in Server PROVE Reaches(disk[i].logs, currentTerm'[i])
  <2>1. disk[i].logs \in Seq(Entry)
    BY DEF StepFacts, TypeInv, TypeOK, Disk
  <2>2. currentTerm[i] \in Nat /\ currentTerm'[i] \in Nat /\ currentTerm[i] <= currentTerm'[i]
    BY TermsRise
  <2>3. Reaches(disk[i].logs, currentTerm[i])
    BY DEF TermsReached
  <2> QED BY <2>1, <2>2, <2>3, ReachesLater
<1>2. \A i \in Server : Reaches(disk'[i].logs, currentTerm'[i])
  BY <1>1
<1> QED BY <1>2 DEF TermsReached

\* The acknowledgements of a step are of what the peer has then saved.
AcksHeld(A, more, wider) ==
    \A q \in Server, t \in Nat, e \in Nat : Acked(wider, q, t, e) =>
        \/ Acked(A, q, t, e)
        \/ e \in 1..Len(more[t]) /\ HeldBy(more, q, t, e)'

LEMMA AcksStandStep ==
    ASSUME StepFacts, NEW TL \in TermLogSet, NEW more \in TermLogSet, Extends(TL, more),
           NEW A, NEW wider, AcksGrow(A, wider), AcksHeld(A, more, wider), AcksStand(TL, A)
    PROVE  AcksStand(more, wider)'
<1> SUFFICES ASSUME NEW q \in Server, NEW t \in Nat, NEW e \in Nat, Acked(wider, q, t, e)
             PROVE  e \in 1..Len(more[t]) /\ currentTerm'[q] >= t
  BY DEF AcksStand
<1>1. /\ currentTerm[q] \in Nat /\ currentTerm'[q] \in Nat /\ currentTerm'[q] >= currentTerm[q]
      /\ Len(TL[t]) \in Nat /\ Len(more[t]) \in Nat
  BY TermsRise, TermLogType
<1>2. CASE Acked(A, q, t, e)
  <2>1. e \in 1..Len(TL[t]) /\ currentTerm[q] >= t
    BY <1>2 DEF AcksStand
  <2>2. Len(TL[t]) <= Len(more[t])
    BY <1>1 DEF Extends, AgreeUpTo
  <2> QED BY <1>1, <2>1, <2>2
<1>3. CASE ~Acked(A, q, t, e)
  BY <1>1, <1>3 DEF AcksHeld, AcksGrow
<1> QED BY <1>2, <1>3

LEMMA OwnBefore ==
    ASSUME NEW TL \in TermLogSet, NEW more \in TermLogSet, Extends(TL, more),
           NEW A, AcksStand(TL, A), NEW q \in Server, NEW t \in Nat, NEW e \in Nat,
           Own(more, t, e), Acked(A, q, t, e)
    PROVE  Own(TL, t, e)
<1>1. e \in 1..Len(TL[t]) /\ Len(TL[t]) \in Nat
  BY TermLogType DEF AcksStand
<1> QED BY <1>1, OwnStays

LEMMA AcksKeptStep ==
    ASSUME StepFacts, NEW TL \in TermLogSet, NEW more \in TermLogSet, Extends(TL, more),
           NEW A, NEW wider, AcksGrow(A, wider), AcksHeld(A, more, wider),
           AcksStand(TL, A), AcksKept(TL, A),
           \A i \in Server : disk'[i].logs \in {disk[i].logs, logs'[i]},
           \A q \in Server, t \in Nat, e \in Nat :
               Own(TL, t, e) /\ Acked(A, q, t, e) /\ HeldBy(TL, q, t, e) =>
                   Lost(A, t, e) \/ AgreeUpTo(TL[t], logs'[q], e)
    PROVE  AcksKept(more, wider)'
<1> SUFFICES ASSUME NEW q \in Server, NEW t \in Nat, NEW e \in Nat,
                    Own(more, t, e), Acked(wider, q, t, e)
             PROVE  Lost(wider, t, e)' \/ HeldBy(more, q, t, e)'
  BY DEF AcksKept
<1>1. CASE ~Acked(A, q, t, e)
  BY <1>1 DEF AcksHeld
<1>2. CASE Acked(A, q, t, e)
  <2>1. Own(TL, t, e)
    BY <1>2, OwnBefore
  <2>2. CASE Lost(A, t, e)
    BY <2>2, LostStays
  <2>3. CASE HeldBy(TL, q, t, e) /\ AgreeUpTo(TL[t], logs'[q], e)
    <3>1. AgreeUpTo(TL[t], disk[q].logs, e)
      BY <2>3 DEF HeldBy
    <3>2. AgreeUpTo(TL[t], disk'[q].logs, e)
      BY <2>3, <3>1
    <3>3. AgreeUpTo(more[t], logs'[q], e) /\ AgreeUpTo(more[t], disk'[q].logs, e)
      BY <2>3, <3>2, AgreementStays
    <3> QED BY <3>3 DEF HeldBy
  <2> QED BY <1>2, <2>1, <2>2, <2>3 DEF AcksKept
<1> QED BY <1>1, <1>2

LEMMA VotesComparedStep ==
    ASSUME StepFacts, NEW TL \in TermLogSet, NEW more \in TermLogSet, Extends(TL, more),
           NEW D, NEW D2, D \subseteq D2,
           NEW A, NEW wider, AcksGrow(A, wider), AcksStand(TL, A), VotesCompared(TL, D, A),
           \A r \in voteReplies' \ voteReplies : r.granted =>
               r.request.term \in D2 \/ Compared(TL, A, r)
    PROVE  VotesCompared(more, D2, wider)'
<1> SUFFICES ASSUME NEW r \in voteReplies', r.granted, r.request.term \notin D2,
                    NEW t \in Nat, NEW e \in Nat,
                    t < r.request.term, Own(more, t, e), Acked(wider, r.from, t, e)
             PROVE  Lost(wider, t, e)' \/ AtLeast(r.request, t, e)
  BY DEF VotesCompared, Compared
<1>1. Compared(TL, A, r)
  BY DEF VotesCompared
<1>2. r.from \in Server /\ r.request.term \in Nat
  BY DEF StepFacts, TypeInv, TypeOK, NetTypes, VoteReply, VoteRequest
<1>3. currentTerm'[r.from] >= r.request.term /\ currentTerm'[r.from] \in Nat
  BY <1>2, TermsRise DEF StepFacts, ElectionInv, VotesStand
<1>4. Acked(A, r.from, t, e)
  <2>1. currentTerm'[r.from] # t
    BY <1>2, <1>3
  <2> QED BY <1>2, <2>1 DEF AcksGrow
<1>5. Own(TL, t, e)
  BY <1>2, <1>4, OwnBefore
<1>6. Lost(A, t, e) \/ AtLeast(r.request, t, e)
  BY <1>1, <1>4, <1>5 DEF Compared
<1> QED BY <1>6, LostStays

LEMMA LeadersSafeStep ==
    ASSUME StepFacts, NEW TL \in TermLogSet, NEW more \in TermLogSet, Extends(TL, more),
           NEW D \in SUBSET Nat, NEW D2 \in SUBSET Nat,
           NEW A, NEW wider, AcksGrow(A, wider), LeadersSafe(TL, D, A),
           \A u \in D2, t \in Nat, e \in Nat : t < u /\ Own(more, t, e) =>
               \/ u \in D /\ Own(TL, t, e)
               \/ Lost(wider, t, e)'
               \/ AgreeUpTo(more[t], more[u], e)
    PROVE  LeadersSafe(more, D2, wider)'
<1> SUFFICES ASSUME NEW u \in D2, NEW t \in Nat, NEW e \in Nat, t < u, Own(more, t, e)
             PROVE  Lost(wider, t, e)' \/ AgreeUpTo(more[t], more[u], e)
  BY DEF LeadersSafe
<1>1. CASE u \in D /\ Own(TL, t, e)
  <2>1. CASE Lost(A, t, e)
    BY <2>1, LostStays
  <2>2. CASE AgreeUpTo(TL[t], TL[u], e)
    <3>1. AgreeUpTo(TL[u], more[t], e)
      BY <2>2, AgreementStays, AgreementTurns
    <3>2. AgreeUpTo(more[u], more[t], e)
      BY <3>1, AgreementStays
    <3> QED BY <3>2, AgreementTurns
  <2> QED BY <1>1, <2>1, <2>2 DEF LeadersSafe
<1> QED BY <1>1

\* What a step adds to the terms that were led, to the logs, to the votes and to the logs of
\* later terms.
LedChange(more, D, D2) ==
    /\ \A u \in D2 \ D : \E l \in Server : LedBy(l, u)'
    /\ \A t \in Nat : more[t] # <<>> => t \in D2
    /\ \A i \in Server : role'[i] = "Leader" => currentTerm'[i] \in D2
    /\ \A m \in aeReqs' \ aeReqs : m.term \in D2

LogsChange(TL, more, A) ==
    /\ \A i \in Server : Reaches(logs'[i], currentTerm'[i])
    /\ \A i \in Server : disk'[i].logs \in {disk[i].logs, logs'[i]}
    /\ \A m \in aeReqs' : CallReaches(more[m.term], m)
    /\ \A q \in Server, t \in Nat, e \in Nat :
         Own(TL, t, e) /\ Acked(A, q, t, e) /\ HeldBy(TL, q, t, e) =>
             Lost(A, t, e) \/ AgreeUpTo(TL[t], logs'[q], e)

VotesChange(TL, D2, A) ==
    \A r \in voteReplies' \ voteReplies : r.granted =>
        r.request.term \in D2 \/ Compared(TL, A, r)

TermsChange(TL, more, D, D2, wider) ==
    \A u \in D2, t \in Nat, e \in Nat : t < u /\ Own(more, t, e) =>
        \/ u \in D /\ Own(TL, t, e)
        \/ Lost(wider, t, e)'
        \/ AgreeUpTo(more[t], more[u], e)

LEMMA CoreStep ==
    ASSUME StepFacts, NEW TL \in TermLogSet, NEW more \in TermLogSet, Extends(TL, more),
           NEW D \in SUBSET Nat, NEW D2 \in SUBSET Nat, D \subseteq D2,
           NEW A, NEW wider, AcksGrow(A, wider), AcksHeld(A, more, wider), Core(TL, D, A),
           TermsSorted(more), LedChange(more, D, D2), LogsChange(TL, more, A),
           VotesChange(TL, D2, A), TermsChange(TL, more, D, D2, wider)
    PROVE  Core(more, D2, wider)'
<1>1. TermsLed(more, D2)'
  BY TermsLedStep DEF Core, LedChange
<1>2. TermsReached'
  BY TermsReachedStep DEF Core, LogsChange
<1>3. AcksStand(more, wider)'
  BY AcksStandStep DEF Core
<1>4. AcksKept(more, wider)'
  BY AcksKeptStep DEF Core, LogsChange
<1>5. VotesCompared(more, D2, wider)'
  BY VotesComparedStep DEF Core, VotesChange
<1>6. LeadersSafe(more, D2, wider)'
  BY LeadersSafeStep DEF Core, TermsChange
<1>7. CallsReach(more)' /\ TermsSorted(more)'
  BY DEF CallsReach, TermsSorted, LogsChange
<1> QED BY <1>1, <1>2, <1>3, <1>4, <1>5, <1>6, <1>7 DEF Core

\* A step that elects nobody, starts nothing and sends no call.
LEMMA FollowerCore ==
    ASSUME StepFacts, NEW TL \in TermLogSet, TermLogs(TL), NEW D \in SUBSET Nat,
           NEW A, NEW wider, AcksGrow(A, wider), AcksHeld(A, TL, wider), Core(TL, D, A),
           aeReqs' = aeReqs,
           \A i \in Server : role'[i] = "Leader" =>
               role[i] = "Leader" /\ currentTerm'[i] = currentTerm[i],
           \A i \in Server : Reaches(logs'[i], currentTerm'[i]),
           \A i \in Server : disk'[i].logs \in {disk[i].logs, logs'[i]},
           \A q \in Server, t \in Nat, e \in Nat :
               Own(TL, t, e) /\ Acked(A, q, t, e) /\ HeldBy(TL, q, t, e) =>
                   Lost(A, t, e) \/ AgreeUpTo(TL[t], logs'[q], e),
           \A r \in voteReplies' \ voteReplies : r.granted =>
               r.request.term \in D \/ Compared(TL, A, r)
    PROVE  Core(TL, D, wider)'
<1>1. Extends(TL, TL)
  BY ExtendsItself DEF TermLogSet
<1>2. TermsSorted(TL) /\ D \subseteq D /\ LedChange(TL, D, D)
  BY DEF Core, TermsLed, LedChange
<1>3. LogsChange(TL, TL, A) /\ VotesChange(TL, D, A)
  BY DEF Core, CallsReach, LogsChange, VotesChange
<1>4. TermsChange(TL, TL, D, D, wider)
  BY DEF TermsChange
<1> QED BY <1>1, <1>2, <1>3, <1>4, CoreStep

LEMMA QuietCore ==
    ASSUME StepFacts, NEW TL \in TermLogSet, TermLogs(TL), NEW D \in SUBSET Nat,
           NEW A, NEW wider, AcksGrow(A, wider), AcksHeld(A, TL, wider), Core(TL, D, A),
           LogsStand,
           \A r \in voteReplies' \ voteReplies : r.granted =>
               r.request.term \in D \/ Compared(TL, A, r)
    PROVE  Core(TL, D, wider)'
<1>1. ASSUME NEW i \in Server PROVE Reaches(logs'[i], currentTerm'[i])
  <2>1. logs[i] \in Seq(Entry) /\ logs'[i] = logs[i]
    BY DEF StepFacts, TypeInv, TypeOK, LogTypes, LogsStand
  <2>2. Reaches(logs[i], currentTerm[i])
    BY DEF Core, TermsReached
  <2>3. currentTerm[i] \in Nat /\ currentTerm'[i] \in Nat /\ currentTerm[i] <= currentTerm'[i]
    BY TermsRise
  <2> QED BY <2>1, <2>2, <2>3, ReachesLater
<1>2. \A q \in Server, t \in Nat, e \in Nat :
        Own(TL, t, e) /\ Acked(A, q, t, e) /\ HeldBy(TL, q, t, e) =>
            Lost(A, t, e) \/ AgreeUpTo(TL[t], logs'[q], e)
  BY DEF HeldBy, LogsStand
<1>3. /\ aeReqs' = aeReqs
      /\ \A i \in Server : role'[i] = "Leader" =>
           role[i] = "Leader" /\ currentTerm'[i] = currentTerm[i]
      /\ \A i \in Server : disk'[i].logs \in {disk[i].logs, logs'[i]}
  BY DEF LogsStand
<1> QED BY <1>1, <1>2, <1>3, FollowerCore

LEMMA NoNewAcks ==
    ASSUME NEW A, NEW more
    PROVE  AcksHeld(A, more, A)
  BY DEF AcksHeld

-----------------------------------------------------------------------------
(* What the other parts of the invariant need of a step *)

\* A candidate's log does not change before its candidacy is over.
CandidatesStand ==
    \A i \in Server : role'[i] = "Candidate" /\ currentTerm'[i] = currentTerm[i] =>
        logs'[i] = logs[i]

LEMMA RequestsStay ==
    ASSUME StepFacts, RequestsStand, CandidatesStand, voteReqs' = voteReqs,
           \A r \in voteReplies' \ voteReplies : r.request \in voteReqs
    PROVE  RequestsStand'
<1>1. ASSUME NEW m \in voteReqs PROVE OwnRequest(m)'
  <2>1. PICK c \in Server : c = m.candidateId
    BY DEF StepFacts, TypeInv, TypeOK, NetTypes, VoteRequest
  <2>2. m.term \in Nat
    BY DEF StepFacts, TypeInv, TypeOK, NetTypes, VoteRequest
  <2>3. /\ currentTerm[c] >= m.term
        /\ role[c] = "Candidate" /\ currentTerm[c] = m.term => EndsLike(m, logs[c])
    BY <2>1 DEF RequestsStand, OwnRequest
  <2>4. currentTerm[c] \in Nat /\ currentTerm'[c] \in Nat /\ currentTerm'[c] >= currentTerm[c]
    BY TermsRise
  <2>5. ASSUME role'[c] = "Candidate", currentTerm'[c] = m.term
        PROVE  EndsLike(m, logs'[c])
    <3>1. currentTerm'[c] = currentTerm[c] /\ currentTerm[c] = m.term
      BY <2>2, <2>3, <2>4, <2>5
    <3>2. role[c] = "Candidate" /\ logs'[c] = logs[c]
      BY <2>5, <3>1 DEF CandidatesStand, StepFacts, OwnVotesKept
    <3> QED BY <2>3, <3>1, <3>2
  <2>6. currentTerm'[c] >= m.term
    BY <2>2, <2>3, <2>4
  <2> QED BY <2>1, <2>5, <2>6 DEF OwnRequest
<1>2. \A m \in voteReqs' : OwnRequest(m)'
  BY <1>1
<1>3. /\ \A m1, m2 \in voteReqs' :
           m1.candidateId = m2.candidateId /\ m1.term = m2.term => m1 = m2
      /\ \A r \in voteReplies' : r.request \in voteReqs'
  BY DEF RequestsStand
<1> QED BY <1>2, <1>3 DEF RequestsStand

LEMMA AckedUpToGrows ==
    ASSUME NEW A, NEW wider, AcksGrow(A, wider), NEW q \in Server, NEW t \in Nat, NEW k \in Nat,
           AckedUpTo(A, q, t, k)
    PROVE  AckedUpTo(wider, q, t, k)
  BY DEF AckedUpTo, AcksGrow

LEMMA EndOfType ==
    ASSUME NEW m \in AppendRequest
    PROVE  EndOf(m) \in Nat /\ m.term \in Nat /\ m.prevLogIndex \in Nat /\ Len(m.entries) \in Nat
<1>1. m.prevLogIndex \in Nat /\ m.entries \in Seq(Entry) /\ m.term \in Nat
  BY DEF AppendRequest
<1>2. Len(m.entries) \in Nat
  BY <1>1
<1> QED BY <1>1, <1>2 DEF EndOf

LEMMA TrueReplyStays ==
    ASSUME NEW A, NEW wider, AcksGrow(A, wider), NEW j \in Server, NEW m \in AppendRequest,
           NEW r, TrueReply(A, j, m, r)
    PROVE  TrueReply(wider, j, m, r)
<1>1. EndOf(m) \in Nat /\ m.term \in Nat
  BY EndOfType
<1> QED BY <1>1, AckedUpToGrows DEF TrueReply

\* What holds of a call before the step holds after it.
LEMMA TrueCallStays ==
    ASSUME StepFacts, NEW A, NEW wider, AcksGrow(A, wider), aeReqs \subseteq aeReqs',
           NEW i \in Server, NEW j \in Server, NEW call, TrueCall(A, i, j, call)
    PROVE  TrueCall(wider, i, j, call)'
<1> SUFFICES ASSUME call.open
             PROVE  /\ call.args \in aeReqs' /\ call.args.leaderId = i /\ call.args.to = j
                    /\ i # j
                    /\ \A r \in call.replies : TrueReply(wider, j, call.args, r)
  BY DEF TrueCall
<1>1. /\ call.args \in aeReqs /\ call.args.leaderId = i /\ call.args.to = j /\ i # j
      /\ \A r \in call.replies : TrueReply(A, j, call.args, r)
  BY DEF TrueCall
<1>2. call.args \in AppendRequest
  BY <1>1 DEF StepFacts, TypeInv, TypeOK, NetTypes
<1>3. \A r \in call.replies : TrueReply(wider, j, call.args, r)
  BY <1>1, <1>2, TrueReplyStays
<1> QED BY <1>1, <1>3

LEMMA RepliesStay ==
    ASSUME StepFacts, NEW A, NEW wider, AcksGrow(A, wider), RepliesTrue(A),
           aeReqs \subseteq aeReqs',
           \A i, j \in Server : aeCall'[i][j].open => aeCall'[i][j] = aeCall[i][j]
    PROVE  RepliesTrue(wider)'
<1> SUFFICES ASSUME NEW i \in Server, NEW j \in Server
             PROVE  TrueCall(wider, i, j, aeCall[i][j])'
  BY DEF RepliesTrue
<1>1. PICK call : call = aeCall[i][j]
  OBVIOUS
<1>2. TrueCall(wider, i, j, call)'
  BY <1>1, TrueCallStays DEF RepliesTrue
<1> QED BY <1>1, <1>2 DEF TrueCall

\* A leader that stays one keeps what it takes for matched; its log may grow.
LEMMA MatchStays ==
    ASSUME StepFacts, NEW TL \in TermLogSet, NEW more \in TermLogSet, Extends(TL, more),
           TermLogs(TL), NEW A, NEW wider, AcksGrow(A, wider), MatchTrue(TL, A),
           \A i \in Server : role'[i] = "Leader" =>
               /\ role[i] = "Leader" /\ currentTerm'[i] = currentTerm[i]
               /\ Len(logs[i]) <= Len(logs'[i])
               /\ \A j \in Server \ {i} : matchIndex'[i][j] = matchIndex[i][j]
    PROVE  MatchTrue(more, wider)'
<1> SUFFICES ASSUME NEW i \in Server, NEW j \in Server, role'[i] = "Leader", i # j
             PROVE  /\ matchIndex'[i][j] <= Len(logs'[i])
                    /\ \A e \in 1..matchIndex'[i][j] :
                         Own(more, currentTerm'[i], e) => Acked(wider, j, currentTerm'[i], e)
  BY DEF MatchTrue
<1>1. /\ role[i] = "Leader" /\ currentTerm'[i] = currentTerm[i]
      /\ Len(logs[i]) <= Len(logs'[i]) /\ matchIndex'[i][j] = matchIndex[i][j]
  OBVIOUS
<1>2. PICK t \in Nat : t = currentTerm[i]
  BY TermsRise
<1>3. PICK k \in Nat : k = matchIndex[i][j]
  BY DEF StepFacts, TypeInv, TypeOK, LeaderTypes
<1>4. logs[i] = TL[t]
  BY <1>1, <1>2 DEF TermLogs, LeadersHoldTerms
<1>5. k <= Len(TL[t]) /\ \A e \in 1..k : Own(TL, t, e) => Acked(A, j, t, e)
  BY <1>1, <1>2, <1>3, <1>4 DEF MatchTrue
<1>6. Len(logs[i]) \in Nat /\ Len(logs'[i]) \in Nat /\ Len(TL[t]) \in Nat
  <2>1. logs[i] \in Seq(Entry) /\ logs'[i] \in Seq(Entry)
    BY DEF StepFacts, TypeInv, TypeOK, LogTypes
  <2>2. Len(logs[i]) \in Nat /\ Len(logs'[i]) \in Nat
    BY <2>1
  <2> QED BY <2>2, TermLogType
<1>7. ASSUME NEW e \in 1..k, Own(more, t, e) PROVE Acked(wider, j, t, e)
  <2>1. e \in Nat /\ e <= Len(TL[t])
    BY <1>5, <1>6
  <2>2. Own(TL, t, e)
    BY <1>7, <2>1, OwnStays
  <2> QED BY <1>5, <2>1, <2>2 DEF AcksGrow
<1>8. k <= Len(logs'[i])
  BY <1>1, <1>4, <1>5, <1>6
<1> QED BY <1>1, <1>2, <1>3, <1>7, <1>8

LEMMA CommitsStay ==
    ASSUME StepFacts, NEW TL \in TermLogSet, NEW more \in TermLogSet, Extends(TL, more),
           NEW A, NEW wider, AcksGrow(A, wider), CommitsChosen(TL, A),
           \A i \in Server : /\ commitIndex'[i] = commitIndex[i]
                             /\ disk'[i].commitIndex \in {disk[i].commitIndex, commitIndex'[i]}
                             /\ disk'[i].logs \in {disk[i].logs, logs'[i]},
           \A i \in Server : Committed(TL, A, logs'[i], commitIndex[i], currentTerm'[i])
    PROVE  CommitsChosen(more, wider)'
<1> SUFFICES ASSUME NEW i \in Server
             PROVE  /\ disk'[i].commitIndex = commitIndex'[i]
                    /\ Committed(more, wider, logs'[i], commitIndex'[i], currentTerm'[i])
                    /\ Committed(more, wider, disk'[i].logs, commitIndex'[i], currentTerm'[i])
  BY DEF CommitsChosen
<1>1. /\ currentTerm[i] \in Nat /\ currentTerm'[i] \in Nat /\ currentTerm[i] <= currentTerm'[i]
      /\ commitIndex[i] \in Nat
  BY TermsRise DEF StepFacts, TypeInv, TypeOK, LogTypes
<1>2. disk'[i].commitIndex = commitIndex'[i]
  BY DEF CommitsChosen
<1>3. Committed(more, wider, logs'[i], commitIndex[i], currentTerm'[i])
  BY <1>1, CommittedStand
<1>4. Committed(more, wider, disk[i].logs, commitIndex[i], currentTerm'[i])
  BY <1>1, CommittedStand DEF CommitsChosen
<1>5. Committed(more, wider, disk'[i].logs, commitIndex[i], currentTerm'[i])
  BY <1>3, <1>4
<1> QED BY <1>2, <1>3, <1>5

LEMMA LogsStandCommits ==
    ASSUME StepFacts, NEW TL \in TermLogSet, NEW A, CommitsChosen(TL, A), logs' = logs
    PROVE  \A i \in Server : Committed(TL, A, logs'[i], commitIndex[i], currentTerm'[i])
<1> SUFFICES ASSUME NEW i \in Server
             PROVE  Committed(TL, A, logs[i], commitIndex[i], currentTerm'[i])
  OBVIOUS
<1>1. /\ currentTerm[i] \in Nat /\ currentTerm'[i] \in Nat /\ currentTerm[i] <= currentTerm'[i]
      /\ commitIndex[i] \in Nat
  BY TermsRise DEF StepFacts, TypeInv, TypeOK, LogTypes
<1>2. Extends(TL, TL)
  BY ExtendsItself DEF TermLogSet
<1> QED BY <1>1, <1>2, CommittedStand, SameAcksGrow DEF CommitsChosen

LEMMA CallsCommitStay ==
    ASSUME StepFacts, NEW TL \in TermLogSet, NEW more \in TermLogSet, Extends(TL, more),
           NEW A, NEW wider, AcksGrow(A, wider), CallsCommit(TL, A),
           \A m \in aeReqs' \ aeReqs : CallCommits(more, wider, m)
    PROVE  CallsCommit(more, wider)'
<1>1. ASSUME NEW m \in aeReqs PROVE CallCommits(more, wider, m)
  <2>1. m.term \in Nat /\ m.leaderCommit \in Nat
    BY DEF StepFacts, TypeInv, TypeOK, NetTypes, AppendRequest
  <2>2. PICK t \in Nat : t = m.term
    BY <2>1
  <2>3. PICK c \in Nat : c = m.leaderCommit
    BY <2>1
  <2>4. c <= EndOf(m) /\ Committed(TL, A, TL[t], c, t)
    BY <2>2, <2>3 DEF CallsCommit, CallCommits
  <2>5. Committed(more, wider, TL[t], c, t)
    BY <2>4, CommittedStand
  <2>6. Committed(more, wider, more[t], c, t)
    <3>1. CASE c = 0
      BY <3>1 DEF Committed
    <3>2. CASE c # 0
      <4>1. PICK s \in Nat, e \in Nat :
              s <= t /\ c <= e /\ Chosen(more, wider, s, e) /\ AgreeUpTo(more[s], TL[t], c)
        BY <2>5, <3>2 DEF Committed
      <4>2. AgreeUpTo(more[s], more[t], c)
        BY <4>1, AgreementTurns, AgreementStays
      <4> QED BY <4>1, <4>2 DEF Committed
    <3> QED BY <3>1, <3>2
  <2> QED BY <2>2, <2>3, <2>4, <2>6 DEF CallCommits
<1>2. \A m \in aeReqs' : CallCommits(more, wider, m)
  BY <1>1
<1> QED BY <1>2 DEF CallsCommit

LEMMA AppliedStays ==
    ASSUME StepFacts, NEW TL \in TermLogSet, NEW more \in TermLogSet, Extends(TL, more),
           NEW A, NEW wider, AcksGrow(A, wider), AppliedChosen(TL, A),
           applied' = applied, batch' = batch, svc' = svc,
           \A i \in Server : commitIndex'[i] >= commitIndex[i]
    PROVE  AppliedChosen(more, wider)'
<1> SUFFICES ASSUME NEW i \in Server
             PROVE  /\ \A k \in 1..Len(applied[i]) :
                         applied[i][k] = NoEntry \/ Fixed(more, wider, k, applied[i][k])
                    /\ \A n \in 1..Len(batch[i]) :
                         /\ batch[i][n].index \in 1..commitIndex'[i]
                         /\ Fixed(more, wider, batch[i][n].index, batch[i][n].entry)
                    /\ svc[i].op = "snapshot" => svc[i].index <= commitIndex'[i]
  BY DEF AppliedChosen
<1>1. commitIndex[i] \in Nat /\ commitIndex'[i] \in Nat /\ commitIndex'[i] >= commitIndex[i]
  BY DEF StepFacts, TypeInv, TypeOK, LogTypes
<1>2. ASSUME NEW k \in 1..Len(applied[i])
      PROVE  applied[i][k] = NoEntry \/ Fixed(more, wider, k, applied[i][k])
  <2>1. k \in Nat \ {0}
    OBVIOUS
  <2>2. applied[i][k] = NoEntry \/ Fixed(TL, A, k, applied[i][k])
    BY DEF AppliedChosen
  <2> QED BY <2>1, <2>2, FixedStands
<1>3. ASSUME NEW n \in 1..Len(batch[i])
      PROVE  /\ batch[i][n].index \in 1..commitIndex'[i]
             /\ Fixed(more, wider, batch[i][n].index, batch[i][n].entry)
  <2>1. PICK k \in 1..commitIndex[i] : k = batch[i][n].index
    BY DEF AppliedChosen
  <2>2. k \in Nat \ {0} /\ k \in 1..commitIndex'[i]
    BY <1>1
  <2>3. Fixed(TL, A, k, batch[i][n].entry)
    BY <2>1 DEF AppliedChosen
  <2> QED BY <2>1, <2>2, <2>3, FixedStands
<1>4. ASSUME svc[i].op = "snapshot" PROVE svc[i].index <= commitIndex'[i]
  <2>1. svc[i].index <= commitIndex[i]
    BY <1>4 DEF AppliedChosen
  <2>2. svc[i].index \in Nat
    BY <1>4 DEF StepFacts, TypeInv, TypeOK, ServiceTypes, ServiceCall, Idle
  <2> QED BY <1>1, <2>1, <2>2
<1> QED BY <1>2, <1>3, <1>4

-----------------------------------------------------------------------------
(* Steps that change no log *)

\* What such a step must show.
LEMMA QuietHistory ==
    ASSUME StepFacts, NEW TL \in TermLogSet, NEW D \in SUBSET Nat, NEW A \in AckSet,
           History(TL, D, A), LogsStand, commitIndex' = commitIndex,
           \A i \in Server : disk'[i].commitIndex \in {disk[i].commitIndex, commitIndex[i]},
           \A i \in Server : role'[i] = "Leader" =>
               \A j \in Server \ {i} : matchIndex'[i][j] = matchIndex[i][j],
           \A r \in voteReplies' \ voteReplies : r.granted =>
               r.request.term \in D \/ Compared(TL, A, r),
           RequestsStand', RepliesTrue(A)', AppliedChosen(TL, A)'
    PROVE  History(TL, D, A)'
<1>1. TermLogs(TL) /\ AcksGrow(A, A) /\ AcksHeld(A, TL, A) /\ Extends(TL, TL)
  BY SameAcksGrow, NoNewAcks, ExtendsItself DEF History, TermLogSet
<1>2. TermLogs(TL)'
  BY <1>1, LogsStandStep DEF StepFacts, TermLogSet
<1>3. Core(TL, D, A)'
  BY <1>1, QuietCore DEF History
<1>4. MatchTrue(TL, A)'
  <2>1. ASSUME NEW i \in Server, role'[i] = "Leader"
        PROVE  /\ role[i] = "Leader" /\ currentTerm'[i] = currentTerm[i]
               /\ Len(logs[i]) <= Len(logs'[i])
               /\ \A j \in Server \ {i} : matchIndex'[i][j] = matchIndex[i][j]
    <3>1. logs[i] \in Seq(Entry) /\ logs'[i] = logs[i]
      BY DEF StepFacts, TypeInv, TypeOK, LogTypes, LogsStand
    <3>2. Len(logs[i]) <= Len(logs'[i])
      BY <3>1
    <3> QED BY <2>1, <3>2 DEF LogsStand
  <2> QED BY <1>1, <2>1, MatchStays DEF History
<1>5. CommitsChosen(TL, A)'
  <2>1. \A i \in Server : Committed(TL, A, logs'[i], commitIndex[i], currentTerm'[i])
    BY LogsStandCommits DEF History, LogsStand
  <2>2. \A i \in Server :
          /\ commitIndex'[i] = commitIndex[i]
          /\ disk'[i].commitIndex \in {disk[i].commitIndex, commitIndex'[i]}
          /\ disk'[i].logs \in {disk[i].logs, logs'[i]}
    BY DEF LogsStand
  <2> QED BY <1>1, <2>1, <2>2, CommitsStay DEF History
<1>6. CallsCommit(TL, A)'
  <2>1. \A m \in aeReqs' \ aeReqs : CallCommits(TL, A, m)
    BY DEF LogsStand
  <2> QED BY <1>1, <2>1, CallsCommitStay DEF History
<1> QED BY <1>2, <1>3, <1>4, <1>5, <1>6 DEF History

LEMMA PersistCommit ==
    ASSUME TypeInv, NEW i \in Server, commitIndex' = commitIndex,
           UNCHANGED disk \/ \E data : PersistWith(i, data)
    PROVE  \A s \in Server : disk'[s].commitIndex \in {disk[s].commitIndex, commitIndex[s]}
<1>1. DOMAIN disk = Server
  BY DEF TypeInv, TypeOK
<1> QED BY <1>1 DEF PersistWith

LEMMA RepliesStand ==
    ASSUME StepFacts, NEW A, RepliesTrue(A), aeReqs' = aeReqs,
           \A i, j \in Server : aeCall'[i][j].open => aeCall'[i][j] = aeCall[i][j]
    PROVE  RepliesTrue(A)'
  BY RepliesStay, SameAcksGrow

LEMMA AppliedStands ==
    ASSUME StepFacts, NEW TL \in TermLogSet, NEW A, AppliedChosen(TL, A),
           applied' = applied, batch' = batch, svc' = svc, commitIndex' = commitIndex
    PROVE  AppliedChosen(TL, A)'
<1>1. Extends(TL, TL) /\ AcksGrow(A, A)
  BY ExtendsItself, SameAcksGrow DEF TermLogSet
<1>2. \A i \in Server : commitIndex'[i] >= commitIndex[i]
  BY DEF StepFacts, TypeInv, TypeOK, LogTypes
<1> QED BY <1>1, <1>2, AppliedStays

\* A step that tells the peers nothing new: at most calls are given up.
LEMMA SilentHistory ==
    ASSUME StepFacts, NEW TL \in TermLogSet, NEW D \in SUBSET Nat, NEW A \in AckSet,
           History(TL, D, A), LogsStand, commitIndex' = commitIndex,
           NEW i \in Server, UNCHANGED disk \/ \E data : PersistWith(i, data),
           UNCHANGED <<voteReqs, voteReplies>>,
           applied' = applied, batch' = batch, svc' = svc,
           \A s \in Server : role'[s] = "Leader" =>
               \A j \in Server \ {s} : matchIndex'[s][j] = matchIndex[s][j],
           \A s, j \in Server : aeCall'[s][j].open => aeCall'[s][j] = aeCall[s][j]
    PROVE  History(TL, D, A)'
<1>1. RequestsStand'
  <2>1. CandidatesStand
    BY DEF CandidatesStand, LogsStand
  <2> QED BY <2>1, RequestsStay DEF History
<1>2. RepliesTrue(A)'
  BY RepliesStand DEF History, LogsStand
<1>3. AppliedChosen(TL, A)'
  BY AppliedStands DEF History
<1>4. \A s \in Server : disk'[s].commitIndex \in {disk[s].commitIndex, commitIndex[s]}
  BY PersistCommit DEF StepFacts
<1>5. \A r \in voteReplies' \ voteReplies : r.granted =>
        r.request.term \in D \/ Compared(TL, A, r)
  OBVIOUS
<1> QED BY <1>1, <1>2, <1>3, <1>4, <1>5, QuietHistory

-----------------------------------------------------------------------------
(* Nothing is installed *)

LEMMA PersistInstalled ==
    ASSUME TypeInv, NothingInstalled, UNCHANGED <<snapReplies, lastSnapshotTerm>>,
           \A i \in Server : svc'[i].op # "install",
           NEW p \in Server, UNCHANGED disk \/ Persist(p)
    PROVE  NothingInstalled'
<1>1. DOMAIN disk = Server
  BY DEF TypeInv, TypeOK
<1>2. \A i \in Server :
        disk'[i].snapshot = <<>> /\ lastSnapshotTerm'[i] = 0 /\ disk'[i].lastSnapshotTerm = 0
  <2>1. CASE UNCHANGED disk
    BY <2>1 DEF NothingInstalled
  <2>2. CASE Persist(p)
    <3>1. \A i \in Server : lastSnapshotTerm'[i] = 0
      BY DEF NothingInstalled
    <3>2. /\ disk'[p].snapshot = disk[p].snapshot
          /\ disk'[p].lastSnapshotTerm = lastSnapshotTerm'[p]
          /\ \A i \in Server \ {p} : disk'[i] = disk[i]
      BY <1>1, <2>2 DEF Persist, PersistWith
    <3> QED BY <3>1, <3>2 DEF NothingInstalled
  <2> QED BY <2>1, <2>2
<1> QED BY <1>2 DEF NothingInstalled

LEMMA NothingInstalledStep ==
    ASSUME TypeInv, TypeInv', Uncompacted, Uncompacted', NoSnapshots, NothingInstalled,
           [Next]_vars
    PROVE  NothingInstalled'
<1>1. svc \in [Server -> ServiceCall] /\ lastSnapshotTerm \in [Server -> Nat]
  BY DEF TypeInv, TypeOK, ServiceTypes, LogTypes
<1>2. ASSUME NEW p \in Server, UNCHANGED <<snapReplies, lastSnapshotTerm, svc>>,
             UNCHANGED disk \/ Persist(p)
      PROVE  NothingInstalled'
  <2>1. \A i \in Server : svc'[i].op # "install"
    BY <1>2 DEF NothingInstalled
  <2> QED BY <1>2, <2>1, PersistInstalled
<1>3. CASE UNCHANGED vars
  BY <1>3 DEF vars, logVars, serviceVars, snapNet, NothingInstalled
<1>4. ASSUME NEW i \in Server,
             \/ StartElection(i)
             \/ \E m \in voteReqs : RequestVote(i, m)
             \/ \E r \in voteReplies : CollectVote(i, r) \/ AbandonElection(i, r)
      PROVE  NothingInstalled'
  <2>1. UNCHANGED <<snapReplies, lastSnapshotTerm, svc>>
    BY <1>4 DEF StartElection, RequestVote, CollectVote, AbandonElection, logVars,
                serviceVars, snapNet
  <2>2. UNCHANGED disk \/ Persist(i)
    BY <1>4 DEF StartElection, RequestVote, CollectVote, AbandonElection, RefuseVote,
                RepeatVote, GrantVote, AdoptTerm
  <2> QED BY <1>2, <2>1, <2>2
<1>5. ASSUME NEW i \in Server,
             \/ \E v \in Value : Start(i, v)
             \/ \E j \in Server : SendAppendEntries(i, j)
             \/ \E m \in aeReqs : AppendEntries(i, m)
      PROVE  NothingInstalled'
  <2>1. UNCHANGED <<snapReplies, lastSnapshotTerm, svc>>
    BY <1>5 DEF Start, SendAppendEntries, AppendEntries, AppendStale, AppendAccepted,
                AppendRefused, logVars, serviceVars, snapNet
  <2>2. UNCHANGED disk \/ Persist(i)
    BY <1>5 DEF Start, SendAppendEntries, AppendEntries, AppendStale, AppendAccepted,
                AppendRefused
  <2> QED BY <1>2, <2>1, <2>2
<1>6. ASSUME NEW i \in Server, NEW j \in Server, HandleAppendReply(i, j)
      PROVE  NothingInstalled'
  <2>1. UNCHANGED <<snapReplies, svc>>
    BY <1>6 DEF HandleAppendReply, serviceVars, snapNet
  <2>2. PICK r : \/ StepDownOnAppend(i, j, r)
                 \/ AppendAcknowledged(i, j, r)
                 \/ AppendRejected(i, j, r)
    BY <1>6 DEF HandleAppendReply
  <2>3. UNCHANGED lastSnapshotTerm /\ (UNCHANGED disk \/ Persist(i))
    BY <2>2 DEF StepDownOnAppend, AppendAcknowledged, AppendRejected, logVars
  <2> QED BY <1>2, <2>1, <2>3
<1>7. ASSUME NEW i \in Server, NEW j \in Server PROVE ~SendSnapshot(i, j)
  BY DEF SendSnapshot, NoSnapshots
<1>8. snapReqs = {} /\ snapReplies = {} /\ \A i \in Server : ~CondInstallSnapshot(i)
  BY DEF NoSnapshots, NothingInstalled, CondInstallSnapshot
<1>9. ASSUME NEW i \in Server, Snapshot(i) PROVE NothingInstalled'
  <2>1. /\ UNCHANGED snapReplies /\ svc' = [svc EXCEPT ![i] = Idle]
        /\ lastSnapshotIndex[i] = 0 /\ lastSnapshotIndex'[i] = 0
        /\ lastSnapshotIndex \in [Server -> Nat]
    BY <1>9 DEF Snapshot, Uncompacted, snapNet, TypeInv, TypeOK, LogTypes
  <2>2. svc[i].index \in Nat
    BY <1>9 DEF Snapshot, TypeInv, TypeOK, ServiceTypes, ServiceCall, Idle
  <2>3. CASE lastSnapshotIndex[i] >= svc[i].index
    <3>1. UNCHANGED <<lastSnapshotTerm, disk>>
      BY <1>9, <2>3 DEF Snapshot, logVars
    <3>2. \A s \in Server : svc'[s].op # "install"
      BY <1>1, <2>1 DEF NothingInstalled, Idle
    <3> QED BY <2>1, <3>1, <3>2, PersistInstalled
  <2>4. CASE ~(lastSnapshotIndex[i] >= svc[i].index)
    <3>1. lastSnapshotIndex' = [lastSnapshotIndex EXCEPT ![i] = svc[i].index]
      BY <1>9, <2>4 DEF Snapshot
    <3> QED BY <2>1, <2>2, <2>4, <3>1
  <2> QED BY <2>3, <2>4
<1>10. ASSUME NEW i \in Server, StartApplyLogs(i) PROVE NothingInstalled'
  <2>1. lastApplied[i] \in Nat /\ lastSnapshotIndex[i] = 0
    BY DEF TypeInv, TypeOK, LogTypes, Uncompacted
  <2>2. UNCHANGED <<snapReplies, lastSnapshotTerm, svc, disk>>
    BY <1>10, <2>1 DEF StartApplyLogs, logVars, snapNet
  <2> QED BY <1>2, <2>2
<1>11. ASSUME NEW i \in Server, ApplyOne(i) PROVE NothingInstalled'
  <2>1. /\ UNCHANGED <<snapReplies, lastSnapshotTerm, disk>>
        /\ \E c : svc' = [svc EXCEPT ![i] = c] /\ c.op # "install"
    <3>1. Idle.op # "install" /\ \A n : [op |-> "snapshot", index |-> n].op # "install"
      BY DEF Idle
    <3> QED BY <1>11, <3>1 DEF ApplyOne, snapNet
  <2>2. \A s \in Server : svc'[s].op # "install"
    BY <1>1, <2>1 DEF NothingInstalled
  <2> QED BY <2>1, <2>2, PersistInstalled
<1>12. ASSUME NEW i \in Server, Restart(i) PROVE NothingInstalled'
  <2>1. /\ UNCHANGED <<snapReplies, disk>> /\ svc' = [svc EXCEPT ![i] = Idle]
        /\ lastSnapshotTerm' = [lastSnapshotTerm EXCEPT ![i] = disk[i].lastSnapshotTerm]
    BY <1>12 DEF Restart, ReadPersist, snapNet
  <2>2. \A s \in Server : svc'[s].op # "install"
    BY <1>1, <2>1 DEF NothingInstalled, Idle
  <2>3. \A s \in Server : lastSnapshotTerm'[s] = 0
    BY <1>1, <2>1 DEF NothingInstalled
  <2> QED BY <2>1, <2>2, <2>3 DEF NothingInstalled
<1>13. CASE Next
  BY <1>4, <1>5, <1>6, <1>7, <1>8, <1>9, <1>10, <1>11, <1>12, <1>13 DEF Next
<1> QED BY <1>3, <1>13

LEMMA EndOfLog ==
    ASSUME TypeInv, Uncompacted, NothingInstalled, NEW i \in Server, NEW X, X = logs[i]
    PROVE  /\ X \in Seq(Entry) /\ Len(X) \in Nat /\ LastLogIndex(i) = Len(X)
           /\ X = <<>> => LastLogTerm(i) = 0
           /\ X # <<>> => LastLogTerm(i) = X[Len(X)].term /\ Len(X) \in 1..Len(X)
<1>1. X \in Seq(Entry)
  BY DEF TypeInv, TypeOK, LogTypes
<1>2. Len(X) \in Nat /\ (X = <<>> => Len(X) = 0) /\ (X # <<>> => Len(X) > 0)
  BY <1>1
<1>3. lastSnapshotIndex[i] = 0 /\ lastSnapshotTerm[i] = 0
  BY DEF Uncompacted, NothingInstalled
<1>4. LastLogIndex(i) = Len(X)
  BY <1>2, <1>3 DEF LastLogIndex
<1>5. LastLogTerm(i) = IF Len(X) = 0 THEN 0 ELSE X[Len(X)].term
  BY <1>2, <1>3, <1>4 DEF LastLogTerm, TermAt
<1> QED BY <1>1, <1>2, <1>4, <1>5

LEMMA AbandonHistory ==
    ASSUME StepFacts, NEW TL \in TermLogSet, NEW D \in SUBSET Nat, NEW A \in AckSet,
           History(TL, D, A), NEW i \in Server, NEW r \in voteReplies, AbandonElection(i, r)
    PROVE  History(TL, D, A)'
<1>1. LogsStand
  BY ElectionsKeepLogs DEF StepFacts
<1>2. /\ commitIndex' = commitIndex /\ UNCHANGED <<voteReqs, voteReplies>>
      /\ applied' = applied /\ batch' = batch /\ svc' = svc
      /\ matchIndex' = matchIndex /\ aeCall' = aeCall /\ \E data : PersistWith(i, data)
  BY DEF AbandonElection, logVars, leaderVars, callVars, serviceVars, voteNet, Persist
<1> QED BY <1>1, <1>2, SilentHistory

LEMMA NotTakenHistory ==
    ASSUME StepFacts, NEW TL \in TermLogSet, NEW D \in SUBSET Nat, NEW A \in AckSet,
           History(TL, D, A), NEW i \in Server, NEW r \in voteReplies, CollectVote(i, r),
           LogsStand
    PROVE  History(TL, D, A)'
<1>1. /\ commitIndex' = commitIndex /\ UNCHANGED <<voteReqs, voteReplies>>
      /\ applied' = applied /\ batch' = batch /\ svc' = svc /\ aeCall' = aeCall
      /\ UNCHANGED disk \/ \E data : PersistWith(i, data)
      /\ \/ matchIndex' = matchIndex
         \/ role[i] # "Leader" /\ role' = [role EXCEPT ![i] = "Leader"]
  BY DEF CollectVote, logVars, leaderVars, serviceVars, voteNet, Persist, StillCandidate,
         BecomeLeader
<1>2. role \in [Server -> Role]
  BY DEF StepFacts, TypeInv, TypeOK, RoleTypes
<1>3. matchIndex' = matchIndex
  BY <1>1, <1>2 DEF LogsStand
<1> QED BY <1>1, <1>3, SilentHistory

LEMMA CloseCallLeaves ==
    ASSUME TypeInv, NEW i \in Server, NEW j \in Server, CloseCall(i, j)
    PROVE  \A s, p \in Server : aeCall'[s][p].open => aeCall'[s][p] = aeCall[s][p]
<1>1. aeCall \in [Server -> [Server -> Call]]
  BY DEF TypeInv, TypeOK, CallTypes
<1>2. aeCall' = [aeCall EXCEPT ![i] = [aeCall[i] EXCEPT ![j] = NoCall]]
  BY DEF CloseCall
<1> SUFFICES ASSUME NEW s \in Server, NEW p \in Server, aeCall'[s][p].open
             PROVE  aeCall'[s][p] = aeCall[s][p]
  OBVIOUS
<1>3. CASE s = i /\ p = j
  <2>1. aeCall'[s][p] = NoCall
    BY <1>1, <1>2, <1>3
  <2> QED BY <2>1 DEF NoCall
<1>4. CASE ~(s = i /\ p = j)
  BY <1>1, <1>2, <1>4
<1> QED BY <1>3, <1>4

LEMMA RejectedHistory ==
    ASSUME StepFacts, NEW TL \in TermLogSet, NEW D \in SUBSET Nat, NEW A \in AckSet,
           History(TL, D, A), NEW i \in Server, NEW j \in Server, HandleAppendReply(i, j),
           NEW r, StepDownOnAppend(i, j, r) \/ AppendRejected(i, j, r)
    PROVE  History(TL, D, A)'
<1>1. LogsStand
  BY RepliesKeepLogs DEF StepFacts
<1>2. /\ UNCHANGED <<voteReqs, voteReplies>> /\ CloseCall(i, j)
      /\ applied' = applied /\ batch' = batch /\ svc' = svc
  BY DEF HandleAppendReply, serviceVars, voteNet
<1>3. /\ commitIndex' = commitIndex /\ matchIndex' = matchIndex
      /\ UNCHANGED disk \/ \E data : PersistWith(i, data)
  BY DEF StepDownOnAppend, AppendRejected, logVars, leaderVars, Persist
<1>4. \A s, p \in Server : aeCall'[s][p].open => aeCall'[s][p] = aeCall[s][p]
  BY <1>2, CloseCallLeaves DEF StepFacts
<1> QED BY <1>1, <1>2, <1>3, <1>4, SilentHistory

LEMMA UnchangedHistory ==
    ASSUME StepFacts, NEW TL \in TermLogSet, NEW D \in SUBSET Nat, NEW A \in AckSet,
           History(TL, D, A), UNCHANGED vars
    PROVE  History(TL, D, A)'
<1>1. PICK i \in Server : TRUE
  BY ServerAssumption
<1>2. LogsStand
  BY DEF LogsStand, vars, roleVars, logVars
<1>3. /\ UNCHANGED <<voteReqs, voteReplies, disk, commitIndex, matchIndex, aeCall>>
      /\ applied' = applied /\ batch' = batch /\ svc' = svc
  BY DEF vars, roleVars, logVars, leaderVars, callVars, serviceVars, voteNet
<1> QED BY <1>1, <1>2, <1>3, SilentHistory

\* A candidacy is new, and its one request tells of the candidate's log.
LEMMA StartElectionHistory ==
    ASSUME StepFacts, NothingInstalled, NEW TL \in TermLogSet, NEW D \in SUBSET Nat,
           NEW A \in AckSet, History(TL, D, A), NEW i \in Server, StartElection(i)
    PROVE  History(TL, D, A)'
<1>1. LogsStand
  BY ElectionsKeepLogs DEF StepFacts
<1>2. /\ commitIndex' = commitIndex /\ UNCHANGED <<voteReplies, matchIndex, aeCall>>
      /\ applied' = applied /\ batch' = batch /\ svc' = svc
      /\ UNCHANGED disk \/ \E data : PersistWith(i, data)
  BY DEF StartElection, logVars, leaderVars, serviceVars, Persist
<1>3. PICK t \in Nat : t = currentTerm[i]
  BY TermsRise
<1>4. PICK m : m = [term |-> t + 1, candidateId |-> i,
                    lastLogIndex |-> LastLogIndex(i), lastLogTerm |-> LastLogTerm(i)]
  OBVIOUS
<1>5. voteReqs' = voteReqs \cup {m} /\ currentTerm'[i] = t + 1
  BY <1>3, <1>4, TermsRise DEF StartElection
<1>6. EndsLike(m, logs[i])
  <2>1. PICK X : X = logs[i]
    OBVIOUS
  <2>2. /\ LastLogIndex(i) = Len(X) /\ (X = <<>> => LastLogTerm(i) = 0)
        /\ X # <<>> => LastLogTerm(i) = X[Len(X)].term
    BY <2>1, EndOfLog DEF StepFacts
  <2> QED BY <1>4, <2>1, <2>2 DEF EndsLike
<1>7. ASSUME NEW a \in voteReqs, a.candidateId = i PROVE a.term <= t /\ a.term \in Nat
  BY <1>3, <1>7 DEF History, RequestsStand, OwnRequest, StepFacts, TypeInv, TypeOK, NetTypes,
                    VoteRequest
<1>8. logs' = logs
  BY <1>1 DEF LogsStand
<1>9. OwnRequest(m)'
  <2>1. m.candidateId = i /\ m.term = t + 1 /\ EndsLike(m, logs'[i])
    BY <1>4, <1>6, <1>8
  <2>2. currentTerm'[i] >= m.term
    BY <1>5, <2>1
  <2> QED BY <2>1, <2>2 DEF OwnRequest
<1>10. ASSUME NEW a \in voteReqs PROVE OwnRequest(a)'
  <2>1. PICK c \in Server : c = a.candidateId
    BY DEF StepFacts, TypeInv, TypeOK, NetTypes, VoteRequest
  <2>2. a.term \in Nat
    BY DEF StepFacts, TypeInv, TypeOK, NetTypes, VoteRequest
  <2>3. /\ currentTerm[c] >= a.term
        /\ role[c] = "Candidate" /\ currentTerm[c] = a.term => EndsLike(a, logs[c])
    BY <2>1 DEF History, RequestsStand, OwnRequest
  <2>4. CASE c = i
    <3>1. a.term <= t
      BY <1>7, <2>1, <2>4
    <3>2. currentTerm'[c] > a.term
      BY <1>5, <2>2, <2>4, <3>1
    <3> QED BY <2>1, <2>2, <3>2, TermsRise DEF OwnRequest
  <2>5. CASE c # i
    <3>1. /\ role' = [role EXCEPT ![i] = "Candidate"]
          /\ currentTerm' = [currentTerm EXCEPT ![i] = @ + 1]
      BY DEF StartElection
    <3>2. role \in [Server -> Role] /\ currentTerm \in [Server -> Nat]
      BY DEF StepFacts, TypeInv, TypeOK, RoleTypes
    <3>3. role'[c] = role[c] /\ currentTerm'[c] = currentTerm[c] /\ logs'[c] = logs[c]
      BY <1>8, <2>5, <3>1, <3>2
    <3> QED BY <2>1, <2>3, <3>3 DEF OwnRequest
  <2> QED BY <2>4, <2>5
<1>11. RequestsStand'
  <2>1. \A a \in voteReqs' : OwnRequest(a)'
    BY <1>5, <1>9, <1>10
  <2>2. ASSUME NEW a1 \in voteReqs', NEW a2 \in voteReqs',
               a1.candidateId = a2.candidateId, a1.term = a2.term
        PROVE  a1 = a2
    <3>1. CASE a1 \in voteReqs /\ a2 \in voteReqs
      BY <2>2, <3>1 DEF History, RequestsStand
    <3>2. CASE a1 = m \/ a2 = m
      <4>1. m.candidateId = i /\ m.term = t + 1
        BY <1>4
      <4>2. \A a \in voteReqs : a.candidateId = i => a.term # t + 1
        BY <1>7
      <4> QED BY <1>5, <2>2, <3>2, <4>1, <4>2
    <3> QED BY <1>5, <3>1, <3>2
  <2>3. \A r \in voteReplies' : r.request \in voteReqs'
    BY <1>2, <1>5 DEF History, RequestsStand
  <2> QED BY <2>1, <2>2, <2>3 DEF RequestsStand
<1>12. RepliesTrue(A)' /\ AppliedChosen(TL, A)'
  BY <1>1, <1>2, RepliesStand, AppliedStands DEF History, LogsStand
<1>13. \A s \in Server : disk'[s].commitIndex \in {disk[s].commitIndex, commitIndex[s]}
  BY <1>2, PersistCommit DEF StepFacts
<1>14. /\ \A r \in voteReplies' \ voteReplies : r.granted =>
            r.request.term \in D \/ Compared(TL, A, r)
       /\ \A s \in Server : role'[s] = "Leader" =>
            \A j \in Server \ {s} : matchIndex'[s][j] = matchIndex[s][j]
  BY <1>2
<1> QED BY <1>1, <1>2, <1>11, <1>12, <1>13, <1>14, QuietHistory

LEMMA SortedLog ==
    ASSUME NEW TL \in TermLogSet, TermsSorted(TL), NEW X \in Seq(Entry), Consistent(TL, X),
           NEW k \in 1..Len(X), NEW n \in 1..k
    PROVE  X[k].term \in Nat /\ X[n].term \in Nat /\ X[n].term <= X[k].term
<1>1. k \in Nat /\ n \in Nat /\ n \in 1..Len(X) /\ Len(X) \in Nat
  OBVIOUS
<1>2. X[k] \in Entry /\ X[n] \in Entry
  BY <1>1, ElementOfSeq
<1>3. X[k].term \in Nat /\ X[n].term \in Nat
  BY <1>2 DEF Entry
<1>4. PICK t \in Nat : t = X[k].term
  BY <1>3
<1>5. k <= Len(TL[t]) /\ \A a \in 1..k : X[a] = TL[t][a]
  BY <1>4 DEF Consistent, AgreeUpTo
<1>6. k \in 1..Len(TL[t])
  BY <1>1, <1>5, TermLogType
<1>7. TL[t][n].term <= TL[t][k].term
  BY <1>6 DEF TermsSorted, Sorted
<1> QED BY <1>3, <1>5, <1>7

\* A vote that is granted on a look at the log goes to a log that ends no earlier than
\* anything the voter has acknowledged, and that may still be committed.
LEMMA GrantedCompared ==
    ASSUME StepFacts, NothingInstalled, NEW TL \in TermLogSet, NEW D, NEW A,
           TermLogs(TL), Core(TL, D, A), NEW j \in Server, NEW m \in VoteRequest,
           LogUpToDate(j, m), NEW t \in Nat, NEW e \in Nat, Own(TL, t, e), Acked(A, j, t, e)
    PROVE  Lost(A, t, e) \/ AtLeast(m, t, e)
<1>1. PICK X : X = logs[j]
  OBVIOUS
<1>2. X \in Seq(Entry) /\ Len(X) \in Nat /\ LastLogIndex(j) = Len(X)
      /\ (X # <<>> => LastLogTerm(j) = X[Len(X)].term /\ Len(X) \in 1..Len(X))
  BY <1>1, EndOfLog DEF StepFacts
<1>3. CASE HeldBy(TL, j, t, e)
  <2>1. e \in 1..Len(TL[t]) /\ TL[t][e].term = t /\ AgreeUpTo(TL[t], X, e)
    BY <1>1, <1>3 DEF HeldBy, Own
  <2>2. e \in 1..Len(X) /\ X[e].term = t
    <3>1. e <= Len(X) /\ TL[t][e] = X[e]
      BY <2>1 DEF AgreeUpTo
    <3> QED BY <1>2, <2>1, <3>1, TermLogType
  <2>3. X # <<>> /\ Len(X) \in 1..Len(X) /\ e \in 1..Len(X)
    BY <1>2, <2>2
  <2>4. LastLogTerm(j) = X[Len(X)].term
    BY <1>2, <2>3
  <2>5. TermsSorted(TL) /\ Consistent(TL, X)
    BY <1>1 DEF Core, TermLogs, PeersConsistent
  <2>6. PICK s \in Nat : s = LastLogTerm(j) /\ t <= s
    BY <1>2, <2>2, <2>3, <2>4, <2>5, SortedLog
  <2>7. m.lastLogTerm \in Nat /\ m.lastLogIndex \in Nat
    BY DEF VoteRequest
  <2>8. s < m.lastLogTerm \/ (s = m.lastLogTerm /\ Len(X) <= m.lastLogIndex)
    BY <1>2, <2>6 DEF LogUpToDate
  <2> QED BY <1>2, <2>2, <2>6, <2>7, <2>8 DEF AtLeast
<1> QED BY <1>3 DEF Core, AcksKept

\* A vote that is repeated was given to the same request, or its term has been led.
LEMMA RepeatedCompared ==
    ASSUME StepFacts, NoStaleVote, NEW TL \in TermLogSet, NEW D \in SUBSET Nat,
           NEW A \in AckSet, History(TL, D, A), NEW j \in Server, NEW m \in voteReqs,
           m.candidateId # j, RepeatVote(j, m), NEW r, r.from = j, r.request = m
    PROVE  r.request.term \in D \/ Compared(TL, A, r)
<1>1. Voted(j, m.candidateId, m.term) \/ \E a \in aeReqs : a.term = m.term
  BY DEF NoStaleVote, RepeatVote
<1>2. CASE \E a \in aeReqs : a.term = m.term
  BY <1>2 DEF History, Core, TermsLed
<1>3. CASE Voted(j, m.candidateId, m.term)
  <2>1. PICK v \in voteReplies : /\ v.granted /\ v.from = j
                                 /\ v.request.candidateId = m.candidateId
                                 /\ v.request.term = m.term
    BY <1>3 DEF Voted
  <2>2. v.request = m
    BY <2>1 DEF History, RequestsStand
  <2>3. v.request.term \in D \/ Compared(TL, A, v)
    BY <2>1 DEF History, Core, VotesCompared
  <2> QED BY <2>1, <2>2, <2>3 DEF Compared
<1> QED BY <1>1, <1>2, <1>3

LEMMA RequestVoteHistory ==
    ASSUME StepFacts, NothingInstalled, NoStaleVote, NEW TL \in TermLogSet,
           NEW D \in SUBSET Nat, NEW A \in AckSet, History(TL, D, A),
           NEW j \in Server, NEW m \in voteReqs, RequestVote(j, m)
    PROVE  History(TL, D, A)'
<1>1. LogsStand
  BY ElectionsKeepLogs DEF StepFacts
<1>2. /\ commitIndex' = commitIndex /\ UNCHANGED <<voteReqs, matchIndex, aeCall>>
      /\ applied' = applied /\ batch' = batch /\ svc' = svc
      /\ UNCHANGED disk \/ \E data : PersistWith(j, data)
  BY DEF RequestVote, RefuseVote, RepeatVote, GrantVote, AdoptTerm, logVars, leaderVars,
         callVars, serviceVars, Persist
<1>3. ASSUME NEW term, NEW granted, AnswerVote(j, m, term, granted),
             NEW r \in voteReplies' \ voteReplies
      PROVE  r.from = j /\ r.request = m /\ r.granted = granted
  BY <1>3 DEF AnswerVote
<1>4. ASSUME NEW r \in voteReplies' \ voteReplies
      PROVE  /\ r.from = j /\ r.request = m
             /\ r.granted => RepeatVote(j, m) \/ LogUpToDate(j, m)
  <2>1. CASE RefuseVote(j, m)
    BY <1>3, <2>1 DEF RefuseVote
  <2>2. CASE RepeatVote(j, m)
    <3>1. AnswerVote(j, m, m.term, TRUE)
      BY <2>2 DEF RepeatVote
    <3> QED BY <1>3, <2>2, <3>1
  <2>3. CASE GrantVote(j, m)
    <3>1. AnswerVote(j, m, m.term, TRUE) /\ LogUpToDate(j, m)
      BY <2>3 DEF GrantVote
    <3> QED BY <1>3, <3>1
  <2>4. CASE AdoptTerm(j, m)
    BY <1>3, <2>4 DEF AdoptTerm
  <2> QED BY <2>1, <2>2, <2>3, <2>4 DEF RequestVote
<1>5. ASSUME NEW r \in voteReplies' \ voteReplies, r.granted
      PROVE  r.request.term \in D \/ Compared(TL, A, r)
  <2>1. r.from = j /\ r.request = m
    BY <1>4
  <2>2. CASE RepeatVote(j, m)
    <3>1. m.candidateId # j
      BY DEF RequestVote
    <3> QED BY <2>1, <2>2, <3>1, RepeatedCompared
  <2>3. CASE LogUpToDate(j, m)
    <3>1. m \in VoteRequest /\ TermLogs(TL) /\ Core(TL, D, A)
      BY DEF StepFacts, TypeInv, TypeOK, NetTypes, History
    <3>2. \A t \in Nat, e \in Nat : Own(TL, t, e) /\ Acked(A, j, t, e) =>
            Lost(A, t, e) \/ AtLeast(m, t, e)
      BY <2>3, <3>1, GrantedCompared
    <3> QED BY <2>1, <3>2 DEF Compared
  <2> QED BY <1>4, <1>5, <2>2, <2>3
<1>6. RequestsStand'
  <2>1. CandidatesStand
    BY <1>1 DEF CandidatesStand, LogsStand
  <2>2. \A r \in voteReplies' \ voteReplies : r.request \in voteReqs
    BY <1>4
  <2> QED BY <1>2, <2>1, <2>2, RequestsStay DEF History
<1>7. RepliesTrue(A)' /\ AppliedChosen(TL, A)'
  BY <1>1, <1>2, RepliesStand, AppliedStands DEF History, LogsStand
<1>8. \A s \in Server : disk'[s].commitIndex \in {disk[s].commitIndex, commitIndex[s]}
  BY <1>2, PersistCommit DEF StepFacts
<1>9. \A s \in Server : role'[s] = "Leader" =>
         \A p \in Server \ {s} : matchIndex'[s][p] = matchIndex[s][p]
  BY <1>2
<1> QED BY <1>1, <1>2, <1>5, <1>6, <1>7, <1>8, <1>9, QuietHistory

\* The service's side: a change of what is applied, or on its way, and of nothing else.
LEMMA ServiceHistory ==
    ASSUME StepFacts, NEW TL \in TermLogSet, NEW D \in SUBSET Nat, NEW A \in AckSet,
           History(TL, D, A), UNCHANGED <<roleVars, logs, commitIndex, disk>>,
           UNCHANGED <<voteReqs, voteReplies, aeReqs, matchIndex, aeCall>>,
           AppliedChosen(TL, A)'
    PROVE  History(TL, D, A)'
<1>1. LogsStand
  BY DEF LogsStand, roleVars
<1>2. RequestsStand'
  <2>1. CandidatesStand
    BY DEF CandidatesStand
  <2> QED BY <2>1, RequestsStay DEF History
<1>3. RepliesTrue(A)'
  BY RepliesStand DEF History
<1>4. /\ \A r \in voteReplies' \ voteReplies : r.granted =>
           r.request.term \in D \/ Compared(TL, A, r)
      /\ \A s \in Server : disk'[s].commitIndex \in {disk[s].commitIndex, commitIndex[s]}
      /\ \A s \in Server : role'[s] = "Leader" =>
           \A p \in Server \ {s} : matchIndex'[s][p] = matchIndex[s][p]
  OBVIOUS
<1> QED BY <1>1, <1>2, <1>3, <1>4, QuietHistory

LEMMA SnapshotHistory ==
    ASSUME StepFacts, NEW TL \in TermLogSet, NEW D \in SUBSET Nat, NEW A \in AckSet,
           History(TL, D, A), NEW i \in Server, Snapshot(i)
    PROVE  History(TL, D, A)'
<1>1. /\ lastSnapshotIndex[i] = 0 /\ lastSnapshotIndex'[i] = 0
      /\ lastSnapshotIndex \in [Server -> Nat] /\ svc \in [Server -> ServiceCall]
  BY DEF StepFacts, Uncompacted, TypeInv, TypeOK, LogTypes, ServiceTypes
<1>2. svc[i].index \in Nat
  BY <1>1 DEF Snapshot, ServiceCall, Idle
<1>3. UNCHANGED <<roleVars, logVars, disk>>
  <2>1. CASE lastSnapshotIndex[i] >= svc[i].index
    BY <2>1 DEF Snapshot
  <2>2. CASE ~(lastSnapshotIndex[i] >= svc[i].index)
    <3>1. lastSnapshotIndex' = [lastSnapshotIndex EXCEPT ![i] = svc[i].index]
      BY <2>2 DEF Snapshot
    <3> QED BY <1>1, <1>2, <2>2, <3>1
  <2> QED BY <2>1, <2>2
<1>4. /\ UNCHANGED <<voteReqs, voteReplies, aeReqs, matchIndex, aeCall, batch, applied>>
      /\ svc' = [svc EXCEPT ![i] = Idle]
  BY DEF Snapshot, leaderVars, callVars, voteNet
<1>5. AppliedChosen(TL, A)'
  <2>1. \A s \in Server : svc'[s].op = "snapshot" => svc'[s] = svc[s]
    BY <1>1, <1>4 DEF Idle
  <2>2. commitIndex' = commitIndex
    BY <1>3 DEF logVars
  <2> SUFFICES ASSUME NEW s \in Server
               PROVE  /\ \A k \in 1..Len(applied[s]) :
                           applied[s][k] = NoEntry \/ Fixed(TL, A, k, applied[s][k])
                      /\ \A n \in 1..Len(batch[s]) :
                           /\ batch[s][n].index \in 1..commitIndex[s]
                           /\ Fixed(TL, A, batch[s][n].index, batch[s][n].entry)
                      /\ svc'[s].op = "snapshot" => svc'[s].index <= commitIndex[s]
    BY <1>4, <2>2 DEF AppliedChosen
  <2> QED BY <2>1 DEF History, AppliedChosen
<1> QED BY <1>3, <1>4, <1>5, ServiceHistory DEF logVars

LEMMA CommittedFixed ==
    ASSUME NEW TL, NEW A, NEW X, NEW c \in Nat, NEW u, Committed(TL, A, X, c, u),
           NEW k \in 1..c
    PROVE  Fixed(TL, A, k, X[k])
<1>1. c # 0
  OBVIOUS
<1>2. PICK t \in Nat, e \in Nat : c <= e /\ Chosen(TL, A, t, e) /\ AgreeUpTo(TL[t], X, c)
  BY <1>1 DEF Committed
<1>3. k <= e /\ TL[t][k] = X[k]
  BY <1>2 DEF AgreeUpTo
<1> QED BY <1>2, <1>3 DEF Fixed

LEMMA StartApplyLogsHistory ==
    ASSUME StepFacts, NEW TL \in TermLogSet, NEW D \in SUBSET Nat, NEW A \in AckSet,
           History(TL, D, A), NEW i \in Server, StartApplyLogs(i)
    PROVE  History(TL, D, A)'
<1>1. PICK a \in Nat : a = lastApplied[i]
  BY DEF StepFacts, TypeInv, TypeOK, LogTypes
<1>2. PICK c \in Nat : c = commitIndex[i]
  BY DEF StepFacts, TypeInv, TypeOK, LogTypes
<1>3. lastSnapshotIndex[i] = 0
  BY DEF StepFacts, Uncompacted
<1>4. PICK B : B = [n \in 1..(c - a) |-> [index |-> a + n, entry |-> EntryAt(i, a + n)]]
  OBVIOUS
<1>5. /\ UNCHANGED <<roleVars, logVars, disk, voteReqs, voteReplies, aeReqs, matchIndex, aeCall>>
      /\ UNCHANGED <<applied, svc>> /\ a < c /\ batch' = [batch EXCEPT ![i] = B]
  BY <1>1, <1>2, <1>3, <1>4 DEF StartApplyLogs, leaderVars, callVars, voteNet
<1>6. batch \in [Server -> Seq([index : Nat, entry : Entry])]
  BY DEF StepFacts, TypeInv, TypeOK, ServiceTypes
<1>7. Len(B) = c - a /\ \A n \in 1..(c - a) : B[n].index = a + n /\ B[n].entry = logs[i][a + n]
  BY <1>3, <1>4, <1>5 DEF EntryAt
<1>8. \A k \in 1..c : Fixed(TL, A, k, logs[i][k])
  BY <1>2, CommittedFixed DEF History, CommitsChosen
<1>9. ASSUME NEW n \in 1..Len(B) PROVE B[n].index \in 1..c /\ Fixed(TL, A, B[n].index, B[n].entry)
  <2>1. PICK k : k = a + n
    OBVIOUS
  <2>2. k \in 1..c /\ B[n].index = k /\ B[n].entry = logs[i][k]
    BY <1>5, <1>7, <2>1
  <2> QED BY <1>8, <2>2
<1>10. AppliedChosen(TL, A)'
  <2> SUFFICES ASSUME NEW s \in Server
               PROVE  /\ \A k \in 1..Len(applied[s]) :
                           applied[s][k] = NoEntry \/ Fixed(TL, A, k, applied[s][k])
                      /\ \A n \in 1..Len(batch'[s]) :
                           /\ batch'[s][n].index \in 1..commitIndex[s]
                           /\ Fixed(TL, A, batch'[s][n].index, batch'[s][n].entry)
                      /\ svc[s].op = "snapshot" => svc[s].index <= commitIndex[s]
    BY <1>5 DEF AppliedChosen, logVars
  <2>1. CASE s = i
    <3>1. batch'[s] = B
      BY <1>5, <1>6, <2>1
    <3> QED BY <1>2, <1>9, <2>1, <3>1 DEF History, AppliedChosen
  <2>2. CASE s # i
    <3>1. batch'[s] = batch[s]
      BY <1>5, <1>6, <2>2
    <3> QED BY <3>1 DEF History, AppliedChosen
  <2> QED BY <2>1, <2>2
<1> QED BY <1>5, <1>10, ServiceHistory DEF logVars

LEMMA RecordFacts ==
    ASSUME NEW map \in Seq(AppliedEntry), NEW index \in Nat, index > 0, NEW entry
    PROVE  /\ Len(Record(map, index, entry)) \in Nat
           /\ \A k \in 1..Len(Record(map, index, entry)) :
                \/ k = index /\ Record(map, index, entry)[k] = entry
                \/ k \in 1..Len(map) /\ Record(map, index, entry)[k] = map[k]
                \/ Record(map, index, entry)[k] = NoEntry
<1>1. Len(map) \in Nat
  OBVIOUS
<1>2. PICK n \in Nat : n = IF index > Len(map) THEN index ELSE Len(map)
  BY <1>1
<1>3. Record(map, index, entry) =
        [k \in 1..n |->
           IF k = index THEN entry ELSE IF k <= Len(map) THEN map[k] ELSE NoEntry]
  BY <1>2 DEF Record
<1>4. Len(Record(map, index, entry)) = n
  BY <1>3
<1> QED BY <1>1, <1>3, <1>4

LEMMA ApplyOneHistory ==
    ASSUME StepFacts, NEW TL \in TermLogSet, NEW D \in SUBSET Nat, NEW A \in AckSet,
           History(TL, D, A), NEW i \in Server, ApplyOne(i)
    PROVE  History(TL, D, A)'
<1>1. PICK B \in Seq([index : Nat, entry : Entry]) : B = batch[i]
  BY DEF StepFacts, TypeInv, TypeOK, ServiceTypes
<1>2. B # <<>> /\ Len(B) \in Nat /\ 1 \in 1..Len(B) /\ Head(B) = B[1]
  BY <1>1 DEF ApplyOne
<1>3. PICK c \in Nat : c = commitIndex[i]
  BY DEF StepFacts, TypeInv, TypeOK, LogTypes
<1>4. PICK k \in 1..c, entry \in {B[1].entry} : k = B[1].index /\ Fixed(TL, A, k, entry)
  BY <1>1, <1>2, <1>3 DEF History, AppliedChosen
<1>5. PICK map \in Seq(AppliedEntry) : map = applied[i]
  BY DEF StepFacts, TypeInv, TypeOK, ServiceTypes
<1>6. /\ UNCHANGED <<roleVars, logs, commitIndex, disk>>
      /\ UNCHANGED <<voteReqs, voteReplies, aeReqs, matchIndex, aeCall>>
      /\ applied' = [applied EXCEPT ![i] = Record(map, k, entry)]
      /\ batch' = [batch EXCEPT ![i] = Tail(B)]
      /\ svc' = [svc EXCEPT ![i] = IF (k + 1) % SnapShotInterval = 0
                                   THEN [op |-> "snapshot", index |-> k] ELSE Idle]
  <2>1. Head(batch[i]) = B[1] /\ B[1].index = k /\ B[1].entry = entry
    BY <1>1, <1>2, <1>4
  <2>2. UNCHANGED <<roleVars, logs, commitIndex, disk>>
    BY DEF ApplyOne
  <2>3. UNCHANGED <<voteReqs, voteReplies, aeReqs, matchIndex, aeCall>>
    BY DEF ApplyOne, leaderVars, callVars, voteNet
  <2>4. applied' = [applied EXCEPT ![i] = Record(map, k, entry)]
    BY <1>5, <2>1 DEF ApplyOne
  <2>5. batch' = [batch EXCEPT ![i] = Tail(B)]
    BY <1>1 DEF ApplyOne
  <2>6. svc' = [svc EXCEPT ![i] = IF (k + 1) % SnapShotInterval = 0
                                  THEN [op |-> "snapshot", index |-> k] ELSE Idle]
    BY <2>1 DEF ApplyOne
  <2> QED BY <2>2, <2>3, <2>4, <2>5, <2>6
<1>7. PICK call : /\ svc' = [svc EXCEPT ![i] = call]
                  /\ call.op = "snapshot" => call.index = k
  <2>1. PICK call : call = IF (k + 1) % SnapShotInterval = 0
                           THEN [op |-> "snapshot", index |-> k] ELSE Idle
    OBVIOUS
  <2>2. call = [op |-> "snapshot", index |-> k] \/ call = Idle
    BY <2>1
  <2>3. call.op = "snapshot" => call.index = k
    BY <2>2 DEF Idle
  <2>4. svc' = [svc EXCEPT ![i] = call]
    BY <1>6, <2>1
  <2> QED BY <2>3, <2>4
<1>8. /\ batch \in [Server -> Seq([index : Nat, entry : Entry])]
      /\ applied \in [Server -> Seq(AppliedEntry)] /\ svc \in [Server -> ServiceCall]
  BY DEF StepFacts, TypeInv, TypeOK, ServiceTypes
<1>9. PICK new : new = Record(map, k, entry)
  OBVIOUS
<1>10. ASSUME NEW n \in 1..Len(new)
       PROVE  new[n] = NoEntry \/ Fixed(TL, A, n, new[n])
  <2>1. \/ n = k /\ new[n] = entry
        \/ n \in 1..Len(map) /\ new[n] = map[n]
        \/ new[n] = NoEntry
    BY <1>9, RecordFacts
  <2>2. CASE n = k /\ new[n] = entry
    BY <1>4, <2>2
  <2>3. CASE n \in 1..Len(map) /\ new[n] = map[n]
    BY <1>5, <2>3 DEF History, AppliedChosen
  <2> QED BY <2>1, <2>2, <2>3
<1>11. PICK rest : rest = Tail(B)
  OBVIOUS
<1>12. ASSUME NEW n \in 1..Len(rest)
       PROVE  rest[n].index \in 1..c /\ Fixed(TL, A, rest[n].index, rest[n].entry)
  <2>1. rest[n] = B[n + 1] /\ n + 1 \in 1..Len(B)
    BY <1>2, <1>11
  <2> QED BY <1>1, <1>3, <2>1 DEF History, AppliedChosen
<1>13. AppliedChosen(TL, A)'
  <2> SUFFICES ASSUME NEW s \in Server
               PROVE  /\ \A n \in 1..Len(applied'[s]) :
                           applied'[s][n] = NoEntry \/ Fixed(TL, A, n, applied'[s][n])
                      /\ \A n \in 1..Len(batch'[s]) :
                           /\ batch'[s][n].index \in 1..commitIndex[s]
                           /\ Fixed(TL, A, batch'[s][n].index, batch'[s][n].entry)
                      /\ svc'[s].op = "snapshot" => svc'[s].index <= commitIndex[s]
    BY <1>6 DEF AppliedChosen
  <2>1. CASE s = i
    <3>1. applied'[s] = new /\ batch'[s] = rest /\ svc'[s] = call
      BY <1>6, <1>7, <1>8, <1>9, <1>11, <2>1
    <3>2. svc'[s].op = "snapshot" => svc'[s].index <= commitIndex[s]
      BY <1>3, <1>7, <2>1, <3>1
    <3> QED BY <1>3, <1>10, <1>12, <2>1, <3>1, <3>2
  <2>2. CASE s # i
    <3>1. applied'[s] = applied[s] /\ batch'[s] = batch[s] /\ svc'[s] = svc[s]
      BY <1>6, <1>8, <2>2
    <3> QED BY <3>1 DEF History, AppliedChosen
  <2> QED BY <2>1, <2>2
<1> QED BY <1>6, <1>13, ServiceHistory

-----------------------------------------------------------------------------
(* Calls and replies *)

LEMMA AnswerAppendReplies ==
    ASSUME StepFacts, NEW A, NEW wider, AcksGrow(A, wider), RepliesTrue(A),
           aeReqs \subseteq aeReqs', NEW j \in Server, NEW m \in aeReqs,
           NEW term, NEW success \in BOOLEAN, NEW next, AnswerAppend(j, m, term, success, next),
           success => next = EndOf(m) + 1 /\ AckedUpTo(wider, j, m.term, EndOf(m))
    PROVE  RepliesTrue(wider)'
<1>1. PICK i \in Server : i = m.leaderId
  BY DEF StepFacts, TypeInv, TypeOK, NetTypes, AppendRequest
<1>2. aeCall \in [Server -> [Server -> Call]]
  BY DEF StepFacts, TypeInv, TypeOK, CallTypes
<1>3. PICK reply : reply = [term |-> term, success |-> success, nextLogIndex |-> next]
  OBVIOUS
<1>4. TrueReply(wider, j, m, reply)
  BY <1>3 DEF TrueReply
<1>5. PICK call \in Call : call = aeCall[i][j]
  BY <1>2
<1>6. ASSUME call.open, call.args = m
      PROVE  /\ \A s, p \in Server : ~(s = i /\ p = j) => aeCall'[s][p] = aeCall[s][p]
             /\ aeCall'[i][j].open = call.open /\ aeCall'[i][j].args = m
             /\ aeCall'[i][j].replies = call.replies \cup {reply}
  <2>1. aeCall' = [aeCall EXCEPT ![i][j].replies = @ \cup {reply}]
    BY <1>1, <1>3, <1>5, <1>6 DEF AnswerAppend
  <2>2. call \in [open : {TRUE}, args : AppendRequest, replies : SUBSET AppendReply]
    <3>1. NoCall.open = FALSE
      BY DEF NoCall
    <3>2. call # NoCall
      BY <1>6, <3>1
    <3> QED BY <3>2 DEF Call
  <2>3. aeCall'[i][j] = [call EXCEPT !.replies = call.replies \cup {reply}]
    BY <1>2, <1>5, <2>1
  <2>4. \A s, p \in Server : ~(s = i /\ p = j) => aeCall'[s][p] = aeCall[s][p]
    BY <1>2, <2>1
  <2> QED BY <1>6, <2>2, <2>3, <2>4
<1>7. ASSUME NEW s \in Server, NEW p \in Server, aeCall'[s][p] = aeCall[s][p]
      PROVE  TrueCall(wider, s, p, aeCall[s][p])'
  <2>1. PICK old : old = aeCall[s][p]
    OBVIOUS
  <2>2. TrueCall(wider, s, p, old)'
    BY <2>1, TrueCallStays DEF RepliesTrue
  <2> QED BY <1>7, <2>1, <2>2 DEF TrueCall
<1>8. CASE ~(call.open /\ call.args = m)
  <2>1. aeCall' = aeCall
    BY <1>1, <1>5, <1>8 DEF AnswerAppend
  <2> QED BY <1>7, <2>1 DEF RepliesTrue
<1>9. CASE call.open /\ call.args = m
  <2>1. /\ \A s, p \in Server : ~(s = i /\ p = j) => aeCall'[s][p] = aeCall[s][p]
        /\ aeCall'[i][j].open = call.open /\ aeCall'[i][j].args = m
        /\ aeCall'[i][j].replies = call.replies \cup {reply}
    BY <1>6, <1>9
  <2>2. TrueCall(wider, i, j, call)'
    BY <1>5, TrueCallStays DEF RepliesTrue
  <2>3. /\ m \in aeReqs' /\ m.leaderId = i /\ m.to = j /\ i # j
        /\ \A r \in call.replies : TrueReply(wider, j, m, r)
    BY <1>9, <2>2 DEF TrueCall
  <2>4. TrueCall(wider, i, j, aeCall[i][j])'
    BY <1>4, <2>1, <2>3 DEF TrueCall
  <2>5. ASSUME NEW s \in Server, NEW p \in Server, ~(s = i /\ p = j)
        PROVE  TrueCall(wider, s, p, aeCall[s][p])'
    <3>1. aeCall'[s][p] = aeCall[s][p]
      BY <2>1, <2>5
    <3> QED BY <1>7, <3>1
  <2> QED BY <2>4, <2>5 DEF RepliesTrue
<1> QED BY <1>8, <1>9

LEMMA NotAcceptedHistory ==
    ASSUME StepFacts, NEW TL \in TermLogSet, NEW D \in SUBSET Nat, NEW A \in AckSet,
           History(TL, D, A), NEW j \in Server, NEW m \in aeReqs, AppendEntries(j, m),
           AppendStale(j, m) \/ AppendRefused(j, m)
    PROVE  History(TL, D, A)'
<1>1. /\ UNCHANGED <<logs, commitIndex, aeReqs, voteReqs, voteReplies, matchIndex>>
      /\ applied' = applied /\ batch' = batch /\ svc' = svc
      /\ UNCHANGED disk \/ \E data : PersistWith(j, data)
  BY DEF AppendEntries, AppendStale, AppendRefused, logVars, leaderVars, serviceVars, voteNet,
         Persist
<1>2. LogsStand
  <2>1. CASE AppendStale(j, m)
    BY <1>1, <2>1, QuietKeepsLogs DEF StepFacts, AppendStale, logVars
  <2>2. CASE AppendRefused(j, m)
    BY <1>1, <2>2, FollowKeepsLogs DEF StepFacts, AppendRefused, logVars
  <2> QED BY <2>1, <2>2
<1>3. RepliesTrue(A)'
  <2>1. PICK term, next : AnswerAppend(j, m, term, FALSE, next)
    BY DEF AppendStale, AppendRefused
  <2> QED BY <1>1, <2>1, AnswerAppendReplies, SameAcksGrow DEF History
<1>4. RequestsStand'
  <2>1. CandidatesStand
    BY <1>1 DEF CandidatesStand
  <2> QED BY <1>1, <2>1, RequestsStay DEF History
<1>5. AppliedChosen(TL, A)'
  BY <1>1, AppliedStands DEF History
<1>6. \A s \in Server : disk'[s].commitIndex \in {disk[s].commitIndex, commitIndex[s]}
  BY <1>1, PersistCommit DEF StepFacts
<1>7. /\ \A r \in voteReplies' \ voteReplies : r.granted =>
           r.request.term \in D \/ Compared(TL, A, r)
      /\ \A s \in Server : role'[s] = "Leader" =>
           \A p \in Server \ {s} : matchIndex'[s][p] = matchIndex[s][p]
  BY <1>1
<1> QED BY <1>1, <1>2, <1>3, <1>4, <1>5, <1>6, <1>7, QuietHistory

-----------------------------------------------------------------------------
(* A peer takes the leadership *)

\* A log that ends no earlier than an entry has it, unless the entry is lost.
LEMMA AtLeastAgrees ==
    ASSUME NEW TL \in TermLogSet, NEW D, NEW A, TermsSorted(TL), LeadersSafe(TL, D, A),
           \A t \in Nat : TL[t] # <<>> => t \in D, D \subseteq Nat,
           NEW X \in Seq(Entry), Consistent(TL, X), NEW m, EndsLike(m, X),
           NEW t \in Nat, NEW e \in Nat, Own(TL, t, e), AtLeast(m, t, e)
    PROVE  Lost(A, t, e) \/ AgreeUpTo(TL[t], X, e)
<1>1. Len(X) \in Nat /\ Len(TL[t]) \in Nat /\ e \in 1..Len(TL[t]) /\ TL[t][e].term = t
  BY TermLogType DEF Own
<1>2. X # <<>>
  BY <1>1 DEF EndsLike, AtLeast
<1>3. PICK n \in 1..Len(X) : n = Len(X)
  BY <1>1, <1>2
<1>4. X[n] \in Entry
  BY ElementOfSeq
<1>5. PICK s \in Nat : s = X[n].term
  BY <1>4 DEF Entry
<1>6. m.lastLogIndex = n /\ m.lastLogTerm = s
  BY <1>2, <1>3, <1>5 DEF EndsLike
<1>7. n <= Len(TL[s]) /\ \A k \in 1..n : X[k] = TL[s][k]
  BY <1>5 DEF Consistent, AgreeUpTo
<1>8. CASE s = t /\ n >= e
  <2>1. \A k \in 1..e : TL[t][k] = X[k]
    BY <1>7, <1>8
  <2> QED BY <1>1, <1>3, <1>8, <2>1 DEF AgreeUpTo
<1>9. CASE s > t
  <2>1. s \in D
    <3>1. Len(TL[s]) \in Nat /\ Len(TL[s]) > 0
      BY <1>7, TermLogType
    <3> QED BY <3>1
  <2>2. CASE AgreeUpTo(TL[t], TL[s], e)
    <3>1. e <= Len(TL[s]) /\ \A k \in 1..e : TL[t][k] = TL[s][k]
      BY <2>2 DEF AgreeUpTo
    <3>2. ASSUME e > n PROVE FALSE
      <4>1. e \in 1..Len(TL[s]) /\ n \in 1..e
        BY <1>1, <3>1, <3>2, TermLogType
      <4>2. TL[s][n].term <= TL[s][e].term
        BY <4>1 DEF TermsSorted, Sorted
      <4>3. TL[s][n].term = s /\ TL[s][e].term = t
        BY <1>1, <1>5, <1>7, <3>1
      <4> QED BY <1>9, <4>2, <4>3
    <3>3. e <= n
      BY <3>2
    <3>4. \A k \in 1..e : TL[t][k] = X[k]
      BY <1>7, <3>1, <3>3
    <3> QED BY <1>1, <1>3, <3>3, <3>4 DEF AgreeUpTo
  <2> QED BY <1>9, <2>1, <2>2 DEF LeadersSafe
<1> QED BY <1>1, <1>6, <1>8, <1>9 DEF AtLeast

LEMMA LedByTerm ==
    ASSUME NEW l \in Server, NEW t \in Nat, LedBy(l, currentTerm[l])', currentTerm'[l] = t
    PROVE  LedBy(l, t)'
  BY DEF LedBy, Elected, Voted

\* A majority votes for a log that has what its members had acknowledged.
LEMMA ElectedHolds ==
    ASSUME StepFacts, NEW TL \in TermLogSet, NEW D \in SUBSET Nat, NEW A \in AckSet,
           History(TL, D, A), NEW i \in Server, NEW u \in Nat, u = currentTerm[i],
           role[i] = "Candidate", Elected(i, u), u \notin D,
           NEW t \in Nat, NEW e \in Nat, t < u, Own(TL, t, e)
    PROVE  Lost(A, t, e) \/ AgreeUpTo(TL[t], logs[i], e)
<1>1. PICK Q \in SUBSET Server : IsMajority(Q) /\ \A q \in Q \ {i} : Voted(q, i, u)
  BY DEF Elected
<1>2. ASSUME NEW q \in Q PROVE currentTerm[q] > t
  <2>1. currentTerm[q] \in Nat
    BY TermsRise
  <2>2. CASE q = i
    BY <2>2
  <2>3. CASE q # i
    <3>1. currentTerm[q] > u \/ currentTerm[q] = u
      BY <1>1, <2>3 DEF Voted, StepFacts, ElectionInv, VotesStand
    <3> QED BY <2>1, <3>1
  <2> QED BY <2>2, <2>3
<1>3. CASE \A q \in Q : ~Acked(A, q, t, e)
  BY <1>1, <1>2, <1>3 DEF Lost
<1>4. ASSUME NEW q \in Q, Acked(A, q, t, e) PROVE Lost(A, t, e) \/ AgreeUpTo(TL[t], logs[i], e)
  <2>1. CASE q = i
    BY <1>4, <2>1 DEF History, Core, AcksKept, HeldBy
  <2>2. CASE q # i
    <3>1. PICK v \in voteReplies : /\ v.granted /\ v.from = q
                                   /\ v.request.candidateId = i /\ v.request.term = u
      BY <1>1, <2>2 DEF Voted
    <3>2. Compared(TL, A, v)
      BY <3>1 DEF History, Core, VotesCompared
    <3>3. Lost(A, t, e) \/ AtLeast(v.request, t, e)
      BY <1>4, <3>1, <3>2 DEF Compared
    <3>4. EndsLike(v.request, logs[i])
      <4>1. v.request \in voteReqs
        BY <3>1 DEF History, RequestsStand
      <4> QED BY <3>1, <4>1 DEF History, RequestsStand, OwnRequest
    <3>5. logs[i] \in Seq(Entry) /\ Consistent(TL, logs[i])
      BY DEF StepFacts, TypeInv, TypeOK, LogTypes, History, TermLogs, PeersConsistent
    <3>6. /\ TermsSorted(TL) /\ LeadersSafe(TL, D, A) /\ D \subseteq Nat
          /\ \A s \in Nat : TL[s] # <<>> => s \in D
      BY DEF History, Core, TermsLed
    <3> QED BY <3>3, <3>4, <3>5, <3>6, AtLeastAgrees
  <2> QED BY <2>1, <2>2
<1> QED BY <1>3, <1>4

\* The log of a term nobody has led is empty, and no log has an entry of that term.
LEMMA TermNotLed ==
    ASSUME NEW TL \in TermLogSet, NEW D, TermLogs(TL), TermsLed(TL, D), NEW u \in Nat,
           \A l \in Server : ~LedBy(l, u)
    PROVE  /\ TL[u] = <<>> /\ u \notin D
           /\ \A X \in Seq(Entry), e \in Nat :
                Consistent(TL, X) /\ e \in 1..Len(X) => X[e].term # u
<1>1. TL[u] = <<>> /\ u \notin D
  BY DEF TermLogs, TermsWereLed, TermsLed
<1>2. ASSUME NEW X \in Seq(Entry), NEW e \in 1..Len(X), Consistent(TL, X), X[e].term = u
      PROVE  FALSE
  <2>1. e <= Len(TL[u])
    BY <1>2 DEF Consistent, AgreeUpTo
  <2>2. Len(TL[u]) = 0
    BY <1>1
  <2> QED BY <2>1, <2>2
<1> QED BY <1>1, <1>2

LEMMA TakenCore ==
    ASSUME StepFacts, NEW TL \in TermLogSet, NEW D \in SUBSET Nat, NEW A \in AckSet,
           History(TL, D, A), NEW i \in Server, NEW u \in Nat, u = currentTerm[i],
           role[i] = "Candidate", role' = [role EXCEPT ![i] = "Leader"],
           UNCHANGED <<currentTerm, logs, aeReqs, voteReplies>>,
           \A s \in Server : disk'[s].logs \in {disk[s].logs, logs'[s]},
           \A l \in Server : ~LedBy(l, u),
           NEW more \in TermLogSet, GrowsTo(TL, more, u, logs[i]), TermLogs(more)'
    PROVE  Core(more, D \cup {u}, A)'
<1> DEFINE led == D \cup {u}
<1>1. PICK X \in Seq(Entry) : X = logs[i]
  BY DEF StepFacts, TypeInv, TypeOK, LogTypes
<1>2. Extends(TL, more) /\ more[u] = X /\ \A s \in Nat \ {u} : more[s] = TL[s]
  BY <1>1 DEF GrowsTo
<1>3. /\ TL[u] = <<>> /\ u \notin D /\ Consistent(TL, X)
      /\ \A e \in Nat : e \in 1..Len(X) => X[e].term # u
  <2>1. TermLogs(TL) /\ TermsLed(TL, D) /\ Consistent(TL, X)
    BY <1>1 DEF History, Core, TermLogs, PeersConsistent
  <2> QED BY <2>1, TermNotLed
<1>4. Elected(i, u)
  <2>1. role'[i] = "Leader" /\ currentTerm'[i] = u
    BY DEF StepFacts, TypeInv, TypeOK, RoleTypes
  <2> QED BY <2>1 DEF StepFacts, VoteStep, CountedBefore
<1>5. LedBy(i, u)'
  <2>1. role'[i] = "Leader" /\ currentTerm'[i] = u
    BY DEF StepFacts, TypeInv, TypeOK, RoleTypes
  <2>2. LedBy(i, currentTerm[i])'
    BY <2>1 DEF TermLogs, LeadersHoldTerms
  <2> QED BY <2>1, <2>2, LedByTerm
<1>6. TermsSorted(more)
  <2>1. Sorted(X, u)
    <3> SUFFICES ASSUME NEW k \in 1..Len(X)
                 PROVE  X[k].term <= u /\ \A n \in 1..k : X[n].term <= X[k].term
      BY DEF Sorted
    <3>1. TermsSorted(TL)
      BY DEF History, Core
    <3>2. \A n \in 1..k : X[n].term <= X[k].term
      BY <1>3, <3>1, SortedLog
    <3>3. X[k].term <= u
      BY <1>1 DEF History, Core, TermsReached, Reaches
    <3> QED BY <3>2, <3>3
  <2> QED BY <1>2, <2>1 DEF TermsSorted, History, Core
<1>7. \A t \in Nat : more[t] # <<>> => t \in led
  BY <1>2 DEF History, Core, TermsLed
<1>8. \A s \in Server : role'[s] = "Leader" => currentTerm'[s] \in led
  BY DEF StepFacts, TypeInv, TypeOK, RoleTypes, History, Core, TermsLed
<1>9. \A s \in Server : Reaches(logs'[s], currentTerm'[s])
  BY DEF History, Core, TermsReached
<1>10. \A m \in aeReqs' : CallReaches(more[m.term], m)
  <2> SUFFICES ASSUME NEW m \in aeReqs PROVE CallReaches(more[m.term], m)
    OBVIOUS
  <2>1. m.term \in D /\ m.term \in Nat
    BY DEF History, Core, TermsLed, StepFacts, TypeInv, TypeOK, NetTypes, AppendRequest
  <2>2. more[m.term] = TL[m.term]
    BY <1>2, <1>3, <2>1
  <2> QED BY <2>2 DEF History, Core, CallsReach
<1>11. \A q \in Server, t \in Nat, e \in Nat :
         Own(TL, t, e) /\ Acked(A, q, t, e) /\ HeldBy(TL, q, t, e) =>
             Lost(A, t, e) \/ AgreeUpTo(TL[t], logs'[q], e)
  BY DEF HeldBy
<1>12. ASSUME NEW v \in led, NEW t \in Nat, NEW e \in Nat, t < v, Own(more, t, e)
       PROVE  \/ v \in D /\ Own(TL, t, e)
              \/ Lost(A, t, e)'
              \/ AgreeUpTo(more[t], more[v], e)
  <2>1. t # u
    BY <1>2, <1>3, <1>12 DEF Own
  <2>2. Own(TL, t, e)
    BY <1>2, <1>12, <2>1 DEF Own
  <2>3. CASE v \in D
    BY <2>2, <2>3
  <2>4. CASE v = u
    <3>1. Lost(A, t, e) \/ AgreeUpTo(TL[t], X, e)
      BY <1>1, <1>3, <1>4, <1>12, <2>2, <2>4, ElectedHolds
    <3>2. Lost(A, t, e) => Lost(A, t, e)'
      BY LostStays, SameAcksGrow
    <3> QED BY <1>2, <2>1, <2>4, <3>1, <3>2
  <2> QED BY <2>3, <2>4
<1>13. /\ led \in SUBSET Nat /\ D \subseteq led /\ AcksGrow(A, A) /\ AcksHeld(A, more, A)
       /\ Core(TL, D, A) /\ TermLogs(TL)
  BY SameAcksGrow, NoNewAcks DEF History
<1>14. LedChange(more, D, led)
  BY <1>5, <1>7, <1>8 DEF LedChange
<1>15. LogsChange(TL, more, A)
  BY <1>9, <1>10, <1>11 DEF LogsChange
<1>16. VotesChange(TL, led, A)
  BY DEF VotesChange
<1>17. TermsChange(TL, more, D, led, A)
  BY <1>12 DEF TermsChange
<1> HIDE DEF led
<1>18. Core(more, led, A)'
  BY <1>2, <1>6, <1>13, <1>14, <1>15, <1>16, <1>17, CoreStep
<1> QED BY <1>18 DEF led

LEMMA TakenMatch ==
    ASSUME StepFacts, NEW TL \in TermLogSet, NEW D \in SUBSET Nat, NEW A \in AckSet,
           History(TL, D, A), NEW i \in Server, NEW u \in Nat, u = currentTerm[i],
           role' = [role EXCEPT ![i] = "Leader"], UNCHANGED <<currentTerm, logs>>,
           matchIndex' = [matchIndex EXCEPT ![i] = [j \in Server |-> LastLogIndex(i)]],
           \A l \in Server : ~LedBy(l, u),
           NEW more \in TermLogSet, GrowsTo(TL, more, u, logs[i])
    PROVE  MatchTrue(more, A)'
<1>1. PICK X \in Seq(Entry) : X = logs[i]
  BY DEF StepFacts, TypeInv, TypeOK, LogTypes
<1>2. more[u] = X /\ \A s \in Nat \ {u} : more[s] = TL[s]
  BY <1>1 DEF GrowsTo
<1>3. \A e \in Nat : e \in 1..Len(X) => X[e].term # u
  <2>1. TermLogs(TL) /\ TermsLed(TL, D) /\ Consistent(TL, X)
    BY <1>1 DEF History, Core, TermLogs, PeersConsistent
  <2> QED BY <2>1, TermNotLed
<1>4. /\ role \in [Server -> Role] /\ matchIndex \in [Server -> [Server -> Nat]]
      /\ LastLogIndex(i) = Len(X) /\ Len(X) \in Nat
  BY <1>1 DEF StepFacts, TypeInv, TypeOK, RoleTypes, LeaderTypes, Uncompacted, LastLogIndex
<1> SUFFICES ASSUME NEW s \in Server, NEW j \in Server, role'[s] = "Leader", s # j
             PROVE  /\ matchIndex'[s][j] <= Len(logs[s])
                    /\ \A e \in 1..matchIndex'[s][j] :
                         Own(more, currentTerm[s], e) => Acked(A, j, currentTerm[s], e)
  BY DEF MatchTrue
<1>5. CASE s = i
  <2>1. matchIndex'[s][j] = Len(X)
    BY <1>4, <1>5
  <2>2. \A e \in 1..Len(X) : ~Own(more, u, e)
    BY <1>2, <1>3 DEF Own
  <2> QED BY <1>1, <1>4, <1>5, <2>1, <2>2
<1>6. CASE s # i
  <2>1. matchIndex'[s] = matchIndex[s] /\ role[s] = "Leader"
    BY <1>4, <1>6
  <2>2. PICK t \in Nat : t = currentTerm[s]
    BY TermsRise
  <2>3. t # u
    BY <2>1, <2>2 DEF History, TermLogs, LeadersHoldTerms
  <2>4. \A e : Own(more, t, e) => Own(TL, t, e)
    BY <1>2, <2>3 DEF Own
  <2> QED BY <2>1, <2>2, <2>4 DEF History, MatchTrue
<1> QED BY <1>5, <1>6

LEMMA TakenHistory ==
    ASSUME StepFacts, NEW TL \in TermLogSet, NEW D \in SUBSET Nat, NEW A \in AckSet,
           History(TL, D, A), NEW i \in Server, NEW r \in voteReplies, CollectVote(i, r),
           NEW u \in Nat, u = currentTerm[i],
           role[i] = "Candidate", role' = [role EXCEPT ![i] = "Leader"],
           \A l \in Server : ~LedBy(l, u),
           NEW more \in TermLogSet, GrowsTo(TL, more, u, logs[i]), TermLogs(more)'
    PROVE  History(more, D \cup {u}, A)'
<1>1. /\ UNCHANGED <<currentTerm, logs, commitIndex, aeReqs, voteReqs, voteReplies, aeCall>>
      /\ applied' = applied /\ batch' = batch /\ svc' = svc
      /\ UNCHANGED disk \/ \E data : PersistWith(i, data)
  BY DEF CollectVote, logVars, serviceVars, voteNet, Persist
<1>2. matchIndex' = [matchIndex EXCEPT ![i] = [j \in Server |-> LastLogIndex(i)]]
  <2>1. role \in [Server -> Role] /\ role' # role
    <3>1. role \in [Server -> Role]
      BY DEF StepFacts, TypeInv, TypeOK, RoleTypes
    <3>2. role'[i] = "Leader"
      BY <3>1
    <3> QED BY <3>1, <3>2
  <2> QED BY <2>1 DEF CollectVote, BecomeLeader
<1>3. \A s \in Server : disk'[s].logs \in {disk[s].logs, logs'[s]}
  BY <1>1, PersistLogs DEF StepFacts
<1>4. \A s \in Server : disk'[s].commitIndex \in {disk[s].commitIndex, commitIndex'[s]}
  BY <1>1, PersistCommit DEF StepFacts
<1>5. Extends(TL, more) /\ AcksGrow(A, A)
  BY SameAcksGrow DEF GrowsTo
<1>6. Core(more, D \cup {u}, A)'
  BY <1>1, <1>3, TakenCore
<1>7. MatchTrue(more, A)'
  BY <1>1, <1>2, TakenMatch
<1>8. RequestsStand'
  <2>1. CandidatesStand
    BY <1>1 DEF CandidatesStand
  <2> QED BY <1>1, <2>1, RequestsStay DEF History
<1>9. RepliesTrue(A)'
  BY <1>1, RepliesStand DEF History
<1>10. CommitsChosen(more, A)'
  <2>1. \A s \in Server : Committed(TL, A, logs'[s], commitIndex[s], currentTerm'[s])
    BY <1>1, LogsStandCommits DEF History
  <2> QED BY <1>1, <1>3, <1>4, <1>5, <2>1, CommitsStay DEF History
<1>11. CallsCommit(more, A)'
  <2>1. \A m \in aeReqs' \ aeReqs : CallCommits(more, A, m)
    BY <1>1
  <2> QED BY <1>5, <2>1, CallsCommitStay DEF History
<1>12. AppliedChosen(more, A)'
  <2>1. \A s \in Server : commitIndex'[s] >= commitIndex[s]
    BY <1>1 DEF StepFacts, TypeInv, TypeOK, LogTypes
  <2> QED BY <1>1, <1>5, <2>1, AppliedStays DEF History
<1> QED BY <1>6, <1>7, <1>8, <1>9, <1>10, <1>11, <1>12 DEF History

LEMMA CollectVoteHistory ==
    ASSUME StepFacts, NEW TL \in TermLogSet, NEW D \in SUBSET Nat, NEW A \in AckSet,
           History(TL, D, A), NEW i \in Server, NEW r \in voteReplies, CollectVote(i, r)
    PROVE  \E more \in TermLogSet, led \in SUBSET Nat :
             Extends(TL, more) /\ History(more, led, A)'
<1>1. PICK u \in Nat : u = currentTerm[i]
  BY TermsRise
<1>2. CASE LogsStand
  <2>1. History(TL, D, A)'
    BY <1>2, NotTakenHistory
  <2>2. Extends(TL, TL)
    BY ExtendsItself DEF TermLogSet
  <2> QED BY <2>1, <2>2
<1>3. CASE /\ role[i] = "Candidate" /\ role' = [role EXCEPT ![i] = "Leader"]
           /\ \A l \in Server : ~LedBy(l, u)
           /\ \E more \in [Nat -> Seq(Entry)] :
                GrowsTo(TL, more, u, logs[i]) /\ TermLogs(more)'
  <2>1. PICK more \in TermLogSet : GrowsTo(TL, more, u, logs[i]) /\ TermLogs(more)'
    BY <1>3 DEF TermLogSet
  <2>2. History(more, D \cup {u}, A)'
    BY <1>1, <1>3, <2>1, TakenHistory
  <2>3. D \cup {u} \in SUBSET Nat
    OBVIOUS
  <2>4. Extends(TL, more)
    BY <2>1 DEF GrowsTo
  <2> QED BY <2>2, <2>3, <2>4
<1>4. TermLogs(TL)
  BY DEF History
<1> QED BY <1>1, <1>2, <1>3, <1>4, CollectVoteTermLogs DEF StepFacts, TermLogSet

-----------------------------------------------------------------------------
(* A leader starts a command and sends it *)

\* A majority has left the term of an entry that nobody has yet acknowledged.
LEMMA NewEntryLost ==
    ASSUME StepFacts, NEW TL \in TermLogSet, NEW A, AcksStand(TL, A),
           NEW l \in Server, NEW v \in Nat, LedBy(l, v),
           NEW t \in Nat, NEW e \in Nat, t < v, e > Len(TL[t])
    PROVE  Lost(A, t, e)
<1>1. PICK Q \in SUBSET Server : IsMajority(Q) /\ \A q \in Q \ {l} : Voted(q, l, v)
  BY DEF LedBy, Elected
<1>2. ASSUME NEW q \in Q PROVE currentTerm[q] > t /\ ~Acked(A, q, t, e)
  <2>1. currentTerm[q] \in Nat
    BY TermsRise
  <2>2. ~Acked(A, q, t, e)
    BY TermLogType DEF AcksStand
  <2>3. CASE q = l
    BY <2>1, <2>2, <2>3 DEF LedBy
  <2>4. CASE q # l
    <3>1. currentTerm[q] > v \/ currentTerm[q] = v
      BY <1>1, <2>4 DEF Voted, StepFacts, ElectionInv, VotesStand
    <3> QED BY <2>1, <2>2, <3>1
  <2> QED BY <2>3, <2>4
<1> QED BY <1>1, <1>2 DEF Lost

\* The new entry is the last of the leader's log and of the log of its term.
LEMMA StartCore ==
    ASSUME StepFacts, NEW TL \in TermLogSet, NEW D \in SUBSET Nat, NEW A \in AckSet,
           History(TL, D, A), NEW i \in Server, NEW v \in Value, Start(i, v),
           NEW u \in Nat, u = currentTerm[i], NEW X \in Seq(Entry), X = logs[i],
           NEW L \in Seq(Entry), L = Append(X, [term |-> u, command |-> v]),
           NEW more \in TermLogSet, GrowsTo(TL, more, u, L)
    PROVE  Core(more, D, A)'
<1>1. /\ role[i] = "Leader" /\ logs' = [logs EXCEPT ![i] = L]
      /\ UNCHANGED <<role, currentTerm, disk, aeReqs, voteReplies>>
  BY DEF Start, roleVars, voteNet
<1>2. Extends(TL, more) /\ more[u] = L /\ \A s \in Nat \ {u} : more[s] = TL[s]
  BY DEF GrowsTo
<1>3. X = TL[u] /\ u \in D
  BY <1>1 DEF History, TermLogs, LeadersHoldTerms, Core, TermsLed
<1>4. PICK n \in Entry : n = [term |-> u, command |-> v]
  BY DEF Entry
<1>5. /\ Len(X) \in Nat /\ Len(L) = Len(X) + 1 /\ L[Len(X) + 1].term = u
      /\ \A k \in 1..Len(X) : L[k] = X[k]
      /\ \A k \in 1..Len(L) : k \in 1..Len(X) \/ k = Len(X) + 1
      /\ AgreeUpTo(X, L, Len(X))
  <2>1. L = Append(X, n) /\ n.term = u
    BY <1>4
  <2>2. /\ Len(X) \in Nat /\ Len(L) = Len(X) + 1 /\ L[Len(X) + 1] = n
        /\ \A k \in 1..Len(X) : L[k] = X[k]
        /\ \A k \in 1..Len(L) : k \in 1..Len(X) \/ k = Len(X) + 1
        /\ AgreeUpTo(X, L, Len(X))
    BY <2>1, AppendFacts
  <2> QED BY <2>1, <2>2
<1>6. Sorted(X, u)
  BY <1>3 DEF History, Core, TermsSorted
<1>7. Sorted(L, u)
  <2> SUFFICES ASSUME NEW k \in 1..Len(L)
               PROVE  L[k].term <= u /\ \A a \in 1..k : L[a].term <= L[k].term
    BY DEF Sorted
  <2>1. CASE k \in 1..Len(X)
    <3>1. L[k] = X[k] /\ \A a \in 1..k : L[a] = X[a]
      BY <1>5, <2>1
    <3> QED BY <1>6, <2>1, <3>1 DEF Sorted
  <2>2. CASE k = Len(X) + 1
    <3>1. \A a \in 1..k : a \in 1..Len(X) \/ a = k
      BY <1>5, <2>2
    <3>2. \A a \in 1..Len(X) : L[a].term <= u
      BY <1>5, <1>6 DEF Sorted
    <3> QED BY <1>5, <2>2, <3>1, <3>2
  <2> QED BY <1>5, <2>1, <2>2
<1>8. TermsSorted(more)
  BY <1>2, <1>7 DEF History, Core, TermsSorted
<1>9. \A t \in Nat : more[t] # <<>> => t \in D
  BY <1>2, <1>3 DEF History, Core, TermsLed
<1>10. ASSUME NEW s \in Server PROVE Reaches(logs'[s], currentTerm'[s])
  <2>1. logs \in [Server -> Seq(Entry)]
    BY DEF StepFacts, TypeInv, TypeOK, LogTypes
  <2>2. CASE s = i
    <3>1. logs'[s] = L /\ currentTerm'[s] = u
      BY <1>1, <2>1, <2>2
    <3> QED BY <1>7, <3>1 DEF Sorted, Reaches
  <2>3. CASE s # i
    <3>1. logs'[s] = logs[s] /\ currentTerm'[s] = currentTerm[s]
      BY <1>1, <2>1, <2>3
    <3> QED BY <3>1 DEF History, Core, TermsReached
  <2> QED BY <2>2, <2>3
<1>11. ASSUME NEW m \in aeReqs PROVE CallReaches(more[m.term], m)
  <2>1. PICK t \in Nat : t = m.term
    BY DEF StepFacts, TypeInv, TypeOK, NetTypes, AppendRequest
  <2>2. CallReaches(TL[t], m)
    BY <2>1 DEF History, Core, CallsReach
  <2>3. CASE t # u
    BY <1>2, <2>1, <2>2, <2>3
  <2>4. CASE t = u
    <3>1. \A k \in 1..Len(X) : k > EndOf(m) => X[k].term = u
      BY <1>3, <2>1, <2>2, <2>4 DEF CallReaches
    <3>2. \A k \in 1..Len(L) : k > EndOf(m) => L[k].term = u
      BY <1>5, <3>1
    <3> QED BY <1>2, <2>1, <2>4, <3>2 DEF CallReaches
  <2> QED BY <2>3, <2>4
<1>12. ASSUME NEW q \in Server, NEW t \in Nat, NEW e \in Nat, HeldBy(TL, q, t, e)
       PROVE  AgreeUpTo(TL[t], logs'[q], e)
  <2>1. logs \in [Server -> Seq(Entry)]
    BY DEF StepFacts, TypeInv, TypeOK, LogTypes
  <2>2. AgreeUpTo(TL[t], logs[q], e)
    BY <1>12 DEF HeldBy
  <2>3. CASE q # i
    BY <1>1, <2>1, <2>2, <2>3
  <2>4. CASE q = i
    <3>1. logs'[q] = L
      BY <1>1, <2>1, <2>4
    <3>2. e <= Len(TL[t]) /\ e <= Len(X) /\ \A k \in 1..e : TL[t][k] = X[k]
      BY <2>2, <2>4 DEF AgreeUpTo
    <3>3. e <= Len(L) /\ \A k \in 1..e : L[k] = X[k]
      BY <1>5, <3>2
    <3> QED BY <3>1, <3>2, <3>3 DEF AgreeUpTo
  <2> QED BY <2>3, <2>4
<1>13. ASSUME NEW w \in D, NEW t \in Nat, NEW e \in Nat, t < w, Own(more, t, e)
       PROVE  \/ w \in D /\ Own(TL, t, e)
              \/ Lost(A, t, e)'
              \/ AgreeUpTo(more[t], more[w], e)
  <2>1. CASE t # u \/ e <= Len(X)
    <3>1. e <= Len(TL[t])
      <4>1. CASE t = u
        BY <1>3, <2>1, <4>1
      <4>2. CASE t # u
        BY <1>2, <1>13, <4>2, TermLogType DEF Own
      <4> QED BY <4>1, <4>2
    <3>2. Own(TL, t, e)
      BY <1>2, <1>13, <3>1, OwnStays
    <3> QED BY <3>2
  <2>2. CASE t = u /\ e > Len(X)
    <3>1. PICK l \in Server : LedBy(l, w)
      BY DEF History, Core, TermsLed
    <3>2. Lost(A, t, e)
      <4>1. w \in Nat /\ AcksStand(TL, A)
        BY DEF History, Core
      <4> QED BY <1>3, <1>13, <2>2, <3>1, <4>1, NewEntryLost
    <3> QED BY <3>2, LostStays, SameAcksGrow
  <2> QED BY <1>5, <2>1, <2>2
<1>14. /\ D \subseteq D /\ AcksGrow(A, A) /\ AcksHeld(A, more, A) /\ Core(TL, D, A)
  BY SameAcksGrow, NoNewAcks DEF History
<1>15. LedChange(more, D, D)
  BY <1>1, <1>9 DEF LedChange, History, Core, TermsLed
<1>16. LogsChange(TL, more, A)
  BY <1>1, <1>10, <1>11, <1>12 DEF LogsChange
<1>17. VotesChange(TL, D, A)
  BY <1>1 DEF VotesChange
<1>18. TermsChange(TL, more, D, D, A)
  BY <1>13 DEF TermsChange
<1> QED BY <1>2, <1>8, <1>14, <1>15, <1>16, <1>17, <1>18, CoreStep

LEMMA StartHistory ==
    ASSUME StepFacts, NEW TL \in TermLogSet, NEW D \in SUBSET Nat, NEW A \in AckSet,
           History(TL, D, A), NEW i \in Server, NEW v \in Value, Start(i, v)
    PROVE  \E more \in TermLogSet : Extends(TL, more) /\ History(more, D, A)'
<1>1. PICK u \in Nat : u = currentTerm[i]
  BY TermsRise
<1>2. PICK X \in Seq(Entry) : X = logs[i]
  BY DEF StepFacts, TypeInv, TypeOK, LogTypes
<1>3. [term |-> u, command |-> v] \in Entry
  BY DEF Entry
<1>4. PICK L \in Seq(Entry) : L = Append(X, [term |-> u, command |-> v])
  BY <1>3, AppendProperties
<1>5. PICK more \in TermLogSet : GrowsTo(TL, more, u, L) /\ TermLogs(more)'
  <2>1. TermLogs(TL)
    BY DEF History
  <2>2. \E more \in [Nat -> Seq(Entry)] :
          /\ GrowsTo(TL, more, currentTerm[i],
                     Append(logs[i], [term |-> currentTerm[i], command |-> v]))
          /\ TermLogs(more)'
    BY <2>1, StartTermLogs DEF StepFacts, TermLogSet
  <2> QED BY <1>1, <1>2, <1>4, <2>2 DEF TermLogSet
<1>6. /\ role[i] = "Leader" /\ logs' = [logs EXCEPT ![i] = L]
      /\ matchIndex' = [matchIndex EXCEPT ![i][i] = LastLogIndex(i) + 1]
      /\ UNCHANGED <<role, currentTerm, commitIndex, disk, aeReqs, voteReqs, voteReplies, aeCall>>
      /\ applied' = applied /\ batch' = batch /\ svc' = svc
  BY <1>1, <1>2, <1>4 DEF Start, roleVars, callVars, serviceVars, voteNet
<1>7. Extends(TL, more) /\ AcksGrow(A, A)
  BY <1>5, SameAcksGrow DEF GrowsTo
<1>8. /\ logs \in [Server -> Seq(Entry)] /\ matchIndex \in [Server -> [Server -> Nat]]
  BY DEF StepFacts, TypeInv, TypeOK, LogTypes, LeaderTypes
<1>9. Core(more, D, A)'
  BY <1>1, <1>2, <1>4, <1>5, StartCore
<1>10. AgreeUpTo(X, L, Len(X))
  <2>1. PICK n \in Entry : n = [term |-> u, command |-> v]
    BY <1>3
  <2>2. L = Append(X, n)
    BY <1>4, <2>1
  <2> QED BY <2>2, AppendFacts
<1>11. MatchTrue(more, A)'
  <2>1. ASSUME NEW s \in Server, role'[s] = "Leader"
        PROVE  /\ role[s] = "Leader" /\ currentTerm'[s] = currentTerm[s]
               /\ Len(logs[s]) <= Len(logs'[s])
               /\ \A j \in Server \ {s} : matchIndex'[s][j] = matchIndex[s][j]
    <3>1. \A j \in Server \ {s} : matchIndex'[s][j] = matchIndex[s][j]
      BY <1>6, <1>8
    <3>2. CASE s = i
      BY <1>2, <1>6, <1>8, <1>10, <2>1, <3>1, <3>2 DEF AgreeUpTo
    <3>3. CASE s # i
      <4>1. logs'[s] = logs[s] /\ logs[s] \in Seq(Entry)
        BY <1>6, <1>8, <3>3
      <4>2. Len(logs[s]) <= Len(logs'[s])
        BY <4>1
      <4> QED BY <1>6, <2>1, <3>1, <4>2
    <3> QED BY <3>2, <3>3
  <2>2. TermLogs(TL) /\ MatchTrue(TL, A)
    BY DEF History
  <2> QED BY <1>7, <2>1, <2>2, MatchStays
<1>12. RequestsStand'
  <2>1. CandidatesStand
    BY <1>6, <1>8 DEF CandidatesStand
  <2> QED BY <1>6, <2>1, RequestsStay DEF History
<1>13. RepliesTrue(A)'
  BY <1>6, RepliesStand DEF History
<1>14. CommitsChosen(more, A)'
  <2>1. ASSUME NEW s \in Server
        PROVE  Committed(TL, A, logs'[s], commitIndex[s], currentTerm'[s])
    <3>1. Committed(TL, A, logs[s], commitIndex[s], currentTerm'[s])
      BY <1>6 DEF History, CommitsChosen
    <3>2. CASE s # i
      BY <1>6, <1>8, <3>1, <3>2
    <3>3. CASE s = i
      <4>1. logs[s] = X /\ logs'[s] = L
        BY <1>2, <1>6, <1>8, <3>3
      <4>2. PICK c \in Nat : c = commitIndex[s]
        BY DEF StepFacts, TypeInv, TypeOK, LogTypes
      <4>3. PICK w : w = currentTerm'[s]
        OBVIOUS
      <4>4. ASSUME NEW t \in Nat, AgreeUpTo(TL[t], X, c) PROVE AgreeUpTo(TL[t], L, c)
        <5>1. TL[t] \in Seq(Entry) /\ Len(X) \in Nat
          BY TermLogType
        <5>2. c <= Len(X)
          BY <4>4 DEF AgreeUpTo
        <5> QED BY <1>10, <4>4, <5>1, <5>2, AgreementPasses
      <4>5. Committed(TL, A, X, c, w)
        BY <3>1, <4>1, <4>2, <4>3
      <4>6. Committed(TL, A, L, c, w)
        BY <4>4, <4>5 DEF Committed
      <4> QED BY <4>1, <4>2, <4>3, <4>6
    <3> QED BY <3>2, <3>3
  <2>2. \A s \in Server : /\ commitIndex'[s] = commitIndex[s]
                          /\ disk'[s].commitIndex \in {disk[s].commitIndex, commitIndex'[s]}
                          /\ disk'[s].logs \in {disk[s].logs, logs'[s]}
    BY <1>6
  <2> QED BY <1>7, <2>1, <2>2, CommitsStay DEF History
<1>15. CallsCommit(more, A)'
  <2>1. \A m \in aeReqs' \ aeReqs : CallCommits(more, A, m)
    BY <1>6
  <2> QED BY <1>7, <2>1, CallsCommitStay DEF History
<1>16. AppliedChosen(more, A)'
  <2>1. \A s \in Server : commitIndex'[s] >= commitIndex[s]
    BY <1>6 DEF StepFacts, TypeInv, TypeOK, LogTypes
  <2> QED BY <1>6, <1>7, <2>1, AppliedStays DEF History
<1>17. History(more, D, A)'
  BY <1>5, <1>9, <1>11, <1>12, <1>13, <1>14, <1>15, <1>16 DEF History
<1> QED BY <1>7, <1>17

LEMMA AppendArgsEnd ==
    ASSUME TypeInv, Uncompacted, NEW i \in Server, NEW j \in Server,
           NEW m, m = AppendArgs(i, j)
    PROVE  /\ m.term = currentTerm[i] /\ m.leaderId = i /\ m.to = j
           /\ m.leaderCommit = commitIndex[i] /\ EndOf(m) = Len(logs[i])
<1>1. PICK X \in Seq(Entry) : X = logs[i]
  BY DEF TypeInv, TypeOK, LogTypes
<1>2. Len(X) \in Nat /\ lastSnapshotIndex[i] = 0 /\ LastLogIndex(i) = Len(X)
  BY <1>1 DEF Uncompacted, LastLogIndex
<1>3. PICK prev \in Nat :
        /\ prev <= Len(X)
        /\ m = [term |-> currentTerm[i], leaderId |-> i, to |-> j,
                prevLogIndex |-> prev, prevLogTerm |-> TermAt(i, prev),
                entries |-> EntriesFrom(i, prev + 1), leaderCommit |-> commitIndex[i]]
  <2>1. CASE HasEntriesFor(i, j)
    <3>1. nextIndex[i][j] \in Nat
      BY DEF TypeInv, TypeOK, LeaderTypes
    <3>2. PICK prev \in Nat : prev = nextIndex[i][j] - 1 /\ prev <= Len(X)
      BY <1>2, <2>1, <3>1 DEF HasEntriesFor
    <3> QED BY <2>1, <3>2 DEF AppendArgs
  <2>2. CASE ~HasEntriesFor(i, j)
    <3>1. PICK prev \in Nat : prev = LastLogIndex(i) /\ prev <= Len(X)
      BY <1>2
    <3> QED BY <2>2, <3>1 DEF AppendArgs
  <2> QED BY <2>1, <2>2
<1>4. /\ m.term = currentTerm[i] /\ m.leaderId = i /\ m.to = j
      /\ m.leaderCommit = commitIndex[i] /\ m.prevLogIndex = prev
      /\ m.entries = EntriesFrom(i, prev + 1)
  BY <1>3
<1>5. EntriesFrom(i, prev + 1) = SubSeq(X, prev + 1, Len(X))
  BY <1>1, <1>2 DEF EntriesFrom
<1>6. PICK E : E = SubSeq(X, prev + 1, Len(X))
  OBVIOUS
<1>7. Len(E) = Len(X) - prev
  BY <1>3, <1>6, SuffixFacts
<1>8. prev + Len(E) = Len(X)
  BY <1>2, <1>7
<1> QED BY <1>1, <1>4, <1>5, <1>6, <1>8 DEF EndOf

LEMMA SendHistory ==
    ASSUME StepFacts, NEW TL \in TermLogSet, NEW D \in SUBSET Nat, NEW A \in AckSet,
           History(TL, D, A), NEW i \in Server, NEW j \in Server, SendAppendEntries(i, j)
    PROVE  History(TL, D, A)'
<1>1. PICK m : m = AppendArgs(i, j)
  OBVIOUS
<1>2. PICK u \in Nat : u = currentTerm[i]
  BY TermsRise
<1>3. PICK X \in Seq(Entry) : X = logs[i]
  BY DEF StepFacts, TypeInv, TypeOK, LogTypes
<1>4. /\ role[i] = "Leader" /\ i # j /\ aeReqs' = aeReqs \cup {m}
      /\ aeCall' = [aeCall EXCEPT ![i][j] = [open |-> TRUE, args |-> m, replies |-> {}]]
      /\ UNCHANGED <<role, currentTerm, logs, commitIndex, disk, matchIndex, voteReqs, voteReplies>>
      /\ applied' = applied /\ batch' = batch /\ svc' = svc
  BY <1>1 DEF SendAppendEntries, roleVars, logVars, leaderVars, serviceVars, voteNet
<1>5. m.term = u /\ m.leaderId = i /\ m.to = j /\ EndOf(m) = Len(X)
      /\ m.leaderCommit = commitIndex[i]
  BY <1>1, <1>2, <1>3, AppendArgsEnd DEF StepFacts
<1>6. TL[u] = X /\ u \in D
  BY <1>2, <1>3, <1>4 DEF History, TermLogs, LeadersHoldTerms, Core, TermsLed
<1>7. TermLogs(TL)'
  BY SendTermLogs DEF StepFacts, History, TermLogSet
<1>8. Extends(TL, TL) /\ AcksGrow(A, A) /\ AcksHeld(A, TL, A) /\ D \subseteq D
  BY ExtendsItself, SameAcksGrow, NoNewAcks DEF TermLogSet
<1>9. Core(TL, D, A)'
  <2>1. CallReaches(TL[u], m)
    <3>1. \A k \in 1..Len(X) : ~(k > Len(X))
      BY LenProperties
    <3> QED BY <1>5, <1>6, <3>1 DEF CallReaches
  <2>2. \A a \in aeReqs' : CallReaches(TL[a.term], a)
    BY <1>4, <1>5, <2>1 DEF History, Core, CallsReach
  <2>3. Core(TL, D, A) /\ TermsSorted(TL) /\ LedChange(TL, D, D)
    BY <1>4, <1>5, <1>6 DEF History, Core, TermsLed, LedChange
  <2>4. \A s \in Server : Reaches(logs'[s], currentTerm'[s])
    BY <1>4 DEF History, Core, TermsReached
  <2>5. LogsChange(TL, TL, A)
    BY <1>4, <2>2, <2>4 DEF LogsChange, HeldBy
  <2>6. VotesChange(TL, D, A) /\ TermsChange(TL, TL, D, D, A)
    BY <1>4 DEF VotesChange, TermsChange
  <2> QED BY <1>8, <2>3, <2>5, <2>6, CoreStep
<1>10. RequestsStand'
  <2>1. CandidatesStand
    BY <1>4 DEF CandidatesStand
  <2> QED BY <1>4, <2>1, RequestsStay DEF History
<1>11. RepliesTrue(A)'
  <2> SUFFICES ASSUME NEW s \in Server, NEW p \in Server
               PROVE  TrueCall(A, s, p, aeCall[s][p])'
    BY DEF RepliesTrue
  <2>1. aeCall \in [Server -> [Server -> Call]]
    BY DEF StepFacts, TypeInv, TypeOK, CallTypes
  <2>2. CASE s = i /\ p = j
    <3>1. aeCall'[s][p] = [open |-> TRUE, args |-> m, replies |-> {}]
      BY <1>4, <2>1, <2>2
    <3>2. aeCall'[s][p].args = m /\ aeCall'[s][p].replies = {}
      BY <3>1
    <3> QED BY <1>4, <1>5, <2>2, <3>2 DEF TrueCall
  <2>3. CASE ~(s = i /\ p = j)
    <3>1. aeCall'[s][p] = aeCall[s][p]
      BY <1>4, <2>1, <2>3
    <3>2. PICK old : old = aeCall[s][p]
      OBVIOUS
    <3>3. TrueCall(A, s, p, old)'
      BY <1>4, <1>8, <3>2, TrueCallStays DEF History, RepliesTrue
    <3> QED BY <3>1, <3>2, <3>3 DEF TrueCall
  <2> QED BY <2>2, <2>3
<1>12. MatchTrue(TL, A)'
  BY <1>4 DEF History, MatchTrue
<1>13. CommitsChosen(TL, A)'
  BY <1>4 DEF History, CommitsChosen
<1>14. CallsCommit(TL, A)'
  <2>1. Committed(TL, A, X, commitIndex[i], u)
    BY <1>2, <1>3 DEF History, CommitsChosen
  <2>2. commitIndex[i] <= Len(X)
    <3>1. commitIndex[i] \in Nat /\ Len(X) \in Nat
      BY DEF StepFacts, TypeInv, TypeOK, LogTypes
    <3> QED BY <2>1, <3>1 DEF Committed, AgreeUpTo
  <2>3. CallCommits(TL, A, m)
    BY <1>5, <1>6, <2>1, <2>2 DEF CallCommits
  <2> QED BY <1>4, <2>3 DEF History, CallsCommit
<1>15. AppliedChosen(TL, A)'
  BY <1>4, AppliedStands DEF History
<1> QED BY <1>7, <1>9, <1>10, <1>11, <1>12, <1>13, <1>14, <1>15 DEF History

-----------------------------------------------------------------------------
(* A peer takes what its leader sends *)

\* The log that AppendEntries leaves is the leader's, as far as the call goes.
LEMMA AcceptedLog ==
    ASSUME StepFacts, NEW TL \in TermLogSet, TermLogs(TL), NEW j \in Server,
           NEW m \in aeReqs, AppendAccepted(j, m)
    PROVE  \E Y \in Seq(Entry) :
             /\ logs' = [logs EXCEPT ![j] = Y]
             /\ Len(Y) = EndOf(m) /\ AgreeUpTo(Y, TL[m.term], EndOf(m))
<1>1. PrevMatches(j, m)
  BY DEF AppendAccepted
<1>2. PICK Y \in Seq(Entry) :
        /\ Y = SubSeq(logs[j], 1, m.prevLogIndex - lastSnapshotIndex[j]) \o m.entries
        /\ Len(Y) = m.prevLogIndex + Len(m.entries) /\ AgreeUpTo(Y, TL[m.term], Len(Y))
  BY <1>1, AcceptedIsPart DEF StepFacts, TermLogSet
<1>3. logs' = [logs EXCEPT ![j] = Y]
  BY <1>2 DEF AppendAccepted
<1> QED BY <1>2, <1>3 DEF EndOf

\* An entry of an earlier term that the leader has is not past the end of a call: what is
\* past it was started in the leader's own term.
LEMMA NotPastCall ==
    ASSUME NEW TL \in TermLogSet, NEW t \in Nat, NEW m \in AppendRequest,
           CallReaches(TL[t], m), m.term = t,
           NEW s \in Nat, s < t, NEW e \in Nat, Own(TL, s, e), AgreeUpTo(TL[s], TL[t], e)
    PROVE  e <= EndOf(m)
<1>1. EndOf(m) \in Nat /\ Len(TL[t]) \in Nat /\ Len(TL[s]) \in Nat
  BY EndOfType, TermLogType
<1>2. e \in 1..e /\ e \in 1..Len(TL[t]) /\ TL[t][e].term = s
  BY <1>1 DEF Own, AgreeUpTo
<1> QED BY <1>1, <1>2 DEF CallReaches

\* Nor is an entry of the call's own term that the peer has: the arguments are not the
\* late ones that isOutOfArgsAppendEntries turns away.
LEMMA NotCutByCall ==
    ASSUME StepFacts, NothingInstalled, NEW TL \in TermLogSet, NEW D, NEW A,
           TermLogs(TL), Core(TL, D, A), NEW j \in Server, NEW m \in aeReqs,
           NEW t \in Nat, m.term = t, currentTerm[j] <= t, ~OutOfArgs(j, m),
           NEW c \in Nat, AgreeUpTo(TL[t], logs[j], c)
    PROVE  c <= EndOf(m)
<1> SUFFICES ASSUME c > EndOf(m) PROVE FALSE
  <2>1. m \in AppendRequest
    BY DEF StepFacts, TypeInv, TypeOK, NetTypes
  <2> QED BY <2>1, EndOfType
<1>1. m \in AppendRequest
  BY DEF StepFacts, TypeInv, TypeOK, NetTypes
<1>2. PICK k \in Nat : k = EndOf(m)
  BY <1>1, EndOfType
<1>3. PICK X : X = logs[j]
  OBVIOUS
<1>4. /\ X \in Seq(Entry) /\ Len(X) \in Nat /\ LastLogIndex(j) = Len(X)
      /\ X # <<>> => LastLogTerm(j) = X[Len(X)].term /\ Len(X) \in 1..Len(X)
  BY <1>3, EndOfLog DEF StepFacts
<1>5. /\ c \in 1..Len(TL[t]) /\ c \in 1..Len(X) /\ TL[t][c] = X[c]
  <2>1. c <= Len(TL[t]) /\ c <= Len(X) /\ \A n \in 1..c : TL[t][n] = X[n]
    BY <1>3 DEF AgreeUpTo
  <2>2. c \in 1..c /\ Len(TL[t]) \in Nat
    BY <1>2, TermLogType
  <2> QED BY <1>4, <2>1, <2>2
<1>6. X[c].term = t
  <2>1. CallReaches(TL[t], m)
    BY DEF Core, CallsReach
  <2> QED BY <1>5, <2>1 DEF CallReaches
<1>7. PICK n \in 1..Len(X) : n = Len(X)
  BY <1>4, <1>5
<1>8. X[n].term \in Nat /\ t <= X[n].term
  <2>1. TermsSorted(TL) /\ Consistent(TL, X)
    BY <1>3 DEF Core, TermLogs, PeersConsistent
  <2>2. c \in 1..n
    BY <1>5, <1>7
  <2> QED BY <1>4, <1>6, <2>1, <2>2, SortedLog
<1>9. X[n].term <= currentTerm[j] /\ currentTerm[j] \in Nat
  <2>1. Reaches(X, currentTerm[j])
    BY <1>3 DEF Core, TermsReached
  <2> QED BY <2>1, TermsRise DEF Reaches
<1>10. LastLogTerm(j) = m.term
  <2>1. X[n].term = t
    BY <1>8, <1>9
  <2>2. X # <<>>
    BY <1>4, <1>5
  <2> QED BY <1>4, <1>7, <2>1, <2>2
<1>11. m.prevLogIndex + Len(m.entries) < LastLogIndex(j)
  BY <1>2, <1>4, <1>5 DEF EndOf
<1> QED BY <1>10, <1>11 DEF OutOfArgs

\* What the peer has acknowledged, or knows committed, it has in its new log too.
LEMMA AcceptedKeeps ==
    ASSUME StepFacts, NothingInstalled, NEW TL \in TermLogSet, NEW D \in SUBSET Nat, NEW A,
           TermLogs(TL), Core(TL, D, A), NEW j \in Server, NEW m \in aeReqs,
           NEW t \in Nat, m.term = t, currentTerm[j] <= t, ~OutOfArgs(j, m),
           NEW Y \in Seq(Entry), Len(Y) = EndOf(m), AgreeUpTo(Y, TL[t], EndOf(m)),
           NEW s \in Nat, s <= currentTerm[j], NEW e \in Nat, Own(TL, s, e), ~Lost(A, s, e),
           NEW c \in Nat, c <= e, AgreeUpTo(TL[s], logs[j], c)
    PROVE  AgreeUpTo(TL[s], Y, c)
<1>1. m \in AppendRequest
  BY DEF StepFacts, TypeInv, TypeOK, NetTypes
<1>2. PICK k \in Nat : k = EndOf(m)
  BY <1>1, EndOfType
<1>3. /\ Len(Y) = k /\ k <= Len(TL[t]) /\ \A n \in 1..k : Y[n] = TL[t][n]
  BY <1>2 DEF AgreeUpTo
<1>4. Len(TL[t]) \in Nat /\ Len(TL[s]) \in Nat /\ currentTerm[j] \in Nat
  BY TermLogType, TermsRise
<1>5. CASE s < t
  <2>1. t \in D
    BY DEF Core, TermsLed
  <2>2. AgreeUpTo(TL[s], TL[t], e)
    BY <1>5, <2>1 DEF Core, LeadersSafe
  <2>3. e <= k
    <3>1. CallReaches(TL[t], m)
      BY DEF Core, CallsReach
    <3> QED BY <1>1, <1>2, <1>5, <2>2, <3>1, NotPastCall
  <2>4. c <= Len(TL[s]) /\ \A n \in 1..c : TL[s][n] = TL[t][n]
    BY <1>4, <2>2 DEF AgreeUpTo
  <2>5. \A n \in 1..c : TL[s][n] = Y[n]
    BY <1>3, <2>3, <2>4
  <2> QED BY <1>3, <1>4, <2>3, <2>4, <2>5 DEF AgreeUpTo
<1>6. CASE s = t
  <2>1. c <= k
    BY <1>2, <1>6, NotCutByCall
  <2>2. \A n \in 1..c : TL[s][n] = Y[n]
    BY <1>3, <1>6, <2>1
  <2> QED BY <1>3, <1>4, <1>6, <2>1, <2>2 DEF AgreeUpTo
<1> QED BY <1>4, <1>5, <1>6

\* What AppendEntries assigns, peer by peer.
LEMMA AcceptedAssigns ==
    ASSUME TypeInv, NEW j \in Server, NEW m \in aeReqs, AppendEntries(j, m),
           AppendAccepted(j, m), NEW Y, logs' = [logs EXCEPT ![j] = Y]
    PROVE  /\ role'[j] = "Follower" /\ currentTerm'[j] = m.term /\ currentTerm[j] <= m.term
           /\ logs'[j] = Y /\ disk'[j].logs = Y /\ disk'[j].commitIndex = commitIndex'[j]
           /\ commitIndex'[j] = IF commitIndex[j] < m.leaderCommit THEN m.leaderCommit
                                                                   ELSE commitIndex[j]
           /\ \A s \in Server \ {j} :
                /\ role'[s] = role[s] /\ currentTerm'[s] = currentTerm[s]
                /\ logs'[s] = logs[s] /\ disk'[s] = disk[s] /\ commitIndex'[s] = commitIndex[s]
           /\ UNCHANGED <<voteReqs, voteReplies, aeReqs, matchIndex, applied, batch, svc>>
<1>1. /\ role \in [Server -> Role] /\ currentTerm \in [Server -> Nat]
      /\ logs \in [Server -> Seq(Entry)] /\ commitIndex \in [Server -> Nat]
      /\ DOMAIN disk = Server /\ m.term \in Nat
  BY DEF TypeInv, TypeOK, RoleTypes, LogTypes, NetTypes, AppendRequest
<1>2. /\ Follow(j, m.term) /\ Persist(j) /\ m.term >= currentTerm[j]
      /\ commitIndex' = [commitIndex EXCEPT ![j] =
                          IF @ < m.leaderCommit THEN m.leaderCommit ELSE @]
  BY DEF AppendAccepted
<1>3. /\ role'[j] = "Follower" /\ currentTerm'[j] = m.term /\ currentTerm[j] <= m.term
      /\ logs'[j] = Y
      /\ commitIndex'[j] = IF commitIndex[j] < m.leaderCommit THEN m.leaderCommit
                                                              ELSE commitIndex[j]
  BY <1>1, <1>2 DEF Follow
<1>4. disk'[j].logs = Y /\ disk'[j].commitIndex = commitIndex'[j]
  BY <1>1, <1>2, <1>3 DEF Persist, PersistWith
<1>5. \A s \in Server \ {j} :
        /\ role'[s] = role[s] /\ currentTerm'[s] = currentTerm[s]
        /\ logs'[s] = logs[s] /\ commitIndex'[s] = commitIndex[s]
  BY <1>1, <1>2 DEF Follow
<1>6. \A s \in Server \ {j} : disk'[s] = disk[s]
  BY <1>1, <1>2 DEF Persist, PersistWith
<1>7. UNCHANGED <<voteReqs, voteReplies, aeReqs, matchIndex, applied, batch, svc>>
  BY DEF AppendEntries, leaderVars, serviceVars, voteNet
<1> QED BY <1>3, <1>4, <1>5, <1>6, <1>7

\* The logs and the acknowledgements after the step.
LEMMA AcceptedCore ==
    ASSUME StepFacts, NothingInstalled, NEW TL \in TermLogSet, NEW D \in SUBSET Nat,
           NEW A \in AckSet, History(TL, D, A), NEW j \in Server, NEW m \in aeReqs,
           AppendEntries(j, m), AppendAccepted(j, m), NEW t \in Nat, t = m.term,
           NEW Y \in Seq(Entry), logs' = [logs EXCEPT ![j] = Y],
           Len(Y) = EndOf(m), AgreeUpTo(Y, TL[t], EndOf(m)),
           NEW wider \in AckSet, AcksAdded(A, wider, j, t, EndOf(m)), AcksGrow(A, wider)
    PROVE  Core(TL, D, wider)'
<1>1. /\ currentTerm'[j] = t /\ currentTerm[j] <= t /\ logs'[j] = Y /\ disk'[j].logs = Y
      /\ role'[j] = "Follower" /\ aeReqs' = aeReqs /\ voteReplies' = voteReplies
      /\ \A s \in Server \ {j} :
           /\ role'[s] = role[s] /\ currentTerm'[s] = currentTerm[s]
           /\ logs'[s] = logs[s] /\ disk'[s] = disk[s]
  BY AcceptedAssigns DEF StepFacts
<1>2. TermLogs(TL) /\ Core(TL, D, A) /\ m \in AppendRequest
  BY DEF History, StepFacts, TypeInv, TypeOK, NetTypes
<1>3. PICK k \in Nat : k = EndOf(m)
  BY <1>2, EndOfType
<1>4. /\ Len(Y) = k /\ AgreeUpTo(Y, TL[t], k) /\ Len(TL[t]) \in Nat /\ k <= Len(TL[t])
      /\ \A n \in 1..k : Y[n] = TL[t][n]
  BY <1>3, TermLogType DEF AgreeUpTo
<1>5. AcksHeld(A, TL, wider)
  <2> SUFFICES ASSUME NEW q \in Server, NEW u \in Nat, NEW e \in Nat, Acked(wider, q, u, e),
                      ~Acked(A, q, u, e)
               PROVE  e \in 1..Len(TL[u]) /\ HeldBy(TL, q, u, e)'
    BY DEF AcksHeld
  <2>1. q = j /\ u = t /\ e \in 1..k
    BY <1>3 DEF AcksAdded
  <2>2. e \in 1..Len(TL[u]) /\ AgreeUpTo(TL[u], Y, e)
    BY <1>4, <2>1 DEF AgreeUpTo
  <2> QED BY <1>1, <2>1, <2>2 DEF HeldBy
<1>6. ASSUME NEW s \in Server PROVE Reaches(logs'[s], currentTerm'[s])
  <2>1. CASE s = j
    <3> SUFFICES ASSUME NEW n \in 1..k PROVE Y[n].term <= t
      BY <1>1, <1>4, <2>1 DEF Reaches
    <3>1. n \in 1..Len(TL[t]) /\ Sorted(TL[t], t)
      BY <1>2, <1>4 DEF Core, TermsSorted
    <3> QED BY <1>4, <3>1 DEF Sorted
  <2>2. CASE s # j
    BY <1>1, <1>2, <2>2 DEF Core, TermsReached
  <2> QED BY <2>1, <2>2
<1>7. \A s \in Server : disk'[s].logs \in {disk[s].logs, logs'[s]}
  BY <1>1
<1>8. ASSUME NEW q \in Server, NEW u \in Nat, NEW e \in Nat,
             Own(TL, u, e), Acked(A, q, u, e), HeldBy(TL, q, u, e), ~Lost(A, u, e)
      PROVE  AgreeUpTo(TL[u], logs'[q], e)
  <2>1. AgreeUpTo(TL[u], logs[q], e)
    BY <1>8 DEF HeldBy
  <2>2. CASE q = j
    <3>1. u <= currentTerm[j]
      BY <1>2, <1>8, <2>2, TermsRise DEF Core, AcksStand
    <3>2. ~OutOfArgs(j, m) /\ e <= e
      BY DEF AppendAccepted
    <3>3. AgreeUpTo(TL[u], Y, e)
      BY <1>1, <1>2, <1>8, <2>1, <2>2, <3>1, <3>2, AcceptedKeeps
    <3> QED BY <1>1, <2>2, <3>3
  <2>3. CASE q # j
    BY <1>1, <2>1, <2>3
  <2> QED BY <2>2, <2>3
<1>9. \A s \in Server : role'[s] = "Leader" =>
        role[s] = "Leader" /\ currentTerm'[s] = currentTerm[s]
  BY <1>1
<1>10. \A r \in voteReplies' \ voteReplies : r.granted =>
         r.request.term \in D \/ Compared(TL, A, r)
  BY <1>1
<1> QED BY <1>1, <1>2, <1>5, <1>6, <1>7, <1>8, <1>9, <1>10, FollowerCore

\* The commit indexes after the step: the peer's own, or the leader's.
LEMMA AcceptedCommits ==
    ASSUME StepFacts, NothingInstalled, NEW TL \in TermLogSet, NEW D \in SUBSET Nat,
           NEW A \in AckSet, History(TL, D, A), NEW j \in Server, NEW m \in aeReqs,
           AppendEntries(j, m), AppendAccepted(j, m), NEW t \in Nat, t = m.term,
           NEW Y \in Seq(Entry), logs' = [logs EXCEPT ![j] = Y],
           Len(Y) = EndOf(m), AgreeUpTo(Y, TL[t], EndOf(m)),
           NEW wider \in AckSet, AcksGrow(A, wider)
    PROVE  CommitsChosen(TL, wider)'
<1>1. /\ currentTerm'[j] = t /\ currentTerm[j] <= t /\ logs'[j] = Y /\ disk'[j].logs = Y
      /\ disk'[j].commitIndex = commitIndex'[j]
      /\ \A s \in Server \ {j} :
           /\ currentTerm'[s] = currentTerm[s] /\ logs'[s] = logs[s] /\ disk'[s] = disk[s]
           /\ commitIndex'[s] = commitIndex[s]
  BY AcceptedAssigns DEF StepFacts
<1>2. /\ TermLogs(TL) /\ Core(TL, D, A) /\ CommitsChosen(TL, A) /\ CallsCommit(TL, A)
      /\ Extends(TL, TL) /\ m \in AppendRequest
  BY ExtendsItself DEF History, StepFacts, TypeInv, TypeOK, NetTypes, TermLogSet
<1>3. PICK k \in Nat : k = EndOf(m)
  BY <1>2, EndOfType
<1>4. ASSUME NEW s \in Server, s # j
      PROVE  /\ disk'[s].commitIndex = commitIndex'[s]
             /\ Committed(TL, wider, logs'[s], commitIndex'[s], currentTerm'[s])
             /\ Committed(TL, wider, disk'[s].logs, commitIndex'[s], currentTerm'[s])
  <2>1. commitIndex[s] \in Nat /\ currentTerm[s] \in Nat
    BY TermsRise DEF StepFacts, TypeInv, TypeOK, LogTypes
  <2>2. /\ Committed(TL, wider, logs[s], commitIndex[s], currentTerm[s])
        /\ Committed(TL, wider, disk[s].logs, commitIndex[s], currentTerm[s])
    BY <1>2, <2>1, CommittedStand DEF CommitsChosen
  <2> QED BY <1>1, <1>2, <1>4, <2>2 DEF CommitsChosen
<1>5. Committed(TL, A, Y, commitIndex[j], t)
  <2>1. PICK c \in Nat : c = commitIndex[j]
    BY DEF StepFacts, TypeInv, TypeOK, LogTypes
  <2>2. Committed(TL, A, logs[j], c, currentTerm[j])
    BY <1>2, <2>1 DEF CommitsChosen
  <2>3. CASE c = 0
    BY <2>1, <2>3 DEF Committed
  <2>4. CASE c # 0
    <3>1. PICK s \in Nat, e \in Nat :
            s <= currentTerm[j] /\ c <= e /\ Chosen(TL, A, s, e) /\ AgreeUpTo(TL[s], logs[j], c)
      BY <2>2, <2>4 DEF Committed
    <3>2. Own(TL, s, e) /\ ~Lost(A, s, e)
      BY <3>1, ChosenNotLost DEF Chosen
    <3>3. ~OutOfArgs(j, m)
      BY DEF AppendAccepted
    <3>4. AgreeUpTo(TL[s], Y, c)
      BY <1>1, <1>2, <3>1, <3>2, <3>3, AcceptedKeeps
    <3>5. s <= t
      BY <1>1, <3>1, TermsRise
    <3> QED BY <2>1, <3>1, <3>4, <3>5 DEF Committed
  <2> QED BY <2>3, <2>4
<1>6. Committed(TL, A, Y, m.leaderCommit, t)
  <2>1. PICK c \in Nat : c = m.leaderCommit
    BY <1>2 DEF AppendRequest
  <2>2. c <= k /\ Committed(TL, A, TL[t], c, t)
    BY <1>2, <1>3, <2>1 DEF CallsCommit, CallCommits
  <2>3. CASE c = 0
    BY <2>1, <2>3 DEF Committed
  <2>4. CASE c # 0
    <3>1. PICK s \in Nat, e \in Nat :
            s <= t /\ c <= e /\ Chosen(TL, A, s, e) /\ AgreeUpTo(TL[s], TL[t], c)
      BY <2>2, <2>4 DEF Committed
    <3>2. AgreeUpTo(TL[s], Y, c)
      BY <1>3, <2>2, <3>1 DEF AgreeUpTo
    <3> QED BY <2>1, <3>1, <3>2 DEF Committed
  <2> QED BY <2>3, <2>4
<1>7. Committed(TL, wider, Y, commitIndex'[j], t)
  <2>1. commitIndex'[j] \in Nat
    BY DEF StepFacts, TypeInv, TypeOK, LogTypes
  <2>2. commitIndex'[j] = m.leaderCommit \/ commitIndex'[j] = commitIndex[j]
    BY AcceptedAssigns DEF StepFacts
  <2>3. Committed(TL, A, Y, commitIndex'[j], t)
    BY <1>5, <1>6, <2>2
  <2> QED BY <1>2, <2>1, <2>3, CommittedStand
<1>8. ASSUME NEW s \in Server
      PROVE  /\ disk'[s].commitIndex = commitIndex'[s]
             /\ Committed(TL, wider, logs'[s], commitIndex'[s], currentTerm'[s])
             /\ Committed(TL, wider, disk'[s].logs, commitIndex'[s], currentTerm'[s])
  <2>1. CASE s = j
    BY <1>1, <1>7, <2>1
  <2>2. CASE s # j
    BY <1>4, <2>2
  <2> QED BY <2>1, <2>2
<1> QED BY <1>8 DEF CommitsChosen

LEMMA AcceptedHistory ==
    ASSUME StepFacts, NothingInstalled, NEW TL \in TermLogSet, NEW D \in SUBSET Nat,
           NEW A \in AckSet, History(TL, D, A), NEW j \in Server, NEW m \in aeReqs,
           AppendEntries(j, m), AppendAccepted(j, m)
    PROVE  \E wider \in AckSet : AcksGrow(A, wider) /\ History(TL, D, wider)'
<1>1. /\ TermLogs(TL) /\ Core(TL, D, A) /\ CommitsChosen(TL, A) /\ CallsCommit(TL, A)
      /\ RequestsStand /\ RepliesTrue(A) /\ MatchTrue(TL, A) /\ AppliedChosen(TL, A)
      /\ Extends(TL, TL) /\ m \in AppendRequest
  BY ExtendsItself DEF History, StepFacts, TypeInv, TypeOK, NetTypes, TermLogSet
<1>2. PICK t \in Nat : t = m.term
  BY <1>1, EndOfType
<1>3. EndOf(m) \in Nat
  BY <1>1, EndOfType
<1>4. PICK Y \in Seq(Entry) : /\ logs' = [logs EXCEPT ![j] = Y] /\ Len(Y) = EndOf(m)
                               /\ AgreeUpTo(Y, TL[t], EndOf(m))
  BY <1>1, <1>2, AcceptedLog
<1>5. /\ currentTerm'[j] = t /\ role'[j] = "Follower"
      /\ \A s \in Server \ {j} :
           /\ role'[s] = role[s] /\ currentTerm'[s] = currentTerm[s]
           /\ logs'[s] = logs[s] /\ disk'[s] = disk[s] /\ commitIndex'[s] = commitIndex[s]
      /\ UNCHANGED <<voteReqs, voteReplies, aeReqs, matchIndex, applied, batch, svc>>
      /\ commitIndex'[j] = IF commitIndex[j] < m.leaderCommit THEN m.leaderCommit
                                                              ELSE commitIndex[j]
  BY <1>2, <1>4, AcceptedAssigns DEF StepFacts
<1>6. PICK wider \in AckSet : AcksAdded(A, wider, j, t, EndOf(m))
  BY <1>3, AddAcks
<1>7. AcksGrow(A, wider)
  BY <1>5, <1>6, AddedAcksGrow
<1>8. TermLogs(TL)'
  BY <1>1, AppendEntriesTermLogs DEF StepFacts, TermLogSet
<1>9. Core(TL, D, wider)'
  BY <1>2, <1>4, <1>6, <1>7, AcceptedCore
<1>10. CommitsChosen(TL, wider)'
  BY <1>2, <1>4, <1>7, AcceptedCommits
<1>11. RequestsStand'
  <2>1. CandidatesStand
    BY <1>5 DEF CandidatesStand
  <2> QED BY <1>1, <1>5, <2>1, RequestsStay
<1>12. RepliesTrue(wider)'
  <2>1. PICK term, next :
          AnswerAppend(j, m, term, TRUE, next) /\ next = m.prevLogIndex + Len(m.entries) + 1
    BY DEF AppendAccepted
  <2>2. AckedUpTo(wider, j, m.term, EndOf(m))
    BY <1>2, <1>3, <1>6 DEF AckedUpTo, AcksAdded
  <2> QED BY <1>1, <1>5, <1>7, <2>1, <2>2, AnswerAppendReplies DEF EndOf
<1>13. MatchTrue(TL, wider)'
  <2>1. ASSUME NEW s \in Server, role'[s] = "Leader"
        PROVE  /\ role[s] = "Leader" /\ currentTerm'[s] = currentTerm[s]
               /\ Len(logs[s]) <= Len(logs'[s])
               /\ \A p \in Server \ {s} : matchIndex'[s][p] = matchIndex[s][p]
    <3>1. s # j /\ logs[s] \in Seq(Entry)
      BY <1>5, <2>1 DEF StepFacts, TypeInv, TypeOK, LogTypes
    <3>2. Len(logs[s]) <= Len(logs'[s])
      BY <1>5, <3>1
    <3> QED BY <1>5, <2>1, <3>1, <3>2
  <2> QED BY <1>1, <1>7, <2>1, MatchStays
<1>14. CallsCommit(TL, wider)'
  BY <1>1, <1>5, <1>7, CallsCommitStay
<1>15. AppliedChosen(TL, wider)'
  <2>1. ASSUME NEW s \in Server PROVE commitIndex'[s] >= commitIndex[s]
    <3>1. commitIndex[s] \in Nat /\ commitIndex[j] \in Nat /\ m.leaderCommit \in Nat
      BY <1>1 DEF StepFacts, TypeInv, TypeOK, LogTypes, AppendRequest
    <3> QED BY <1>5, <3>1
  <2>2. applied' = applied /\ batch' = batch /\ svc' = svc
    BY <1>5
  <2> QED BY <1>1, <1>7, <2>1, <2>2, AppliedStays
<1>16. History(TL, D, wider)'
  BY <1>8, <1>9, <1>10, <1>11, <1>12, <1>13, <1>14, <1>15 DEF History
<1> QED BY <1>7, <1>16

-----------------------------------------------------------------------------
(* The leader learns that a peer holds what was sent *)

LEMMA TwoMajority ==
    ASSUME TwoAreMajority, NEW i \in Server, NEW p \in Server, i # p
    PROVE  IsMajority({i, p})
<1>1. Cardinality({i}) = 1 /\ IsFiniteSet({i})
  BY FS_Singleton
<1>2. Cardinality({i} \cup {p}) = 2
  BY <1>1, FS_AddElement
<1>3. {i} \cup {p} = {i, p}
  OBVIOUS
<1>4. Cardinality(Server) \in Nat
  BY ServerAssumption, FS_CardinalityType
<1> QED BY <1>2, <1>3, <1>4 DEF IsMajority, TwoAreMajority

LEMMA OtherInMajority ==
    ASSUME NEW i \in Server, NEW j \in Server, i # j, NEW Q \in SUBSET Server, IsMajority(Q)
    PROVE  \E p \in Q : p # i
<1> SUFFICES ASSUME Q \subseteq {i} PROVE FALSE
  OBVIOUS
<1>1. /\ Cardinality({i}) = 1 /\ IsFiniteSet({i})
      /\ Cardinality(Server) \in Nat /\ Cardinality({i, j}) = 2
  <2>1. Cardinality({i}) = 1 /\ IsFiniteSet({i})
    BY FS_Singleton
  <2>2. Cardinality({i} \cup {j}) = 2
    BY <2>1, FS_AddElement
  <2>3. {i} \cup {j} = {i, j}
    OBVIOUS
  <2> QED BY <2>1, <2>2, <2>3, ServerAssumption, FS_CardinalityType
<1>2. Cardinality(Q) \in Nat /\ Cardinality(Q) <= 1
  BY <1>1, FS_Subset, FS_CardinalityType
<1>3. 2 <= Cardinality(Server)
  <2>1. {i, j} \subseteq Server
    OBVIOUS
  <2> QED BY <1>1, <2>1, ServerAssumption, FS_Subset
<1> QED BY <1>1, <1>2, <1>3 DEF IsMajority

\* What is left of a reply that was torn is still true.
LEMMA ReplyFacts ==
    ASSUME StepFacts, NEW A, RepliesTrue(A), NEW i \in Server, NEW j \in Server,
           aeCall[i][j].open, NEW reply \in aeCall[i][j].replies, NEW r \in Observed(reply),
           r.success
    PROVE  \E m \in aeReqs :
             /\ m = aeCall[i][j].args /\ i # j
             /\ r.nextLogIndex \in {0, EndOf(m) + 1}
             /\ AckedUpTo(A, j, m.term, EndOf(m))
<1>1. PICK m : m = aeCall[i][j].args
  OBVIOUS
<1>2. m \in aeReqs /\ i # j /\ TrueReply(A, j, m, reply)
  BY <1>1 DEF RepliesTrue, TrueCall
<1>3. reply.success /\ r.nextLogIndex \in {0, reply.nextLogIndex}
  <2>1. CASE TornReplies
    <3>1. r \in [term : {0, reply.term}, success : {FALSE, reply.success},
                 nextLogIndex : {0, reply.nextLogIndex}]
      BY <2>1 DEF Observed
    <3>2. r.success \in {FALSE, reply.success} /\ r.nextLogIndex \in {0, reply.nextLogIndex}
      BY <3>1
    <3> QED BY <3>2
  <2>2. CASE ~TornReplies
    BY <2>2 DEF Observed
  <2> QED BY <2>1, <2>2
<1> QED BY <1>1, <1>2, <1>3 DEF TrueReply

\* The reply raises matchIndex for the peer at most, to the end of the call.
Matched(i, j, k, match) ==
    /\ match \in [Server -> Nat]
    /\ \A p \in Server : match[p] = matchIndex[i][p] \/ (p = j /\ match[p] = k)

\* And the commit index to what a majority of matchIndex has.
Commits(i, args, match) ==
    \/ commitIndex' = commitIndex
    \/ /\ EndsInOwnTerm(i, args)
       /\ \E n \in commitIndex[i]..LastLogIndex(i) :
            Committable(i, match, n) /\ commitIndex' = [commitIndex EXCEPT ![i] = n]

\* What AppendAcknowledged assigns.
LEMMA AcknowledgedAssigns ==
    ASSUME TypeInv, NEW i \in Server, NEW j \in Server, NEW k \in Nat,
           NEW r, r.nextLogIndex \in {0, k + 1}, AppendAcknowledged(i, j, r)
    PROVE  \E match :
             /\ matchIndex' = [matchIndex EXCEPT ![i] = match]
             /\ Matched(i, j, k, match) /\ Commits(i, aeCall[i][j].args, match)
<1>1. matchIndex[i] \in [Server -> Nat] /\ nextIndex[i][j] \in Nat
  BY DEF TypeInv, TypeOK, LeaderTypes
<1>2. CASE r.nextLogIndex > nextIndex[i][j]
  <2>1. PICK match : match = [matchIndex[i] EXCEPT ![j] = r.nextLogIndex - 1]
    OBVIOUS
  <2>2. r.nextLogIndex - 1 = k
    BY <1>1, <1>2
  <2>3. Matched(i, j, k, match)
    BY <1>1, <2>1, <2>2 DEF Matched
  <2>4. matchIndex' = [matchIndex EXCEPT ![i] = match]
    BY <1>2, <2>1 DEF AppendAcknowledged
  <2>5. Commits(i, aeCall[i][j].args, match)
    BY <1>2, <2>1 DEF AppendAcknowledged, Commits
  <2> QED BY <2>3, <2>4, <2>5
<1>3. CASE ~(r.nextLogIndex > nextIndex[i][j])
  <2>1. PICK match : match = matchIndex[i]
    OBVIOUS
  <2>2. Matched(i, j, k, match)
    BY <1>1, <2>1 DEF Matched
  <2>3. matchIndex' = [matchIndex EXCEPT ![i] = match]
    BY <1>3, <2>1 DEF AppendAcknowledged
  <2>4. Commits(i, aeCall[i][j].args, match)
    BY <1>3, <2>1 DEF AppendAcknowledged, Commits
  <2> QED BY <2>2, <2>3, <2>4
<1> QED BY <1>2, <1>3

\* An index that tryCommitLog reaches is committed.  The call ended in an entry of the
\* leader's own term, which the leader and the peer both hold; what a majority's matchIndex
\* reaches beyond it is of this term as well, and some other peer holds it.
LEMMA AcknowledgedCommitted ==
    ASSUME TwoAreMajority, NEW TL \in TermLogSet, NEW A, MatchTrue(TL, A),
           NEW i \in Server, NEW j \in Server, i # j, role[i] = "Leader",
           NEW t \in Nat, currentTerm[i] = t, NEW X \in Seq(Entry), X = logs[i], X = TL[t],
           NEW m \in AppendRequest, m.term = t, CallReaches(TL[t], m), Segment(TL[t], m),
           EndsInOwnTerm(i, m), NEW k \in Nat, k = EndOf(m), AckedUpTo(A, j, t, k),
           NEW wider, AcksAdded(A, wider, i, t, Len(X)),
           NEW match, Matched(i, j, k, match), matchIndex \in [Server -> [Server -> Nat]],
           NEW n \in Nat, n <= Len(X),
           NEW Q \in SUBSET Server, IsMajority(Q), \A p \in Q : match[p] >= n
    PROVE  Committed(TL, wider, X, n, t)
<1>1. Len(X) \in Nat /\ m.prevLogIndex \in Nat /\ Len(m.entries) \in Nat
  BY EndOfType
<1>2. k \in 1..Len(X) /\ X[k].term = t
  <2>1. m.entries # <<>> /\ m.entries[Len(m.entries)].term = t
    BY DEF EndsInOwnTerm
  <2>2. Len(m.entries) \in 1..Len(m.entries)
    <3>1. m.entries \in Seq(Entry)
      BY DEF AppendRequest
    <3> QED BY <1>1, <2>1, <3>1
  <2>3. /\ m.prevLogIndex + Len(m.entries) <= Len(X)
        /\ \A a \in 1..Len(m.entries) : m.entries[a] = X[m.prevLogIndex + a]
    BY DEF Segment
  <2>4. m.entries[Len(m.entries)] = X[k]
    BY <2>2, <2>3 DEF EndOf
  <2>5. k \in 1..Len(X)
    BY <1>1, <2>2, <2>3 DEF EndOf
  <2> QED BY <2>1, <2>4, <2>5
<1>3. Own(TL, t, k)
  BY <1>2 DEF Own
<1>4. ASSUME NEW e \in 1..Len(X), NEW p \in Server, p # i, n <= e,
             Own(TL, t, e), Acked(A, p, t, e)
      PROVE  Committed(TL, wider, X, n, t)
  <2>1. Acked(wider, p, t, e) /\ Acked(wider, i, t, e)
    BY <1>4 DEF AcksAdded
  <2>2. Chosen(TL, wider, t, e)
    <3>1. IsMajority({i, p}) /\ {i, p} \in SUBSET Server
      BY <1>4, TwoMajority
    <3> QED BY <1>4, <2>1, <3>1 DEF Chosen
  <2>3. AgreeUpTo(TL[t], X, n) /\ e \in Nat
    BY <1>1 DEF AgreeUpTo
  <2> QED BY <1>4, <2>2, <2>3 DEF Committed
<1>5. CASE n <= k
  <2>1. k \in 1..k /\ Acked(A, j, t, k)
    BY <1>2 DEF AckedUpTo
  <2> QED BY <1>2, <1>3, <1>4, <1>5, <2>1
<1>6. CASE n > k
  <2>1. n \in 1..Len(X) /\ n > EndOf(m)
    BY <1>1, <1>2, <1>6
  <2>2. Own(TL, t, n)
    BY <2>1 DEF Own, CallReaches
  <2>3. PICK p \in Q : p # i
    BY OtherInMajority
  <2>4. p \in Server /\ match[p] \in Nat /\ matchIndex[i][p] \in Nat /\ match[p] >= n
    BY DEF Matched
  <2>5. match[p] = matchIndex[i][p]
    BY <1>6, <2>4 DEF Matched
  <2>6. n \in 1..matchIndex[i][p]
    BY <2>1, <2>4, <2>5
  <2>7. Acked(A, p, t, n)
    BY <2>2, <2>3, <2>4, <2>6 DEF MatchTrue
  <2> QED BY <1>4, <2>1, <2>2, <2>3, <2>4, <2>7
<1> QED BY <1>5, <1>6

\* What the leader takes for matched after the reply.
LEMMA AcknowledgedMatch ==
    ASSUME StepFacts, NEW TL \in TermLogSet, TermLogs(TL), NEW A, MatchTrue(TL, A),
           NEW wider, AcksGrow(A, wider), NEW i \in Server, NEW j \in Server,
           NEW t \in Nat, currentTerm[i] = t, NEW m \in aeReqs, m.term = t,
           NEW k \in Nat, k = EndOf(m), AckedUpTo(A, j, t, k),
           UNCHANGED <<role, currentTerm, logs>>,
           NEW match, matchIndex' = [matchIndex EXCEPT ![i] = match], Matched(i, j, k, match)
    PROVE  MatchTrue(TL, wider)'
<1> SUFFICES ASSUME NEW s \in Server, NEW p \in Server, role[s] = "Leader", s # p
             PROVE  /\ matchIndex'[s][p] <= Len(logs[s])
                    /\ \A e \in 1..matchIndex'[s][p] :
                         Own(TL, currentTerm[s], e) => Acked(wider, p, currentTerm[s], e)
  BY DEF MatchTrue
<1>1. matchIndex \in [Server -> [Server -> Nat]] /\ currentTerm[s] \in Nat
  BY TermsRise DEF StepFacts, TypeInv, TypeOK, LeaderTypes
<1>2. CASE matchIndex'[s][p] = matchIndex[s][p]
  <2>1. matchIndex[s][p] \in Nat /\ matchIndex[s][p] <= Len(logs[s])
    BY <1>1 DEF MatchTrue
  <2>2. ASSUME NEW e \in 1..matchIndex[s][p], Own(TL, currentTerm[s], e)
        PROVE  Acked(wider, p, currentTerm[s], e)
    <3>1. Acked(A, p, currentTerm[s], e)
      BY <2>2 DEF MatchTrue
    <3> QED BY <1>1, <3>1 DEF AcksGrow
  <2> QED BY <1>2, <2>1, <2>2
<1>3. CASE matchIndex'[s][p] # matchIndex[s][p]
  <2>1. s = i /\ p = j /\ matchIndex'[s][p] = k
    BY <1>1, <1>3 DEF Matched
  <2>2. logs[s] = TL[t]
    BY <2>1 DEF TermLogs, LeadersHoldTerms
  <2>3. k <= Len(TL[t])
    BY DEF TermLogs, CallsAreSegments, Segment, EndOf
  <2>4. ASSUME NEW e \in 1..k PROVE Acked(wider, j, t, e)
    <3>1. Acked(A, j, t, e) /\ e \in Nat
      BY DEF AckedUpTo
    <3> QED BY <3>1 DEF AcksGrow
  <2> QED BY <2>1, <2>2, <2>3, <2>4
<1> QED BY <1>2, <1>3

LEMMA AcknowledgedCommits ==
    ASSUME StepFacts, TwoAreMajority, NEW TL \in TermLogSet, NEW D, NEW A,
           TermLogs(TL), Core(TL, D, A), MatchTrue(TL, A), CommitsChosen(TL, A),
           NEW i \in Server, NEW j \in Server, i # j, role[i] = "Leader",
           NEW t \in Nat, currentTerm[i] = t, NEW m \in aeReqs, m.term = t,
           NEW k \in Nat, k = EndOf(m), AckedUpTo(A, j, t, k),
           NEW X \in Seq(Entry), X = logs[i],
           NEW wider, AcksGrow(A, wider), AcksAdded(A, wider, i, t, Len(X)),
           UNCHANGED <<currentTerm, logs>>, Persist(i),
           NEW match, Matched(i, j, k, match), Commits(i, m, match)
    PROVE  CommitsChosen(TL, wider)' /\ \A s \in Server : commitIndex'[s] >= commitIndex[s]
<1>1. /\ commitIndex \in [Server -> Nat] /\ logs \in [Server -> Seq(Entry)]
      /\ currentTerm \in [Server -> Nat] /\ DOMAIN disk = Server
      /\ matchIndex \in [Server -> [Server -> Nat]] /\ m \in AppendRequest
  BY DEF StepFacts, TypeInv, TypeOK, RoleTypes, LogTypes, LeaderTypes, NetTypes
<1>2. Extends(TL, TL) /\ Len(X) \in Nat /\ LastLogIndex(i) = Len(X)
  <2>1. lastSnapshotIndex[i] = 0
    BY DEF StepFacts, Uncompacted
  <2>2. Len(X) \in Nat /\ LastLogIndex(i) = Len(X)
    BY <2>1 DEF LastLogIndex
  <2> QED BY <2>2, ExtendsItself DEF TermLogSet
<1>3. /\ disk'[i].logs = logs[i] /\ disk'[i].commitIndex = commitIndex'[i]
      /\ \A s \in Server \ {i} : disk'[s] = disk[s]
  BY <1>1 DEF Persist, PersistWith
<1>4. /\ commitIndex'[i] \in Nat /\ commitIndex'[i] >= commitIndex[i]
      /\ \A s \in Server \ {i} : commitIndex'[s] = commitIndex[s]
  <2>1. CASE commitIndex' = commitIndex
    BY <1>1, <2>1
  <2>2. ASSUME NEW n \in commitIndex[i]..LastLogIndex(i),
               commitIndex' = [commitIndex EXCEPT ![i] = n]
        PROVE  /\ commitIndex'[i] \in Nat /\ commitIndex'[i] >= commitIndex[i]
               /\ \A s \in Server \ {i} : commitIndex'[s] = commitIndex[s]
    BY <1>1, <1>2, <2>2
  <2> QED BY <2>1, <2>2 DEF Commits
<1>5. ASSUME NEW s \in Server
      PROVE  /\ Committed(TL, wider, logs[s], commitIndex[s], currentTerm[s])
             /\ Committed(TL, wider, disk[s].logs, commitIndex[s], currentTerm[s])
  <2>1. commitIndex[s] \in Nat /\ currentTerm[s] \in Nat /\ currentTerm[s] <= currentTerm[s]
    BY <1>1
  <2>2. /\ Committed(TL, A, logs[s], commitIndex[s], currentTerm[s])
        /\ Committed(TL, A, disk[s].logs, commitIndex[s], currentTerm[s])
    BY DEF CommitsChosen
  <2> QED BY <1>2, <2>1, <2>2, CommittedStand
<1>6. Committed(TL, wider, X, commitIndex'[i], t)
  <2>1. CASE commitIndex'[i] = commitIndex[i]
    BY <1>5, <2>1
  <2>2. CASE commitIndex'[i] # commitIndex[i]
    <3>1. EndsInOwnTerm(i, m)
      BY <2>2 DEF Commits
    <3>2. PICK n \in commitIndex[i]..LastLogIndex(i) :
            Committable(i, match, n) /\ commitIndex' = [commitIndex EXCEPT ![i] = n]
      BY <2>2 DEF Commits
    <3>3. /\ n \in Nat /\ n <= Len(X) /\ commitIndex'[i] = n
          /\ n \in (commitIndex[i] + 1)..n
      BY <1>1, <1>2, <2>2, <3>2
    <3>4. PICK Q \in SUBSET Server : Q = {p \in Server : match[p] >= n}
      OBVIOUS
    <3>5. IsMajority(Q)
      BY <3>2, <3>3, <3>4 DEF Committable
    <3>6. \A p \in Q : match[p] >= n
      BY <3>4
    <3>7. X = TL[t]
      BY DEF TermLogs, LeadersHoldTerms
    <3>8. CallReaches(TL[t], m) /\ Segment(TL[t], m)
      BY DEF Core, CallsReach, TermLogs, CallsAreSegments
    <3>9. Committed(TL, wider, X, n, t)
      BY <1>1, <3>1, <3>3, <3>5, <3>6, <3>7, <3>8, AcknowledgedCommitted
    <3> QED BY <3>3, <3>9
  <2> QED BY <2>1, <2>2
<1>7. ASSUME NEW s \in Server
      PROVE  /\ disk'[s].commitIndex = commitIndex'[s]
             /\ Committed(TL, wider, logs'[s], commitIndex'[s], currentTerm'[s])
             /\ Committed(TL, wider, disk'[s].logs, commitIndex'[s], currentTerm'[s])
  <2>1. CASE s = i
    BY <1>3, <1>6, <2>1
  <2>2. CASE s # i
    BY <1>3, <1>4, <1>5, <2>2 DEF CommitsChosen
  <2> QED BY <2>1, <2>2
<1>8. ASSUME NEW s \in Server PROVE commitIndex'[s] >= commitIndex[s]
  <2>1. commitIndex[s] \in Nat
    BY <1>1
  <2>2. CASE s = i
    BY <1>4, <2>2
  <2>3. CASE s # i
    BY <1>4, <2>1, <2>3
  <2> QED BY <2>2, <2>3
<1> QED BY <1>7, <1>8 DEF CommitsChosen

LEMMA AcknowledgedHistory ==
    ASSUME StepFacts, TwoAreMajority, NEW TL \in TermLogSet, NEW D \in SUBSET Nat,
           NEW A \in AckSet, History(TL, D, A), NEW i \in Server, NEW j \in Server,
           HandleAppendReply(i, j), NEW reply \in aeCall[i][j].replies,
           NEW r \in Observed(reply), AppendAcknowledged(i, j, r)
    PROVE  \E wider \in AckSet : AcksGrow(A, wider) /\ History(TL, D, wider)'
<1>1. /\ TermLogs(TL) /\ Core(TL, D, A) /\ CommitsChosen(TL, A) /\ CallsCommit(TL, A)
      /\ RequestsStand /\ RepliesTrue(A) /\ MatchTrue(TL, A) /\ AppliedChosen(TL, A)
      /\ Extends(TL, TL)
  BY ExtendsItself DEF History, TermLogSet
<1>2. /\ r.success /\ role[i] = "Leader" /\ currentTerm[i] = aeCall[i][j].args.term
      /\ UNCHANGED <<roleVars, logs>> /\ Persist(i)
  BY DEF AppendAcknowledged, StillLeads
<1>3. /\ aeCall[i][j].open /\ CloseCall(i, j)
      /\ UNCHANGED <<voteReqs, voteReplies, aeReqs, applied, batch, svc>>
  BY DEF HandleAppendReply, serviceVars, voteNet
<1>4. PICK m \in aeReqs :
        /\ m = aeCall[i][j].args /\ i # j /\ r.nextLogIndex \in {0, EndOf(m) + 1}
        /\ AckedUpTo(A, j, m.term, EndOf(m))
  BY <1>1, <1>2, <1>3, ReplyFacts
<1>5. PICK t \in Nat : t = currentTerm[i]
  BY TermsRise
<1>6. PICK k \in Nat : k = EndOf(m)
  <2>1. m \in AppendRequest
    BY DEF StepFacts, TypeInv, TypeOK, NetTypes
  <2> QED BY <2>1, EndOfType
<1>7. m.term = t /\ AckedUpTo(A, j, t, k) /\ r.nextLogIndex \in {0, k + 1}
  BY <1>2, <1>4, <1>5, <1>6
<1>8. PICK X \in Seq(Entry) : X = logs[i]
  BY DEF StepFacts, TypeInv, TypeOK, LogTypes
<1>9. Len(X) \in Nat /\ X = TL[t]
  BY <1>1, <1>2, <1>5, <1>8 DEF TermLogs, LeadersHoldTerms
<1>10. PICK wider \in AckSet : AcksAdded(A, wider, i, t, Len(X))
  BY <1>9, AddAcks
<1>11. role' = role /\ currentTerm' = currentTerm /\ logs' = logs
  BY <1>2 DEF roleVars
<1>12. AcksGrow(A, wider)
  BY <1>5, <1>10, <1>11, AddedAcksGrow
<1>13. PICK match :
         /\ matchIndex' = [matchIndex EXCEPT ![i] = match]
         /\ Matched(i, j, k, match) /\ Commits(i, m, match)
  BY <1>4, <1>7, AcknowledgedAssigns DEF StepFacts
<1>14. LogsStand
  BY RepliesKeepLogs DEF StepFacts
<1>15. TermLogs(TL)'
  BY <1>1, <1>14, LogsStandStep DEF StepFacts, TermLogSet
<1>16. Core(TL, D, wider)'
  <2>1. disk'[i].logs = logs[i]
    <3>1. DOMAIN disk = Server
      BY DEF StepFacts, TypeInv, TypeOK
    <3> QED BY <1>11, <3>1, <1>2 DEF Persist, PersistWith
  <2>2. AcksHeld(A, TL, wider)
    <3> SUFFICES ASSUME NEW q \in Server, NEW u \in Nat, NEW e \in Nat,
                        Acked(wider, q, u, e), ~Acked(A, q, u, e)
                 PROVE  e \in 1..Len(TL[u]) /\ HeldBy(TL, q, u, e)'
      BY DEF AcksHeld
    <3>1. q = i /\ u = t /\ e \in 1..Len(X)
      BY <1>10 DEF AcksAdded
    <3>2. AgreeUpTo(TL[u], X, e)
      BY <1>9, <3>1 DEF AgreeUpTo
    <3> QED BY <1>8, <1>9, <1>11, <2>1, <3>1, <3>2 DEF HeldBy
  <2>3. \A a \in voteReplies' \ voteReplies : a.granted =>
          a.request.term \in D \/ Compared(TL, A, a)
    BY <1>3
  <2> QED BY <1>1, <1>12, <1>14, <2>2, <2>3, QuietCore
<1>17. CommitsChosen(TL, wider)' /\ \A s \in Server : commitIndex'[s] >= commitIndex[s]
  BY <1>1, <1>2, <1>4, <1>5, <1>6, <1>7, <1>8, <1>10, <1>11, <1>12, <1>13, AcknowledgedCommits
<1>18. MatchTrue(TL, wider)'
  BY <1>1, <1>5, <1>6, <1>7, <1>11, <1>12, <1>13, AcknowledgedMatch
<1>19. RequestsStand'
  <2>1. CandidatesStand
    BY <1>11 DEF CandidatesStand
  <2> QED BY <1>1, <1>3, <2>1, RequestsStay
<1>20. RepliesTrue(wider)'
  <2>1. \A s, p \in Server : aeCall'[s][p].open => aeCall'[s][p] = aeCall[s][p]
    BY <1>3, CloseCallLeaves DEF StepFacts
  <2> QED BY <1>1, <1>3, <1>12, <2>1, RepliesStay
<1>21. CallsCommit(TL, wider)'
  BY <1>1, <1>3, <1>12, CallsCommitStay
<1>22. AppliedChosen(TL, wider)'
  <2>1. applied' = applied /\ batch' = batch /\ svc' = svc
    BY <1>3
  <2> QED BY <1>1, <1>12, <1>17, <2>1, AppliedStays
<1>23. History(TL, D, wider)'
  BY <1>15, <1>16, <1>17, <1>18, <1>19, <1>20, <1>21, <1>22 DEF History
<1> QED BY <1>12, <1>23

-----------------------------------------------------------------------------
(* A peer restarts *)

\* What a restart reads back, where no snapshot was saved.
LEMMA RestartAssigns ==
    ASSUME StepFacts, NothingInstalled, NEW TL, NEW A, CommitsChosen(TL, A),
           NEW i \in Server, Restart(i)
    PROVE  /\ role'[i] = "Follower" /\ logs'[i] = disk[i].logs
           /\ commitIndex' = commitIndex /\ disk' = disk /\ applied' = applied
           /\ batch'[i] = <<>> /\ svc'[i] = Idle
           /\ UNCHANGED <<voteReqs, voteReplies, aeReqs>>
           /\ \A j \in Server : ~aeCall'[i][j].open
           /\ \A s \in Server \ {i} :
                /\ role'[s] = role[s] /\ currentTerm'[s] = currentTerm[s]
                /\ logs'[s] = logs[s] /\ matchIndex'[s] = matchIndex[s]
                /\ aeCall'[s] = aeCall[s] /\ batch'[s] = batch[s] /\ svc'[s] = svc[s]
<1>1. /\ role \in [Server -> Role] /\ currentTerm \in [Server -> Nat]
      /\ logs \in [Server -> Seq(Entry)] /\ commitIndex \in [Server -> Nat]
  BY DEF StepFacts, TypeInv, TypeOK, RoleTypes, LogTypes
<1>2. /\ matchIndex \in [Server -> [Server -> Nat]] /\ aeCall \in [Server -> [Server -> Call]]
      /\ DOMAIN batch = Server /\ DOMAIN svc = Server /\ DOMAIN applied = Server
  BY DEF StepFacts, TypeInv, TypeOK, LeaderTypes, CallTypes, ServiceTypes
<1>3. /\ role' = [role EXCEPT ![i] = "Follower"] /\ ReadPersist(i)
      /\ matchIndex' = [matchIndex EXCEPT ![i] = [j \in Server |-> 0]]
      /\ aeCall' = [aeCall EXCEPT ![i] = [j \in Server |-> NoCall]]
      /\ batch' = [batch EXCEPT ![i] = <<>>] /\ svc' = [svc EXCEPT ![i] = Idle]
      /\ applied' = [applied EXCEPT ![i] = IF disk[i].snapshot = <<>> THEN @
                                                                    ELSE disk[i].snapshot]
      /\ UNCHANGED <<disk, voteReqs, voteReplies, aeReqs>>
  BY DEF Restart, voteNet
<1>4. /\ role'[i] = "Follower" /\ logs'[i] = disk[i].logs
      /\ \A s \in Server \ {i} :
           /\ role'[s] = role[s] /\ currentTerm'[s] = currentTerm[s] /\ logs'[s] = logs[s]
  BY <1>1, <1>3 DEF ReadPersist
<1>5. commitIndex' = commitIndex
  <2>1. disk[i].commitIndex = commitIndex[i]
    BY DEF CommitsChosen
  <2> QED BY <1>1, <1>3, <2>1 DEF ReadPersist
<1>6. applied' = applied
  <2>1. disk[i].snapshot = <<>>
    BY DEF NothingInstalled
  <2>2. applied' = [applied EXCEPT ![i] = applied[i]]
    BY <1>3, <2>1
  <2>3. applied \in [Server -> Seq(AppliedEntry)]
    BY DEF StepFacts, TypeInv, TypeOK, ServiceTypes
  <2> QED BY <2>2, <2>3
<1>7. /\ batch'[i] = <<>> /\ svc'[i] = Idle
      /\ \A s \in Server \ {i} :
           /\ matchIndex'[s] = matchIndex[s] /\ aeCall'[s] = aeCall[s]
           /\ batch'[s] = batch[s] /\ svc'[s] = svc[s]
  BY <1>2, <1>3
<1>8. \A j \in Server : ~aeCall'[i][j].open
  BY <1>2, <1>3 DEF NoCall
<1> QED BY <1>3, <1>4, <1>5, <1>6, <1>7, <1>8

LEMMA RestartHistory ==
    ASSUME StepFacts, NothingInstalled, NEW TL \in TermLogSet, NEW D \in SUBSET Nat,
           NEW A \in AckSet, History(TL, D, A), NEW i \in Server, Restart(i)
    PROVE  History(TL, D, A)'
<1>1. /\ TermLogs(TL) /\ Core(TL, D, A) /\ CommitsChosen(TL, A) /\ CallsCommit(TL, A)
      /\ RequestsStand /\ RepliesTrue(A) /\ MatchTrue(TL, A) /\ AppliedChosen(TL, A)
      /\ Extends(TL, TL) /\ AcksGrow(A, A) /\ AcksHeld(A, TL, A)
  BY ExtendsItself, SameAcksGrow, NoNewAcks DEF History, TermLogSet
<1>2. /\ role'[i] = "Follower" /\ logs'[i] = disk[i].logs
      /\ commitIndex' = commitIndex /\ disk' = disk /\ applied' = applied
      /\ batch'[i] = <<>> /\ svc'[i] = Idle
      /\ UNCHANGED <<voteReqs, voteReplies, aeReqs>>
      /\ \A j \in Server : ~aeCall'[i][j].open
      /\ \A s \in Server \ {i} :
           /\ role'[s] = role[s] /\ currentTerm'[s] = currentTerm[s]
           /\ logs'[s] = logs[s] /\ matchIndex'[s] = matchIndex[s]
           /\ aeCall'[s] = aeCall[s] /\ batch'[s] = batch[s] /\ svc'[s] = svc[s]
  BY <1>1, RestartAssigns
<1>3. TermLogs(TL)'
  BY <1>1, RestartTermLogs DEF StepFacts, TermLogSet
<1>4. \A s \in Server : role'[s] = "Leader" => s # i
  BY <1>2
<1>5. Core(TL, D, A)'
  <2>1. ASSUME NEW s \in Server PROVE Reaches(logs'[s], currentTerm'[s])
    <3>1. logs[s] \in Seq(Entry) /\ disk[s].logs \in Seq(Entry)
      BY DEF StepFacts, TypeInv, TypeOK, LogTypes, Disk
    <3>2. Reaches(logs[s], currentTerm[s]) /\ Reaches(disk[s].logs, currentTerm[s])
      BY <1>1 DEF Core, TermsReached
    <3>3. Reaches(logs[s], currentTerm'[s]) /\ Reaches(disk[s].logs, currentTerm'[s])
      BY <3>1, <3>2, TermsRise, ReachesLater
    <3> QED BY <1>2, <3>3
  <2>2. ASSUME NEW q \in Server, NEW t \in Nat, NEW e \in Nat, HeldBy(TL, q, t, e)
        PROVE  AgreeUpTo(TL[t], logs'[q], e)
    BY <1>2, <2>2 DEF HeldBy
  <2>3. /\ \A s \in Server : role'[s] = "Leader" =>
             role[s] = "Leader" /\ currentTerm'[s] = currentTerm[s]
        /\ \A s \in Server : disk'[s].logs \in {disk[s].logs, logs'[s]}
        /\ \A r \in voteReplies' \ voteReplies : r.granted =>
             r.request.term \in D \/ Compared(TL, A, r)
        /\ aeReqs' = aeReqs
    BY <1>2
  <2> QED BY <1>1, <2>1, <2>2, <2>3, FollowerCore
<1>6. RequestsStand'
  <2>1. CandidatesStand
    BY <1>2 DEF CandidatesStand
  <2> QED BY <1>1, <1>2, <2>1, RequestsStay
<1>7. RepliesTrue(A)'
  <2>1. \A s, p \in Server : aeCall'[s][p].open => aeCall'[s][p] = aeCall[s][p]
    BY <1>2
  <2> QED BY <1>1, <1>2, <2>1, RepliesStand
<1>8. MatchTrue(TL, A)'
  <2>1. ASSUME NEW s \in Server, role'[s] = "Leader"
        PROVE  /\ role[s] = "Leader" /\ currentTerm'[s] = currentTerm[s]
               /\ Len(logs[s]) <= Len(logs'[s])
               /\ \A p \in Server \ {s} : matchIndex'[s][p] = matchIndex[s][p]
    <3>1. s # i /\ logs[s] \in Seq(Entry)
      BY <1>4, <2>1 DEF StepFacts, TypeInv, TypeOK, LogTypes
    <3>2. Len(logs[s]) <= Len(logs'[s])
      BY <1>2, <3>1
    <3> QED BY <1>2, <2>1, <3>1, <3>2
  <2> QED BY <1>1, <2>1, MatchStays
<1>9. CommitsChosen(TL, A)'
  <2>1. ASSUME NEW s \in Server
        PROVE  Committed(TL, A, logs'[s], commitIndex[s], currentTerm'[s])
    <3>1. commitIndex[s] \in Nat
      BY DEF StepFacts, TypeInv, TypeOK, LogTypes
    <3>2. /\ Committed(TL, A, logs[s], commitIndex[s], currentTerm'[s])
          /\ Committed(TL, A, disk[s].logs, commitIndex[s], currentTerm'[s])
      BY <1>1, <3>1, TermsRise, CommittedStand DEF CommitsChosen
    <3> QED BY <1>2, <3>2
  <2>2. \A s \in Server : /\ commitIndex'[s] = commitIndex[s]
                          /\ disk'[s].commitIndex \in {disk[s].commitIndex, commitIndex'[s]}
                          /\ disk'[s].logs \in {disk[s].logs, logs'[s]}
    BY <1>2
  <2> QED BY <1>1, <2>1, <2>2, CommitsStay
<1>10. CallsCommit(TL, A)'
  BY <1>1, <1>2, CallsCommitStay
<1>11. AppliedChosen(TL, A)'
  <2> SUFFICES ASSUME NEW s \in Server
               PROVE  /\ \A k \in 1..Len(applied[s]) :
                           applied[s][k] = NoEntry \/ Fixed(TL, A, k, applied[s][k])
                      /\ \A n \in 1..Len(batch'[s]) :
                           /\ batch'[s][n].index \in 1..commitIndex[s]
                           /\ Fixed(TL, A, batch'[s][n].index, batch'[s][n].entry)
                      /\ svc'[s].op = "snapshot" => svc'[s].index <= commitIndex[s]
    BY <1>2 DEF AppliedChosen
  <2>1. CASE s = i
    BY <1>1, <1>2, <2>1 DEF AppliedChosen, Idle
  <2>2. CASE s # i
    BY <1>1, <1>2, <2>2 DEF AppliedChosen
  <2> QED BY <2>1, <2>2
<1> QED BY <1>3, <1>5, <1>6, <1>7, <1>8, <1>9, <1>10, <1>11 DEF History

-----------------------------------------------------------------------------
(* The invariant holds *)

\* Every step that is not about snapshots keeps a history of the state.
LEMMA HistoryStep ==
    ASSUME StepFacts, TwoAreMajority, NothingInstalled, NoStaleVote, [Next]_vars,
           NEW TL \in TermLogSet, NEW D \in SUBSET Nat, NEW A \in AckSet, History(TL, D, A)
    PROVE  \E more \in TermLogSet, led \in SUBSET Nat, wider \in AckSet :
             Extends(TL, more) /\ AcksGrow(A, wider) /\ History(more, led, wider)'
<1>0. Extends(TL, TL) /\ AcksGrow(A, A)
  BY ExtendsItself, SameAcksGrow DEF TermLogSet
<1>1. CASE UNCHANGED vars
  BY <1>0, <1>1, UnchangedHistory
<1>2. ASSUME NEW i \in Server,
             \/ StartElection(i)
             \/ \E m \in voteReqs : RequestVote(i, m)
             \/ \E r \in voteReplies : AbandonElection(i, r)
      PROVE  History(TL, D, A)'
  BY <1>2, StartElectionHistory, RequestVoteHistory, AbandonHistory
<1>3. ASSUME NEW i \in Server, NEW r \in voteReplies, CollectVote(i, r)
      PROVE  \E more \in TermLogSet, led \in SUBSET Nat :
               Extends(TL, more) /\ History(more, led, A)'
  BY <1>3, CollectVoteHistory
<1>4. ASSUME NEW i \in Server, NEW v \in Value, Start(i, v)
      PROVE  \E more \in TermLogSet : Extends(TL, more) /\ History(more, D, A)'
  BY <1>4, StartHistory
<1>5. ASSUME NEW i \in Server, NEW j \in Server, SendAppendEntries(i, j)
      PROVE  History(TL, D, A)'
  BY <1>5, SendHistory
<1>6. ASSUME NEW j \in Server, NEW m \in aeReqs, AppendEntries(j, m)
      PROVE  \E wider \in AckSet : AcksGrow(A, wider) /\ History(TL, D, wider)'
  <2>1. CASE AppendAccepted(j, m)
    BY <1>6, <2>1, AcceptedHistory
  <2>2. CASE AppendStale(j, m) \/ AppendRefused(j, m)
    <3>1. History(TL, D, A)'
      BY <1>6, <2>2, NotAcceptedHistory
    <3> QED BY <1>0, <3>1
  <2> QED BY <1>6, <2>1, <2>2 DEF AppendEntries
<1>7. ASSUME NEW i \in Server, NEW j \in Server, HandleAppendReply(i, j)
      PROVE  \E wider \in AckSet : AcksGrow(A, wider) /\ History(TL, D, wider)'
  <2>1. PICK reply \in aeCall[i][j].replies : \E r \in Observed(reply) :
          \/ StepDownOnAppend(i, j, r)
          \/ AppendAcknowledged(i, j, r)
          \/ AppendRejected(i, j, r)
    BY <1>7 DEF HandleAppendReply
  <2>2. PICK r \in Observed(reply) :
          \/ StepDownOnAppend(i, j, r)
          \/ AppendAcknowledged(i, j, r)
          \/ AppendRejected(i, j, r)
    BY <2>1
  <2>3. CASE AppendAcknowledged(i, j, r)
    BY <1>7, <2>3, AcknowledgedHistory
  <2>4. CASE StepDownOnAppend(i, j, r) \/ AppendRejected(i, j, r)
    <3>1. History(TL, D, A)'
      BY <1>7, <2>4, RejectedHistory
    <3> QED BY <1>0, <3>1
  <2> QED BY <2>2, <2>3, <2>4
<1>8. ASSUME NEW i \in Server,
             Snapshot(i) \/ StartApplyLogs(i) \/ ApplyOne(i) \/ Restart(i)
      PROVE  History(TL, D, A)'
  BY <1>8, SnapshotHistory, StartApplyLogsHistory, ApplyOneHistory, RestartHistory
<1>9. /\ \A i, j \in Server : ~SendSnapshot(i, j)
      /\ snapReqs = {} /\ snapReplies = {}
      /\ \A i \in Server : ~CondInstallSnapshot(i)
  BY DEF StepFacts, NoSnapshots, NothingInstalled, SendSnapshot, CondInstallSnapshot
<1>10. CASE Next
  <2>1. CASE \E i \in Server : StartElection(i)
    BY <1>0, <1>2, <2>1
  <2>2. CASE \E j \in Server, m \in voteReqs : RequestVote(j, m)
    BY <1>0, <1>2, <2>2
  <2>3. CASE \E i \in Server, r \in voteReplies : CollectVote(i, r)
    BY <1>0, <1>3, <2>3
  <2>4. CASE \E i \in Server, r \in voteReplies : AbandonElection(i, r)
    BY <1>0, <1>2, <2>4
  <2>5. CASE \E i \in Server, v \in Value : Start(i, v)
    BY <1>0, <1>4, <2>5
  <2>6. CASE \E i, j \in Server : SendAppendEntries(i, j)
    BY <1>0, <1>5, <2>6
  <2>7. CASE \E j \in Server, m \in aeReqs : AppendEntries(j, m)
    BY <1>0, <1>6, <2>7
  <2>8. CASE \E i, j \in Server : HandleAppendReply(i, j)
    BY <1>0, <1>7, <2>8
  <2>9. CASE \E i \in Server : Snapshot(i) \/ StartApplyLogs(i) \/ ApplyOne(i) \/ Restart(i)
    BY <1>0, <1>8, <2>9
  <2> QED BY <1>9, <1>10, <2>1, <2>2, <2>3, <2>4, <2>5, <2>6, <2>7, <2>8, <2>9 DEF Next
<1> QED BY <1>1, <1>10

LEMMA InitCommits == Init => CommitInv
<1> SUFFICES ASSUME Init PROVE CommitInv
  OBVIOUS
<1>1. /\ \A i \in Server :
           /\ logs[i] = <<>> /\ disk[i].logs = <<>> /\ role[i] = "Follower"
           /\ currentTerm[i] = 0 /\ commitIndex[i] = 0 /\ disk[i].commitIndex = 0
           /\ applied[i] = <<>> /\ batch[i] = <<>> /\ svc[i].op = "idle"
           /\ disk[i].snapshot = <<>> /\ lastSnapshotTerm[i] = 0
           /\ disk[i].lastSnapshotTerm = 0
           /\ \A j \in Server : ~aeCall[i][j].open
      /\ aeReqs = {} /\ voteReqs = {} /\ voteReplies = {} /\ snapReplies = {}
  BY DEF Init, Idle, NoCall
<1>2. PICK TL \in TermLogSet : \A t \in Nat : TL[t] = <<>>
  <2>1. <<>> \in Seq(Entry)
    OBVIOUS
  <2>2. [t \in Nat |-> <<>>] \in [Nat -> Seq(Entry)]
    BY <2>1
  <2>3. \A t \in Nat : [n \in Nat |-> <<>>][t] = <<>>
    OBVIOUS
  <2> QED BY <2>2, <2>3 DEF TermLogSet
<1>3. PICK D \in SUBSET Nat : D = {}
  OBVIOUS
<1>4. PICK A \in AckSet : \A q \in Server, t \in Nat, e \in Nat : ~Acked(A, q, t, e)
  <2>1. {} \in AckSet /\ \A q \in Server, t \in Nat, e \in Nat : ~Acked({}, q, t, e)
    BY DEF AckSet, Acked
  <2> QED BY <2>1
<1>5. TermLogs(TL)
  <2>1. Consistent(TL, <<>>)
    BY DEF Consistent
  <2> QED BY <1>1, <1>2, <2>1 DEF TermLogs, PeersConsistent, TermsConsistent,
             CallsAreSegments, LeadersHoldTerms, TermsWereLed
<1>6. \A t \in Nat, e \in Nat : ~Own(TL, t, e)
  BY <1>2 DEF Own
<1>7. Core(TL, D, A)
  <2>1. TermsSorted(TL) /\ TermsReached
    BY <1>1, <1>2 DEF TermsSorted, Sorted, TermsReached, Reaches
  <2>2. TermsLed(TL, D) /\ CallsReach(TL) /\ VotesCompared(TL, D, A) /\ LeadersSafe(TL, D, A)
    BY <1>1, <1>2, <1>3 DEF TermsLed, CallsReach, VotesCompared, LeadersSafe
  <2>3. AcksStand(TL, A) /\ AcksKept(TL, A)
    BY <1>4 DEF AcksStand, AcksKept
  <2> QED BY <2>1, <2>2, <2>3 DEF Core
<1>8. RequestsStand /\ RepliesTrue(A) /\ MatchTrue(TL, A) /\ CallsCommit(TL, A)
  BY <1>1 DEF RequestsStand, RepliesTrue, TrueCall, MatchTrue, CallsCommit
<1>9. CommitsChosen(TL, A) /\ AppliedChosen(TL, A)
  BY <1>1 DEF CommitsChosen, Committed, AppliedChosen
<1>10. NothingInstalled
  BY <1>1 DEF NothingInstalled
<1>11. History(TL, D, A)
  BY <1>5, <1>7, <1>8, <1>9 DEF History
<1> QED BY <1>10, <1>11 DEF CommitInv

LEMMA CommitStep ==
    /\ TwoAreMajority /\ TypeInv /\ TypeInv' /\ ElectionInv /\ ElectionInv' /\ LogInv
    /\ Uncompacted /\ Uncompacted' /\ NoStaleVote /\ CommitInv /\ [Next]_vars
    => CommitInv'
<1> SUFFICES ASSUME TwoAreMajority, TypeInv, TypeInv', ElectionInv, ElectionInv', LogInv,
                    Uncompacted, Uncompacted', NoStaleVote, CommitInv, [Next]_vars
             PROVE  CommitInv'
  OBVIOUS
<1>1. NoSnapshots
  BY DEF LogInv
<1>2. StepFacts
  BY <1>1, EveryStepVotes, EveryStepKeepsOwnVotes DEF StepFacts
<1>3. NothingInstalled /\ NothingInstalled'
  BY <1>1, NothingInstalledStep DEF CommitInv
<1>4. PICK TL \in TermLogSet, D \in SUBSET Nat, A \in AckSet : History(TL, D, A)
  BY DEF CommitInv
<1>5. PICK more \in TermLogSet, led \in SUBSET Nat, wider \in AckSet :
        History(more, led, wider)'
  BY <1>2, <1>3, <1>4, HistoryStep
<1> QED BY <1>3, <1>5 DEF CommitInv

LEMMA CommitInvariant ==
    TwoAreMajority => (Spec /\ [](Uncompacted /\ NoStaleVote) => []CommitInv)
<1> SUFFICES ASSUME TwoAreMajority PROVE Spec /\ [](Uncompacted /\ NoStaleVote) => []CommitInv
  OBVIOUS
<1>1. /\ TypeInv /\ TypeInv' /\ ElectionInv /\ ElectionInv' /\ LogInv
      /\ Uncompacted /\ Uncompacted' /\ NoStaleVote /\ CommitInv /\ [Next]_vars
      => CommitInv'
  BY CommitStep
<1> QED BY <1>1, InitCommits, TypeInvariant, ElectionInvariant, LogInvariant, PTL DEF Spec

-----------------------------------------------------------------------------
(* What the history says of a state *)

\* What is committed is in the log of every later term.
LaterTermsHave(TL, A) ==
    \A t \in Nat, e \in Nat, u \in Nat :
        Chosen(TL, A, t, e) /\ t < u /\ TL[u] # <<>> => AgreeUpTo(TL[t], TL[u], e)

LEMMA LaterTerms ==
    ASSUME NEW TL \in TermLogSet, NEW D \in SUBSET Nat, NEW A, Core(TL, D, A)
    PROVE  LaterTermsHave(TL, A)
<1> SUFFICES ASSUME NEW t \in Nat, NEW e \in Nat, NEW u \in Nat,
                    Chosen(TL, A, t, e), t < u, TL[u] # <<>>
             PROVE  AgreeUpTo(TL[t], TL[u], e)
  BY DEF LaterTermsHave
<1>1. u \in D
  BY DEF Core, TermsLed
<1>2. Own(TL, t, e) /\ ~Lost(A, t, e)
  BY ChosenNotLost DEF Chosen
<1> QED BY <1>1, <1>2 DEF Core, LeadersSafe

LEMMA LaterTermsNext ==
    ASSUME NEW TL \in TermLogSet, NEW D \in SUBSET Nat, NEW A, Core(TL, D, A)'
    PROVE  LaterTermsHave(TL, A)
<1> SUFFICES ASSUME NEW t \in Nat, NEW e \in Nat, NEW u \in Nat,
                    Chosen(TL, A, t, e), t < u, TL[u] # <<>>
             PROVE  AgreeUpTo(TL[t], TL[u], e)
  BY DEF LaterTermsHave
<1>1. u \in D
  BY DEF Core, TermsLed
<1>2. Own(TL, t, e)
  BY DEF Chosen
<1>3. ASSUME NEW Q \in SUBSET Server, IsMajority(Q), \A q \in Q : ~Acked(A, q, t, e)
      PROVE  FALSE
  <2>1. PICK P \in SUBSET Server : IsMajority(P) /\ \A q \in P : Acked(A, q, t, e)
    BY DEF Chosen
  <2>2. PICK s \in Server : s \in P /\ s \in Q
    BY <1>3, <2>1, MajoritiesMeet
  <2> QED BY <1>3, <2>1, <2>2
<1>4. ~Lost(A, t, e)'
  BY <1>3 DEF Lost
<1> QED BY <1>1, <1>2, <1>4 DEF Core, LeadersSafe

\* There is one committed entry at an index.
LEMMA FixedOnce ==
    ASSUME NEW TL \in TermLogSet, NEW A, LaterTermsHave(TL, A),
           NEW k \in Nat \ {0}, NEW x, NEW y, Fixed(TL, A, k, x), Fixed(TL, A, k, y)
    PROVE  x = y
<1>1. PICK t \in Nat, e \in Nat : k <= e /\ Chosen(TL, A, t, e) /\ x = TL[t][k]
  BY DEF Fixed
<1>2. PICK u \in Nat, f \in Nat : k <= f /\ Chosen(TL, A, u, f) /\ y = TL[u][k]
  BY DEF Fixed
<1>3. k \in 1..e /\ k \in 1..f
  BY <1>1, <1>2
<1>4. TL[t] # <<>> /\ TL[u] # <<>>
  <2>1. e \in 1..Len(TL[t]) /\ f \in 1..Len(TL[u])
    BY <1>1, <1>2 DEF Chosen, Own
  <2> QED BY <2>1
<1>5. CASE t < u
  <2>1. AgreeUpTo(TL[t], TL[u], e)
    BY <1>1, <1>4, <1>5 DEF LaterTermsHave
  <2> QED BY <1>1, <1>2, <1>3, <2>1 DEF AgreeUpTo
<1>6. CASE u < t
  <2>1. AgreeUpTo(TL[u], TL[t], f)
    BY <1>2, <1>4, <1>6 DEF LaterTermsHave
  <2> QED BY <1>1, <1>2, <1>3, <2>1 DEF AgreeUpTo
<1> QED BY <1>1, <1>2, <1>5, <1>6

\* Where no peer compacts its log, a commit index is an index of the log.
LEMMA CommitInLog ==
    ASSUME TypeInv, NEW TL \in TermLogSet, NEW A, CommitsChosen(TL, A), NEW i \in Server,
           NEW X, X = logs[i]
    PROVE  /\ X \in Seq(Entry) /\ Len(X) \in Nat /\ commitIndex[i] \in Nat
           /\ commitIndex[i] <= Len(X)
           /\ \A k \in 1..commitIndex[i] : Fixed(TL, A, k, X[k])
<1>1. X \in Seq(Entry) /\ Len(X) \in Nat /\ commitIndex[i] \in Nat
  BY DEF TypeInv, TypeOK, LogTypes
<1>2. Committed(TL, A, X, commitIndex[i], currentTerm[i])
  BY DEF CommitsChosen
<1>3. commitIndex[i] <= Len(X)
  BY <1>1, <1>2 DEF Committed, AgreeUpTo
<1>4. \A k \in 1..commitIndex[i] : Fixed(TL, A, k, X[k])
  BY <1>1, <1>2, CommittedFixed
<1> QED BY <1>1, <1>3, <1>4

LEMMA CommitInvApplied == CommitInv => StateMachineSafety
<1> SUFFICES ASSUME CommitInv, NEW i \in Server, NEW j \in Server,
                    NEW k \in 1..Len(applied[i]), k <= Len(applied[j]),
                    applied[i][k] # NoEntry, applied[j][k] # NoEntry
             PROVE  applied[i][k].command = applied[j][k].command
  BY DEF StateMachineSafety
<1>1. PICK TL \in TermLogSet, D \in SUBSET Nat, A \in AckSet : History(TL, D, A)
  BY DEF CommitInv
<1>2. LaterTermsHave(TL, A) /\ AppliedChosen(TL, A)
  BY <1>1, LaterTerms DEF History
<1>3. k \in 1..Len(applied[j]) /\ k \in Nat \ {0}
  OBVIOUS
<1>4. Fixed(TL, A, k, applied[i][k]) /\ Fixed(TL, A, k, applied[j][k])
  BY <1>2, <1>3 DEF AppliedChosen
<1> QED BY <1>2, <1>3, <1>4, FixedOnce

LEMMA CommitInvInLog == TypeInv /\ Uncompacted /\ CommitInv => NeverOutOfLog
<1> SUFFICES ASSUME TypeInv, Uncompacted, CommitInv, NEW i \in Server
             PROVE  /\ lastSnapshotIndex[i] <= commitIndex[i]
                    /\ commitIndex[i] <= LastLogIndex(i)
                    /\ svc[i].op = "snapshot" => svc[i].index <= LastLogIndex(i)
  BY DEF NeverOutOfLog
<1>1. PICK TL \in TermLogSet, D \in SUBSET Nat, A \in AckSet : History(TL, D, A)
  BY DEF CommitInv
<1>2. PICK X : X = logs[i]
  OBVIOUS
<1>3. /\ Len(X) \in Nat /\ commitIndex[i] \in Nat /\ commitIndex[i] <= Len(X)
  BY <1>1, <1>2, CommitInLog DEF History
<1>4. lastSnapshotIndex[i] = 0 /\ LastLogIndex(i) = Len(X)
  BY <1>2, <1>3 DEF Uncompacted, LastLogIndex
<1>5. ASSUME svc[i].op = "snapshot" PROVE svc[i].index <= Len(X)
  <2>1. svc[i].index <= commitIndex[i]
    BY <1>1, <1>5 DEF History, AppliedChosen
  <2>2. svc[i].index \in Nat
    BY <1>5 DEF TypeInv, TypeOK, ServiceTypes, ServiceCall, Idle
  <2> QED BY <1>3, <2>1, <2>2
<1> QED BY <1>3, <1>4, <1>5

LEMMA LargerMajority ==
    ASSUME NEW P \in SUBSET Server, NEW Q \in SUBSET Server, Q \subseteq P, IsMajority(Q)
    PROVE  IsMajority(P)
<1>1. IsFiniteSet(P) /\ IsFiniteSet(Q)
  BY ServerAssumption, FS_Subset
<1>2. /\ Cardinality(Q) <= Cardinality(P) /\ Cardinality(P) \in Nat /\ Cardinality(Q) \in Nat
      /\ Cardinality(Server) \in Nat
  BY <1>1, ServerAssumption, FS_Subset, FS_CardinalityType
<1> QED BY <1>2 DEF IsMajority

LEMMA CommitInvDurable == TypeInv /\ LogInv /\ Uncompacted /\ CommitInv => CommittedDurable
<1> SUFFICES ASSUME TypeInv, LogInv, Uncompacted, CommitInv, NEW i \in Server,
                    NEW k \in (lastSnapshotIndex[i] + 1)..commitIndex[i]
             PROVE  IsMajority({j \in Server : OnDisk(j, k, EntryAt(i, k))})
  BY DEF CommittedDurable
<1>1. PICK TL \in TermLogSet, D \in SUBSET Nat, A \in AckSet : History(TL, D, A)
  BY DEF CommitInv
<1>2. PICK X \in Seq(Entry) : X = logs[i]
  BY DEF TypeInv, TypeOK, LogTypes
<1>3. PICK c \in Nat : c = commitIndex[i]
  BY DEF TypeInv, TypeOK, LogTypes
<1>4. k \in 1..c /\ EntryAt(i, k) = X[k]
  <2>1. lastSnapshotIndex[i] = 0
    BY DEF Uncompacted
  <2>2. k \in 1..c /\ k - lastSnapshotIndex[i] = k
    BY <1>3, <2>1
  <2> QED BY <1>2, <2>2 DEF EntryAt
<1>5. Committed(TL, A, X, c, currentTerm[i])
  BY <1>1, <1>2, <1>3 DEF History, CommitsChosen
<1>6. PICK t \in Nat, e \in Nat : c <= e /\ Chosen(TL, A, t, e) /\ AgreeUpTo(TL[t], X, c)
  BY <1>4, <1>5 DEF Committed
<1>7. PICK Q \in SUBSET Server : IsMajority(Q) /\ \A q \in Q : Acked(A, q, t, e)
  BY <1>6 DEF Chosen
<1>8. ASSUME NEW q \in Q PROVE OnDisk(q, k, X[k])
  <2>1. PICK d : d = disk[q].logs
    OBVIOUS
  <2>2. disk[q].lastSnapshotIndex = 0 /\ Len(d) \in Nat
    <3>1. disk[q].lastSnapshotIndex = 0
      BY DEF LogInv, IndexOnDisk, Uncompacted
    <3>2. d \in Seq(Entry)
      BY <2>1 DEF TypeInv, TypeOK, Disk
    <3> QED BY <3>1, <3>2
  <2>3. AgreeUpTo(TL[t], d, e)
    <3>1. Own(TL, t, e) /\ ~Lost(A, t, e)
      BY <1>6, ChosenNotLost DEF Chosen
    <3>2. HeldBy(TL, q, t, e)
      BY <1>1, <1>7, <3>1 DEF History, Core, AcksKept
    <3> QED BY <2>1, <3>2 DEF HeldBy
  <2>4. k \in 1..e /\ k <= Len(d) /\ d[k] = X[k]
    BY <1>4, <1>6, <2>2, <2>3 DEF AgreeUpTo
  <2>5. k - 0 = k /\ 0 + Len(d) = Len(d)
    BY <1>4, <2>2
  <2> QED BY <2>1, <2>2, <2>4, <2>5 DEF OnDisk
<1>9. Q \subseteq {j \in Server : OnDisk(j, k, EntryAt(i, k))}
  BY <1>4, <1>8
<1> QED BY <1>7, <1>9, LargerMajority

LEMMA CommitInvComplete == TypeInv /\ Uncompacted /\ CommitInv => LeaderCompleteness
<1> SUFFICES ASSUME TypeInv, Uncompacted, CommitInv, NEW i \in Server, NEW j \in Server,
                    role[j] = "Leader", currentTerm[j] >= currentTerm[i],
                    NEW k \in (lastSnapshotIndex[i] + 1)..commitIndex[i]
             PROVE  k \in Shared(i, j) /\ EntryAt(i, k) = EntryAt(j, k)
  BY DEF LeaderCompleteness
<1>1. PICK TL \in TermLogSet, D \in SUBSET Nat, A \in AckSet : History(TL, D, A)
  BY DEF CommitInv
<1>2. PICK X \in Seq(Entry) : X = logs[i]
  BY DEF TypeInv, TypeOK, LogTypes
<1>3. PICK u \in Nat : u = currentTerm[j]
  BY DEF TypeInv, TypeOK, RoleTypes
<1>4. PICK L \in Seq(Entry) : L = logs[j]
  BY DEF TypeInv, TypeOK, LogTypes
<1>5. PICK c \in Nat : c = commitIndex[i]
  BY DEF TypeInv, TypeOK, LogTypes
<1>6. /\ lastSnapshotIndex[i] = 0 /\ lastSnapshotIndex[j] = 0 /\ k \in 1..c
      /\ k - lastSnapshotIndex[i] = k /\ k - lastSnapshotIndex[j] = k
  <2>1. lastSnapshotIndex[i] = 0 /\ lastSnapshotIndex[j] = 0
    BY DEF Uncompacted
  <2> QED BY <1>5, <2>1
<1>7. L = TL[u] /\ Len(L) \in Nat /\ Len(X) \in Nat
  BY <1>1, <1>3, <1>4 DEF History, TermLogs, LeadersHoldTerms
<1>8. Committed(TL, A, X, c, currentTerm[i])
  BY <1>1, <1>2, <1>5 DEF History, CommitsChosen
<1>9. PICK t \in Nat, e \in Nat :
        t <= currentTerm[i] /\ c <= e /\ Chosen(TL, A, t, e) /\ AgreeUpTo(TL[t], X, c)
  BY <1>6, <1>8 DEF Committed
<1>10. k <= Len(X) /\ TL[t][k] = X[k] /\ k \in 1..e
  BY <1>6, <1>7, <1>9 DEF AgreeUpTo
<1>11. k <= Len(L) /\ L[k] = TL[t][k]
  <2>1. t <= u
    <3>1. currentTerm[i] \in Nat
      BY DEF TypeInv, TypeOK, RoleTypes
    <3> QED BY <1>3, <1>9, <3>1
  <2>2. CASE t = u
    <3>1. e <= Len(TL[t])
      BY <1>9 DEF Chosen, Own
    <3> QED BY <1>7, <1>10, <2>2, <3>1
  <2>3. CASE t < u
    <3>1. u \in D
      BY <1>1, <1>3 DEF History, Core, TermsLed
    <3>2. Own(TL, t, e) /\ ~Lost(A, t, e)
      BY <1>9, ChosenNotLost DEF Chosen
    <3>3. AgreeUpTo(TL[t], L, e)
      BY <1>1, <1>7, <2>3, <3>1, <3>2 DEF History, Core, LeadersSafe
    <3> QED BY <1>7, <1>10, <3>3 DEF AgreeUpTo
  <2> QED BY <2>1, <2>2, <2>3
<1>12. k \in Shared(i, j)
  <2>1. LastLogIndex(i) = Len(X) /\ LastLogIndex(j) = Len(L)
    BY <1>2, <1>4, <1>6, <1>7 DEF LastLogIndex
  <2> QED BY <1>6, <1>10, <1>11, <2>1 DEF Shared
<1>13. EntryAt(i, k) = EntryAt(j, k)
  <2>1. EntryAt(i, k) = X[k] /\ EntryAt(j, k) = L[k]
    BY <1>2, <1>4, <1>6 DEF EntryAt
  <2> QED BY <1>10, <1>11, <2>1
<1> QED BY <1>12, <1>13

-----------------------------------------------------------------------------
(* What the history says of a step *)

\* One peer at a time changes its log or its commit index, which never falls.
LearnsAlone(i) ==
    /\ commitIndex'[i] >= commitIndex[i]
    /\ \A s \in Server \ {i} : logs'[s] = logs[s] /\ commitIndex'[s] = commitIndex[s]

LEMMA SilentLearns ==
    ASSUME TypeInv, NEW i \in Server, logs' = logs, commitIndex' = commitIndex
    PROVE  LearnsAlone(i)
  BY DEF LearnsAlone, TypeInv, TypeOK, LogTypes

LEMMA AcceptedLearns ==
    ASSUME TypeInv, NEW j \in Server, NEW m \in aeReqs, AppendEntries(j, m),
           AppendAccepted(j, m)
    PROVE  LearnsAlone(j)
<1>1. PICK Y : logs' = [logs EXCEPT ![j] = Y]
  BY DEF AppendAccepted
<1>2. /\ commitIndex'[j] = IF commitIndex[j] < m.leaderCommit THEN m.leaderCommit
                                                              ELSE commitIndex[j]
      /\ \A s \in Server \ {j} : logs'[s] = logs[s] /\ commitIndex'[s] = commitIndex[s]
  BY <1>1, AcceptedAssigns
<1>3. commitIndex[j] \in Nat /\ m.leaderCommit \in Nat
  BY DEF TypeInv, TypeOK, LogTypes, NetTypes, AppendRequest
<1> QED BY <1>2, <1>3 DEF LearnsAlone

LEMMA AcknowledgedLearns ==
    ASSUME TypeInv, Uncompacted, NEW i \in Server, NEW j \in Server, NEW r,
           AppendAcknowledged(i, j, r)
    PROVE  LearnsAlone(i)
<1>1. logs' = logs /\ commitIndex \in [Server -> Nat]
  BY DEF AppendAcknowledged, TypeInv, TypeOK, LogTypes
<1>2. CASE commitIndex' = commitIndex
  BY <1>1, <1>2, SilentLearns
<1>3. CASE \E n \in commitIndex[i]..LastLogIndex(i) :
             commitIndex' = [commitIndex EXCEPT ![i] = n]
  <2>1. PICK n \in commitIndex[i]..LastLogIndex(i) :
          commitIndex' = [commitIndex EXCEPT ![i] = n]
    BY <1>3
  <2>2. LastLogIndex(i) \in Nat
    BY LogFacts DEF TypeInv, TypeOK
  <2>3. n >= commitIndex[i]
    BY <1>1, <2>2
  <2> QED BY <1>1, <2>1, <2>3 DEF LearnsAlone
<1>4. \/ commitIndex' = commitIndex
      \/ \E n \in commitIndex[i]..LastLogIndex(i) :
           commitIndex' = [commitIndex EXCEPT ![i] = n]
  BY DEF AppendAcknowledged
<1> QED BY <1>2, <1>3, <1>4

LEMMA OneLearns ==
    ASSUME StepFacts, NothingInstalled, NEW TL, NEW A, CommitsChosen(TL, A), [Next]_vars
    PROVE  \E i \in Server : LearnsAlone(i)
<1>0. TypeInv
  BY DEF StepFacts
<1>1. CASE UNCHANGED vars
  <2>1. PICK i \in Server : TRUE
    BY ServerAssumption
  <2>2. logs' = logs /\ commitIndex' = commitIndex
    BY <1>1 DEF vars, logVars
  <2> QED BY <1>0, <2>2, SilentLearns
<1>2. ASSUME NEW i \in Server,
             \/ StartElection(i)
             \/ \E m \in voteReqs : RequestVote(i, m)
             \/ \E r \in voteReplies : CollectVote(i, r)
             \/ \E r \in voteReplies : AbandonElection(i, r)
             \/ \E j \in Server : SendAppendEntries(i, j)
             \/ ApplyOne(i)
      PROVE  LearnsAlone(i)
  <2>1. logs' = logs /\ commitIndex' = commitIndex
    BY <1>2 DEF StartElection, RequestVote, CollectVote, AbandonElection, SendAppendEntries,
                ApplyOne, logVars
  <2> QED BY <1>0, <2>1, SilentLearns
<1>3. ASSUME NEW i \in Server, NEW v \in Value, Start(i, v) PROVE LearnsAlone(i)
  BY <1>0, <1>3 DEF Start, LearnsAlone, TypeInv, TypeOK, LogTypes
<1>4. ASSUME NEW j \in Server, NEW m \in aeReqs, AppendEntries(j, m) PROVE LearnsAlone(j)
  <2>1. CASE AppendAccepted(j, m)
    BY <1>0, <1>4, <2>1, AcceptedLearns
  <2>2. CASE AppendStale(j, m) \/ AppendRefused(j, m)
    <3>1. logs' = logs /\ commitIndex' = commitIndex
      BY <2>2 DEF AppendStale, AppendRefused, logVars
    <3> QED BY <1>0, <3>1, SilentLearns
  <2> QED BY <1>4, <2>1, <2>2 DEF AppendEntries
<1>5. ASSUME NEW i \in Server, NEW j \in Server, HandleAppendReply(i, j) PROVE LearnsAlone(i)
  <2>1. PICK r : \/ StepDownOnAppend(i, j, r)
                 \/ AppendAcknowledged(i, j, r)
                 \/ AppendRejected(i, j, r)
    BY <1>5 DEF HandleAppendReply
  <2>2. CASE AppendAcknowledged(i, j, r)
    BY <2>2, AcknowledgedLearns DEF StepFacts
  <2>3. CASE StepDownOnAppend(i, j, r) \/ AppendRejected(i, j, r)
    <3>1. logs' = logs /\ commitIndex' = commitIndex
      BY <2>3 DEF StepDownOnAppend, AppendRejected, logVars
    <3> QED BY <1>0, <3>1, SilentLearns
  <2> QED BY <2>1, <2>2, <2>3
<1>6. ASSUME NEW i \in Server, Snapshot(i) PROVE LearnsAlone(i)
  <2>1. logs' = logs
    BY <1>6, ServiceKeepsLogs DEF StepFacts, LogsStand
  <2>2. commitIndex' = commitIndex
    BY <1>6 DEF Snapshot, logVars
  <2> QED BY <1>0, <2>1, <2>2, SilentLearns
<1>7. ASSUME NEW i \in Server, StartApplyLogs(i) PROVE LearnsAlone(i)
  <2>1. logs' = logs
    BY <1>7, ServiceKeepsLogs DEF StepFacts, LogsStand
  <2>2. commitIndex' = commitIndex
    <3>1. lastSnapshotIndex[i] = 0 /\ lastApplied[i] \in Nat
      BY DEF StepFacts, Uncompacted, TypeInv, TypeOK, LogTypes
    <3> QED BY <1>7, <3>1 DEF StartApplyLogs, logVars
  <2> QED BY <1>0, <2>1, <2>2, SilentLearns
<1>8. ASSUME NEW i \in Server, Restart(i) PROVE LearnsAlone(i)
  <2>1. commitIndex' = commitIndex /\ \A s \in Server \ {i} : logs'[s] = logs[s]
    BY <1>8, RestartAssigns
  <2>2. commitIndex[i] \in Nat
    BY <1>0 DEF TypeInv, TypeOK, LogTypes
  <2> QED BY <2>1, <2>2 DEF LearnsAlone
<1>9. /\ \A i, j \in Server : ~SendSnapshot(i, j)
      /\ snapReqs = {} /\ snapReplies = {}
      /\ \A i \in Server : ~CondInstallSnapshot(i)
  BY DEF StepFacts, NoSnapshots, NothingInstalled, SendSnapshot, CondInstallSnapshot
<1>10. CASE Next
  BY <1>2, <1>3, <1>4, <1>5, <1>6, <1>7, <1>8, <1>9, <1>10 DEF Next
<1> QED BY <1>1, <1>10

\* What a peer knows committed is, after the step, where it was.
LEMMA KnownStands ==
    ASSUME TypeInv, TypeInv', NEW TL \in TermLogSet, NEW D \in SUBSET Nat, NEW A \in AckSet,
           History(TL, D, A), NEW more \in TermLogSet, NEW led \in SUBSET Nat,
           NEW wider \in AckSet, Extends(TL, more), AcksGrow(A, wider),
           History(more, led, wider)', \A i \in Server : commitIndex'[i] >= commitIndex[i],
           NEW i \in Server, NEW k \in 1..commitIndex[i]
    PROVE  /\ k \in 1..Len(logs[i]) /\ k \in 1..Len(logs'[i]) /\ logs'[i][k] = logs[i][k]
           /\ Fixed(more, wider, k, logs[i][k])
<1>1. PICK X : X = logs[i]
  OBVIOUS
<1>2. PICK Y : Y = logs'[i]
  OBVIOUS
<1>3. /\ Len(X) \in Nat /\ commitIndex[i] \in Nat /\ commitIndex[i] <= Len(X)
      /\ Fixed(TL, A, k, X[k])
  BY <1>1, CommitInLog DEF History
<1>4. commitIndex'[i] \in Nat /\ commitIndex'[i] >= commitIndex[i]
  BY DEF TypeInv, TypeOK, LogTypes
<1>5. k \in 1..commitIndex'[i] /\ k \in Nat \ {0} /\ k \in 1..Len(X)
  BY <1>3, <1>4
<1>6. Len(Y) \in Nat /\ commitIndex'[i] <= Len(Y) /\ Fixed(more, wider, k, Y[k])
  <2>1. Len(Y) \in Nat
    BY <1>2 DEF TypeInv, TypeOK, LogTypes
  <2>2. Committed(more, wider, Y, commitIndex'[i], currentTerm'[i])
    BY <1>2 DEF History, CommitsChosen
  <2>3. commitIndex'[i] <= Len(Y)
    BY <1>4, <2>1, <2>2 DEF Committed, AgreeUpTo
  <2> QED BY <1>4, <1>5, <2>1, <2>2, <2>3, CommittedFixed
<1>7. Fixed(more, wider, k, X[k])
  BY <1>3, <1>5, FixedStands
<1>8. X[k] = Y[k]
  <2>1. LaterTermsHave(more, wider)
    BY LaterTermsNext DEF History
  <2> QED BY <1>5, <1>6, <1>7, <2>1, FixedOnce
<1>9. k \in 1..Len(Y)
  BY <1>4, <1>5, <1>6
<1> QED BY <1>1, <1>2, <1>5, <1>7, <1>8, <1>9

\* Before and after a step, what a peer knows committed is in its log and is the committed
\* entry; what it knew has stayed.
KnownKept(TL, A, s) ==
    /\ commitIndex[s] <= commitIndex'[s]
    /\ commitIndex[s] <= Len(logs[s]) /\ commitIndex'[s] <= Len(logs'[s])
    /\ \A k \in 1..commitIndex[s] :
         logs'[s][k] = logs[s][k] /\ Fixed(TL, A, k, logs[s][k])
    /\ \A k \in 1..commitIndex'[s] : Fixed(TL, A, k, logs'[s][k])

CommittedStep ==
    \E TL \in TermLogSet, A \in AckSet, i \in Server :
        /\ LaterTermsHave(TL, A) /\ LearnsAlone(i)
        /\ \A s \in Server : KnownKept(TL, A, s)

\* The facts a step of the committed log is made from.
CommitFacts ==
    /\ TypeInv /\ ElectionInv /\ LogInv /\ Uncompacted /\ NoStaleVote /\ CommitInv

LEMMA EveryStepIsCommittedStep ==
    ASSUME TwoAreMajority, CommitFacts, TypeInv', ElectionInv', Uncompacted', [Next]_vars
    PROVE  CommittedStep
<1>1. TypeInv /\ NoSnapshots /\ NoStaleVote
  BY DEF CommitFacts, LogInv
<1>2. StepFacts
  BY <1>1, EveryStepVotes, EveryStepKeepsOwnVotes DEF StepFacts, CommitFacts
<1>3. NothingInstalled
  BY DEF CommitFacts, CommitInv
<1>4. PICK TL \in TermLogSet, D \in SUBSET Nat, A \in AckSet : History(TL, D, A)
  BY DEF CommitFacts, CommitInv
<1>5. PICK more \in TermLogSet, led \in SUBSET Nat, wider \in AckSet :
        Extends(TL, more) /\ AcksGrow(A, wider) /\ History(more, led, wider)'
  BY <1>1, <1>2, <1>3, <1>4, HistoryStep
<1>6. CommitsChosen(TL, A)
  BY <1>4 DEF History
<1>7. PICK i \in Server : LearnsAlone(i)
  BY <1>2, <1>3, <1>6, OneLearns
<1>8. \A s \in Server : commitIndex'[s] >= commitIndex[s]
  <2>1. \A s \in Server : commitIndex[s] \in Nat
    BY <1>1 DEF TypeInv, TypeOK, LogTypes
  <2> QED BY <1>7, <2>1 DEF LearnsAlone
<1>9. ASSUME NEW s \in Server PROVE KnownKept(more, wider, s)
  <2>1. PICK X : X = logs[s]
    OBVIOUS
  <2>2. commitIndex[s] \in Nat /\ commitIndex'[s] \in Nat /\ commitIndex[s] <= commitIndex'[s]
    BY <1>1, <1>8 DEF TypeInv, TypeOK, LogTypes
  <2>3. commitIndex[s] <= Len(logs[s])
    BY <1>1, <1>6, <2>1, CommitInLog
  <2>4. \A k \in 1..commitIndex[s] :
          logs'[s][k] = logs[s][k] /\ Fixed(more, wider, k, logs[s][k])
    BY <1>1, <1>4, <1>5, <1>8, KnownStands
  <2>5. PICK Y : Y = logs'[s]
    OBVIOUS
  <2>6. Committed(more, wider, Y, commitIndex'[s], currentTerm'[s])
    BY <1>5, <2>5 DEF History, CommitsChosen
  <2>7. commitIndex'[s] <= Len(Y)
    <3>1. Len(Y) \in Nat
      BY <2>5 DEF TypeInv, TypeOK, LogTypes
    <3> QED BY <2>2, <2>6, <3>1 DEF Committed, AgreeUpTo
  <2>8. \A k \in 1..commitIndex'[s] : Fixed(more, wider, k, Y[k])
    BY <2>2, <2>6, CommittedFixed
  <2> QED BY <2>2, <2>3, <2>4, <2>5, <2>7, <2>8 DEF KnownKept
<1>10. LaterTermsHave(more, wider)
  BY <1>5, LaterTermsNext DEF History
<1> QED BY <1>7, <1>9, <1>10 DEF CommittedStep

LEMMA CommittedStepStays ==
    ASSUME TypeInv, TypeInv', Uncompacted, Uncompacted', CommittedStep, NEW i \in Server,
           NEW k \in (lastSnapshotIndex[i] + 1)..commitIndex[i]
    PROVE  /\ k <= lastSnapshotIndex'[i] + Len(logs'[i])
           /\ logs'[i][k - lastSnapshotIndex'[i]] = EntryAt(i, k)
<1>1. PICK TL \in TermLogSet, A \in AckSet : KnownKept(TL, A, i)
  BY DEF CommittedStep
<1>2. lastSnapshotIndex[i] = 0 /\ lastSnapshotIndex'[i] = 0
  BY DEF Uncompacted
<1>3. /\ commitIndex[i] \in Nat /\ commitIndex'[i] \in Nat /\ Len(logs'[i]) \in Nat
  BY DEF TypeInv, TypeOK, LogTypes
<1>4. k \in 1..commitIndex[i] /\ k - 0 = k
  BY <1>2, <1>3
<1>5. EntryAt(i, k) = logs[i][k] /\ logs'[i][k - lastSnapshotIndex'[i]] = logs'[i][k]
  BY <1>2, <1>4 DEF EntryAt
<1>6. k <= Len(logs'[i]) /\ 0 + Len(logs'[i]) = Len(logs'[i])
  BY <1>1, <1>3, <1>4 DEF KnownKept
<1> QED BY <1>1, <1>2, <1>4, <1>5, <1>6 DEF KnownKept

-----------------------------------------------------------------------------
(* The peers implement the committed log of CommitLog.tla *)

LEMMA SubSeqFacts ==
    ASSUME NEW X \in Seq(Entry), NEW c \in Nat, c <= Len(X)
    PROVE  /\ SubSeq(X, 1, c) \in Seq(Entry) /\ Len(SubSeq(X, 1, c)) = c
           /\ \A k \in 1..c : SubSeq(X, 1, c)[k] = X[k]
<1>1. \A k \in 1..c : X[k] \in Entry
  OBVIOUS
<1>2. /\ SubSeq(X, 1, c) \in Seq(Entry)
      /\ Len(SubSeq(X, 1, c)) = IF 1 <= c THEN c - 1 + 1 ELSE 0
      /\ \A k \in 1..(c - 1 + 1) : SubSeq(X, 1, c)[k] = X[1 + k - 1]
  BY <1>1, SubSeqProperties
<1> QED BY <1>2

LEMMA BeginsWith ==
    ASSUME NEW X \in Seq(Entry), NEW Y \in Seq(Entry), NEW c \in Nat, NEW d \in Nat,
           c <= d, c <= Len(X), d <= Len(Y), \A k \in 1..c : X[k] = Y[k]
    PROVE  Log!IsPrefix(SubSeq(X, 1, c), SubSeq(Y, 1, d))
<1> DEFINE S == SubSeq(X, 1, c)
           T == SubSeq(Y, 1, d)
<1>1. S \in Seq(Entry) /\ Len(S) = c /\ \A k \in 1..c : S[k] = X[k]
  BY SubSeqFacts
<1>2. T \in Seq(Entry) /\ Len(T) = d /\ \A k \in 1..d : T[k] = Y[k]
  BY SubSeqFacts
<1> HIDE DEF S, T
<1>3. c <= Len(S) /\ c <= Len(T)
  BY <1>1, <1>2
<1>4. /\ SubSeq(S, 1, c) \in Seq(Entry) /\ Len(SubSeq(S, 1, c)) = c
      /\ \A k \in 1..c : SubSeq(S, 1, c)[k] = S[k]
  BY <1>1, <1>3, SubSeqFacts
<1>5. /\ SubSeq(T, 1, c) \in Seq(Entry) /\ Len(SubSeq(T, 1, c)) = c
      /\ \A k \in 1..c : SubSeq(T, 1, c)[k] = T[k]
  BY <1>2, <1>3, SubSeqFacts
<1>6. \A k \in 1..c : S[k] = T[k]
  BY <1>1, <1>2
<1>7. SubSeq(S, 1, c) = SubSeq(T, 1, c)
  BY <1>4, <1>5, <1>6
<1>8. Log!IsPrefix(S, T)
  BY <1>1, <1>2, <1>7 DEF Log!IsPrefix
<1> QED BY <1>8 DEF S, T

LEMMA InitIsLogInit == Init => Log!Init
<1> SUFFICES ASSUME Init PROVE Log!Init
  OBVIOUS
<1>1. ASSUME NEW i \in Server PROVE SubSeq(logs[i], 1, commitIndex[i]) = <<>>
  <2>1. logs[i] = <<>> /\ commitIndex[i] = 0
    BY DEF Init
  <2> QED BY <2>1, SubSeqEmpty
<1> QED BY <1>1 DEF Log!Init, CommittedLog

\* Two peers know the same of what both know committed.
LEMMA KnownAgree ==
    ASSUME NEW TL \in TermLogSet, NEW A \in AckSet, LaterTermsHave(TL, A),
           NEW X \in Seq(Entry), NEW Y \in Seq(Entry), NEW c \in Nat, NEW d \in Nat,
           c <= Len(X), d <= Len(Y),
           \A k \in 1..c : Fixed(TL, A, k, X[k]), \A k \in 1..d : Fixed(TL, A, k, Y[k])
    PROVE  Log!Agree(SubSeq(X, 1, c), SubSeq(Y, 1, d))
<1>1. ASSUME NEW k \in 1..c, k \in 1..d PROVE X[k] = Y[k]
  <2>1. k \in Nat \ {0}
    OBVIOUS
  <2> QED BY <1>1, <2>1, FixedOnce
<1>2. CASE c <= d
  <2>1. \A k \in 1..c : k \in 1..d
    BY <1>2
  <2> QED BY <1>1, <1>2, <2>1, BeginsWith DEF Log!Agree
<1>3. CASE d <= c
  <2>1. \A k \in 1..d : k \in 1..c
    BY <1>3
  <2> QED BY <1>1, <1>3, <2>1, BeginsWith DEF Log!Agree
<1> QED BY <1>2, <1>3

LEMMA CommittedStepIsLearn ==
    ASSUME TypeInv, TypeInv', CommittedStep
    PROVE  Log!Next
<1>1. PICK TL \in TermLogSet, A \in AckSet, i \in Server :
        /\ LaterTermsHave(TL, A) /\ LearnsAlone(i)
        /\ \A s \in Server : KnownKept(TL, A, s)
  BY DEF CommittedStep
<1>2. ASSUME NEW s \in Server
      PROVE  /\ logs[s] \in Seq(Entry) /\ logs'[s] \in Seq(Entry)
             /\ commitIndex[s] \in Nat /\ commitIndex'[s] \in Nat
             /\ CommittedLog[s] = SubSeq(logs[s], 1, commitIndex[s])
             /\ CommittedLog'[s] = SubSeq(logs'[s], 1, commitIndex'[s])
  BY DEF TypeInv, TypeOK, LogTypes, CommittedLog
<1>3. CommittedLog' = [CommittedLog EXCEPT ![i] = CommittedLog'[i]]
  <2>1. \A s \in Server \ {i} : CommittedLog'[s] = CommittedLog[s]
    BY <1>1, <1>2 DEF LearnsAlone
  <2>2. CommittedLog' = [s \in Server |-> CommittedLog'[s]]
    BY DEF CommittedLog
  <2>3. CommittedLog = [s \in Server |-> CommittedLog[s]]
    BY DEF CommittedLog
  <2> QED BY <2>1, <2>2, <2>3
<1>4. Log!IsPrefix(CommittedLog[i], CommittedLog'[i])
  <2>1. /\ commitIndex[i] <= commitIndex'[i] /\ commitIndex[i] <= Len(logs[i])
        /\ commitIndex'[i] <= Len(logs'[i])
        /\ \A k \in 1..commitIndex[i] : logs[i][k] = logs'[i][k]
    BY <1>1 DEF KnownKept
  <2>2. Log!IsPrefix(SubSeq(logs[i], 1, commitIndex[i]), SubSeq(logs'[i], 1, commitIndex'[i]))
    BY <1>2, <2>1, BeginsWith
  <2> QED BY <1>2, <2>2
<1>5. ASSUME NEW j \in Server PROVE Log!Agree(CommittedLog'[i], CommittedLog[j])
  <2>1. /\ commitIndex'[i] <= Len(logs'[i])
        /\ \A k \in 1..commitIndex'[i] : Fixed(TL, A, k, logs'[i][k])
    BY <1>1 DEF KnownKept
  <2>2. /\ commitIndex[j] <= Len(logs[j])
        /\ \A k \in 1..commitIndex[j] : Fixed(TL, A, k, logs[j][k])
    BY <1>1 DEF KnownKept
  <2>3. Log!Agree(SubSeq(logs'[i], 1, commitIndex'[i]), SubSeq(logs[j], 1, commitIndex[j]))
    BY <1>1, <1>2, <2>1, <2>2, KnownAgree
  <2> QED BY <1>2, <2>3
<1> QED BY <1>3, <1>4, <1>5 DEF Log!Next, Log!Learn

-----------------------------------------------------------------------------
(* The theorems *)

\* The executions the theorems are about: no peer compacts its log, and none repeats a vote
\* it gave in an earlier term.
WithinLimits == [](Uncompacted /\ NoStaleVote)

LEMMA CommitFactsHold == TwoAreMajority => (Spec /\ WithinLimits => []CommitFacts)
<1> SUFFICES ASSUME TwoAreMajority PROVE Spec /\ WithinLimits => []CommitFacts
  OBVIOUS
<1>1. Spec /\ WithinLimits => []CommitInv
  BY CommitInvariant DEF WithinLimits
<1>2. /\ TypeInv /\ ElectionInv /\ LogInv /\ (Uncompacted /\ NoStaleVote) /\ CommitInv
      => CommitFacts
  BY DEF CommitFacts
<1> QED
  BY <1>1, <1>2, TypeInvariant, ElectionInvariant, LogInvariant, PTL DEF WithinLimits

\* A new leader has every entry that any server of its term or an earlier one has
\* committed, whatever requests, replies, losses and crashes its election went through.
THEOREM LeadersComplete ==
    TwoAreMajority => (Spec /\ WithinLimits => []LeaderCompleteness)
<1> SUFFICES ASSUME TwoAreMajority PROVE Spec /\ WithinLimits => []LeaderCompleteness
  OBVIOUS
<1>1. Spec /\ WithinLimits => []CommitFacts
  BY CommitFactsHold
<1>2. CommitFacts => LeaderCompleteness
  BY CommitInvComplete DEF CommitFacts
<1> QED BY <1>1, <1>2, PTL

\* What any server has committed is on the disks of a majority, though Start saves nothing
\* and tryCommitLog counts only what matchIndex says.
THEOREM CommitsAreDurable ==
    TwoAreMajority => (Spec /\ WithinLimits => []CommittedDurable)
<1> SUFFICES ASSUME TwoAreMajority PROVE Spec /\ WithinLimits => []CommittedDurable
  OBVIOUS
<1>1. Spec /\ WithinLimits => []CommitFacts
  BY CommitFactsHold
<1>2. CommitFacts => CommittedDurable
  BY CommitInvDurable DEF CommitFacts
<1> QED BY <1>1, <1>2, PTL

\* No two services are given different commands at an index, whatever either has been
\* through.
THEOREM ServicesAgree ==
    TwoAreMajority => (Spec /\ WithinLimits => []StateMachineSafety)
<1> SUFFICES ASSUME TwoAreMajority PROVE Spec /\ WithinLimits => []StateMachineSafety
  OBVIOUS
<1>1. Spec /\ WithinLimits => []CommitFacts
  BY CommitFactsHold
<1>2. CommitFacts => StateMachineSafety
  BY CommitInvApplied DEF CommitFacts
<1> QED BY <1>1, <1>2, PTL

\* The commit index that AppendEntries takes over unchecked is never past the log, so the
\* apply loop does not index past the slice.
THEOREM CommitsAreInLog ==
    TwoAreMajority => (Spec /\ WithinLimits => []NeverOutOfLog)
<1> SUFFICES ASSUME TwoAreMajority PROVE Spec /\ WithinLimits => []NeverOutOfLog
  OBVIOUS
<1>1. Spec /\ WithinLimits => []CommitFacts
  BY CommitFactsHold
<1>2. CommitFacts => NeverOutOfLog
  BY CommitInvInLog DEF CommitFacts
<1> QED BY <1>1, <1>2, PTL

\* AppendEntries, which cuts a log without looking, never cuts it below the commit index,
\* and a restart reads back at least what was committed.
THEOREM KnownCommitsStay ==
    TwoAreMajority => (Spec /\ WithinLimits => CommittedStays)
<1> SUFFICES ASSUME TwoAreMajority PROVE Spec /\ WithinLimits => CommittedStays
  OBVIOUS
<1>1. Spec /\ WithinLimits => []CommitFacts
  BY CommitFactsHold
<1>2. CommitFacts /\ CommitFacts' /\ [Next]_vars
      => \A i \in Server : \A k \in (lastSnapshotIndex[i] + 1)..commitIndex[i] :
           \/ k <= lastSnapshotIndex'[i]
           \/ /\ k <= lastSnapshotIndex'[i] + Len(logs'[i])
              /\ logs'[i][k - lastSnapshotIndex'[i]] = EntryAt(i, k)
  BY EveryStepIsCommittedStep, CommittedStepStays DEF CommitFacts
<1> QED BY <1>1, <1>2, PTL DEF Spec, CommittedStays

\* The peers implement the one committed log of CommitLog.tla: initial states map to initial
\* states, and every step to one peer's learning of the next entries.
THEOREM PeersShareOneLog ==
    TwoAreMajority => (Spec /\ WithinLimits => LogRefined)
<1> SUFFICES ASSUME TwoAreMajority PROVE Spec /\ WithinLimits => LogRefined
  OBVIOUS
<1>1. Spec /\ WithinLimits => []CommitFacts
  BY CommitFactsHold
<1>2. CommitFacts /\ CommitFacts' /\ [Next]_vars => [Log!Next]_CommittedLog
  BY EveryStepIsCommittedStep, CommittedStepIsLearn DEF CommitFacts
<1> QED BY <1>1, <1>2, InitIsLogInit, PTL DEF Spec, LogRefined, Log!Spec

=============================================================================
