------------------------------ MODULE Lab3ARaft ------------------------------
(***************************************************************************)
(* The Raft peers under the key/value server: Lab-3A/raft/raft.go, with    *)
(* the service of Lab-3A/raft/config.go that consumes applyCh and restarts *)
(* peers.  This is another program than Raft2C: it has no snapshots, backs *)
(* up by terms, cuts logs and leaves out checks that Raft2C makes.         *)
(*                                                                         *)
(* One action is one critical section of rf.mu.  Reads of rf.State outside *)
(* of it (a sender's loop at 404, Start's GetState at 605) may be out of   *)
(* date when the lock is taken: `late` holds the goroutines caught there.  *)
(* `accident` records what the code lets happen and Raft does not; the     *)
(* properties say what holds as long as it has not happened.               *)
(***************************************************************************)
EXTENDS Integers, FiniteSets, Sequences

CONSTANTS
    Server,
    NoOne,         \* voteFor.id = -1
    \* Bounds of an instance
    Electable,     \* pairs <<i, t>>: i's election timer may start an election of term t
    VoteLinks,     \* pairs <<i, j>>: the network may deliver i's RequestVote to j
    LogLinks,      \* pairs <<i, j>>: and its AppendEntries
    LateLinks,     \* pairs <<i, j>>: i's sender for j (its Start when j = i) may be late
    Startable,     \* pairs <<t, k>>: a command may be started in term t at index k
    Appends,       \* pairs <<t, n>>: term t may have n AppendEntries calls that differ
    Restartable,   \* servers that may crash and restart
    MaxRestarts

ASSUME PeersAssumption == IsFiniteSet(Server) /\ NoOne \notin Server

VARIABLES
    State, Term, voteFor, logEntries,
    commitIndex, lastApplied, nextIndex, matchIndex,
    disk,                      \* the persister
    election,                  \* the vote count of startElection's loop
    waiting,                   \* waiting[i]: its vote goroutines without an answer
    calls,                     \* calls[i][j]: the AppendEntries call i waits on
    late,                      \* late[i]: goroutines that still take i for a leader
    deferred,                  \* deferred[i]: LeaderCommit of calls that have unlocked
    notified,                  \* notifyApplyCh holds a token
    applied,                   \* cfg.logs
    voteReqs, voteReplies, aeReqs,
    restarts,
    accident, panicked,                 \* history
    started                    \* history: pairs <<t, k>>, as in Startable, that were started

voteVars == <<State, Term, voteFor>>
applyVars == <<commitIndex, lastApplied, notified, applied>>
leaderVars == <<nextIndex, matchIndex>>
routineVars == <<election, waiting, calls, late, deferred>>
voteNet == <<voteReqs, voteReplies>>
history == <<accident, started, panicked>>
vars == <<voteVars, logEntries, applyVars, leaderVars, disk, routineVars, voteNet, aeReqs,
          restarts, history>>

-----------------------------------------------------------------------------
(* Data: a command is the server it was given to *)

LogEntry == [Term : Nat, Command : Server]
VoteFor == [Term : Int, id : Server \cup {NoOne}]
RequestVoteArgs == [Term : Nat, CandidateId : Server, LastLogIndex : Nat, LastLogTerm : Nat]
RequestVoteReply == [Term : Nat, granted : BOOLEAN, from : Server, args : RequestVoteArgs]
HeartBeatArgs ==
    [LeaderId : Server, to : Server, Term : Nat, PrevLogIndex : Nat, PervLogTerm : Nat,
     Entries : Seq(LogEntry), LeaderCommit : Nat]
AppendEntriesReply == [Term : Nat, Success : BOOLEAN, NextIndex : Nat]
NoElection == [Term |-> 0, granted |-> {}]
NoCall == [open |-> FALSE]

IsMajority(S) == 2 * Cardinality(S) > Cardinality(Server)
Largest(S) == CHOOSE k \in S : \A l \in S : l <= k

\* Slot 0 of the code's slice is the entry of term 0 that Make puts there.
LastLogIndex(i) == Len(logEntries[i])
TermAt(i, k) == IF k = 0 THEN 0 ELSE logEntries[i][k].Term
LastLogTerm(i) == TermAt(i, LastLogIndex(i))

\* rf.persist()
Persist(i) ==
    disk' = [disk EXCEPT ![i] =
              [Term |-> Term'[i], voteFor |-> voteFor'[i], commitIndex |-> commitIndex'[i],
               lastApplied |-> lastApplied'[i], logEntries |-> logEntries'[i]]]

\* A peer takes `term` as a follower.  When it led, the goroutines that have just
\* looked at its role go on as if it still did.
StepDown(i, term) ==
    /\ State' = [State EXCEPT ![i] = "Follower"]
    /\ Term' = [Term EXCEPT ![i] = term]
    /\ late' \in IF State[i] = "Leader"
                 THEN {[late EXCEPT ![i] = caught] :
                         caught \in SUBSET {j \in Server : <<i, j>> \in LateLinks}}
                 ELSE {late}

Init ==
    /\ State = [i \in Server |-> "Follower"]
    /\ Term = [i \in Server |-> 0]
    /\ voteFor = [i \in Server |-> [Term |-> -1, id |-> NoOne]]
    /\ logEntries = [i \in Server |-> <<>>]
    /\ commitIndex = [i \in Server |-> 0]
    /\ lastApplied = [i \in Server |-> 0]
    /\ nextIndex = [i \in Server |-> [j \in Server |-> 0]]
    /\ matchIndex = [i \in Server |-> [j \in Server |-> 0]]
    /\ disk = [i \in Server |-> [Term |-> 0, voteFor |-> [Term |-> -1, id |-> NoOne],
                                 commitIndex |-> 0, lastApplied |-> 0, logEntries |-> <<>>]]
    /\ election = [i \in Server |-> NoElection]
    /\ waiting = [i \in Server |-> {}]
    /\ calls = [i \in Server |-> [j \in Server |-> NoCall]]
    /\ late = [i \in Server |-> {}]
    /\ deferred = [i \in Server |-> {}]
    /\ notified = [i \in Server |-> FALSE]
    /\ applied = [i \in Server |-> <<>>]
    /\ voteReqs = {} /\ voteReplies = {} /\ aeReqs = {}
    /\ restarts = 0
    /\ accident = {} /\ started = {} /\ panicked = "no"

-----------------------------------------------------------------------------
(* Elections *)

\* startElection up to its calls.  The loop of the election before has ended, as it may
\* at any moment: what it still waits for times out and counts as a refusal.
StartElection(i) ==
    /\ <<i, Term[i] + 1>> \in Electable
    /\ State[i] # "Leader"
    /\ State' = [State EXCEPT ![i] = "Candidate"]
    /\ Term' = [Term EXCEPT ![i] = @ + 1]
    /\ voteFor' = [voteFor EXCEPT ![i] = [Term |-> Term[i] + 1, id |-> i]]
    /\ election' = [election EXCEPT ![i] = [Term |-> Term[i] + 1, granted |-> {i}]]
    /\ waiting' = [waiting EXCEPT ![i] =
                     @ \cup {<<Term[i] + 1, j>> : j \in Server \ {i}}]
    /\ voteReqs' = voteReqs \cup
         {[Term |-> Term[i] + 1, CandidateId |-> i,
           LastLogIndex |-> LastLogIndex(i), LastLogTerm |-> LastLogTerm(i)]}
    /\ UNCHANGED <<logEntries, applyVars, leaderVars, calls, late, deferred, voteReplies,
                   aeReqs, restarts, history>>
    /\ Persist(i)

\* The reply carries the term the voter had; only one above the request's matters, and
\* a refusal without one is as good as a timeout.
AnswerVote(j, m, granted) ==
    voteReplies' = IF granted \/ Term[j] > m.Term
                   THEN voteReplies \cup
                          {[Term |-> IF Term[j] > m.Term THEN Term[j] ELSE 0,
                            granted |-> granted, from |-> j, args |-> m]}
                   ELSE voteReplies

\* An older term, a leader, a vote given to another in this term -- or no vote in this
\* term at all: the code has no branch that gives one.
RefuseVote(j, m) ==
    /\ \/ m.Term < Term[j]
       \/ State[j] = "Leader"
       \/ m.Term = Term[j] /\ voteFor[j] # [Term |-> m.Term, id |-> m.CandidateId]
    /\ AnswerVote(j, m, FALSE)
    /\ UNCHANGED <<voteVars, disk>>

\* Variant with a fault: any candidate of this term gets a vote.
RepeatVoteToAny(j, m) ==
    /\ m.Term = Term[j] /\ State[j] # "Leader"
    /\ AnswerVote(j, m, TRUE)
    /\ UNCHANGED <<voteVars, disk>>

\* The vote of this term was for this candidate: it is given again.
RepeatVote(j, m) ==
    /\ m.Term = Term[j] /\ State[j] # "Leader"
    /\ voteFor[j] = [Term |-> m.Term, id |-> m.CandidateId]
    /\ AnswerVote(j, m, TRUE)
    /\ UNCHANGED <<voteVars, disk>>

\* Variant with a fault, and line 108: the candidate's log is at least as new.
AnyLog(j, m) == TRUE
LogUpToDate(j, m) ==
    \/ LastLogTerm(j) < m.LastLogTerm
    \/ LastLogTerm(j) = m.LastLogTerm /\ LastLogIndex(j) <= m.LastLogIndex

\* A newer term is taken whether or not its candidate gets the vote.
MeetNewTerm(j, m) ==
    /\ m.Term > Term[j] /\ State[j] # "Leader"
    /\ State' = [State EXCEPT ![j] = "Follower"]
    /\ Term' = [Term EXCEPT ![j] = m.Term]
    /\ IF LogUpToDate(j, m)
       THEN voteFor' = [voteFor EXCEPT ![j] = [Term |-> m.Term, id |-> m.CandidateId]]
       ELSE UNCHANGED voteFor
    /\ AnswerVote(j, m, LogUpToDate(j, m))
    /\ Persist(j)

RequestVote(j, m) ==
    /\ m.CandidateId # j /\ <<m.CandidateId, j>> \in VoteLinks
    /\ UNCHANGED <<logEntries, applyVars, leaderVars, routineVars, voteReqs, aeReqs,
                   restarts, history>>
    /\ \/ RefuseVote(j, m)
       \/ RepeatVote(j, m)
       \/ MeetNewTerm(j, m)

\* Variant with a fault: -1 for a peer nothing is known of, as in voteFor.
BecomeLeaderMinusOne(i) ==
    /\ State' = [State EXCEPT ![i] = "Leader"]
    /\ nextIndex' = [nextIndex EXCEPT ![i] = [j \in Server |-> LastLogIndex(i) + 1]]
    /\ matchIndex' = [matchIndex EXCEPT ![i] =
                        [j \in Server |-> IF j = i THEN LastLogIndex(i) ELSE -1]]

\* Lines 236-247.
BecomeLeader(i) ==
    /\ State' = [State EXCEPT ![i] = "Leader"]
    /\ nextIndex' = [nextIndex EXCEPT ![i] = [j \in Server |-> LastLogIndex(i) + 1]]
    /\ matchIndex' = [matchIndex EXCEPT ![i] =
                        [j \in Server |-> IF j = i THEN LastLogIndex(i) ELSE 0]]

\* The loop counts a vote; with a majority it ends, and a candidate becomes leader.
CountVote(i, r) ==
    /\ r.granted /\ r.args.CandidateId = i /\ <<r.args.Term, r.from>> \in waiting[i]
    /\ r.args.Term = election[i].Term
    /\ waiting' = [waiting EXCEPT ![i] = @ \ {<<r.args.Term, r.from>>}]
    /\ LET granted == election[i].granted \cup {r.from}
           leads == IsMajority(granted) /\ State[i] = "Candidate"
       IN /\ election' = [election EXCEPT ![i] =
                            IF IsMajority(granted) THEN NoElection
                            ELSE [Term |-> election[i].Term, granted |-> granted]]
          /\ IF leads THEN BecomeLeader(i) ELSE UNCHANGED <<State, leaderVars>>
          /\ UNCHANGED <<Term, voteFor, logEntries, applyVars>>
          /\ IF leads THEN Persist(i) ELSE UNCHANGED disk
    /\ UNCHANGED <<calls, late, deferred, voteNet, aeReqs, restarts, history>>

\* A vote goroutine finds a term in its reply that is newer than its request's, and takes
\* it, whatever the peer's own term has become in the meantime.
TakeTermOfReply(i, r) ==
    /\ r.args.CandidateId = i /\ <<r.args.Term, r.from>> \in waiting[i]
    /\ r.Term > r.args.Term
    /\ waiting' = [waiting EXCEPT ![i] = @ \ {<<r.args.Term, r.from>>}]
    /\ StepDown(i, r.Term)
    /\ accident' = IF r.Term < Term[i] THEN accident \cup {"termBack"} ELSE accident
    /\ UNCHANGED <<voteFor, logEntries, applyVars, leaderVars, election, calls, deferred,
                   voteNet, aeReqs, restarts, started, panicked>>
    /\ Persist(i)

-----------------------------------------------------------------------------
(* Log replication *)

\* Start: GetState is read before the lock, the entry gets the term of the moment.
\* Nothing is persisted.
Start(i) ==
    /\ <<Term[i], LastLogIndex(i) + 1>> \in Startable
    /\ State[i] = "Leader" \/ i \in late[i]
    /\ logEntries' = [logEntries EXCEPT ![i] = Append(@, [Term |-> Term[i], Command |-> i])]
    /\ matchIndex' = [matchIndex EXCEPT ![i][i] = LastLogIndex(i) + 1]
    /\ late' = [late EXCEPT ![i] = IF State[i] = "Leader" THEN @ ELSE @ \ {i}]
    /\ accident' = IF State[i] = "Leader" THEN accident ELSE accident \cup {"strayStart"}
    /\ started' = started \cup {<<Term[i], LastLogIndex(i) + 1>>}
    /\ UNCHANGED <<voteVars, applyVars, nextIndex, disk, election, waiting, calls, deferred,
                   voteNet, aeReqs, restarts, panicked>>

\* getAppendEntriesArgs: from nextIndex on, or nothing after the last entry.
ArgsFor(i, j) ==
    LET prev == IF nextIndex[i][j] > LastLogIndex(i) THEN LastLogIndex(i)
                                                     ELSE nextIndex[i][j] - 1
    IN [LeaderId |-> i, to |-> j, Term |-> Term[i],
        PrevLogIndex |-> prev, PervLogTerm |-> TermAt(i, prev),
        Entries |-> SubSeq(logEntries[i], prev + 1, LastLogIndex(i)),
        LeaderCommit |-> commitIndex[i]]

\* appendEntriesToPeer: one round of the loop.  A call that was still open has timed
\* out.  With nextIndex 0 the code reads logEntries[-1]: the process dies.
SendAppendEntries(i, j) ==
    /\ i # j /\ <<i, j>> \in LogLinks
    /\ State[i] = "Leader" \/ j \in late[i]
    /\ late' = [late EXCEPT ![i] = IF State[i] = "Leader" THEN @ ELSE @ \ {j}]
    /\ IF nextIndex[i][j] = 0
       THEN panicked' = "sender" /\ UNCHANGED <<aeReqs, calls, accident>>
       ELSE /\ aeReqs' = aeReqs \cup {ArgsFor(i, j)}
            /\ <<Term[i], Cardinality({m \in aeReqs' : m.Term = Term[i]})>> \in Appends
            /\ calls' = [calls EXCEPT ![i][j] =
                           [open |-> TRUE, args |-> ArgsFor(i, j), replies |-> {}]]
            /\ accident' = IF State[i] = "Leader" THEN accident
                                                  ELSE accident \cup {"strayAppend"}
            /\ UNCHANGED panicked
    /\ UNCHANGED <<voteVars, logEntries, applyVars, leaderVars, disk, election, waiting,
                   deferred, voteNet, restarts, started>>

\* A call is answered once, and only while its sender waits on it; the network may lose
\* the answer.
AnswerAppend(j, m, reply) ==
    LET call == calls[m.LeaderId][j]
    IN \/ UNCHANGED calls
       \/ /\ call.open /\ call.args = m /\ call.replies = {}
          /\ calls' = [calls EXCEPT ![m.LeaderId][j].replies = {reply}]

\* The log is cut to its first `keep` entries and `entries` are appended.  Entries of
\* the leader's own term that disappear are an accident: the leader has them.
Overwrite(j, keep, m, entries) ==
    LET new == SubSeq(logEntries[j], 1, keep) \o entries
        lost == {k \in 1..Len(logEntries[j]) :
                   /\ logEntries[j][k].Term = m.Term
                   /\ k > Len(new) \/ new[k] # logEntries[j][k]}
    IN /\ logEntries' = [logEntries EXCEPT ![j] = new]
       /\ accident' = IF lost # {} THEN accident \cup {"lateCut"} ELSE accident

\* Line 331: an older term.
RejectAppend(j, m) ==
    /\ m.Term < Term[j]
    /\ AnswerAppend(j, m, [Term |-> Term[j], Success |-> FALSE, NextIndex |-> 0])
    /\ UNCHANGED <<voteVars, logEntries, late, deferred, disk, accident>>

Accepts(j, m) == m.Term >= Term[j] /\ StepDown(j, m.Term) /\ UNCHANGED voteFor

\* Variant with a fault: the index of the last entry, not of the one after it.
MissEntriesOneBefore(j, m) ==
    /\ m.PrevLogIndex > LastLogIndex(j)
    /\ Accepts(j, m)
    /\ AnswerAppend(j, m, [Term |-> Term[j], Success |-> FALSE,
                           NextIndex |-> LastLogIndex(j)])
    /\ UNCHANGED <<logEntries, deferred, accident>>
    /\ Persist(j)

\* Lines 342-347: entries before the call's are missing.
MissEntries(j, m) ==
    /\ m.PrevLogIndex > LastLogIndex(j)
    /\ Accepts(j, m)
    /\ AnswerAppend(j, m, [Term |-> Term[j], Success |-> FALSE,
                           NextIndex |-> LastLogIndex(j) + 1])
    /\ UNCHANGED <<logEntries, deferred, accident>>
    /\ Persist(j)

\* Lines 350-355: a heartbeat without entries cuts the log behind the sender's last.
CutTail(j, m) ==
    /\ m.PrevLogIndex < LastLogIndex(j) /\ m.Entries = <<>>
    /\ Accepts(j, m)
    /\ Overwrite(j, m.PrevLogIndex, m, <<>>)
    /\ AnswerAppend(j, m, [Term |-> Term[j], Success |-> FALSE,
                           NextIndex |-> LastLogIndex(j) + 1])
    /\ UNCHANGED deferred
    /\ Persist(j)

Matches(j, m) == TermAt(j, m.PrevLogIndex) = m.PervLogTerm

\* Lines 359-372: everything behind the previous entry is replaced, or, when that entry
\* differs, it goes too.  The commit index is not looked at.
OverwriteTail(j, m) ==
    /\ m.PrevLogIndex < LastLogIndex(j) /\ m.Entries # <<>>
    /\ Accepts(j, m)
    /\ IF Matches(j, m)
       THEN Overwrite(j, m.PrevLogIndex, m, m.Entries)
       ELSE Overwrite(j, m.PrevLogIndex - 1, m, <<>>)
    /\ AnswerAppend(j, m, [Term |-> Term[j], Success |-> Matches(j, m),
                           NextIndex |-> m.PrevLogIndex + 1 +
                                           IF Matches(j, m) THEN Len(m.Entries) ELSE 0])
    /\ UNCHANGED deferred
    /\ Persist(j)

\* Lines 373-378: same length, another last entry.  The new term is not persisted.
RefuseTail(j, m) ==
    /\ m.PrevLogIndex = LastLogIndex(j) /\ ~Matches(j, m)
    /\ Accepts(j, m)
    /\ AnswerAppend(j, m, [Term |-> Term[j], Success |-> FALSE,
                           NextIndex |-> LastLogIndex(j) + 1])
    /\ UNCHANGED <<logEntries, deferred, accident, disk>>

\* Lines 379-396: the entries are appended; the commit index follows after the unlock.
AppendTail(j, m) ==
    /\ m.PrevLogIndex = LastLogIndex(j) /\ Matches(j, m)
    /\ Accepts(j, m)
    /\ Overwrite(j, m.PrevLogIndex, m, m.Entries)
    /\ deferred' = IF m.LeaderCommit = 0 THEN deferred     \* below no commitIndex
                   ELSE [deferred EXCEPT ![j] =
                           @ \cup {[commit |-> m.LeaderCommit, seen |-> FALSE]}]
    /\ AnswerAppend(j, m, [Term |-> Term[j], Success |-> TRUE,
                           NextIndex |-> m.PrevLogIndex + 1 + Len(m.Entries)])
    /\ Persist(j)

AppendEntries(j, m) ==
    /\ m.to = j
    /\ UNCHANGED <<applyVars, leaderVars, election, waiting, voteNet, aeReqs, restarts,
                   started, panicked>>
    /\ \/ RejectAppend(j, m)
       \/ MissEntries(j, m)
       \/ CutTail(j, m)
       \/ OverwriteTail(j, m)
       \/ RefuseTail(j, m)
       \/ AppendTail(j, m)

\* Lines 391-393, outside the lock: the comparison, and the assignment it allowed.
CompareCommit(j, c) ==
    /\ ~c.seen
    /\ deferred' = [deferred EXCEPT ![j] =
                      (@ \ {c}) \cup IF commitIndex[j] < c.commit
                                     THEN {[c EXCEPT !.seen = TRUE]} ELSE {}]
    /\ UNCHANGED <<voteVars, logEntries, applyVars, leaderVars, disk, election, waiting,
                   calls, late, voteNet, aeReqs, restarts, history>>

AssignCommit(j, c) ==
    /\ c.seen
    /\ deferred' = [deferred EXCEPT ![j] = @ \ {c}]
    /\ commitIndex' = [commitIndex EXCEPT ![j] = c.commit]
    /\ notified' = [notified EXCEPT ![j] = TRUE]
    /\ UNCHANGED <<voteVars, logEntries, lastApplied, applied, leaderVars, disk, election,
                   waiting, calls, late, voteNet, aeReqs, restarts, history>>

\* updateCommitIndex: the last entry of this term that a majority has.  okbutnocommit
\* only ends the code's loop where no later entry can have one.
Committable(i, match) ==
    {k \in commitIndex[i] + 1 .. LastLogIndex(i) :
       TermAt(i, k) = Term[i] /\ IsMajority({j \in Server : match[j] >= k})}

AdvanceCommit(i, match) ==
    LET ready == Committable(i, match)
    IN IF ready = {} THEN UNCHANGED <<commitIndex, notified>>
       ELSE /\ commitIndex' = [commitIndex EXCEPT ![i] = Largest(ready)]
            /\ notified' = [notified EXCEPT ![i] = TRUE]

\* Lines 449-460: the peer took the call.
ReplyAccepted(i, j, m, r) ==
    /\ r.Success
    /\ nextIndex' = [nextIndex EXCEPT ![i][j] = r.NextIndex]
    /\ matchIndex' = [matchIndex EXCEPT ![i][j] = r.NextIndex - 1]
    /\ IF m.Entries # <<>> /\ m.Entries[Len(m.Entries)].Term = Term[i]
       THEN AdvanceCommit(i, [matchIndex[i] EXCEPT ![j] = r.NextIndex - 1])
       ELSE UNCHANGED <<commitIndex, notified>>
    /\ UNCHANGED panicked
    /\ Persist(i)

\* Lines 463-467: the peer's next index is news.
ReplyMoves(i, j, r) ==
    /\ ~r.Success /\ nextIndex[i][j] # r.NextIndex
    /\ nextIndex' = [nextIndex EXCEPT ![i][j] = r.NextIndex]
    /\ UNCHANGED <<matchIndex, commitIndex, notified, panicked>>
    /\ Persist(i)

\* Lines 471-482: from two before nextIndex back to an entry of a lower term than the
\* one that did not match.  The loop has no bound: index -1 ends the process.
ReplyBacksUp(i, j, m, r) ==
    /\ ~r.Success /\ nextIndex[i][j] = r.NextIndex
    /\ UNCHANGED <<matchIndex, commitIndex, notified>>
    /\ LET lower == {k \in 0 .. nextIndex[i][j] - 2 : TermAt(i, k) < m.PervLogTerm}
       IN IF lower = {} THEN panicked' = "sender" /\ UNCHANGED <<nextIndex, disk>>
          ELSE /\ nextIndex' = [nextIndex EXCEPT ![i][j] = Largest(lower)]
               /\ UNCHANGED panicked
               /\ Persist(i)

\* checkReply
CheckReply(i, j, r) ==
    LET m == calls[i][j].args
    IN /\ calls' = [calls EXCEPT ![i][j] = NoCall]
       /\ UNCHANGED <<voteFor, logEntries, lastApplied, applied, election, waiting, deferred,
                      voteNet, aeReqs, restarts, accident, started>>
       /\ \/ /\ r.Term > Term[i]
             /\ StepDown(i, r.Term)
             /\ UNCHANGED <<leaderVars, commitIndex, notified, panicked>>
             /\ Persist(i)
          \/ /\ r.Term <= Term[i]
             /\ State[i] # "Leader" \/ Term[i] # m.Term
             /\ UNCHANGED <<State, Term, late, leaderVars, commitIndex, notified, disk,
                            panicked>>
          \/ /\ r.Term <= Term[i] /\ State[i] = "Leader" /\ Term[i] = m.Term
             /\ UNCHANGED <<State, Term, late>>
             /\ \/ ReplyAccepted(i, j, m, r)
                \/ ReplyMoves(i, j, r)
                \/ ReplyBacksUp(i, j, m, r)

-----------------------------------------------------------------------------
(* Applying, restarts *)

\* startApplyLogs: entries from lastApplied + 1 to commitIndex reach the service, all
\* or, when the peer is slow, the first of them.  An index beyond the log ends the process.
StartApplyLogs(i) ==
    /\ notified[i]
    /\ UNCHANGED <<voteVars, logEntries, commitIndex, leaderVars, routineVars, voteNet,
                   aeReqs, restarts, accident, started>>
    /\ \/ /\ commitIndex[i] <= lastApplied[i]
          /\ notified' = [notified EXCEPT ![i] = FALSE]
          /\ UNCHANGED <<lastApplied, applied, disk, panicked>>
       \/ /\ commitIndex[i] > LastLogIndex(i)
          /\ panicked' = "applier"
          /\ UNCHANGED <<lastApplied, notified, applied, disk>>
       \/ /\ lastApplied[i] < commitIndex[i] /\ commitIndex[i] <= LastLogIndex(i)
          /\ \E k \in lastApplied[i] + 1 .. commitIndex[i] :
               /\ applied' = [applied EXCEPT ![i] =
                                SubSeq(@, 1, lastApplied[i]) \o
                                SubSeq(logEntries[i], lastApplied[i] + 1, k)]
               /\ lastApplied' = [lastApplied EXCEPT ![i] = k]
               /\ notified' = [notified EXCEPT ![i] = k < commitIndex[i]]
          /\ UNCHANGED panicked
          /\ Persist(i)

\* crash1 and start1: a new peer from the persister's state.  The service keeps its log.
Restart(i) ==
    /\ i \in Restartable /\ restarts < MaxRestarts
    /\ restarts' = restarts + 1
    /\ State' = [State EXCEPT ![i] = "Follower"]
    /\ Term' = [Term EXCEPT ![i] = disk[i].Term]
    /\ voteFor' = [voteFor EXCEPT ![i] = disk[i].voteFor]
    /\ logEntries' = [logEntries EXCEPT ![i] = disk[i].logEntries]
    /\ commitIndex' = [commitIndex EXCEPT ![i] = disk[i].commitIndex]
    /\ lastApplied' = [lastApplied EXCEPT ![i] = disk[i].lastApplied]
    /\ nextIndex' = [nextIndex EXCEPT ![i] = [j \in Server |-> 0]]
    /\ matchIndex' = [matchIndex EXCEPT ![i] = [j \in Server |-> 0]]
    /\ election' = [election EXCEPT ![i] = NoElection]
    /\ waiting' = [waiting EXCEPT ![i] = {}]
    /\ calls' = [calls EXCEPT ![i] = [j \in Server |-> NoCall]]
    /\ late' = [late EXCEPT ![i] = {}]
    /\ deferred' = [deferred EXCEPT ![i] = {}]
    /\ notified' = [notified EXCEPT ![i] = FALSE]
    /\ UNCHANGED <<disk, applied, voteNet, aeReqs, history>>

\* The peers of a test are one process: none goes on after a panic.
Alive == IF panicked = "no" THEN Server ELSE {}
Open(i) == {j \in Server : calls[i][j].open}

Next ==
    \/ \E i \in Alive : StartElection(i)
    \/ \E j \in Alive, m \in voteReqs : RequestVote(j, m)
    \/ \E i \in Alive, r \in voteReplies : CountVote(i, r)
    \/ \E i \in Alive, r \in voteReplies : TakeTermOfReply(i, r)
    \/ \E i \in Alive : Start(i)
    \/ \E i, j \in Alive : SendAppendEntries(i, j)
    \/ \E j \in Alive, m \in aeReqs : AppendEntries(j, m)
    \/ \E j \in Alive : \E c \in deferred[j] : CompareCommit(j, c)
    \/ \E j \in Alive : \E c \in deferred[j] : AssignCommit(j, c)
    \/ \E i \in Alive : \E j \in Open(i) : \E r \in calls[i][j].replies : CheckReply(i, j, r)
    \/ \E i \in Alive : StartApplyLogs(i)
    \/ \E i \in Alive : Restart(i)

Spec == Init /\ [][Next]_vars

-----------------------------------------------------------------------------
(* Properties *)

\* Every variable, message and persisted record has its type.
TypeOK ==
    /\ State \in [Server -> {"Follower", "Candidate", "Leader"}]
    /\ Term \in [Server -> Nat]
    /\ voteFor \in [Server -> VoteFor]
    /\ \A i \in Server : logEntries[i] \in Seq(LogEntry) /\ applied[i] \in Seq(LogEntry)
    /\ commitIndex \in [Server -> Nat] /\ lastApplied \in [Server -> Nat]
    /\ nextIndex \in [Server -> [Server -> Nat]]
    /\ matchIndex \in [Server -> [Server -> Nat]]
    /\ \A i \in Server : disk[i].Term \in Nat /\ disk[i].logEntries \in Seq(LogEntry)
    /\ voteReqs \subseteq RequestVoteArgs /\ voteReplies \subseteq RequestVoteReply
    /\ aeReqs \subseteq HeartBeatArgs
    /\ \A i, j \in Server :
         calls[i][j].open => calls[i][j].replies \subseteq AppendEntriesReply
    /\ late \in [Server -> SUBSET Server] /\ notified \in [Server -> BOOLEAN]

\* checkOneLeader of config.go: no term has two leaders at once -- as long as no late
\* refusal of an old election has set a peer's term back (lines 209-216 of raft.go).
OneLeader ==
    "termBack" \notin accident =>
        \A i, j \in Server :
            State[i] = "Leader" /\ State[j] = "Leader" /\ Term[i] = Term[j] => i = j

\* checkLogs of config.go: what one server has applied is in the log of every server that
\* counts that index as committed -- unless a stale role or term was acted on or a late
\* call cut a log.  Nor does startApplyLogs index past the log without such an accident.
CommittedAgree ==
    accident = {} =>
        /\ panicked # "applier"
        /\ \A i, j \in Server : \A k \in 1 .. Len(applied[i]) :
             k <= commitIndex[j] => /\ k <= Len(logEntries[j])
                                    /\ logEntries[j][k] = applied[i][k]

\* Two leaders have started different entries at one index.
RivalsStarted == \E a, b \in started : a[1] # b[1] /\ a[2] = b[2]

\* A sender's process dies on index -1 only after two leaders started different entries at
\* one index, or after one of the accidents: missing entries alone, however late the
\* answers come, never take nextIndex below 1.
SenderPanicsExplained == panicked = "sender" => RivalsStarted \/ accident # {}
=============================================================================
