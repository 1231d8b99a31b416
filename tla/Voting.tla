------------------------------- MODULE Voting -------------------------------
(***************************************************************************)
(* What an election promises, and nothing of how it is run: each peer has  *)
(* a term and the vote it gave last, votes once cast stay cast, and a peer *)
(* leads when a majority of the votes of its term are for it.  There are   *)
(* no requests, no replies, no logs and no disks here: Raft.tla, with its  *)
(* network, its timeouts, its restarts and its snapshots, implements this  *)
(* (VotingRefined, proved in RaftProofs.tla).                              *)
(***************************************************************************)
EXTENDS Integers

CONSTANTS
    Server, Nil,
    Majorities   \* the sets of peers that are enough to lead

VARIABLES
    term,      \* the term each peer is in
    choice,    \* the vote it gave last
    votes,     \* the votes given to others: <<voter, candidate, term>>
    leaders    \* the peers that lead

ballot == <<term, choice, votes, leaders>>

Init ==
    /\ term = [i \in Server |-> 0]
    /\ choice = [i \in Server |-> Nil]
    /\ votes = {}
    /\ leaders = {}

\* A peer that does not lead moves on to the next term and is for itself.
Campaign(i) ==
    /\ i \notin leaders
    /\ term' = [term EXCEPT ![i] = @ + 1]
    /\ choice' = [choice EXCEPT ![i] = i]
    /\ UNCHANGED <<votes, leaders>>

\* i may go on to any later term; nobody else's term changes.
Advances(i) ==
    /\ term'[i] >= term[i]
    /\ term' = [term EXCEPT ![i] = term'[i]]

\* A vote for another, in a term that is not over: in the voter's own term only if it
\* has none there, or has that one, and does not lead.
Cast(j, i) ==
    /\ i # j /\ Advances(j)
    /\ term'[j] = term[j] => choice[j] \in {Nil, i} /\ j \notin leaders
    /\ choice' = [choice EXCEPT ![j] = i]
    /\ votes' = votes \cup {<<j, i, term'[j]>>}
    /\ leaders' = leaders \ {j}

\* Those that are for i in its term, itself included.
Supporters(i) == {i} \cup {j \in Server : <<j, i, term[i]>> \in votes}

Lead(i) ==
    /\ choice[i] = i
    /\ \E Q \in Majorities : Q \subseteq Supporters(i)
    /\ leaders' = leaders \cup {i}
    /\ UNCHANGED <<term, choice, votes>>

\* A peer that leads no more, or is in a newer term.  It may forget a vote of an older
\* term and a vote for itself, and never one for another in the term it is in.
StepDown(i) ==
    /\ Advances(i)
    /\ \/ UNCHANGED choice
       \/ /\ term'[i] > term[i] \/ choice[i] = i
          /\ choice' = [choice EXCEPT ![i] = Nil]
    /\ leaders' = leaders \ {i}
    /\ UNCHANGED votes

Next ==
    \/ \E i \in Server : Campaign(i)
    \/ \E i, j \in Server : Cast(j, i)
    \/ \E i \in Server : Lead(i)
    \/ \E i \in Server : StepDown(i)

Spec == Init /\ [][Next]_ballot

=============================================================================
