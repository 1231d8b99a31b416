----------------------------- MODULE CommitLog -----------------------------
(***************************************************************************)
(* What the peers promise their services, and nothing of how they agree:   *)
(* each peer knows a log that is committed, which only grows, and of any   *)
(* two peers one knows the beginning of what the other knows.  Raft.tla    *)
(* implements this as long as no log is compacted (LogRefined in           *)
(* RaftSafety.tla).                                                        *)
(***************************************************************************)
EXTENDS Sequences, SequencesExt

CONSTANTS Server

VARIABLES known    \* known[i]: the committed log, as far as peer i knows it

Init == known = [i \in Server |-> <<>>]

Agree(log1, log2) == IsPrefix(log1, log2) \/ IsPrefix(log2, log1)

\* A peer commits, or hears of, the entries that come next.
Learn(i) ==
    /\ known' = [known EXCEPT ![i] = known'[i]]
    /\ IsPrefix(known[i], known'[i])
    /\ \A j \in Server : Agree(known'[i], known[j])

Next == \E i \in Server : Learn(i)

Spec == Init /\ [][Next]_known

=============================================================================
