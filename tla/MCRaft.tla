------------------------------- MODULE MCRaft -------------------------------
(* Instances of Raft for TLC: who may lead when, and which links deliver. *)
EXTENDS RaftSafety, TLC

CONSTANTS s1, s2, s3, s4, s5, v1, v2

(* Links *)
AllLinks == {l \in Server \X Server : l[1] # l[2]}
S1ToS2 == {<<s1, s2>>}
S1ToBoth == {<<s1, s2>>, <<s1, s3>>}
VotesOfS2 == {<<s1, s2>>, <<s3, s2>>}
VotesOfS3AndS4 == {<<s1, s3>>, <<s1, s4>>}

(* Who campaigns, and what they start *)
\* s1 and s2 may each campaign twice; s3 only votes.
TwoCandidates == {s1, s2} \X {1, 2}
\* s1 leads term 1, and again term 3 after s3 has led term 2.
InTurn == {<<s1, 1>>, <<s3, 2>>, <<s1, 3>>}
\* s3 may also take over in term 4.
FigureEight == {<<s1, 1>>, <<s3, 1>>, <<s3, 2>>, <<s1, 3>>, <<s3, 4>>}
\* One command at index 1 in terms 1 and 2, one at index 2 in term 3.
OneThenNext == {<<1, 1>>, <<2, 1>>, <<3, 2>>}

\* s1 leads term 1 and two commands are started.
S1Once == {<<s1, 1>>}
TwoInTerm1 == {<<1, 1>>, <<1, 2>>}

\* s3, once it follows, campaigns in term 2, but nobody hears of it before s1 calls it.
S3Rebels == {<<s1, 1>>, <<s3, 2>>}

\* s1 leads terms 1 and 2 and starts a command in each.
S1Twice == {<<s1, 1>>, <<s1, 2>>}
OneInEach == {<<1, 1>>, <<2, 2>>}

\* s1 leads term 1, s3 term 3 and s2 term 4; before, s1 votes for s2, a candidate of term 2.
OneAfterTheOther == {<<s1, 1>>, <<s2, 1>>, <<s2, 2>>, <<s3, 2>>, <<s3, 3>>, <<s2, 4>>}
VotesInARing == {<<s1, s3>>, <<s2, s1>>, <<s3, s2>>}
CallsInARing == {<<s1, s2>>, <<s3, s1>>, <<s2, s1>>}
OneInTerms3And4 == {<<3, 1>>, <<4, 1>>}
\* Of all behaviours those in which s1's call to s2 is under way from term 1 on.
LateReply ==
    /\ \A i, j \in Server : aeCall[i][j].open => Cardinality(aeCall[i][j].replies) <= 1
    /\ \A i \in Server : role[i] = "Leader" => <<i, currentTerm[i]>> \in {<<s1, 1>>, <<s3, 3>>, <<s2, 4>>}
    /\ \A m \in aeReqs : m.leaderId # s1 => m.entries # <<>>
    /\ (\E i \in Server : currentTerm[i] > 1) => aeReqs # {}

SymmetryOfValues == Permutations({v1, v2})
SymmetryOfTwo == Permutations({s1, s2})
=============================================================================
