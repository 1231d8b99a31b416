----------------------------- MODULE MCLab3ARaft -----------------------------
(* Values of the constants of Lab3ARaft that a configuration cannot write:   *)
(* s1 may lead term 1; s2 competes with it there and may lead terms 2 and 3. *)
(* s3 votes and follows, and may crash.                                      *)
EXTENDS Lab3ARaft

CONSTANTS s1, s2, s3

S2ThreeTimes == {<<s1, 1>>, <<s2, 1>>, <<s2, 2>>, <<s2, 3>>}
VotesOfS3 == {<<s1, s3>>, <<s2, s3>>}
ToS3AndS1 == {<<s1, s3>>, <<s2, s3>>, <<s2, s1>>}
LateStartOfS1 == {<<s1, s1>>}
OneInEach == {<<1, 1>>, <<2, 1>>}
OneCallInEach == {<<1, 1>>, <<2, 1>>, <<3, 1>>}
=============================================================================
