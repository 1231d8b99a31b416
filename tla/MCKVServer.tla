----------------------------- MODULE MCKVServer ------------------------------
(* Instances of KVServer for TLC: a clerk that writes twice, the first     *)
(* request tried twice, beside a clerk that reads.                         *)
EXTENDS KVServer, TLC
CONSTANTS c1, c2
Clerks == {c1, c2}
WriterAndReader == c1 :> <<{"Put"}, {"Append"}>> @@ c2 :> <<{"Get"}>>
FirstTwice == c1 :> <<2, 1>> @@ c2 :> <<1>>
Restarts == {0}
=============================================================================
