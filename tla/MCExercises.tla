---------------------------- MODULE MCExercises ----------------------------
(* Two goroutines of a kind and three rounds each, over a channel of one place. *)
EXTENDS Exercises

ThreeWords == <<1, 2, 1>>
=============================================================================
