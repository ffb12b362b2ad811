---------------------------- MODULE MCCajoleit ----------------------------
(* An instance of Cajoleit: one input for every way through doPost.         *)
EXTENDS Cajoleit, TLC

Good == [method |-> "POST", key |-> "right", source |-> "text", type |-> "coffee",
         coffee |-> FALSE, compiles |-> TRUE, cajoles |-> TRUE]

MCInputs ==
    {Good,
     [Good EXCEPT !.method = "GET"], [Good EXCEPT !.key = "wrong"], [Good EXCEPT !.source = "long"],
     [Good EXCEPT !.type = "other"], [Good EXCEPT !.type = "js"],
     [Good EXCEPT !.coffee = TRUE], [Good EXCEPT !.compiles = FALSE], [Good EXCEPT !.cajoles = FALSE]}

RequestSymmetry == Permutations(Requests)
=============================================================================
