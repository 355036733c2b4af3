------------------------------- MODULE TypedText -------------------------------
(***************************************************************************)
(* Every text of up to a length over an alphabet, for the properties of    *)
(* the pure string algorithms.                                             *)
(***************************************************************************)
EXTENDS Integers, Sequences

CONSTANT Alphabets  (* bound: pieces texts are made of, and how many of them *)

ASSUME TypedTextAssumption ==
  \A a \in Alphabets : \A piece \in a.pieces : piece \in Seq(STRING)

VARIABLES text, length, alphabet

Init == text = << >> /\ length = 0 /\ alphabet \in Alphabets

Type ==
  /\ length < alphabet.length
  /\ \E piece \in alphabet.pieces : text' = text \o piece
  /\ length' = length + 1
  /\ UNCHANGED alphabet

Clear == length > 0 /\ text' = << >> /\ length' = 0 /\ UNCHANGED alphabet

Next == Type \/ Clear

Spec == Init /\ [][Next]_<<text, length, alphabet>>
================================================================================
