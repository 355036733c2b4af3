------------------------------- MODULE MCConsole -------------------------------
(* A small instance of Console: two high-value tickets that ask for         *)
(* different amounts.                                                       *)
EXTENDS Console, TLC

CONSTANTS high, higher, empty, none, t1, w1, c1, c2

MCIds    == {"VIP-01"}
MCCrmKey == [id \in MCIds |-> id]
MCCrmUsers == {"VIP-01"}

MCExtractAmount ==
  [text \in Texts \cup {NoText} |-> CASE text = high -> 600 [] text = higher -> 900
                           [] OTHER -> none]
MCExtractUserId ==
  [text \in Texts \cup {NoText} |-> IF text \in Texts THEN "VIP-01" ELSE none]
================================================================================
