------------------------------- MODULE Characters -------------------------------
(***************************************************************************)
(* The character classes and the greedy runs that the regular expressions  *)
(* of Extraction, Redaction and Retrieval are made of, for ASCII.  A text  *)
(* is a sequence of characters.                                            *)
(***************************************************************************)
EXTENDS Integers, SequencesExt

CONSTANTS
  Upper,      (* each ASCII letter's upper-case form                        *)
  None

Letters == DOMAIN Upper

Numerals == <<"0", "1", "2", "3", "4", "5", "6", "7", "8", "9">>
Digits == ToSet(Numerals)

(* The word characters of \b.                                               *)
Word == Letters \cup Digits \cup {"_"}

ASSUME CharactersAssumption ==
  /\ Letters \cap (Digits \cup {"$", " ", ".", "-", "_", "@", "%", "+", ""}) = {}
  /\ Upper \in [Letters -> Letters]

(* No character, "", before the beginning and after the end.                *)
At(text, i) == IF i \in DOMAIN text THEN text[i] ELSE ""

(* Where the longest run of chars that starts at i ends; i - 1 without one. *)
RunEnd(text, i, chars) == Min({j \in i .. Len(text) + 1 : At(text, j) \notin chars}) - 1

Uppercase(chars) ==
  [i \in DOMAIN chars |-> IF chars[i] \in Letters THEN Upper[chars[i]] ELSE chars[i]]
================================================================================
