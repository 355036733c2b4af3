-------------------------------- MODULE MCTexts --------------------------------
(* One letter in both cases, two digits, and the characters the regular     *)
(* expressions tell apart.  Each algorithm has an alphabet of its own; that *)
(* of Redaction is made of halves of addresses, so that texts are long      *)
(* enough for two of them.                                                  *)
EXTENDS ExtractionProperties, RedactionProperties, RetrievalProperties

CONSTANT none

MCUpper == [c \in {"v", "V"} |-> "V"]

Characters(chars) == {<<c>> : c \in chars}

MCAlphabets ==
  {[pieces |-> Characters({"v", "V", "0", "5", "-", "$", ".", " ", "_"}), length |-> 6],
   [pieces |-> Characters({"v", "@", ".", " ", "_"}) \cup {<<"v", "@", "v">>, <<".", "v", "v">>},
    length |-> 6],
   [pieces |-> Characters({"v", "V", "0"}) \cup {<<" ", "v">>, <<" ", "0">>}, length |-> 5]}

MCTicketAlphabets ==
  {[pieces |-> Characters({"v", "0", "5", "-", "$", " "}), length |-> 6]}

(* Equal scores, repeated words, words that contain others.                 *)
MCDocs == <<<<"v", "0", " ", "v">>, <<"0", " ", "V", "v">>, <<"V", "-", "0">>, <<"v", " ", "0">>>>
================================================================================
