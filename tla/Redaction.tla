------------------------------- MODULE Redaction -------------------------------
(***************************************************************************)
(* How the audit trail masks e-mail addresses before they are written      *)
(* (src/audit/logger.py): each match of                                    *)
(*    [A-Za-z0-9._%+-]+@[A-Za-z0-9.-]+\.[A-Za-z]{2,}                       *)
(* keeps its first character and what follows the @.                       *)
(***************************************************************************)
EXTENDS Characters

LocalPart == Letters \cup Digits \cup {".", "_", "%", "+", "-"}
Domain    == Letters \cup Digits \cup {".", "-"}

Mask == <<"*", "*", "*">>

(* The @ that follows the local part that starts at i.                      *)
AtSign(text, i) == RunEnd(text, i, LocalPart) + 1

(* The points of the domain that a match may take as its last.              *)
LastPoints(text, i) ==
  {p \in AtSign(text, i) + 2 .. RunEnd(text, AtSign(text, i) + 1, Domain) :
     text[p] = "." /\ At(text, p + 1) \in Letters /\ At(text, p + 2) \in Letters}

Matches(text, i) ==
  /\ At(text, i) \in LocalPart /\ At(text, AtSign(text, i)) = "@"
  /\ LastPoints(text, i) # {}

(* The domain is greedy: its last possible point, and all letters after it. *)
MatchEnd(text, i) == RunEnd(text, Max(LastPoints(text, i)) + 1, Letters)

(* Mutant: only the first address is masked.                                *)
MaskEmailOnce(text) ==
  LET starts == {i \in DOMAIN text : Matches(text, i)}
      i == Min(starts)
  IN  IF starts = {} THEN text
      ELSE SubSeq(text, 1, i) \o Mask \o SubSeq(text, AtSign(text, i), Len(text))

(* mask_email: the matches from left to right, each after the one before.   *)
MaskEmail(text) ==
  LET masked[i \in 1 .. Len(text) + 1] ==
        IF i > Len(text) THEN << >>
        ELSE IF Matches(text, i)
        THEN <<text[i]>> \o Mask \o SubSeq(text, AtSign(text, i), MatchEnd(text, i))
               \o masked[MatchEnd(text, i) + 1]
        ELSE <<text[i]>> \o masked[i + 1]
  IN  masked[1]
================================================================================
