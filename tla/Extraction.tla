------------------------------- MODULE Extraction -------------------------------
(***************************************************************************)
(* What the two regular expressions read in the text of a ticket: the      *)
(* amount (src/agents/billing.py) and the account id (src/agents/          *)
(* supervisor.py).  Everything else about money depends on them.  An amount*)
(* is in cents.                                                            *)
(***************************************************************************)
EXTENDS Characters

DigitValue == [d \in Digits |-> (CHOOSE i \in DOMAIN Numerals : Numerals[i] = d) - 1]

Natural(digits) ==
  LET value[n \in 0 .. Len(digits)] ==
        IF n = 0 THEN 0 ELSE 10 * value[n - 1] + DigitValue[digits[n]]
  IN  value[Len(digits)]

--------------------------------------------------------------------------------
(* extract_amount: search for  \$?\s*(\d+(?:\.\d{1,2})?)                    *)

AfterPrefix(text, i) ==
  RunEnd(text, IF At(text, i) = "$" THEN i + 1 ELSE i, {" "}) + 1

AmountStarts(text) == {i \in DOMAIN text : At(text, AfterPrefix(text, i)) \in Digits}

(* The decimals of the group: one or two digits after a point, or none.     *)
Decimals(text, point) ==
  LET to == RunEnd(text, point + 1, Digits)
  IN  IF At(text, point) # "." THEN << >>
      ELSE SubSeq(text, point + 1, IF to > point + 2 THEN point + 2 ELSE to)

Cents(decimals) == IF Len(decimals) = 1 THEN 10 * Natural(decimals) ELSE Natural(decimals)

(* Mutant: the decimals are left out of the group.                          *)
ExtractAmountWhole(text) ==
  LET from == AfterPrefix(text, Min(AmountStarts(text)))
  IN  IF AmountStarts(text) = {} THEN None
      ELSE 100 * Natural(SubSeq(text, from, RunEnd(text, from, Digits)))

ExtractAmount(text) ==
  LET from == AfterPrefix(text, Min(AmountStarts(text)))
      to   == RunEnd(text, from, Digits)
  IN  IF AmountStarts(text) = {} THEN None
      ELSE 100 * Natural(SubSeq(text, from, to)) + Cents(Decimals(text, to + 1))

--------------------------------------------------------------------------------
(* extract_user_id: search for  \b([A-Za-z]+-\d+)\b , in upper case         *)

IdEnd(text, i) == RunEnd(text, RunEnd(text, i, Letters) + 2, Digits)

IdAt(text, i) ==
  LET hyphen == RunEnd(text, i, Letters) + 1
  IN  /\ At(text, i - 1) \notin Word /\ At(text, i) \in Letters
      /\ At(text, hyphen) = "-" /\ At(text, hyphen + 1) \in Digits
      /\ At(text, IdEnd(text, i) + 1) \notin Word

ExtractUserIdAsTyped(text) ==   (* mutant: not put in upper case *)
  LET ids == {i \in DOMAIN text : IdAt(text, i)}
  IN  IF ids = {} THEN None ELSE SubSeq(text, Min(ids), IdEnd(text, Min(ids)))

ExtractUserId(text) ==
  LET ids == {i \in DOMAIN text : IdAt(text, i)}
  IN  IF ids = {} THEN None
      ELSE Uppercase(SubSeq(text, Min(ids), IdEnd(text, Min(ids))))
================================================================================
