-------------------------- MODULE ExtractionProperties --------------------------
(***************************************************************************)
(* The extractors against definitions that do not search from left to      *)
(* right.                                                                  *)
(***************************************************************************)
EXTENDS Extraction, TypedText

--------------------------------------------------------------------------------
(* A number as the comment on the expression lists them: digits, with one   *)
(* or two decimals or none.                                                 *)
IsNumber(s) ==
  \E n \in 1 .. Len(s) :
    /\ \A i \in 1 .. n : s[i] \in Digits
    /\ \/ Len(s) = n
       \/ /\ Len(s) \in {n + 2, n + 3} /\ s[n + 1] = "."
          /\ \A i \in n + 2 .. Len(s) : s[i] \in Digits

NumberCents(s) ==
  LET points == {i \in DOMAIN s : s[i] = "."}
      point  == Min(points)
  IN  IF points = {} THEN 100 * Natural(s)
      ELSE Natural(RemoveAt(s, point)) * (IF Len(s) = point + 1 THEN 10 ELSE 1)

(* The longest number that starts at i.                                     *)
NumberAt(i) ==
  SubSeq(text, i, Max({j \in i .. Len(text) : IsNumber(SubSeq(text, i, j))}))

DigitPositions == {i \in DOMAIN text : text[i] \in Digits}

(* extract_amount reads the first number of the text, whole up to its       *)
(* second decimal, whatever signs, spaces and points are around it, and     *)
(* reads none only in a text without digits.  So a text with an account id  *)
(* is never asked for its amount.                                           *)
AmountIsFirstNumber ==
  ExtractAmount(text) =
    IF DigitPositions = {} THEN None ELSE NumberCents(NumberAt(Min(DigitPositions)))

(* The account ids of a text: letters, a hyphen and digits that no letter,  *)
(* digit or underscore extends on either side.                              *)
IdSpans ==
  {s \in (DOMAIN text) \X (DOMAIN text) :
     /\ At(text, s[1] - 1) \notin Word /\ At(text, s[2] + 1) \notin Word
     /\ \E h \in s[1] + 1 .. s[2] - 1 :
          /\ text[h] = "-"
          /\ \A i \in s[1] .. h - 1 : text[i] \in Letters
          /\ \A i \in h + 1 .. s[2] : text[i] \in Digits}

UpperOf(c) == IF c \in Letters THEN Upper[c] ELSE c

(* extract_user_id returns the first account id of the text, from its first *)
(* letter to its last digit and in upper case, whatever characters are      *)
(* around it, and none only where the text has none.                        *)
UserIdIsFirstId ==
  IF IdSpans = {} THEN ExtractUserId(text) = None
  ELSE \E s \in IdSpans :
         /\ \A r \in IdSpans : s[1] <= r[1]
         /\ ExtractUserId(text) =
              [i \in 1 .. s[2] - s[1] + 1 |-> UpperOf(text[s[1] + i - 1])]

(* "Extract the first monetary amount mentioned in the text": the first     *)
(* number that is not the number of an account.                             *)
AmountIsMonetary ==
  LET ofIds    == UNION {s[1] .. s[2] : s \in IdSpans}
      monetary == DigitPositions \ ofIds
  IN  ExtractAmount(text) =
        IF monetary = {} THEN None ELSE NumberCents(NumberAt(Min(monetary)))
================================================================================
