------------------------------- MODULE TextProofs ------------------------------
(***************************************************************************)
(* What the expressions read and mask, and what the ranking finds, for     *)
(* texts of any length over any alphabet.                                  *)
(* A search from left to right is a least element, a greedy run ends at    *)
(* one; so everything here rests on sets of numbers having least elements, *)
(* which is taken from the well-foundedness of finite sets under           *)
(* inclusion.                                                              *)
(***************************************************************************)
EXTENDS ExtractionProperties, RedactionProperties, RetrievalProperties, FiniteSetTheorems, TLAPS

LEMMA LeastElement ==
  ASSUME NEW S \in SUBSET Nat, S # {}
  PROVE  \E x \in S : \A y \in S : x <= y
<1> DEFINE T == {0 .. x : x \in S}
<1>1. T \subseteq FiniteSubsetsOf(Nat)
  <2> SUFFICES ASSUME NEW x \in S PROVE 0 .. x \in FiniteSubsetsOf(Nat)
    OBVIOUS
  <2>1. IsFiniteSet(0 .. x)
    BY FS_Interval
  <2> QED
    BY <2>1 DEF FiniteSubsetsOf
<1>2. PICK t \in T : \A u \in T : ~ (<<u, t>> \in StrictSubsetOrdering(Nat))
  <2>1. T # {}
    OBVIOUS
  <2> HIDE DEF T
  <2> QED
    BY <1>1, <2>1, FS_StrictSubsetOrderingWellFounded, WFMin
<1>3. PICK x \in S : t = 0 .. x
  OBVIOUS
<1>4. ASSUME NEW y \in S, y < x PROVE FALSE
  <2>1. 0 .. y \in T /\ 0 .. y \subseteq 0 .. x /\ x \notin 0 .. y /\ x \in 0 .. x
    BY <1>4
  <2> HIDE DEF T
  <2>2. <<0 .. y, 0 .. x>> \in StrictSubsetOrdering(Nat)
    BY <2>1 DEF StrictSubsetOrdering
  <2> QED
    BY <1>2, <1>3, <2>1, <2>2
<1> QED
  BY <1>4

LEMMA MinIs ==
  ASSUME NEW S \in SUBSET Nat, S # {}
  PROVE  Min(S) \in S /\ \A y \in S : Min(S) <= y
BY LeastElement DEF Min

LEMMA MinIsThat ==
  ASSUME NEW S \in SUBSET Nat, NEW m \in S, \A y \in S : m <= y
  PROVE  Min(S) = m
<1>1. Min(S) \in S /\ Min(S) <= m
  BY MinIs
<1>2. m <= Min(S) /\ m \in Nat /\ Min(S) \in Nat
  BY <1>1
<1> QED
  BY <1>1, <1>2

--------------------------------------------------------------------------------
(* Characters and greedy runs.                                              *)
Chars == STRING \cup Letters

(* The characters the expressions name.                                     *)
NoChar == ""
Hyphen == "-"
Dollar == "$"
Blank  == " "
Point  == "."
Marks  == {NoChar, Hyphen, Dollar, Blank, Point}

LEMMA Classes ==
  /\ \A m \in Marks : m \notin Word
  /\ \A c \in Letters : c \in Word /\ c \notin Digits
  /\ \A c \in Digits : c \in Word
  /\ Hyphen # NoChar /\ Dollar # NoChar /\ Point # NoChar /\ Blank # NoChar
  /\ Dollar # Blank
<1>1. Digits = {"0", "1", "2", "3", "4", "5", "6", "7", "8", "9"}
  BY DEF Digits, Numerals, ToSet
<1> QED
  BY <1>1, CharactersAssumption, Zenon
     DEF Word, Marks, NoChar, Hyphen, Dollar, Blank, Point

LEMMA MarkIs ==
  /\ NoChar \in Marks /\ Hyphen \in Marks /\ Dollar \in Marks
  /\ Blank \in Marks /\ Point \in Marks
BY Zenon DEF Marks

LEMMA NoLetter ==
  ASSUME NEW m \in Marks
  PROVE  m \notin Word /\ m \notin Letters /\ m \notin Digits
BY Classes, Zenon

LEMMA AtIs ==
  ASSUME NEW s, NEW i
  PROVE  /\ i \in DOMAIN s => At(s, i) = s[i]
         /\ i \notin DOMAIN s => At(s, i) = NoChar
BY Zenon DEF At, NoChar

LEMMA RunEndIs ==
  ASSUME NEW s \in Seq(Chars), NEW i \in 1 .. Len(s) + 1, NEW chars, NoChar \notin chars
  PROVE  /\ RunEnd(s, i, chars) \in i - 1 .. Len(s)
         /\ \A j \in i .. RunEnd(s, i, chars) : s[j] \in chars
         /\ At(s, RunEnd(s, i, chars) + 1) \notin chars
<1> DEFINE S == {j \in i .. Len(s) + 1 : At(s, j) \notin chars}
           m == Min(S)
<1>1. Len(s) + 1 \in S
  <2>1. Len(s) + 1 \notin DOMAIN s
    OBVIOUS
  <2> QED
    BY <2>1, AtIs
<1>2. m \in S /\ \A j \in S : m <= j
  <2>1. S \in SUBSET Nat /\ S # {}
    BY <1>1
  <2> HIDE DEF S
  <2> QED
    BY <2>1, MinIs
<1>3. RunEnd(s, i, chars) = m - 1
  BY Zenon DEF RunEnd
<1> HIDE DEF m
<1>4. m \in i .. Len(s) + 1 /\ At(s, m) \notin chars
  BY <1>2
<1>5. ASSUME NEW j \in i .. m - 1 PROVE s[j] \in chars
  <2>1. j \in i .. Len(s) + 1 /\ j \in DOMAIN s /\ ~(m <= j)
    BY <1>4
  <2>2. At(s, j) \in chars
    BY <1>2, <2>1
  <2> QED
    BY <2>1, <2>2, AtIs
<1>6. m - 1 \in i - 1 .. Len(s) /\ m - 1 + 1 = m
  BY <1>4
<1> QED
  BY <1>3, <1>4, <1>5, <1>6

LEMMA RunEndIsThat ==
  ASSUME NEW s \in Seq(Chars), NEW i \in 1 .. Len(s) + 1, NEW chars, NoChar \notin chars,
         NEW e \in i - 1 .. Len(s), \A j \in i .. e : s[j] \in chars, At(s, e + 1) \notin chars
  PROVE  RunEnd(s, i, chars) = e
<1> DEFINE r == RunEnd(s, i, chars)
<1>1. r \in i - 1 .. Len(s) /\ (\A j \in i .. r : s[j] \in chars) /\ At(s, r + 1) \notin chars
  BY RunEndIs
<1> HIDE DEF r
<1>2. ~(r < e)
  <2> SUFFICES ASSUME r < e PROVE FALSE
    OBVIOUS
  <2>1. r + 1 \in i .. e /\ r + 1 \in DOMAIN s
    BY <1>1
  <2> QED
    BY <1>1, <2>1, AtIs
<1>3. ~(e < r)
  <2> SUFFICES ASSUME e < r PROVE FALSE
    OBVIOUS
  <2>1. e + 1 \in i .. r /\ e + 1 \in DOMAIN s
    BY <1>1
  <2> QED
    BY <1>1, <2>1, AtIs
<1> QED
  BY <1>1, <1>2, <1>3 DEF r

--------------------------------------------------------------------------------
(* Account ids.  IdAt finds with two runs exactly the beginnings of spans.  *)
Spans(s, i, e) ==
  /\ At(s, i - 1) \notin Word /\ At(s, e + 1) \notin Word
  /\ \E h \in i + 1 .. e - 1 : /\ s[h] = Hyphen
                               /\ \A j \in i .. h - 1 : s[j] \in Letters
                               /\ \A j \in h + 1 .. e : s[j] \in Digits

LEMMA IdAtIs ==
  ASSUME NEW s, NEW i, NEW l, NEW e, RunEnd(s, i, Letters) = l, RunEnd(s, l + 2, Digits) = e
  PROVE  /\ IdEnd(s, i) = e
         /\ IdAt(s, i) <=> /\ At(s, i - 1) \notin Word /\ At(s, i) \in Letters
                           /\ At(s, l + 1) = Hyphen /\ At(s, l + 1 + 1) \in Digits
                           /\ At(s, e + 1) \notin Word
BY Zenon DEF IdAt, IdEnd, Hyphen

LEMMA IdAtSpans ==
  ASSUME NEW s \in Seq(Chars), NEW i \in DOMAIN s, IdAt(s, i)
  PROVE  IdEnd(s, i) \in DOMAIN s /\ Spans(s, i, IdEnd(s, i))
<1>0. /\ i \in 1 .. Len(s) /\ NoChar \notin Letters /\ NoChar \notin Digits
      /\ NoChar # Hyphen /\ Hyphen \notin Letters
  BY Classes, MarkIs, NoLetter
<1> DEFINE l == RunEnd(s, i, Letters)
           e == RunEnd(s, l + 2, Digits)
<1>1. l \in i - 1 .. Len(s) /\ \A j \in i .. l : s[j] \in Letters
  BY <1>0, RunEndIs
<1>2. /\ At(s, i - 1) \notin Word /\ At(s, i) \in Letters
      /\ At(s, l + 1) = Hyphen /\ At(s, l + 1 + 1) \in Digits
      /\ At(s, e + 1) \notin Word /\ IdEnd(s, i) = e
  BY IdAtIs
<1>3. e = RunEnd(s, l + 2, Digits) /\ l + 1 + 1 = l + 2
  BY <1>1
<1> HIDE DEF l, e
<1>4. l + 1 \in DOMAIN s /\ l + 2 \in DOMAIN s
  BY <1>0, <1>2, <1>3, AtIs
<1>5. /\ e \in l + 1 .. Len(s) /\ \A j \in l + 2 .. e : s[j] \in Digits
      /\ At(s, e + 1) \notin Digits
  <2>1. l + 2 \in 1 .. Len(s) + 1 /\ (l + 2) - 1 = l + 1 /\ l \in Int
    BY <1>1, <1>4
  <2> DEFINE k == l + 2
  <2>2. k \in 1 .. Len(s) + 1 /\ e = RunEnd(s, k, Digits)
    BY <1>3, <2>1
  <2> HIDE DEF k
  <2>3. /\ e \in k - 1 .. Len(s) /\ \A j \in k .. e : s[j] \in Digits
        /\ At(s, e + 1) \notin Digits
    BY <1>0, <2>2, RunEndIs
  <2> QED
    BY <2>1, <2>3 DEF k
<1>6. e # l + 1
  BY <1>1, <1>2, <1>3, <1>5
<1>7. l # i - 1
  <2> SUFFICES ASSUME l = i - 1 PROVE FALSE
    OBVIOUS
  <2>1. l + 1 = i
    BY <1>0
  <2>2. At(s, l + 1) \in Letters
    BY <1>2, <2>1
  <2> QED
    BY <1>0, <1>2, <2>2
<1>8. s[l + 1] = Hyphen
  BY <1>2, <1>4, AtIs
<1>9. l + 1 \in i + 1 .. e - 1 /\ l + 1 - 1 = l /\ l + 1 + 1 = l + 2 /\ e \in DOMAIN s
  BY <1>0, <1>1, <1>4, <1>5, <1>6, <1>7
<1>10. Spans(s, i, e)
  BY <1>1, <1>2, <1>5, <1>8, <1>9 DEF Spans
<1> QED
  BY <1>2, <1>9, <1>10

LEMMA SpansIdAt ==
  ASSUME NEW s \in Seq(Chars), NEW i \in DOMAIN s, NEW e \in DOMAIN s, Spans(s, i, e)
  PROVE  IdAt(s, i) /\ IdEnd(s, i) = e
<1>0. /\ i \in 1 .. Len(s) /\ e \in 1 .. Len(s) /\ NoChar \notin Letters /\ NoChar \notin Digits
      /\ Hyphen \notin Letters
  BY MarkIs, NoLetter
<1>1. PICK h \in i + 1 .. e - 1 : /\ s[h] = Hyphen
                                  /\ \A j \in i .. h - 1 : s[j] \in Letters
                                  /\ \A j \in h + 1 .. e : s[j] \in Digits
  BY DEF Spans
<1>2. /\ h \in DOMAIN s /\ h + 1 \in DOMAIN s /\ i \in DOMAIN s
      /\ i \in i .. h - 1 /\ h + 1 \in h + 1 .. e
      /\ h - 1 \in i - 1 .. Len(s) /\ e \in (h + 1) - 1 .. Len(s) /\ h + 1 \in 1 .. Len(s) + 1
      /\ i \in 1 .. Len(s) + 1 /\ h - 1 + 1 = h /\ h - 1 + 2 = h + 1
  BY <1>0, <1>1
<1>3. At(s, h) = Hyphen /\ At(s, i) \in Letters /\ At(s, h + 1) \in Digits
  BY <1>1, <1>2, AtIs
<1>4. RunEnd(s, i, Letters) = h - 1
  BY <1>0, <1>1, <1>2, <1>3, RunEndIsThat
<1>5. At(s, i - 1) \notin Word /\ At(s, e + 1) \notin Word /\ At(s, e + 1) \notin Digits
  BY Classes DEF Spans
<1>6. RunEnd(s, h + 1, Digits) = e
  BY <1>0, <1>1, <1>2, <1>5, RunEndIsThat
<1>7. RunEnd(s, h - 1 + 2, Digits) = e /\ At(s, h - 1 + 1) = Hyphen
      /\ At(s, h - 1 + 1 + 1) \in Digits
  BY <1>2, <1>3, <1>6
<1> QED
  BY <1>3, <1>4, <1>5, <1>7, IdAtIs

(* An id cut out of a text and put in upper case, character by character.   *)
LEMMA UpperSpan ==
  ASSUME NEW s \in Seq(Chars), NEW i \in DOMAIN s, NEW e \in DOMAIN s, i <= e
  PROVE  Uppercase(SubSeq(s, i, e)) = [j \in 1 .. e - i + 1 |-> UpperOf(s[i + j - 1])]
<1> DEFINE u == SubSeq(s, i, e)
<1>1. Len(u) = e - i + 1 /\ DOMAIN u = 1 .. e - i + 1
  OBVIOUS
<1>2. \A j \in 1 .. e - i + 1 : u[j] = s[i + j - 1]
  OBVIOUS
<1>3. Uppercase(u) = [j \in DOMAIN u |-> UpperOf(u[j])]
  BY DEF Uppercase, UpperOf
<1> HIDE DEF u
<1>4. Uppercase(u) = [j \in 1 .. e - i + 1 |-> UpperOf(s[i + j - 1])]
  BY <1>1, <1>2, <1>3
<1> QED
  BY <1>4 DEF u

LEMMA TextType == Spec => [](text \in Seq(Chars))
<1>1. Init => text \in Seq(Chars) /\ alphabet \in Alphabets
  BY DEF Init
<1>2. /\ text \in Seq(Chars) /\ alphabet \in Alphabets
      /\ [Next]_<<text, length, alphabet>>
      => (text \in Seq(Chars) /\ alphabet \in Alphabets)'
  <2> SUFFICES ASSUME text \in Seq(Chars), alphabet \in Alphabets,
                      [Next]_<<text, length, alphabet>>
               PROVE  (text \in Seq(Chars) /\ alphabet \in Alphabets)'
    OBVIOUS
  <2>1. ASSUME NEW piece \in alphabet.pieces PROVE text \o piece \in Seq(Chars)
    <3>1. piece \in Seq(STRING)
      BY TypedTextAssumption
    <3>2. piece \in Seq(Chars)
      BY <3>1 DEF Chars
    <3> QED
      BY <3>2
  <2>2. CASE Type
    BY <2>1, <2>2 DEF Type
  <2>3. CASE Clear
    BY <2>3 DEF Clear
  <2> QED
    BY <2>2, <2>3 DEF Next
<1> QED
  BY <1>1, <1>2, PTL DEF Spec

(* extract_user_id returns the first account id of every text, whole and in *)
(* upper case, and none only where there is none.                           *)
THEOREM FirstIdIsRead == Spec => []UserIdIsFirstId
<1>1. ASSUME NEW s \in Seq(Chars), s = text PROVE UserIdIsFirstId
  <2> DEFINE ids == {i \in DOMAIN s : IdAt(s, i)}
  <2>1. IdSpans = {p \in (DOMAIN s) \X (DOMAIN s) : Spans(s, p[1], p[2])}
    BY <1>1, Zenon DEF IdSpans, Spans, Hyphen
  <2>2. \A p \in IdSpans : p[1] \in ids
    BY <2>1, SpansIdAt
  <2>3. ExtractUserId(s) = IF ids = {} THEN None
                           ELSE Uppercase(SubSeq(s, Min(ids), IdEnd(s, Min(ids))))
    BY DEF ExtractUserId
  <2>4. CASE ids = {}
    <3>1. IdSpans = {}
      BY <2>2, <2>4
    <3> QED
      BY <1>1, <2>3, <2>4, <3>1 DEF UserIdIsFirstId
  <2>5. CASE ids # {}
    <3> DEFINE m == Min(ids)
               e == IdEnd(s, m)
               u == Uppercase(SubSeq(s, m, e))
    <3>1. m \in ids /\ \A i \in ids : m <= i
      <4>1. ids \in SUBSET Nat
        OBVIOUS
      <4> HIDE DEF ids
      <4> QED
        BY <2>5, <4>1, MinIs
    <3>2. ExtractUserId(s) = u
      BY <2>3, <2>5
    <3> HIDE DEF m
    <3>3. m \in DOMAIN s /\ e \in DOMAIN s /\ Spans(s, m, e)
      BY <3>1, IdAtSpans
    <3> HIDE DEF e
    <3>4. <<m, e>> \in IdSpans /\ \A p \in IdSpans : m <= p[1]
      BY <2>1, <2>2, <3>1, <3>3
    <3> HIDE DEF u
    <3>5. u = [j \in 1 .. e - m + 1 |-> UpperOf(s[m + j - 1])]
      <4>1. m <= e
        BY <3>3 DEF Spans
      <4> QED
        BY <3>3, <4>1, UpperSpan DEF u
    <3> QED
      BY <1>1, <3>2, <3>4, <3>5 DEF UserIdIsFirstId
  <2> QED
    BY <2>4, <2>5
<1>2. text \in Seq(Chars) => UserIdIsFirstId
  BY <1>1
<1> QED
  BY <1>2, TextType, PTL

--------------------------------------------------------------------------------
(* The value of digits.  It is a recursive function, so it is that function *)
(* only because there is one that satisfies its equation.                   *)
LEMMA Reaches ==
  ASSUME NEW S \in SUBSET Nat, 0 \in S, \A n \in S : n + 1 \in S
  PROVE  S = Nat
<1> SUFFICES ASSUME Nat \ S # {} PROVE FALSE
  OBVIOUS
<1>1. PICK x \in Nat \ S : \A y \in Nat \ S : x <= y
  BY LeastElement
<1>2. x # 0 /\ x - 1 \in Nat /\ ~ (x <= x - 1) /\ (x - 1) + 1 = x
  BY <1>1
<1> QED
  BY <1>1, <1>2

LEMMA DigitValues == \A d \in Digits : DigitValue[d] \in Nat
<1>1. SUFFICES ASSUME NEW d \in Digits PROVE DigitValue[d] \in Nat
  OBVIOUS
<1>2. \E i \in DOMAIN Numerals : Numerals[i] = d
  BY DEF Digits, ToSet
<1>3. DOMAIN Numerals = 1 .. 10
  BY DEF Numerals
<1>4. DigitValue[d] = (CHOOSE i \in DOMAIN Numerals : Numerals[i] = d) - 1
  BY DEF DigitValue
<1> DEFINE i == CHOOSE i \in DOMAIN Numerals : Numerals[i] = d
<1>5. i \in 1 .. 10
  BY <1>2, <1>3
<1>6. DigitValue[d] = i - 1
  BY <1>4
<1> HIDE DEF i
<1> QED
  BY <1>5, <1>6

(* v gives the value of every beginning of the digits s up to the m-th.     *)
Values(s, v, m) ==
  /\ v \in [0 .. m -> Nat] /\ v[0] = 0
  /\ \A n \in 1 .. m : v[n] = 10 * v[n - 1] + DigitValue[s[n]]

LEMMA ValuesExist ==
  ASSUME NEW s \in Seq(Digits)
  PROVE  \E v : Values(s, v, Len(s))
<1> DEFINE S == {m \in Nat : m <= Len(s) => \E v : Values(s, v, m)}
<1>1. 0 \in S
  <2>1. Values(s, [n \in 0 .. 0 |-> 0], 0)
    BY DEF Values
  <2> QED
    BY <2>1
<1>2. ASSUME NEW m \in S PROVE m + 1 \in S
  <2> SUFFICES ASSUME m + 1 <= Len(s) PROVE \E v : Values(s, v, m + 1)
    OBVIOUS
  <2>1. PICK v : Values(s, v, m)
    OBVIOUS
  <2>2. s[m + 1] \in Digits
    OBVIOUS
  <2>3. PICK x \in Nat : x = 10 * v[m] + DigitValue[s[m + 1]]
    <3>1. v[m] \in Nat
      BY <2>1 DEF Values
    <3>2. DigitValue[s[m + 1]] \in Nat
      BY <2>2, DigitValues
    <3>3. 10 * v[m] + DigitValue[s[m + 1]] \in Nat
      BY <3>1, <3>2
    <3> QED
      BY <3>3
  <2> DEFINE w == [n \in 0 .. m + 1 |-> IF n = m + 1 THEN x ELSE v[n]]
  <2>4. /\ w \in [0 .. m + 1 -> Nat] /\ w[0] = 0 /\ w[m + 1] = x
        /\ \A n \in 0 .. m : w[n] = v[n]
    BY <2>1 DEF Values
  <2> HIDE DEF w
  <2>5. ASSUME NEW n \in 1 .. m + 1 PROVE w[n] = 10 * w[n - 1] + DigitValue[s[n]]
    <3>1. CASE n = m + 1
      BY <2>3, <2>4, <3>1
    <3>2. CASE n # m + 1
      <4>1. n \in 1 .. m /\ n \in 0 .. m /\ n - 1 \in 0 .. m
        BY <3>2
      <4>2. v[n] = 10 * v[n - 1] + DigitValue[s[n]]
        BY <2>1, <4>1 DEF Values
      <4> QED
        BY <2>4, <4>1, <4>2
    <3> QED
      BY <3>1, <3>2
  <2> QED
    BY <2>4, <2>5 DEF Values
<1> HIDE DEF S
<1>3. S = Nat
  <2>1. S \in SUBSET Nat
    BY DEF S
  <2> QED
    BY <1>1, <1>2, <2>1, Reaches
<1>4. Len(s) \in S /\ Len(s) <= Len(s)
  BY <1>3
<1> QED
  BY <1>4 DEF S

(* Two texts have the same value as far as they agree.                      *)
LEMMA ValuesAgree ==
  ASSUME NEW r, NEW s, NEW v, NEW w, NEW k \in Nat, NEW m \in Nat, NEW n \in Nat,
         Values(r, v, k), Values(s, w, m), n <= k, n <= m,
         \A i \in 1 .. n : r[i] = s[i]
  PROVE  v[n] = w[n]
<1> DEFINE S == {i \in Nat : i <= n => v[i] = w[i]}
<1>1. 0 \in S
  BY DEF Values
<1>2. ASSUME NEW i \in S PROVE i + 1 \in S
  <2> SUFFICES ASSUME i + 1 <= n PROVE v[i + 1] = w[i + 1]
    OBVIOUS
  <2>1. /\ i + 1 \in 1 .. n /\ i + 1 \in 1 .. k /\ i + 1 \in 1 .. m
        /\ (i + 1) - 1 = i /\ v[i] = w[i] /\ r[i + 1] = s[i + 1]
    OBVIOUS
  <2>2. v[i + 1] = 10 * v[i] + DigitValue[r[i + 1]]
    BY <2>1 DEF Values
  <2>3. w[i + 1] = 10 * w[i] + DigitValue[s[i + 1]]
    BY <2>1 DEF Values
  <2> QED
    BY <2>1, <2>2, <2>3
<1> HIDE DEF S
<1>3. S = Nat
  <2>1. S \in SUBSET Nat
    BY DEF S
  <2> QED
    BY <1>1, <1>2, <2>1, Reaches
<1> QED
  BY <1>3 DEF S

LEMMA NaturalIs ==
  ASSUME NEW s \in Seq(Digits)
  PROVE  \E v : Values(s, v, Len(s)) /\ Natural(s) = v[Len(s)]
<1> DEFINE F(v) == [n \in 0 .. Len(s) |->
                     IF n = 0 THEN 0 ELSE 10 * v[n - 1] + DigitValue[s[n]]]
<1>1. Natural(s) = (CHOOSE v : v = F(v))[Len(s)]
  BY DEF Natural
<1>2. PICK v : Values(s, v, Len(s))
  BY ValuesExist
<1>3. v = F(v)
  BY <1>2 DEF Values
<1>4. \E w : w = F(w)
  BY <1>3
<1>5. PICK w : w = F(w) /\ Natural(s) = w[Len(s)]
  BY <1>1, <1>4
<1>6. /\ DOMAIN w = 0 .. Len(s) /\ w[0] = 0
      /\ \A n \in 1 .. Len(s) : w[n] = 10 * w[n - 1] + DigitValue[s[n]]
  BY <1>5
<1> DEFINE S == {n \in Nat : n <= Len(s) => w[n] \in Nat}
<1>7. 0 \in S
  BY <1>6
<1>8. ASSUME NEW n \in S PROVE n + 1 \in S
  <2> SUFFICES ASSUME n + 1 <= Len(s) PROVE w[n + 1] \in Nat
    OBVIOUS
  <2>1. n + 1 \in 1 .. Len(s) /\ (n + 1) - 1 = n /\ w[n] \in Nat /\ s[n + 1] \in Digits
    OBVIOUS
  <2>2. w[n + 1] = 10 * w[n] + DigitValue[s[n + 1]]
    BY <1>6, <2>1
  <2>3. DigitValue[s[n + 1]] \in Nat
    BY <2>1, DigitValues
  <2> QED
    BY <2>1, <2>2, <2>3
<1> HIDE DEF S
<1>9. S = Nat
  <2>1. S \in SUBSET Nat
    BY DEF S
  <2> QED
    BY <1>7, <1>8, <2>1, Reaches
<1>10. \A n \in 0 .. Len(s) : w[n] \in Nat
  BY <1>9 DEF S
<1>11. w = [n \in 0 .. Len(s) |-> w[n]]
  BY <1>5
<1>12. w \in [0 .. Len(s) -> Nat]
  BY <1>10, <1>11
<1> QED
  BY <1>5, <1>6, <1>12 DEF Values

LEMMA NaturalEmpty == Natural(<< >>) = 0
<1>1. << >> \in Seq(Digits) /\ Len(<< >>) = 0
  OBVIOUS
<1>2. PICK v : Values(<< >>, v, 0) /\ Natural(<< >>) = v[0]
  BY <1>1, NaturalIs
<1> QED
  BY <1>2 DEF Values

LEMMA NaturalAppend ==
  ASSUME NEW s \in Seq(Digits), NEW d \in Digits
  PROVE  /\ Natural(s) \in Nat /\ DigitValue[d] \in Nat
         /\ Natural(Append(s, d)) = 10 * Natural(s) + DigitValue[d]
<1> DEFINE r == Append(s, d)
<1>1. /\ r \in Seq(Digits) /\ Len(r) = Len(s) + 1 /\ r[Len(s) + 1] = d
      /\ \A i \in 1 .. Len(s) : r[i] = s[i]
  OBVIOUS
<1> HIDE DEF r
<1>2. PICK v : Values(s, v, Len(s)) /\ Natural(s) = v[Len(s)]
  BY NaturalIs
<1>3. PICK w : Values(r, w, Len(r)) /\ Natural(r) = w[Len(r)]
  BY <1>1, NaturalIs
<1>4. PICK n \in Nat : n = Len(s)
  OBVIOUS
<1>5. Values(s, v, n) /\ Values(r, w, n + 1) /\ n <= n /\ n <= n + 1 /\ n + 1 \in Nat
  BY <1>1, <1>2, <1>3, <1>4
<1>6. \A i \in 1 .. n : s[i] = r[i]
  BY <1>1, <1>4
<1>7. v[n] = w[n]
  BY <1>5, <1>6, ValuesAgree
<1>8. w[n + 1] = 10 * w[n] + DigitValue[r[n + 1]]
  <2>1. n + 1 \in 1 .. n + 1 /\ (n + 1) - 1 = n
    OBVIOUS
  <2> QED
    BY <1>5, <2>1 DEF Values
<1>9. v[n] \in Nat
  BY <1>5 DEF Values
<1> QED
  BY <1>1, <1>2, <1>3, <1>4, <1>7, <1>8, <1>9, DigitValues DEF r

--------------------------------------------------------------------------------
(* Where the amount is: the search finds the first digit of the text.       *)
LEMMA AfterPrefixIs ==
  ASSUME NEW s \in Seq(Chars), NEW i \in DOMAIN s
  PROVE  /\ AfterPrefix(s, i) \in i .. Len(s) + 1
         /\ \A j \in i .. AfterPrefix(s, i) - 1 : s[j] \notin Digits
         /\ s[i] \in Digits => AfterPrefix(s, i) = i
<1>0. /\ i \in 1 .. Len(s) /\ NoChar \notin {Blank}
      /\ Blank \notin Digits /\ Dollar \notin Digits
  BY Classes, MarkIs, NoLetter
<1>1. CASE At(s, i) = Dollar
  <2> DEFINE r == RunEnd(s, i + 1, {Blank})
  <2>1. AfterPrefix(s, i) = r + 1
    BY <1>1, Zenon DEF AfterPrefix, Dollar, Blank
  <2>2. i + 1 \in 1 .. Len(s) + 1 /\ (i + 1) - 1 = i
    BY <1>0
  <2>3. r \in i .. Len(s) /\ \A j \in i + 1 .. r : s[j] \in {Blank}
    BY <1>0, <2>2, RunEndIs
  <2>4. s[i] = Dollar
    BY <1>1, AtIs
  <2> HIDE DEF r
  <2>5. ASSUME NEW j \in i .. r PROVE s[j] \notin Digits
    <3>1. j = i \/ j \in i + 1 .. r
      BY <2>3
    <3> QED
      BY <1>0, <2>3, <2>4, <3>1
  <2> QED
    BY <1>0, <2>1, <2>3, <2>4, <2>5
<1>2. CASE At(s, i) # Dollar
  <2> DEFINE r == RunEnd(s, i, {Blank})
  <2>1. AfterPrefix(s, i) = r + 1
    BY <1>2, Zenon DEF AfterPrefix, Dollar, Blank
  <2>2. i \in 1 .. Len(s) + 1
    BY <1>0
  <2>3. r \in i - 1 .. Len(s) /\ \A j \in i .. r : s[j] \in {Blank}
    BY <1>0, <2>2, RunEndIs
  <2> HIDE DEF r
  <2>4. \A j \in i .. r : s[j] \notin Digits
    BY <1>0, <2>3
  <2>5. s[i] \in Digits => r = i - 1
    BY <1>0, <2>3, <2>4
  <2> QED
    BY <1>0, <2>1, <2>3, <2>4, <2>5
<1> QED
  BY <1>1, <1>2

LEMMA FirstDigit ==
  ASSUME NEW s \in Seq(Chars)
  PROVE  LET digits == {i \in DOMAIN s : s[i] \in Digits}
         IN  /\ AmountStarts(s) = {} <=> digits = {}
             /\ digits # {} => AfterPrefix(s, Min(AmountStarts(s))) = Min(digits)
<1> DEFINE digits == {i \in DOMAIN s : s[i] \in Digits}
           starts == AmountStarts(s)
<1>0. NoChar \notin Digits
  BY MarkIs, NoLetter
<1>1. ASSUME NEW i \in DOMAIN s
      PROVE  i \in starts <=> AfterPrefix(s, i) \in digits
  BY <1>0, AtIs DEF AmountStarts
<1>2. starts \subseteq DOMAIN s /\ starts \in SUBSET Nat /\ digits \in SUBSET Nat
  BY DEF AmountStarts
<1>3. \A i \in digits : i \in starts
  BY <1>1, AfterPrefixIs
<1>4. starts = {} <=> digits = {}
  BY <1>1, <1>2, <1>3
<1>5. ASSUME digits # {} PROVE AfterPrefix(s, Min(starts)) = Min(digits)
  <2>1. PICK m \in starts : m = Min(starts) /\ \A i \in starts : m <= i
    <3> HIDE DEF starts, digits
    <3> QED
      BY <1>2, <1>4, <1>5, MinIs
  <2>2. PICK d \in digits : d = Min(digits) /\ \A i \in digits : d <= i
    <3> HIDE DEF starts, digits
    <3> QED
      BY <1>2, <1>5, MinIs
  <2>3. PICK p \in digits : p = AfterPrefix(s, m)
    BY <1>1, <1>2, <2>1
  <2>4. m <= d /\ d <= p
    BY <1>3, <2>1, <2>2, <2>3
  <2>5. \A j \in m .. p - 1 : j \notin digits
    BY <1>2, <2>1, <2>3, AfterPrefixIs
  <2>6. m \in Nat /\ d \in Nat /\ p \in Nat
    BY <1>2, <2>1, <2>2, <2>3
  <2> HIDE DEF digits, starts
  <2>7. p = d
    BY <2>2, <2>4, <2>5, <2>6
  <2> QED
    BY <2>1, <2>2, <2>3, <2>7
<1> QED
  BY <1>4, <1>5

--------------------------------------------------------------------------------
(* How far the amount goes: the group takes the longest number there is.    *)
LEMMA NumberIs ==
  ASSUME NEW u
  PROVE  IsNumber(u) <=>
           \E n \in 1 .. Len(u) :
             /\ \A i \in 1 .. n : u[i] \in Digits
             /\ \/ Len(u) = n
                \/ /\ Len(u) \in {n + 2, n + 3} /\ u[n + 1] = Point
                   /\ \A i \in n + 2 .. Len(u) : u[i] \in Digits
BY Zenon DEF IsNumber, Point

(* Where a number that starts at d can end, if its first digits end at e.   *)
Ends(s, d, e, j) ==
  \/ j \in d .. e
  \/ /\ s[e + 1] = Point /\ j \in {e + 2, e + 3}
     /\ \A i \in e + 2 .. j : s[i] \in Digits

LEMMA NumberEnds ==
  ASSUME NEW s \in Seq(Chars), NEW d \in 1 .. Len(s), NEW e \in d .. Len(s),
         \A i \in d .. e : s[i] \in Digits, At(s, e + 1) \notin Digits,
         NEW j \in d .. Len(s)
  PROVE  IsNumber(SubSeq(s, d, j)) <=> Ends(s, d, e, j)
<1> DEFINE u == SubSeq(s, d, j)
<1>1. Len(u) = j - d + 1 /\ \A i \in 1 .. j - d + 1 : u[i] = s[d + i - 1]
  OBVIOUS
<1>2. Point \notin Digits
  BY MarkIs, NoLetter
<1>3. PICK k \in Nat : k = j - d + 1
  OBVIOUS
<1> HIDE DEF u
<1>4. IsNumber(u) <=>
        \E n \in 1 .. k :
          /\ \A i \in 1 .. n : u[i] \in Digits
          /\ \/ k = n
             \/ /\ k \in {n + 2, n + 3} /\ u[n + 1] = Point
                /\ \A i \in n + 2 .. k : u[i] \in Digits
  BY <1>1, <1>3, NumberIs
<1>5. \A i \in 1 .. k : u[i] = s[d + i - 1]
  BY <1>1, <1>3
<1>6. ASSUME IsNumber(u) PROVE Ends(s, d, e, j)
  <2>1. PICK n \in 1 .. k :
          /\ \A i \in 1 .. n : u[i] \in Digits
          /\ \/ k = n
             \/ /\ k \in {n + 2, n + 3} /\ u[n + 1] = Point
                /\ \A i \in n + 2 .. k : u[i] \in Digits
    BY <1>4, <1>6
  <2>2. d + n - 1 <= e
    <3> SUFFICES ASSUME e < d + n - 1 PROVE FALSE
      OBVIOUS
    <3>1. PICK i \in 1 .. n : i = e + 2 - d
      BY <1>3
    <3>2. u[i] = s[e + 1] /\ e + 1 \in DOMAIN s
      BY <1>3, <1>5, <3>1
    <3> QED
      BY <2>1, <3>2, AtIs
  <2>3. CASE k = n
    <3>1. j \in d .. e
      BY <1>3, <2>2, <2>3
    <3> QED
      BY <3>1 DEF Ends
  <2>4. CASE k \in {n + 2, n + 3} /\ u[n + 1] = Point /\ \A i \in n + 2 .. k : u[i] \in Digits
    <3>1. n + 1 \in 1 .. k /\ d + (n + 1) - 1 = d + n
      BY <2>4
    <3>2. s[d + n] = Point
      BY <1>5, <2>4, <3>1
    <3>3. d + n = e + 1
      <4>1. d + n \notin d .. e
        BY <1>2, <3>2
      <4> QED
        BY <2>2, <4>1
    <3>4. j \in {e + 2, e + 3} /\ s[e + 1] = Point
      BY <1>3, <2>4, <3>2, <3>3
    <3>5. ASSUME NEW i \in e + 2 .. j PROVE s[i] \in Digits
      <4>1. PICK x \in n + 2 .. k : x = i - d + 1
        BY <1>3, <3>3
      <4>2. x \in 1 .. k /\ d + x - 1 = i
        BY <4>1
      <4> QED
        BY <1>5, <2>4, <4>1, <4>2
    <3> QED
      BY <3>4, <3>5 DEF Ends
  <2> QED
    BY <2>1, <2>3, <2>4
<1>7. ASSUME Ends(s, d, e, j) PROVE IsNumber(u)
  <2>1. CASE j \in d .. e
    <3>1. k \in 1 .. k /\ k = k
      BY <1>3
    <3>2. \A i \in 1 .. k : u[i] \in Digits
      BY <1>3, <1>5, <2>1
    <3> QED
      BY <1>4, <3>1, <3>2
  <2>2. CASE /\ s[e + 1] = Point /\ j \in {e + 2, e + 3}
             /\ \A i \in e + 2 .. j : s[i] \in Digits
    <3>1. PICK n \in 1 .. k : n = e - d + 1
      BY <1>3, <2>2
    <3>2. k \in {n + 2, n + 3} /\ n + 1 \in 1 .. k /\ d + (n + 1) - 1 = e + 1
      BY <1>3, <2>2, <3>1
    <3>3. u[n + 1] = Point
      BY <1>5, <2>2, <3>2
    <3>4. \A i \in 1 .. n : u[i] \in Digits
      BY <1>5, <3>1
    <3>5. ASSUME NEW i \in n + 2 .. k PROVE u[i] \in Digits
      <4>1. i \in 1 .. k /\ d + i - 1 \in e + 2 .. j
        BY <1>3, <3>1
      <4> QED
        BY <1>5, <2>2, <4>1
    <3> QED
      BY <1>4, <3>2, <3>3, <3>4, <3>5
  <2> QED
    BY <1>7, <2>1, <2>2 DEF Ends
<1> QED
  BY <1>6, <1>7 DEF u

LEMMA MaxIsThat ==
  ASSUME NEW S \in SUBSET Int, NEW m \in S, \A y \in S : y <= m
  PROVE  Max(S) = m
<1>1. Max(S) \in S /\ \A y \in S : Max(S) >= y
  <2>1. \E x \in S : \A y \in S : x >= y
    OBVIOUS
  <2> QED
    BY <2>1 DEF Max
<1>2. Max(S) \in Int /\ m \in Int /\ Max(S) >= m /\ Max(S) <= m
  BY <1>1
<1> QED
  BY <1>2

(* The three ways a number ends: with its digits, with the first decimal,   *)
(* with the second.                                                         *)
Longest(s, e, last) ==
  \/ last = e /\ (At(s, e + 1) # Point \/ At(s, e + 2) \notin Digits)
  \/ last = e + 2 /\ At(s, e + 1) = Point /\ At(s, e + 2) \in Digits /\ At(s, e + 3) \notin Digits
  \/ last = e + 3 /\ At(s, e + 1) = Point /\ At(s, e + 2) \in Digits /\ At(s, e + 3) \in Digits

LEMMA LongestNumber ==
  ASSUME NEW s \in Seq(Chars), NEW d \in 1 .. Len(s), NEW e \in d .. Len(s),
         \A i \in d .. e : s[i] \in Digits, At(s, e + 1) \notin Digits,
         NEW last \in Int, Longest(s, e, last)
  PROVE  /\ last \in d .. Len(s)
         /\ Max({j \in d .. Len(s) : IsNumber(SubSeq(s, d, j))}) = last
<1>0. NoChar # Point /\ NoChar \notin Digits
  BY Classes, MarkIs, NoLetter
<1>1. /\ last \in e .. e + 3
      /\ last = e \/ (last >= e + 2 /\ s[e + 1] = Point /\ e + 2 \in DOMAIN s /\ s[e + 2] \in Digits)
      /\ last = e + 3 => e + 3 \in DOMAIN s /\ s[e + 3] \in Digits
  BY <1>0, AtIs DEF Longest
<1>2. last \in d .. Len(s)
  BY <1>1
<1>3. Ends(s, d, e, last)
  BY <1>1 DEF Ends
<1>4. ASSUME NEW j \in d .. Len(s), Ends(s, d, e, j) PROVE j <= last
  <2>1. CASE j \in d .. e
    BY <1>1, <2>1
  <2>2. CASE s[e + 1] = Point /\ j \in {e + 2, e + 3} /\ \A i \in e + 2 .. j : s[i] \in Digits
    <3>1. e + 1 \in DOMAIN s /\ e + 2 \in DOMAIN s /\ s[e + 2] \in Digits
      BY <2>2
    <3>2. At(s, e + 1) = Point /\ At(s, e + 2) \in Digits
      BY <2>2, <3>1, AtIs
    <3>3. j = e + 3 => At(s, e + 3) \in Digits
      BY <2>2, AtIs
    <3> QED
      BY <2>2, <3>2, <3>3 DEF Longest
  <2> QED
    BY <1>4, <2>1, <2>2 DEF Ends
<1> DEFINE S == {j \in d .. Len(s) : IsNumber(SubSeq(s, d, j))}
<1>5. S \in SUBSET Int /\ last \in S /\ \A j \in S : j <= last
  BY <1>2, <1>3, <1>4, NumberEnds
<1> HIDE DEF S
<1>6. Max(S) = last
  BY <1>5, MaxIsThat
<1> QED
  BY <1>2, <1>6 DEF S

LEMMA DecimalsAre ==
  ASSUME NEW s \in Seq(Chars), NEW d \in 1 .. Len(s), NEW e \in d .. Len(s),
         NEW last \in Int, Longest(s, e, last)
  PROVE  /\ last = e     => Decimals(s, e + 1) = << >>
         /\ last = e + 2 => Decimals(s, e + 1) = SubSeq(s, e + 2, e + 2)
         /\ last = e + 3 => Decimals(s, e + 1) = SubSeq(s, e + 2, e + 3)
<1>0. NoChar # Point /\ NoChar \notin Digits
  BY Classes, MarkIs, NoLetter
<1> DEFINE to == RunEnd(s, e + 2, Digits)
<1>1. Decimals(s, e + 1) = IF At(s, e + 1) # Point THEN << >>
                           ELSE SubSeq(s, e + 2, IF to > e + 3 THEN e + 3 ELSE to)
  <2>1. (e + 1) + 1 = e + 2 /\ (e + 1) + 2 = e + 3
    OBVIOUS
  <2> QED
    BY <2>1, Zenon DEF Decimals, Point
<1>2. CASE At(s, e + 1) # Point
  BY <1>1, <1>2 DEF Longest
<1>3. CASE At(s, e + 1) = Point
  <2>1. e + 1 \in DOMAIN s /\ e + 2 \in 1 .. Len(s) + 1 /\ (e + 2) - 1 = e + 1
    BY <1>0, <1>3, AtIs
  <2>2. /\ to \in e + 1 .. Len(s) /\ \A j \in e + 2 .. to : s[j] \in Digits
        /\ At(s, to + 1) \notin Digits
    BY <1>0, <2>1, RunEndIs
  <2>3. Decimals(s, e + 1) = SubSeq(s, e + 2, IF to > e + 3 THEN e + 3 ELSE to)
    BY <1>1, <1>3
  <2> HIDE DEF to
  <2>4. CASE last = e
    <3>1. At(s, e + 2) \notin Digits
      BY <1>3, <2>4 DEF Longest
    <3>2. to = e + 1
      <4> SUFFICES ASSUME e + 1 < to PROVE FALSE
        BY <2>2
      <4>1. e + 2 \in e + 2 .. to /\ e + 2 \in DOMAIN s
        BY <2>2
      <4> QED
        BY <2>2, <3>1, <4>1, AtIs
    <3> QED
      BY <2>3, <2>4, <3>2
  <2>5. CASE last \in {e + 2, e + 3}
    <3>1. At(s, e + 2) \in Digits
      BY <2>5 DEF Longest
    <3>2. e + 2 \in DOMAIN s /\ e + 2 <= to
      <4>1. e + 2 \in DOMAIN s
        BY <1>0, <3>1, AtIs
      <4>2. to # e + 1
        BY <2>2, <3>1
      <4> QED
        BY <2>2, <4>1, <4>2
    <3>3. CASE last = e + 2
      <4>1. At(s, e + 3) \notin Digits
        BY <3>3 DEF Longest
      <4>2. to = e + 2
        <5> SUFFICES ASSUME e + 2 < to PROVE FALSE
          BY <2>2, <3>2
        <5>1. e + 3 \in e + 2 .. to /\ e + 3 \in DOMAIN s
          BY <2>2
        <5> QED
          BY <2>2, <4>1, <5>1, AtIs
      <4>3. Decimals(s, e + 1) = SubSeq(s, e + 2, e + 2)
        <5>1. (IF to > e + 3 THEN e + 3 ELSE to) = e + 2
          BY <4>2
        <5> QED
          BY <2>3, <5>1, Zenon
      <4>4. last # e /\ last # e + 3
        BY <3>3
      <4> QED
        BY <4>3, <4>4
    <3>4. CASE last = e + 3
      <4>1. At(s, e + 3) \in Digits
        BY <3>4 DEF Longest
      <4>2. e + 3 \in DOMAIN s
        BY <1>0, <4>1, AtIs
      <4>3. to # e + 2
        BY <2>2, <4>1
      <4>4. Decimals(s, e + 1) = SubSeq(s, e + 2, e + 3)
        <5>1. (IF to > e + 3 THEN e + 3 ELSE to) = e + 3
          BY <2>2, <3>2, <4>3
        <5> QED
          BY <2>3, <5>1, Zenon
      <4>5. last # e /\ last # e + 2
        BY <3>4
      <4> QED
        BY <4>4, <4>5
    <3> QED
      BY <2>5, <3>3, <3>4
  <2> QED
    BY <2>4, <2>5 DEF Longest
<1> QED
  BY <1>2, <1>3

LEMMA CentsAre ==
  ASSUME NEW b \in Seq(Digits)
  PROVE  /\ Len(b) = 0 => Cents(b) = 0
         /\ Len(b) = 1 => Cents(b) = 10 * DigitValue[b[1]]
         /\ Len(b) = 2 => Cents(b) = 10 * DigitValue[b[1]] + DigitValue[b[2]]
         /\ \A i \in 1 .. Len(b) : DigitValue[b[i]] \in Nat
<1>1. PICK v : Values(b, v, Len(b)) /\ Natural(b) = v[Len(b)]
  BY NaturalIs
<1>2. \A i \in 1 .. Len(b) : DigitValue[b[i]] \in Nat
  BY DigitValues
<1>3. ASSUME Len(b) \in {1, 2} PROVE v[1] = DigitValue[b[1]]
  <2>1. 1 \in 1 .. Len(b) /\ 1 - 1 = 0
    BY <1>3
  <2>2. v[1] = 10 * v[0] + DigitValue[b[1]] /\ v[0] = 0
    BY <1>1, <2>1 DEF Values
  <2> QED
    BY <1>2, <2>1, <2>2
<1>4. ASSUME Len(b) = 2 PROVE v[2] = 10 * v[1] + DigitValue[b[2]]
  <2>1. 2 \in 1 .. Len(b) /\ 2 - 1 = 1
    BY <1>4
  <2> QED
    BY <1>1, <2>1 DEF Values
<1>5. v[0] = 0
  BY <1>1 DEF Values
<1> QED
  BY <1>1, <1>2, <1>3, <1>4, <1>5 DEF Cents

LEMMA NaturalIsNat ==
  ASSUME NEW s \in Seq(Digits)
  PROVE  Natural(s) \in Nat
BY NaturalIs DEF Values

LEMMA CutOne ==
  ASSUME NEW s \in Seq(Chars), NEW i \in 1 .. Len(s), s[i] \in Digits
  PROVE  LET b == SubSeq(s, i, i) IN Len(b) = 1 /\ b[1] = s[i] /\ b \in Seq(Digits)
OBVIOUS

LEMMA CutTwo ==
  ASSUME NEW s \in Seq(Chars), NEW i \in 1 .. Len(s), NEW j \in 1 .. Len(s), i + 1 = j,
         s[i] \in Digits, s[j] \in Digits
  PROVE  LET b == SubSeq(s, i, j)
         IN  Len(b) = 2 /\ b[1] = s[i] /\ b[2] = s[j] /\ b \in Seq(Digits)
<1> DEFINE b == SubSeq(s, i, j)
<1>1. b \in Seq(Chars) /\ Len(b) = 2 /\ b[1] = s[i] /\ b[2] = s[j]
  OBVIOUS
<1> HIDE DEF b
<1>2. \A x \in 1 .. Len(b) : b[x] \in Digits
  BY <1>1
<1> QED
  BY <1>1, <1>2 DEF b

(* Digits without the point between them.                                   *)
LEMMA RemovedOne ==
  ASSUME NEW u \in Seq(Chars), NEW a \in Seq(Digits), NEW c, NEW k \in Nat,
         Len(a) = k, Len(u) = k + 2, u[k + 2] = c, \A i \in 1 .. k : u[i] = a[i]
  PROVE  RemoveAt(u, k + 1) = Append(a, c)
<1>1. RemoveAt(u, k + 1) = SubSeq(u, 1, k) \o SubSeq(u, k + 2, k + 2)
  BY DEF RemoveAt
<1>2. /\ SubSeq(u, 1, k) \in Seq(Chars) /\ Len(SubSeq(u, 1, k)) = k
      /\ \A i \in 1 .. k : SubSeq(u, 1, k)[i] = u[i]
  OBVIOUS
<1>3. /\ SubSeq(u, k + 2, k + 2) \in Seq(Chars) /\ Len(SubSeq(u, k + 2, k + 2)) = 1
      /\ SubSeq(u, k + 2, k + 2)[1] = c
  OBVIOUS
<1> QED
  BY <1>1, <1>2, <1>3

LEMMA RemovedTwo ==
  ASSUME NEW u \in Seq(Chars), NEW a \in Seq(Digits), NEW k \in Nat,
         Len(a) = k, Len(u) = k + 3, u[k + 2] \in Digits, u[k + 3] \in Digits,
         \A i \in 1 .. k : u[i] = a[i]
  PROVE  /\ Natural(RemoveAt(u, k + 1))
              = 10 * (10 * Natural(a) + DigitValue[u[k + 2]]) + DigitValue[u[k + 3]]
         /\ Natural(a) \in Nat
         /\ DigitValue[u[k + 2]] \in Nat /\ DigitValue[u[k + 3]] \in Nat
<1> DEFINE c == u[k + 2]
           f == u[k + 3]
<1>1. RemoveAt(u, k + 1) = SubSeq(u, 1, k) \o SubSeq(u, k + 2, k + 3)
  BY DEF RemoveAt
<1>2. /\ SubSeq(u, 1, k) \in Seq(Chars) /\ Len(SubSeq(u, 1, k)) = k
      /\ \A i \in 1 .. k : SubSeq(u, 1, k)[i] = u[i]
  OBVIOUS
<1>3. /\ SubSeq(u, k + 2, k + 3) \in Seq(Chars) /\ Len(SubSeq(u, k + 2, k + 3)) = 2
      /\ SubSeq(u, k + 2, k + 3)[1] = c /\ SubSeq(u, k + 2, k + 3)[2] = f
  OBVIOUS
<1>4. c \in Digits /\ f \in Digits
  OBVIOUS
<1> HIDE DEF c, f
<1>5. RemoveAt(u, k + 1) = Append(Append(a, c), f)
  BY <1>1, <1>2, <1>3, <1>4
<1>6. Append(a, c) \in Seq(Digits)
  BY <1>4
<1>7. /\ Natural(Append(a, c)) = 10 * Natural(a) + DigitValue[c]
      /\ Natural(a) \in Nat /\ DigitValue[c] \in Nat
  BY <1>4, NaturalAppend
<1>8. /\ Natural(Append(Append(a, c), f)) = 10 * Natural(Append(a, c)) + DigitValue[f]
      /\ DigitValue[f] \in Nat
  BY <1>4, <1>6, NaturalAppend
<1> QED
  BY <1>5, <1>7, <1>8 DEF c, f

(* What the whole number is worth is what its parts are worth.              *)
LEMMA CentsOfNumber ==
  ASSUME NEW s \in Seq(Chars), NEW d \in 1 .. Len(s), NEW e \in d .. Len(s),
         \A i \in d .. e : s[i] \in Digits, At(s, e + 1) \notin Digits,
         NEW last \in d .. Len(s), Longest(s, e, last)
  PROVE  NumberCents(SubSeq(s, d, last))
           = 100 * Natural(SubSeq(s, d, e)) + Cents(Decimals(s, e + 1))
<1>0. NoChar # Point /\ NoChar \notin Digits /\ Point \notin Digits
  BY Classes, MarkIs, NoLetter
<1> DEFINE a == SubSeq(s, d, e)
           b == Decimals(s, e + 1)
           u == SubSeq(s, d, last)
           points == {i \in DOMAIN u : u[i] = Point}
<1>1. NumberCents(u) = IF points = {} THEN 100 * Natural(u)
                       ELSE Natural(RemoveAt(u, Min(points)))
                              * (IF Len(u) = Min(points) + 1 THEN 10 ELSE 1)
  BY Zenon DEF NumberCents, Point
<1>2. PICK k \in Nat : k = e - d + 1
  OBVIOUS
<1>3. /\ a \in Seq(Chars) /\ Len(a) = k /\ \A i \in 1 .. k : a[i] = s[d + i - 1]
  BY <1>2
<1>4. /\ u \in Seq(Chars) /\ Len(u) = last - d + 1
      /\ \A i \in 1 .. last - d + 1 : u[i] = s[d + i - 1]
  OBVIOUS
<1>5. /\ last = e     => b = << >>
      /\ last = e + 2 => b = SubSeq(s, e + 2, e + 2)
      /\ last = e + 3 => b = SubSeq(s, e + 2, e + 3)
  BY DecimalsAre
<1>6. /\ last \in {e, e + 2, e + 3}
      /\ last # e => s[e + 1] = Point /\ s[e + 2] \in Digits /\ e + 2 \in DOMAIN s
      /\ last = e + 3 => s[e + 3] \in Digits /\ e + 3 \in DOMAIN s
  BY <1>0, AtIs DEF Longest
<1>7. a \in Seq(Digits)
  <2> HIDE DEF a
  <2>1. \A i \in 1 .. k : a[i] \in Digits
    BY <1>2, <1>3
  <2> QED
    BY <1>3, <2>1
<1>8. CASE last = e
  <2>1. u = a /\ b = << >>
    BY <1>5, <1>8
  <2> HIDE DEF a, b, u, points
  <2>2. points = {}
    BY <1>0, <1>7, <2>1 DEF points
  <2>3. << >> \in Seq(Digits) /\ Len(<< >>) = 0
    OBVIOUS
  <2>4. Cents(b) = 0
    BY <2>1, <2>3, CentsAre
  <2>5. PICK x \in Nat : x = Natural(a)
    BY <1>7, NaturalIsNat
  <2>6. NumberCents(u) = 100 * x /\ 100 * x = 100 * x + 0
    BY <1>1, <2>1, <2>2, <2>5
  <2>7. NumberCents(u) = 100 * Natural(a) + Cents(b)
    BY <2>4, <2>5, <2>6
  <2> QED
    BY <2>7 DEF a, b, u
<1>9. ASSUME last # e
      PROVE  /\ points # {} /\ Min(points) = k + 1
             /\ Len(u) = k + last - e /\ u[k + 2] = s[e + 2]
             /\ last = e + 3 => u[k + 3] = s[e + 3]
             /\ \A i \in 1 .. k : u[i] = a[i]
  <2> HIDE DEF a, b, u
  <2>0. PICK z \in Nat : z = last - d + 1
    OBVIOUS
  <2>1. /\ k + 1 \in 1 .. z /\ k + 2 \in 1 .. z /\ k + last - e = z
        /\ d + (k + 1) - 1 = e + 1 /\ d + (k + 2) - 1 = e + 2
        /\ last = e + 3 => k + 3 \in 1 .. z /\ d + (k + 3) - 1 = e + 3
        /\ \A i \in 1 .. k : i \in 1 .. z
    BY <1>2, <1>6, <1>9, <2>0
  <2>2. /\ Len(u) = z /\ DOMAIN u = 1 .. z
        /\ \A i \in 1 .. z : u[i] = s[d + i - 1]
    BY <1>4, <2>0
  <2>3. \A i \in 1 .. k : u[i] = a[i]
    BY <1>3, <2>1, <2>2
  <2>4. \A i \in points : k + 1 <= i
    <3> SUFFICES ASSUME NEW i \in points, ~ (k + 1 <= i) PROVE FALSE
      OBVIOUS
    <3>1. i \in 1 .. k /\ u[i] = Point
      BY <2>2
    <3>2. a[i] \in Digits
      BY <1>3, <1>7, <3>1
    <3> QED
      BY <1>0, <2>3, <3>1, <3>2
  <2>5. k + 1 \in points /\ points \in SUBSET Nat
    BY <1>6, <1>9, <2>1, <2>2
  <2> HIDE DEF points
  <2>6. Min(points) = k + 1
    BY <2>4, <2>5, MinIsThat
  <2>7. u[k + 2] = s[e + 2]
    <3>1. u[k + 2] = s[d + (k + 2) - 1]
      BY <2>1, <2>2
    <3> QED
      BY <2>1, <3>1
  <2>8. ASSUME last = e + 3 PROVE u[k + 3] = s[e + 3]
    <3>1. u[k + 3] = s[d + (k + 3) - 1]
      BY <2>1, <2>2, <2>8
    <3> QED
      BY <2>1, <2>8, <3>1
  <2> QED
    BY <2>1, <2>2, <2>3, <2>5, <2>6, <2>7, <2>8
<1>10. CASE last = e + 2
  <2> DEFINE c == s[e + 2]
             r == RemoveAt(u, k + 1)
  <2>1. Len(b) = 1 /\ b[1] = c /\ b \in Seq(Digits) /\ c \in Digits
    <3>1. e + 2 \in 1 .. Len(s) /\ b = SubSeq(s, e + 2, e + 2) /\ c \in Digits
      BY <1>5, <1>6, <1>10
    <3> QED
      BY <3>1, CutOne
  <2> HIDE DEF a, b, u, points
  <2>2. Len(u) = k + 2 /\ u[k + 2] = c /\ \A i \in 1 .. k : u[i] = a[i]
    <3>1. last # e /\ k + last - e = k + 2
      BY <1>2, <1>10
    <3> QED
      BY <1>9, <3>1
  <2>3. r = Append(a, c)
    BY <1>3, <1>4, <2>2, <1>7, RemovedOne
  <2>4. /\ Natural(r) = 10 * Natural(a) + DigitValue[c]
        /\ Natural(a) \in Nat /\ DigitValue[c] \in Nat
    BY <1>7, <2>1, <2>3, NaturalAppend
  <2>5. Cents(b) = 10 * DigitValue[c]
    BY <2>1, CentsAre
  <2>6. NumberCents(u) = Natural(r) * 10
    <3>1. Len(u) = (k + 1) + 1
      BY <2>2
    <3> QED
      BY <1>1, <1>9, <1>10, <3>1
  <2> HIDE DEF c, r
  <2>7. NumberCents(u) = 100 * Natural(a) + Cents(b)
    BY <2>4, <2>5, <2>6
  <2> QED
    BY <2>7 DEF a, b, u
<1>11. CASE last = e + 3
  <2> DEFINE c == s[e + 2]
             f == s[e + 3]
             r == RemoveAt(u, k + 1)
  <2>1. Len(b) = 2 /\ b[1] = c /\ b[2] = f /\ b \in Seq(Digits) /\ c \in Digits /\ f \in Digits
    <3>1. PICK i \in 1 .. Len(s) : i = e + 2
      BY <1>6, <1>11
    <3>2. PICK j \in 1 .. Len(s) : j = e + 3
      BY <1>6, <1>11
    <3>3. b = SubSeq(s, i, j)
      BY <1>5, <1>11, <3>1, <3>2
    <3>4. i + 1 = j /\ s[i] = c /\ s[j] = f /\ c \in Digits /\ f \in Digits
      BY <1>6, <1>11, <3>1, <3>2
    <3> HIDE DEF b, c, f
    <3> QED
      BY <3>3, <3>4, CutTwo
  <2> HIDE DEF a, b, u, points
  <2>2. /\ Len(u) = k + 3 /\ u[k + 2] = c /\ u[k + 3] = f
        /\ \A i \in 1 .. k : u[i] = a[i]
    <3>1. last # e /\ k + last - e = k + 3
      BY <1>2, <1>11
    <3>2. u[k + 2] = s[e + 2] /\ u[k + 3] = s[e + 3] /\ \A i \in 1 .. k : u[i] = a[i]
      BY <1>9, <1>11, <3>1
    <3>3. Len(u) = k + 3
      BY <1>9, <3>1
    <3> QED
      BY <3>2, <3>3
  <2>3. u \in Seq(Chars) /\ Len(a) = k
    BY <1>3, <1>4
  <2> HIDE DEF c, f
  <2>4. /\ Natural(r) = 10 * (10 * Natural(a) + DigitValue[c]) + DigitValue[f]
        /\ Natural(a) \in Nat /\ DigitValue[c] \in Nat /\ DigitValue[f] \in Nat
    <3>1. u[k + 2] \in Digits /\ u[k + 3] \in Digits
      BY <2>1, <2>2
    <3>2. /\ Natural(r) = 10 * (10 * Natural(a) + DigitValue[u[k + 2]]) + DigitValue[u[k + 3]]
          /\ Natural(a) \in Nat
          /\ DigitValue[u[k + 2]] \in Nat /\ DigitValue[u[k + 3]] \in Nat
      BY <1>7, <2>2, <2>3, <3>1, RemovedTwo
    <3> QED
      BY <2>2, <3>2
  <2>5. Cents(b) = 10 * DigitValue[c] + DigitValue[f]
    BY <2>1, CentsAre
  <2>6. NumberCents(u) = Natural(r) * 1
    <3>1. Len(u) # (k + 1) + 1
      BY <2>2
    <3> QED
      BY <1>1, <1>9, <1>11, <3>1
  <2> HIDE DEF r
  <2>7. NumberCents(u) = 100 * Natural(a) + Cents(b)
    BY <2>4, <2>5, <2>6
  <2> QED
    BY <2>7 DEF a, b, u
<1> QED
  BY <1>6, <1>8, <1>10, <1>11

(* extract_amount reads, of every text, the first number, whole up to its   *)
(* second decimal: 0.1 more or less is a card at a wrong tier.              *)
THEOREM FirstNumberIsRead == Spec => []AmountIsFirstNumber
<1>1. ASSUME NEW s \in Seq(Chars), s = text PROVE AmountIsFirstNumber
  <2> DEFINE digits == {i \in DOMAIN s : s[i] \in Digits}
             starts == AmountStarts(s)
             from   == AfterPrefix(s, Min(starts))
             to     == RunEnd(s, from, Digits)
  <2>1. /\ starts = {} <=> digits = {}
        /\ digits # {} => from = Min(digits)
    BY FirstDigit
  <2>2. ExtractAmount(s) =
          IF starts = {} THEN None
          ELSE 100 * Natural(SubSeq(s, from, to)) + Cents(Decimals(s, to + 1))
    BY DEF ExtractAmount
  <2>3. AmountIsFirstNumber <=>
          ExtractAmount(s) =
            IF digits = {} THEN None
            ELSE NumberCents(SubSeq(s, Min(digits),
                   Max({j \in Min(digits) .. Len(s) : IsNumber(SubSeq(s, Min(digits), j))})))
    BY <1>1 DEF AmountIsFirstNumber, NumberAt, DigitPositions
  <2> HIDE DEF starts
  <2>4. CASE digits = {}
    BY <2>1, <2>2, <2>3, <2>4
  <2>5. CASE digits # {}
    <3>0. NoChar \notin Digits
      BY MarkIs, NoLetter
    <3>1. PICK d \in digits : d = Min(digits)
      <4>1. digits \in SUBSET Nat
        OBVIOUS
      <4> HIDE DEF digits
      <4> QED
        BY <2>5, <4>1, MinIs
    <3>2. d \in 1 .. Len(s) /\ d \in 1 .. Len(s) + 1 /\ s[d] \in Digits /\ from = d
      BY <2>1, <2>5, <3>1
    <3> HIDE DEF from, digits
    <3>3. PICK e \in Int : e = RunEnd(s, d, Digits)
      BY <3>0, <3>2, RunEndIs
    <3>4. /\ e \in d - 1 .. Len(s) /\ \A i \in d .. e : s[i] \in Digits
          /\ At(s, e + 1) \notin Digits
      BY <3>0, <3>2, <3>3, RunEndIs
    <3>5. e \in d .. Len(s)
      <4> SUFFICES ASSUME e = d - 1 PROVE FALSE
        BY <3>2, <3>4
      <4>1. e + 1 = d /\ d \in DOMAIN s
        BY <3>2
      <4> QED
        BY <3>2, <3>4, <4>1, AtIs
    <3>6. PICK last \in Int : Longest(s, e, last)
      <4>1. e \in Int /\ e + 2 \in Int /\ e + 3 \in Int
        OBVIOUS
      <4>2. Longest(s, e, e) \/ Longest(s, e, e + 2) \/ Longest(s, e, e + 3)
        BY Zenon DEF Longest
      <4> QED
        BY <4>1, <4>2
    <3>7. /\ last \in d .. Len(s)
          /\ Max({j \in d .. Len(s) : IsNumber(SubSeq(s, d, j))}) = last
      BY <3>2, <3>4, <3>5, <3>6, LongestNumber
    <3>8. NumberCents(SubSeq(s, d, last))
            = 100 * Natural(SubSeq(s, d, e)) + Cents(Decimals(s, e + 1))
      BY <3>2, <3>4, <3>5, <3>6, <3>7, CentsOfNumber
    <3>9. ExtractAmount(s) = 100 * Natural(SubSeq(s, d, e)) + Cents(Decimals(s, e + 1))
      BY <2>1, <2>2, <2>5, <3>2, <3>3, Zenon
    <3>10. AmountIsFirstNumber <=> ExtractAmount(s) = NumberCents(SubSeq(s, d, last))
      BY <2>3, <2>5, <3>1, <3>7, Zenon
    <3> QED
      BY <3>8, <3>9, <3>10, Zenon
  <2> QED
    BY <2>4, <2>5
<1>2. text \in Seq(Chars) => AmountIsFirstNumber
  BY <1>1
<1> QED
  BY <1>2, TextType, PTL

--------------------------------------------------------------------------------
(* Tokens.  A greedy run that begins a word ends it.                        *)
IsWord(s, i, e) ==
  /\ i \in DOMAIN s /\ e \in DOMAIN s /\ i <= e
  /\ \A j \in i .. e : s[j] \in AlphaNumeric
  /\ At(s, i - 1) \notin AlphaNumeric /\ At(s, e + 1) \notin AlphaNumeric

LEMMA NoCharInWords == NoChar \notin AlphaNumeric
BY Classes, MarkIs, NoLetter DEF AlphaNumeric

LEMMA WordBegins ==
  ASSUME NEW s \in Seq(Chars), NEW i \in DOMAIN s,
         s[i] \in AlphaNumeric, At(s, i - 1) \notin AlphaNumeric
  PROVE  IsWord(s, i, RunEnd(s, i, AlphaNumeric))
<1> DEFINE e == RunEnd(s, i, AlphaNumeric)
<1>1. i \in 1 .. Len(s) + 1 /\ i \in 1 .. Len(s)
  OBVIOUS
<1>2. /\ e \in i - 1 .. Len(s) /\ \A j \in i .. e : s[j] \in AlphaNumeric
      /\ At(s, e + 1) \notin AlphaNumeric
  BY <1>1, NoCharInWords, RunEndIs
<1> HIDE DEF e
<1>3. e # i - 1
  <2> SUFFICES ASSUME e = i - 1 PROVE FALSE
    OBVIOUS
  <2>1. e + 1 = i
    BY <1>1
  <2>2. At(s, i) = s[i]
    BY AtIs
  <2> QED
    BY <1>2, <2>1, <2>2
<1>4. e \in DOMAIN s /\ i <= e
  BY <1>1, <1>2, <1>3
<1> QED
  BY <1>2, <1>4 DEF IsWord, e

LEMMA TokensAreWords ==
  ASSUME NEW s \in Seq(Chars)
  PROVE  Tokenize(s) = Words(s)
<1> DEFINE starts == {i \in DOMAIN s : s[i] \in AlphaNumeric /\ At(s, i - 1) \notin AlphaNumeric}
           spans  == {x \in (DOMAIN s) \X (DOMAIN s) :
                        /\ x[1] <= x[2] /\ \A i \in x[1] .. x[2] : s[i] \in AlphaNumeric
                        /\ At(s, x[1] - 1) \notin AlphaNumeric
                        /\ At(s, x[2] + 1) \notin AlphaNumeric}
           token(i)   == Uppercase(SubSeq(s, i, RunEnd(s, i, AlphaNumeric)))
           word(i, e) == Uppercase(SubSeq(s, i, e))
<1>1. Tokenize(s) = {token(i) : i \in starts}
  BY Zenon DEF Tokenize
<1>2. Words(s) = {word(x[1], x[2]) : x \in spans}
  BY Zenon DEF Words
<1>3. ASSUME NEW i \in starts PROVE token(i) \in Words(s)
  <2>1. PICK e : e = RunEnd(s, i, AlphaNumeric)
    OBVIOUS
  <2>2. IsWord(s, i, e)
    BY <2>1, WordBegins
  <2>3. <<i, e>> \in spans
    BY <2>2 DEF IsWord
  <2>4. word(i, e) \in Words(s)
    <3> HIDE DEF spans, word
    <3>1. <<i, e>>[1] = i /\ <<i, e>>[2] = e
      OBVIOUS
    <3> QED
      BY <1>2, <2>3, <3>1
  <2> QED
    BY <2>1, <2>4
<1>4. ASSUME NEW x \in spans PROVE word(x[1], x[2]) \in Tokenize(s)
  <2>1. PICK i \in DOMAIN s, e \in DOMAIN s : x[1] = i /\ x[2] = e
    OBVIOUS
  <2>2. IsWord(s, i, e)
    BY <2>1 DEF IsWord
  <2>3. i \in 1 .. Len(s) + 1 /\ e \in i - 1 .. Len(s) /\ i \in i .. e
    BY <2>2 DEF IsWord
  <2>4. e = RunEnd(s, i, AlphaNumeric)
    BY <2>2, <2>3, NoCharInWords, RunEndIsThat DEF IsWord
  <2>5. i \in starts
    BY <2>2, <2>3 DEF IsWord
  <2>6. token(i) \in Tokenize(s)
    <3> HIDE DEF starts, token
    <3> QED
      BY <1>1, <2>5
  <2> QED
    BY <2>1, <2>4, <2>6
<1> HIDE DEF starts, spans, token, word
<1> QED
  BY <1>1, <1>2, <1>3, <1>4

LEMMA WordsAreFinite ==
  ASSUME NEW s \in Seq(Chars)
  PROVE  IsFiniteSet(Words(s))
<1> DEFINE spans == {x \in (DOMAIN s) \X (DOMAIN s) :
                       /\ x[1] <= x[2] /\ \A i \in x[1] .. x[2] : s[i] \in AlphaNumeric
                       /\ At(s, x[1] - 1) \notin AlphaNumeric
                       /\ At(s, x[2] + 1) \notin AlphaNumeric}
           f == [x \in spans |-> Uppercase(SubSeq(s, x[1], x[2]))]
<1>1. IsFiniteSet(DOMAIN s)
  <2>1. DOMAIN s = 1 .. Len(s) /\ Len(s) \in Int
    OBVIOUS
  <2> QED
    BY <2>1, FS_Interval
<1>2. IsFiniteSet(spans)
  <2>1. IsFiniteSet((DOMAIN s) \X (DOMAIN s))
    BY <1>1, FS_Product
  <2>2. spans \in SUBSET ((DOMAIN s) \X (DOMAIN s))
    OBVIOUS
  <2> HIDE DEF spans
  <2> QED
    BY <2>1, <2>2, FS_Subset
<1>3. Words(s) = {f[x] : x \in spans}
  <2>1. Words(s) = {Uppercase(SubSeq(s, x[1], x[2])) : x \in spans}
    BY Zenon DEF Words
  <2> HIDE DEF spans
  <2> QED
    BY <2>1
<1>4. f \in Surjection(spans, Words(s))
  <2>1. DOMAIN f = spans /\ f = [x \in spans |-> f[x]]
    OBVIOUS
  <2> HIDE DEF spans, f
  <2>2. f \in [spans -> Words(s)] /\ \A w \in Words(s) : \E x \in spans : f[x] = w
    BY <1>3, <2>1
  <2> QED
    BY <2>2 DEF Surjection
<1> HIDE DEF spans, f
<1> QED
  BY <1>2, <1>4, FS_Surjection

--------------------------------------------------------------------------------
(* The ranking.  What has been ranked is sorted, and is what has scored.    *)
Scores == [DOMAIN Docs -> Nat]

Precedes(score, d, e) == score[d] > score[e] \/ (score[d] = score[e] /\ d < e)

Scoring(score, n) == {d \in 1 .. n : score[d] > 0}

Ranked(ranked, score, n) ==
  /\ ranked \in Seq(Scoring(score, n))
  /\ \A d \in Scoring(score, n) : \E i \in DOMAIN ranked : ranked[i] = d
  /\ \A i, j \in DOMAIN ranked : i < j => Precedes(score, ranked[i], ranked[j])

LEMMA InsertedAt ==
  ASSUME NEW S, NEW s \in Seq(S), NEW p \in 1 .. Len(s) + 1, NEW x \in S
  PROVE  LET t == InsertAt(s, p, x)
         IN  /\ t \in Seq(S) /\ Len(t) = Len(s) + 1 /\ t[p] = x
             /\ \A i \in 1 .. p - 1 : t[i] = s[i]
             /\ \A i \in p + 1 .. Len(s) + 1 : t[i] = s[i - 1]
<1> DEFINE a == SubSeq(s, 1, p - 1)
           b == SubSeq(s, p, Len(s))
           t == a \o <<x>> \o b
<1>1. /\ a \in Seq(S) /\ Len(a) = p - 1 /\ \A i \in 1 .. p - 1 : a[i] = s[i]
  OBVIOUS
<1>2. /\ b \in Seq(S) /\ Len(b) = Len(s) - p + 1
      /\ \A i \in 1 .. Len(s) - p + 1 : b[i] = s[p + i - 1]
  OBVIOUS
<1> HIDE DEF a, b
<1>3. t \in Seq(S) /\ Len(t) = Len(s) + 1 /\ t[p] = x
  <2>1. <<x>> \in Seq(S) /\ Len(<<x>>) = 1 /\ <<x>>[1] = x
    OBVIOUS
  <2>2. PICK c : c = a \o <<x>>
    OBVIOUS
  <2>3. c \in Seq(S) /\ Len(c) = p /\ c[p] = x
    BY <1>1, <2>1, <2>2
  <2>4. t = c \o b
    BY <2>2
  <2> HIDE DEF t
  <2> QED
    BY <1>2, <2>3, <2>4
<1>4. \A i \in 1 .. p - 1 : t[i] = s[i]
  BY <1>1, <1>2
<1>5. ASSUME NEW i \in p + 1 .. Len(s) + 1 PROVE t[i] = s[i - 1]
  <2>1. t[i] = b[i - p]
    BY <1>1, <1>2
  <2>2. i - p \in 1 .. Len(s) - p + 1 /\ p + (i - p) - 1 = i - 1
    OBVIOUS
  <2> QED
    BY <1>2, <2>1, <2>2
<1>6. InsertAt(s, p, x) = t
  BY DEF InsertAt, a, b
<1> HIDE DEF t
<1> QED
  BY <1>3, <1>4, <1>5, <1>6

LEMMA RankIs ==
  ASSUME NEW score \in Scores, NEW n \in DOMAIN Docs, score[n] > 0,
         NEW ranked, Ranked(ranked, score, n - 1)
  PROVE  Ranked(Rank(ranked, n, score), score, n)
<1>0. /\ DOMAIN Docs = 1 .. Len(Docs) /\ Len(Docs) \in Nat
      /\ n \in 1 .. Len(Docs) /\ n \in Nat
  BY RetrievalAssumption
<1>1. /\ Scoring(score, n) = Scoring(score, n - 1) \cup {n}
      /\ \A d \in Scoring(score, n) : d \in Nat /\ score[d] \in Nat
      /\ \A d \in Scoring(score, n - 1) : d < n
  BY <1>0 DEF Scoring, Scores
<1>2. /\ ranked \in Seq(Scoring(score, n))
      /\ \A i \in 1 .. Len(ranked) : ranked[i] \in Scoring(score, n - 1)
      /\ \A d \in Scoring(score, n - 1) : \E i \in 1 .. Len(ranked) : ranked[i] = d
      /\ \A i, j \in 1 .. Len(ranked) : i < j => Precedes(score, ranked[i], ranked[j])
      /\ DOMAIN ranked = 1 .. Len(ranked) /\ Len(ranked) \in Nat
  BY <1>1 DEF Ranked
<1> DEFINE lower == {i \in DOMAIN ranked : score[ranked[i]] < score[n]} \cup {Len(ranked) + 1}
           t == Rank(ranked, n, score)
<1>3. PICK p : p = Min(lower) /\ p \in lower /\ \A i \in lower : p <= i
  <2>1. lower \in SUBSET Nat /\ lower # {}
    BY <1>2
  <2> HIDE DEF lower
  <2> QED
    BY <2>1, MinIs
<1>4. p \in 1 .. Len(ranked) + 1 /\ p \in Nat
  BY <1>2, <1>3
<1>5. ASSUME NEW i \in 1 .. p - 1 PROVE Precedes(score, ranked[i], n)
  <2>0. i \in Nat /\ 1 <= i /\ i < p
    BY <1>4
  <2>1. i \in 1 .. Len(ranked) /\ i \notin lower
    <3>1. i \notin lower
      <4> HIDE DEF lower
      <4> QED
        BY <1>3, <1>4, <2>0
    <3> QED
      BY <1>2, <1>4, <2>0, <3>1
  <2>2. ~(score[ranked[i]] < score[n])
    BY <1>2, <2>1
  <2>3. /\ ranked[i] \in Scoring(score, n - 1) /\ ranked[i] < n
        /\ score[ranked[i]] \in Nat /\ score[n] \in Nat
    BY <1>0, <1>1, <1>2, <2>1 DEF Scores
  <2> QED
    BY <2>2, <2>3 DEF Precedes
<1>6. ASSUME NEW i \in p .. Len(ranked) PROVE Precedes(score, n, ranked[i])
  <2>1. p \in 1 .. Len(ranked) /\ i \in 1 .. Len(ranked)
    BY <1>4
  <2>2. score[ranked[p]] < score[n]
    BY <1>3, <2>1
  <2>3. p = i \/ Precedes(score, ranked[p], ranked[i])
    BY <1>2, <2>1
  <2>4. /\ score[ranked[p]] \in Nat /\ score[ranked[i]] \in Nat /\ score[n] \in Nat
    BY <1>0, <1>1, <1>2, <2>1 DEF Scores
  <2> QED
    BY <2>2, <2>3, <2>4 DEF Precedes
<1>7. t = InsertAt(ranked, p, n)
  BY <1>3 DEF Rank
<1> HIDE DEF lower, t
<1>8. n \in Scoring(score, n)
  BY <1>1
<1>9. /\ t \in Seq(Scoring(score, n)) /\ Len(t) = Len(ranked) + 1 /\ t[p] = n
      /\ \A i \in 1 .. p - 1 : t[i] = ranked[i]
      /\ \A i \in p + 1 .. Len(ranked) + 1 : t[i] = ranked[i - 1]
  BY <1>2, <1>4, <1>7, <1>8, InsertedAt
<1>10. DOMAIN t = 1 .. Len(ranked) + 1
  BY <1>9
<1>11. ASSUME NEW d \in Scoring(score, n) PROVE \E i \in DOMAIN t : t[i] = d
  <2>1. CASE d = n
    BY <1>4, <1>9, <1>10, <2>1
  <2>2. CASE d # n
    <3>1. PICK i \in 1 .. Len(ranked) : ranked[i] = d
      BY <1>1, <1>2, <2>2
    <3>2. CASE i < p
      <4>1. i \in 1 .. p - 1 /\ i \in DOMAIN t
        BY <1>2, <1>4, <1>10, <3>2
      <4> QED
        BY <1>9, <3>1, <4>1
    <3>3. CASE ~(i < p)
      <4>1. i + 1 \in p + 1 .. Len(ranked) + 1 /\ i + 1 \in DOMAIN t /\ (i + 1) - 1 = i
        BY <1>2, <1>4, <1>10, <3>3
      <4>2. t[i + 1] = ranked[i]
        BY <1>9, <4>1
      <4> QED
        BY <3>1, <4>1, <4>2
    <3> QED
      BY <3>2, <3>3
  <2> QED
    BY <2>1, <2>2
<1>12. ASSUME NEW i \in DOMAIN t, NEW j \in DOMAIN t, i < j
       PROVE  Precedes(score, t[i], t[j])
  <2>0. i \in Nat /\ j \in Nat /\ 1 <= i /\ j <= Len(ranked) + 1
    BY <1>10
  <2>1. CASE j < p
    <3>1. i \in 1 .. p - 1 /\ j \in 1 .. p - 1 /\ i \in 1 .. Len(ranked) /\ j \in 1 .. Len(ranked)
      BY <1>2, <1>4, <1>12, <2>0, <2>1
    <3> QED
      BY <1>2, <1>9, <1>12, <3>1
  <2>2. CASE j = p
    <3>1. i \in 1 .. p - 1
      BY <1>12, <2>0, <2>2
    <3> QED
      BY <1>5, <1>9, <2>2, <3>1
  <2>3. CASE p < j
    <3>1. /\ j \in p + 1 .. Len(ranked) + 1 /\ j - 1 \in p .. Len(ranked)
          /\ j - 1 \in 1 .. Len(ranked)
      BY <1>2, <1>4, <2>0, <2>3
    <3>2. t[j] = ranked[j - 1]
      BY <1>9, <3>1
    <3>3. CASE i < p
      <4>1. i \in 1 .. p - 1 /\ i \in 1 .. Len(ranked) /\ i < j - 1
        BY <1>2, <1>4, <2>0, <2>3, <3>3
      <4> QED
        BY <1>2, <1>9, <3>1, <3>2, <4>1
    <3>4. CASE i = p
      BY <1>6, <1>9, <3>1, <3>2, <3>4
    <3>5. CASE p < i
      <4>1. i \in p + 1 .. Len(ranked) + 1 /\ i - 1 \in 1 .. Len(ranked) /\ i - 1 < j - 1
        BY <1>2, <1>4, <1>12, <2>0, <3>5
      <4>2. t[i] = ranked[i - 1]
        BY <1>9, <4>1
      <4> QED
        BY <1>2, <3>1, <3>2, <4>1, <4>2
    <3> QED
      BY <1>4, <2>0, <3>3, <3>4, <3>5
  <2> QED
    BY <1>4, <2>0, <2>1, <2>2, <2>3
<1> QED
  BY <1>9, <1>11, <1>12 DEF Ranked, t

(* One document more.                                                       *)
Added(ranked, n, score) == IF score[n] > 0 THEN Rank(ranked, n, score) ELSE ranked

LEMMA AddedIs ==
  ASSUME NEW score \in Scores, NEW n \in DOMAIN Docs,
         NEW ranked, Ranked(ranked, score, n - 1)
  PROVE  Ranked(Added(ranked, n, score), score, n)
<1>1. CASE score[n] > 0
  BY <1>1, RankIs DEF Added
<1>2. CASE ~(score[n] > 0)
  <2>1. /\ DOMAIN Docs = 1 .. Len(Docs) /\ Len(Docs) \in Nat /\ n \in Nat
    BY RetrievalAssumption
  <2>2. Scoring(score, n) = Scoring(score, n - 1)
    BY <1>2, <2>1 DEF Scoring
  <2> QED
    BY <1>2, <2>2 DEF Added, Ranked
<1> QED
  BY <1>1, <1>2

(* v gives the ranking of every beginning of the corpus up to the m-th.     *)
Rankings(score, v, m) ==
  /\ DOMAIN v = 0 .. m /\ v = [n \in DOMAIN v |-> v[n]] /\ v[0] = << >>
  /\ \A n \in 1 .. m : v[n] = Added(v[n - 1], n, score)

LEMMA RankingsExist ==
  ASSUME NEW score, NEW k \in Nat
  PROVE  \E v : Rankings(score, v, k)
<1> DEFINE S == {m \in Nat : \E v : Rankings(score, v, m)}
<1>1. 0 \in S
  <2>1. Rankings(score, [n \in 0 .. 0 |-> << >>], 0)
    BY DEF Rankings
  <2> QED
    BY <2>1
<1>2. ASSUME NEW m \in S PROVE m + 1 \in S
  <2>1. PICK v : Rankings(score, v, m)
    OBVIOUS
  <2>2. PICK x : x = Added(v[m], m + 1, score)
    OBVIOUS
  <2> DEFINE w == [n \in 0 .. m + 1 |-> IF n = m + 1 THEN x ELSE v[n]]
  <2>3. /\ DOMAIN w = 0 .. m + 1 /\ w = [n \in DOMAIN w |-> w[n]]
        /\ w[0] = << >> /\ w[m + 1] = x /\ \A n \in 0 .. m : w[n] = v[n]
    BY <2>1 DEF Rankings
  <2> HIDE DEF w
  <2>4. ASSUME NEW n \in 1 .. m + 1 PROVE w[n] = Added(w[n - 1], n, score)
    <3>1. CASE n = m + 1
      <4>1. n - 1 = m /\ m \in 0 .. m
        BY <3>1
      <4> QED
        BY <2>2, <2>3, <3>1, <4>1
    <3>2. CASE n # m + 1
      <4>1. n \in 1 .. m /\ n \in 0 .. m /\ n - 1 \in 0 .. m
        BY <3>2
      <4>2. v[n] = Added(v[n - 1], n, score)
        BY <2>1, <4>1 DEF Rankings
      <4> QED
        BY <2>3, <4>1, <4>2
    <3> QED
      BY <3>1, <3>2
  <2>5. Rankings(score, w, m + 1)
    BY <2>3, <2>4 DEF Rankings
  <2> QED
    BY <2>5
<1>3. S = Nat
  <2>1. S \in SUBSET Nat
    OBVIOUS
  <2> HIDE DEF S
  <2> QED
    BY <1>1, <1>2, <2>1, Reaches
<1> QED
  BY <1>3

LEMMA RankingIs ==
  ASSUME NEW score \in Scores
  PROVE  Ranked(Ranking(score), score, Len(Docs))
<1>0. Len(Docs) \in Nat /\ DOMAIN Docs = 1 .. Len(Docs)
  BY RetrievalAssumption
<1> DEFINE F(v) == [n \in 0 .. Len(Docs) |->
                     IF n = 0 THEN << >>
                     ELSE IF score[n] > 0 THEN Rank(v[n - 1], n, score) ELSE v[n - 1]]
<1>1. Ranking(score) = (CHOOSE v : v = F(v))[Len(Docs)]
  BY DEF Ranking
<1>2. PICK v : Rankings(score, v, Len(Docs))
  BY <1>0, RankingsExist
<1>3. v = F(v)
  BY <1>0, <1>2 DEF Rankings, Added
<1>4. PICK w : w = F(w) /\ Ranking(score) = w[Len(Docs)]
  BY <1>1, <1>3
<1>5. /\ w[0] = << >>
      /\ \A n \in 1 .. Len(Docs) : w[n] = Added(w[n - 1], n, score)
  BY <1>0, <1>4 DEF Added
<1> HIDE DEF F
<1> DEFINE S == {n \in Nat : n <= Len(Docs) => Ranked(w[n], score, n)}
<1>6. 0 \in S
  <2>1. Scoring(score, 0) = {}
    BY DEF Scoring
  <2>2. Ranked(<< >>, score, 0)
    BY <2>1 DEF Ranked
  <2> QED
    BY <1>5, <2>2
<1>7. ASSUME NEW n \in S PROVE n + 1 \in S
  <2> SUFFICES ASSUME n + 1 <= Len(Docs) PROVE Ranked(w[n + 1], score, n + 1)
    OBVIOUS
  <2>1. PICK m \in DOMAIN Docs : m = n + 1 /\ m - 1 = n
    BY <1>0
  <2>2. Ranked(w[m - 1], score, m - 1)
    BY <1>0, <2>1
  <2>3. w[m] = Added(w[m - 1], m, score)
    BY <1>0, <1>5, <2>1
  <2> QED
    BY <2>1, <2>2, <2>3, AddedIs
<1>8. S = Nat
  <2>1. S \in SUBSET Nat
    OBVIOUS
  <2> HIDE DEF S
  <2> QED
    BY <1>6, <1>7, <2>1, Reaches
<1>9. Len(Docs) \in S
  BY <1>0, <1>8
<1> QED
  BY <1>4, <1>9

--------------------------------------------------------------------------------
(* The place of a document is how many precede it.                          *)
LEMMA Numbered ==
  ASSUME NEW n \in Nat, NEW S, NEW f, \A i \in 1 .. n : f[i] \in S,
         \A x \in S : \E i \in 1 .. n : f[i] = x,
         \A i, j \in 1 .. n : i < j => f[i] # f[j]
  PROVE  Cardinality(S) = n
<1> DEFINE g == [i \in 1 .. n |-> f[i]]
<1>1. g \in [1 .. n -> S] /\ \A i \in 1 .. n : g[i] = f[i]
  OBVIOUS
<1> HIDE DEF g
<1>2. ASSUME NEW i \in 1 .. n, NEW j \in 1 .. n, g[i] = g[j] PROVE i = j
  <2>1. ~(i < j) /\ ~(j < i)
    BY <1>1, <1>2
  <2> QED
    BY <2>1
<1>3. g \in Injection(1 .. n, S)
  BY <1>1, <1>2 DEF Injection, IsInjective
<1>4. g \in Surjection(1 .. n, S)
  BY <1>1 DEF Surjection
<1>5. ExistsBijection(1 .. n, S)
  BY <1>3, <1>4 DEF Bijection, ExistsBijection
<1> QED
  BY <1>5, FS_CountingElements

LEMMA Places ==
  ASSUME NEW score \in Scores, NEW ranked, Ranked(ranked, score, Len(Docs))
  PROVE  LET all == Scoring(score, Len(Docs))
         IN  /\ ranked \in Seq(all) /\ Len(ranked) = Cardinality(all)
             /\ \A i \in DOMAIN ranked :
                  Cardinality({e \in all : Precedes(score, e, ranked[i])}) = i - 1
             /\ Len(ranked) > 0 => {e \in all : Precedes(score, e, ranked[1])} = {}
<1> DEFINE all == Scoring(score, Len(Docs))
<1>0. Len(Docs) \in Nat /\ DOMAIN Docs = 1 .. Len(Docs)
  BY RetrievalAssumption
<1>1. \A d \in all : d \in Nat /\ score[d] \in Nat
  BY <1>0 DEF Scoring, Scores
<1> HIDE DEF all
<1>2. \A d, e \in all : ~(Precedes(score, d, e) /\ Precedes(score, e, d)) /\ ~Precedes(score, d, d)
  BY <1>1 DEF Precedes
<1>3. /\ ranked \in Seq(all) /\ DOMAIN ranked = 1 .. Len(ranked) /\ Len(ranked) \in Nat
      /\ \A i \in 1 .. Len(ranked) : ranked[i] \in all
      /\ \A d \in all : \E i \in 1 .. Len(ranked) : ranked[i] = d
      /\ \A i, j \in 1 .. Len(ranked) : i < j => Precedes(score, ranked[i], ranked[j])
  BY DEF Ranked, all
<1>4. \A i, j \in 1 .. Len(ranked) : i < j => ranked[i] # ranked[j]
  BY <1>2, <1>3
<1>5. Cardinality(all) = Len(ranked)
  BY <1>3, <1>4, Numbered
<1>6. ASSUME NEW i \in 1 .. Len(ranked)
      PROVE  /\ \A j \in 1 .. i - 1 : ranked[j] \in {e \in all : Precedes(score, e, ranked[i])}
             /\ \A e \in {e \in all : Precedes(score, e, ranked[i])} :
                  \E j \in 1 .. i - 1 : ranked[j] = e
  <2>1. ASSUME NEW j \in 1 .. i - 1 PROVE ranked[j] \in all /\ Precedes(score, ranked[j], ranked[i])
    <3>1. j \in 1 .. Len(ranked) /\ j < i
      BY <1>3
    <3> QED
      BY <1>3, <3>1
  <2>2. ASSUME NEW e \in all, Precedes(score, e, ranked[i])
        PROVE  \E j \in 1 .. i - 1 : ranked[j] = e
    <3>1. PICK j \in 1 .. Len(ranked) : ranked[j] = e
      BY <1>3
    <3>2. ~(i < j) /\ i # j
      BY <1>2, <1>3, <2>2, <3>1
    <3>3. j \in 1 .. i - 1
      BY <1>3, <3>2
    <3> QED
      BY <3>1, <3>3
  <2> QED
    BY <2>1, <2>2
<1>7. ASSUME NEW i \in DOMAIN ranked
      PROVE  Cardinality({e \in all : Precedes(score, e, ranked[i])}) = i - 1
  <2> DEFINE before == {e \in all : Precedes(score, e, ranked[i])}
  <2>1. PICK n \in Nat : n = i - 1
    BY <1>3
  <2>2. i \in 1 .. Len(ranked)
    BY <1>3
  <2>3. /\ \A j \in 1 .. n : ranked[j] \in before
        /\ \A e \in before : \E j \in 1 .. n : ranked[j] = e
    BY <1>6, <2>1, <2>2
  <2>4. \A h, j \in 1 .. n : h < j => ranked[h] # ranked[j]
    <3>1. \A j \in 1 .. n : j \in 1 .. Len(ranked)
      BY <1>3, <2>1, <2>2
    <3> QED
      BY <1>4, <3>1
  <2> HIDE DEF before
  <2>5. Cardinality(before) = n
    BY <2>3, <2>4, Numbered
  <2> QED
    BY <2>1, <2>5 DEF before
<1>8. Len(ranked) > 0 => {e \in all : Precedes(score, e, ranked[1])} = {}
  <2> SUFFICES ASSUME Len(ranked) > 0, NEW e \in all, Precedes(score, e, ranked[1]) PROVE FALSE
    OBVIOUS
  <2>1. 1 \in 1 .. Len(ranked)
    BY <1>3
  <2>2. \E j \in 1 .. 1 - 1 : ranked[j] = e
    BY <1>6, <2>1
  <2> QED
    BY <2>2
<1> QED
  BY <1>3, <1>5, <1>7, <1>8 DEF all

LEMMA OverlapsAre ==
  ASSUME NEW query \in Seq(Chars)
  PROVE  /\ Overlaps(query) \in Scores
         /\ Overlaps(query) = [d \in DOMAIN Docs |-> Cardinality(Words(query) \cap DocWords[d])]
<1>1. ASSUME NEW d \in DOMAIN Docs
      PROVE  /\ DocTokens[d] = DocWords[d]
             /\ Cardinality(Words(query) \cap DocWords[d]) \in Nat
  <2>1. Docs[d] \in Seq(Chars)
    <3>1. Docs[d] \in Seq(STRING)
      BY RetrievalAssumption
    <3> QED
      BY <3>1 DEF Chars
  <2>2. DocTokens[d] = DocWords[d]
    BY <2>1, TokensAreWords DEF DocTokens, DocWords
  <2>3. IsFiniteSet(Words(query)) /\ Words(query) \cap DocWords[d] \in SUBSET Words(query)
    BY WordsAreFinite
  <2>4. IsFiniteSet(Words(query) \cap DocWords[d])
    BY <2>3, FS_Subset
  <2> QED
    BY <2>2, <2>4, FS_CardinalityType
<1>2. Tokenize(query) = Words(query)
  BY TokensAreWords
<1>3. Overlaps(query) = [d \in DOMAIN Docs |-> Cardinality(Words(query) \cap DocTokens[d])]
  BY <1>2, Zenon DEF Overlaps
<1> QED
  BY <1>1, <1>3 DEF Scores

(* The first k of a ranking are ranked as they were.                        *)
LEMMA RetrieveIs ==
  ASSUME NEW query \in Seq(Chars), NEW k \in Nat,
         NEW ranked \in Seq(Nat), ranked = Ranking(Overlaps(query))
  PROVE  LET found == Retrieve(query, k)
         IN  /\ found \in Seq(Nat)
             /\ Len(found) = IF k < Len(ranked) THEN k ELSE Len(ranked)
             /\ DOMAIN found = 1 .. Len(found)
             /\ \A i \in DOMAIN found : i \in DOMAIN ranked /\ found[i] = ranked[i]
<1>1. PICK n : n = IF k < Len(ranked) THEN k ELSE Len(ranked)
  OBVIOUS
<1>2. n \in Nat /\ n <= Len(ranked)
  BY <1>1
<1>3. Retrieve(query, k) = SubSeq(ranked, 1, n)
  BY <1>1 DEF Retrieve
<1>4. /\ SubSeq(ranked, 1, n) \in Seq(Nat)
      /\ Len(SubSeq(ranked, 1, n)) = n /\ DOMAIN SubSeq(ranked, 1, n) = 1 .. n
      /\ \A i \in 1 .. n : SubSeq(ranked, 1, n)[i] = ranked[i] /\ i \in DOMAIN ranked
  BY <1>2
<1> QED
  BY <1>1, <1>3, <1>4

(* What is found for a query, whatever its length and for whatever k.       *)
Relevant(query) == {d \in DOMAIN Docs : Cardinality(Words(query) \cap DocWords[d]) > 0}

Before(query, d) ==
  {e \in Relevant(query) :
     \/ Cardinality(Words(query) \cap DocWords[e]) > Cardinality(Words(query) \cap DocWords[d])
     \/ /\ Cardinality(Words(query) \cap DocWords[e]) = Cardinality(Words(query) \cap DocWords[d])
        /\ e < d}

LEMMA Retrieves ==
  ASSUME NEW query \in Seq(Chars), NEW k \in Nat
  PROVE  LET found == Retrieve(query, k)
         IN  /\ found \in Seq(Nat)
             /\ Len(found) = IF k < Cardinality(Relevant(query)) THEN k
                             ELSE Cardinality(Relevant(query))
             /\ Cardinality(Relevant(query)) \in Nat
             /\ Cardinality(Relevant(query)) = 0 => Relevant(query) = {}
             /\ DOMAIN found = 1 .. Len(found)
             /\ \A i \in DOMAIN found :
                  found[i] \in Relevant(query) /\ Cardinality(Before(query, found[i])) = i - 1
             /\ Len(found) > 0 => Before(query, found[1]) = {}
<1>0. Len(Docs) \in Nat /\ DOMAIN Docs = 1 .. Len(Docs)
  BY RetrievalAssumption
<1>1. PICK score \in Scores : /\ score = Overlaps(query)
                              /\ \A d \in DOMAIN Docs :
                                   score[d] = Cardinality(Words(query) \cap DocWords[d])
  BY OverlapsAre
<1> DEFINE all == Scoring(score, Len(Docs))
           before(d) == {e \in all : Precedes(score, e, d)}
<1>2. Relevant(query) = all
  BY <1>0, <1>1 DEF Relevant, Scoring
<1>3. ASSUME NEW d \in all PROVE Before(query, d) = before(d)
  <2>1. d \in DOMAIN Docs /\ \A e \in all : e \in DOMAIN Docs
    BY <1>0 DEF Scoring
  <2> HIDE DEF all
  <2> QED
    BY <1>1, <1>2, <2>1 DEF Before, Precedes
<1>4. PICK ranked : ranked = Ranking(score)
  OBVIOUS
<1>5. /\ ranked \in Seq(all) /\ Len(ranked) = Cardinality(all)
      /\ \A i \in DOMAIN ranked : Cardinality(before(ranked[i])) = i - 1
      /\ Len(ranked) > 0 => before(ranked[1]) = {}
  <2>1. Ranked(ranked, score, Len(Docs))
    BY <1>4, RankingIs
  <2> QED
    BY <2>1, Places
<1>6. ranked \in Seq(Nat)
  <2>1. \A d \in all : d \in Nat
    BY <1>0 DEF Scoring
  <2>2. ranked \in Seq(all)
    BY <1>5
  <2> HIDE DEF all
  <2>3. Len(ranked) \in Nat /\ \A i \in 1 .. Len(ranked) : ranked[i] \in all
    BY <2>2
  <2>4. ranked = [i \in 1 .. Len(ranked) |-> ranked[i]]
    BY <2>2
  <2>5. \A i \in 1 .. Len(ranked) : ranked[i] \in Nat
    BY <2>1, <2>3
  <2> QED
    BY <2>3, <2>4, <2>5
<1>7. PICK found : /\ found = Retrieve(query, k) /\ found \in Seq(Nat)
                   /\ Len(found) = IF k < Len(ranked) THEN k ELSE Len(ranked)
                   /\ DOMAIN found = 1 .. Len(found)
                   /\ \A i \in DOMAIN found : i \in DOMAIN ranked /\ found[i] = ranked[i]
  BY <1>1, <1>4, <1>6, RetrieveIs
<1>8. all = {} \/ Len(ranked) > 0
  <2>1. Ranked(ranked, score, Len(Docs))
    BY <1>4, RankingIs
  <2>2. \A d \in all : \E i \in 1 .. Len(ranked) : ranked[i] = d
    BY <1>6, <2>1 DEF Ranked
  <2> HIDE DEF all
  <2> QED
    BY <1>6, <2>2
<1> HIDE DEF all
<1>9. \A i \in DOMAIN ranked : ranked[i] \in all
  BY <1>5
<1>10. \A i \in DOMAIN found :
         found[i] \in all /\ Cardinality(Before(query, found[i])) = i - 1
  BY <1>3, <1>5, <1>7, <1>9
<1>11. Len(found) > 0 => Before(query, found[1]) = {}
  <2> SUFFICES ASSUME Len(found) > 0 PROVE Before(query, found[1]) = {}
    OBVIOUS
  <2>1. Len(found) \in Nat /\ Len(ranked) \in Nat
    BY <1>6, <1>7
  <2>2. 1 \in DOMAIN found /\ Len(ranked) > 0
    BY <1>7, <2>1
  <2>3. found[1] = ranked[1] /\ ranked[1] \in all
    BY <1>7, <1>9, <2>2
  <2> QED
    BY <1>3, <1>5, <2>2, <2>3
<1>12. Len(ranked) \in Nat /\ Cardinality(all) = Len(ranked)
  BY <1>5, <1>6
<1> HIDE DEF before
<1> QED
  BY <1>2, <1>7, <1>8, <1>10, <1>11, <1>12

LEMMA MinOfTwo ==
  ASSUME NEW a \in Nat, NEW b \in Nat
  PROVE  Min({a, b}) = IF a < b THEN a ELSE b
<1>1. {a, b} \in SUBSET Nat
  OBVIOUS
<1>2. CASE a < b
  <2>1. a \in {a, b} /\ \A y \in {a, b} : a <= y
    BY <1>2
  <2> QED
    BY <1>1, <1>2, <2>1, MinIsThat
<1>3. CASE ~(a < b)
  <2>1. b \in {a, b} /\ \A y \in {a, b} : b <= y
    BY <1>3
  <2> QED
    BY <1>1, <1>3, <2>1, MinIsThat
<1> QED
  BY <1>2, <1>3

(* The retriever finds the documents that share most words with the query,  *)
(* in their order, for every corpus, every query and every k: the greedy    *)
(* tokens are the words, and the documents inserted one after the other are *)
(* numbered by how many precede them.                                       *)
THEOREM BestAreRetrieved == Spec => []RetrievesTheBest
<1> DEFINE shared == [d \in DOMAIN Docs |-> Cardinality(Words(text) \cap DocWords[d])]
           relevant == {d \in DOMAIN Docs : shared[d] > 0}
           before(d) == {e \in relevant : shared[e] > shared[d] \/ (shared[e] = shared[d] /\ e < d)}
           finds(k) == LET found == Retrieve(text, k)
                       IN  /\ Len(found) = Min({k, Cardinality(relevant)})
                           /\ \A i \in DOMAIN found :
                                found[i] \in relevant /\ Cardinality(before(found[i])) = i - 1
           answers == IF relevant = {} THEN ExtractiveAnswer(text) = None
                      ELSE before(ExtractiveAnswer(text)) = {}
<1>1. RetrievesTheBest <=>
        (length <= MaxQuery => (\A k \in 0 .. Len(Docs) + 1 : finds(k)) /\ answers)
  BY Zenon DEF RetrievesTheBest
<1>2. ASSUME text \in Seq(Chars) PROVE (\A k \in Nat : finds(k)) /\ answers
  <2>1. relevant = Relevant(text)
    BY DEF Relevant
  <2>2. ASSUME NEW d \in relevant PROVE before(d) = Before(text, d)
    BY <2>1 DEF Before
  <2>3. Cardinality(relevant) \in Nat /\ (Cardinality(relevant) = 0 => relevant = {})
    <3> HIDE DEF relevant
    <3> QED
      BY <1>2, <2>1, Retrieves, 0 \in Nat
  <2> HIDE DEF relevant, before
  <2>4. ASSUME NEW k \in Nat PROVE finds(k)
    <3>1. PICK found : found = Retrieve(text, k)
      OBVIOUS
    <3>2. Len(found) = Min({k, Cardinality(relevant)})
      BY <1>2, <2>1, <2>3, <3>1, Retrieves, MinOfTwo
    <3>3. \A i \in DOMAIN found :
            found[i] \in relevant /\ Cardinality(before(found[i])) = i - 1
      BY <1>2, <2>1, <2>2, <3>1, Retrieves
    <3> QED
      BY <3>1, <3>2, <3>3
  <2>5. answers
    <3>1. PICK found : found = Retrieve(text, 3)
      OBVIOUS
    <3>2. /\ found \in Seq(Nat)
          /\ Len(found) = IF 3 < Cardinality(relevant) THEN 3 ELSE Cardinality(relevant)
          /\ DOMAIN found = 1 .. Len(found)
          /\ \A i \in DOMAIN found : found[i] \in relevant
          /\ Len(found) > 0 => Before(text, found[1]) = {}
      <4>1. 3 \in Nat
        OBVIOUS
      <4> QED
        BY <1>2, <2>1, <3>1, <4>1, Retrieves
    <3>3. ExtractiveAnswer(text) = IF found = << >> THEN None ELSE found[1]
      BY <3>1 DEF ExtractiveAnswer
    <3>4. CASE relevant = {}
      <4>1. Cardinality(relevant) = 0
        BY <3>4, FS_EmptySet
      <4>2. Len(found) = 0
        BY <3>2, <4>1
      <4>3. found = << >>
        BY <3>2, <4>2
      <4> QED
        BY <3>3, <3>4, <4>3
    <3>5. CASE relevant # {}
      <4>1. Len(found) > 0 /\ found # << >>
        BY <2>3, <3>2, <3>5
      <4>2. 1 \in DOMAIN found
        BY <2>3, <3>2, <4>1
      <4> QED
        BY <2>2, <3>2, <3>3, <3>5, <4>1, <4>2
    <3> QED
      BY <3>4, <3>5
  <2> QED
    BY <2>4, <2>5
<1>3. text \in Seq(Chars) => RetrievesTheBest
  <2>1. 0 .. Len(Docs) + 1 \subseteq Nat
    BY RetrievalAssumption
  <2> HIDE DEF finds, answers
  <2> QED
    BY <1>1, <1>2, <2>1
<1> QED
  BY <1>3, TextType, PTL

--------------------------------------------------------------------------------
(* Sequences put one behind the other.                                      *)
LEMMA ConcatRegroups ==
  ASSUME NEW S, NEW a \in Seq(S), NEW b \in Seq(S), NEW c \in Seq(S)
  PROVE  a \o b \in Seq(S) /\ (a \o b) \o c = a \o (b \o c)
OBVIOUS

LEMMA ConcatEmpty ==
  ASSUME NEW S, NEW a \in Seq(S)
  PROVE  a \o << >> = a /\ << >> \o a = a
OBVIOUS

(* g gives what the first of n sequences q make.                            *)
Joins(q, g, n, S) ==
  /\ n \in Nat /\ g[0] = << >>
  /\ \A i \in 0 .. n : g[i] \in Seq(S)
  /\ \A i \in 1 .. n : g[i] = g[i - 1] \o q[i]

Singles(s, q, a, b) == \A i \in a + 1 .. b : q[i] = <<s[i]>>

CopiesTo(s, g, a, i) == g[i] = g[a] \o SubSeq(s, a + 1, i)

(* The same with a first sequence instead of an empty one before it.        *)
JoinsFrom1(q, f, m) ==
  /\ DOMAIN f = 1 .. m /\ f = [i \in DOMAIN f |-> f[i]]
  /\ \A i \in 1 .. m : f[i] = IF i = 1 THEN q[i] ELSE f[i - 1] \o q[i]

LEMMA JoinsExist ==
  ASSUME NEW q, NEW k \in Nat
  PROVE  \E f : JoinsFrom1(q, f, k)
<1> DEFINE T == {m \in Nat : \E f : JoinsFrom1(q, f, m)}
<1>1. 0 \in T
  <2>1. JoinsFrom1(q, [i \in 1 .. 0 |-> << >>], 0)
    BY DEF JoinsFrom1
  <2> QED
    BY <2>1
<1>2. ASSUME NEW m \in T PROVE m + 1 \in T
  <2>1. PICK f : JoinsFrom1(q, f, m)
    OBVIOUS
  <2>2. PICK x : x = IF m + 1 = 1 THEN q[m + 1] ELSE f[m] \o q[m + 1]
    OBVIOUS
  <2> DEFINE w == [i \in 1 .. m + 1 |-> IF i = m + 1 THEN x ELSE f[i]]
  <2>3. /\ DOMAIN w = 1 .. m + 1 /\ w = [i \in DOMAIN w |-> w[i]]
        /\ w[m + 1] = x /\ \A i \in 1 .. m : w[i] = f[i]
    OBVIOUS
  <2> HIDE DEF w
  <2>4. ASSUME NEW i \in 1 .. m + 1 PROVE w[i] = IF i = 1 THEN q[i] ELSE w[i - 1] \o q[i]
    <3>1. CASE i = m + 1
      <4>1. i - 1 = m /\ (i # 1 => m \in 1 .. m)
        BY <3>1
      <4> QED
        BY <2>2, <2>3, <3>1, <4>1
    <3>2. CASE i # m + 1
      <4>1. i \in 1 .. m /\ (i # 1 => i - 1 \in 1 .. m)
        BY <3>2
      <4>2. f[i] = IF i = 1 THEN q[i] ELSE f[i - 1] \o q[i]
        BY <2>1, <4>1 DEF JoinsFrom1
      <4> QED
        BY <2>3, <4>1, <4>2
    <3> QED
      BY <3>1, <3>2
  <2>5. JoinsFrom1(q, w, m + 1)
    BY <2>3, <2>4 DEF JoinsFrom1
  <2> QED
    BY <2>5
<1>3. T = Nat
  <2>1. T \in SUBSET Nat
    OBVIOUS
  <2> HIDE DEF T
  <2> QED
    BY <1>1, <1>2, <2>1, Reaches
<1> QED
  BY <1>3

LEMMA FlattenJoins ==
  ASSUME NEW S, NEW q \in Seq(Seq(S))
  PROVE  \E g : Joins(q, g, Len(q), S) /\ FlattenSeq(q) = g[Len(q)]
<1>0. Len(q) \in Nat
  OBVIOUS
<1>1. CASE Len(q) = 0
  <2>1. q = << >> /\ FlattenSeq(q) = q
    BY <1>1 DEF FlattenSeq
  <2>2. PICK g : g = [i \in 0 .. 0 |-> << >>]
    OBVIOUS
  <2>3. g[0] = << >> /\ << >> \in Seq(S)
    BY <2>2
  <2>4. Joins(q, g, 0, S)
    <3>1. 0 \in Nat /\ (\A i \in 0 .. 0 : i = 0) /\ \A i \in 1 .. 0 : FALSE
      OBVIOUS
    <3> QED
      BY <2>3, <3>1, Zenon DEF Joins
  <2> QED
    BY <1>1, <2>1, <2>3, <2>4
<1>2. CASE Len(q) # 0
  <2> DEFINE F(f) == [i \in 1 .. Len(q) |-> IF i = 1 THEN q[i] ELSE f[i - 1] \o q[i]]
  <2>1. FlattenSeq(q) = (CHOOSE f : f = F(f))[Len(q)]
    BY <1>2, Zenon DEF FlattenSeq
  <2>2. PICK u : JoinsFrom1(q, u, Len(q))
    BY <1>0, JoinsExist
  <2>3. u = F(u)
    BY <2>2 DEF JoinsFrom1
  <2>4. PICK f : f = F(f) /\ FlattenSeq(q) = f[Len(q)]
    BY <2>1, <2>3
  <2>5. \A i \in 1 .. Len(q) : f[i] = IF i = 1 THEN q[i] ELSE f[i - 1] \o q[i]
    BY <2>4
  <2> HIDE DEF F
  <2> DEFINE g == [i \in 0 .. Len(q) |-> IF i = 0 THEN << >> ELSE f[i]]
  <2>6. g[0] = << >> /\ \A i \in 1 .. Len(q) : g[i] = f[i]
    OBVIOUS
  <2> HIDE DEF g
  <2>7. \A i \in 1 .. Len(q) : q[i] \in Seq(S)
    OBVIOUS
  <2>8. ASSUME NEW i \in 1 .. Len(q) PROVE g[i] = g[i - 1] \o q[i]
    <3>1. CASE i = 1
      <4>1. i - 1 = 0 /\ f[i] = q[i]
        BY <2>5, <3>1
      <4>2. << >> \o q[i] = q[i]
        BY <2>7, ConcatEmpty
      <4> QED
        BY <2>6, <4>1, <4>2
    <3>2. CASE i # 1
      <4>1. i - 1 \in 1 .. Len(q)
        BY <3>2
      <4> QED
        BY <2>5, <2>6, <3>2, <4>1
    <3> QED
      BY <3>1, <3>2
  <2> DEFINE T == {i \in Nat : i <= Len(q) => g[i] \in Seq(S)}
  <2>9. 0 \in T
    <3>1. << >> \in Seq(S)
      OBVIOUS
    <3> QED
      BY <2>6, <3>1
  <2>10. ASSUME NEW i \in T PROVE i + 1 \in T
    <3> SUFFICES ASSUME i + 1 <= Len(q) PROVE g[i + 1] \in Seq(S)
      OBVIOUS
    <3>1. i + 1 \in 1 .. Len(q) /\ (i + 1) - 1 = i /\ g[i] \in Seq(S)
      OBVIOUS
    <3>2. g[i + 1] = g[i] \o q[i + 1]
      BY <2>8, <3>1
    <3> QED
      BY <2>7, <3>1, <3>2
  <2>11. T = Nat
    <3>1. T \in SUBSET Nat
      OBVIOUS
    <3> HIDE DEF T
    <3> QED
      BY <2>9, <2>10, <3>1, Reaches
  <2>12. \A i \in 0 .. Len(q) : g[i] \in Seq(S)
    BY <1>0, <2>11
  <2>13. Joins(q, g, Len(q), S)
    BY <1>0, <2>6, <2>8, <2>12, Zenon DEF Joins
  <2>14. Len(q) \in 1 .. Len(q)
    BY <1>0, <1>2
  <2> QED
    BY <2>4, <2>6, <2>13, <2>14, Zenon
<1> QED
  BY <1>1, <1>2

LEMMA JoinsNothing ==
  ASSUME NEW S, NEW q, NEW g, NEW n, Joins(q, g, n, S), NEW a \in Nat, NEW b \in Nat,
         a <= b, b <= n, \A i \in a + 1 .. b : q[i] = << >>
  PROVE  g[b] = g[a]
<1> DEFINE T == {d \in Nat : a + d <= b => g[a + d] = g[a]}
<1>1. 0 \in T
  OBVIOUS
<1>2. ASSUME NEW d \in T PROVE d + 1 \in T
  <2> SUFFICES ASSUME a + (d + 1) <= b PROVE g[a + (d + 1)] = g[a]
    OBVIOUS
  <2>0. n \in Nat
    BY DEF Joins
  <2>1. PICK i \in Nat : i = a + d
    OBVIOUS
  <2>2. /\ i + 1 \in 1 .. n /\ i + 1 \in a + 1 .. b /\ i \in 0 .. n
        /\ (i + 1) - 1 = i /\ g[i] = g[a] /\ a + (d + 1) = i + 1
    BY <2>0, <2>1
  <2>3. g[i + 1] = g[i] \o << >> /\ g[i] \in Seq(S)
    BY <2>2 DEF Joins
  <2> QED
    BY <2>2, <2>3, ConcatEmpty
<1>3. T = Nat
  <2>1. T \in SUBSET Nat
    OBVIOUS
  <2> HIDE DEF T
  <2> QED
    BY <1>1, <1>2, <2>1, Reaches
<1>4. PICK d \in Nat : a + d = b
  <2>1. b - a \in Nat /\ a + (b - a) = b
    OBVIOUS
  <2> QED
    BY <2>1
<1>5. d \in T
  BY <1>3
<1> QED
  BY <1>4, <1>5

LEMMA JoinsCopies ==
  ASSUME NEW S, NEW s \in Seq(S), NEW q, NEW g, Joins(q, g, Len(s), S),
         NEW a \in Nat, NEW b \in Nat, a <= b, b <= Len(s),
         Singles(s, q, a, b)
  PROVE  SubSeq(s, a + 1, b) \in Seq(S) /\ CopiesTo(s, g, a, b)
<1> DEFINE T == {d \in Nat : a + d <= b => CopiesTo(s, g, a, a + d)}
<1>0. g[a] \in Seq(S) /\ Len(s) \in Nat
  BY DEF Joins
<1>1. 0 \in T
  <2>1. SubSeq(s, a + 1, a + 0) = << >> /\ a + 0 = a
    OBVIOUS
  <2> QED
    BY <1>0, <2>1, ConcatEmpty DEF CopiesTo
<1>2. ASSUME NEW d \in T PROVE d + 1 \in T
  <2> SUFFICES ASSUME a + (d + 1) <= b PROVE CopiesTo(s, g, a, a + (d + 1))
    OBVIOUS
  <2>1. PICK i \in Nat : i = a + d
    OBVIOUS
  <2>2. /\ i + 1 \in 1 .. Len(s) /\ i + 1 \in a + 1 .. b /\ i \in 0 .. Len(s)
        /\ (i + 1) - 1 = i /\ CopiesTo(s, g, a, i) /\ a + (d + 1) = i + 1
        /\ i + 1 <= Len(s) /\ a <= i
    BY <1>0, <2>1
  <2>3. g[i + 1] = g[i] \o <<s[i + 1]>>
    BY <2>2 DEF Joins, Singles
  <2>4. PICK x : x = SubSeq(s, a + 1, i)
    OBVIOUS
  <2>5. x \in Seq(S) /\ s[i + 1] \in S /\ <<s[i + 1]>> \in Seq(S)
    BY <1>0, <2>2, <2>4
  <2>6. SubSeq(s, a + 1, i + 1) = x \o <<s[i + 1]>>
    BY <1>0, <2>2, <2>4
  <2>7. g[i] = g[a] \o x
    BY <2>2, <2>4 DEF CopiesTo
  <2>8. (g[a] \o x) \o <<s[i + 1]>> = g[a] \o (x \o <<s[i + 1]>>)
    <3>1. PICK y, z : y = g[a] /\ z = <<s[i + 1]>>
      OBVIOUS
    <3>2. y \in Seq(S) /\ z \in Seq(S)
      BY <1>0, <2>5, <3>1, Zenon
    <3>3. (y \o x) \o z = y \o (x \o z)
      BY <2>5, <3>2
    <3> QED
      BY <3>1, <3>3, Zenon
  <2>9. CopiesTo(s, g, a, i + 1)
    BY <2>3, <2>6, <2>7, <2>8, Zenon DEF CopiesTo
  <2> QED
    BY <2>2, <2>9
<1>3. T = Nat
  <2>1. T \in SUBSET Nat
    OBVIOUS
  <2> HIDE DEF T
  <2> QED
    BY <1>1, <1>2, <2>1, Reaches
<1>4. PICK d \in Nat : a + d = b
  <2>1. b - a \in Nat /\ a + (b - a) = b
    OBVIOUS
  <2> QED
    BY <2>1
<1>5. d \in T
  BY <1>3
<1>6. CopiesTo(s, g, a, b)
  BY <1>4, <1>5
<1> HIDE DEF T
<1> QED
  BY <1>0, <1>6

--------------------------------------------------------------------------------
(* Addresses.  A text matches exactly where the local part of an address    *)
(* begins or goes on.                                                       *)
Sign == "@"

LEMMA AddressClasses ==
  /\ NoChar \notin LocalPart /\ NoChar \notin Domain /\ NoChar \notin Letters
  /\ Sign \notin LocalPart /\ Sign # NoChar
  /\ \A c \in Domain : c \in LocalPart
  /\ \A c \in Letters : c \in Domain
<1>1. Digits = {"0", "1", "2", "3", "4", "5", "6", "7", "8", "9"}
  BY DEF Digits, Numerals, ToSet
<1> QED
  BY <1>1, CharactersAssumption, Zenon DEF NoChar, Sign, LocalPart, Domain

(* What a masked text is made of.                                           *)
Symbols == Chars \cup {"*"}

LEMMA MaskType == Mask \in Seq(Symbols)
<1>1. PICK c : c = "*"
  OBVIOUS
<1>2. c \in Symbols /\ Mask = <<c, c, c>>
  BY <1>1, Zenon DEF Symbols, Mask
<1> QED
  BY <1>2

LEMMA TextSymbols ==
  ASSUME NEW s \in Seq(Chars)
  PROVE  s \in Seq(Symbols)
<1>1. \A c \in Chars : c \in Symbols
  BY Zenon DEF Symbols
<1>2. Len(s) \in Nat /\ s = [i \in 1 .. Len(s) |-> s[i]] /\ \A i \in 1 .. Len(s) : s[i] \in Chars
  OBVIOUS
<1> QED
  BY <1>1, <1>2

LastPointAt(s, h, p) ==
  /\ p \in h + 2 .. Len(s) - 2 /\ \A i \in h + 1 .. p : s[i] \in Domain
  /\ s[p] = Point /\ s[p + 1] \in Letters /\ s[p + 2] \in Letters

IsAddress(s, h) ==
  /\ h \in DOMAIN s /\ s[h] = Sign /\ At(s, h - 1) \in LocalPart
  /\ \E p \in Int : LastPointAt(s, h, p)

LocalTo(s, i, h) == i < h /\ \A j \in i .. h - 1 : s[j] \in LocalPart

InLocal(s, i) == \E h \in DOMAIN s : IsAddress(s, h) /\ LocalTo(s, i, h)

Together(s) == \E g, h \in DOMAIN s : IsAddress(s, g) /\ IsAddress(s, h) /\ LocalTo(s, g + 1, h)

LEMMA MaxBelow ==
  ASSUME NEW n \in Nat, NEW S \in SUBSET Nat, S # {}, \A x \in S : x <= n
  PROVE  Max(S) \in S /\ \A x \in S : x <= Max(S)
<1> DEFINE T == {n - x : x \in S}
<1>1. T \in SUBSET Nat /\ T # {}
  <2>1. \A x \in S : x \in Nat /\ n - x \in Nat
    OBVIOUS
  <2> QED
    BY <2>1
<1>2. PICK y \in T : \A z \in T : y <= z
  <2> HIDE DEF T
  <2> QED
    BY <1>1, LeastElement
<1>3. PICK m \in S : y = n - m
  OBVIOUS
<1>4. ASSUME NEW x \in S PROVE x <= m
  <2>1. y <= n - x
    BY <1>2
  <2> QED
    BY <1>3, <2>1
<1>5. Max(S) = m
  BY <1>4, MaxIsThat
<1> QED
  BY <1>4, <1>5

(* What a match at i takes: the address at h, up to e.                      *)
Takes(s, i, h, e) ==
  /\ i \in 1 .. h - 1 /\ h \in 1 .. e - 1 /\ e \in 1 .. Len(s)
  /\ IsAddress(s, h) /\ LocalTo(s, i, h)
  /\ \A j \in h + 1 .. e : s[j] \in Domain

PointsTo(s, h, r) ==
  {p \in h + 2 .. r : s[p] = Point /\ At(s, p + 1) \in Letters /\ At(s, p + 2) \in Letters}

LEMMA MatchesIs ==
  ASSUME NEW s, NEW i, NEW h, h = AtSign(s, i), NEW r, r = RunEnd(s, h + 1, Domain),
         NEW points, points = PointsTo(s, h, r)
  PROVE  /\ Matches(s, i) <=> /\ At(s, i) \in LocalPart /\ At(s, h) = Sign
                              /\ points # {}
         /\ MatchEnd(s, i) = RunEnd(s, Max(points) + 1, Letters)
BY Zenon DEF Matches, MatchEnd, LastPoints, PointsTo, Sign, Point

LEMMA MatchTakes ==
  ASSUME NEW s \in Seq(Chars), NEW i \in DOMAIN s, Matches(s, i)
  PROVE  Takes(s, i, AtSign(s, i), MatchEnd(s, i))
<1>0. i \in 1 .. Len(s) + 1 /\ i \in 1 .. Len(s) /\ Len(s) \in Nat
  OBVIOUS
<1>1. PICK h : h = AtSign(s, i)
  OBVIOUS
<1>2. PICK l : l = RunEnd(s, i, LocalPart) /\ h = l + 1
  BY <1>1 DEF AtSign
<1>3. /\ l \in i - 1 .. Len(s) /\ \A j \in i .. l : s[j] \in LocalPart
  BY <1>0, <1>2, AddressClasses, RunEndIs
<1>4. PICK r : r = RunEnd(s, h + 1, Domain)
  OBVIOUS
<1>5. PICK points : points = PointsTo(s, h, r)
  OBVIOUS
<1>6. /\ At(s, i) \in LocalPart /\ At(s, h) = Sign /\ points # {}
      /\ MatchEnd(s, i) = RunEnd(s, Max(points) + 1, Letters)
  BY <1>1, <1>4, <1>5, MatchesIs
<1>7. h \in DOMAIN s /\ s[h] = Sign
  BY <1>6, AddressClasses, AtIs
<1>8. i < h
  <2>1. h # i
    BY <1>6, AddressClasses
  <2> QED
    BY <1>0, <1>2, <1>3, <2>1
<1>9. h \in 1 .. Len(s) /\ h + 1 \in 1 .. Len(s) + 1 /\ (h + 1) - 1 = h /\ h \in Nat
  BY <1>0, <1>7
<1>10. r \in h .. Len(s) /\ \A j \in h + 1 .. r : s[j] \in Domain
  BY <1>4, <1>9, AddressClasses, RunEndIs
<1>11. PICK m : m = Max(points) /\ m \in points
  <2>1. points \in SUBSET Nat /\ \A x \in points : x <= Len(s)
    BY <1>5, <1>9, <1>10 DEF PointsTo
  <2> QED
    BY <1>0, <1>6, <2>1, MaxBelow
<1>12. /\ m \in h + 2 .. r /\ s[m] = Point
       /\ At(s, m + 1) \in Letters /\ At(s, m + 2) \in Letters
  BY <1>5, <1>11 DEF PointsTo
<1>13. m + 1 \in DOMAIN s /\ m + 2 \in DOMAIN s /\ m \in Int
  BY <1>9, <1>12, AddressClasses, AtIs
<1>14. s[m + 1] \in Letters /\ s[m + 2] \in Letters
  BY <1>12, <1>13, AtIs
<1>15. LastPointAt(s, h, m)
  <2>1. m \in h + 2 .. Len(s) - 2
    BY <1>0, <1>9, <1>12, <1>13
  <2>2. \A j \in h + 1 .. m : s[j] \in Domain
    BY <1>9, <1>10, <1>12
  <2> QED
    BY <1>12, <1>14, <2>1, <2>2 DEF LastPointAt
<1>16. LocalTo(s, i, h)
  <2>1. h - 1 = l
    BY <1>2, <1>3
  <2> QED
    BY <1>3, <1>8, <2>1 DEF LocalTo
<1>17. At(s, h - 1) \in LocalPart
  <2>1. h - 1 \in DOMAIN s /\ h - 1 \in i .. l
    BY <1>0, <1>2, <1>3, <1>8, <1>9
  <2> QED
    BY <1>3, <2>1, AtIs
<1>18. IsAddress(s, h)
  BY <1>7, <1>13, <1>15, <1>17 DEF IsAddress
<1>19. PICK e : e = MatchEnd(s, i) /\ e = RunEnd(s, m + 1, Letters)
  BY <1>6, <1>11
<1>20. e \in m .. Len(s) /\ \A j \in m + 1 .. e : s[j] \in Letters
  <2>1. m + 1 \in 1 .. Len(s) + 1 /\ (m + 1) - 1 = m
    BY <1>0, <1>13
  <2> QED
    BY <1>19, <2>1, AddressClasses, RunEndIs
<1>21. ASSUME NEW j \in h + 1 .. e PROVE s[j] \in Domain
  <2>1. j \in h + 1 .. r \/ j \in m + 1 .. e
    BY <1>9, <1>10, <1>12, <1>20
  <2> QED
    BY <1>10, <1>20, <2>1, AddressClasses
<1>22. i \in 1 .. h - 1 /\ h \in 1 .. e - 1 /\ e \in 1 .. Len(s)
  BY <1>0, <1>8, <1>9, <1>12, <1>20
<1> QED
  BY <1>1, <1>16, <1>18, <1>19, <1>21, <1>22 DEF Takes

LEMMA LocalMatches ==
  ASSUME NEW s \in Seq(Chars), NEW i \in DOMAIN s
  PROVE  Matches(s, i) <=> InLocal(s, i)
<1>0. i \in 1 .. Len(s) + 1 /\ i \in 1 .. Len(s) /\ Len(s) \in Nat
  OBVIOUS
<1>1. ASSUME Matches(s, i) PROVE InLocal(s, i)
  <2>1. PICK h, e : Takes(s, i, h, e)
    BY <1>1, MatchTakes
  <2>2. h \in DOMAIN s
    BY <1>0, <2>1 DEF Takes
  <2> QED
    BY <2>1, <2>2 DEF Takes, InLocal
<1>2. ASSUME InLocal(s, i) PROVE Matches(s, i)
  <2>1. PICK h \in DOMAIN s : IsAddress(s, h) /\ LocalTo(s, i, h)
    BY <1>2 DEF InLocal
  <2>2. PICK p \in Int : LastPointAt(s, h, p)
    BY <2>1 DEF IsAddress
  <2>3. /\ h \in 1 .. Len(s) /\ h \in Nat /\ i < h /\ s[h] = Sign /\ At(s, h) = Sign
        /\ \A j \in i .. h - 1 : s[j] \in LocalPart
    BY <1>0, <2>1, AtIs DEF IsAddress, LocalTo
  <2>4. AtSign(s, i) = h
    <3>1. h - 1 \in i - 1 .. Len(s) /\ (h - 1) + 1 = h
      BY <1>0, <2>3
    <3>2. RunEnd(s, i, LocalPart) = h - 1
      BY <1>0, <2>3, <3>1, AddressClasses, RunEndIsThat
    <3> QED
      BY <3>1, <3>2 DEF AtSign
  <2>5. PICK r : r = RunEnd(s, h + 1, Domain)
    OBVIOUS
  <2>6. /\ r \in h .. Len(s) /\ \A j \in h + 1 .. r : s[j] \in Domain
        /\ At(s, r + 1) \notin Domain
    <3>1. h + 1 \in 1 .. Len(s) + 1 /\ (h + 1) - 1 = h
      BY <1>0, <2>3
    <3> QED
      BY <2>5, <3>1, AddressClasses, RunEndIs
  <2>7. /\ p \in h + 2 .. Len(s) - 2 /\ s[p] = Point
        /\ s[p + 1] \in Letters /\ s[p + 2] \in Letters
        /\ \A j \in h + 1 .. p : s[j] \in Domain
    BY <2>2 DEF LastPointAt
  <2>8. p <= r
    <3> SUFFICES ASSUME r < p PROVE FALSE
      BY <2>3, <2>6
    <3>1. r + 1 \in h + 1 .. p /\ r + 1 \in DOMAIN s
      BY <1>0, <2>3, <2>6, <2>7
    <3> QED
      BY <2>6, <2>7, <3>1, AtIs
  <2>9. At(s, p + 1) \in Letters /\ At(s, p + 2) \in Letters
    <3>1. p + 1 \in DOMAIN s /\ p + 2 \in DOMAIN s
      BY <1>0, <2>3, <2>7
    <3> QED
      BY <2>7, <3>1, AtIs
  <2>10. PICK points : points = PointsTo(s, h, r)
    OBVIOUS
  <2>11. p \in points
    <3>1. p \in h + 2 .. r
      BY <2>3, <2>6, <2>7, <2>8
    <3> QED
      BY <2>7, <2>9, <2>10, <3>1 DEF PointsTo
  <2>12. At(s, i) \in LocalPart
    <3>1. i \in i .. h - 1
      BY <1>0, <2>3
    <3> QED
      BY <2>3, <3>1, AtIs
  <2> QED
    BY <2>3, <2>4, <2>5, <2>10, <2>11, <2>12, MatchesIs
<1> QED
  BY <1>1, <1>2

(* Nothing in a match is in a local part but what is before its @.          *)
LEMMA NoneInside ==
  ASSUME NEW s \in Seq(Chars), ~Together(s), NEW i, NEW h, NEW e, Takes(s, i, h, e),
         NEW j \in h .. e
  PROVE  ~InLocal(s, j)
<1> SUFFICES ASSUME NEW g \in DOMAIN s, IsAddress(s, g), LocalTo(s, j, g) PROVE FALSE
  BY DEF InLocal
<1>0. /\ h \in Nat /\ e \in Nat /\ h < e /\ e \in 1 .. Len(s) /\ j \in Nat /\ g \in Nat
      /\ h \in DOMAIN s /\ s[h] = Sign /\ h <= j /\ j <= e /\ j < g
      /\ \A x \in h + 1 .. e : s[x] \in Domain
      /\ \A x \in j .. g - 1 : s[x] \in LocalPart
      /\ IsAddress(s, h)
  BY DEF Takes, IsAddress, LocalTo
<1>1. j # h
  <2> SUFFICES ASSUME j = h PROVE FALSE
    OBVIOUS
  <2>1. h \in j .. g - 1
    BY <1>0
  <2> QED
    BY <1>0, <2>1, AddressClasses
<1>2. ASSUME NEW x \in h + 1 .. g - 1 PROVE s[x] \in LocalPart
  <2>1. x \in h + 1 .. e \/ x \in j .. g - 1
    BY <1>0
  <2> QED
    BY <1>0, <2>1, AddressClasses
<1>3. LocalTo(s, h + 1, g)
  <2>1. h + 1 < g
    BY <1>0, <1>1
  <2> QED
    BY <1>2, <2>1 DEF LocalTo
<1> QED
  BY <1>0, <1>3 DEF Together

--------------------------------------------------------------------------------
(* Masking.  The scan goes over matches and single characters; what it has  *)
(* left behind is what is kept of every position so far.                    *)
Kept(s, i) ==
  IF ~InLocal(s, i) THEN <<s[i]>>
  ELSE IF i > 1 /\ InLocal(s, i - 1) THEN << >>
  ELSE <<s[i]>> \o Mask

(* The scan does not stand inside a local part.                             *)
Stands(s, i) == i > 1 => ~InLocal(s, i - 1)

Scan(s, v, i) ==
  IF i > Len(s) THEN << >>
  ELSE IF Matches(s, i)
  THEN <<s[i]>> \o Mask \o SubSeq(s, AtSign(s, i), MatchEnd(s, i)) \o v[MatchEnd(s, i) + 1]
  ELSE <<s[i]>> \o v[i + 1]

Scanned(s, v, m) ==
  /\ DOMAIN v = 1 .. Len(s) + 1 /\ v = [i \in DOMAIN v |-> v[i]]
  /\ \A i \in 1 .. Len(s) + 1 : Len(s) + 1 - m <= i => v[i] = Scan(s, v, i)

LEMMA ScanSame ==
  ASSUME NEW s \in Seq(Chars), NEW v, NEW w, NEW i \in 1 .. Len(s) + 1,
         \A j \in 1 .. Len(s) + 1 : i < j => v[j] = w[j]
  PROVE  Scan(s, v, i) = Scan(s, w, i)
<1>0. Len(s) \in Nat
  OBVIOUS
<1>1. CASE i > Len(s)
  BY <1>1, Zenon DEF Scan
<1>2. CASE ~(i > Len(s))
  <2>1. i \in DOMAIN s /\ i + 1 \in 1 .. Len(s) + 1 /\ i < i + 1
    BY <1>0, <1>2
  <2>2. CASE Matches(s, i)
    <3>1. PICK e : e = MatchEnd(s, i)
      OBVIOUS
    <3>2. Takes(s, i, AtSign(s, i), e)
      BY <2>1, <2>2, <3>1, MatchTakes
    <3>3. e + 1 \in 1 .. Len(s) + 1 /\ i < e + 1
      BY <1>0, <3>2 DEF Takes
    <3>4. v[e + 1] = w[e + 1]
      BY <3>3
    <3> QED
      BY <1>2, <2>2, <3>1, <3>4, Zenon DEF Scan
  <2>3. CASE ~Matches(s, i)
    <3>1. v[i + 1] = w[i + 1]
      BY <2>1
    <3> QED
      BY <1>2, <2>3, <3>1, Zenon DEF Scan
  <2> QED
    BY <2>2, <2>3
<1> QED
  BY <1>1, <1>2

LEMMA ScanExists ==
  ASSUME NEW s \in Seq(Chars)
  PROVE  \E v : Scanned(s, v, Len(s))
<1>0. Len(s) \in Nat
  OBVIOUS
<1> DEFINE T == {m \in Nat : m <= Len(s) => \E v : Scanned(s, v, m)}
<1>1. 0 \in T
  <2>1. PICK v : v = [i \in 1 .. Len(s) + 1 |-> << >>]
    OBVIOUS
  <2>2. DOMAIN v = 1 .. Len(s) + 1 /\ v = [i \in DOMAIN v |-> v[i]]
    BY <2>1
  <2>3. ASSUME NEW i \in 1 .. Len(s) + 1, Len(s) + 1 - 0 <= i PROVE v[i] = Scan(s, v, i)
    <3>1. i > Len(s) /\ v[i] = << >>
      BY <1>0, <2>1, <2>3
    <3> QED
      BY <3>1, Zenon DEF Scan
  <2>4. Scanned(s, v, 0)
    BY <2>2, <2>3, Zenon DEF Scanned
  <2> QED
    BY <2>4
<1>2. ASSUME NEW m \in T PROVE m + 1 \in T
  <2> SUFFICES ASSUME m + 1 <= Len(s) PROVE \E v : Scanned(s, v, m + 1)
    OBVIOUS
  <2>1. PICK v : Scanned(s, v, m)
    BY <1>0
  <2>2. PICK k \in 1 .. Len(s) + 1 : k = Len(s) + 1 - (m + 1)
    BY <1>0
  <2>3. /\ DOMAIN v = 1 .. Len(s) + 1
        /\ \A i \in 1 .. Len(s) + 1 : k < i => v[i] = Scan(s, v, i)
    BY <1>0, <2>1, <2>2 DEF Scanned
  <2>4. PICK x : x = Scan(s, v, k)
    OBVIOUS
  <2>5. PICK w : w = [i \in 1 .. Len(s) + 1 |-> IF i = k THEN x ELSE v[i]]
    OBVIOUS
  <2>6. /\ DOMAIN w = 1 .. Len(s) + 1 /\ w = [i \in DOMAIN w |-> w[i]]
        /\ w[k] = x /\ \A i \in 1 .. Len(s) + 1 : k < i => w[i] = v[i]
    BY <2>5
  <2>7. ASSUME NEW i \in 1 .. Len(s) + 1, k <= i PROVE w[i] = Scan(s, w, i)
    <3>1. \A j \in 1 .. Len(s) + 1 : i < j => v[j] = w[j]
      BY <2>6, <2>7
    <3>2. Scan(s, v, i) = Scan(s, w, i)
      BY <3>1, ScanSame
    <3>3. w[i] = Scan(s, v, i)
      BY <2>3, <2>4, <2>6, <2>7
    <3> QED
      BY <3>2, <3>3
  <2>8. Scanned(s, w, m + 1)
    BY <2>2, <2>6, <2>7 DEF Scanned
  <2> QED
    BY <2>8
<1>3. T = Nat
  <2>1. T \in SUBSET Nat
    OBVIOUS
  <2> HIDE DEF T
  <2> QED
    BY <1>1, <1>2, <2>1, Reaches
<1> QED
  BY <1>0, <1>3

LEMMA MaskEmailScans ==
  ASSUME NEW s \in Seq(Chars)
  PROVE  \E w : /\ MaskEmail(s) = w[1]
                /\ \A i \in 1 .. Len(s) + 1 : w[i] = Scan(s, w, i)
<1>0. Len(s) \in Nat
  OBVIOUS
<1> DEFINE F(v) == [i \in 1 .. Len(s) + 1 |-> Scan(s, v, i)]
<1>1. MaskEmail(s) = (CHOOSE v : v = F(v))[1]
  BY Zenon DEF MaskEmail, Scan
<1>2. PICK v : Scanned(s, v, Len(s))
  BY ScanExists
<1>3. /\ DOMAIN v = 1 .. Len(s) + 1 /\ v = [i \in DOMAIN v |-> v[i]]
      /\ \A i \in 1 .. Len(s) + 1 : v[i] = Scan(s, v, i)
  BY <1>0, <1>2 DEF Scanned
<1>4. v = F(v)
  BY <1>3
<1>5. PICK w : w = F(w) /\ MaskEmail(s) = w[1]
  BY <1>1, <1>4
<1> QED
  BY <1>5

(* Over a match the scan leaves what is kept of its positions.              *)
LEMMA OverMatch ==
  ASSUME NEW s \in Seq(Chars), ~Together(s), NEW i, NEW h, NEW e, Takes(s, i, h, e),
         Stands(s, i), NEW q, \A k \in 1 .. Len(s) : q[k] = Kept(s, k),
         NEW g, Joins(q, g, Len(s), Symbols)
  PROVE  /\ SubSeq(s, h, e) \in Seq(Symbols) /\ <<s[i]>> \o Mask \in Seq(Symbols)
         /\ g[e] = g[i - 1] \o ((<<s[i]>> \o Mask) \o SubSeq(s, h, e))
         /\ Stands(s, e + 1)
<1>0. /\ Len(s) \in Nat /\ i \in Nat /\ h \in Nat /\ e \in Nat
      /\ 1 <= i /\ i < h /\ h < e /\ e <= Len(s)
      /\ h \in DOMAIN s /\ IsAddress(s, h) /\ LocalTo(s, i, h)
  BY DEF Takes, IsAddress
<1>1. ASSUME NEW k \in i .. h - 1 PROVE InLocal(s, k)
  <2>1. LocalTo(s, k, h)
    BY <1>0 DEF LocalTo
  <2> QED
    BY <1>0, <2>1 DEF InLocal
<1>2. q[i] = <<s[i]>> \o Mask
  <2>1. InLocal(s, i) /\ ~(i > 1 /\ InLocal(s, i - 1)) /\ i \in 1 .. Len(s)
    BY <1>0, <1>1 DEF Stands
  <2>2. Kept(s, i) = <<s[i]>> \o Mask
    BY <2>1, Zenon DEF Kept
  <2> QED
    BY <2>1, <2>2
<1>3. ASSUME NEW k \in i + 1 .. h - 1 PROVE q[k] = << >>
  <2>1. k \in i .. h - 1 /\ k - 1 \in i .. h - 1 /\ k > 1 /\ k \in 1 .. Len(s)
    BY <1>0
  <2>2. InLocal(s, k) /\ InLocal(s, k - 1)
    BY <1>1, <2>1
  <2>3. Kept(s, k) = << >>
    BY <2>1, <2>2, Zenon DEF Kept
  <2> QED
    BY <2>1, <2>3
<1>4. ASSUME NEW k \in h .. e PROVE q[k] = <<s[k]>>
  <2>1. ~InLocal(s, k)
    BY NoneInside
  <2>2. Kept(s, k) = <<s[k]>>
    BY <2>1, Zenon DEF Kept
  <2>3. k \in 1 .. Len(s)
    BY <1>0
  <2> QED
    BY <2>2, <2>3
<1>5. g[i] = g[i - 1] \o (<<s[i]>> \o Mask)
  <2>1. i \in 1 .. Len(s)
    BY <1>0
  <2> QED
    BY <1>2, <2>1, Zenon DEF Joins
<1>6. PICK a \in Nat : a = h - 1 /\ a + 1 = h /\ i <= a /\ a <= e /\ a <= Len(s)
  BY <1>0
<1>7. g[a] = g[i]
  <2>1. \A k \in i + 1 .. a : q[k] = << >>
    BY <1>3, <1>6
  <2> QED
    BY <1>0, <1>6, <2>1, JoinsNothing
<1>8. SubSeq(s, h, e) \in Seq(Symbols) /\ g[e] = g[a] \o SubSeq(s, h, e)
  <2>1. Singles(s, q, a, e)
    BY <1>4, <1>6 DEF Singles
  <2>2. SubSeq(s, a + 1, e) \in Seq(Symbols) /\ CopiesTo(s, g, a, e)
    BY <1>0, <1>6, <2>1, TextSymbols, JoinsCopies, Zenon
  <2> QED
    BY <1>6, <2>2 DEF CopiesTo
<1>9. g[i - 1] \in Seq(Symbols) /\ <<s[i]>> \o Mask \in Seq(Symbols)
  <2>1. i - 1 \in 0 .. Len(s) /\ i \in 1 .. Len(s)
    BY <1>0
  <2>2. g[i - 1] \in Seq(Symbols)
    BY <2>1 DEF Joins
  <2>3. s[i] \in Symbols
    BY <2>1, TextSymbols
  <2>4. <<s[i]>> \in Seq(Symbols)
    BY <2>3
  <2> QED
    BY <2>2, <2>4, MaskType, ConcatRegroups
<1>10. g[e] = g[i - 1] \o ((<<s[i]>> \o Mask) \o SubSeq(s, h, e))
  <2>1. PICK x, y, z : x = g[i - 1] /\ y = <<s[i]>> \o Mask /\ z = SubSeq(s, h, e)
    OBVIOUS
  <2>2. x \in Seq(Symbols) /\ y \in Seq(Symbols) /\ z \in Seq(Symbols)
    BY <1>8, <1>9, <2>1, Zenon
  <2>3. (x \o y) \o z = x \o (y \o z)
    BY <2>2, ConcatRegroups
  <2>4. g[e] = (x \o y) \o z
    BY <1>5, <1>7, <1>8, <2>1, Zenon
  <2> QED
    BY <2>1, <2>3, <2>4, Zenon
<1>11. Stands(s, e + 1)
  <2>1. e \in h .. e /\ (e + 1) - 1 = e
    BY <1>0
  <2> QED
    BY <2>1, NoneInside DEF Stands
<1> QED
  BY <1>8, <1>9, <1>10, <1>11

LEMMA FromTheEnd ==
  ASSUME NEW n \in Nat, NEW S \in SUBSET (1 .. n),
         \A i \in 1 .. n : (\A j \in 1 .. n : i < j => j \in S) => i \in S
  PROVE  S = 1 .. n
<1> SUFFICES ASSUME (1 .. n) \ S # {} PROVE FALSE
  OBVIOUS
<1> DEFINE R == (1 .. n) \ S
<1>1. R \in SUBSET Nat /\ R # {} /\ \A x \in R : x <= n
  OBVIOUS
<1>2. PICK m : m \in R /\ \A x \in R : x <= m
  <2> HIDE DEF R
  <2> QED
    BY <1>1, MaxBelow
<1>3. ASSUME NEW j \in 1 .. n, m < j PROVE j \in S
  BY <1>2, <1>3
<1> QED
  BY <1>2, <1>3

LEMMA ScanTyped ==
  ASSUME NEW s \in Seq(Chars), NEW w, \A i \in 1 .. Len(s) + 1 : w[i] = Scan(s, w, i),
         NEW i \in 1 .. Len(s) + 1
  PROVE  w[i] \in Seq(Symbols)
<1>0. PICK n \in Nat : n = Len(s) + 1
  OBVIOUS
<1> DEFINE S == {k \in 1 .. n : w[k] \in Seq(Symbols)}
<1>1. ASSUME NEW k \in 1 .. n, \A j \in 1 .. n : k < j => j \in S PROVE k \in S
  <2>1. w[k] = Scan(s, w, k)
    BY <1>0
  <2>2. CASE k > Len(s)
    <3>1. w[k] = << >>
      BY <2>1, <2>2, Zenon DEF Scan
    <3>2. << >> \in Seq(Symbols)
      OBVIOUS
    <3>3. w[k] \in Seq(Symbols)
      BY <3>1, <3>2
    <3> QED
      BY <3>3
  <2>3. CASE ~(k > Len(s))
    <3>1. k \in DOMAIN s /\ k + 1 \in 1 .. n /\ k < k + 1
      BY <1>0, <2>3
    <3>2. <<s[k]>> \in Seq(Symbols)
      <4>1. s[k] \in Symbols
        BY <3>1, TextSymbols
      <4> QED
        BY <4>1
    <3>3. CASE Matches(s, k)
      <4>1. PICK h, e : h = AtSign(s, k) /\ e = MatchEnd(s, k)
        OBVIOUS
      <4>2. Takes(s, k, h, e)
        BY <3>1, <3>3, <4>1, MatchTakes
      <4>3. e + 1 \in 1 .. n /\ k < e + 1 /\ h \in 1 .. Len(s) /\ e \in h .. Len(s)
        BY <1>0, <4>2 DEF Takes
      <4>4. w[e + 1] \in Seq(Symbols)
        BY <1>1, <4>3
      <4>5. SubSeq(s, h, e) \in Seq(Symbols)
        <5>1. s \in Seq(Symbols)
          BY TextSymbols
        <5> QED
          BY <4>3, <5>1
      <4>6. w[k] = <<s[k]>> \o Mask \o SubSeq(s, h, e) \o w[e + 1]
        BY <2>1, <2>3, <3>3, <4>1, Zenon DEF Scan
      <4>7. PICK a, b, c, d : a = <<s[k]>> /\ b = Mask /\ c = SubSeq(s, h, e) /\ d = w[e + 1]
        OBVIOUS
      <4>8. /\ a \in Seq(Symbols) /\ b \in Seq(Symbols)
            /\ c \in Seq(Symbols) /\ d \in Seq(Symbols)
        BY <3>2, <4>4, <4>5, <4>7, MaskType, Zenon
      <4>9. a \o b \o c \o d \in Seq(Symbols)
        BY <4>8
      <4> QED
        BY <4>6, <4>7, <4>9, Zenon
    <3>4. CASE ~Matches(s, k)
      <4>1. w[k] = <<s[k]>> \o w[k + 1]
        BY <2>1, <2>3, <3>4, Zenon DEF Scan
      <4>2. w[k + 1] \in Seq(Symbols)
        BY <1>1, <3>1
      <4>3. <<s[k]>> \o w[k + 1] \in Seq(Symbols)
        BY <3>2, <4>2, ConcatRegroups, Zenon
      <4> QED
        BY <4>1, <4>3
    <3> QED
      BY <3>3, <3>4
  <2> QED
    BY <2>2, <2>3
<1>2. S \in SUBSET (1 .. n)
  OBVIOUS
<1> HIDE DEF S
<1>3. S = 1 .. n
  BY <1>1, <1>2, FromTheEnd
<1> QED
  BY <1>0, <1>3 DEF S

(* Wherever the scan stands, what it has behind it and what it still writes *)
(* make what is kept of the text.                                           *)
LEMMA ScanJoins ==
  ASSUME NEW s \in Seq(Chars), ~Together(s),
         NEW w, \A i \in 1 .. Len(s) + 1 : w[i] = Scan(s, w, i),
         NEW q, \A k \in 1 .. Len(s) : q[k] = Kept(s, k),
         NEW g, Joins(q, g, Len(s), Symbols)
  PROVE  w[1] = g[Len(s)]
<1>0. PICK n \in Nat : n = Len(s) + 1 /\ Len(s) \in Nat
  OBVIOUS
<1> DEFINE S == {k \in 1 .. n : Stands(s, k) => g[k - 1] \o w[k] = g[Len(s)]}
<1>1. ASSUME NEW k \in 1 .. n, \A j \in 1 .. n : k < j => j \in S PROVE k \in S
  <2> SUFFICES ASSUME Stands(s, k) PROVE g[k - 1] \o w[k] = g[Len(s)]
    OBVIOUS
  <2>1. w[k] = Scan(s, w, k) /\ w[k] \in Seq(Symbols) /\ g[k - 1] \in Seq(Symbols)
    <3>1. k \in 1 .. Len(s) + 1 /\ k - 1 \in 0 .. Len(s)
      BY <1>0
    <3> QED
      BY <3>1, ScanTyped DEF Joins
  <2>2. CASE k > Len(s)
    <3>1. w[k] = << >> /\ k - 1 = Len(s)
      <4>1. w[k] = << >>
        BY <2>1, <2>2, Zenon DEF Scan
      <4> QED
        BY <1>0, <2>2, <4>1
    <3> QED
      BY <2>1, <3>1, ConcatEmpty
  <2>3. CASE ~(k > Len(s))
    <3>1. /\ k \in DOMAIN s /\ k \in 1 .. Len(s) /\ k + 1 \in 1 .. n /\ k < k + 1
          /\ (k + 1) - 1 = k
      BY <1>0, <2>3
    <3>2. CASE Matches(s, k)
      <4>1. PICK h, e : h = AtSign(s, k) /\ e = MatchEnd(s, k)
        OBVIOUS
      <4>2. Takes(s, k, h, e)
        BY <3>1, <3>2, <4>1, MatchTakes
      <4>3. e + 1 \in 1 .. n /\ k < e + 1 /\ (e + 1) - 1 = e /\ e + 1 \in 1 .. Len(s) + 1
        BY <1>0, <4>2 DEF Takes
      <4>4. /\ SubSeq(s, h, e) \in Seq(Symbols) /\ <<s[k]>> \o Mask \in Seq(Symbols)
            /\ g[e] = g[k - 1] \o ((<<s[k]>> \o Mask) \o SubSeq(s, h, e))
            /\ Stands(s, e + 1)
        BY <4>2, OverMatch
      <4>5. g[e] \o w[e + 1] = g[Len(s)]
        <5>1. e + 1 \in S
          BY <1>1, <4>3
        <5>2. g[(e + 1) - 1] \o w[e + 1] = g[Len(s)]
          BY <4>4, <5>1
        <5> QED
          BY <4>3, <5>2
      <4>6. w[e + 1] \in Seq(Symbols)
        BY <4>3, ScanTyped
      <4>7. w[k] = ((<<s[k]>> \o Mask) \o SubSeq(s, h, e)) \o w[e + 1]
        BY <2>1, <2>3, <3>2, <4>1, Zenon DEF Scan
      <4>8. PICK a, b, c, d : /\ a = g[k - 1] /\ b = <<s[k]>> \o Mask
                              /\ c = SubSeq(s, h, e) /\ d = w[e + 1]
        OBVIOUS
      <4>9. /\ a \in Seq(Symbols) /\ b \in Seq(Symbols)
            /\ c \in Seq(Symbols) /\ d \in Seq(Symbols)
        BY <2>1, <4>4, <4>6, <4>8, Zenon
      <4>10. b \o c \in Seq(Symbols) /\ a \o ((b \o c) \o d) = (a \o (b \o c)) \o d
        BY <4>9, ConcatRegroups
      <4> QED
        BY <4>4, <4>5, <4>7, <4>8, <4>10, Zenon
    <3>3. CASE ~Matches(s, k)
      <4>1. ~InLocal(s, k)
        BY <3>1, <3>3, LocalMatches
      <4>2. q[k] = <<s[k]>>
        <5>1. Kept(s, k) = <<s[k]>>
          BY <4>1, Zenon DEF Kept
        <5> QED
          BY <3>1, <5>1
      <4>3. g[k] = g[k - 1] \o <<s[k]>>
        BY <3>1, <4>2, Zenon DEF Joins
      <4>4. g[k] \o w[k + 1] = g[Len(s)]
        <5>1. Stands(s, k + 1)
          BY <3>1, <4>1 DEF Stands
        <5>2. k + 1 \in S
          BY <1>1, <3>1
        <5>3. g[(k + 1) - 1] \o w[k + 1] = g[Len(s)]
          BY <5>1, <5>2
        <5> QED
          BY <3>1, <5>3
      <4>5. w[k] = <<s[k]>> \o w[k + 1]
        BY <2>1, <2>3, <3>3, Zenon DEF Scan
      <4>6. PICK a, b, c : a = g[k - 1] /\ b = <<s[k]>> /\ c = w[k + 1]
        OBVIOUS
      <4>7. a \in Seq(Symbols) /\ b \in Seq(Symbols) /\ c \in Seq(Symbols)
        <5>1. s[k] \in Symbols
          BY <3>1, TextSymbols
        <5>2. <<s[k]>> \in Seq(Symbols)
          BY <5>1
        <5>3. w[k + 1] \in Seq(Symbols)
          BY <1>0, <3>1, ScanTyped
        <5> QED
          BY <2>1, <4>6, <5>2, <5>3, Zenon
      <4>8. (a \o b) \o c = a \o (b \o c)
        BY <4>7, ConcatRegroups
      <4> QED
        BY <4>3, <4>4, <4>5, <4>6, <4>8, Zenon
    <3> QED
      BY <3>2, <3>3
  <2> QED
    BY <2>2, <2>3
<1>2. S \in SUBSET (1 .. n)
  OBVIOUS
<1> HIDE DEF S
<1>3. S = 1 .. n
  BY <1>1, <1>2, FromTheEnd
<1>4. 1 \in S /\ Stands(s, 1)
  BY <1>0, <1>3 DEF Stands
<1>5. g[1 - 1] \o w[1] = g[Len(s)]
  BY <1>4 DEF S
<1>6. g[1 - 1] = << >> /\ w[1] \in Seq(Symbols)
  <2>1. 1 \in 1 .. Len(s) + 1 /\ 1 - 1 = 0
    BY <1>0
  <2>2. w[1] \in Seq(Symbols)
    BY <2>1, ScanTyped
  <2> QED
    BY <2>1, <2>2 DEF Joins
<1> QED
  BY <1>5, <1>6, ConcatEmpty

LEMMA KeptType ==
  ASSUME NEW s \in Seq(Chars), NEW i \in DOMAIN s
  PROVE  Kept(s, i) \in Seq(Symbols)
<1>1. s[i] \in Symbols
  BY TextSymbols
<1>2. <<s[i]>> \in Seq(Symbols) /\ << >> \in Seq(Symbols)
  BY <1>1
<1>3. <<s[i]>> \o Mask \in Seq(Symbols)
  BY <1>2, MaskType, ConcatRegroups
<1> QED
  BY <1>2, <1>3 DEF Kept

LEMMA EveryTextIsMasked ==
  ASSUME NEW s \in Seq(Chars), ~Together(s)
  PROVE  MaskEmail(s) = FlattenSeq([i \in DOMAIN s |-> Kept(s, i)])
<1>1. PICK q : q = [i \in DOMAIN s |-> Kept(s, i)]
  OBVIOUS
<1>2. /\ q \in Seq(Seq(Symbols)) /\ Len(q) = Len(s)
      /\ \A k \in 1 .. Len(s) : q[k] = Kept(s, k)
  BY <1>1, KeptType
<1>3. PICK g : Joins(q, g, Len(s), Symbols) /\ FlattenSeq(q) = g[Len(s)]
  BY <1>2, FlattenJoins
<1>4. PICK w : MaskEmail(s) = w[1] /\ \A i \in 1 .. Len(s) + 1 : w[i] = Scan(s, w, i)
  BY MaskEmailScans
<1>5. w[1] = g[Len(s)]
  BY <1>2, <1>3, <1>4, ScanJoins
<1> QED
  BY <1>1, <1>3, <1>4, <1>5

(* Every address of every text is masked, however many there are, and       *)
(* nothing else is changed, unless addresses are run together.              *)
THEOREM AddressesAreMasked == Spec => []EveryAddressIsMasked
<1>1. Addresses = {h \in DOMAIN text : IsAddress(text, h)}
  <2>1. ASSUME NEW h \in DOMAIN text
        PROVE  (\E p \in h + 2 .. Len(text) - 2 :
                  /\ \A i \in h + 1 .. p : text[i] \in Domain
                  /\ text[p] = "." /\ text[p + 1] \in Letters /\ text[p + 2] \in Letters)
               <=> \E p \in Int : LastPointAt(text, h, p)
    <3>1. \A p : p \in h + 2 .. Len(text) - 2 => p \in Int
      OBVIOUS
    <3> QED
      BY <3>1, Zenon DEF LastPointAt, Point
  <2> QED
    BY <2>1, Zenon DEF Addresses, IsAddress, Sign
<1>2. \A i, h : IsLocal(i, h) <=> LocalTo(text, i, h)
  BY Zenon DEF IsLocal, LocalTo
<1>3. RunTogether <=> Together(text)
  BY <1>1, <1>2, Zenon DEF RunTogether, Together
<1>4. \A i : (\E h \in Addresses : IsLocal(i, h)) <=> InLocal(text, i)
  BY <1>1, <1>2, Zenon DEF InLocal
<1> DEFINE local(i) == \E h \in Addresses : IsLocal(i, h)
           kept(i)  == IF ~local(i) THEN <<text[i]>>
                       ELSE IF i > 1 /\ local(i - 1) THEN << >>
                       ELSE <<text[i]>> \o Mask
<1>5. \A i : kept(i) = Kept(text, i)
  BY <1>4, Zenon DEF Kept
<1>6. EveryAddressIsMasked
        <=> (~RunTogether => MaskEmail(text) = FlattenSeq([i \in DOMAIN text |-> kept(i)]))
  BY Zenon DEF EveryAddressIsMasked
<1> HIDE DEF kept
<1>7. [i \in DOMAIN text |-> kept(i)] = [i \in DOMAIN text |-> Kept(text, i)]
  BY <1>5
<1>8. text \in Seq(Chars) => EveryAddressIsMasked
  BY <1>3, <1>6, <1>7, EveryTextIsMasked
<1> QED
  BY <1>8, TextType, PTL
================================================================================
