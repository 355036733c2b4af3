-------------------------- MODULE RedactionProperties --------------------------
(***************************************************************************)
(* What masking must leave of a text, said position by position.           *)
(***************************************************************************)
EXTENDS Redaction, TypedText

(* An address by its @: something of a local part before it and a domain    *)
(* with a point and two letters after it.                                   *)
Addresses ==
  {h \in DOMAIN text :
     /\ text[h] = "@" /\ At(text, h - 1) \in LocalPart
     /\ \E p \in h + 2 .. Len(text) - 2 :
          /\ \A i \in h + 1 .. p : text[i] \in Domain
          /\ text[p] = "." /\ text[p + 1] \in Letters /\ text[p + 2] \in Letters}

(* Position i is in the local part of the address at h.                     *)
IsLocal(i, h) == i < h /\ \A j \in i .. h - 1 : text[j] \in LocalPart

(* Two addresses are run together, the domain of one being also the local   *)
(* part of the next; the expression then matches the first of them only.    *)
RunTogether == \E g, h \in Addresses : IsLocal(g + 1, h)

(* Of the local part of every address, however many there are, the first    *)
(* character remains and the mask; every other character of the text stays  *)
(* as it is.  Claimed unless addresses are run together.                    *)
EveryAddressIsMasked ==
  LET local(i) == \E h \in Addresses : IsLocal(i, h)
      kept(i)  == IF ~local(i) THEN <<text[i]>>
                  ELSE IF i > 1 /\ local(i - 1) THEN << >>
                  ELSE <<text[i]>> \o Mask
  IN  ~RunTogether => MaskEmail(text) = FlattenSeq([i \in DOMAIN text |-> kept(i)])
================================================================================
