-------------------------- MODULE RetrievalProperties --------------------------
(***************************************************************************)
(* What the retriever must find, without tokens or a sort.                 *)
(***************************************************************************)
EXTENDS Retrieval, TypedText

CONSTANT MaxQuery   (* bound: pieces of a query                             *)

(* The words of a text: what neither a letter nor a digit extends.          *)
Words(t) ==
  {Uppercase(SubSeq(t, s[1], s[2])) :
     s \in {s \in (DOMAIN t) \X (DOMAIN t) :
            /\ s[1] <= s[2] /\ \A i \in s[1] .. s[2] : t[i] \in AlphaNumeric
            /\ At(t, s[1] - 1) \notin AlphaNumeric /\ At(t, s[2] + 1) \notin AlphaNumeric}}

DocWords == [d \in DOMAIN Docs |-> Words(Docs[d])]

(* Whatever is asked, and for whatever k, the i-th result is the document   *)
(* that i - 1 relevant ones precede: by sharing more words with the query   *)
(* in whatever case, or as many from an earlier place in the corpus.  No    *)
(* relevant document is missing unless k is reached, and the extractive     *)
(* answer quotes the first of them, or none when there is none.             *)
RetrievesTheBest ==
  LET words  == Words(text)
      shared == [d \in DOMAIN Docs |-> Cardinality(words \cap DocWords[d])]
      relevant == {d \in DOMAIN Docs : shared[d] > 0}
      before(d) == {e \in relevant : shared[e] > shared[d] \/ (shared[e] = shared[d] /\ e < d)}
  IN  length <= MaxQuery =>
      /\ \A k \in 0 .. Len(Docs) + 1 :
           LET found == Retrieve(text, k)
           IN  /\ Len(found) = Min({k, Cardinality(relevant)})
               /\ \A i \in DOMAIN found :
                    found[i] \in relevant /\ Cardinality(before(found[i])) = i - 1
      /\ IF relevant = {} THEN ExtractiveAnswer(text) = None
         ELSE before(ExtractiveAnswer(text)) = {}
================================================================================
