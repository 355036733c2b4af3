------------------------------- MODULE Retrieval -------------------------------
(***************************************************************************)
(* The policy retriever the support worker uses (InMemoryRetriever in      *)
(* src/rag/retriever.py) and the offline answerer (src/agents/support.py). *)
(* A document is the text of its title and content, and is retrieved by    *)
(* its position in the corpus.                                             *)
(***************************************************************************)
EXTENDS Characters, FiniteSetsExt

CONSTANT Docs   (* the corpus, a sequence of texts                          *)

ASSUME RetrievalAssumption == Docs \in Seq(Seq(STRING))

AlphaNumeric == Letters \cup Digits

(* _tokenize: the runs of letters and digits, in one case.                  *)
Tokenize(text) ==
  {Uppercase(SubSeq(text, i, RunEnd(text, i, AlphaNumeric))) :
     i \in {i \in DOMAIN text : text[i] \in AlphaNumeric
                               /\ At(text, i - 1) \notin AlphaNumeric}}

DocTokens == [doc \in DOMAIN Docs |-> Tokenize(Docs[doc])]

(* The scores, but for the division by the tokens of the query.             *)
Overlaps(query) ==
  LET queryTokens == Tokenize(query)
  IN  [doc \in DOMAIN Docs |-> Cardinality(queryTokens \cap DocTokens[doc])]

(* Mutant: a document goes before the ones that score as high.              *)
RankUnstable(ranked, doc, score) ==
  InsertAt(ranked,
           Min({i \in DOMAIN ranked : score[ranked[i]] <= score[doc]} \cup {Len(ranked) + 1}), doc)

(* The sort is stable: a document goes behind the ones that score as high.  *)
Rank(ranked, doc, score) ==
  InsertAt(ranked,
           Min({i \in DOMAIN ranked : score[ranked[i]] < score[doc]} \cup {Len(ranked) + 1}), doc)

(* The documents that score, sorted one after the other.                    *)
Ranking(score) ==
  LET ranked[n \in 0 .. Len(Docs)] ==
        IF n = 0 THEN << >>
        ELSE IF score[n] > 0 THEN Rank(ranked[n - 1], n, score) ELSE ranked[n - 1]
  IN  ranked[Len(Docs)]

Retrieve(query, k) ==
  LET ranked == Ranking(Overlaps(query))
  IN  SubSeq(ranked, 1, IF k < Len(ranked) THEN k ELSE Len(ranked))

(* The document the extractive answer quotes, None when it has nothing.     *)
ExtractiveAnswer(query) ==
  LET chunks == Retrieve(query, 3)
  IN  IF chunks = << >> THEN None ELSE chunks[1]
================================================================================
