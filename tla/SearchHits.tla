----------------------------- MODULE SearchHits -----------------------------
(***************************************************************************)
(* What a search answers: how many hits it asks the collection for, how a  *)
(* path filter is applied to a ranking it sees only the front of, and how  *)
(* the hits are ranked again and cut.  The collection is a sequence of     *)
(* documents in the order of their distance; a document has whether its    *)
(* path matches the glob, its distance and the sum of its boosts and       *)
(* penalties (hundredths), and its place as an identity.                   *)
(* store/zvec/{collection,glob_topk,pathglob}.go, service/search_rerank.go,*)
(* service/phase1.go                                                       *)
(***************************************************************************)
EXTENDS Integers, Sequences, FiniteSets

Clamp(n, low, high) == CASE n < low -> low [] n > high -> high [] OTHER -> n
Foremost(s, n) == SubSeq(s, 1, Clamp(n, 0, Len(s)))

---------------------------------------------------------------------------
(* Limits.  A limit below 0 is refused; topK stands in for a limit of 0,   *)
(* "none" when the request has none.                                       *)

DefaultLimit == 10
MaxLimit == 100
BadLimit == -1

NormalizeLimit(limit, topK) ==
  LET asked == IF limit = 0 /\ topK # "none" THEN topK ELSE limit
  IN  CASE asked < 0 -> BadLimit [] asked = 0 -> DefaultLimit [] OTHER -> Clamp(asked, 1, MaxLimit)

\* searchOverFetchLimit.
FetchLimit(limit) == Clamp(5 * limit, 40, 100)

---------------------------------------------------------------------------
(* The expansion.                                                          *)

\* globTopKStart.
StartTopK(topK, docCount) == Clamp(topK, 1, docCount)

\* Slip: a step that would leave the collection behind ends the search.
NextTopKUncapped(current, docCount) == IF 2 * current > docCount THEN 0 ELSE 2 * current

\* nextGlobTopK.
NextTopK(current, docCount) == Clamp(2 * current, 1, docCount)

\* The documents among the first n whose path matches.
Matching(docs) ==
  LET upTo[n \in 0..Len(docs)] ==
        IF n = 0 THEN <<>>
        ELSE IF docs[n].match THEN Append(upTo[n - 1], docs[n]) ELSE upTo[n - 1]
  IN  upTo

\* searchWithGlobExpansion: the front of the ranking doubles until enough of it
\* match or it is the whole collection.
Expand(docs, topK) ==
  LET from[queryTopK \in 1..Len(docs)] ==
        LET hits == Foremost(Matching(docs)[queryTopK], topK)
            next == NextTopK(queryTopK, Len(docs))
        IN  IF Len(hits) >= topK \/ queryTopK >= Len(docs) \/ next = 0 THEN hits ELSE from[next]
  IN  from

\* CollectionStore.Search; a request without a glob takes the front.
Search(docs, topK, globbed) ==
  CASE ~globbed -> Foremost(docs, topK)
    [] globbed /\ docs = <<>> -> <<>>
    [] OTHER -> Expand(docs, topK)[StartTopK(topK, Len(docs))]

---------------------------------------------------------------------------
(* The second ranking.                                                     *)

Adjusted(hit) == hit.distance - hit.boost

\* rerankSearchHits: a stable sort by the adjusted distance.
Before(hits, i, j) ==
  \/ Adjusted(hits[i]) < Adjusted(hits[j])
  \/ Adjusted(hits[i]) = Adjusted(hits[j]) /\ i <= j
Place(hits, j) == Cardinality({i \in DOMAIN hits : Before(hits, i, j)})
Rerank(hits) == [p \in DOMAIN hits |-> hits[CHOOSE j \in DOMAIN hits : Place(hits, j) = p]]

\* SemanticSearch, from the collection's answer on.
Answer(docs, limit, fetchLimit, globbed) == Foremost(Rerank(Search(docs, fetchLimit, globbed)), limit)
=============================================================================
