----------------------------- MODULE Retrieval -----------------------------
(***************************************************************************)
(* One search of a knowledge base at a time: two recall channels, their    *)
(* fusion, the rerank with its Redis cache, the post-processing and the    *)
(* context expansion (core/rag/retriever.py, ranker.py).                   *)
(*                                                                         *)
(* All statements of a search run in one database transaction.  After a    *)
(* statement fails, PostgreSQL refuses every later statement of that       *)
(* transaction, so swallowing the exception does not make the next         *)
(* statement work.                                                         *)
(***************************************************************************)
EXTENDS Lists

CONSTANTS
    Chunks,       \* indexed chunks of a knowledge base
    DocOf,        \* the document of a chunk
    TextOf,       \* its normalised content
    ShortTexts,   \* contents below dedup_min_content_length
    ScoreOf,      \* what the rerank service gives it for the query
    Threshold,    \* least score kept
    VectorTopK, Bm25TopK, RrfTopK, RerankK, TopK, MaxPerDoc,
    RrfK,         \* settings.rrf_k
    GapMillis,    \* settings.rerank_gap_threshold, in thousandths
    MaxSearches,  \* searches in a row, a bound of the model
    NoPairs       \* the rerank gave nothing

ASSUME RetrievalAssumption ==
    /\ {VectorTopK, Bm25TopK, RrfTopK, RerankK, TopK, RrfK} \subseteq Nat \ {0}
    /\ {MaxPerDoc, GapMillis, MaxSearches, Threshold} \subseteq Nat
    /\ ScoreOf \in [Chunks -> Nat]

VARIABLES
    search,   \* the search under way
    cache,    \* rerank cache: list of candidates -> stored pairs
    done      \* searches begun

retrievalVars == <<search, cache, done>>

-----------------------------------------------------------------------------

IsInjection(s) == \A i, j \in DOMAIN s : s[i] = s[j] => i = j

\* What one recall query can return.
Lists(k) == {s \in UNION {[1..n -> Chunks] : n \in 0..k} : IsInjection(s)}

Error == <<"error">>

\* A channel is a list of chunks or Error.
ShortRows(channel) == IF channel = Error THEN <<>> ELSE channel

Fresh == [pc |-> "idle", tx |-> "ok", embedded |-> "none", vector |-> <<>>,
          bm25 |-> <<>>, missing |-> {}, cand |-> <<>>, pairs |-> NoPairs,
          hit |-> FALSE, results |-> <<>>]

RetrievalInit ==
    /\ search = Fresh
    /\ cache = <<>>
    /\ done = 0

\* A statement runs when the transaction is not aborted, and may fail.
Fails(outcome) == search.tx = "aborted" \/ outcome = "error"

TxAfter(ran, outcome) == IF ran /\ outcome = "error" THEN "aborted" ELSE search.tx

Outcomes == {"rows", "error"}

-----------------------------------------------------------------------------

\* _generate_hyde: only a document it wrote is embedded and blended in.
Hyde == {"ok", "empty", "timeout", "error"}

Blended(hyde) == IF hyde = "ok" THEN "blended" ELSE "query"

\* search: without a query vector the search goes on with BM25 alone.
Embed ==
    /\ search.pc \in {"idle", "done", "raised"}
    /\ done < MaxSearches
    /\ done' = done + 1
    /\ \E e \in {"none"} \union {Blended(h) : h \in Hyde} :
          search' = [Fresh EXCEPT !.pc = "vector", !.embedded = e]
    /\ UNCHANGED cache

\* The vector query is ordered by distance; any error is a failed channel.
VectorRecall ==
    /\ search.pc = "vector"
    /\ \E outcome \in Outcomes, list \in Lists(VectorTopK) :
          LET ran == search.embedded # "none" IN
          /\ ~ran \/ outcome = "error" => list = <<>>
          /\ search' = [search EXCEPT
                !.pc = "bm25",
                !.embedded = "none",
                !.tx = TxAfter(ran, outcome),
                !.vector = IF ~ran \/ Fails(outcome) THEN Error ELSE list]
    /\ UNCHANGED <<cache, done>>

\* _bm25_search_sql: ready chunks with a positive score, ties by chunk id.
\* No terms, no statement.
Bm25Recall ==
    /\ search.pc = "bm25"
    /\ \E terms \in BOOLEAN, outcome \in Outcomes, list \in Lists(Bm25TopK) :
          /\ ~terms \/ Fails(outcome) => list = <<>>
          /\ search' = [search EXCEPT
                !.pc = "degrade",
                !.tx = TxAfter(terms, outcome),
                !.bm25 = IF terms /\ Fails(outcome) THEN Error ELSE list]
    /\ UNCHANGED <<cache, done>>

\* Both channels failed, or both found nothing: the search ends empty.
Degrade ==
    /\ search.pc = "degrade"
    /\ search' = [search EXCEPT !.pc =
          IF search.vector = search.bm25 /\ search.vector \in {Error, <<>>}
          THEN "done" ELSE "merge"]
    /\ UNCHANGED <<cache, done>>

-----------------------------------------------------------------------------

\* Chunks only BM25 found have no row yet.
OnlyBm25(s) == ToSet(ShortRows(s.bm25)) \ ToSet(ShortRows(s.vector))

\* Vector first, then what only BM25 found.
AllIds(s) == ShortRows(s.vector) \o Only(ShortRows(s.bm25), OnlyBm25(s))

\* Scores over a common denominator, so that they are exact.
Max2(a, b) == IF a >= b THEN a ELSE b

Deepest == Max2(VectorTopK, Bm25TopK)

Common ==
    LET product[i \in 0..Deepest] == IF i = 0 THEN 1 ELSE product[i - 1] * (RrfK + i)
    IN  product[Deepest]

Weight(list, c) == IF c \in ToSet(list) THEN Common \div (RrfK + At(list, c)) ELSE 0

RrfScore(s, c) == Weight(ShortRows(s.vector), c) + Weight(ShortRows(s.bm25), c)

RrfFusion(s) == BestFirst(AllIds(s), [c \in ToSet(AllIds(s)) |-> RrfScore(s, c)])

\* The best RrfTopK, without those whose row could not be read.
Candidates(s, missing) == Only(Prefix(RrfFusion(s), RrfTopK), Chunks \ missing)

\* The rows of chunks only BM25 found are read; an error is swallowed.  A chunk
\* deleted meanwhile has no row.
Merge ==
    /\ search.pc = "merge"
    /\ \E outcome \in Outcomes, gone \in SUBSET OnlyBm25(search) :
          LET ran == OnlyBm25(search) # {}
              missing == IF Fails(outcome) THEN OnlyBm25(search) ELSE gone
          IN /\ ~ran => outcome = "rows"
             /\ search' = [search EXCEPT !.pc = "rerank",
                                         !.tx = TxAfter(ran, outcome),
                                         !.missing = missing,
                                         !.cand = Candidates(search, missing)]
    /\ UNCHANGED <<cache, done>>

-----------------------------------------------------------------------------

Gap(s) == RrfScore(s, s.cand[1]) - RrfScore(s, s.cand[2])

CloseScores(s) == Gap(s) * 1000 <= GapMillis * Common

\* _decide_rerank with rerank_override "auto" and a caller that asks for it.
DecideRerank(s, ambiguous) ==
    /\ Len(s.cand) > 1 /\ RerankK > 1
    /\ ambiguous \/ CloseScores(s)

Input(s) == Prefix(s.cand, RerankK)

\* rerank-service: every text scored, best first; some scores may be unusable.
Reranked(list, lost) == Only(BestFirst(list, ScoreOf), Chunks \ lost)

\* MUTANT: any cached list counts.
CacheHitPartial(input) == input \in DOMAIN cache

\* A cached list counts when it covers every candidate.
CacheHit(input) ==
    /\ input \in DOMAIN cache
    /\ Len(cache[input]) = Len(input)

Store(input, pairs) ==
    [k \in DOMAIN cache \union {input} |-> IF k = input THEN pairs ELSE cache[k]]

\* _parse_rerank_response: the pairs with a usable score.
Answers(input) == {Reranked(input, lost) : lost \in SUBSET ToSet(input)} \ {<<>>}

\* _run_rerank: from the cache; from the service, then cached (the entry may have
\* expired, Redis may be down); nothing when the service fails or no score is
\* usable.
RunRerank(input, pairs, hit) ==
    \/ hit /\ CacheHit(input) /\ pairs = cache[input] /\ cache' = cache
    \/ /\ ~hit
       /\ \/ pairs \in Answers(input) /\ cache' \in {cache, Store(input, pairs)}
          \/ pairs = NoPairs /\ cache' = cache

Rerank ==
    /\ search.pc = "rerank"
    /\ \E ambiguous \in BOOLEAN, hit \in BOOLEAN :
          IF DecideRerank(search, ambiguous)
          THEN \E pairs \in {NoPairs} \union UNION {Lists(k) : k \in {RerankK}} :
                  /\ RunRerank(Input(search), pairs, hit)
                  /\ search' = [search EXCEPT !.pc = "post", !.pairs = pairs, !.hit = hit]
          ELSE /\ ~hit
               /\ search' = [search EXCEPT !.pc = "post"]
               /\ UNCHANGED cache
    /\ UNCHANGED done

-----------------------------------------------------------------------------

\* apply_rerank_scores and finalize_rrf: only a rerank score meets the threshold.
AboveThreshold(s) ==
    IF s.pairs = NoPairs THEN s.cand
    ELSE Only(s.pairs, {c \in Chunks : ScoreOf[c] >= Threshold})

\* A content is kept once; short contents are compared by chunk id only.
Duplicate(kept, c) ==
    /\ TextOf[c] \notin ShortTexts
    /\ \E d \in ToSet(kept) : TextOf[d] = TextOf[c]

Deduplicated(s) ==
    LET kept[n \in 0..Len(s)] ==
            IF n = 0 THEN <<>>
            ELSE IF Duplicate(kept[n - 1], s[n]) THEN kept[n - 1]
            ELSE Append(kept[n - 1], s[n])
    IN  kept[Len(s)]

OfDoc(s, d) == {c \in ToSet(s) : DocOf[c] = d}

\* The limit per document; a single document is not limited.
DocumentLimited(s) ==
    LET kept[n \in 0..Len(s)] ==
            IF n = 0 THEN <<>>
            ELSE IF Cardinality(OfDoc(kept[n - 1], DocOf[s[n]])) >= MaxPerDoc THEN kept[n - 1]
            ELSE Append(kept[n - 1], s[n])
    IN  IF MaxPerDoc = 0 \/ Cardinality({DocOf[c] : c \in ToSet(s)}) <= 1 THEN s
        ELSE kept[Len(s)]

\* _post_process_results.
Returned(s) == Prefix(DocumentLimited(Deduplicated(AboveThreshold(s))), TopK)

PostProcess ==
    /\ search.pc = "post"
    /\ search' = [search EXCEPT !.pc = "expand", !.results = Returned(search)]
    /\ UNCHANGED <<cache, done>>

\* expand_results reads the chunks and blocks of the results' documents; its
\* errors are not caught.
Expand ==
    /\ search.pc = "expand"
    /\ \E outcome \in Outcomes :
          LET ran == search.results # <<>>
          IN /\ ~ran => outcome = "rows"
             /\ search' = [search EXCEPT
                   !.pc = IF ran /\ Fails(outcome) THEN "raised" ELSE "done",
                   !.tx = TxAfter(ran, outcome)]
    /\ UNCHANGED <<cache, done>>

RetrievalNext ==
    \/ Embed \/ VectorRecall \/ Bm25Recall \/ Degrade \/ Merge
    \/ Rerank \/ PostProcess \/ Expand

RetrievalSpec == RetrievalInit /\ [][RetrievalNext]_retrievalVars

-----------------------------------------------------------------------------

\* Type correctness of a search and of the cache.
RetrievalTypeOK ==
    /\ search.pc \in {"idle", "vector", "bm25", "degrade", "merge", "rerank", "post",
                      "expand", "done", "raised"}
    /\ search.tx \in {"ok", "aborted"}
    /\ search.vector \in Lists(VectorTopK) \union {Error}
    /\ search.bm25 \in Lists(Bm25TopK) \union {Error}
    /\ search.cand \in Lists(RrfTopK)
    /\ search.pairs \in Lists(RerankK) \union {NoPairs}
    /\ search.results \in Lists(TopK)
    /\ \A input \in DOMAIN cache : ToSet(cache[input]) \subseteq ToSet(input)

\* A chunk that no channel ranks behind another one, and one ranks ahead of it, is
\* ahead of it among the candidates, unless its row could not be read
\* (_rrf_fusion, the cut at rrf_candidate_top_k and the building of candidates).
Ahead(list, c, d) ==
    c \in ToSet(list) /\ (d \in ToSet(list) => At(list, c) < At(list, d))

NotBehind(list, c, d) == d \in ToSet(list) => Ahead(list, c, d)

FusionKeepsOrder ==
    \A c \in ToSet(ShortRows(search.vector)) \union ToSet(ShortRows(search.bm25)),
       d \in ToSet(search.cand) :
          /\ c # d /\ c \notin search.missing
          /\ \A list \in {ShortRows(search.vector), ShortRows(search.bm25)} : NotBehind(list, c, d)
          => c \in ToSet(search.cand) /\ At(search.cand, c) < At(search.cand, d)

Scored(s, c) ==
    s.pairs # NoPairs => c \in ToSet(s.pairs) /\ ScoreOf[c] >= Threshold

\* The order the post-processing gets: that of the rerank, else that of the fusion.
Ranked(s) == IF s.pairs = NoPairs THEN s.cand ELSE s.pairs

Before(s, d, c) == At(Ranked(s), d) < At(Ranked(s), c)

Repeats(s, c, d) ==
    Before(s, d, c) /\ TextOf[d] = TextOf[c] /\ TextOf[c] \notin ShortTexts

\* As many results of the same document as it may have are before c.
ShareTaken(s, c) ==
    /\ MaxPerDoc > 0
    /\ \E d \in ToSet(s.cand) : Scored(s, d) /\ DocOf[d] # DocOf[c]
    /\ Cardinality({d \in OfDoc(s.results, DocOf[c]) : Before(s, d, c)}) >= MaxPerDoc

\* A finished search returns candidates that were scored, in the order of the rerank or
\* of the fusion, and leaves one out for a reason only (_post_process_results after
\* apply_rerank_scores or finalize_rrf): it was not scored, or scored below the threshold;
\* a result before it has its content; results before it take its document's share; top_k
\* results are before it; or its content was kept for a chunk before it that then fell to
\* the share of its document.  In the last case the content is among no results at all,
\* because duplicates go before the share is counted (retriever.py:224-275).
LeftOut(s, c) ==
    \/ ~Scored(s, c)
    \/ \E d \in ToSet(s.results) : Repeats(s, c, d)
    \/ ShareTaken(s, c)
    \/ Len(s.results) = TopK /\ \A d \in ToSet(s.results) : Before(s, d, c)
    \/ \E d \in ToSet(s.cand) : Scored(s, d) /\ Repeats(s, c, d) /\ ShareTaken(s, d)

NothingLostNeedlessly ==
    search.pc \in {"expand", "done", "raised"} =>
        /\ \A c \in ToSet(search.results) : c \in ToSet(search.cand) /\ Scored(search, c)
        /\ \A i, j \in DOMAIN search.results :
              i < j => Before(search, search.results[i], search.results[j])
        /\ \A c \in ToSet(search.cand) \ ToSet(search.results) : LeftOut(search, c)

\* Results answered from the rerank cache are those the service would give for
\* the same candidates, complete and in the same order (_run_rerank's cache).
CacheTransparent ==
    search.hit => search.pairs = Reranked(Input(search), {})

\* The largest gap of two RRF scores is that of a chunk both channels put first and
\* one that a single channel puts last.  With the shipped settings it is below
\* rerank_gap_threshold.
GapIsSmall ==
    1000 * (2 * (RrfK + Deepest) - (RrfK + 1)) <= GapMillis * ((RrfK + 1) * (RrfK + Deepest))

\* The rerank is left out only when there is nothing to choose between: with RRF
\* scores and settings like those the gap of the first two candidates never exceeds
\* rerank_gap_threshold, so high_confidence_skip is never the reason (_decide_rerank).
AlwaysReranks ==
    GapIsSmall /\ search.pc \in {"rerank", "post"} /\ Len(search.cand) > 1 /\ RerankK > 1
        => DecideRerank(search, FALSE)

\* While the transaction works a search that found chunks which still have their
\* rows comes back with results, unless the rerank put all of them below the
\* threshold or scored none of them; and it raises only when a statement failed.
FoundIsReturned ==
    /\ search.pc = "raised" => search.tx = "aborted"
    /\ search.pc = "done" /\ search.tx = "ok" /\ search.results = <<>> =>
          \A c \in ToSet(ShortRows(search.vector)) \union ToSet(ShortRows(search.bm25)) :
              \/ c \in search.missing
              \/ c \notin ToSet(Prefix(RrfFusion(search), RrfTopK))
              \/ search.pairs # NoPairs /\ ~Scored(search, c)

\* What a search may lose on its way, and what the cache may answer.
RetrievalInv ==
    /\ RetrievalTypeOK
    /\ FusionKeepsOrder
    /\ NothingLostNeedlessly
    /\ CacheTransparent
    /\ AlwaysReranks
    /\ FoundIsReturned

\* A failing BM25 statement leaves the results of the vector channel, as the
\* docstring of similarity_search says (retriever.py:646).  It does not: the
\* statement aborts the transaction and expand_results raises.
OtherPathContinues ==
    search.bm25 = Error /\ ShortRows(search.vector) # <<>> => search.pc # "raised"
=============================================================================
