--------------------------------- MODULE Search ---------------------------------
(***************************************************************************)
(* Searching in solr-search: the three modes and the two architectures,    *)
(* what becomes of a search when Solr or the embeddings server fails, the  *)
(* fusion of rankings, their pages, and the books similar to one.  The     *)
(* corpus is fixed; Solr's rankings of books by words and of chunks by     *)
(* similarity (to the query, or to the book asked about) are any.          *)
(* A document is <<book, 0>>, or <<book, i>> for the book's i-th chunk.    *)
(***************************************************************************)
EXTENDS Integers, Sequences, FiniteSets, SequencesExt

CONSTANTS
    Books,
    ChunksOf,       \* the chunks of each book
    Bare,           \* the chunks that may be without an embedding
    RrfK,           \* settings.rrf_k
    Candidates,     \* the least, the most and the factor of page_size, see CandidateLimit
    OverFetch,      \* similar books: chunks asked for, per book wanted
    PageSizes, MaxPage \* what clients ask

ASSUME SearchOK == /\ IsFiniteSet(Books) /\ 0 \notin Books /\ \A b \in Books : ChunksOf[b] \in Nat
                   /\ Candidates \in [least : Nat, most : Nat, factor : Nat]
                   /\ RrfK \in Nat /\ OverFetch \in Nat \ {0}
                   /\ PageSizes \subseteq Nat \ {0} /\ MaxPage \in Nat

VARIABLES
    architecture,
    page_size,
    byWords,     \* Solr's ranking of the books that match
    bySimilarity,\* Solr's ranking of the chunks that have an embedding
    answer,      \* the answer to the request, <<>> when it is still to come
    pages        \* ghost: the pages of reranked results seen

corpus     == <<architecture, page_size, byWords, bySimilarity>>
searchVars == <<corpus, answer, pages>>

BookDocs  == {<<b, 0>> : b \in Books}
ChunkDocs == UNION {{<<b, i>> : i \in 1..ChunksOf[b]} : b \in Books}

\* An id that Solr does not have.
Unknown == <<0, 0>>

Rankings(S) == UNION {SetToSeqs(T) : T \in SUBSET S}

SearchInit ==
    /\ architecture \in {"hnsw", "hybrid-rerank"}
    /\ page_size \in PageSizes
    /\ byWords \in Rankings(BookDocs)
    /\ bySimilarity \in UNION {SetToSeqs(ChunkDocs \ U) : U \in SUBSET Bare}
    /\ answer = <<>> /\ pages = {}

-----------------------------------------------------------------------------
\* Rankings
First(s, n) == SubSeq(s, 1, IF n < Len(s) THEN n ELSE Len(s))
Page(s, p)  == LET from == (p - 1) * page_size IN
               IF from >= Len(s) THEN <<>> ELSE First(SubSeq(s, from + 1, Len(s)), page_size)

Rank(s, d) == CHOOSE i \in DOMAIN s : s[i] = d

\* The sum of 1 / (k + rank) over the rankings that have d, as a fraction.
Score(s, t, d) ==
    LET r == IF d \in Range(s) THEN RrfK + Rank(s, d) ELSE 0
        q == IF d \in Range(t) THEN RrfK + Rank(t, d) ELSE 0
    IN  IF r = 0 THEN <<1, q>> ELSE IF q = 0 THEN <<1, r>> ELSE <<r + q, r * q>>

Above(x, y) == x[1] * y[2] > y[1] * x[2]

\* The items of s at the places I, arranged in the order R of the places: the n-th is
\* the one with n - 1 places before it.
Arranged(s, I, R) ==
    [n \in 1..Cardinality(I) |-> s[CHOOSE i \in I : Cardinality({j \in I : <<j, i>> \in R}) = n - 1]]

\* Those items as they stand in s.
Increasing(I) == {p \in I \X I : p[1] < p[2]}
Kept(s, I) == Arranged(s, I, Increasing(I))

\* Documents in the order they enter the dictionary.
Merged(s, t) == s \o Kept(t, {i \in DOMAIN t : t[i] \notin Range(s)})

Better(s, t, d, e) == Above(Score(s, t, d), Score(s, t, e))

\* Mutant: the sort is ascending.
FuseAscending(s, t) ==
    LET all == Merged(s, t)
        I   == DOMAIN all
    IN  Arranged(all, I, {p \in I \X I :
            \/ Better(s, t, all[p[2]], all[p[1]])
            \/ ~Better(s, t, all[p[1]], all[p[2]]) /\ p[1] < p[2]})

\* Sorted (stably) by score.
ReciprocalRankFusion(s, t) ==
    LET all == Merged(s, t)
        I   == DOMAIN all
    IN  Arranged(all, I, {p \in I \X I :
            \/ p[1] < p[2] /\ ~Better(s, t, all[p[2]], all[p[1]])
            \/ Better(s, t, all[p[1]], all[p[2]])})

\* The candidates' books that have a vector, by the similarity of their first chunk.
Reranked(docs) ==
    LET Book(i) == <<bySimilarity[i][1], 0>>
        first   == Kept(bySimilarity, {i \in DOMAIN bySimilarity :
                                           bySimilarity[i][2] = 1 /\ Book(i) \in Range(docs)})
    IN  [n \in DOMAIN first |-> <<first[n][1], 0>>]

CandidateLimit ==
    LET least == IF page_size * Candidates.factor > Candidates.least
                 THEN page_size * Candidates.factor ELSE Candidates.least
    IN  IF architecture = "hnsw" \/ least < Candidates.most THEN least ELSE Candidates.most

-----------------------------------------------------------------------------
\* Answers.  An outcome of a call is 200, or the status its failure is given.  Those of
\* Solr are all passed on alike, and 502 and 504 of the embeddings server are treated
\* like its 503.
Outcomes == {200, 503}

Failed(status, cause) == [status |-> status, cause |-> cause]

Ok(mode, degraded, results, total, page) ==
    [status |-> 200, mode |-> mode, degraded |-> degraded, results |-> results,
     total |-> total, page |-> page]

\* The page ranges that chunks add to it come from a second query, whose failure
\* is ignored.
Keyword(p, solr, degraded) ==
    IF solr # 200 THEN Failed(solr, "solr")
    ELSE Ok("keyword", degraded, Page(byWords, p), Len(byWords), p)

ShouldDegrade(embedding) == embedding \in {502, 503, 504}

\* A page of kNN is its first page, whatever page is asked.
Semantic(p, solr, embedding) ==
    LET top == First(bySimilarity, page_size) IN
    IF ShouldDegrade(embedding) THEN Keyword(p, solr, TRUE)
    ELSE IF embedding # 200 THEN Failed(embedding, "embeddings")
    ELSE IF solr # 200 THEN Failed(solr, "solr")
    ELSE Ok("semantic", FALSE, top, Len(top), 1)

\* words: the outcome of the keyword query, which runs while the query is embedded;
\* solr: that of the query that follows.
Hnsw(p, words, solr, embedding) ==
    LET fused == First(ReciprocalRankFusion(First(byWords, CandidateLimit),
                                            First(bySimilarity, CandidateLimit)), page_size) IN
    IF words # 200 THEN Failed(words, "solr")
    ELSE IF ShouldDegrade(embedding) THEN Keyword(p, solr, TRUE)
    ELSE IF embedding # 200 THEN Failed(embedding, "embeddings")
    ELSE IF solr # 200 THEN Failed(solr, "solr")
    ELSE Ok("hybrid", FALSE, fused, Len(fused), 1)

\* Mutant: the total is what Solr found, beyond the candidates that are reranked.
TotalFound == Len(byWords)

RerankTotal == IF Len(byWords) < CandidateLimit THEN Len(byWords) ELSE CandidateLimit

\* The candidates, fused with the ranking of their vectors.
Fused == LET docs == First(byWords, CandidateLimit) IN ReciprocalRankFusion(docs, Reranked(docs))

\* Without vectors the fallback shows the first page, whatever page is asked.
Rerank(p, words, solr, embedding) ==
    LET docs == First(byWords, CandidateLimit) IN
    IF words # 200 THEN Failed(words, "solr")
    ELSE IF ShouldDegrade(embedding) THEN Keyword(p, solr, TRUE)
    ELSE IF embedding # 200 THEN Failed(embedding, "embeddings")
    ELSE IF docs = <<>> THEN Ok("hybrid", FALSE, <<>>, 0, p)
    ELSE IF solr # 200 THEN Failed(solr, "solr")
    ELSE IF Reranked(docs) = <<>> THEN Ok("hybrid", TRUE, First(docs, page_size), Len(byWords), p)
    ELSE Ok("hybrid", FALSE, Page(Fused, p), RerankTotal, p)

-----------------------------------------------------------------------------
\* One request at a time, answered with one of A.
Answers(A) == answer = <<>> /\ answer' \in A /\ UNCHANGED corpus

NextRequest == answer # <<>> /\ answer' = <<>> /\ UNCHANGED <<corpus, pages>>

\* An empty query can only be searched for by words, and not every mode is offered by
\* either architecture.
SearchRefused == Answers({Failed(400, "client")}) /\ UNCHANGED pages

\* Under hybrid-rerank a hybrid search sorted by anything but score is one of these too.
SearchKeyword(p) == Answers({Keyword(p, solr, FALSE) : solr \in Outcomes}) /\ UNCHANGED pages

SearchSemantic(p) ==
    /\ architecture = "hnsw"
    /\ Answers({Semantic(p, solr, embedding) : solr, embedding \in Outcomes})
    /\ UNCHANGED pages

SearchHnsw(p) ==
    /\ architecture = "hnsw"
    /\ Answers({Hnsw(p, words, solr, embedding) : words, solr, embedding \in Outcomes})
    /\ UNCHANGED pages

SearchRerank(p) ==
    /\ architecture = "hybrid-rerank"
    /\ Answers({Rerank(p, words, solr, embedding) : words, solr, embedding \in Outcomes})
    /\ pages' = IF answer'.status = 200 /\ answer'.mode = "hybrid" /\ ~answer'.degraded
                THEN pages \cup {answer'} ELSE pages

\* Every book, in an order of its own (by title, say).
ByTitle == SetToSortSeq(BookDocs, LAMBDA x, y : x[1] < y[1])

ListBooks(p) ==
    /\ Answers({Failed(503, "solr"), Ok("books", FALSE, Page(ByTitle, p), Cardinality(BookDocs), p)})
    /\ UNCHANGED pages

\* The id of a chunk, which semantic results carry, is not the id of a book.
GetBookDetail(d) ==
    /\ \/ d \in BookDocs /\ Answers({Failed(503, "solr"), Ok("book", FALSE, <<d>>, 1, 1)})
       \/ d \in ChunkDocs /\ Answers({Failed(422, "client")})
       \/ d = Unknown /\ Answers({Failed(404, "client")})
    /\ UNCHANGED pages

\* The books of the hits, each where its best chunk is.
Deduplicated(hits, limit) ==
    LET best == Kept(hits, {i \in DOMAIN hits : \A j \in 1..(i - 1) : hits[j][1] # hits[i][1]})
    IN  First([n \in DOMAIN best |-> best[n][1]], limit)

\* Mutant: the filter takes an id of a chunk as it comes.
ExceptIdItself(d) == Kept(bySimilarity, {i \in DOMAIN bySimilarity : bySimilarity[i] # d})

\* The nearest chunks of other books: the id of a chunk stands for its book.
ExceptBookOf(d) == Kept(bySimilarity, {i \in DOMAIN bySimilarity : bySimilarity[i][1] # d[1]})

Similar(d, limit, results) ==
    [status |-> 200, mode |-> "similar", of |-> d, limit |-> limit, results |-> results]

\* min_score cuts the hits off somewhere.  Solr may fail at any of the queries.
SimilarBooks(d, limit) ==
    /\ \/ architecture # "hnsw" /\ Answers({Failed(501, "client")})
       \/ architecture = "hnsw" /\ Answers({Failed(503, "solr")})
       \/ /\ architecture = "hnsw" /\ <<d[1], 1>> \notin ChunkDocs
          /\ Answers({Failed(404, "client")})
       \/ /\ architecture = "hnsw" /\ <<d[1], 1>> \in ChunkDocs \ Range(bySimilarity)
          /\ Answers({Failed(422, "client")})
       \/ /\ architecture = "hnsw" /\ <<d[1], 1>> \in Range(bySimilarity)
          /\ LET hits == First(ExceptBookOf(d), (limit + 1) * OverFetch) IN
             Answers({Similar(d, limit, Deduplicated(First(hits, n), limit)) : n \in 0..Len(hits)})
    /\ UNCHANGED pages

SearchNext ==
    \/ SearchRefused \/ NextRequest
    \/ \E p \in 1..MaxPage : \/ SearchKeyword(p) \/ SearchSemantic(p) \/ SearchHnsw(p)
                              \/ SearchRerank(p) \/ ListBooks(p)
    \/ \E d \in BookDocs \cup ChunkDocs \cup {Unknown} :
          GetBookDetail(d) \/ \E limit \in PageSizes : SimilarBooks(d, limit)

SearchSpec == SearchInit /\ [][SearchNext]_searchVars

-----------------------------------------------------------------------------
Answered == answer # <<>> /\ answer.status = 200

\* The pages of reranked results are what their totals say: every page up to the last
\* has as many books as it should, later ones none, and no book is on two pages.
PagesPartition ==
    \A a \in pages :
        /\ LET rest == a.total - (a.page - 1) * page_size IN
           Len(a.results) = IF rest <= 0 THEN 0 ELSE IF rest < page_size THEN rest ELSE page_size
        /\ \A b \in pages : a.page # b.page => Range(a.results) \cap Range(b.results) = {}

\* A book that is above another in both rankings is above it in the fusion.
BothLegsAgree ==
    \A a \in pages : \A i, j \in DOMAIN a.results :
        LET x == a.results[i]
            y == a.results[j]
            t == Reranked(First(byWords, CandidateLimit))
        IN  /\ {x, y} \subseteq Range(t)
            /\ Rank(byWords, x) < Rank(byWords, y) /\ Rank(t, x) < Rank(t, y)
            => i < j

\* In a ranking s of chunks, book b comes before book c.
Nearer(s, b, c) == \E i \in DOMAIN s : s[i][1] = b /\ \A j \in 1..i : s[j][1] # c

\* Similar books are the books of the nearest chunks, nearest first and no more than
\* asked for, and never the book itself, whatever id it was asked by: those that are
\* left out are farther than all that are not.
SimilarAreNearest ==
    Answered /\ answer.mode = "similar" =>
        LET r == answer.results
            b == answer.of[1]
        IN  /\ b \notin Range(r) /\ Len(r) <= answer.limit
            /\ \A i, j \in DOMAIN r : i < j => Nearer(bySimilarity, r[i], r[j])
            /\ \A x \in Range(r) : \A c \in Books \ (Range(r) \cup {b}) :
                   Nearer(bySimilarity, x, c)

\* "Chunk de-duplication is handled by reciprocal_rank_fusion at the book level": a
\* hybrid answer has one result per book.
OneResultPerBook ==
    Answered /\ answer.mode = "hybrid" =>
        \A i, j \in DOMAIN answer.results : answer.results[i][1] = answer.results[j][1] => i = j
=============================================================================
