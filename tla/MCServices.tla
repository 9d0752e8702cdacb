------------------------------ MODULE MCServices ------------------------------
(***************************************************************************)
(* Values for TLC, and the parts of solr-search that share no state (and   *)
(* the chunker) side by side: a behaviour is one of one of the Parts, with *)
(* the variables of the others at rest.                                    *)
(***************************************************************************)
EXTENDS Collections, RateLimiter, RedisRateLimiter, Uploads, Backups, Search, Chunker, TLC

CONSTANTS Parts, t1, t2

VARIABLE part

\* Four scopes: passwords; roles; collections whose owners come and go; the items of
\* one collection.
Scope(passwords, roles, releases, people, cols, its) ==
    [passwords |-> passwords, roles |-> roles, releases |-> releases,
     born |-> people, collections |-> cols, items |-> its]

MCScopes == {Scope({"p", "q"}, {"admin"}, BOOLEAN, 2, 0, 0),
             Scope({"p"}, {"admin", "viewer"}, {FALSE}, 2, 0, 0),
             Scope({"p"}, {"admin"}, {FALSE}, 3, 1, 0),
             Scope({"p"}, {"admin"}, {FALSE}, 1, 1, 3)}

ThreadSymmetry == Permutations(Threads)

\* A name that is taken, one that cannot be stamped, and one that looks like the
\* first one's stamp.
MCFileNames == {<<10>>, <<20>>, <<10, 1>>}
MCLongNames == {<<20>>}
MCBasePath  == <<"data", "documents">>
MCUploadDir == <<"data", "documents", "uploads">>

\* A book with two chunks and two with one, of which one may have no embedding; more
\* found than reranked, and more reranked than fit a page.
MCBooks      == 1..3
MCChunksOf   == <<2, 1, 1>>
MCBare       == {<<3, 1>>}
MCCandidates == [least |-> 2, most |-> 4, factor |-> 2]

-----------------------------------------------------------------------------
SearchAtRest ==
    /\ architecture = "hnsw" /\ page_size = 1 /\ byWords = <<>> /\ bySimilarity = <<>>
    /\ answer = <<>> /\ pages = {}

ChunkerAtRest ==
    /\ length = 1 /\ stops = {} /\ chunk_size = 1 /\ overlap = 0 /\ start = 0 /\ ranges = <<>>

ServicesInit ==
    /\ part \in Parts
    /\ scope \in IF part = "accounts" THEN Scopes ELSE {CHOOSE s \in Scopes : TRUE}
    /\ Init
    /\ LimiterInit /\ RedisInit /\ UploadsInit /\ BackupsInit
    /\ IF part = "search"  THEN SearchInit  ELSE SearchAtRest
    /\ IF part = "chunker" THEN ChunkerInit ELSE ChunkerAtRest

\* The parts that rest come first, so that TLC sees to them once per state.
Rests(p, v) == IF part = p THEN TRUE ELSE UNCHANGED v

ServicesNext ==
    /\ UNCHANGED part
    /\ Rests("accounts", vars) /\ Rests("limiter", limiterVars) /\ Rests("redis", redisVars)
    /\ Rests("uploads", uploadsVars) /\ Rests("backups", backupsVars)
    /\ Rests("search", searchVars) /\ Rests("chunker", chunkerVars)
    /\ CASE part = "accounts" -> Next
         [] part = "limiter"  -> LimiterNext
         [] part = "redis"    -> RedisNext
         [] part = "uploads"  -> UploadsNext
         [] part = "backups"  -> BackupsNext
         [] part = "search"   -> SearchNext
         [] part = "chunker"  -> ChunkerNext

ServicesSpec == ServicesInit /\ [][ServicesNext]_<<part, vars, limiterVars, redisVars, uploadsVars,
                                                   backupsVars, searchVars, chunkerVars>>
=============================================================================
