---------------------------- MODULE MetadataEdits ----------------------------
(***************************************************************************)
(* Manual metadata edits: solr-search updates the Solr document, then      *)
(* writes the override to Redis that the indexer lays over the metadata it *)
(* extracts.  Requests (single, batch, by query), one indexer and a wipe   *)
(* of Solr interleave; nothing locks, and every call can fail.             *)
(* A value is the name of the request that wrote it, so edits can be told  *)
(* apart; a request runs once.                                             *)
(***************************************************************************)
EXTENDS Naturals, Sequences, FiniteSets, SequencesExt

CONSTANTS
    Docs,          \* the documents
    Indexed,       \* those that Solr holds at first
    Fields,        \* fields of a Solr document
    EditFields,    \* per field of a request, the Solr fields it stands for
    PostedFields,  \* fields the indexer sends when it posts a document
    Requests,
    PageSize,      \* _BATCH_PAGE_SIZE
    MaxIds,        \* _BATCH_MAX_DOCUMENT_IDS, _BATCH_MAX_QUERY_RESULTS
    Automatic, Absent,  \* extracted by the indexer; no such field
    Budget         \* "mishap": failures, restarts, evictions and wipes; "index": indexings

ASSUME EditsOK == /\ Indexed \subseteq Docs /\ IsFiniteSet(Docs)
                  /\ UNION EditFields \subseteq Fields /\ PostedFields \subseteq Fields
                  /\ PageSize \in Nat \ {0} /\ MaxIds \in Nat
                  /\ {Automatic, Absent} \cap Requests = {} /\ Automatic # Absent

Values == Requests \cup {Automatic, Absent}
NotInSolr == [f \in {} |-> Automatic]

VARIABLES
    solr,      \* the fields of each document, NotInSolr for one that is missing
    override,  \* aithena:metadata-override:<doc>, a function on the edited fields
    pc, edit, todo, start, query, good, bad,  \* the requests
    ipc, idoc, imeta,                         \* the indexer
    left,      \* what remains of Budget
    settled,   \* ghost: the last to write the document had it to itself and succeeded
    alone, ialone, \* ghosts: nobody else wrote the document meanwhile
    asked,         \* ghost: what a request was given, or matched when it arrived
    astray         \* ghost: a document left the result between its pages, or is on two

reqs    == <<pc, edit, todo, start, query, good, bad>>
indexer == <<ipc, idoc, imeta>>
ghosts  == <<settled, alone, ialone, asked, astray>>
vars    == <<solr, override, reqs, indexer, left, ghosts>>

InSolr(d)  == DOMAIN solr[d] # {}
Overlay(base, top) == [f \in Fields |-> IF f \in DOMAIN top THEN top[f] ELSE base[f]]
Extracted == [f \in Fields |-> IF f \in PostedFields THEN Automatic ELSE Absent]
NoEdit    == [f \in {} |-> Automatic]

Init ==
    /\ solr = [d \in Docs |-> IF d \in Indexed THEN Extracted ELSE NotInSolr]
    /\ override = [d \in Docs |-> NoEdit]
    /\ pc = [r \in Requests |-> "new"] /\ edit = [r \in Requests |-> NoEdit]
    /\ todo = [r \in Requests |-> <<>>] /\ start = [r \in Requests |-> 0]
    /\ query = [r \in Requests |-> <<>>]
    /\ good = [r \in Requests |-> {}] /\ bad = [r \in Requests |-> {}]
    /\ ipc = "idle" /\ idoc = 0 /\ imeta = Extracted
    /\ left = Budget
    /\ settled = [d \in Docs |-> TRUE]
    /\ alone = [r \in Requests |-> TRUE] /\ ialone = TRUE
    /\ asked = [r \in Requests |-> {}] /\ astray = [r \in Requests |-> FALSE]

Spend(e) == left[e] > 0 /\ left' = [left EXCEPT ![e] = @ - 1]

-----------------------------------------------------------------------------
(* Windows: a request between its two writes, the indexer between the read
   of the override and the end of its post. *)
Editing(r, d) == pc[r] = "store" /\ Head(todo[r]) = d
Windows(d)    == {r \in Requests : Editing(r, d)}
Indexing(d)   == ipc = "post" /\ idoc = d
Quiet(d)      == Windows(d) = {} /\ ~Indexing(d)

\* A write of d disturbs the windows that are open there.
Disturb(d) ==
    /\ alone' = [r \in Requests |-> alone[r] /\ ~Editing(r, d)]
    /\ ialone' = (ialone /\ ~Indexing(d))

Matches(d, q) == InSolr(d) /\ solr[d][q[1]] = q[2]
MatchesNext(d, q) == DOMAIN solr'[d] # {} /\ solr'[d][q[1]] = q[2]

\* What a change of Solr means for the requests that page through it.
SeenByPages ==
    /\ astray' = [r \in Requests |->
                  astray[r] \/ (pc[r] = "list" /\ \E d \in Docs : Matches(d, query[r]) /\ ~MatchesNext(d, query[r]))]
    /\ UNCHANGED asked

-----------------------------------------------------------------------------
\* validate_non_empty: at least one field.
Edits(r) == {[f \in UNION S |-> r] : S \in (SUBSET EditFields) \ {{}}}

\* admin_edit_document_metadata and admin_batch_edit_metadata; duplicates are
\* accepted, an empty list and one that is too long are refused.
BeginEdit(r) ==
    /\ pc[r] = "new"
    /\ \E e \in Edits(r), ids \in SeqOf(Docs, MaxIds) \ {<<>>} :
          /\ edit' = [edit EXCEPT ![r] = e] /\ todo' = [todo EXCEPT ![r] = ids]
          /\ asked' = [asked EXCEPT ![r] = ToSet(ids)]
    /\ pc' = [pc EXCEPT ![r] = "check"]
    /\ UNCHANGED <<solr, override, start, query, good, bad, indexer, left,
                   settled, alone, ialone, astray>>

\* admin_batch_edit_metadata_by_query
BeginQuery(r) ==
    /\ pc[r] = "new"
    /\ \E e \in Edits(r), f \in PostedFields, v \in Values \ {Absent, r} :
          /\ edit' = [edit EXCEPT ![r] = e]
          /\ query' = [query EXCEPT ![r] = <<f, v>>]
          /\ asked' = [asked EXCEPT ![r] = {d \in Docs : Matches(d, <<f, v>>)}]
    /\ pc' = [pc EXCEPT ![r] = "list"]
    /\ UNCHANGED <<solr, override, todo, start, good, bad, indexer, left,
                   settled, alone, ialone, astray>>

\* Solr's answer to the query.  The code sends no sort: every page comes in an order
\* of its own (score, then the place in the segments of the replica that answers).
Found(r) == {d \in Docs : Matches(d, query[r])}
Pages(r) == LET rest == Cardinality(Found(r)) - start[r]
            IN  {p \in [1..(IF rest < PageSize THEN rest ELSE PageSize) -> Found(r)] : IsInjective(p)}

\* Mutant: num_found is taken for the number of the last document from 0.
MoreButLast(r) == start[r] + PageSize < Cardinality(Found(r)) - 1

\* start >= num_found ends the loop.
More(r) == start[r] + PageSize < Cardinality(Found(r))

\* _solr_query_document_ids, one page; after the last one the request is
\* answered (nothing matched, too much matched) or goes through the documents.
ListPage(r) ==
    /\ pc[r] = "list"
    /\ \E page \in Pages(r) :
          LET ids == todo[r] \o page
          IN  /\ todo' = [todo EXCEPT ![r] = ids]
              /\ astray' = [astray EXCEPT ![r] = @ \/ ~IsInjective(ids)]
              /\ pc' = [pc EXCEPT ![r] = CASE More(r) -> "list"
                                           [] ~More(r) /\ ids = <<>> -> "done"
                                           [] ~More(r) /\ Len(ids) > MaxIds -> "refused"
                                           [] OTHER -> "check"]
    /\ start' = [start EXCEPT ![r] = IF More(r) THEN @ + PageSize ELSE 0]
    /\ query' = [query EXCEPT ![r] = IF More(r) THEN @ ELSE <<>>]
    /\ UNCHANGED <<solr, override, edit, good, bad, indexer, left, settled, alone, ialone, asked>>

\* Mutant: the last document of a batch is followed by another.
AdvancePastEnd(r) ==
    /\ todo' = [todo EXCEPT ![r] = Tail(@)]
    /\ pc' = [pc EXCEPT ![r] = IF todo[r] = <<>> THEN "done" ELSE "check"]
    /\ UNCHANGED <<edit, start, query>>

\* The request is through with the document at the head.
Advance(r) ==
    /\ todo' = [todo EXCEPT ![r] = Tail(@)]
    /\ pc' = [pc EXCEPT ![r] = IF Len(todo[r]) = 1 THEN "done" ELSE "check"]
    /\ UNCHANGED <<edit, start, query>>

Refuse(r) ==
    /\ bad' = [bad EXCEPT ![r] = @ \cup {Head(todo[r])}]
    /\ Advance(r) /\ UNCHANGED good

\* _solr_document_exists: 404, or an entry in errors.
Check(r) ==
    /\ pc[r] = "check"
    /\ \/ /\ InSolr(Head(todo[r]))
          /\ pc' = [pc EXCEPT ![r] = "update"] /\ UNCHANGED <<edit, todo, start, query, good, bad>>
       \/ ~InSolr(Head(todo[r])) /\ Refuse(r)
    /\ UNCHANGED <<solr, override, indexer, left, ghosts>>

\* _solr_atomic_update: an atomic update creates a document that is missing.
Write(r, d) ==
    solr' = [solr EXCEPT ![d] = Overlay(IF InSolr(d) THEN @ ELSE [f \in Fields |-> Absent], edit[r])]

Update(r) ==
    LET d == Head(todo[r]) IN
    /\ pc[r] = "update"
    /\ Write(r, d)
    /\ pc' = [pc EXCEPT ![r] = "store"]
    /\ alone' = [q \in Requests |-> IF q = r THEN Quiet(d) ELSE alone[q] /\ ~Editing(q, d)]
    /\ ialone' = (ialone /\ ~Indexing(d))
    /\ SeenByPages
    /\ UNCHANGED <<override, edit, todo, start, query, good, bad, indexer, left, settled>>

\* A failure before Solr took the update, or after it (an answer that is
\* lost): 502, 503, 504, or an entry in errors.
UpdateFails(r) ==
    LET d == Head(todo[r]) IN
    /\ pc[r] \in {"check", "update"} /\ Spend("mishap")
    /\ \/ /\ UNCHANGED <<solr, settled, alone, ialone>>
       \/ /\ pc[r] = "update" /\ Write(r, d)
          /\ settled' = [settled EXCEPT ![d] = FALSE] /\ Disturb(d)
    /\ SeenByPages
    /\ Refuse(r)
    /\ UNCHANGED <<override, indexer>>

\* Mutant: an override that is there is kept.
StoreOnlyFirst(r) ==
    LET d == Head(todo[r]) IN
    /\ pc[r] = "store"
    /\ override' = [override EXCEPT ![d] = IF DOMAIN @ = {} THEN edit[r] ELSE @]
    /\ settled' = [settled EXCEPT ![d] = alone[r]]
    /\ good' = [good EXCEPT ![r] = @ \cup {d}] /\ Advance(r)
    /\ UNCHANGED <<solr, bad, indexer, left, alone, ialone, asked, astray>>

\* _store_metadata_override: replaces the override of the document.
Store(r) ==
    LET d == Head(todo[r]) IN
    /\ pc[r] = "store"
    /\ override' = [override EXCEPT ![d] = edit[r]]
    /\ settled' = [settled EXCEPT ![d] = alone[r]]
    /\ good' = [good EXCEPT ![r] = @ \cup {d}] /\ Advance(r)
    /\ UNCHANGED <<solr, bad, indexer, left, alone, ialone, asked, astray>>

\* Redis fails, with or without having done the work: 503 after Solr changed.
StoreFails(r) ==
    LET d == Head(todo[r]) IN
    /\ pc[r] = "store" /\ Spend("mishap")
    /\ override' \in {override, [override EXCEPT ![d] = edit[r]]}
    /\ settled' = [settled EXCEPT ![d] = FALSE]
    /\ Refuse(r)
    /\ UNCHANGED <<solr, indexer, alone, ialone, asked, astray>>

\* The API restarts: the request is gone, between any two of its steps.
Crash(r) ==
    /\ pc[r] \notin {"new", "done", "refused", "lost"} /\ Spend("mishap")
    /\ pc' = [pc EXCEPT ![r] = "lost"]
    /\ settled' = [d \in Docs |-> settled[d] /\ ~Editing(r, d)]
    /\ UNCHANGED <<solr, override, edit, todo, start, query, good, bad, indexer,
                   alone, ialone, asked, astray>>

-----------------------------------------------------------------------------
\* index_document: load_metadata_override and apply_metadata_override; a failing
\* Redis is taken for no override.
BeginIndex(d) ==
    /\ ipc = "idle" /\ Spend("index")
    /\ ipc' = "post" /\ idoc' = d
    /\ \/ imeta' = Overlay(Extracted, override[d]) /\ ialone' = (Windows(d) = {})
       \/ left["mishap"] > 0 /\ imeta' = Extracted /\ ialone' = FALSE
    /\ alone' = [r \in Requests |-> alone[r] /\ ~Editing(r, d)]
    /\ UNCHANGED <<solr, override, reqs, settled, asked, astray>>

IndexerIdle == ipc' = "idle" /\ idoc' = 0 /\ imeta' = Extracted /\ ialone' = TRUE

\* build_literal_params and the post, which replaces the whole document.
Post ==
    /\ ipc = "post"
    /\ solr' = [solr EXCEPT ![idoc] = [f \in Fields |-> IF f \in PostedFields THEN imeta[f] ELSE Absent]]
    /\ settled' = [settled EXCEPT ![idoc] = ialone]
    /\ IndexerIdle /\ SeenByPages
    /\ UNCHANGED <<override, reqs, left, alone>>

\* The post fails before Solr took it, or the indexer dies.
PostFails ==
    /\ ipc = "post"
    /\ IndexerIdle
    /\ UNCHANGED <<solr, override, reqs, left, settled, alone, asked, astray>>

\* admin_reindex deletes every document; the overrides stay.
Wipe ==
    /\ Spend("mishap")
    /\ solr' = [d \in Docs |-> NotInSolr]
    /\ SeenByPages
    /\ UNCHANGED <<override, reqs, indexer, settled, alone, ialone>>

\* maxmemory-policy allkeys-lru
Evict(d) ==
    /\ Spend("mishap") /\ DOMAIN override[d] # {}
    /\ override' = [override EXCEPT ![d] = NoEdit]
    /\ UNCHANGED <<solr, reqs, indexer, ghosts>>

-----------------------------------------------------------------------------
Next ==
    \/ \E r \in Requests :
          \/ BeginEdit(r) \/ BeginQuery(r) \/ ListPage(r) \/ Check(r)
          \/ Update(r) \/ UpdateFails(r) \/ Store(r) \/ StoreFails(r) \/ Crash(r)
    \/ \E d \in Docs : BeginIndex(d) \/ Evict(d)
    \/ Post \/ PostFails \/ Wipe

Spec == Init /\ [][Next]_vars

-----------------------------------------------------------------------------
\* Types, of the stores and of what the requests and the indexer hold.
EditsTypeOK ==
    /\ solr \in [Docs -> [Fields -> Values] \cup {NotInSolr}]
    /\ \A d \in Docs : DOMAIN override[d] \subseteq Fields /\ settled[d] \in BOOLEAN
    /\ pc \in [Requests -> {"new", "list", "check", "update", "store", "done", "refused", "lost"}]
    /\ \A r \in Requests :
          /\ DOMAIN edit[r] \subseteq Fields
          /\ pc[r] \in {"check", "update", "store"} => todo[r] \in Seq(Docs) \ {<<>>}
          /\ good[r] \subseteq Docs /\ bad[r] \subseteq Docs
    /\ ipc = "post" => idoc \in Docs /\ imeta \in [Fields -> Values]

\* Solr and the override store agree: whenever nobody is at work on a document
\* and the last to write it had it to itself and met no failure, every field of
\* its override that the indexer can post is what Solr shows, whatever edits,
\* failures, evictions, wipes and indexings came before.  It rests on the order
\* of the two writes, on the override being laid over the extracted metadata,
\* and on the post replacing the document.
AgreeAtRest ==
    \A d \in Docs :
        settled[d] /\ Quiet(d) /\ InSolr(d) =>
            \A f \in DOMAIN override[d] \cap PostedFields : solr[d][f] = override[d][f]

\* A batch edit treats every document it was given, or reports it as failed; one by
\* query every document that matched when it arrived, although Solr orders each page
\* anew: while none leaves the result, a listing that skips a document between two
\* pages has another on both.
PagesMissNothing ==
    \A r \in Requests :
        pc[r] = "done" /\ ~astray[r] => asked[r] \subseteq good[r] \cup bad[r]

\* docs/admin-manual.md: "This ensures manual edits survive document
\* reprocessing", "Manual series edits persist via Redis overrides".  A field
\* that an answered request wrote last is still there when nobody is at work and
\* nobody wrote at the same time.
ManualEditsSurvive ==
    \A r \in Requests, d \in Docs, f \in Fields :
        /\ pc[r] = "done" /\ d \in good[r] /\ f \in DOMAIN edit[r]
        /\ settled[d] /\ Quiet(d) /\ InSolr(d)
        /\ \A q \in Requests \ {r} : pc[q] = "new" \/ f \notin DOMAIN edit[q]
        => solr[d][f] = edit[r][f]
=============================================================================
