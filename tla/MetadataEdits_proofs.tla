-------------------------- MODULE MetadataEdits_proofs --------------------------
(***************************************************************************)
(* Metadata edits, for every set of documents, fields and requests, every  *)
(* page size and every budget of failures: Solr and the override store     *)
(* agree wherever the last writer was alone, and a listing that repeats no *)
(* document misses none while nothing leaves the result, in whatever order *)
(* Solr answers each page.                                                 *)
(***************************************************************************)
EXTENDS MetadataEdits, FiniteSetTheorems, SequenceTheorems, TLAPS

\* A request goes through its documents.
AtWork(r) == pc[r] \in {"check", "update", "store"}

-----------------------------------------------------------------------------
(* The inductive invariant.                                                *)

\* What the stores, the requests and the indexer hold.
Typed ==
    /\ solr \in [Docs -> [Fields -> Values] \cup {NotInSolr}]
    /\ DOMAIN override = Docs /\ DOMAIN edit = Requests /\ DOMAIN query = Requests
    /\ \A d \in Docs : /\ DOMAIN override[d] \subseteq Fields
                       /\ \A f \in DOMAIN override[d] : override[d][f] \in Requests
    /\ \A r \in Requests : /\ DOMAIN edit[r] \subseteq Fields
                           /\ \A f \in DOMAIN edit[r] : edit[r][f] \in Requests
    /\ pc \in [Requests -> {"new", "list", "check", "update", "store", "done", "refused", "lost"}]
    /\ todo \in [Requests -> Seq(Docs)] /\ start \in [Requests -> Nat]
    /\ good \in [Requests -> SUBSET Docs] /\ bad \in [Requests -> SUBSET Docs]
    /\ \A r \in Requests : AtWork(r) => todo[r] # <<>>
    /\ ipc = "post" => idoc \in Docs /\ imeta \in [Fields -> Values]
    /\ settled \in [Docs -> BOOLEAN] /\ alone \in [Requests -> BOOLEAN] /\ ialone \in BOOLEAN
    /\ asked \in [Requests -> SUBSET Docs] /\ astray \in [Requests -> BOOLEAN]

\* A settled document agrees as soon as no request is between its two writes, even
\* while it is being indexed.
SettledAgree ==
    \A d \in Docs :
        settled[d] /\ Windows(d) = {} /\ InSolr(d) =>
            \A f \in DOMAIN override[d] \cap PostedFields : solr[d][f] = override[d][f]

\* What a request that had the document to itself wrote is still there, and nobody
\* is indexing it.
AloneStands ==
    \A r \in Requests : \A d \in Docs :
        alone[r] /\ Editing(r, d) =>
            /\ ~Indexing(d)
            /\ InSolr(d) => \A f \in DOMAIN edit[r] : solr[d][f] = edit[r][f]

\* The override that an undisturbed indexing read is still the override.
ReadIsCurrent ==
    \A d \in Docs :
        ialone /\ Indexing(d) =>
            /\ Windows(d) = {}
            /\ \A f \in DOMAIN override[d] : imeta[f] = override[d][f]

\* Paging: so many documents are listed as the next page starts at, each once and of
\* those that match, while the pages have not gone astray; what was asked for still
\* matches, and after the last page it has been treated or is still to be.
PagesOf(r) ==
    /\ pc[r] = "new" => todo[r] = <<>> /\ start[r] = 0
    /\ pc[r] = "list" => Len(todo[r]) = start[r]
    /\ pc[r] = "list" /\ ~astray[r] =>
          IsInjective(todo[r]) /\ ToSet(todo[r]) \subseteq Found(r) /\ asked[r] \subseteq Found(r)
    /\ AtWork(r) /\ ~astray[r] => asked[r] \subseteq good[r] \cup bad[r] \cup ToSet(todo[r])
    /\ pc[r] = "done" /\ ~astray[r] => asked[r] \subseteq good[r] \cup bad[r]

PagesListed == \A r \in Requests : PagesOf(r)

Inv == Typed /\ SettledAgree /\ AloneStands /\ ReadIsCurrent /\ PagesListed

-----------------------------------------------------------------------------
(* Operators of the model.                                                 *)

\* As many different members as the set has are all of them.
LEMMA AllListed ==
    ASSUME NEW F \in SUBSET Docs, NEW s \in Seq(Docs), IsInjective(s), ToSet(s) \subseteq F,
           Len(s) >= Cardinality(F)
    PROVE  F \subseteq ToSet(s)
<1>1. IsFiniteSet(F) /\ Cardinality(F) \in Nat
  BY EditsOK, FS_Subset, FS_CardinalityType
<1>2. Len(s) \in Nat /\ DOMAIN s = 1..Len(s) /\ s = [i \in 1..Len(s) |-> s[i]]
  OBVIOUS
<1>3. IsFiniteSet(1..Len(s)) /\ Cardinality(1..Len(s)) = Len(s)
  <2>1. 1 \in Int /\ Len(s) \in Int
    BY <1>2
  <2>2. /\ IsFiniteSet(1..Len(s))
        /\ Cardinality(1..Len(s)) = IF 1 > Len(s) THEN 0 ELSE Len(s) - 1 + 1
    BY <2>1, FS_Interval
  <2>3. QED
    BY <1>2, <2>2
<1>4. s \in Injection(1..Len(s), F)
  <2>1. \A i \in 1..Len(s) : s[i] \in F
    BY <1>2 DEF ToSet
  <2>2. s \in [1..Len(s) -> F]
    BY <1>2, <2>1
  <2>3. \A i, j \in 1..Len(s) : s[i] = s[j] => i = j
    BY <1>2 DEF IsInjective
  <2>4. QED
    BY <2>2, <2>3 DEF Injection, IsInjective
<1>5. s \in Surjection(1..Len(s), F)
  <2>1. Cardinality(1..Len(s)) <= Cardinality(F)
    BY <1>1, <1>4, FS_Injection
  <2>2. Cardinality(1..Len(s)) = Cardinality(F)
    BY <1>1, <1>2, <1>3, <2>1
  <2>3. QED
    BY <1>1, <1>3, <1>4, <2>2, FS_Injection
<1>6. QED
  BY <1>2, <1>5 DEF Surjection, ToSet

\* A page is a sequence of documents that match, full unless it is the last.
LEMMA PageListed ==
    ASSUME NEW r \in Requests, start[r] \in Nat, NEW page \in Pages(r)
    PROVE  /\ page \in Seq(Docs) /\ ToSet(page) \subseteq Found(r)
           /\ More(r) => Len(page) = PageSize
           /\ ~More(r) => start[r] + Len(page) >= Cardinality(Found(r))
<1> DEFINE F == Found(r)
           rest == Cardinality(F) - start[r]
           len == IF rest < PageSize THEN rest ELSE PageSize
<1>1. F \in SUBSET Docs
  BY DEF Found
<1>2. Cardinality(F) \in Nat /\ PageSize \in Nat \ {0}
  BY <1>1, EditsOK, FS_Subset, FS_CardinalityType
<1>3. page \in [1..len -> F]
  BY DEF Pages
<1>4. More(r) <=> start[r] + PageSize < Cardinality(F)
  BY DEF More
<1> HIDE DEF F
<1>5. len \in Int
  BY <1>2
<1>6. CASE len \in Nat
  <2>1. page \in Seq(F) /\ Len(page) = len /\ DOMAIN page = 1..len
    BY <1>3, <1>6
  <2>2. page \in Seq(Docs) /\ ToSet(page) \subseteq F
    <3>1. \A i \in 1..len : page[i] \in F /\ page[i] \in Docs
      BY <1>1, <1>3
    <3>2. page \in [1..len -> Docs]
      BY <1>3, <3>1
    <3>3. QED
      BY <1>6, <2>1, <3>1, <3>2 DEF ToSet
  <2>3. /\ More(r) => Len(page) = PageSize
        /\ ~More(r) => start[r] + Len(page) >= Cardinality(F)
    BY <1>2, <1>4, <2>1
  <2>4. QED
    BY <2>2, <2>3 DEF F
<1>7. CASE len \notin Nat
  <2>1. len < 0 /\ 1..len = {}
    BY <1>5, <1>7
  <2>2. rest < 0
    BY <1>2, <2>1
  <2> HIDE DEF len
  <2>3. page \in [{} -> F]
    BY <1>3, <2>1
  <2>4. DOMAIN page = {}
    BY <2>3
  <2>5. page = <<>> /\ ToSet(page) = {}
    <3>1. page = <<>>
      BY <2>3
    <3>2. QED
      BY <2>4, <3>1 DEF ToSet
  <2>6. QED
    BY <1>2, <1>4, <2>2, <2>5 DEF F
<1>8. QED
  BY <1>6, <1>7

\* What a sequence holds, put together and taken from the front.
LEMMA ToSetParts ==
    ASSUME NEW s \in Seq(Docs)
    PROVE  /\ \A t \in Seq(Docs) : s \o t \in Seq(Docs) /\ ToSet(s \o t) = ToSet(s) \cup ToSet(t)
           /\ s # <<>> => /\ Head(s) \in Docs /\ Tail(s) \in Seq(Docs)
                          /\ ToSet(s) = {Head(s)} \cup ToSet(Tail(s))
                          /\ Len(s) = 1 => Tail(s) = <<>>
                          /\ Len(s) # 1 => Tail(s) # <<>>
           /\ ToSet(<<>>) = {}
<1>1. ASSUME NEW t \in Seq(Docs)
      PROVE  s \o t \in Seq(Docs) /\ ToSet(s \o t) = ToSet(s) \cup ToSet(t)
  <2>1. s \o t \in Seq(Docs)
    OBVIOUS
  <2>2. /\ Len(s \o t) = Len(s) + Len(t) /\ Len(s) \in Nat /\ Len(t) \in Nat
        /\ DOMAIN (s \o t) = 1..(Len(s) + Len(t)) /\ DOMAIN s = 1..Len(s) /\ DOMAIN t = 1..Len(t)
        /\ \A i \in 1..(Len(s) + Len(t)) :
              (s \o t)[i] = IF i <= Len(s) THEN s[i] ELSE t[i - Len(s)]
    OBVIOUS
  <2>3. ToSet(s \o t) \subseteq ToSet(s) \cup ToSet(t)
    BY <2>2 DEF ToSet
  <2>4. ToSet(s) \subseteq ToSet(s \o t)
    <3>1. \A i \in 1..Len(s) : i \in 1..(Len(s) + Len(t)) /\ (s \o t)[i] = s[i]
      BY <2>2
    <3>2. QED
      BY <2>2, <3>1 DEF ToSet
  <2>5. ToSet(t) \subseteq ToSet(s \o t)
    <3>1. SUFFICES ASSUME NEW i \in 1..Len(t) PROVE t[i] \in ToSet(s \o t)
      BY <2>2 DEF ToSet
    <3>2. Len(s) + i \in 1..(Len(s) + Len(t)) /\ (s \o t)[Len(s) + i] = t[i]
      BY <2>2
    <3>3. QED
      BY <2>2, <3>2 DEF ToSet
  <2>6. QED
    BY <2>1, <2>3, <2>4, <2>5
<1>2. ASSUME s # <<>>
      PROVE  /\ Head(s) \in Docs /\ Tail(s) \in Seq(Docs)
             /\ ToSet(s) = {Head(s)} \cup ToSet(Tail(s))
             /\ Len(s) = 1 => Tail(s) = <<>>
             /\ Len(s) # 1 => Tail(s) # <<>>
  <2>1. /\ Head(s) \in Docs /\ Tail(s) \in Seq(Docs) /\ Head(s) = s[1]
        /\ Len(s) \in Nat /\ Len(s) >= 1 /\ Len(Tail(s)) = Len(s) - 1
        /\ \A i \in 1..(Len(s) - 1) : Tail(s)[i] = s[i + 1]
        /\ DOMAIN s = 1..Len(s) /\ DOMAIN Tail(s) = 1..(Len(s) - 1)
    BY <1>2
  <2>2. ToSet(s) \subseteq {Head(s)} \cup ToSet(Tail(s))
    <3>1. SUFFICES ASSUME NEW i \in 1..Len(s), i # 1 PROVE s[i] \in ToSet(Tail(s))
      BY <2>1 DEF ToSet
    <3>2. i - 1 \in 1..(Len(s) - 1) /\ s[i] = Tail(s)[i - 1]
      BY <2>1, <3>1
    <3>3. QED
      BY <2>1, <3>2 DEF ToSet
  <2>3. ToSet(Tail(s)) \subseteq ToSet(s)
    <3>1. SUFFICES ASSUME NEW i \in 1..(Len(s) - 1) PROVE Tail(s)[i] \in ToSet(s)
      BY <2>1 DEF ToSet
    <3>2. i + 1 \in 1..Len(s) /\ Tail(s)[i] = s[i + 1]
      BY <2>1
    <3>3. \A k \in 1..Len(s) : s[k] \in ToSet(s)
      BY <2>1 DEF ToSet
    <3>4. QED
      BY <3>2, <3>3
  <2>4. Head(s) \in ToSet(s)
    BY <2>1 DEF ToSet
  <2>5. Len(s) = 1 => Tail(s) = <<>>
    BY <2>1
  <2>6. Len(s) # 1 => Tail(s) # <<>>
    <3>1. Len(s) # 1 => Len(Tail(s)) # 0
      BY <2>1
    <3>2. QED
      BY <3>1
  <2>7. QED
    BY <2>1, <2>2, <2>3, <2>4, <2>5, <2>6
<1>3. ToSet(<<>>) = {}
  BY DEF ToSet
<1>4. QED
  BY <1>1, <1>2, <1>3

-----------------------------------------------------------------------------
(* Parts of steps that several handlers share.                             *)

\* A request edits fields of Solr documents.
LEMMA EditTyped ==
    ASSUME NEW r \in Requests, NEW e \in Edits(r)
    PROVE  DOMAIN e \subseteq Fields /\ \A f \in DOMAIN e : e[f] = r
<1>1. PICK S \in (SUBSET EditFields) \ {{}} : e = [f \in UNION S |-> r]
  BY DEF Edits
<1>2. UNION S \subseteq UNION EditFields
  BY <1>1
<1>3. QED
  BY <1>1, <1>2, EditsOK

\* _solr_atomic_update: the document has the fields of the edit, the others stay.
LEMMA WriteStep ==
    ASSUME Typed, NEW r \in Requests, NEW d \in Docs, Write(r, d)
    PROVE  /\ solr' \in [Docs -> [Fields -> Values] \cup {NotInSolr}]
           /\ \A f \in DOMAIN edit[r] : solr'[d][f] = edit[r][f]
           /\ \A e \in Docs : e # d => solr'[e] = solr[e]
<1> DEFINE base == IF InSolr(d) THEN solr[d] ELSE [f \in Fields |-> Absent]
           new == Overlay(base, edit[r])
<1>1. solr' = [solr EXCEPT ![d] = new]
  BY DEF Write
<1>2. base \in [Fields -> Values]
  BY DEF Typed, InSolr, NotInSolr, Values
<1>3. /\ DOMAIN edit[r] \subseteq Fields /\ \A f \in DOMAIN edit[r] : edit[r][f] \in Values
  BY DEF Typed, Values
<1> HIDE DEF base
<1>4. new \in [Fields -> Values] /\ \A f \in DOMAIN edit[r] : new[f] = edit[r][f]
  BY <1>2, <1>3 DEF Overlay
<1> HIDE DEF new
<1>5. QED
  BY <1>1, <1>4 DEF Typed

\* The request leaves its document: the rest is still to be treated, and it has no
\* window open any more.
LEMMA AdvanceStep ==
    ASSUME Typed, NEW r \in Requests, AtWork(r), Advance(r)
    PROVE  /\ Head(todo[r]) \in Docs
           /\ todo' \in [Requests -> Seq(Docs)]
           /\ pc' \in [Requests -> {"new", "list", "check", "update", "store", "done", "refused", "lost"}]
           /\ \A q \in Requests : q # r => pc'[q] = pc[q] /\ todo'[q] = todo[q]
           /\ pc'[r] \in {"check", "done"}
           /\ pc'[r] = "check" => todo'[r] # <<>>
           /\ pc'[r] = "done" => todo'[r] = <<>>
           /\ ToSet(todo[r]) = {Head(todo[r])} \cup ToSet(todo'[r])
           /\ edit' = edit /\ start' = start /\ query' = query
           /\ \A q \in Requests : \A d \in Docs : Editing(q, d)' <=> q # r /\ Editing(q, d)
<1>1. todo[r] \in Seq(Docs) /\ todo[r] # <<>> /\ todo \in [Requests -> Seq(Docs)]
  BY DEF Typed
<1>2. /\ Head(todo[r]) \in Docs /\ Tail(todo[r]) \in Seq(Docs)
      /\ ToSet(todo[r]) = {Head(todo[r])} \cup ToSet(Tail(todo[r]))
      /\ Len(todo[r]) = 1 => Tail(todo[r]) = <<>>
      /\ Len(todo[r]) # 1 => Tail(todo[r]) # <<>>
  BY <1>1, ToSetParts
<1>3. /\ todo' = [todo EXCEPT ![r] = Tail(todo[r])]
      /\ pc' = [pc EXCEPT ![r] = IF Len(todo[r]) = 1 THEN "done" ELSE "check"]
      /\ edit' = edit /\ start' = start /\ query' = query
  BY DEF Advance
<1>4. /\ todo'[r] = Tail(todo[r]) /\ \A q \in Requests : q # r => pc'[q] = pc[q] /\ todo'[q] = todo[q]
      /\ pc'[r] = IF Len(todo[r]) = 1 THEN "done" ELSE "check"
  BY <1>1, <1>3 DEF Typed
<1>5. \A q \in Requests : \A d \in Docs : Editing(q, d)' <=> q # r /\ Editing(q, d)
  BY <1>4 DEF Editing
<1>6. todo' \in [Requests -> Seq(Docs)]
  BY <1>1, <1>2, <1>3
<1>7. pc' \in [Requests -> {"new", "list", "check", "update", "store", "done", "refused", "lost"}]
  BY <1>3 DEF Typed
<1>8. QED
  BY <1>2, <1>3, <1>4, <1>5, <1>6, <1>7

\* _batch_apply_updates: the document is listed with the failed ones.
LEMMA RefuseStep ==
    ASSUME Typed, NEW r \in Requests, AtWork(r), Refuse(r)
    PROVE  /\ good' = good /\ bad' \in [Requests -> SUBSET Docs]
           /\ bad'[r] = bad[r] \cup {Head(todo[r])}
           /\ \A q \in Requests : q # r => bad'[q] = bad[q]
<1>1. Head(todo[r]) \in Docs
  BY AdvanceStep DEF Refuse
<1>2. QED
  BY <1>1 DEF Refuse, Typed

\* What a change of Solr does to the ghosts of the requests that page.
LEMMA SeenStep ==
    ASSUME Typed, SeenByPages
    PROVE  /\ asked' = asked /\ astray' \in [Requests -> BOOLEAN]
           /\ \A q \in Requests : pc[q] # "list" => astray'[q] = astray[q]
           /\ \A q \in Requests : pc[q] = "list" /\ query'[q] = query[q] /\ ~astray'[q] =>
                 ~astray[q] /\ Found(q) \subseteq Found(q)'
<1>1. asked' = asked /\ astray' \in [Requests -> BOOLEAN]
  BY DEF Typed, SeenByPages
<1>2. ASSUME NEW q \in Requests, pc[q] # "list"
      PROVE  astray'[q] = astray[q]
  BY <1>2 DEF Typed, SeenByPages
<1>3. ASSUME NEW q \in Requests, pc[q] = "list", query'[q] = query[q], ~astray'[q]
      PROVE  ~astray[q] /\ Found(q) \subseteq Found(q)'
  <2>1. Found(q)' = {d \in Docs : MatchesNext(d, query[q])}
    BY <1>3 DEF Found, Matches, MatchesNext, InSolr
  <2>2. astray'[q] <=> astray[q] \/ \E d \in Docs : Matches(d, query[q]) /\ ~MatchesNext(d, query[q])
    BY <1>3 DEF SeenByPages, Typed
  <2>3. QED
    BY <1>3, <2>1, <2>2 DEF Found
<1>4. QED
  BY <1>1, <1>2, <1>3

\* The paging of a request goes on over a change of Solr by somebody else.
LEMMA PagesGoOn ==
    ASSUME Typed, NEW q \in Requests, PagesOf(q), SeenByPages,
           pc'[q] = pc[q], todo'[q] = todo[q], start'[q] = start[q], query'[q] = query[q],
           good'[q] = good[q], bad'[q] = bad[q]
    PROVE  PagesOf(q)'
<1>1. CASE pc[q] # "list"
  BY <1>1, SeenStep DEF PagesOf, AtWork
<1>2. CASE pc[q] = "list"
  <2>1. asked' = asked /\ (~astray'[q] => ~astray[q] /\ Found(q) \subseteq Found(q)')
    BY <1>2, SeenStep
  <2>2. QED
    BY <1>2, <2>1 DEF PagesOf, AtWork
<1>3. QED
  BY <1>1, <1>2

\* And over a step that does not touch Solr or the request.
LEMMA PagesStay ==
    ASSUME Typed, NEW q \in Requests, PagesOf(q), solr' = solr,
           asked'[q] = asked[q], astray'[q] = astray[q],
           pc'[q] = pc[q], todo'[q] = todo[q], start'[q] = start[q], query'[q] = query[q],
           good'[q] = good[q], bad'[q] = bad[q]
    PROVE  PagesOf(q)'
<1>1. Found(q)' = Found(q)
  BY DEF Found, Matches, InSolr
<1>2. QED
  BY <1>1 DEF PagesOf, AtWork

\* The request that leaves a document has counted it.
LEMMA PagesAdvance ==
    ASSUME Typed, NEW r \in Requests, PagesOf(r), AtWork(r), Advance(r),
           asked'[r] = asked[r], astray'[r] = astray[r],
           good[r] \cup bad[r] \cup {Head(todo[r])} \subseteq good'[r] \cup bad'[r]
    PROVE  PagesOf(r)'
<1>1. /\ pc'[r] \in {"check", "done"}
      /\ pc'[r] = "done" => todo'[r] = <<>>
      /\ ToSet(todo[r]) = {Head(todo[r])} \cup ToSet(todo'[r])
  BY AdvanceStep
<1>2. todo'[r] = <<>> => ToSet(todo'[r]) = {}
  BY DEF ToSet
<1>3. ~astray[r] => asked[r] \subseteq good[r] \cup bad[r] \cup ToSet(todo[r])
  BY DEF PagesOf
<1>4. ~astray'[r] => asked'[r] \subseteq good'[r] \cup bad'[r] \cup ToSet(todo'[r])
  BY <1>1, <1>3
<1>5. ~astray'[r] /\ pc'[r] = "done" => asked'[r] \subseteq good'[r] \cup bad'[r]
  BY <1>1, <1>2, <1>4
<1>6. pc'[r] # "new" /\ pc'[r] # "list"
  BY <1>1
<1>7. QED
  BY <1>4, <1>5, <1>6, Zenon DEF PagesOf

-----------------------------------------------------------------------------
(* One lemma per part of the invariant, one step per action.               *)

\* Types.
LEMMA TypedStep ==
    ASSUME Inv, [Next]_vars
    PROVE  Typed'
<1>0. Typed
  BY DEF Inv
<1>1. ASSUME NEW r \in Requests, BeginEdit(r) PROVE Typed'
  <2>1. PICK e \in Edits(r), ids \in SeqOf(Docs, MaxIds) \ {<<>>} :
           /\ edit' = [edit EXCEPT ![r] = e] /\ todo' = [todo EXCEPT ![r] = ids]
           /\ asked' = [asked EXCEPT ![r] = ToSet(ids)]
    BY <1>1 DEF BeginEdit
  <2>2. DOMAIN e \subseteq Fields /\ \A f \in DOMAIN e : e[f] = r
    BY EditTyped
  <2>3. ids \in Seq(Docs) /\ ids # <<>> /\ ToSet(ids) \in SUBSET Docs
    <3>1. ids \in Seq(Docs) /\ ids # <<>>
      BY <2>1 DEF SeqOf
    <3>2. QED
      BY <3>1 DEF ToSet
  <2>4. asked' \in [Requests -> SUBSET Docs]
    BY <1>0, <2>1, <2>3 DEF Typed
  <2>5. QED
    BY <1>0, <1>1, <2>1, <2>2, <2>3, <2>4 DEF BeginEdit, Typed, AtWork, indexer
<1>2. ASSUME NEW r \in Requests, BeginQuery(r) PROVE Typed'
  <2>1. PICK e \in Edits(r), f \in PostedFields, v \in Values \ {Absent, r} :
          /\ edit' = [edit EXCEPT ![r] = e]
          /\ query' = [query EXCEPT ![r] = <<f, v>>]
          /\ asked' = [asked EXCEPT ![r] = {d \in Docs : Matches(d, <<f, v>>)}]
    BY <1>2 DEF BeginQuery
  <2>2. DOMAIN e \subseteq Fields /\ \A g \in DOMAIN e : e[g] = r
    BY EditTyped
  <2>3. {d \in Docs : Matches(d, <<f, v>>)} \in SUBSET Docs
    OBVIOUS
  <2>4. QED
    BY <1>0, <1>2, <2>1, <2>2, <2>3 DEF BeginQuery, Typed, AtWork, indexer
<1>3. ASSUME NEW r \in Requests, ListPage(r) PROVE Typed'
  <2>0. PICK page \in Pages(r) :
          LET ids == todo[r] \o page
          IN  /\ todo' = [todo EXCEPT ![r] = ids]
              /\ astray' = [astray EXCEPT ![r] = @ \/ ~IsInjective(ids)]
              /\ pc' = [pc EXCEPT ![r] = CASE More(r) -> "list"
                                           [] ~More(r) /\ ids = <<>> -> "done"
                                           [] ~More(r) /\ Len(ids) > MaxIds -> "refused"
                                           [] OTHER -> "check"]
    BY <1>3 DEF ListPage
  <2> DEFINE ids == todo[r] \o page
  <2>1. ids \in Seq(Docs)
    BY <1>0, PageListed DEF Typed
  <2>2. /\ todo' = [todo EXCEPT ![r] = ids]
        /\ start' = [start EXCEPT ![r] = IF More(r) THEN @ + PageSize ELSE 0]
        /\ query' = [query EXCEPT ![r] = IF More(r) THEN @ ELSE <<>>]
        /\ pc' = [pc EXCEPT ![r] = CASE More(r) -> "list"
                                     [] ~More(r) /\ ids = <<>> -> "done"
                                     [] ~More(r) /\ Len(ids) > MaxIds -> "refused"
                                     [] OTHER -> "check"]
        /\ astray' \in [Requests -> BOOLEAN]
    BY <1>0, <1>3, <2>0 DEF ListPage, Typed
  <2> HIDE DEF ids
  <2>3. pc'[r] \in {"list", "done", "refused", "check"} /\ pc'[r] = "check" => ids # <<>>
    BY <1>0, <2>2 DEF Typed
  <2>4. pc' \in [Requests -> {"new", "list", "check", "update", "store", "done", "refused", "lost"}]
        /\ \A q \in Requests : q # r => pc'[q] = pc[q]
    BY <1>0, <2>2, <2>3 DEF Typed
  <2>5. start' \in [Requests -> Nat] /\ todo' \in [Requests -> Seq(Docs)] /\ DOMAIN query' = Requests
    BY <1>0, <2>1, <2>2, EditsOK DEF Typed
  <2>6. \A q \in Requests : AtWork(q)' => todo'[q] # <<>>
    BY <1>0, <2>2, <2>3, <2>4 DEF Typed, AtWork
  <2>7. QED
    BY <1>0, <1>3, <2>2, <2>4, <2>5, <2>6 DEF ListPage, Typed, indexer
<1>4. ASSUME NEW r \in Requests, Check(r) PROVE Typed'
  <2>1. CASE Refuse(r)
    <3>1. AtWork(r)
      BY <1>4 DEF Check, AtWork
    <3>2. /\ todo' \in [Requests -> Seq(Docs)]
          /\ pc' \in [Requests -> {"new", "list", "check", "update", "store", "done", "refused", "lost"}]
          /\ UNCHANGED <<edit, start, query>>
          /\ \A q \in Requests : q # r => pc'[q] = pc[q] /\ todo'[q] = todo[q]
          /\ pc'[r] \in {"check", "done"} /\ (pc'[r] = "check" => todo'[r] # <<>>)
      BY <1>0, <2>1, <3>1, AdvanceStep DEF Refuse
    <3>3. good' = good /\ bad' \in [Requests -> SUBSET Docs]
      BY <1>0, <2>1, <3>1, RefuseStep
    <3>4. UNCHANGED <<solr, override, indexer, settled, alone, ialone, asked, astray>>
      BY <1>4 DEF Check, ghosts
    <3>5. \A q \in Requests : AtWork(q)' => todo'[q] # <<>>
      BY <1>0, <3>2 DEF Typed, AtWork
    <3>6. QED
      BY <1>0, <3>2, <3>3, <3>4, <3>5 DEF Typed, indexer
  <2>2. CASE ~Refuse(r)
    BY <1>0, <1>4, <2>2 DEF Check, Typed, AtWork, indexer, ghosts
  <2>3. QED
    BY <2>1, <2>2
<1>5. ASSUME NEW r \in Requests, Update(r) PROVE Typed'
  <2>1. Head(todo[r]) \in Docs
    BY <1>0, <1>5, ToSetParts DEF Update, Typed, AtWork
  <2>2. solr' \in [Docs -> [Fields -> Values] \cup {NotInSolr}]
    BY <1>0, <1>5, <2>1, WriteStep DEF Update
  <2>3. alone' \in [Requests -> BOOLEAN] /\ ialone' \in BOOLEAN
    BY <1>0, <1>5 DEF Update, Typed, Quiet
  <2>4. QED
    BY <1>0, <1>5, <2>2, <2>3, SeenStep DEF Update, Typed, AtWork, indexer
<1>6. ASSUME NEW r \in Requests, UpdateFails(r) PROVE Typed'
  <2>1. AtWork(r) /\ Refuse(r) /\ Advance(r)
    BY <1>6 DEF UpdateFails, AtWork, Refuse
  <2>2. Head(todo[r]) \in Docs
    BY <1>0, <2>1, AdvanceStep
  <2>3. /\ solr' \in [Docs -> [Fields -> Values] \cup {NotInSolr}]
        /\ settled' \in [Docs -> BOOLEAN] /\ alone' \in [Requests -> BOOLEAN] /\ ialone' \in BOOLEAN
    <3>1. CASE UNCHANGED <<solr, settled, alone, ialone>>
      BY <1>0, <3>1 DEF Typed
    <3>2. CASE /\ Write(r, Head(todo[r])) /\ Disturb(Head(todo[r]))
               /\ settled' = [settled EXCEPT ![Head(todo[r])] = FALSE]
      BY <1>0, <2>2, <3>2, WriteStep DEF Typed, Disturb
    <3>3. QED
      BY <1>6, <3>1, <3>2 DEF UpdateFails
  <2>4. QED
    <3>1. /\ todo' \in [Requests -> Seq(Docs)]
          /\ pc' \in [Requests -> {"new", "list", "check", "update", "store", "done", "refused", "lost"}]
          /\ UNCHANGED <<edit, start, query>>
          /\ \A q \in Requests : q # r => pc'[q] = pc[q] /\ todo'[q] = todo[q]
          /\ pc'[r] \in {"check", "done"} /\ (pc'[r] = "check" => todo'[r] # <<>>)
      BY <1>0, <2>1, AdvanceStep
    <3>2. good' \in [Requests -> SUBSET Docs] /\ bad' \in [Requests -> SUBSET Docs]
      BY <1>0, <2>1, RefuseStep DEF Typed
    <3>3. asked' = asked /\ astray' \in [Requests -> BOOLEAN]
      BY <1>0, <1>6, SeenStep DEF UpdateFails
    <3>4. UNCHANGED <<override, indexer>>
      BY <1>6 DEF UpdateFails
    <3>5. \A q \in Requests : AtWork(q)' => todo'[q] # <<>>
      BY <1>0, <3>1 DEF Typed, AtWork
    <3>6. QED
      BY <1>0, <2>3, <3>1, <3>2, <3>3, <3>4, <3>5 DEF Typed, indexer
<1>7. ASSUME NEW r \in Requests, Store(r) PROVE Typed'
  <2>1. AtWork(r) /\ Advance(r)
    BY <1>7 DEF Store, AtWork
  <2>2. Head(todo[r]) \in Docs
    BY <1>0, <2>1, AdvanceStep
  <2>3. /\ DOMAIN override' = Docs /\ settled' \in [Docs -> BOOLEAN] /\ good' \in [Requests -> SUBSET Docs]
        /\ \A d \in Docs : override'[d] \in {override[d], edit[r]}
    BY <1>0, <1>7, <2>2 DEF Store, Typed
  <2>4. \A d \in Docs : DOMAIN override'[d] \subseteq Fields
                        /\ \A f \in DOMAIN override'[d] : override'[d][f] \in Requests
    BY <1>0, <2>3 DEF Typed
  <2>5. QED
    <3>1. /\ todo' \in [Requests -> Seq(Docs)]
          /\ pc' \in [Requests -> {"new", "list", "check", "update", "store", "done", "refused", "lost"}]
          /\ UNCHANGED <<edit, start, query>>
          /\ \A q \in Requests : q # r => pc'[q] = pc[q] /\ todo'[q] = todo[q]
          /\ pc'[r] \in {"check", "done"} /\ (pc'[r] = "check" => todo'[r] # <<>>)
      BY <1>0, <2>1, AdvanceStep
    <3>2. UNCHANGED <<solr, bad, indexer, alone, ialone, asked, astray>>
      BY <1>7 DEF Store
    <3>3. \A q \in Requests : AtWork(q)' => todo'[q] # <<>>
      BY <1>0, <3>1 DEF Typed, AtWork
    <3>4. QED
      BY <1>0, <2>3, <2>4, <3>1, <3>2, <3>3 DEF Typed, indexer
<1>8. ASSUME NEW r \in Requests, StoreFails(r) PROVE Typed'
  <2>1. AtWork(r) /\ Refuse(r) /\ Advance(r)
    BY <1>8 DEF StoreFails, AtWork, Refuse
  <2>2. Head(todo[r]) \in Docs
    BY <1>0, <2>1, AdvanceStep
  <2>3. /\ DOMAIN override' = Docs /\ settled' \in [Docs -> BOOLEAN]
        /\ \A d \in Docs : override'[d] \in {override[d], edit[r]}
    BY <1>0, <1>8, <2>2 DEF StoreFails, Typed
  <2>4. \A d \in Docs : DOMAIN override'[d] \subseteq Fields
                        /\ \A f \in DOMAIN override'[d] : override'[d][f] \in Requests
    BY <1>0, <2>3 DEF Typed
  <2>5. QED
    <3>1. /\ todo' \in [Requests -> Seq(Docs)]
          /\ pc' \in [Requests -> {"new", "list", "check", "update", "store", "done", "refused", "lost"}]
          /\ UNCHANGED <<edit, start, query>>
          /\ \A q \in Requests : q # r => pc'[q] = pc[q] /\ todo'[q] = todo[q]
          /\ pc'[r] \in {"check", "done"} /\ (pc'[r] = "check" => todo'[r] # <<>>)
      BY <1>0, <2>1, AdvanceStep
    <3>2. good' = good /\ bad' \in [Requests -> SUBSET Docs]
      BY <1>0, <2>1, RefuseStep
    <3>3. UNCHANGED <<solr, indexer, alone, ialone, asked, astray>>
      BY <1>8 DEF StoreFails
    <3>4. \A q \in Requests : AtWork(q)' => todo'[q] # <<>>
      BY <1>0, <3>1 DEF Typed, AtWork
    <3>5. QED
      BY <1>0, <2>3, <2>4, <3>1, <3>2, <3>3, <3>4 DEF Typed, indexer
<1>9. ASSUME NEW r \in Requests, Crash(r) PROVE Typed'
  BY <1>0, <1>9 DEF Crash, Typed, AtWork, indexer
<1>10. ASSUME NEW d \in Docs, BeginIndex(d) PROVE Typed'
  <2>1. imeta' \in [Fields -> Values]
    <3>1. Extracted \in [Fields -> Values]
      BY DEF Extracted, Values
    <3>2. DOMAIN override[d] \subseteq Fields /\ \A f \in DOMAIN override[d] : override[d][f] \in Values
      BY <1>0 DEF Typed, Values
    <3>3. Overlay(Extracted, override[d]) \in [Fields -> Values]
      BY <3>1, <3>2 DEF Overlay
    <3>4. QED
      BY <1>10, <3>1, <3>3 DEF BeginIndex
  <2>2. alone' \in [Requests -> BOOLEAN] /\ ialone' \in BOOLEAN
    BY <1>0, <1>10 DEF BeginIndex, Typed
  <2>3. QED
    BY <1>0, <1>10, <2>1, <2>2 DEF BeginIndex, Typed, AtWork, reqs
<1>11. ASSUME NEW d \in Docs, Evict(d) PROVE Typed'
  BY <1>0, <1>11 DEF Evict, Typed, AtWork, reqs, indexer, ghosts, NoEdit
<1>12. CASE Post
  <2>1. idoc \in Docs /\ imeta \in [Fields -> Values]
    BY <1>0, <1>12 DEF Post, Typed
  <2>2. [f \in Fields |-> IF f \in PostedFields THEN imeta[f] ELSE Absent] \in [Fields -> Values]
    BY <2>1 DEF Values
  <2>3. solr' \in [Docs -> [Fields -> Values] \cup {NotInSolr}]
    BY <1>0, <1>12, <2>1, <2>2 DEF Post, Typed
  <2>4. QED
    BY <1>0, <1>12, <2>1, <2>3, SeenStep DEF Post, IndexerIdle, Typed, AtWork, reqs
<1>13. CASE PostFails
  BY <1>0, <1>13 DEF PostFails, IndexerIdle, Typed, AtWork, reqs
<1>14. CASE Wipe
  BY <1>0, <1>14, SeenStep DEF Wipe, Typed, AtWork, reqs, indexer
<1>15. CASE UNCHANGED vars
  BY <1>0, <1>15 DEF vars, Typed, AtWork, reqs, indexer, ghosts
<1>16. QED
  BY <1>1, <1>2, <1>3, <1>4, <1>5, <1>6, <1>7, <1>8, <1>9, <1>10, <1>11, <1>12, <1>13, <1>14, <1>15 DEF Next

\* No step but the update opens a window; a request's window closes when it leaves the
\* document or is lost.
LEMMA WindowsFrame ==
    ASSUME Typed, [Next]_vars, NEW q \in Requests, NEW d \in Docs, Editing(q, d)'
    PROVE  \/ Editing(q, d) /\ edit'[q] = edit[q]
           \/ Update(q) /\ d = Head(todo[q])
<1>1. ASSUME NEW r \in Requests, BeginEdit(r) \/ BeginQuery(r) \/ ListPage(r) PROVE Editing(q, d) /\ edit'[q] = edit[q]
  <2>1. CASE BeginEdit(r)
    BY <2>1 DEF BeginEdit, Editing, Typed
  <2>2. CASE BeginQuery(r)
    BY <2>2 DEF BeginQuery, Editing, Typed
  <2>3. CASE ListPage(r)
    BY <2>3 DEF ListPage, Editing, Typed
  <2>4. QED
    BY <1>1, <2>1, <2>2, <2>3
<1>2. ASSUME NEW r \in Requests, Check(r) \/ UpdateFails(r) \/ Store(r) \/ StoreFails(r)
      PROVE  Editing(q, d) /\ edit'[q] = edit[q]
  <2>1. CASE Advance(r)
    <3>1. AtWork(r)
      BY <1>2 DEF Check, UpdateFails, Store, StoreFails, AtWork
    <3>2. QED
      BY <2>1, <3>1, AdvanceStep
  <2>2. CASE ~Advance(r)
    <3>1. Check(r)
      BY <1>2, <2>2 DEF UpdateFails, Store, StoreFails, Refuse
    <3>2. QED
      BY <2>2, <3>1 DEF Check, Refuse, Editing, Typed
  <2>3. QED
    BY <2>1, <2>2
<1>3. ASSUME NEW r \in Requests, Crash(r) PROVE Editing(q, d) /\ edit'[q] = edit[q]
  BY <1>3 DEF Crash, Editing, Typed
<1>4. ASSUME NEW r \in Requests, Update(r)
      PROVE  \/ Editing(q, d) /\ edit'[q] = edit[q]
             \/ Update(q) /\ d = Head(todo[q])
  BY <1>4 DEF Update, Editing, Typed
<1>5. CASE UNCHANGED <<pc, todo, edit>>
  BY <1>5 DEF Editing
<1>6. CASE Post \/ PostFails \/ Wipe \/ (\E e \in Docs : BeginIndex(e) \/ Evict(e)) \/ UNCHANGED vars
  BY <1>5, <1>6 DEF Post, PostFails, Wipe, BeginIndex, Evict, vars, reqs
<1>7. QED
  BY <1>1, <1>2, <1>3, <1>4, <1>6 DEF Next

\* What a request that had the document to itself wrote is still there.
LEMMA AloneStep ==
    ASSUME Inv, [Next]_vars
    PROVE  AloneStands'
<1>0. Typed /\ AloneStands
  BY DEF Inv
<1> SUFFICES ASSUME NEW q \in Requests, NEW d \in Docs, alone'[q], Editing(q, d)'
             PROVE  /\ ~Indexing(d)'
                    /\ InSolr(d)' => \A f \in DOMAIN edit'[q] : solr'[d][f] = edit'[q][f]
  BY DEF AloneStands
<1>1. CASE Update(q) /\ d = Head(todo[q])
  <2>1. ~Indexing(d)
    BY <1>0, <1>1 DEF Update, Quiet, Typed
  <2>2. ~Indexing(d)' /\ edit' = edit
    BY <1>1, <2>1 DEF Update, indexer, Indexing
  <2>3. \A f \in DOMAIN edit[q] : solr'[d][f] = edit[q][f]
    BY <1>0, <1>1, WriteStep DEF Update
  <2>4. QED
    BY <2>2, <2>3
<1>2. CASE Editing(q, d) /\ edit'[q] = edit[q]
  <2> DEFINE Good == /\ ~Indexing(d)'
                     /\ InSolr(d)' => \A f \in DOMAIN edit'[q] : solr'[d][f] = edit'[q][f]
  <2>0. ASSUME alone[q], solr'[d] = solr[d], Indexing(d)' => Indexing(d) PROVE Good
    BY <1>0, <1>2, <2>0 DEF AloneStands, InSolr
  <2>1. ASSUME NEW r \in Requests, Update(r) PROVE Good
    <3>1. q # r
      BY <1>2, <2>1 DEF Update, Editing
    <3>2. alone[q] /\ d # Head(todo[r])
      BY <1>0, <1>2, <2>1, <3>1 DEF Update, Typed
    <3>3. Head(todo[r]) \in Docs /\ solr'[d] = solr[d]
      BY <1>0, <2>1, <3>2, WriteStep, ToSetParts DEF Update, Typed, AtWork
    <3>4. QED
      BY <2>0, <2>1, <3>2, <3>3 DEF Update, Indexing, indexer
  <2>2. ASSUME NEW r \in Requests, UpdateFails(r) PROVE Good
    <3>1. CASE UNCHANGED <<solr, alone>>
      BY <2>0, <2>2, <3>1 DEF UpdateFails, Indexing, indexer
    <3>2. CASE Write(r, Head(todo[r])) /\ Disturb(Head(todo[r]))
      <4>1. alone[q] /\ d # Head(todo[r])
        BY <1>0, <1>2, <3>2 DEF Disturb, Typed
      <4>2. Head(todo[r]) \in Docs /\ solr'[d] = solr[d]
        BY <1>0, <2>2, <3>2, <4>1, WriteStep, ToSetParts DEF UpdateFails, Typed, AtWork
      <4>3. QED
        BY <2>0, <2>2, <4>1, <4>2 DEF UpdateFails, Indexing, indexer
    <3>3. QED
      BY <2>2, <3>1, <3>2 DEF UpdateFails
  <2>3. ASSUME NEW e \in Docs, BeginIndex(e) PROVE Good
    <3>1. alone[q] /\ e # d
      BY <1>0, <1>2, <2>3 DEF BeginIndex, Typed
    <3>2. QED
      BY <2>0, <2>3, <3>1 DEF BeginIndex, Indexing
  <2>4. CASE Post
    <3>1. alone[q] /\ ~Indexing(d)
      BY <1>0, <1>2, <2>4 DEF Post, AloneStands
    <3>2. idoc # d
      BY <2>4, <3>1 DEF Post, Indexing
    <3>3. solr'[d] = solr[d]
      BY <1>0, <2>4, <3>2 DEF Post, Typed
    <3>4. QED
      BY <2>0, <2>4, <3>1, <3>3 DEF Post, IndexerIdle, Indexing
  <2>5. CASE Wipe
    <3>1. ~InSolr(d)'
      BY <2>5 DEF Wipe, InSolr, NotInSolr
    <3>2. alone[q] /\ ~Indexing(d)
      BY <1>0, <1>2, <2>5 DEF Wipe, AloneStands
    <3>3. QED
      BY <2>5, <3>1, <3>2 DEF Wipe, Indexing, indexer
  <2>6. CASE PostFails
    BY <2>0, <2>6 DEF PostFails, IndexerIdle, Indexing
  <2>7. CASE UNCHANGED <<solr, alone, indexer>>
    BY <2>0, <2>7 DEF indexer, Indexing
  <2>8. ASSUME NEW r \in Requests,
               BeginEdit(r) \/ BeginQuery(r) \/ ListPage(r) \/ Check(r) \/ Store(r) \/ StoreFails(r) \/ Crash(r)
        PROVE  Good
    BY <2>7, <2>8 DEF BeginEdit, BeginQuery, ListPage, Check, Store, StoreFails, Crash, ghosts
  <2>9. ASSUME NEW e \in Docs, Evict(e) PROVE Good
    BY <2>7, <2>9 DEF Evict, ghosts
  <2>10. CASE UNCHANGED vars
    BY <2>7, <2>10 DEF vars, ghosts
  <2>11. QED
    BY <2>1, <2>2, <2>3, <2>4, <2>5, <2>6, <2>8, <2>9, <2>10 DEF Next
<1>3. QED
  BY <1>0, <1>1, <1>2, WindowsFrame

\* The override that an undisturbed indexing read is still the override.
LEMMA ReadStep ==
    ASSUME Inv, [Next]_vars
    PROVE  ReadIsCurrent'
<1>0. Typed /\ ReadIsCurrent
  BY DEF Inv
<1> SUFFICES ASSUME NEW d \in Docs, ialone', Indexing(d)'
             PROVE  /\ Windows(d)' = {}
                    /\ \A f \in DOMAIN override'[d] : imeta'[f] = override'[d][f]
  BY DEF ReadIsCurrent
<1>1. ASSUME NEW e \in Docs, BeginIndex(e)
      PROVE  /\ Windows(d)' = {}
             /\ \A f \in DOMAIN override'[d] : imeta'[f] = override'[d][f]
  <2>1. e = d /\ imeta' = Overlay(Extracted, override[d]) /\ Windows(d) = {} /\ override' = override
    BY <1>1 DEF BeginIndex, Indexing
  <2>2. \A f \in DOMAIN override[d] : imeta'[f] = override[d][f]
    BY <1>0, <2>1 DEF Overlay, Typed
  <2>3. Windows(d)' = Windows(d)
    BY <1>1 DEF BeginIndex, reqs, Windows, Editing
  <2>4. QED
    BY <2>1, <2>2, <2>3
<1>2. CASE ~\E e \in Docs : BeginIndex(e)
  <2>1. UNCHANGED indexer /\ ialone /\ Indexing(d)
    <3>1. CASE UNCHANGED <<indexer, ialone>>
      BY <1>0, <3>1 DEF indexer, Indexing
    <3>2. ASSUME NEW r \in Requests, Update(r) \/ UpdateFails(r) PROVE UNCHANGED indexer /\ ialone /\ Indexing(d)
      BY <1>0, <3>2 DEF Update, UpdateFails, Disturb, indexer, Indexing, Typed
    <3>3. ASSUME NEW r \in Requests,
                 BeginEdit(r) \/ BeginQuery(r) \/ ListPage(r) \/ Check(r) \/ Store(r) \/ StoreFails(r) \/ Crash(r)
          PROVE  UNCHANGED <<indexer, ialone>>
      BY <3>3 DEF BeginEdit, BeginQuery, ListPage, Check, Store, StoreFails, Crash, ghosts
    <3>4. ASSUME Wipe \/ (\E e \in Docs : Evict(e)) \/ UNCHANGED vars PROVE UNCHANGED <<indexer, ialone>>
      BY <3>4 DEF Wipe, Evict, vars, ghosts
    <3>5. ~(Post \/ PostFails)
      BY DEF Post, PostFails, IndexerIdle, Indexing
    <3>6. QED
      BY <1>2, <3>1, <3>2, <3>3, <3>4, <3>5 DEF Next
  <2>2. /\ Windows(d) = {}
        /\ \A f \in DOMAIN override[d] : imeta[f] = override[d][f]
    BY <1>0, <2>1 DEF ReadIsCurrent
  <2>3. Windows(d)' = {}
    <3>1. ASSUME NEW q \in Requests, Editing(q, d)' PROVE FALSE
      <4>1. Update(q) /\ d = Head(todo[q])
        BY <1>0, <2>2, <3>1, WindowsFrame DEF Windows
      <4>2. QED
        BY <1>0, <2>1, <4>1 DEF Update, Typed
    <3>2. QED
      BY <3>1 DEF Windows
  <2>4. override'[d] = override[d] \/ override'[d] = NoEdit
    <3>1. CASE UNCHANGED override
      BY <3>1
    <3>2. ASSUME NEW r \in Requests, Store(r) \/ StoreFails(r) PROVE override'[d] = override[d]
      <4>1. Editing(r, Head(todo[r]))
        BY <3>2 DEF Store, StoreFails, Editing
      <4>2. d # Head(todo[r])
        BY <2>2, <4>1 DEF Windows
      <4>3. QED
        BY <1>0, <3>2, <4>2 DEF Store, StoreFails, Typed
    <3>3. ASSUME NEW e \in Docs, Evict(e) PROVE override'[d] = override[d] \/ override'[d] = NoEdit
      BY <1>0, <3>3 DEF Evict, Typed
    <3>4. ASSUME NEW r \in Requests,
                 BeginEdit(r) \/ BeginQuery(r) \/ ListPage(r) \/ Check(r) \/ Update(r) \/ UpdateFails(r) \/ Crash(r)
          PROVE  UNCHANGED override
      BY <3>4 DEF BeginEdit, BeginQuery, ListPage, Check, Update, UpdateFails, Crash
    <3>5. ASSUME Post \/ PostFails \/ Wipe \/ UNCHANGED vars PROVE UNCHANGED override
      BY <3>5 DEF Post, PostFails, Wipe, vars
    <3>6. QED
      BY <1>2, <3>1, <3>2, <3>3, <3>4, <3>5 DEF Next
  <2>5. imeta' = imeta
    BY <2>1 DEF indexer
  <2>6. QED
    BY <2>2, <2>3, <2>4, <2>5 DEF NoEdit
<1>3. QED
  BY <1>1, <1>2

\* A window closes when its request stores the override, fails to, or is lost.
LEMMA WindowsClose ==
    ASSUME Typed, [Next]_vars, NEW q \in Requests, NEW d \in Docs, Editing(q, d)
    PROVE  Editing(q, d)' \/ Store(q) \/ StoreFails(q) \/ Crash(q)
<1>1. pc[q] = "store" /\ d = Head(todo[q])
  BY DEF Editing
<1>2. ASSUME NEW r \in Requests, BeginEdit(r) \/ BeginQuery(r) \/ ListPage(r) \/ Update(r)
      PROVE  Editing(q, d)'
  BY <1>1, <1>2 DEF BeginEdit, BeginQuery, ListPage, Update, Editing, Typed
<1>3. ASSUME NEW r \in Requests, Check(r) \/ UpdateFails(r) \/ (q # r /\ (Store(r) \/ StoreFails(r)))
      PROVE  Editing(q, d)'
  <2>1. q # r /\ AtWork(r)
    BY <1>1, <1>3 DEF Check, UpdateFails, Store, StoreFails, AtWork
  <2>2. CASE Advance(r)
    BY <1>1, <2>1, <2>2, AdvanceStep DEF Editing
  <2>3. CASE ~Advance(r)
    BY <1>1, <1>3, <2>1, <2>3 DEF Check, UpdateFails, Store, StoreFails, Refuse, Editing, Typed
  <2>4. QED
    BY <2>2, <2>3
<1>4. ASSUME NEW r \in Requests, q # r, Crash(r) PROVE Editing(q, d)'
  BY <1>1, <1>4 DEF Crash, Editing, Typed
<1>5. CASE Post \/ PostFails \/ Wipe \/ (\E e \in Docs : BeginIndex(e) \/ Evict(e)) \/ UNCHANGED vars
  BY <1>1, <1>5 DEF Post, PostFails, Wipe, BeginIndex, Evict, vars, reqs, Editing
<1>6. QED
  BY <1>2, <1>3, <1>4, <1>5 DEF Next

\* A settled document agrees with its override.
LEMMA AgreeStep ==
    ASSUME Inv, [Next]_vars
    PROVE  SettledAgree'
<1>0. Typed /\ SettledAgree /\ AloneStands /\ ReadIsCurrent
  BY DEF Inv
<1> DEFINE Agree(d) == \A f \in DOMAIN override'[d] \cap PostedFields : solr'[d][f] = override'[d][f]
<1> SUFFICES ASSUME NEW d \in Docs, settled'[d], Windows(d)' = {}, InSolr(d)' PROVE Agree(d)
  BY DEF SettledAgree
<1>1. ASSUME settled[d], solr'[d] = solr[d], override'[d] = override[d], Windows(d) = {} PROVE Agree(d)
  BY <1>0, <1>1 DEF SettledAgree, InSolr
<1>2. ASSUME NEW r \in Requests, Store(r), d = Head(todo[r]) PROVE Agree(d)
  <2>1. alone[r] /\ Editing(r, d) /\ override'[d] = edit[r] /\ solr' = solr
    BY <1>0, <1>2 DEF Store, Typed, Editing
  <2>2. \A f \in DOMAIN edit[r] : solr[d][f] = edit[r][f]
    BY <1>0, <2>1 DEF AloneStands, InSolr
  <2>3. QED
    BY <2>1, <2>2
<1>3. CASE Post /\ d = idoc
  <2>1. /\ ialone /\ Indexing(d) /\ override' = override
        /\ solr'[d] = [f \in Fields |-> IF f \in PostedFields THEN imeta[f] ELSE Absent]
    BY <1>0, <1>3 DEF Post, Typed, Indexing
  <2>2. \A f \in DOMAIN override[d] : imeta[f] = override[d][f]
    BY <1>0, <2>1 DEF ReadIsCurrent
  <2>3. PostedFields \subseteq Fields
    BY EditsOK
  <2>4. QED
    BY <2>1, <2>2, <2>3
<1>4. CASE Wipe
  BY <1>4 DEF Wipe, InSolr, NotInSolr
<1>5. ASSUME NEW e \in Docs, Evict(e), e = d PROVE Agree(d)
  BY <1>0, <1>5 DEF Evict, Typed, NoEdit
<1>6. ASSUME ~(Post /\ d = idoc), ~Wipe, ~\E r \in Requests : Store(r) /\ d = Head(todo[r]), ~Evict(d)
      PROVE  Agree(d)
  <2>1. Windows(d) = {} /\ settled[d]
    <3>1. settled[d]
      <4>1. settled[d] \in BOOLEAN /\ DOMAIN settled = Docs
        BY <1>0 DEF Typed
      <4>2. ASSUME NEW r \in Requests, BeginEdit(r) \/ BeginQuery(r) \/ ListPage(r) \/ Check(r) PROVE settled[d]
        BY <4>2 DEF BeginEdit, BeginQuery, ListPage, Check, ghosts
      <4>3. ASSUME NEW r \in Requests, Update(r) \/ UpdateFails(r) \/ StoreFails(r) PROVE settled[d]
        BY <4>1, <4>3 DEF Update, UpdateFails, StoreFails
      <4>4. ASSUME NEW r \in Requests, Store(r) PROVE settled[d]
        BY <1>6, <4>1, <4>4 DEF Store
      <4>5. ASSUME NEW r \in Requests, Crash(r) PROVE settled[d]
        BY <4>1, <4>5 DEF Crash
      <4>6. ASSUME PostFails \/ (\E e \in Docs : BeginIndex(e) \/ Evict(e)) \/ UNCHANGED vars PROVE settled[d]
        BY <4>6 DEF PostFails, BeginIndex, Evict, vars, ghosts
      <4>7. CASE Post
        BY <1>6, <4>1, <4>7 DEF Post
      <4>8. QED
        BY <1>6, <4>2, <4>3, <4>4, <4>5, <4>6, <4>7 DEF Next
    <3>2. ASSUME NEW q \in Requests, Editing(q, d) PROVE FALSE
      <4>1. ~Editing(q, d)' /\ Head(todo[q]) = d
        BY <3>2 DEF Windows, Editing
      <4>2. StoreFails(q) \/ Crash(q)
        BY <1>0, <1>6, <3>2, <4>1, WindowsClose
      <4>3. QED
        BY <1>0, <3>2, <4>1, <4>2 DEF StoreFails, Crash, Typed
    <3>3. QED
      BY <3>1, <3>2 DEF Windows
  <2>2. solr'[d] = solr[d]
    <3>1. ASSUME NEW r \in Requests, Update(r) PROVE solr'[d] = solr[d]
      <4>1. Editing(r, Head(todo[r]))'
        BY <1>0, <3>1 DEF Update, Editing, Typed
      <4>2. d # Head(todo[r]) /\ Head(todo[r]) \in Docs
        BY <1>0, <3>1, <4>1, ToSetParts DEF Windows, Update, Typed, AtWork
      <4>3. QED
        BY <1>0, <3>1, <4>2, WriteStep DEF Update
    <3>2. ASSUME NEW r \in Requests, UpdateFails(r), ~UNCHANGED solr PROVE solr'[d] = solr[d]
      <4>1. /\ Write(r, Head(todo[r])) /\ AtWork(r)
            /\ settled' = [settled EXCEPT ![Head(todo[r])] = FALSE]
        BY <3>2 DEF UpdateFails, AtWork
      <4>2. d # Head(todo[r]) /\ Head(todo[r]) \in Docs
        BY <1>0, <4>1, ToSetParts DEF Typed
      <4>3. QED
        BY <1>0, <4>1, <4>2, WriteStep
    <3>3. CASE Post
      <4>1. d # idoc
        BY <1>6, <3>3
      <4>2. QED
        BY <1>0, <3>3, <4>1 DEF Post, Typed
    <3>4. ASSUME NEW r \in Requests,
                 BeginEdit(r) \/ BeginQuery(r) \/ ListPage(r) \/ Check(r) \/ Store(r) \/ StoreFails(r) \/ Crash(r)
          PROVE  UNCHANGED solr
      BY <3>4 DEF BeginEdit, BeginQuery, ListPage, Check, Store, StoreFails, Crash
    <3>5. ASSUME PostFails \/ (\E e \in Docs : BeginIndex(e) \/ Evict(e)) \/ UNCHANGED vars PROVE UNCHANGED solr
      BY <3>5 DEF PostFails, BeginIndex, Evict, vars
    <3>6. QED
      BY <1>6, <3>1, <3>2, <3>3, <3>4, <3>5 DEF Next
  <2>3. override'[d] = override[d]
    <3>1. ASSUME NEW r \in Requests, Store(r) \/ StoreFails(r) PROVE override'[d] = override[d]
      <4>1. d # Head(todo[r])
        BY <1>0, <1>6, <3>1, ToSetParts DEF Store, StoreFails, Typed, AtWork
      <4>2. QED
        BY <1>0, <3>1, <4>1 DEF Store, StoreFails, Typed
    <3>2. ASSUME NEW e \in Docs, Evict(e) PROVE override'[d] = override[d]
      BY <1>0, <1>6, <3>2 DEF Evict, Typed
    <3>3. ASSUME NEW r \in Requests,
                 BeginEdit(r) \/ BeginQuery(r) \/ ListPage(r) \/ Check(r) \/ Update(r) \/ UpdateFails(r) \/ Crash(r)
          PROVE  UNCHANGED override
      BY <3>3 DEF BeginEdit, BeginQuery, ListPage, Check, Update, UpdateFails, Crash
    <3>4. ASSUME Post \/ PostFails \/ (\E e \in Docs : BeginIndex(e)) \/ UNCHANGED vars PROVE UNCHANGED override
      BY <3>4 DEF Post, PostFails, BeginIndex, vars
    <3>5. QED
      BY <1>6, <3>1, <3>2, <3>3, <3>4 DEF Next
  <2>4. QED
    BY <1>1, <2>1, <2>2, <2>3
<1>7. QED
  BY <1>2, <1>3, <1>4, <1>5, <1>6

\* _solr_query_document_ids: the listing grows by the page, and after the last page it
\* holds all that matches.
LEMMA ListStep ==
    ASSUME Typed, NEW r \in Requests, PagesOf(r), ListPage(r)
    PROVE  PagesOf(r)'
<1> DEFINE F == Found(r)
<1>1. PICK page \in Pages(r) :
          LET ids == todo[r] \o page
          IN  /\ todo' = [todo EXCEPT ![r] = ids]
              /\ astray' = [astray EXCEPT ![r] = @ \/ ~IsInjective(ids)]
              /\ pc' = [pc EXCEPT ![r] = CASE More(r) -> "list"
                                           [] ~More(r) /\ ids = <<>> -> "done"
                                           [] ~More(r) /\ Len(ids) > MaxIds -> "refused"
                                           [] OTHER -> "check"]
  BY DEF ListPage
<1> DEFINE ids == todo[r] \o page
<1>2. /\ todo[r] \in Seq(Docs) /\ start[r] \in Nat /\ PageSize \in Nat \ {0}
      /\ page \in Seq(Docs) /\ ToSet(page) \subseteq F
      /\ More(r) => Len(page) = PageSize
      /\ ~More(r) => start[r] + Len(page) >= Cardinality(F)
  <2>1. todo[r] \in Seq(Docs) /\ start[r] \in Nat /\ PageSize \in Nat \ {0}
    BY EditsOK DEF Typed
  <2>2. QED
    BY <2>1, PageListed
<1>3. ids \in Seq(Docs) /\ ToSet(ids) = ToSet(todo[r]) \cup ToSet(page) /\ Len(ids) = Len(todo[r]) + Len(page)
  BY <1>2, ToSetParts
<1>4. F \in SUBSET Docs
  BY DEF Found
<1>5. /\ pc[r] = "list" /\ todo'[r] = ids
      /\ astray'[r] <=> astray[r] \/ ~IsInjective(ids)
      /\ start'[r] = IF More(r) THEN start[r] + PageSize ELSE 0
      /\ More(r) => pc'[r] = "list" /\ query'[r] = query[r]
      /\ ~More(r) => pc'[r] \in {"done", "refused", "check"}
      /\ pc'[r] = "done" => ids = <<>>
      /\ asked' = asked /\ solr' = solr /\ good' = good /\ bad' = bad
  <2> HIDE DEF ids
  <2>1. /\ pc[r] = "list" /\ todo'[r] = ids
        /\ astray'[r] <=> astray[r] \/ ~IsInjective(ids)
        /\ start'[r] = IF More(r) THEN start[r] + PageSize ELSE 0
        /\ More(r) => query'[r] = query[r]
        /\ pc'[r] = CASE More(r) -> "list"
                      [] ~More(r) /\ ids = <<>> -> "done"
                      [] ~More(r) /\ Len(ids) > MaxIds -> "refused"
                      [] OTHER -> "check"
        /\ asked' = asked /\ solr' = solr /\ good' = good /\ bad' = bad
    BY <1>1 DEF ListPage, Typed, ids
  <2>2. QED
    BY <2>1
<1>6. /\ Len(todo[r]) = start[r]
      /\ ~astray[r] => ToSet(todo[r]) \subseteq F /\ asked[r] \subseteq F
  BY <1>5 DEF PagesOf
<1> HIDE DEF F, ids
<1>7. ~astray'[r] => IsInjective(ids) /\ ToSet(ids) \subseteq F /\ asked[r] \subseteq F
  BY <1>2, <1>3, <1>5, <1>6
<1>8. CASE More(r)
  <2>1. Found(r)' = F
    BY <1>5, <1>8 DEF Found, Matches, InSolr, F
  <2>2. pc'[r] = "list" /\ Len(ids) = start'[r] /\ todo'[r] = ids /\ asked'[r] = asked[r]
    BY <1>2, <1>3, <1>5, <1>6, <1>8
  <2>3. QED
    BY <1>7, <2>1, <2>2 DEF PagesOf, AtWork
<1>9. CASE ~More(r)
  <2>1. Len(ids) >= Cardinality(F)
    BY <1>2, <1>3, <1>6, <1>9
  <2>2. ~astray'[r] => asked'[r] \subseteq ToSet(todo'[r])
    <3>1. ~astray'[r] => F \subseteq ToSet(ids)
      BY <1>3, <1>4, <1>7, <2>1, AllListed
    <3>2. QED
      BY <1>5, <1>7, <3>1
  <2>3. pc'[r] = "done" => ToSet(todo'[r]) = {}
    BY <1>5 DEF ToSet
  <2>4. pc'[r] \in {"done", "refused", "check"}
    BY <1>5, <1>9
  <2>5. pc'[r] = "done" /\ ~astray'[r] => asked'[r] = {}
    BY <2>2, <2>3
  <2>6. QED
    BY <2>2, <2>4, <2>5 DEF PagesOf, AtWork
<1>10. QED
  BY <1>8, <1>9

\* Paging loses nothing, whatever the request itself or the others do.
LEMMA PagesStep ==
    ASSUME Inv, [Next]_vars
    PROVE  PagesListed'
<1>0. Typed /\ PagesListed
  BY DEF Inv
<1> SUFFICES ASSUME NEW q \in Requests PROVE PagesOf(q)'
  BY DEF PagesListed
<1>a. PagesOf(q)
  BY <1>0 DEF PagesListed
<1>1. ASSUME BeginEdit(q) PROVE PagesOf(q)'
  <2>1. pc'[q] = "check" /\ asked'[q] = ToSet(todo'[q])
    BY <1>0, <1>1 DEF BeginEdit, Typed
  <2>2. QED
    BY <2>1 DEF PagesOf, AtWork
<1>2. ASSUME BeginQuery(q) PROVE PagesOf(q)'
  <2>1. PICK f \in PostedFields, v \in Values \ {Absent, q} :
          /\ query' = [query EXCEPT ![q] = <<f, v>>]
          /\ asked' = [asked EXCEPT ![q] = {d \in Docs : Matches(d, <<f, v>>)}]
    BY <1>2 DEF BeginQuery
  <2>2. query'[q] = <<f, v>> /\ asked'[q] = {d \in Docs : Matches(d, <<f, v>>)} /\ pc'[q] = "list"
        /\ todo'[q] = <<>> /\ start'[q] = 0 /\ solr' = solr
    BY <1>0, <1>2, <1>a, <2>1 DEF BeginQuery, Typed, PagesOf
  <2>3. Found(q)' = asked'[q]
    BY <2>2 DEF Found, Matches, InSolr
  <2>4. Len(todo'[q]) = 0 /\ IsInjective(todo'[q]) /\ ToSet(todo'[q]) = {}
    BY <2>2 DEF IsInjective, ToSet
  <2>5. QED
    BY <2>2, <2>3, <2>4 DEF PagesOf, AtWork
<1>3. ASSUME Check(q) PROVE PagesOf(q)'
  <2>1. AtWork(q) /\ asked' = asked /\ astray' = astray
    BY <1>3 DEF Check, AtWork, ghosts
  <2>2. CASE Refuse(q)
    <3>1. good[q] \cup bad[q] \cup {Head(todo[q])} \subseteq good'[q] \cup bad'[q]
      BY <1>0, <2>1, <2>2, RefuseStep
    <3>2. QED
      BY <1>0, <1>a, <2>1, <2>2, <3>1, PagesAdvance DEF Refuse
  <2>3. CASE ~Refuse(q)
    <3>1. pc[q] = "check" /\ pc'[q] = "update" /\ UNCHANGED <<todo, good, bad>>
      BY <1>0, <1>3, <2>3 DEF Check, Typed
    <3>2. QED
      BY <1>a, <2>1, <3>1 DEF PagesOf, AtWork
  <2>4. QED
    BY <2>2, <2>3
<1>4. ASSUME Update(q) PROVE PagesOf(q)'
  <2>1. pc[q] = "update" /\ pc'[q] = "store" /\ UNCHANGED <<todo, good, bad>>
    BY <1>0, <1>4 DEF Update, Typed
  <2>2. asked'[q] = asked[q] /\ astray'[q] = astray[q]
    BY <1>0, <1>4, <2>1, SeenStep DEF Update
  <2>3. QED
    BY <1>a, <2>1, <2>2 DEF PagesOf, AtWork
<1>5. ASSUME UpdateFails(q) PROVE PagesOf(q)'
  <2>1. AtWork(q) /\ Refuse(q) /\ Advance(q) /\ pc[q] # "list"
    BY <1>5 DEF UpdateFails, AtWork, Refuse
  <2>2. asked'[q] = asked[q] /\ astray'[q] = astray[q]
    BY <1>0, <1>5, <2>1, SeenStep DEF UpdateFails
  <2>3. good[q] \cup bad[q] \cup {Head(todo[q])} \subseteq good'[q] \cup bad'[q]
    BY <1>0, <2>1, RefuseStep
  <2>4. QED
    BY <1>0, <1>a, <2>1, <2>2, <2>3, PagesAdvance
<1>6. ASSUME Store(q) PROVE PagesOf(q)'
  <2>1. AtWork(q) /\ Advance(q) /\ asked'[q] = asked[q] /\ astray'[q] = astray[q]
        /\ good[q] \cup bad[q] \cup {Head(todo[q])} \subseteq good'[q] \cup bad'[q]
    BY <1>0, <1>6 DEF Store, AtWork, Typed
  <2>2. QED
    BY <1>0, <1>a, <2>1, PagesAdvance
<1>7. ASSUME StoreFails(q) PROVE PagesOf(q)'
  <2>1. AtWork(q) /\ Refuse(q) /\ Advance(q) /\ asked'[q] = asked[q] /\ astray'[q] = astray[q]
    BY <1>7 DEF StoreFails, AtWork, Refuse
  <2>2. good[q] \cup bad[q] \cup {Head(todo[q])} \subseteq good'[q] \cup bad'[q]
    BY <1>0, <2>1, RefuseStep
  <2>3. QED
    BY <1>0, <1>a, <2>1, <2>2, PagesAdvance
<1>8. ASSUME Crash(q) PROVE PagesOf(q)'
  <2>1. pc'[q] = "lost"
    BY <1>0, <1>8 DEF Crash, Typed
  <2>2. QED
    BY <2>1 DEF PagesOf, AtWork
<1>9. ASSUME NEW r \in Requests, r # q,
             \/ BeginEdit(r) \/ BeginQuery(r) \/ ListPage(r) \/ Check(r) \/ Update(r) \/ UpdateFails(r)
             \/ Store(r) \/ StoreFails(r) \/ Crash(r)
      PROVE  PagesOf(q)'
  <2>1. CASE BeginEdit(r) \/ BeginQuery(r) \/ ListPage(r) \/ Crash(r)
    <3>1. /\ UNCHANGED <<solr, good, bad>> /\ pc'[q] = pc[q] /\ todo'[q] = todo[q]
          /\ start'[q] = start[q] /\ query'[q] = query[q]
          /\ asked'[q] = asked[q] /\ astray'[q] = astray[q]
      <4>1. CASE BeginEdit(r) \/ Crash(r)
        BY <1>0, <1>9, <4>1 DEF BeginEdit, Crash, Typed
      <4>2. CASE BeginQuery(r)
        BY <1>0, <1>9, <4>2 DEF BeginQuery, Typed
      <4>3. CASE ListPage(r)
        BY <1>0, <1>9, <4>3 DEF ListPage, Typed
      <4>4. QED
        BY <2>1, <4>1, <4>2, <4>3
    <3>2. QED
      BY <1>0, <1>a, <3>1, PagesStay
  <2>2. CASE Check(r) \/ Update(r) \/ UpdateFails(r) \/ Store(r) \/ StoreFails(r)
    <3>1. AtWork(r)
      BY <2>2 DEF Check, Update, UpdateFails, Store, StoreFails, AtWork
    <3>2. pc'[q] = pc[q] /\ todo'[q] = todo[q] /\ start'[q] = start[q] /\ query'[q] = query[q]
      <4>1. CASE Advance(r)
        BY <1>0, <1>9, <3>1, <4>1, AdvanceStep
      <4>2. CASE ~Advance(r)
        BY <1>0, <1>9, <2>2, <4>2 DEF Check, Update, UpdateFails, Store, StoreFails, Refuse, Typed
      <4>3. QED
        BY <4>1, <4>2
    <3>3. good'[q] = good[q] /\ bad'[q] = bad[q]
      BY <1>0, <1>9, <2>2 DEF Check, Update, UpdateFails, Store, StoreFails, Refuse, Typed
    <3>4. SeenByPages \/ UNCHANGED <<solr, asked, astray>>
      BY <2>2 DEF Check, Update, UpdateFails, Store, StoreFails, ghosts
    <3>5. QED
      BY <1>0, <1>a, <3>2, <3>3, <3>4, PagesGoOn, PagesStay
  <2>3. QED
    BY <1>9, <2>1, <2>2
<1>10. CASE Post \/ Wipe
  BY <1>0, <1>10, <1>a, PagesGoOn DEF Post, Wipe, reqs
<1>11. CASE PostFails \/ (\E e \in Docs : BeginIndex(e) \/ Evict(e)) \/ UNCHANGED vars
  BY <1>0, <1>11, <1>a, PagesStay DEF PostFails, BeginIndex, Evict, vars, reqs, ghosts
<1>12. CASE ListPage(q)
  BY <1>0, <1>12, <1>a, ListStep
<1>13. QED
  BY <1>1, <1>2, <1>3, <1>4, <1>5, <1>6, <1>7, <1>8, <1>9, <1>10, <1>11, <1>12 DEF Next

-----------------------------------------------------------------------------
(* The theorems.                                                           *)

\* The invariant holds at first.
LEMMA Initially == Init => Inv
<1> SUFFICES ASSUME Init PROVE Inv
  OBVIOUS
<1>1. Extracted \in [Fields -> Values]
  BY DEF Extracted, Values
<1>2. Typed
  BY <1>1, EditsOK DEF Init, Typed, AtWork, NoEdit
<1>3. SettledAgree /\ AloneStands /\ ReadIsCurrent
  BY DEF Init, SettledAgree, AloneStands, ReadIsCurrent, NoEdit, Editing, Indexing
<1>4. PagesListed
  BY DEF Init, PagesListed, PagesOf, AtWork
<1>5. QED
  BY <1>2, <1>3, <1>4 DEF Inv

\* The inductive invariant: types, agreement, and what is known of every open window
\* and of every page.
THEOREM InvHolds == Spec => []Inv
<1>1. Inv /\ [Next]_vars => Inv'
  BY TypedStep, AgreeStep, AloneStep, ReadStep, PagesStep DEF Inv
<1>2. QED
  BY <1>1, Initially, PTL DEF Spec

\* The types of the stores, the requests and the indexer.
THEOREM EditsTyped == Spec => []EditsTypeOK
<1>1. Inv => EditsTypeOK
  BY DEF Inv, Typed, EditsTypeOK, AtWork
<1>2. QED
  BY <1>1, InvHolds, PTL

\* Solr and the override store agree at rest.
THEOREM StoresAgree == Spec => []AgreeAtRest
<1>1. Inv => AgreeAtRest
  BY DEF Inv, SettledAgree, AgreeAtRest, Quiet
<1>2. QED
  BY <1>1, InvHolds, PTL

\* A batch edit treats or reports every document it was given or, by query, that
\* matched when it arrived, unless one left the result or was listed twice.
THEOREM NothingMissed == Spec => []PagesMissNothing
<1>1. Inv => PagesMissNothing
  BY DEF Inv, PagesListed, PagesOf, PagesMissNothing
<1>2. QED
  BY <1>1, InvHolds, PTL
=================================================================================
