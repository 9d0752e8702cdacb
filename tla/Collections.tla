----------------------------- MODULE Collections -----------------------------
(***************************************************************************)
(* Collections of documents, in a database of their own: a collection      *)
(* names its owner by the id of the auth database, and every handler       *)
(* compares that with the id in the token.  Composed with Accounts: tokens *)
(* outlive users, users come and go, and the collections stay.             *)
(* Outside a transaction a SELECT sees the moment it runs: the next        *)
(* position of an item is read before the insert takes the write lock.     *)
(***************************************************************************)
EXTENDS Accounts, Sequences, SequencesExt

CONSTANTS
    DocIds,         \* documents of the index
    MaxPosition     \* bound: positions a client asks for (ge=0)

ASSUME CollectionsOK == MaxPosition \in Nat

VARIABLES
    collections,  \* id -> owner (user_id); ghosts: by, who made it, reached, who got at it
    items,        \* id -> cid, doc, pos
    nextItem, nextCol, \* uuids: fresh forever
    mixed         \* ghost: collections whose positions somebody has set in part

shelves == <<collections, items, nextItem, nextCol, mixed>>
vars    == <<accounts, shelves, scope>>

ItemsOf(c) == {x \in DOMAIN items : items[x].cid = c}
Has(c, d)  == \E x \in ItemsOf(c) : items[x].doc = d

CollectionsInit ==
    /\ collections = [c \in {} |-> 0] /\ items = [x \in {} |-> 0]
    /\ nextItem = 1 /\ nextCol = 1 /\ mixed = {}

-----------------------------------------------------------------------------
\* _verify_collection_owner, get_collection: 404 for a stranger.
Owned(tk, c) == c \in DOMAIN collections /\ collections[c].owner = tk.id

Reach(tk, c, next) ==
    collections' = [next EXCEPT ![c].reached = @ \cup {tk.who}]

CreateCollection ==
    \E tk \in tokens :
        /\ nextCol <= scope.collections
        /\ collections' = [c \in DOMAIN collections \cup {nextCol} |->
               IF c = nextCol THEN [owner |-> tk.id, by |-> tk.who, reached |-> {}] ELSE collections[c]]
        /\ nextCol' = nextCol + 1
        /\ UNCHANGED <<accounts, items, nextItem, mixed>>

\* get_collection, list_collections, get_collection_ids_for_documents and
\* update_collection (the name and the description): the content is shown.
GetCollection ==
    \E tk \in tokens, c \in DOMAIN collections :
        /\ Owned(tk, c) /\ Reach(tk, c, collections)
        /\ UNCHANGED <<accounts, items, nextItem, nextCol, mixed>>

\* Mutant: PRAGMA foreign_keys is not set, the items stay.
DeleteWithoutCascade ==
    \E tk \in tokens, c \in DOMAIN collections :
        /\ Owned(tk, c)
        /\ collections' = [d \in DOMAIN collections \ {c} |-> collections[d]]
        /\ mixed' = mixed \ {c}
        /\ UNCHANGED <<accounts, items, nextItem, nextCol>>

\* delete_collection: ON DELETE CASCADE takes the items along.
DeleteCollection ==
    \E tk \in tokens, c \in DOMAIN collections :
        /\ Owned(tk, c)
        /\ collections' = [d \in DOMAIN collections \ {c} |-> collections[d]]
        /\ items' = [x \in DOMAIN items \ ItemsOf(c) |-> items[x]]
        /\ mixed' = mixed \ {c}
        /\ UNCHANGED <<accounts, nextItem, nextCol>>

-----------------------------------------------------------------------------
\* Mutant: the items are counted instead.
NextPosAfterCount(c) == Cardinality(ItemsOf(c)) + 1

\* SELECT MAX(position): 1 for an empty collection.
NextPos(c) == IF ItemsOf(c) = {} THEN 1
              ELSE 1 + (CHOOSE p \in {items[x].pos : x \in ItemsOf(c)} :
                           \A x \in ItemsOf(c) : items[x].pos <= p)

\* What a change of positions in c means for an add_items under way.
Outdated(c) ==
    [t \in Threads |-> IF job[t] # Idle /\ job[t].kind = "add" /\ job[t].cid = c
                       THEN [job[t] EXCEPT !.stale = TRUE] ELSE job[t]]

\* add_collection_items up to the first INSERT.
AddItems(t) ==
    /\ job[t] = Idle /\ nextItem <= scope.items
    /\ \E tk \in tokens, c \in DOMAIN collections, ds \in SeqOf(DocIds, 2) \ {<<>>} :
          /\ Owned(tk, c) /\ Reach(tk, c, collections)
          /\ job' = [job EXCEPT ![t] = [kind |-> "add", id |-> tk.id, cid |-> c, docs |-> ds,
                                        pos |-> NextPos(c), stale |-> FALSE]]
    /\ UNCHANGED <<users, nextId, tokens, born, acked, raced, items, nextItem, nextCol, mixed>>

\* The places of ds that are inserted: a document twice in the list, or in the
\* collection already, is skipped and takes no position.
Fresh(c, ds) == {k \in DOMAIN ds : ~Has(c, ds[k]) /\ \A h \in 1..(k - 1) : ds[h] # ds[k]}

\* How many of the places F come before k.
Before(F, k) == Cardinality({h \in F : h < k})

\* Its transaction.  In a collection that is gone every INSERT breaks the foreign
\* key, which is taken for a duplicate: nothing added, answered 201.
AddItemsEnd(t) ==
    LET j == job[t]  c == j.cid  F == IF c \in DOMAIN collections THEN Fresh(c, j.docs) ELSE {} IN
    /\ j # Idle /\ j.kind = "add"
    /\ nextItem + Cardinality(F) <= scope.items + 1
    /\ items' = [x \in DOMAIN items \cup {nextItem + Before(F, k) : k \in F} |->
                   IF x \in DOMAIN items THEN items[x]
                   ELSE [cid |-> c, doc |-> j.docs[CHOOSE k \in F : nextItem + Before(F, k) = x],
                         pos |-> j.pos + (x - nextItem)]]
    /\ nextItem' = nextItem + Cardinality(F)
    /\ mixed' = IF j.stale /\ F # {} THEN mixed \cup {c} ELSE mixed
    /\ job' = [Outdated(c) EXCEPT ![t] = Idle]
    /\ UNCHANGED <<users, nextId, tokens, born, acked, raced, collections, nextCol>>

\* remove_item.  The owner never changes and no id comes back, so what the check
\* found still holds at the DELETE, or the item is gone.
RemoveItem ==
    \E tk \in tokens, x \in DOMAIN items :
        /\ Owned(tk, items[x].cid) /\ Reach(tk, items[x].cid, collections)
        /\ items' = [y \in DOMAIN items \ {x} |-> items[y]]
        /\ UNCHANGED <<accounts, nextItem, nextCol, mixed>>

\* update_item: the position asked for, whoever else has it (the note is data).
UpdateItem ==
    \E tk \in tokens, x \in DOMAIN items, p \in 0..MaxPosition :
        LET c == items[x].cid IN
        /\ Owned(tk, c) /\ Reach(tk, c, collections)
        /\ items' = [items EXCEPT ![x].pos = p]
        /\ mixed' = mixed \cup {c} /\ job' = Outdated(c)
        /\ UNCHANGED <<users, nextId, tokens, born, acked, raced, nextItem, nextCol>>

\* reorder_items: 1..N in the order given, in one transaction.
Reordered(ids) == [x \in DOMAIN items |->
    IF x \in ToSet(ids) THEN [items[x] EXCEPT !.pos = CHOOSE k \in DOMAIN ids : ids[k] = x] ELSE items[x]]

\* The list may leave items out, which keep the positions they have.
ReorderItems ==
    \E tk \in tokens, c \in DOMAIN collections : \E S \in SUBSET ItemsOf(c) \ {{}} :
      \E ids \in SetToSeqs(S) :
        /\ Owned(tk, c) /\ Reach(tk, c, collections)
        /\ items' = Reordered(ids)
        /\ mixed' = IF S = ItemsOf(c) THEN mixed \ {c} ELSE mixed \cup {c}
        /\ job' = Outdated(c)
        /\ UNCHANGED <<users, nextId, tokens, born, acked, raced, nextItem, nextCol>>

CollectionsNext ==
    \/ CreateCollection \/ GetCollection \/ DeleteCollection
    \/ RemoveItem \/ UpdateItem \/ ReorderItems
    \/ \E t \in Threads : AddItems(t) \/ AddItemsEnd(t)

Init == AccountsInit /\ CollectionsInit
Next == UNCHANGED scope /\ ((AccountsNext /\ UNCHANGED shelves) \/ CollectionsNext)
Spec == Init /\ [][Next]_vars

-----------------------------------------------------------------------------
\* Types; an item is in a collection that exists, a document in it once.
CollectionsTypeOK ==
    /\ AccountsTypeOK
    /\ \A c \in DOMAIN collections : c < nextCol /\ collections[c].owner \in 1..born
    /\ \A x \in DOMAIN items :
          /\ x < nextItem /\ items[x].cid \in DOMAIN collections
          /\ items[x].doc \in DocIds /\ items[x].pos \in Nat
          /\ \A y \in ItemsOf(items[x].cid) : items[y].doc = items[x].doc => y = x
    /\ mixed \subseteq DOMAIN collections

\* Nobody but the person who made a collection ever reads or changes it, although
\* the two databases share no key: not a user who registers under a name or in the
\* place of one who is gone, whose collections stay behind, nor an admin.
OnlyTheCreator ==
    /\ \A c \in DOMAIN collections : collections[c].reached \subseteq {collections[c].by}
    /\ \A c \in DOMAIN collections, tk \in tokens : Owned(tk, c) => tk.who = collections[c].by

\* Two items of a collection have one position only where somebody has set a
\* position, reordered a part, or added while positions changed: adding, removing
\* and full reorders never do it, and a full reorder mends it.
PositionsDistinct ==
    \A c \in DOMAIN collections \ mixed : \A x, y \in ItemsOf(c) :
        items[x].pos = items[y].pos => x = y
=============================================================================
