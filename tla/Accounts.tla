------------------------------- MODULE Accounts -------------------------------
(***************************************************************************)
(* Accounts and sessions of solr-search: the users table of the auth       *)
(* database, the tokens signed from it, and the handlers of /v1/auth.      *)
(* A token carries the id and the role its user had; nothing looks the     *)
(* user up again, so a token outlives a demotion and a deletion.  Each     *)
(* database call is a transaction of its own: what a handler read may be   *)
(* old when it writes.                                                     *)
(***************************************************************************)
EXTENDS Naturals, FiniteSets

CONSTANTS
    Names, Passwords,  \* user names (NOCASE, stripped); passwords the policy accepts
    Roles,             \* VALID_ROLES
    Threads,           \* requests that hold something between two transactions
    MaxBorn,           \* bound: accounts ever made
    SeedName, SeedPassword, \* AUTH_DEFAULT_ADMIN_USERNAME, AUTH_DEFAULT_ADMIN_PASSWORD
    Idle,              \* a thread that holds nothing
    Scopes             \* bounds of an exploration: passwords, roles, accounts, collections, items,
                       \* and whether a restart may be the first of a new release

ASSUME AccountsOK == /\ "admin" \in Roles /\ SeedName \in Names /\ SeedPassword \in Passwords
                     /\ MaxBorn \in Nat
                     /\ \A s \in Scopes : /\ s.passwords \subseteq Passwords /\ s.roles \subseteq Roles
                                          /\ s.releases \subseteq BOOLEAN /\ s.born \in 0..MaxBorn

VARIABLES
    users,    \* id -> row: name, pw (what the hash verifies), old (check_needs_rehash), role; ghost: who
    nextId,   \* sqlite_sequence: the id of the next row
    tokens,   \* signed and not yet expired
    job,      \* per thread
    born,     \* ghost: accounts made so far; one is one person
    acked,    \* ghost: per id, the password its owner was last told
    scope,    \* one of Scopes, for good
    raced     \* ghost: ids whose password changed while a login held the old one

accounts == <<users, nextId, tokens, job, born, acked, raced>>

IsAdmin(tk) == tk.role = "admin"                          \* require_role("admin")
NameTaken(n, but) == \E i \in DOMAIN users \ {but} : users[i].name = n
\* A login that has yet to renew the hash of i.
Renews(t, i) == job[t] # Idle /\ job[t].kind = "login" /\ job[t].old /\ job[t].id = i
Ids == 1..MaxBorn

AccountsInit ==
    /\ scope \in Scopes
    /\ users = [i \in {} |-> 0] /\ nextId = 1 /\ tokens = {}
    /\ job = [t \in Threads |-> Idle]
    /\ born = 0 /\ acked = [i \in Ids |-> SeedPassword] /\ raced = {}

-----------------------------------------------------------------------------
\* Mutant: without AUTOINCREMENT SQLite hands out the id after the largest.
InsertReusingIds(n, p, r) ==
    LET i == CHOOSE k \in 1..(MaxBorn + 1) : /\ \A j \in DOMAIN users : j < k
                                             /\ k = 1 \/ k - 1 \in DOMAIN users
    IN  /\ born < scope.born /\ ~NameTaken(n, 0)
        /\ users' = [j \in DOMAIN users \cup {i} |->
                       IF j = i THEN [name |-> n, pw |-> p, old |-> FALSE, role |-> r, who |-> born + 1]
                                ELSE users[j]]
        /\ nextId' = nextId + 1 /\ born' = born + 1
        /\ acked' = [acked EXCEPT ![i] = p] /\ raced' = raced \ {i}

\* INSERT INTO users: a name once, an id never again.
Insert(n, p, r) ==
    /\ born < scope.born /\ ~NameTaken(n, 0)
    /\ users' = [j \in DOMAIN users \cup {nextId} |->
                   IF j = nextId THEN [name |-> n, pw |-> p, old |-> FALSE, role |-> r, who |-> born + 1]
                                 ELSE users[j]]
    /\ nextId' = nextId + 1 /\ born' = born + 1
    /\ acked' = [acked EXCEPT ![nextId] = p] /\ raced' = raced \ {nextId}

\* auth_register: an admin's token; UserExistsError changes nothing.
Register ==
    /\ \E tk \in tokens : IsAdmin(tk)
    /\ \E n \in Names, p \in scope.passwords, r \in scope.roles : Insert(n, p, r)
    /\ UNCHANGED <<tokens, job>>

\* auth_update_user: an admin changes anyone, everyone else their own name; the
\* lookups before and after the UPDATE change nothing and only pick the answer.
UpdateUser ==
    \E tk \in tokens, i \in DOMAIN users, n \in Names, r \in scope.roles :
        /\ IsAdmin(tk) \/ (tk.id = i /\ r = users[i].role)
        /\ ~NameTaken(n, i)
        /\ users' = [users EXCEPT ![i].name = n, ![i].role = r]
        /\ UNCHANGED <<nextId, tokens, job, born, acked, raced>>

\* Mutant: an admin may delete themselves.
DeleteAnyUser ==
    \E tk \in tokens, i \in DOMAIN users :
        /\ IsAdmin(tk)
        /\ users' = [j \in DOMAIN users \ {i} |-> users[j]]
        /\ acked' = [acked EXCEPT ![i] = SeedPassword] /\ raced' = raced \ {i}
        /\ UNCHANGED <<nextId, tokens, job, born>>

\* auth_delete_user: not oneself; the tokens of the deleted user go on.
DeleteUser ==
    \E tk \in tokens, i \in DOMAIN users :
        /\ IsAdmin(tk) /\ tk.id # i
        /\ users' = [j \in DOMAIN users \ {i} |-> users[j]]
        /\ acked' = [acked EXCEPT ![i] = SeedPassword] /\ raced' = raced \ {i}
        /\ UNCHANGED <<nextId, tokens, job, born>>

-----------------------------------------------------------------------------
\* Mutant: the hash is renewed whatever the password given.
LoginUnverified(t) ==
    /\ job[t] = Idle
    /\ \E i \in DOMAIN users, p \in scope.passwords :
          job' = [job EXCEPT ![t] = [kind |-> "login", id |-> i, pw |-> p, old |-> users[i].old,
                                     role |-> users[i].role, who |-> users[i].who]]
    /\ UNCHANGED <<users, nextId, tokens, born, acked, raced>>

\* auth_login, authenticate_user: the row is loaded and the password verified
\* (a failing login changes nothing).
Login(t) ==
    /\ job[t] = Idle
    /\ \E i \in DOMAIN users, p \in scope.passwords :
          /\ p = users[i].pw
          /\ job' = [job EXCEPT ![t] = [kind |-> "login", id |-> i, pw |-> p, old |-> users[i].old,
                                        role |-> users[i].role, who |-> users[i].who]]
    /\ UNCHANGED <<users, nextId, tokens, born, acked, raced>>

\* The rest of it: a hash with old parameters is made anew from the password
\* that was verified, then the token is signed with the row that was loaded.
LoginEnd(t) ==
    LET j == job[t] IN
    /\ j # Idle /\ j.kind = "login"
    /\ users' = IF j.old /\ j.id \in DOMAIN users
                THEN [users EXCEPT ![j.id].pw = j.pw, ![j.id].old = FALSE] ELSE users
    /\ tokens' = tokens \cup {[id |-> j.id, role |-> j.role, who |-> j.who]}
    /\ job' = [job EXCEPT ![t] = Idle]
    /\ UNCHANGED <<nextId, born, acked, raced>>

\* auth_change_password, change_password up to the hash of the new password.
ChangePassword(t) ==
    /\ job[t] = Idle
    /\ \E tk \in tokens, cur, new \in scope.passwords :
          /\ tk.id \in DOMAIN users
          /\ cur = users[tk.id].pw /\ new # users[tk.id].pw
          /\ job' = [job EXCEPT ![t] = [kind |-> "change", id |-> tk.id, new |-> new]]
    /\ UNCHANGED <<users, nextId, tokens, born, acked, raced>>

\* A password is written and its owner told; a login that is about to renew the
\* hash of the old one makes it a race.
SetPassword(i, p) ==
    /\ users' = [users EXCEPT ![i].pw = p, ![i].old = FALSE]
    /\ acked' = [acked EXCEPT ![i] = p]
    /\ raced' = IF \E t \in Threads : Renews(t, i) THEN raced \cup {i} ELSE raced \ {i}

\* The UPDATE; for a user who is gone it does nothing and is answered alike.
ChangeEnd(t) ==
    /\ job[t] # Idle /\ job[t].kind = "change"
    /\ \/ job[t].id \in DOMAIN users /\ SetPassword(job[t].id, job[t].new)
       \/ job[t].id \notin DOMAIN users /\ UNCHANGED <<users, acked, raced>>
    /\ job' = [job EXCEPT ![t] = Idle]
    /\ UNCHANGED <<nextId, tokens, born>>

\* reset_password.py, beside the running service.
ResetPassword ==
    /\ \E i \in DOMAIN users, p \in scope.passwords : SetPassword(i, p)
    /\ UNCHANGED <<nextId, tokens, job, born>>

-----------------------------------------------------------------------------
\* The write of a request fails ("database is locked"): 500.
Abort(t) ==
    /\ job[t] # Idle
    /\ job' = [job EXCEPT ![t] = Idle]
    /\ UNCHANGED <<users, nextId, tokens, born, acked, raced>>

Expire ==
    /\ \E tk \in tokens : tokens' = tokens \ {tk}
    /\ UNCHANGED <<users, nextId, job, born, acked, raced>>

\* lifespan: _seed_default_admin makes an admin if there is nobody at all.  A new
\* release may have raised the parameters of the hash.
Restart ==
    /\ job' = [t \in Threads |-> Idle]
    /\ \/ users = [i \in {} |-> 0] /\ Insert(SeedName, SeedPassword, "admin")
       \/ /\ users # [i \in {} |-> 0]
          /\ \E release \in scope.releases :
                users' = [i \in DOMAIN users |-> [users[i] EXCEPT !.old = @ \/ release]]
          /\ UNCHANGED <<nextId, born, acked, raced>>
    /\ UNCHANGED tokens

AccountsNext ==
    \/ Register \/ UpdateUser \/ DeleteUser \/ ResetPassword \/ Expire \/ Restart
    \/ \E t \in Threads : Login(t) \/ LoginEnd(t) \/ ChangePassword(t) \/ ChangeEnd(t) \/ Abort(t)

-----------------------------------------------------------------------------
\* Types; a name belongs to one account, an id is given out once.
AccountsTypeOK ==
    /\ DOMAIN users \subseteq 1..(nextId - 1) /\ nextId = born + 1 /\ born \in 0..MaxBorn
    /\ \A i \in DOMAIN users :
          /\ users[i] \in [name : Names, pw : Passwords, old : BOOLEAN, role : Roles, who : Ids]
          /\ ~NameTaken(users[i].name, i)
    /\ tokens \subseteq [id : 1..born, role : Roles, who : 1..born]
    /\ \A t \in Threads : job[t] # Idle => job[t].id \in 1..born
    /\ acked \in [Ids -> Passwords] /\ raced \subseteq Ids

\* The password a user was last told is the one that logs them in, through
\* logins that renew old hashes, resets, deletions and restarts: only a change
\* that overlapped a login renewing the old hash can be undone.
LastPasswordStands ==
    \A i \in DOMAIN users : i \notin raced => users[i].pw = acked[i]

\* The last account falls only to somebody whose own account is already gone (two
\* admins who delete each other): nobody locks everybody out with a live account.
LastAccountKept ==
    [][DOMAIN users # {} /\ DOMAIN users' = {} =>
          \E tk \in tokens : IsAdmin(tk) /\ tk.id \notin DOMAIN users]_accounts
=============================================================================
