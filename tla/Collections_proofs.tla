-------------------------- MODULE Collections_proofs --------------------------
(***************************************************************************)
(* Accounts and collections, for every set of names, passwords, requests   *)
(* and documents and every bound: the last password stands, a collection   *)
(* is only ever its creator's, positions are distinct, and the last        *)
(* account is kept.  The core is that ids are never given out twice, so    *)
(* that the id in a row, in a token, in a job and in the owner of a        *)
(* collection all mean one person.                                         *)
(***************************************************************************)
EXTENDS Collections, FiniteSetTheorems, TLAPS

-----------------------------------------------------------------------------
(* The parts of the inductive invariant.                                   *)

\* The users table: ids below the sequence, and each row is one person's.
RowsOK ==
    /\ DOMAIN users \subseteq 1..(nextId - 1) /\ nextId = born + 1 /\ born \in 0..MaxBorn
    /\ \A i \in DOMAIN users :
          /\ users[i] \in [name : Names, pw : Passwords, old : BOOLEAN, role : Roles, who : Ids]
          /\ users[i].who = i

NamesOnce == \A i \in DOMAIN users : ~NameTaken(users[i].name, i)

\* A token names the person it was made for.
TokensOK ==
    /\ tokens \subseteq [id : 1..born, role : Roles, who : 1..born]
    /\ \A tk \in tokens : tk.who = tk.id

\* What a request holds between two transactions.
JobOK(j) ==
    /\ j.kind \in {"login", "change", "add"} /\ j.id \in 1..born
    /\ j.kind = "login"  => /\ j.pw \in Passwords /\ j.old \in BOOLEAN
                            /\ j.role \in Roles /\ j.who = j.id
    /\ j.kind = "change" => j.new \in Passwords

JobsOK == DOMAIN job = Threads /\ \A t \in Threads : job[t] # Idle => JobOK(job[t])

AckedOK == acked \in [Ids -> Passwords] /\ raced \subseteq Ids

\* A login that is about to renew a hash holds the password of the row, or the
\* row is marked as raced.
HeldIsCurrent ==
    \A t \in Threads : \A i \in DOMAIN users :
        Renews(t, i) /\ i \notin raced => job[t].pw = users[i].pw

AccountsInv ==
    /\ scope \in Scopes
    /\ RowsOK /\ NamesOnce /\ TokensOK /\ JobsOK /\ AckedOK
    /\ LastPasswordStands /\ HeldIsCurrent

-----------------------------------------------------------------------------
(* Rows of the users table.                                                *)

\* A scope only has passwords, roles and numbers of accounts there are.
LEMMA ScopeTyped ==
    ASSUME scope \in Scopes
    PROVE  /\ scope.passwords \subseteq Passwords /\ scope.roles \subseteq Roles
           /\ scope.releases \subseteq BOOLEAN /\ scope.born \in 0..MaxBorn /\ MaxBorn \in Nat
  BY AccountsOK

\* Types at the start (AccountsInit).
LEMMA AccountsInitially ==
    ASSUME AccountsInit
    PROVE  AccountsInv
<1>1. RowsOK /\ NamesOnce /\ TokensOK
  BY AccountsOK DEF AccountsInit, RowsOK, NamesOnce, TokensOK
<1>2. JobsOK
  BY DEF AccountsInit, JobsOK
<1>3. AckedOK
  BY AccountsOK DEF AccountsInit, AckedOK
<1>4. LastPasswordStands /\ HeldIsCurrent
  BY DEF AccountsInit, LastPasswordStands, HeldIsCurrent
<1>5. QED
  BY <1>1, <1>2, <1>3, <1>4 DEF AccountsInv, AccountsInit

\* INSERT INTO users: the new row gets an id nobody had, so that nothing that holds
\* an older id is about it.
LEMMA InsertStep ==
    ASSUME AccountsInv, NEW n \in Names, NEW p \in Passwords, NEW r \in Roles, Insert(n, p, r)
    PROVE  /\ RowsOK' /\ NamesOnce' /\ AckedOK' /\ LastPasswordStands'
           /\ born' = born + 1 /\ nextId \notin DOMAIN users /\ DOMAIN users' = DOMAIN users \cup {nextId}
           /\ \A i \in DOMAIN users : users'[i] = users[i]
           /\ raced' = raced \ {nextId}
<1> DEFINE row == [name |-> n, pw |-> p, old |-> FALSE, role |-> r, who |-> born + 1]
<1>1. /\ born \in 0..MaxBorn /\ born + 1 \in Ids /\ nextId = born + 1 /\ MaxBorn \in Nat
      /\ DOMAIN users \subseteq 1..(nextId - 1)
  BY ScopeTyped DEF AccountsInv, RowsOK, Insert, Ids
<1>2. /\ nextId \notin DOMAIN users /\ DOMAIN users' = DOMAIN users \cup {nextId}
      /\ \A i \in DOMAIN users : users'[i] = users[i]
      /\ users'[nextId] = row
      /\ nextId' = nextId + 1 /\ born' = born + 1 /\ raced' = raced \ {nextId}
  <2>1. nextId \notin DOMAIN users
    BY <1>1
  <2>2. QED
    BY <2>1 DEF Insert
<1>3. row \in [name : Names, pw : Passwords, old : BOOLEAN, role : Roles, who : Ids] /\ row.who = nextId
      /\ row.name = n /\ row.pw = p
  BY <1>1
<1> HIDE DEF row
<1>4. RowsOK'
  <2>1. DOMAIN users' \subseteq 1..(nextId' - 1) /\ nextId' = born' + 1 /\ born' \in 0..MaxBorn
    BY <1>1, <1>2 DEF Ids
  <2>2. ASSUME NEW i \in DOMAIN users'
        PROVE  /\ users'[i] \in [name : Names, pw : Passwords, old : BOOLEAN, role : Roles, who : Ids]
               /\ users'[i].who = i
    BY <1>2, <1>3 DEF AccountsInv, RowsOK
  <2>3. QED
    BY <2>1, <2>2 DEF RowsOK, Ids
<1>5. NamesOnce'
  <2>1. \A i \in DOMAIN users : users[i].name # n
    BY <1>1 DEF Insert, NameTaken
  <2>2. QED
    BY <1>2, <1>3, <2>1 DEF AccountsInv, NamesOnce, NameTaken
<1>6. acked' = [acked EXCEPT ![nextId] = p] /\ nextId \in Ids
  BY <1>1 DEF Insert
<1>7. AckedOK'
  BY <1>2, <1>6 DEF AckedOK, AccountsInv, Ids
<1>8. LastPasswordStands'
  BY <1>2, <1>3, <1>6 DEF AccountsInv, AckedOK, LastPasswordStands
<1>9. QED
  BY <1>2, <1>4, <1>5, <1>7, <1>8

\* The UPDATE of a password: the owner is told, and who still holds the old
\* one is marked.
LEMMA SetPasswordStep ==
    ASSUME AccountsInv, UNCHANGED <<nextId, born>>, NEW i \in DOMAIN users, NEW p \in Passwords,
           SetPassword(i, p)
    PROVE  /\ RowsOK' /\ NamesOnce' /\ AckedOK' /\ LastPasswordStands'
           /\ DOMAIN users' = DOMAIN users
           /\ \A k \in DOMAIN users : k # i => users'[k] = users[k]
           /\ \A k \in Ids : k # i /\ k \notin raced' => k \notin raced
           /\ i \notin raced' => ~\E t \in Threads : Renews(t, i)
<1> DEFINE row == [users[i] EXCEPT !.pw = p, !.old = FALSE]
<1>1. /\ DOMAIN users' = DOMAIN users /\ users'[i] = row
      /\ \A k \in DOMAIN users : k # i => users'[k] = users[k]
  BY DEF SetPassword
<1>2. users[i] \in [name : Names, pw : Passwords, old : BOOLEAN, role : Roles, who : Ids]
      /\ users[i].who = i /\ i \in Ids
  BY DEF AccountsInv, RowsOK, Ids
<1>3. /\ row \in [name : Names, pw : Passwords, old : BOOLEAN, role : Roles, who : Ids]
      /\ row.who = i /\ row.pw = p /\ row.name = users[i].name
  BY <1>2
<1> HIDE DEF row
<1>4. RowsOK'
  BY <1>1, <1>3 DEF AccountsInv, RowsOK, Ids
<1>5. NamesOnce'
  BY <1>1, <1>3 DEF AccountsInv, NamesOnce, NameTaken
<1>6. /\ acked' = [acked EXCEPT ![i] = p] /\ \A k \in Ids : k # i /\ k \notin raced' => k \notin raced
      /\ i \notin raced' => ~\E t \in Threads : Renews(t, i)
      /\ raced' \subseteq raced \cup {i}
  BY DEF SetPassword
<1>7. AckedOK'
  BY <1>2, <1>6 DEF AccountsInv, AckedOK, Ids
<1>8. LastPasswordStands'
  <2>1. SUFFICES ASSUME NEW k \in DOMAIN users, k \notin raced' PROVE users'[k].pw = acked'[k]
    BY <1>1 DEF LastPasswordStands
  <2>2. k \in Ids
    BY DEF AccountsInv, RowsOK, Ids
  <2>3. QED
    BY <1>1, <1>2, <1>3, <1>6, <2>1, <2>2 DEF AccountsInv, AckedOK, LastPasswordStands
<1>9. QED
  BY <1>1, <1>4, <1>5, <1>6, <1>7, <1>8

-----------------------------------------------------------------------------
(* One lemma per handler of /v1/auth: it keeps the invariant.              *)

\* auth_register.
LEMMA RegisterStep ==
    ASSUME AccountsInv, UNCHANGED scope, Register
    PROVE  AccountsInv'
<1>1. PICK n \in Names, p \in scope.passwords, r \in scope.roles : Insert(n, p, r)
  BY DEF Register
<1>2. p \in Passwords /\ r \in Roles
  BY ScopeTyped DEF AccountsInv
<1>3. /\ RowsOK' /\ NamesOnce' /\ AckedOK' /\ LastPasswordStands'
      /\ born' = born + 1 /\ nextId \notin DOMAIN users /\ DOMAIN users' = DOMAIN users \cup {nextId}
      /\ \A i \in DOMAIN users : users'[i] = users[i]
      /\ raced' = raced \ {nextId}
  BY <1>1, <1>2, InsertStep
<1>4. tokens' = tokens /\ job' = job /\ scope' = scope
  BY DEF Register
<1>5. born \in Nat /\ nextId = born + 1
  BY ScopeTyped DEF AccountsInv, RowsOK
<1>6. TokensOK'
  BY <1>3, <1>4, <1>5 DEF AccountsInv, TokensOK
<1>7. JobsOK'
  BY <1>3, <1>4, <1>5 DEF AccountsInv, JobsOK, JobOK
<1>8. HeldIsCurrent'
  <2>1. SUFFICES ASSUME NEW t \in Threads, NEW i \in DOMAIN users', Renews(t, i)', i \notin raced'
                 PROVE  job'[t].pw = users'[i].pw
    BY DEF HeldIsCurrent
  <2>2. Renews(t, i) /\ i # nextId
    BY <1>4, <1>5, <2>1 DEF Renews, AccountsInv, JobsOK, JobOK
  <2>3. QED
    BY <1>3, <1>4, <2>1, <2>2 DEF AccountsInv, HeldIsCurrent
<1>9. QED
  BY <1>3, <1>4, <1>6, <1>7, <1>8 DEF AccountsInv

\* auth_update_user: the password and the person stay.
LEMMA UpdateUserStep ==
    ASSUME AccountsInv, UNCHANGED scope, UpdateUser
    PROVE  AccountsInv'
<1>1. PICK i \in DOMAIN users, n \in Names, r \in scope.roles :
          /\ ~NameTaken(n, i)
          /\ users' = [users EXCEPT ![i].name = n, ![i].role = r]
  BY DEF UpdateUser
<1>2. UNCHANGED <<nextId, tokens, job, born, acked, raced, scope>> /\ r \in Roles
  BY ScopeTyped DEF UpdateUser, AccountsInv
<1> DEFINE row == [users[i] EXCEPT !.name = n, !.role = r]
<1>3. /\ DOMAIN users' = DOMAIN users /\ users'[i] = row
      /\ \A k \in DOMAIN users : k # i => users'[k] = users[k]
  BY <1>1
<1>4. users[i] \in [name : Names, pw : Passwords, old : BOOLEAN, role : Roles, who : Ids] /\ users[i].who = i
  BY DEF AccountsInv, RowsOK
<1>5. /\ row \in [name : Names, pw : Passwords, old : BOOLEAN, role : Roles, who : Ids]
      /\ row.who = i /\ row.pw = users[i].pw /\ row.name = n
  BY <1>2, <1>4
<1> HIDE DEF row
<1>6. RowsOK'
  BY <1>2, <1>3, <1>5 DEF AccountsInv, RowsOK, Ids
<1>7. NamesOnce'
  BY <1>1, <1>3, <1>5 DEF AccountsInv, NamesOnce, NameTaken
<1>8. TokensOK' /\ AckedOK'
  BY <1>2 DEF AccountsInv, TokensOK, AckedOK
<1>9. JobsOK'
  BY <1>2 DEF AccountsInv, JobsOK, JobOK
<1>10. LastPasswordStands'
  BY <1>2, <1>3, <1>5 DEF AccountsInv, LastPasswordStands
<1>11. HeldIsCurrent'
  BY <1>2, <1>3, <1>5 DEF AccountsInv, HeldIsCurrent, Renews
<1>12. QED
  BY <1>2, <1>6, <1>7, <1>8, <1>9, <1>10, <1>11 DEF AccountsInv

\* auth_delete_user: the id goes and does not come back.
LEMMA DeleteUserStep ==
    ASSUME AccountsInv, UNCHANGED scope, DeleteUser
    PROVE  AccountsInv'
<1>1. PICK i \in DOMAIN users :
          /\ users' = [j \in DOMAIN users \ {i} |-> users[j]]
          /\ acked' = [acked EXCEPT ![i] = SeedPassword] /\ raced' = raced \ {i}
  BY DEF DeleteUser
<1>2. UNCHANGED <<nextId, tokens, job, born, scope>>
  BY DEF DeleteUser
<1>3. DOMAIN users' = DOMAIN users \ {i} /\ \A k \in DOMAIN users' : users'[k] = users[k]
  BY <1>1
<1>4. RowsOK'
  BY <1>2, <1>3 DEF AccountsInv, RowsOK, Ids
<1>5. NamesOnce'
  BY <1>3 DEF AccountsInv, NamesOnce, NameTaken
<1>6. TokensOK'
  BY <1>2 DEF AccountsInv, TokensOK
<1>7. JobsOK'
  BY <1>2 DEF AccountsInv, JobsOK, JobOK
<1>8. AckedOK'
  BY <1>1, AccountsOK DEF AccountsInv, AckedOK, Ids
<1>9. \A k \in DOMAIN users' : k \in Ids /\ k # i
  BY <1>3 DEF AccountsInv, RowsOK, Ids
<1>10. LastPasswordStands'
  BY <1>1, <1>3, <1>9 DEF AccountsInv, AckedOK, LastPasswordStands
<1>11. HeldIsCurrent'
  BY <1>1, <1>2, <1>3 DEF AccountsInv, HeldIsCurrent, Renews
<1>12. QED
  BY <1>2, <1>4, <1>5, <1>6, <1>7, <1>8, <1>10, <1>11 DEF AccountsInv

\* A request that ends, or gives up, without touching the tables.
LEMMA JobDropped ==
    ASSUME AccountsInv, NEW t \in Threads, job' = [job EXCEPT ![t] = Idle],
           UNCHANGED <<users, nextId, born, acked, raced, scope>>, TokensOK'
    PROVE  AccountsInv'
<1>1. RowsOK' /\ NamesOnce' /\ AckedOK' /\ LastPasswordStands'
  BY DEF AccountsInv, RowsOK, NamesOnce, NameTaken, AckedOK, LastPasswordStands, Ids
<1>2. DOMAIN job' = Threads /\ \A u \in Threads : job'[u] = Idle \/ job'[u] = job[u]
  BY DEF AccountsInv, JobsOK
<1>3. JobsOK'
  BY <1>2 DEF AccountsInv, JobsOK, JobOK
<1>4. HeldIsCurrent'
  BY <1>2 DEF AccountsInv, HeldIsCurrent, Renews
<1>5. QED
  BY <1>1, <1>3, <1>4 DEF AccountsInv

\* authenticate_user up to the verified password: what the login holds is what
\* the row has.
LEMMA LoginStep ==
    ASSUME AccountsInv, UNCHANGED scope, NEW t \in Threads, Login(t)
    PROVE  AccountsInv'
<1>1. PICK i \in DOMAIN users :
          job' = [job EXCEPT ![t] = [kind |-> "login", id |-> i, pw |-> users[i].pw, old |-> users[i].old,
                                     role |-> users[i].role, who |-> users[i].who]]
  BY DEF Login
<1>2. UNCHANGED <<users, nextId, tokens, born, acked, raced, scope>>
  BY DEF Login
<1> DEFINE j == [kind |-> "login", id |-> i, pw |-> users[i].pw, old |-> users[i].old,
                 role |-> users[i].role, who |-> users[i].who]
<1>3. DOMAIN job' = Threads /\ job'[t] = j /\ \A u \in Threads : u # t => job'[u] = job[u]
  BY <1>1 DEF AccountsInv, JobsOK
<1>4. users[i] \in [name : Names, pw : Passwords, old : BOOLEAN, role : Roles, who : Ids]
      /\ users[i].who = i /\ i \in 1..born
  BY ScopeTyped DEF AccountsInv, RowsOK
<1>5. JobOK(j) /\ j.id = i /\ j.pw = users[i].pw
  BY <1>4 DEF JobOK
<1> HIDE DEF j
<1>6. RowsOK' /\ NamesOnce' /\ AckedOK' /\ LastPasswordStands'
  BY <1>2 DEF AccountsInv, RowsOK, NamesOnce, NameTaken, AckedOK, LastPasswordStands, Ids
<1>7. TokensOK'
  BY <1>2 DEF AccountsInv, TokensOK
<1>8. JobsOK'
  BY <1>2, <1>3, <1>5 DEF AccountsInv, JobsOK, JobOK
<1>9. HeldIsCurrent'
  BY <1>2, <1>3, <1>5 DEF AccountsInv, HeldIsCurrent, Renews
<1>10. QED
  BY <1>2, <1>6, <1>7, <1>8, <1>9 DEF AccountsInv

\* The rest of a login: a renewed hash verifies the password that was held, which
\* is the row's unless the row is marked.
LEMMA LoginEndStep ==
    ASSUME AccountsInv, UNCHANGED scope, NEW t \in Threads, LoginEnd(t)
    PROVE  AccountsInv'
<1> DEFINE j   == job[t]
           row == [users[j.id] EXCEPT !.pw = j.pw, !.old = FALSE]
<1>1. /\ j # Idle /\ j.kind = "login" /\ job' = [job EXCEPT ![t] = Idle]
      /\ UNCHANGED <<nextId, born, acked, raced, scope>>
      /\ tokens' = tokens \cup {[id |-> j.id, role |-> j.role, who |-> j.who]}
  BY DEF LoginEnd
<1>2. /\ j.id \in 1..born /\ j.pw \in Passwords /\ j.old \in BOOLEAN /\ j.role \in Roles /\ j.who = j.id
  BY <1>1 DEF AccountsInv, JobsOK, JobOK
<1>3. TokensOK'
  BY <1>1, <1>2 DEF AccountsInv, TokensOK
<1>4. CASE users' = users
  BY <1>1, <1>3, <1>4, JobDropped
<1>5. CASE j.old /\ j.id \in DOMAIN users /\ users' = [users EXCEPT ![j.id].pw = j.pw, ![j.id].old = FALSE]
  <2>1. /\ DOMAIN users' = DOMAIN users /\ users'[j.id] = row
        /\ \A k \in DOMAIN users : k # j.id => users'[k] = users[k]
    BY <1>5
  <2>2. users[j.id] \in [name : Names, pw : Passwords, old : BOOLEAN, role : Roles, who : Ids]
        /\ users[j.id].who = j.id
    BY <1>5 DEF AccountsInv, RowsOK
  <2>3. /\ row \in [name : Names, pw : Passwords, old : BOOLEAN, role : Roles, who : Ids]
        /\ row.who = j.id /\ row.name = users[j.id].name /\ row.pw = j.pw
    BY <1>2, <2>2
  <2>4. j.id \notin raced => j.pw = users[j.id].pw
    BY <1>1, <1>5 DEF AccountsInv, HeldIsCurrent, Renews
  <2>5. DOMAIN job' = Threads /\ \A u \in Threads : job'[u] = Idle \/ job'[u] = job[u]
    BY <1>1 DEF AccountsInv, JobsOK
  <2> HIDE DEF j, row
  <2>6. RowsOK'
    BY <1>1, <2>1, <2>3 DEF AccountsInv, RowsOK, Ids
  <2>7. NamesOnce'
    BY <2>1, <2>3 DEF AccountsInv, NamesOnce, NameTaken
  <2>8. JobsOK'
    BY <1>1, <2>5 DEF AccountsInv, JobsOK, JobOK
  <2>9. AckedOK'
    BY <1>1 DEF AccountsInv, AckedOK, Ids
  <2>10. LastPasswordStands'
    BY <1>1, <2>1, <2>3, <2>4 DEF AccountsInv, LastPasswordStands
  <2>11. HeldIsCurrent'
    BY <1>1, <2>1, <2>3, <2>4, <2>5 DEF AccountsInv, HeldIsCurrent, Renews
  <2>12. QED
    BY <1>1, <1>3, <2>6, <2>7, <2>8, <2>9, <2>10, <2>11 DEF AccountsInv
<1>6. QED
  BY <1>4, <1>5 DEF LoginEnd

\* change_password up to the new hash.
LEMMA ChangePasswordStep ==
    ASSUME AccountsInv, UNCHANGED scope, NEW t \in Threads, ChangePassword(t)
    PROVE  AccountsInv'
<1>1. PICK tk \in tokens, new \in scope.passwords :
          job' = [job EXCEPT ![t] = [kind |-> "change", id |-> tk.id, new |-> new]]
  BY DEF ChangePassword
<1>2. UNCHANGED <<users, nextId, tokens, born, acked, raced, scope>>
  BY DEF ChangePassword
<1> DEFINE j == [kind |-> "change", id |-> tk.id, new |-> new]
<1>3. DOMAIN job' = Threads /\ job'[t] = j /\ \A u \in Threads : u # t => job'[u] = job[u]
  BY <1>1 DEF AccountsInv, JobsOK
<1>4. tk.id \in 1..born /\ new \in Passwords
  BY ScopeTyped DEF AccountsInv, TokensOK
<1>5. JobOK(j) /\ j.kind # "login"
  BY <1>4 DEF JobOK
<1> HIDE DEF j
<1>6. RowsOK' /\ NamesOnce' /\ AckedOK' /\ LastPasswordStands'
  BY <1>2 DEF AccountsInv, RowsOK, NamesOnce, NameTaken, AckedOK, LastPasswordStands, Ids
<1>7. TokensOK'
  BY <1>2 DEF AccountsInv, TokensOK
<1>8. JobsOK'
  BY <1>2, <1>3, <1>5 DEF AccountsInv, JobsOK, JobOK
<1>9. HeldIsCurrent'
  BY <1>2, <1>3, <1>5 DEF AccountsInv, HeldIsCurrent, Renews
<1>10. QED
  BY <1>2, <1>6, <1>7, <1>8, <1>9 DEF AccountsInv

\* A password is written while the jobs are as they were, or one of them ends.
LEMMA PasswordWritten ==
    ASSUME AccountsInv, UNCHANGED <<nextId, born, tokens, scope>>,
           NEW i \in DOMAIN users, NEW p \in Passwords, SetPassword(i, p),
           DOMAIN job' = Threads, \A u \in Threads : job'[u] = Idle \/ job'[u] = job[u]
    PROVE  AccountsInv'
<1>1. /\ RowsOK' /\ NamesOnce' /\ AckedOK' /\ LastPasswordStands'
      /\ DOMAIN users' = DOMAIN users
      /\ \A k \in DOMAIN users : k # i => users'[k] = users[k]
      /\ \A k \in Ids : k # i /\ k \notin raced' => k \notin raced
      /\ i \notin raced' => ~\E t \in Threads : Renews(t, i)
  BY SetPasswordStep
<1>2. TokensOK'
  BY DEF AccountsInv, TokensOK
<1>3. JobsOK'
  BY DEF AccountsInv, JobsOK, JobOK
<1>4. HeldIsCurrent'
  <2>1. SUFFICES ASSUME NEW t \in Threads, NEW k \in DOMAIN users, Renews(t, k)', k \notin raced'
                 PROVE  job'[t].pw = users'[k].pw
    BY <1>1 DEF HeldIsCurrent
  <2>2. Renews(t, k) /\ job'[t] = job[t]
    BY <2>1 DEF Renews
  <2>3. k # i /\ k \in Ids
    BY <1>1, <2>1, <2>2 DEF AccountsInv, RowsOK, Ids
  <2>4. QED
    BY <1>1, <2>1, <2>2, <2>3 DEF AccountsInv, HeldIsCurrent
<1>5. QED
  BY <1>1, <1>2, <1>3, <1>4 DEF AccountsInv

\* The UPDATE of change_password.
LEMMA ChangeEndStep ==
    ASSUME AccountsInv, UNCHANGED scope, NEW t \in Threads, ChangeEnd(t)
    PROVE  AccountsInv'
<1>1. /\ job[t] # Idle /\ job[t].kind = "change" /\ job' = [job EXCEPT ![t] = Idle]
      /\ UNCHANGED <<nextId, tokens, born, scope>>
  BY DEF ChangeEnd
<1>2. job[t].new \in Passwords
  BY <1>1 DEF AccountsInv, JobsOK, JobOK
<1>3. DOMAIN job' = Threads /\ \A u \in Threads : job'[u] = Idle \/ job'[u] = job[u]
  BY <1>1 DEF AccountsInv, JobsOK
<1>4. CASE job[t].id \in DOMAIN users /\ SetPassword(job[t].id, job[t].new)
  BY <1>1, <1>2, <1>3, <1>4, PasswordWritten
<1>5. CASE UNCHANGED <<users, acked, raced>>
  <2>1. TokensOK'
    BY <1>1 DEF AccountsInv, TokensOK
  <2>2. QED
    BY <1>1, <1>5, <2>1, JobDropped
<1>6. QED
  BY <1>4, <1>5 DEF ChangeEnd

\* reset_password.py.
LEMMA ResetPasswordStep ==
    ASSUME AccountsInv, UNCHANGED scope, ResetPassword
    PROVE  AccountsInv'
<1>1. PICK i \in DOMAIN users, p \in scope.passwords : SetPassword(i, p)
  BY DEF ResetPassword
<1>2. UNCHANGED <<nextId, tokens, job, born, scope>> /\ p \in Passwords
  BY ScopeTyped DEF ResetPassword, AccountsInv
<1>3. DOMAIN job' = Threads /\ \A u \in Threads : job'[u] = Idle \/ job'[u] = job[u]
  BY <1>2 DEF AccountsInv, JobsOK
<1>4. QED
  BY <1>1, <1>2, <1>3, PasswordWritten

\* A write that fails, and a token that expires.
LEMMA AbortExpireStep ==
    ASSUME AccountsInv, UNCHANGED scope, Expire \/ \E t \in Threads : Abort(t)
    PROVE  AccountsInv'
<1>1. CASE \E t \in Threads : Abort(t)
  <2>1. TokensOK'
    BY <1>1 DEF Abort, AccountsInv, TokensOK
  <2>2. QED
    BY <1>1, <2>1, JobDropped DEF Abort
<1>2. CASE Expire
  <2>1. RowsOK' /\ NamesOnce' /\ AckedOK' /\ LastPasswordStands' /\ JobsOK' /\ HeldIsCurrent'
    BY <1>2 DEF Expire, AccountsInv, RowsOK, NamesOnce, NameTaken, AckedOK, LastPasswordStands, Ids,
                JobsOK, JobOK, HeldIsCurrent, Renews
  <2>2. TokensOK'
    BY <1>2 DEF Expire, AccountsInv, TokensOK
  <2>3. QED
    BY <2>1, <2>2 DEF AccountsInv
<1>3. QED
  BY <1>1, <1>2

\* lifespan: what requests held is gone, and the rows are there or one is made.
LEMMA RestartStep ==
    ASSUME AccountsInv, UNCHANGED scope, Restart
    PROVE  AccountsInv'
<1>1. job' = [t \in Threads |-> Idle] /\ tokens' = tokens /\ scope' = scope
  BY DEF Restart
<1>2. JobsOK' /\ HeldIsCurrent'
  BY <1>1 DEF JobsOK, HeldIsCurrent, Renews
<1>3. CASE Insert(SeedName, SeedPassword, "admin")
  <2>1. RowsOK' /\ NamesOnce' /\ AckedOK' /\ LastPasswordStands' /\ born' = born + 1
    BY <1>3, AccountsOK, InsertStep
  <2>2. TokensOK'
    BY <1>1, <2>1, ScopeTyped DEF AccountsInv, TokensOK, RowsOK
  <2>3. QED
    BY <1>1, <1>2, <2>1, <2>2 DEF AccountsInv
<1>4. ASSUME NEW release \in scope.releases,
             users' = [i \in DOMAIN users |-> [users[i] EXCEPT !.old = @ \/ release]],
             UNCHANGED <<nextId, born, acked, raced>>
      PROVE  AccountsInv'
  <2>1. release \in BOOLEAN
    BY ScopeTyped DEF AccountsInv
  <2>2. /\ DOMAIN users' = DOMAIN users
        /\ \A i \in DOMAIN users : users'[i] = [users[i] EXCEPT !.old = users[i].old \/ release]
    BY <1>4
  <2>3. ASSUME NEW i \in DOMAIN users
        PROVE  /\ users'[i] \in [name : Names, pw : Passwords, old : BOOLEAN, role : Roles, who : Ids]
               /\ users'[i].who = i /\ users'[i].pw = users[i].pw /\ users'[i].name = users[i].name
    <3>1. users[i] \in [name : Names, pw : Passwords, old : BOOLEAN, role : Roles, who : Ids] /\ users[i].who = i
      BY DEF AccountsInv, RowsOK
    <3>2. QED
      BY <2>2, <3>1
  <2>4. RowsOK'
    BY <1>4, <2>2, <2>3 DEF AccountsInv, RowsOK, Ids
  <2>5. NamesOnce'
    BY <2>2, <2>3 DEF AccountsInv, NamesOnce, NameTaken
  <2>6. TokensOK' /\ AckedOK'
    BY <1>1, <1>4 DEF AccountsInv, TokensOK, AckedOK, Ids
  <2>7. LastPasswordStands'
    BY <1>4, <2>2, <2>3 DEF AccountsInv, LastPasswordStands
  <2>8. QED
    BY <1>1, <1>2, <2>4, <2>5, <2>6, <2>7 DEF AccountsInv
<1>5. QED
  BY <1>3, <1>4 DEF Restart

\* Every transaction of the auth database keeps the invariant.
LEMMA AccountsStep ==
    ASSUME AccountsInv, UNCHANGED scope, AccountsNext
    PROVE  AccountsInv'
  BY RegisterStep, UpdateUserStep, DeleteUserStep, ResetPasswordStep, AbortExpireStep, RestartStep,
     LoginStep, LoginEndStep, ChangePasswordStep, ChangeEndStep DEF AccountsNext

\* Accounts are only added to, and no handler of /v1/auth starts an add_items.
LEMMA AccountsJobs ==
    ASSUME AccountsInv, UNCHANGED scope, AccountsNext
    PROVE  /\ born \in Nat /\ born' \in Nat /\ born <= born'
           /\ \A t \in Threads : job'[t] = Idle \/ job'[t] = job[t] \/ job'[t].kind # "add"
<1>1. DOMAIN job = Threads /\ born \in Nat
  BY ScopeTyped DEF AccountsInv, JobsOK, RowsOK
<1>2. born' = born \/ born' = born + 1
  BY DEF AccountsNext, Register, UpdateUser, DeleteUser, ResetPassword, Expire, Restart, Login, LoginEnd,
         ChangePassword, ChangeEnd, Abort, Insert
<1>3. ASSUME NEW t \in Threads
      PROVE  job'[t] = Idle \/ job'[t] = job[t] \/ job'[t].kind # "add"
  <2>1. CASE Register \/ UpdateUser \/ DeleteUser \/ ResetPassword \/ Expire \/ Restart
    BY <2>1 DEF Register, UpdateUser, DeleteUser, ResetPassword, Expire, Restart
  <2>2. CASE \E u \in Threads : LoginEnd(u) \/ ChangeEnd(u) \/ Abort(u)
    BY <1>1, <2>2 DEF LoginEnd, ChangeEnd, Abort
  <2>3. ASSUME NEW u \in Threads, Login(u)
        PROVE  job'[t] = Idle \/ job'[t] = job[t] \/ job'[t].kind # "add"
    BY <1>1, <2>3 DEF Login
  <2>4. ASSUME NEW u \in Threads, ChangePassword(u)
        PROVE  job'[t] = Idle \/ job'[t] = job[t] \/ job'[t].kind # "add"
    BY <1>1, <2>4 DEF ChangePassword
  <2>5. QED
    BY <2>1, <2>2, <2>3, <2>4 DEF AccountsNext
<1>4. QED
  BY <1>1, <1>2, <1>3

-----------------------------------------------------------------------------
(* The collections.                                                        *)

\* A collection is its maker's, and only the maker has got at it.
ColsOK ==
    /\ nextCol \in Nat \ {0} /\ DOMAIN collections \subseteq 1..(nextCol - 1)
    /\ \A c \in DOMAIN collections :
          /\ collections[c] \in [owner : 1..born, by : 1..born, reached : SUBSET (1..born)]
          /\ collections[c].owner = collections[c].by
          /\ collections[c].reached \subseteq {collections[c].by}

ItemsOK ==
    /\ nextItem \in Nat \ {0} /\ DOMAIN items \subseteq 1..(nextItem - 1)
    /\ \A x \in DOMAIN items : items[x] \in [cid : DOMAIN collections, doc : DocIds, pos : Nat]

DocsOnce ==
    \A x, y \in DOMAIN items : items[x].cid = items[y].cid /\ items[x].doc = items[y].doc => x = y

\* An add_items under way; unless positions have changed since, its first position
\* is beyond all there are.
Adding(t) == job[t] # Idle /\ job[t].kind = "add"

AddsOK ==
    \A t \in Threads : Adding(t) =>
        /\ job[t] \in [kind : {"add"}, id : 1..born, cid : 1..(nextCol - 1), docs : SeqOf(DocIds, 2),
                       pos : Nat, stale : BOOLEAN]
        /\ ~job[t].stale => \A x \in ItemsOf(job[t].cid) : items[x].pos < job[t].pos

ShelvesInv ==
    /\ ColsOK /\ ItemsOK /\ DocsOnce /\ AddsOK
    /\ mixed \subseteq DOMAIN collections
    /\ PositionsDistinct

Inv == AccountsInv /\ ShelvesInv

\* A finite set has an element at which a function to the numbers is largest.
LEMMA LargestExists ==
    ASSUME NEW S, IsFiniteSet(S), S # {}, NEW f, \A x \in S : f[x] \in Nat
    PROVE  \E x \in S : \A y \in S : f[y] <= f[x]
<1> DEFINE Has1(T) == \E x \in T : \A y \in T : f[y] <= f[x]
           Bad     == {T \in SUBSET S : T # {} /\ ~Has1(T)}
<1>1. SUFFICES ASSUME Bad # {} PROVE FALSE
  <2>1. S \in SUBSET S
    OBVIOUS
  <2>2. QED
    BY <2>1
<1>2. Bad \subseteq FiniteSubsetsOf(S)
  BY FS_Subset DEF FiniteSubsetsOf
<1>3. IsWellFoundedOn(StrictSubsetOrdering(S), FiniteSubsetsOf(S))
  BY FS_StrictSubsetOrderingWellFounded
<1>4. PICK T \in Bad : \A U \in Bad : ~(<<U, T>> \in StrictSubsetOrdering(S))
  <2> HIDE DEF Bad
  <2> QED
    BY <1>1, <1>2, <1>3, WFMin
<1>5. PICK x \in T : TRUE
  OBVIOUS
<1>6. T \ {x} \notin Bad
  BY <1>4, <1>5 DEF StrictSubsetOrdering
<1>7. CASE T \ {x} = {}
  BY <1>5, <1>7
<1>8. CASE T \ {x} # {}
  <2>1. PICK m \in T \ {x} : \A y \in T \ {x} : f[y] <= f[m]
    BY <1>6, <1>8
  <2>2. f[m] \in Nat /\ f[x] \in Nat
    BY <2>1, <1>5
  <2>3. CASE f[m] <= f[x]
    <3>1. \A y \in T : f[y] <= f[x]
      BY <2>1, <2>2, <2>3
    <3>2. QED
      BY <3>1, <1>5
  <2>4. CASE f[x] < f[m]
    <3>1. \A y \in T : f[y] <= f[m]
      BY <2>1, <2>2, <2>4
    <3>2. QED
      BY <3>1, <2>1
  <2>5. QED
    BY <2>2, <2>3, <2>4
<1>9. QED
  BY <1>7, <1>8

\* SELECT MAX(position): the next position is beyond all there are.
LEMMA NextPosAbove ==
    ASSUME ItemsOK, NEW c
    PROVE  NextPos(c) \in Nat /\ \A x \in ItemsOf(c) : items[x].pos < NextPos(c)
<1>1. CASE ItemsOf(c) = {}
  BY <1>1 DEF NextPos
<1>2. CASE ItemsOf(c) # {}
  <2> DEFINE f == [x \in DOMAIN items |-> items[x].pos]
             P(p) == \A x \in ItemsOf(c) : items[x].pos <= p
             S == {items[x].pos : x \in ItemsOf(c)}
  <2>1. ItemsOf(c) \subseteq DOMAIN items /\ \A x \in ItemsOf(c) : f[x] = items[x].pos /\ f[x] \in Nat
    BY DEF ItemsOf, ItemsOK
  <2>2. IsFiniteSet(ItemsOf(c))
    <3>1. nextItem - 1 \in Int /\ ItemsOf(c) \in SUBSET (1..(nextItem - 1))
      BY DEF ItemsOf, ItemsOK
    <3>2. IsFiniteSet(1..(nextItem - 1))
      BY <3>1, FS_Interval
    <3>3. QED
      BY <3>1, <3>2, FS_Subset
  <2>3. \E x \in ItemsOf(c) : \A y \in ItemsOf(c) : f[y] <= f[x]
    <3> HIDE DEF f
    <3> QED
      BY <1>2, <2>1, <2>2, LargestExists
  <2>4. \E p \in S : P(p)
    BY <2>1, <2>3
  <2>5. (CHOOSE p \in S : P(p)) \in S /\ P(CHOOSE p \in S : P(p))
    <3> HIDE DEF S, P
    <3> QED
      BY <2>4
  <2>6. NextPos(c) = 1 + (CHOOSE p \in S : P(p))
    BY <1>2 DEF NextPos
  <2> DEFINE m == CHOOSE p \in S : P(p)
  <2>7. m \in Nat /\ \A x \in ItemsOf(c) : items[x].pos \in Nat /\ items[x].pos <= m
    BY <2>1, <2>5
  <2> HIDE DEF S, P, m, f
  <2>8. NextPos(c) = 1 + m
    BY <2>6 DEF m
  <2>9. QED
    BY <2>7, <2>8
<1>3. QED
  BY <1>1, <1>2

\* The places of a list: each has its own number, from 0 on, in order.
LEMMA BeforeOrders ==
    ASSUME NEW F, F \subseteq Nat, IsFiniteSet(F)
    PROVE  /\ Cardinality(F) \in Nat
           /\ \A k \in F : Before(F, k) \in Nat /\ Before(F, k) < Cardinality(F)
           /\ \A h, k \in F : h < k => Before(F, h) < Before(F, k)
           /\ \A h, k \in F : Before(F, h) = Before(F, k) => h = k
<1> DEFINE B(k) == {h \in F : h < k}
<1>1. Cardinality(F) \in Nat
  BY FS_CardinalityType
<1>2. ASSUME NEW k \in F
      PROVE  IsFiniteSet(B(k)) /\ Cardinality(B(k)) \in Nat
  <2>1. B(k) \in SUBSET F
    OBVIOUS
  <2>2. IsFiniteSet(B(k))
    BY <2>1, FS_Subset
  <2>3. QED
    BY <2>2, FS_CardinalityType
<1>3. ASSUME NEW k \in F, NEW T \in SUBSET F, B(k) \subseteq T, k \in T
      PROVE  Cardinality(B(k)) < Cardinality(T)
  <2>1. IsFiniteSet(T)
    BY FS_Subset
  <2>2. B(k) \in SUBSET T /\ B(k) # T /\ Cardinality(T) \in Nat
    BY <1>3, <2>1, FS_CardinalityType
  <2>3. Cardinality(B(k)) <= Cardinality(T) /\ Cardinality(T) # Cardinality(B(k))
    BY <2>1, <2>2, FS_Subset
  <2>4. QED
    BY <1>2, <2>2, <2>3
<1>4. \A k \in F : Before(F, k) = Cardinality(B(k))
  BY DEF Before
<1>5. \A k \in F : Before(F, k) \in Nat /\ Before(F, k) < Cardinality(F)
  <2>1. SUFFICES ASSUME NEW k \in F
                 PROVE  Before(F, k) \in Nat /\ Before(F, k) < Cardinality(F)
    OBVIOUS
  <2>2. F \in SUBSET F /\ B(k) \subseteq F
    OBVIOUS
  <2>3. Cardinality(B(k)) < Cardinality(F)
    BY <1>3, <2>2
  <2>4. QED
    BY <1>2, <1>4, <2>3
<1>6. \A h, k \in F : h < k => Before(F, h) < Before(F, k)
  <2>1. SUFFICES ASSUME NEW h \in F, NEW k \in F, h < k PROVE Before(F, h) < Before(F, k)
    OBVIOUS
  <2>2. B(k) \in SUBSET F /\ B(h) \subseteq B(k) /\ h \in B(k)
    <3>1. h \in Nat /\ k \in Nat
      OBVIOUS
    <3>2. \A g \in F : g < h => g < k
      BY <2>1, <3>1
    <3>3. QED
      BY <2>1, <3>2
  <2>3. Cardinality(B(h)) < Cardinality(B(k))
    BY <1>3, <2>2
  <2>4. QED
    BY <1>4, <2>3
<1>7. \A h, k \in F : Before(F, h) = Before(F, k) => h = k
  <2>1. SUFFICES ASSUME NEW h \in F, NEW k \in F, Before(F, h) = Before(F, k), h # k PROVE FALSE
    OBVIOUS
  <2>2. h < k \/ k < h
    BY <2>1
  <2>3. QED
    BY <1>5, <1>6, <2>1, <2>2
<1>8. QED
  BY <1>1, <1>5, <1>6, <1>7

-----------------------------------------------------------------------------
(* One lemma per handler of the collections.                               *)

\* A handler of the collections leaves the accounts alone; of the requests it
\* only touches those that add items.
LEMMA AccountsUntouched ==
    ASSUME AccountsInv, UNCHANGED <<users, nextId, tokens, born, acked, raced, scope>>,
           DOMAIN job' = Threads,
           \A u \in Threads : job'[u] = Idle \/ job'[u] = job[u]
                              \/ (job'[u].kind = "add" /\ job'[u].id \in 1..born)
    PROVE  AccountsInv'
<1>1. RowsOK' /\ NamesOnce' /\ AckedOK' /\ LastPasswordStands' /\ TokensOK'
  BY DEF AccountsInv, RowsOK, NamesOnce, NameTaken, AckedOK, LastPasswordStands, TokensOK, Ids
<1>2. JobsOK'
  <2>1. SUFFICES ASSUME NEW u \in Threads, job'[u] # Idle PROVE JobOK(job[u])'
    BY DEF JobsOK
  <2>2. CASE job'[u] = job[u]
    BY <2>1, <2>2 DEF AccountsInv, JobsOK, JobOK
  <2>3. CASE job'[u].kind = "add" /\ job'[u].id \in 1..born
    BY <2>3 DEF JobOK
  <2>4. QED
    BY <2>1, <2>2, <2>3
<1>3. HeldIsCurrent'
  BY DEF AccountsInv, HeldIsCurrent, Renews
<1>4. QED
  BY <1>1, <1>2, <1>3 DEF AccountsInv

\* A handler of /v1/auth leaves the collections alone; new people take nothing
\* from anybody.
LEMMA ShelvesUntouched ==
    ASSUME Inv, UNCHANGED shelves, born \in Nat, born' \in Nat, born <= born',
           \A t \in Threads : job'[t] = Idle \/ job'[t] = job[t] \/ job'[t].kind # "add"
    PROVE  ShelvesInv'
<1>1. ColsOK'
  <2>1. 1..born \subseteq 1..born'
    OBVIOUS
  <2>2. QED
    BY <2>1 DEF Inv, ShelvesInv, ColsOK, shelves
<1>2. ItemsOK' /\ DocsOnce' /\ PositionsDistinct' /\ mixed' \subseteq DOMAIN collections'
  BY DEF Inv, ShelvesInv, ItemsOK, DocsOnce, PositionsDistinct, ItemsOf, shelves
<1>3. AddsOK'
  <2>1. SUFFICES ASSUME NEW t \in Threads, Adding(t)'
                 PROVE  (/\ job[t] \in [kind : {"add"}, id : 1..born, cid : 1..(nextCol - 1),
                                        docs : SeqOf(DocIds, 2), pos : Nat, stale : BOOLEAN]
                         /\ ~job[t].stale => \A x \in ItemsOf(job[t].cid) : items[x].pos < job[t].pos)'
    BY DEF AddsOK
  <2>2. job'[t] = job[t] /\ Adding(t)
    BY <2>1 DEF Adding
  <2>3. 1..born \subseteq 1..born'
    OBVIOUS
  <2>4. QED
    BY <2>2, <2>3 DEF Inv, ShelvesInv, AddsOK, shelves, ItemsOf
<1>4. QED
  BY <1>1, <1>2, <1>3 DEF ShelvesInv

\* Whoever holds a token for a collection is its maker (the id in the token is the
\* id of the owner), so that reaching it adds nobody else.
LEMMA ReachKeeps ==
    ASSUME Inv, NEW tk \in tokens, NEW c, Owned(tk, c), Reach(tk, c, collections),
           UNCHANGED <<nextCol, born>>
    PROVE  ColsOK' /\ DOMAIN collections' = DOMAIN collections /\ c \in DOMAIN collections
<1> DEFINE row == [collections[c] EXCEPT !.reached = @ \cup {tk.who}]
<1>1. /\ c \in DOMAIN collections /\ collections[c].owner = tk.id
      /\ DOMAIN collections' = DOMAIN collections /\ collections'[c] = row
      /\ \A d \in DOMAIN collections : d # c => collections'[d] = collections[d]
  BY DEF Owned, Reach
<1>2. tk.who = tk.id /\ tk.who \in 1..born
  BY DEF Inv, AccountsInv, TokensOK
<1>3. /\ collections[c] \in [owner : 1..born, by : 1..born, reached : SUBSET (1..born)]
      /\ collections[c].owner = collections[c].by /\ collections[c].reached \subseteq {collections[c].by}
  BY <1>1 DEF Inv, ShelvesInv, ColsOK
<1>4. /\ row \in [owner : 1..born, by : 1..born, reached : SUBSET (1..born)]
      /\ row.owner = row.by /\ row.reached \subseteq {row.by}
  BY <1>1, <1>2, <1>3
<1> HIDE DEF row
<1>5. QED
  BY <1>1, <1>4 DEF Inv, ShelvesInv, ColsOK

\* Marking the add_items under way in c.
LEMMA OutdatedKeeps ==
    ASSUME Inv, NEW c, NEW u \in Threads
    PROVE  /\ DOMAIN Outdated(c) = Threads
           /\ Adding(u) /\ job[u].cid = c  =>
                 /\ Outdated(c)[u] = [job[u] EXCEPT !.stale = TRUE]
                 /\ Outdated(c)[u].kind = "add" /\ Outdated(c)[u].id \in 1..born /\ Outdated(c)[u].stale
                 /\ Outdated(c)[u].cid = c
                 /\ Outdated(c)[u] \in [kind : {"add"}, id : 1..born, cid : 1..(nextCol - 1),
                                        docs : SeqOf(DocIds, 2), pos : Nat, stale : BOOLEAN]
           /\ ~(Adding(u) /\ job[u].cid = c) => Outdated(c)[u] = job[u]
<1>1. CASE Adding(u) /\ job[u].cid = c
  <2>1. Outdated(c)[u] = [job[u] EXCEPT !.stale = TRUE]
    BY <1>1 DEF Outdated, Adding
  <2>2. job[u] \in [kind : {"add"}, id : 1..born, cid : 1..(nextCol - 1), docs : SeqOf(DocIds, 2),
                    pos : Nat, stale : BOOLEAN]
    BY <1>1 DEF Inv, ShelvesInv, AddsOK
  <2>3. QED
    BY <1>1, <2>1, <2>2 DEF Outdated
<1>2. CASE ~(Adding(u) /\ job[u].cid = c)
  BY <1>2 DEF Outdated, Adding
<1>3. QED
  BY <1>1, <1>2

\* create_collection: an id nobody used, so that no item is in it.
LEMMA CreateCollectionStep ==
    ASSUME Inv, UNCHANGED scope, CreateCollection
    PROVE  Inv'
<1>1. PICK tk \in tokens :
          collections' = [c \in DOMAIN collections \cup {nextCol} |->
               IF c = nextCol THEN [owner |-> tk.id, by |-> tk.who, reached |-> {}] ELSE collections[c]]
  BY DEF CreateCollection
<1>2. nextCol' = nextCol + 1 /\ UNCHANGED <<accounts, items, nextItem, mixed, scope>>
  BY DEF CreateCollection
<1> DEFINE row == [owner |-> tk.id, by |-> tk.who, reached |-> {}]
<1>3. /\ nextCol \in Nat \ {0} /\ nextCol \notin DOMAIN collections
      /\ DOMAIN collections' = DOMAIN collections \cup {nextCol} /\ collections'[nextCol] = row
      /\ \A c \in DOMAIN collections : collections'[c] = collections[c]
  <2>1. nextCol \in Nat \ {0} /\ nextCol \notin DOMAIN collections
    BY DEF Inv, ShelvesInv, ColsOK
  <2>2. QED
    BY <1>1, <2>1
<1>4. /\ row \in [owner : 1..born, by : 1..born, reached : SUBSET (1..born)]
      /\ row.owner = row.by /\ row.reached \subseteq {row.by}
  BY DEF Inv, AccountsInv, TokensOK
<1> HIDE DEF row
<1>5. AccountsInv'
  BY <1>2, AccountsUntouched DEF Inv, accounts, AccountsInv, JobsOK
<1>6. ColsOK'
  BY <1>2, <1>3, <1>4 DEF Inv, ShelvesInv, ColsOK, accounts
<1>7. ItemsOK' /\ DocsOnce' /\ mixed' \subseteq DOMAIN collections'
  BY <1>2, <1>3 DEF Inv, ShelvesInv, ItemsOK, DocsOnce
<1>8. AddsOK'
  <2>1. \A k \in 1..(nextCol - 1) : k \in 1..(nextCol' - 1)
    BY <1>2, <1>3
  <2>2. QED
    BY <1>2, <2>1 DEF Inv, ShelvesInv, AddsOK, Adding, ItemsOf, accounts
<1>9. PositionsDistinct'
  BY <1>2, <1>3 DEF Inv, ShelvesInv, PositionsDistinct, ItemsOf, ItemsOK
<1>10. QED
  BY <1>5, <1>6, <1>7, <1>8, <1>9 DEF Inv, ShelvesInv

\* get_collection and the like.
LEMMA GetCollectionStep ==
    ASSUME Inv, UNCHANGED scope, GetCollection
    PROVE  Inv'
<1>1. PICK tk \in tokens, c \in DOMAIN collections : Owned(tk, c) /\ Reach(tk, c, collections)
  BY DEF GetCollection
<1>2. UNCHANGED <<accounts, items, nextItem, nextCol, mixed, scope>>
  BY DEF GetCollection
<1>3. ColsOK' /\ DOMAIN collections' = DOMAIN collections
  BY <1>1, <1>2, ReachKeeps DEF accounts
<1>4. AccountsInv'
  BY <1>2, AccountsUntouched DEF Inv, accounts, AccountsInv, JobsOK
<1>5. ItemsOK' /\ DocsOnce' /\ PositionsDistinct' /\ mixed' \subseteq DOMAIN collections'
  BY <1>2, <1>3 DEF Inv, ShelvesInv, ItemsOK, DocsOnce, PositionsDistinct, ItemsOf
<1>6. AddsOK'
  BY <1>2 DEF Inv, ShelvesInv, AddsOK, Adding, ItemsOf, accounts
<1>7. QED
  BY <1>3, <1>4, <1>5, <1>6 DEF Inv, ShelvesInv

\* delete_collection: the cascade leaves no item behind.
LEMMA DeleteCollectionStep ==
    ASSUME Inv, UNCHANGED scope, DeleteCollection
    PROVE  Inv'
<1>1. PICK c \in DOMAIN collections :
        /\ collections' = [d \in DOMAIN collections \ {c} |-> collections[d]]
        /\ items' = [x \in DOMAIN items \ ItemsOf(c) |-> items[x]]
        /\ mixed' = mixed \ {c}
  BY DEF DeleteCollection
<1>2. UNCHANGED <<accounts, nextItem, nextCol, scope>>
  BY DEF DeleteCollection
<1>3. /\ DOMAIN collections' = DOMAIN collections \ {c}
      /\ \A d \in DOMAIN collections' : collections'[d] = collections[d]
      /\ DOMAIN items' = {x \in DOMAIN items : items[x].cid # c}
      /\ \A x \in DOMAIN items' : items'[x] = items[x]
  BY <1>1 DEF ItemsOf
<1>4. AccountsInv'
  BY <1>2, AccountsUntouched DEF Inv, accounts, AccountsInv, JobsOK
<1>5. ColsOK'
  BY <1>2, <1>3 DEF Inv, ShelvesInv, ColsOK, accounts
<1>6. ItemsOK' /\ DocsOnce' /\ mixed' \subseteq DOMAIN collections'
  <2>1. ItemsOK'
    <3>1. ASSUME NEW x \in DOMAIN items' PROVE items'[x] \in [cid : DOMAIN collections', doc : DocIds, pos : Nat]
      <4>1. items[x] \in [cid : DOMAIN collections, doc : DocIds, pos : Nat] /\ items[x].cid # c
        BY <1>3 DEF Inv, ShelvesInv, ItemsOK
      <4>2. QED
        BY <1>3, <4>1
    <3>2. QED
      BY <1>2, <1>3, <3>1 DEF Inv, ShelvesInv, ItemsOK
  <2>2. DocsOnce' /\ mixed' \subseteq DOMAIN collections'
    BY <1>1, <1>3 DEF Inv, ShelvesInv, DocsOnce
  <2>3. QED
    BY <2>1, <2>2
<1>7. AddsOK'
  <2>1. \A d : \A x \in ItemsOf(d)' : x \in ItemsOf(d) /\ items'[x] = items[x]
    BY <1>3 DEF ItemsOf
  <2>2. QED
    BY <1>2, <2>1 DEF Inv, ShelvesInv, AddsOK, Adding, accounts
<1>8. PositionsDistinct'
  BY <1>1, <1>3 DEF Inv, ShelvesInv, PositionsDistinct, ItemsOf
<1>9. QED
  BY <1>4, <1>5, <1>6, <1>7, <1>8 DEF Inv, ShelvesInv

\* add_collection_items up to the first INSERT: the position read is beyond all
\* there are at this moment.
LEMMA AddItemsStep ==
    ASSUME Inv, UNCHANGED scope, NEW t \in Threads, AddItems(t)
    PROVE  Inv'
<1>1. PICK tk \in tokens, c \in DOMAIN collections, ds \in SeqOf(DocIds, 2) \ {<<>>} :
          /\ Owned(tk, c) /\ Reach(tk, c, collections)
          /\ job' = [job EXCEPT ![t] = [kind |-> "add", id |-> tk.id, cid |-> c, docs |-> ds,
                                        pos |-> NextPos(c), stale |-> FALSE]]
  BY DEF AddItems
<1>2. UNCHANGED <<users, nextId, tokens, born, acked, raced, items, nextItem, nextCol, mixed, scope>>
  BY DEF AddItems
<1>3. ColsOK' /\ DOMAIN collections' = DOMAIN collections
  BY <1>1, <1>2, ReachKeeps
<1>4. NextPos(c) \in Nat /\ \A x \in ItemsOf(c) : items[x].pos < NextPos(c)
  BY NextPosAbove DEF Inv, ShelvesInv
<1> DEFINE j == [kind |-> "add", id |-> tk.id, cid |-> c, docs |-> ds, pos |-> NextPos(c), stale |-> FALSE]
<1>5. DOMAIN job' = Threads /\ job'[t] = j /\ \A u \in Threads : u # t => job'[u] = job[u]
  BY <1>1 DEF Inv, AccountsInv, JobsOK
<1>6. /\ j \in [kind : {"add"}, id : 1..born, cid : 1..(nextCol - 1), docs : SeqOf(DocIds, 2),
                pos : Nat, stale : BOOLEAN]
      /\ j.kind = "add" /\ j.id \in 1..born
      /\ \A x \in ItemsOf(j.cid) : items[x].pos < j.pos
  <2>1. tk.id \in 1..born
    BY DEF Inv, AccountsInv, TokensOK
  <2>2. c \in 1..(nextCol - 1)
    BY DEF Inv, ShelvesInv, ColsOK
  <2>3. QED
    BY <1>4, <2>1, <2>2
<1> HIDE DEF j
<1>7. AccountsInv'
  BY <1>2, <1>5, <1>6, AccountsUntouched DEF Inv
<1>8. ItemsOK' /\ DocsOnce' /\ PositionsDistinct' /\ mixed' \subseteq DOMAIN collections'
  BY <1>2, <1>3 DEF Inv, ShelvesInv, ItemsOK, DocsOnce, PositionsDistinct, ItemsOf
<1>9. AddsOK'
  <2>1. \A d : ItemsOf(d)' = ItemsOf(d)
    BY <1>2 DEF ItemsOf
  <2>2. QED
    BY <1>2, <1>5, <1>6, <2>1 DEF Inv, ShelvesInv, AddsOK, Adding
<1>10. QED
  BY <1>3, <1>7, <1>8, <1>9 DEF Inv, ShelvesInv

\* remove_item: positions only get fewer.
LEMMA RemoveItemStep ==
    ASSUME Inv, UNCHANGED scope, RemoveItem
    PROVE  Inv'
<1>1. PICK tk \in tokens, x \in DOMAIN items :
        /\ Owned(tk, items[x].cid) /\ Reach(tk, items[x].cid, collections)
        /\ items' = [y \in DOMAIN items \ {x} |-> items[y]]
  BY DEF RemoveItem
<1>2. UNCHANGED <<accounts, nextItem, nextCol, mixed, scope>>
  BY DEF RemoveItem
<1>3. ColsOK' /\ DOMAIN collections' = DOMAIN collections
  BY <1>1, <1>2, ReachKeeps DEF accounts
<1>4. DOMAIN items' \subseteq DOMAIN items /\ \A y \in DOMAIN items' : items'[y] = items[y]
  BY <1>1
<1>5. AccountsInv'
  BY <1>2, AccountsUntouched DEF Inv, accounts, AccountsInv, JobsOK
<1>6. ItemsOK' /\ DocsOnce' /\ mixed' \subseteq DOMAIN collections'
  BY <1>2, <1>3, <1>4 DEF Inv, ShelvesInv, ItemsOK, DocsOnce
<1>7. \A d : \A y \in ItemsOf(d)' : y \in ItemsOf(d) /\ items'[y] = items[y]
  BY <1>4 DEF ItemsOf
<1>8. AddsOK'
  BY <1>2, <1>7 DEF Inv, ShelvesInv, AddsOK, Adding, accounts
<1>9. PositionsDistinct'
  BY <1>2, <1>3, <1>7 DEF Inv, ShelvesInv, PositionsDistinct
<1>10. QED
  BY <1>3, <1>5, <1>6, <1>8, <1>9 DEF Inv, ShelvesInv

\* Positions of c alone are rewritten: everything but the distinctness of the
\* positions of c is kept.
LEMMA PositionsWritten ==
    ASSUME Inv, UNCHANGED <<users, nextId, tokens, born, acked, raced, nextItem, nextCol, scope>>,
           NEW tk \in tokens, NEW c, Owned(tk, c), Reach(tk, c, collections),
           job' = Outdated(c), mixed' \in {mixed \cup {c}, mixed \ {c}},
           DOMAIN items' = DOMAIN items,
           \A x \in DOMAIN items : x \notin ItemsOf(c) => items'[x] = items[x],
           \A x \in DOMAIN items : /\ items'[x] \in [cid : DOMAIN collections, doc : DocIds, pos : Nat]
                                   /\ items'[x].cid = items[x].cid /\ items'[x].doc = items[x].doc,
           c \notin mixed' => \A x, y \in ItemsOf(c) : items'[x].pos = items'[y].pos => x = y
    PROVE  Inv'
<1>1. ColsOK' /\ DOMAIN collections' = DOMAIN collections /\ c \in DOMAIN collections
  BY ReachKeeps
<1>2. AccountsInv'
  <2>1. ASSUME NEW u \in Threads
        PROVE  job'[u] = job[u] \/ (job'[u].kind = "add" /\ job'[u].id \in 1..born)
    <3>1. CASE Adding(u) /\ job[u].cid = c
      <4>1. Outdated(c)[u].kind = "add" /\ Outdated(c)[u].id \in 1..born
        BY <3>1, OutdatedKeeps
      <4>2. QED
        BY <4>1
    <3>2. CASE ~(Adding(u) /\ job[u].cid = c)
      <4>1. Outdated(c)[u] = job[u]
        BY <3>2 DEF Outdated, Adding
      <4>2. QED
        BY <4>1
    <3>3. QED
      BY <3>1, <3>2
  <2>2. DOMAIN job' = Threads
    BY DEF Outdated
  <2>3. QED
    BY <2>1, <2>2, AccountsUntouched DEF Inv
<1>3. ItemsOK' /\ DocsOnce' /\ mixed' \subseteq DOMAIN collections'
  BY <1>1 DEF Inv, ShelvesInv, ItemsOK, DocsOnce
<1>4. \A d : ItemsOf(d)' = ItemsOf(d)
  BY DEF ItemsOf
<1>5. AddsOK'
  <2>1. SUFFICES ASSUME NEW u \in Threads, Adding(u)'
                 PROVE  (/\ job[u] \in [kind : {"add"}, id : 1..born, cid : 1..(nextCol - 1),
                                        docs : SeqOf(DocIds, 2), pos : Nat, stale : BOOLEAN]
                         /\ ~job[u].stale => \A x \in ItemsOf(job[u].cid) : items[x].pos < job[u].pos)'
    BY DEF AddsOK
  <2>2. CASE Adding(u) /\ job[u].cid = c
    BY <2>2, OutdatedKeeps
  <2>3. CASE ~(Adding(u) /\ job[u].cid = c)
    <3>1. job'[u] = job[u] /\ Adding(u) /\ job[u].cid # c
      BY <2>1, <2>3, OutdatedKeeps DEF Adding
    <3>2. \A x \in ItemsOf(job[u].cid) : items'[x] = items[x]
      BY <3>1 DEF ItemsOf
    <3>3. /\ job[u] \in [kind : {"add"}, id : 1..born, cid : 1..(nextCol - 1), docs : SeqOf(DocIds, 2),
                       pos : Nat, stale : BOOLEAN]
          /\ ~job[u].stale => \A x \in ItemsOf(job[u].cid) : items[x].pos < job[u].pos
      BY <3>1 DEF Inv, ShelvesInv, AddsOK
    <3>4. ItemsOf(job[u].cid)' = ItemsOf(job[u].cid)
      BY <1>4, <3>1
    <3>5. QED
      BY <3>1, <3>2, <3>3, <3>4
  <2>4. QED
    BY <2>2, <2>3
<1>6. PositionsDistinct'
  <2>1. SUFFICES ASSUME NEW d \in DOMAIN collections, d \notin mixed',
                        NEW x \in ItemsOf(d), NEW y \in ItemsOf(d), items'[x].pos = items'[y].pos
                 PROVE  x = y
    BY <1>1, <1>4 DEF PositionsDistinct
  <2>2. CASE d = c
    BY <2>1, <2>2
  <2>3. CASE d # c
    <3>1. items'[x] = items[x] /\ items'[y] = items[y] /\ d \notin mixed
      BY <2>1, <2>3 DEF ItemsOf
    <3>2. QED
      BY <2>1, <3>1 DEF Inv, ShelvesInv, PositionsDistinct
  <2>4. QED
    BY <2>2, <2>3
<1>7. QED
  BY <1>1, <1>2, <1>3, <1>5, <1>6 DEF Inv, ShelvesInv

\* update_item.
LEMMA UpdateItemStep ==
    ASSUME Inv, UNCHANGED scope, UpdateItem
    PROVE  Inv'
<1>1. PICK tk \in tokens, x \in DOMAIN items, p \in 0..MaxPosition :
        /\ Owned(tk, items[x].cid) /\ Reach(tk, items[x].cid, collections)
        /\ items' = [items EXCEPT ![x].pos = p]
        /\ mixed' = mixed \cup {items[x].cid} /\ job' = Outdated(items[x].cid)
  BY DEF UpdateItem
<1>2. UNCHANGED <<users, nextId, tokens, born, acked, raced, nextItem, nextCol, scope>>
  BY DEF UpdateItem
<1>3. \A y \in DOMAIN items : items[y] \in [cid : DOMAIN collections, doc : DocIds, pos : Nat]
  BY DEF Inv, ShelvesInv, ItemsOK
<1> DEFINE row == [items[x] EXCEPT !.pos = p]
<1>4. /\ DOMAIN items' = DOMAIN items /\ items'[x] = row
      /\ \A y \in DOMAIN items : y # x => items'[y] = items[y]
  BY <1>1
<1>5. /\ row \in [cid : DOMAIN collections, doc : DocIds, pos : Nat]
      /\ row.cid = items[x].cid /\ row.doc = items[x].doc
  BY <1>3
<1> HIDE DEF row
<1>6. PICK c : c = items[x].cid
  OBVIOUS
<1>7. \A y \in DOMAIN items : y \notin ItemsOf(c) => items'[y] = items[y]
  BY <1>4, <1>6 DEF ItemsOf
<1>8. \A y \in DOMAIN items : /\ items'[y] \in [cid : DOMAIN collections, doc : DocIds, pos : Nat]
                              /\ items'[y].cid = items[y].cid /\ items'[y].doc = items[y].doc
  BY <1>3, <1>4, <1>5
<1>9. c \in mixed' /\ mixed' \in {mixed \cup {c}, mixed \ {c}}
  BY <1>1, <1>6
<1>10. QED
  BY <1>1, <1>2, <1>4, <1>6, <1>7, <1>8, <1>9, PositionsWritten

\* reorder_items: the positions asked for are one to one with the items listed; a
\* list of all of them leaves no two alike.
LEMMA ReorderItemsStep ==
    ASSUME Inv, UNCHANGED scope, ReorderItems
    PROVE  Inv'
<1> DEFINE Done(tk, c, S, ids) ==
        /\ Owned(tk, c) /\ Reach(tk, c, collections)
        /\ items' = Reordered(ids)
        /\ mixed' = IF S = ItemsOf(c) THEN mixed \ {c} ELSE mixed \cup {c}
        /\ job' = Outdated(c)
<1>0. PICK tk \in tokens, c \in DOMAIN collections :
        \E S \in SUBSET ItemsOf(c) \ {{}} : \E ids \in SetToSeqs(S) : Done(tk, c, S, ids)
  BY DEF ReorderItems
<1>1a. PICK S \in SUBSET ItemsOf(c) \ {{}} : \E ids \in SetToSeqs(S) : Done(tk, c, S, ids)
  BY <1>0
<1>1. PICK ids \in SetToSeqs(S) : Done(tk, c, S, ids)
  BY <1>1a
<1>2. UNCHANGED <<users, nextId, tokens, born, acked, raced, nextItem, nextCol, scope>>
  BY DEF ReorderItems
<1>3. \A x \in DOMAIN items : items[x] \in [cid : DOMAIN collections, doc : DocIds, pos : Nat]
  BY DEF Inv, ShelvesInv, ItemsOK
<1>4. S \subseteq ItemsOf(c) /\ ItemsOf(c) \subseteq DOMAIN items
  BY DEF ItemsOf
<1>5. IsFiniteSet(S) /\ Cardinality(S) \in Nat
  <2>1. nextItem - 1 \in Int /\ S \in SUBSET (1..(nextItem - 1))
    BY <1>4 DEF Inv, ShelvesInv, ItemsOK
  <2>2. IsFiniteSet(1..(nextItem - 1))
    BY <2>1, FS_Interval
  <2>3. IsFiniteSet(S)
    BY <2>1, <2>2, FS_Subset
  <2>4. QED
    BY <2>3, FS_CardinalityType
<1>6. PICK n \in Nat : n = Cardinality(S)
  BY <1>5
<1>7. /\ ids \in [1..n -> S] /\ \A i, k \in 1..n : ids[i] = ids[k] => i = k
      /\ DOMAIN ids = 1..n
  BY <1>6 DEF SetToSeqs
<1>8. \A x \in S : \E k \in 1..n : ids[k] = x
  <2>1. ids \in Injection(1..n, S)
    BY <1>7 DEF Injection, IsInjective
  <2>2. IsFiniteSet(1..n) /\ Cardinality(1..n) = n
    BY FS_Interval
  <2>3. ids \in Surjection(1..n, S)
    BY <1>5, <1>6, <2>1, <2>2, FS_Injection
  <2>4. QED
    BY <2>3 DEF Surjection
<1>9. ToSet(ids) = S
  BY <1>7, <1>8 DEF ToSet
<1> DEFINE P(x) == CHOOSE k \in DOMAIN ids : ids[k] = x
<1>10. ASSUME NEW x \in S PROVE P(x) \in 1..n /\ ids[P(x)] = x
  BY <1>7, <1>8
<1>11. /\ DOMAIN items' = DOMAIN items
       /\ \A x \in S : items'[x] = [items[x] EXCEPT !.pos = P(x)]
       /\ \A x \in DOMAIN items : x \notin S => items'[x] = items[x]
  BY <1>1, <1>4, <1>9 DEF Reordered
<1> HIDE DEF P
<1>12. \A x \in S : /\ items'[x] \in [cid : DOMAIN collections, doc : DocIds, pos : Nat]
                    /\ items'[x].cid = items[x].cid /\ items'[x].doc = items[x].doc
                    /\ items'[x].pos = P(x)
  <2>1. \A x \in S : P(x) \in Nat /\ items[x] \in [cid : DOMAIN collections, doc : DocIds, pos : Nat]
    BY <1>3, <1>4, <1>10
  <2>2. QED
    BY <1>11, <2>1
<1>13. \A x \in DOMAIN items : /\ items'[x] \in [cid : DOMAIN collections, doc : DocIds, pos : Nat]
                               /\ items'[x].cid = items[x].cid /\ items'[x].doc = items[x].doc
  BY <1>3, <1>11, <1>12
<1>14. \A x \in DOMAIN items : x \notin ItemsOf(c) => items'[x] = items[x]
  BY <1>4, <1>11
<1>15. c \notin mixed' => \A x, y \in ItemsOf(c) : items'[x].pos = items'[y].pos => x = y
  <2>1. SUFFICES ASSUME c \notin mixed', NEW x \in ItemsOf(c), NEW y \in ItemsOf(c),
                        items'[x].pos = items'[y].pos
                 PROVE  x = y
    OBVIOUS
  <2>2. S = ItemsOf(c)
    BY <1>1, <2>1
  <2>3. P(x) = P(y)
    BY <1>12, <2>1, <2>2
  <2>4. QED
    BY <1>10, <2>2, <2>3
<1>16. mixed' \in {mixed \cup {c}, mixed \ {c}}
  BY <1>1
<1>17. QED
  BY <1>1, <1>2, <1>11, <1>13, <1>14, <1>15, <1>16, PositionsWritten

\* Its transaction: the new items have the positions from the one that was read on,
\* in the order of the list, and their documents were not there.
LEMMA AddItemsEndStep ==
    ASSUME Inv, UNCHANGED scope, NEW t \in Threads, AddItemsEnd(t)
    PROVE  Inv'
<1> DEFINE j == job[t]
           F == IF j.cid \in DOMAIN collections THEN Fresh(j.cid, j.docs) ELSE {}
           N == {nextItem + Before(F, k) : k \in F}
           K(x) == CHOOSE k \in F : nextItem + Before(F, k) = x
<1>1. /\ Adding(t)
      /\ items' = [x \in DOMAIN items \cup N |->
                     IF x \in DOMAIN items THEN items[x]
                     ELSE [cid |-> j.cid, doc |-> j.docs[K(x)], pos |-> j.pos + (x - nextItem)]]
      /\ nextItem' = nextItem + Cardinality(F)
      /\ mixed' = IF j.stale /\ F # {} THEN mixed \cup {j.cid} ELSE mixed
      /\ job' = [Outdated(j.cid) EXCEPT ![t] = Idle]
      /\ UNCHANGED <<users, nextId, tokens, born, acked, raced, collections, nextCol, scope>>
  BY DEF AddItemsEnd, Adding
<1>2. /\ j \in [kind : {"add"}, id : 1..born, cid : 1..(nextCol - 1), docs : SeqOf(DocIds, 2),
                pos : Nat, stale : BOOLEAN]
      /\ ~j.stale => \A x \in ItemsOf(j.cid) : items[x].pos < j.pos
  <2>1. Adding(t)
    BY <1>1
  <2>2. QED
    BY <2>1 DEF Inv, ShelvesInv, AddsOK
<1>3. PICK m \in Nat : j.docs \in [1..m -> DocIds]
  <2>1. j.docs \in SeqOf(DocIds, 2)
    BY <1>2
  <2>2. PICK T \in {[1..k -> DocIds] : k \in 0..2} : j.docs \in T
    <3> HIDE DEF j
    <3> QED
      BY <2>1, Zenon DEF SeqOf
  <2>3. PICK k \in 0..2 : T = [1..k -> DocIds]
    OBVIOUS
  <2>4. k \in Nat /\ j.docs \in [1..k -> DocIds]
    BY <2>2, <2>3
  <2>5. QED
    BY <2>4
<1>4. F \subseteq 1..m
  BY <1>3 DEF Fresh
<1>5. /\ F # {} => j.cid \in DOMAIN collections
      /\ \A k \in F : j.docs[k] \in DocIds /\ ~Has(j.cid, j.docs[k])
      /\ \A h, k \in F : j.docs[h] = j.docs[k] => h = k
  <2>1. F # {} => j.cid \in DOMAIN collections
    OBVIOUS
  <2>2. \A k \in F : j.docs[k] \in DocIds /\ ~Has(j.cid, j.docs[k]) /\ \A h \in 1..(k - 1) : j.docs[h] # j.docs[k]
    BY <1>3, <1>4 DEF Fresh
  <2>3. \A h, k \in F : j.docs[h] = j.docs[k] => h = k
    <3>1. SUFFICES ASSUME NEW h \in F, NEW k \in F, j.docs[h] = j.docs[k], h # k PROVE FALSE
      OBVIOUS
    <3>2. h \in 1..m /\ k \in 1..m
      BY <1>4
    <3>3. h \in 1..(k - 1) \/ k \in 1..(h - 1)
      BY <3>1, <3>2
    <3>4. QED
      BY <2>2, <3>1, <3>3
  <2>4. QED
    BY <2>1, <2>2, <2>3
<1> HIDE DEF F
<1>6. /\ Cardinality(F) \in Nat
      /\ \A k \in F : Before(F, k) \in Nat /\ Before(F, k) < Cardinality(F)
      /\ \A h, k \in F : Before(F, h) = Before(F, k) => h = k
  <2>1. F \subseteq Nat /\ F \in SUBSET (1..m)
    BY <1>4
  <2>2. IsFiniteSet(1..m)
    BY FS_Interval
  <2>3. IsFiniteSet(F)
    BY <2>1, <2>2, FS_Subset
  <2>4. QED
    BY <2>1, <2>3, BeforeOrders
<1>7. nextItem \in Nat \ {0} /\ DOMAIN items \subseteq 1..(nextItem - 1)
      /\ \A x \in DOMAIN items : items[x] \in [cid : DOMAIN collections, doc : DocIds, pos : Nat]
  BY DEF Inv, ShelvesInv, ItemsOK
<1>8. \A x \in N : /\ x \in Nat /\ nextItem <= x /\ x < nextItem + Cardinality(F)
                   /\ K(x) \in F /\ x = nextItem + Before(F, K(x))
  <2>1. SUFFICES ASSUME NEW x \in N
                 PROVE  /\ x \in Nat /\ nextItem <= x /\ x < nextItem + Cardinality(F)
                        /\ K(x) \in F /\ x = nextItem + Before(F, K(x))
    OBVIOUS
  <2>2. K(x) \in F /\ nextItem + Before(F, K(x)) = x
    OBVIOUS
  <2> HIDE DEF K
  <2>3. QED
    BY <1>6, <1>7, <2>2
<1>9. \A x \in N : x \notin DOMAIN items
  <2> HIDE DEF N
  <2> QED
    BY <1>7, <1>8
<1> DEFINE New(x) == [cid |-> j.cid, doc |-> j.docs[K(x)], pos |-> j.pos + (x - nextItem)]
<1>10. /\ DOMAIN items' = DOMAIN items \cup N
       /\ \A x \in DOMAIN items : items'[x] = items[x]
       /\ \A x \in N : items'[x] = New(x)
  BY <1>1, <1>9
<1> HIDE DEF N, K
<1>11. \A x \in N : /\ New(x) \in [cid : DOMAIN collections, doc : DocIds, pos : Nat]
                    /\ New(x).cid = j.cid /\ New(x).doc = j.docs[K(x)] /\ New(x).pos = j.pos + (x - nextItem)
  <2>1. SUFFICES ASSUME NEW x \in N
                 PROVE  New(x) \in [cid : DOMAIN collections, doc : DocIds, pos : Nat]
    OBVIOUS
  <2>2. j.pos + (x - nextItem) \in Nat
    BY <1>2, <1>7, <1>8
  <2>3. j.cid \in DOMAIN collections /\ j.docs[K(x)] \in DocIds
    BY <1>5, <1>8
  <2>4. QED
    BY <2>2, <2>3
<1> HIDE DEF New
<1>12. \A x, y \in N : New(x).doc = New(y).doc \/ New(x).pos = New(y).pos => x = y
  <2>1. SUFFICES ASSUME NEW x \in N, NEW y \in N, New(x).doc = New(y).doc \/ New(x).pos = New(y).pos PROVE x = y
    OBVIOUS
  <2>2. CASE New(x).doc = New(y).doc
    BY <1>5, <1>8, <1>11, <2>2
  <2>3. CASE New(x).pos = New(y).pos
    <3>1. j.pos + (x - nextItem) = j.pos + (y - nextItem) /\ j.pos \in Nat
      BY <1>2, <1>11, <2>3
    <3>2. QED
      BY <1>7, <1>8, <3>1
  <2>4. QED
    BY <2>1, <2>2, <2>3
<1>13. ASSUME NEW u \in Threads
       PROVE  /\ DOMAIN job' = Threads
              /\ Adding(u)' => /\ u # t /\ Adding(u)
                               /\ job[u].cid # j.cid => job'[u] = job[u]
                               /\ job[u].cid = j.cid => job'[u] = [job[u] EXCEPT !.stale = TRUE]
              /\ job'[u] = Idle \/ job'[u] = job[u] \/ (job'[u].kind = "add" /\ job'[u].id \in 1..born)
  <2>1. DOMAIN Outdated(j.cid) = Threads
    BY DEF Outdated
  <2>2. DOMAIN job' = Threads /\ job'[t] = Idle /\ (u # t => job'[u] = Outdated(j.cid)[u])
    BY <1>1, <2>1
  <2>3. CASE Adding(u) /\ job[u].cid = j.cid
    <3>1. /\ Outdated(j.cid)[u] = [job[u] EXCEPT !.stale = TRUE]
          /\ Outdated(j.cid)[u].kind = "add" /\ Outdated(j.cid)[u].id \in 1..born
      BY <2>3, OutdatedKeeps
    <3>2. QED
      BY <2>2, <2>3, <3>1 DEF Adding
  <2>4. CASE ~(Adding(u) /\ job[u].cid = j.cid)
    <3>1. Outdated(j.cid)[u] = job[u]
      BY <2>4 DEF Outdated, Adding
    <3>2. QED
      BY <2>2, <2>4, <3>1 DEF Adding
  <2>5. QED
    BY <2>3, <2>4
<1> HIDE DEF j
<1>14. AccountsInv'
  <2>1. DOMAIN job' = Threads
    BY <1>1 DEF Outdated
  <2>2. QED
    BY <1>1, <1>13, <2>1, AccountsUntouched DEF Inv
<1>15. ColsOK' /\ mixed' \subseteq DOMAIN collections'
  BY <1>1, <1>5 DEF Inv, ShelvesInv, ColsOK
<1>16. ItemsOK'
  <2>1. nextItem' \in Nat \ {0} /\ DOMAIN items' \subseteq 1..(nextItem' - 1)
    BY <1>1, <1>6, <1>7, <1>8, <1>10
  <2>2. \A x \in DOMAIN items' : items'[x] \in [cid : DOMAIN collections, doc : DocIds, pos : Nat]
    BY <1>7, <1>10, <1>11
  <2>3. QED
    BY <1>1, <2>1, <2>2 DEF ItemsOK
<1>17. DocsOnce'
  <2>1. SUFFICES ASSUME NEW x \in DOMAIN items', NEW y \in DOMAIN items',
                        items'[x].cid = items'[y].cid, items'[x].doc = items'[y].doc
                 PROVE  x = y
    BY DEF DocsOnce
  <2>2. CASE x \in DOMAIN items /\ y \in DOMAIN items
    BY <1>10, <2>1, <2>2 DEF Inv, ShelvesInv, DocsOnce
  <2>3. CASE x \in N /\ y \in N
    BY <1>10, <1>12, <2>1, <2>3
  <2>4. \A v \in DOMAIN items, w \in N : ~(items[v].cid = New(w).cid /\ items[v].doc = New(w).doc)
    BY <1>5, <1>8, <1>11 DEF Has, ItemsOf
  <2>5. QED
    BY <1>10, <2>1, <2>2, <2>3, <2>4
<1>18. AddsOK'
  <2>1. SUFFICES ASSUME NEW u \in Threads, Adding(u)'
                 PROVE  (/\ job[u] \in [kind : {"add"}, id : 1..born, cid : 1..(nextCol - 1),
                                        docs : SeqOf(DocIds, 2), pos : Nat, stale : BOOLEAN]
                         /\ ~job[u].stale => \A x \in ItemsOf(job[u].cid) : items[x].pos < job[u].pos)'
    BY DEF AddsOK
  <2>2. /\ job[u] \in [kind : {"add"}, id : 1..born, cid : 1..(nextCol - 1), docs : SeqOf(DocIds, 2),
                       pos : Nat, stale : BOOLEAN]
        /\ ~job[u].stale => \A x \in ItemsOf(job[u].cid) : items[x].pos < job[u].pos
    BY <1>13, <2>1 DEF Inv, ShelvesInv, AddsOK
  <2>3. CASE job[u].cid # j.cid
    <3>1. job'[u] = job[u]
      BY <1>13, <2>1, <2>3
    <3>2. \A x \in ItemsOf(job[u].cid)' : x \in ItemsOf(job[u].cid) /\ items'[x] = items[x]
      BY <1>10, <1>11, <2>3, <3>1 DEF ItemsOf
    <3>3. QED
      BY <1>1, <2>2, <3>1, <3>2
  <2>4. CASE job[u].cid = j.cid
    <3>1. job'[u] = [job[u] EXCEPT !.stale = TRUE]
      BY <1>13, <2>1, <2>4
    <3>2. /\ job'[u] \in [kind : {"add"}, id : 1..born, cid : 1..(nextCol - 1), docs : SeqOf(DocIds, 2),
                         pos : Nat, stale : BOOLEAN]
          /\ job'[u].stale = TRUE
      BY <2>2, <3>1
    <3>3. QED
      BY <1>1, <3>2
  <2>5. QED
    BY <2>3, <2>4
<1>19. PositionsDistinct'
  <2>1. SUFFICES ASSUME NEW d \in DOMAIN collections, d \notin mixed',
                        NEW x \in ItemsOf(d)', NEW y \in ItemsOf(d)', items'[x].pos = items'[y].pos
                 PROVE  x = y
    BY <1>1 DEF PositionsDistinct
  <2>2. /\ x \in DOMAIN items \cup N /\ y \in DOMAIN items \cup N /\ items'[x].cid = d /\ items'[y].cid = d
        /\ d \notin mixed
    BY <1>1, <1>10, <2>1 DEF ItemsOf
  <2>3. CASE x \in DOMAIN items /\ y \in DOMAIN items
    BY <1>10, <2>1, <2>2, <2>3 DEF Inv, ShelvesInv, PositionsDistinct, ItemsOf
  <2>4. CASE x \in N /\ y \in N
    BY <1>10, <1>12, <2>1, <2>4
  <2>5. ASSUME NEW v \in DOMAIN items, NEW w \in N, items'[v].cid = d, items'[w].cid = d
        PROVE  items'[v].pos # items'[w].pos
    <3>1. d = j.cid /\ items[v].cid = d /\ w \in Nat /\ nextItem <= w
      BY <1>8, <1>10, <1>11, <2>5
    <3>2. F # {}
      BY <1>8
    <3>3. ~j.stale
      BY <1>1, <2>1, <3>1, <3>2
    <3>4. items[v].pos < j.pos
      BY <1>2, <3>1, <3>3 DEF ItemsOf
    <3>5. items'[w].pos = j.pos + (w - nextItem) /\ items'[v].pos = items[v].pos
      <4>1. items'[w] = New(w) /\ New(w).pos = j.pos + (w - nextItem)
        BY <1>10, <1>11
      <4>2. items'[v] = items[v]
        BY <1>10
      <4>3. QED
        BY <4>1, <4>2
    <3>6. items[v].pos \in Nat /\ j.pos \in Nat /\ nextItem \in Nat
      BY <1>2, <1>7
    <3>7. QED
      BY <3>1, <3>4, <3>5, <3>6
  <2>6. QED
    BY <2>1, <2>2, <2>3, <2>4, <2>5
<1>20. QED
  BY <1>14, <1>15, <1>16, <1>17, <1>18, <1>19 DEF Inv, ShelvesInv

-----------------------------------------------------------------------------
(* The theorems.                                                           *)

\* At the start.
LEMMA InvInit ==
    ASSUME Init
    PROVE  Inv
<1>1. AccountsInv
  BY AccountsInitially DEF Init
<1>2. ColsOK /\ ItemsOK /\ DocsOnce /\ PositionsDistinct /\ mixed \subseteq DOMAIN collections
  BY DEF Init, CollectionsInit, ColsOK, ItemsOK, DocsOnce, PositionsDistinct
<1>3. AddsOK
  BY DEF Init, AccountsInit, AddsOK, Adding
<1>4. QED
  BY <1>1, <1>2, <1>3 DEF Inv, ShelvesInv

\* Every step of either database keeps the invariant.
LEMMA InvStep ==
    ASSUME Inv, [Next]_vars
    PROVE  Inv'
<1>1. CASE UNCHANGED vars
  <2>1. AccountsInv'
    BY <1>1, AccountsUntouched DEF Inv, vars, accounts, AccountsInv, JobsOK
  <2>2. born \in Nat /\ born' \in Nat /\ born <= born'
    BY <1>1, ScopeTyped DEF Inv, AccountsInv, RowsOK, vars, accounts
  <2>3. UNCHANGED shelves /\ \A t \in Threads : job'[t] = job[t]
    BY <1>1 DEF vars, accounts
  <2>4. ShelvesInv'
    BY <2>2, <2>3, ShelvesUntouched
  <2>5. QED
    BY <2>1, <2>4 DEF Inv
<1>2. CASE UNCHANGED scope /\ AccountsNext /\ UNCHANGED shelves
  <2>1. AccountsInv'
    BY <1>2, AccountsStep DEF Inv
  <2>2. /\ born \in Nat /\ born' \in Nat /\ born <= born'
        /\ \A t \in Threads : job'[t] = Idle \/ job'[t] = job[t] \/ job'[t].kind # "add"
    BY <1>2, AccountsJobs DEF Inv
  <2>3. ShelvesInv'
    BY <1>2, <2>2, ShelvesUntouched
  <2>4. QED
    BY <2>1, <2>3 DEF Inv
<1>3. CASE UNCHANGED scope /\ CollectionsNext
  BY <1>3, CreateCollectionStep, GetCollectionStep, DeleteCollectionStep, RemoveItemStep, UpdateItemStep,
     ReorderItemsStep, AddItemsStep, AddItemsEndStep DEF CollectionsNext
<1>4. QED
  BY <1>1, <1>2, <1>3 DEF Next

\* The inductive invariant of accounts and collections.
THEOREM InvHolds == Spec => []Inv
<1>1. Init => Inv
  BY InvInit
<1>2. Inv /\ [Next]_vars => Inv'
  BY InvStep
<1>3. QED
  BY <1>1, <1>2, PTL DEF Spec

\* Types; a name belongs to one account, an id is given out once, an item is in a
\* collection that exists and a document in it once.
THEOREM CollectionsTyped == Spec => []CollectionsTypeOK
<1>1. ASSUME Inv PROVE CollectionsTypeOK
  <2>1. AccountsTypeOK
    BY <1>1 DEF Inv, AccountsInv, RowsOK, NamesOnce, TokensOK, JobsOK, JobOK, AckedOK, AccountsTypeOK
  <2>2. \A c \in DOMAIN collections : c < nextCol /\ collections[c].owner \in 1..born
    BY <1>1 DEF Inv, ShelvesInv, ColsOK
  <2>3. ASSUME NEW x \in DOMAIN items
        PROVE  /\ x < nextItem /\ items[x].cid \in DOMAIN collections
               /\ items[x].doc \in DocIds /\ items[x].pos \in Nat
               /\ \A y \in ItemsOf(items[x].cid) : items[y].doc = items[x].doc => y = x
    BY <1>1 DEF Inv, ShelvesInv, ItemsOK, DocsOnce, ItemsOf
  <2>4. QED
    BY <1>1, <2>1, <2>2, <2>3 DEF CollectionsTypeOK, Inv, ShelvesInv
<1>2. QED
  BY <1>1, InvHolds, PTL

\* The password a user was last told is the one that logs them in, unless a change
\* overlapped a login that renewed the old hash.
THEOREM PasswordStands == Spec => []LastPasswordStands
<1>1. Inv => LastPasswordStands
  BY DEF Inv, AccountsInv
<1>2. QED
  BY <1>1, InvHolds, PTL

\* Nobody but the person who made a collection ever gets at it.
THEOREM CreatorOnly == Spec => []OnlyTheCreator
<1>1. Inv => OnlyTheCreator
  BY DEF Inv, ShelvesInv, ColsOK, AccountsInv, TokensOK, OnlyTheCreator, Owned
<1>2. QED
  BY <1>1, InvHolds, PTL

\* Two items of a collection share a position only where somebody set a position,
\* reordered a part, or added while positions changed.
THEOREM PositionsAreDistinct == Spec => []PositionsDistinct
<1>1. Inv => PositionsDistinct
  BY DEF Inv, ShelvesInv
<1>2. QED
  BY <1>1, InvHolds, PTL

\* Only auth_delete_user takes rows away, one at a time and never the caller's own.
LEMMA OnlyDeletionShrinks ==
    ASSUME Inv, [Next]_vars, DOMAIN users # {}, DOMAIN users' = {}
    PROVE  \E tk \in tokens : IsAdmin(tk) /\ tk.id \notin DOMAIN users
<1>1. CASE DeleteUser
  BY <1>1 DEF DeleteUser
<1>2. CASE UNCHANGED users
  BY <1>2
<1>3. CASE UpdateUser \/ ResetPassword \/ \E t \in Threads : LoginEnd(t) \/ ChangeEnd(t)
  BY <1>3 DEF UpdateUser, ResetPassword, LoginEnd, ChangeEnd, SetPassword
<1>4. CASE Register \/ Restart
  BY <1>4 DEF Register, Restart, Insert
<1>5. CASE \E t \in Threads : Login(t) \/ ChangePassword(t) \/ Abort(t)
  BY <1>5 DEF Login, ChangePassword, Abort
<1>6. CASE Expire
  BY <1>6 DEF Expire
<1>7. CASE CollectionsNext
  <2>1. UNCHANGED users
    BY <1>7 DEF CollectionsNext, CreateCollection, GetCollection, DeleteCollection, RemoveItem, UpdateItem,
                ReorderItems, AddItems, AddItemsEnd, accounts
  <2>2. QED
    BY <2>1
<1>8. QED
  BY <1>1, <1>2, <1>3, <1>4, <1>5, <1>6, <1>7 DEF Next, AccountsNext, vars, accounts

\* The last account falls only to somebody whose own account is already gone.
THEOREM LastAccountIsKept == Spec => LastAccountKept
<1>1. Inv /\ [Next]_vars => [DOMAIN users # {} /\ DOMAIN users' = {} =>
                                \E tk \in tokens : IsAdmin(tk) /\ tk.id \notin DOMAIN users]_accounts
  BY OnlyDeletionShrinks
<1>2. QED
  BY <1>1, InvHolds, PTL DEF Spec, LastAccountKept
===============================================================================
