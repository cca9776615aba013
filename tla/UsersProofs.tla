---------------------------- MODULE UsersProofs ----------------------------
(* Theorems about the users table: accounts, and the avatar column and its    *)
(* files.                                                                      *)
EXTENDS Accounts, Profile, FiniteSetTheorems, TLAPS

-----------------------------------------------------------------------------
(***************************************************************************)
(* Theorems about Accounts, for any number of processes, emails and rows.  *)
(***************************************************************************)

\* A row is read by its id, its email and its birthday.
LEMMA RowFields ==
    ASSUME NEW r \in Rows
    PROVE  /\ r = [id |-> r.id, email |-> r.email, birthday |-> r.birthday]
           /\ r.id \in Ids /\ r.email \in Addresses /\ r.birthday \in {"raw", "date"}
BY DEF Rows

\* The UPDATE keeps a row's id and its email, and stores a date.
LEMMA ParsedRow ==
    ASSUME NEW r \in Rows
    PROVE  /\ Parsed(r) \in Rows
           /\ Parsed(r).id = r.id /\ Parsed(r).email = r.email
BY RowFields DEF Parsed, Rows

\* A row that changes its email keeps its id.
LEMMA RenamedRow ==
    ASSUME NEW r \in Rows, NEW a \in Addresses
    PROVE  /\ Renamed(r, a) \in Rows
           /\ Renamed(r, a).id = r.id /\ Renamed(r, a).email = a
BY RowFields DEF Renamed, Rows

-----------------------------------------------------------------------------
\* A registration that is being served is about an email.
JobsInv ==
    \A w \in Workers :
        statement[w] \in {"validate", "insert", "update", "welcome"} => job[w].email \in Emails

\* A request stays about its email, or ends.
LEMMA JobsStep ==
    ASSUME AccountsAssumption, AccountsTypeOK, JobsInv, [AccountsNext]_accountVars
    PROVE  AccountsTypeOK' /\ JobsInv'
<1> USE DEF AccountsAssumption
<1>0. NoJob \in Jobs /\ Statements = {"idle", "validate", "insert", "update", "welcome",
                                       "check", "rename"}
  BY DEF NoJob, Jobs, Statements, Addresses
<1>1. ASSUME NEW w \in Workers, Answer(w)
      PROVE  statement' \in [Workers -> Statements] /\ job' \in [Workers -> Jobs] /\ JobsInv'
  BY <1>0, <1>1 DEF Answer, AccountsTypeOK, JobsInv
<1>2. ASSUME NEW w \in Workers, NEW s \in Statements, Goto(w, s),
             statement[w] \in {"validate", "insert", "update", "welcome"} \/ s = "rename"
      PROVE  statement' \in [Workers -> Statements] /\ job' \in [Workers -> Jobs] /\ JobsInv'
  BY <1>2 DEF Goto, AccountsTypeOK, JobsInv
<1>3. ASSUME IssueAccessToken
      PROVE  tokens' \subseteq Tokens /\ nextToken' \in 1..(MaxTokens + 1)
  BY <1>3 DEF IssueAccessToken, AccountsTypeOK, Tokens
<1>4. ASSUME NEW w \in Workers, NEW e \in Emails, Register(w, e) PROVE AccountsTypeOK' /\ JobsInv'
  <2>1. [email |-> e, id |-> 0] \in Jobs BY DEF Jobs, Addresses
  <2>2. statement' \in [Workers -> Statements] /\ job' \in [Workers -> Jobs] /\ JobsInv'
    BY <1>0, <1>4, <2>1 DEF Register, AccountsTypeOK, JobsInv
  <2> QED BY <1>4, <2>2 DEF Register, AccountsTypeOK, tableVars, accountHistory
<1>5. ASSUME NEW w \in Workers, Validate(w) PROVE AccountsTypeOK' /\ JobsInv'
  <2>1. statement[w] = "validate" BY <1>5 DEF Validate
  <2>2. statement' \in [Workers -> Statements] /\ job' \in [Workers -> Jobs] /\ JobsInv'
    BY <1>0, <1>1, <1>2, <1>5, <2>1 DEF Validate
  <2> QED BY <1>5, <2>2 DEF Validate, AccountsTypeOK, tableVars, accountHistory
<1>6. ASSUME NEW w \in Workers, Insert(w) PROVE AccountsTypeOK' /\ JobsInv'
  <2>0. job[w].email \in Emails BY <1>6 DEF Insert, JobsInv
  <2>1. CASE Free(job[w].email)
    <3>1. nextUser \in Ids /\ nextUser' \in 1..(MaxUsers + 1)
      BY <1>6, <2>1 DEF Insert, AccountsTypeOK, Ids
    <3>2. [id |-> nextUser, email |-> job[w].email, birthday |-> "raw"] \in Rows
      BY <2>0, <3>1 DEF Rows, Addresses
    <3>3. [email |-> job[w].email, id |-> nextUser] \in Jobs
      BY <2>0, <3>1 DEF Jobs, Addresses
    <3>4. statement' \in [Workers -> Statements] /\ job' \in [Workers -> Jobs] /\ JobsInv'
      BY <1>0, <1>6, <2>0, <2>1, <3>3 DEF Insert, AccountsTypeOK, JobsInv
    <3>5. users' \subseteq Rows BY <1>6, <2>1, <3>2 DEF Insert, AccountsTypeOK
    <3> QED BY <1>6, <3>1, <3>4, <3>5 DEF Insert, AccountsTypeOK, accountHistory
  <2>2. CASE ~Free(job[w].email)
    <3>1. Answer(w) BY <1>6, <2>2 DEF Insert
    <3> QED BY <1>1, <1>6, <2>2, <3>1 DEF Insert, AccountsTypeOK, accountHistory
  <2> QED BY <2>1, <2>2
<1>7. ASSUME NEW w \in Workers, UpdateUser(w) PROVE AccountsTypeOK' /\ JobsInv'
  <2>1. users' \subseteq Rows BY <1>7, ParsedRow DEF UpdateUser, AccountsTypeOK
  <2>2. statement[w] = "update" /\ Goto(w, "welcome") BY <1>7 DEF UpdateUser
  <2> QED BY <1>0, <1>2, <1>7, <2>1, <2>2 DEF UpdateUser, AccountsTypeOK, accountHistory
<1>8. ASSUME NEW w \in Workers, Welcome(w) PROVE AccountsTypeOK' /\ JobsInv'
  <2>1. job[w].email \in Emails BY <1>8 DEF Welcome, JobsInv
  <2>2. welcomed' \in [Emails -> Nat] BY <1>8, <2>1 DEF Welcome, AccountsTypeOK
  <2> QED BY <1>1, <1>3, <1>8, <2>2 DEF Welcome, AccountsTypeOK
<1>9. ASSUME NEW w \in Workers, NEW e \in Emails, Login(w, e) PROVE AccountsTypeOK' /\ JobsInv'
  BY <1>3, <1>9 DEF Login, AccountsTypeOK, JobsInv, procVars, accountHistory
<1>10. ASSUME NEW t \in tokens, Logout(t) \/ Expire(t) PROVE AccountsTypeOK' /\ JobsInv'
  BY <1>10 DEF Logout, Expire, AccountsTypeOK, JobsInv, accountVars, tableVars, procVars, accountHistory
<1>11. ASSUME NEW u \in users, DestroyUser(u) PROVE AccountsTypeOK' /\ JobsInv'
  <2>1. u.email \in Addresses BY RowFields DEF AccountsTypeOK
  <2>2. freed' \in [Addresses -> Nat] BY <1>11, <2>1 DEF DestroyUser, AccountsTypeOK
  <2> QED BY <1>11, <2>2 DEF DestroyUser, AccountsTypeOK, JobsInv, procVars
<1>12. ASSUME NEW w \in Workers, WorkerDies(w) PROVE AccountsTypeOK' /\ JobsInv'
  BY <1>1, <1>12 DEF WorkerDies, AccountsTypeOK, tableVars, accountHistory
<1>14. ASSUME NEW w \in Workers, NEW u \in users, NEW e \in Addresses, ChangeEmail(w, u, e)
       PROVE  AccountsTypeOK' /\ JobsInv'
  <2>1. [email |-> e, id |-> u.id] \in Jobs BY RowFields DEF Jobs, AccountsTypeOK
  <2>2. statement' \in [Workers -> Statements] /\ job' \in [Workers -> Jobs] /\ JobsInv'
    BY <1>0, <1>14, <2>1 DEF ChangeEmail, AccountsTypeOK, JobsInv
  <2> QED BY <1>14, <2>2 DEF ChangeEmail, AccountsTypeOK, tableVars, accountHistory
<1>15. ASSUME NEW w \in Workers, Check(w) PROVE AccountsTypeOK' /\ JobsInv'
  <2>1. statement' \in [Workers -> Statements] /\ job' \in [Workers -> Jobs] /\ JobsInv'
    BY <1>0, <1>1, <1>2, <1>15 DEF Check
  <2> QED BY <1>15, <2>1 DEF Check, AccountsTypeOK, tableVars, accountHistory
<1>16. ASSUME NEW w \in Workers, Rename(w) PROVE AccountsTypeOK' /\ JobsInv'
  <2>1. Answer(w) BY <1>16 DEF Rename
  <2>2. users' \subseteq Rows /\ freed' \in [Addresses -> Nat]
    <3>1. job[w].email \in Addresses BY DEF AccountsTypeOK, Jobs
    <3>2. ASSUME NEW u \in users, users' = (users \ {u}) \cup {Renamed(u, job[w].email)},
                 freed' = [freed EXCEPT ![u.email] = @ + 1]
          PROVE  users' \subseteq Rows /\ freed' \in [Addresses -> Nat]
      <4>1. Renamed(u, job[w].email) \in Rows BY <3>1, RenamedRow DEF AccountsTypeOK
      <4>2. u.email \in Addresses BY RowFields DEF AccountsTypeOK
      <4> QED BY <3>2, <4>1, <4>2 DEF AccountsTypeOK
    <3> QED BY <1>16, <3>2 DEF Rename, AccountsTypeOK
  <2> QED BY <1>1, <1>16, <2>1, <2>2 DEF Rename, AccountsTypeOK
<1>13. CASE UNCHANGED accountVars
  BY <1>13 DEF AccountsTypeOK, JobsInv, accountVars, tableVars, procVars, accountHistory
<1> QED BY <1>4, <1>5, <1>6, <1>7, <1>8, <1>9, <1>10, <1>11, <1>12, <1>13, <1>14, <1>15, <1>16
        DEF AccountsNext

-----------------------------------------------------------------------------
\* The auto-increment counter is ahead of every row, and neither an id nor an
\* email belongs to two rows.
RowsInv ==
    /\ \A u \in users : u.id < nextUser
    /\ \A u, v \in users : u.id = v.id \/ u.email = v.email => u = v

\* The INSERT takes a fresh id and a free email, the UPDATE of a registration
\* changes neither, and a change of email takes a free one.
LEMMA RowsStep ==
    ASSUME AccountsAssumption, AccountsTypeOK, RowsInv, [AccountsNext]_accountVars
    PROVE  RowsInv'
<1>1. ASSUME NEW w \in Workers, Insert(w) PROVE RowsInv'
  <2>1. CASE Free(job[w].email)
    <3> DEFINE new == [id |-> nextUser, email |-> job[w].email, birthday |-> "raw"]
    <3>1. users' = users \cup {new} /\ nextUser' = nextUser + 1
      BY <1>1, <2>1 DEF Insert
    <3>2. \A u \in users : u.id < nextUser /\ u.email # job[w].email
      BY <2>1 DEF RowsInv, Free, Taken
    <3>3. nextUser \in Nat BY DEF AccountsTypeOK
    <3>4. \A u \in users : u.id \in Nat BY RowFields DEF AccountsTypeOK, Ids
    <3>5. \A u \in users' : u.id < nextUser' BY <3>1, <3>2, <3>3, <3>4
    <3>6. ASSUME NEW u \in users', NEW v \in users', u.id = v.id \/ u.email = v.email
          PROVE  u = v
      <4>1. new.id = nextUser /\ new.email = job[w].email OBVIOUS
      <4>2. \A x \in users : x.id # new.id /\ x.email # new.email
        BY <3>2, <3>3, <3>4, <4>1
      <4> HIDE DEF new
      <4> QED BY <3>1, <3>6, <4>2 DEF RowsInv
    <3> QED BY <3>5, <3>6 DEF RowsInv
  <2>2. CASE ~Free(job[w].email)
    BY <1>1, <2>2 DEF Insert, RowsInv
  <2> QED BY <2>1, <2>2
<1>2. ASSUME NEW w \in Workers, UpdateUser(w) PROVE RowsInv'
  <2> DEFINE img(u) == IF u.id = job[w].id THEN Parsed(u) ELSE u
  <2>1. users' = {img(u) : u \in users} /\ nextUser' = nextUser BY <1>2 DEF UpdateUser
  <2>2. \A u \in users : img(u).id = u.id /\ img(u).email = u.email
    BY ParsedRow DEF AccountsTypeOK
  <2> HIDE DEF img
  <2>3. \A u \in users' : u.id < nextUser' BY <2>1, <2>2 DEF RowsInv
  <2>4. ASSUME NEW u \in users', NEW v \in users', u.id = v.id \/ u.email = v.email
        PROVE  u = v
    <3>1. PICK a \in users : u = img(a) BY <2>1
    <3>2. PICK b \in users : v = img(b) BY <2>1
    <3>3. a = b BY <2>2, <2>4, <3>1, <3>2 DEF RowsInv
    <3> QED BY <3>1, <3>2, <3>3
  <2> QED BY <2>3, <2>4 DEF RowsInv
<1>3. ASSUME NEW u \in users, DestroyUser(u) PROVE RowsInv'
  BY <1>3 DEF DestroyUser, RowsInv
<1>4. ASSUME UNCHANGED <<users, nextUser>> PROVE RowsInv'
  BY <1>4 DEF RowsInv
<1>5. ASSUME NEW w \in Workers, NEW e \in Emails, Register(w, e) \/ Login(w, e)
      PROVE  RowsInv'
  BY <1>4, <1>5 DEF Register, Login, tableVars
<1>6. ASSUME NEW w \in Workers, Validate(w) \/ Welcome(w) \/ WorkerDies(w) PROVE RowsInv'
  BY <1>4, <1>6 DEF Validate, Welcome, WorkerDies, tableVars
<1>7. ASSUME NEW t \in tokens, Logout(t) \/ Expire(t) PROVE RowsInv'
  BY <1>4, <1>7 DEF Logout, Expire, accountVars, tableVars
<1>8. CASE UNCHANGED accountVars
  BY <1>4, <1>8 DEF accountVars, tableVars
<1>9. ASSUME NEW w \in Workers, Rename(w) PROVE RowsInv'
  <2>1. ASSUME NEW u \in users, Free(job[w].email),
               users' = (users \ {u}) \cup {Renamed(u, job[w].email)}
        PROVE  RowsInv'
    <3> DEFINE new == Renamed(u, job[w].email)
    <3>1. job[w].email \in Addresses BY DEF AccountsTypeOK, Jobs
    <3>2. new.id = u.id /\ new.email = job[w].email
      BY <3>1, RenamedRow DEF AccountsTypeOK
    <3>3. users' = (users \ {u}) \cup {new} /\ nextUser' = nextUser
      BY <1>9, <2>1 DEF Rename
    <3> HIDE DEF new
    <3>4. \A v \in users : v.email # new.email BY <2>1, <3>2 DEF Free, Taken
    <3>5. \A v \in users \ {u} : v.id # new.id BY <3>2 DEF RowsInv
    <3>6. \A v \in users' : v.id < nextUser' BY <3>2, <3>3 DEF RowsInv
    <3>7. ASSUME NEW x \in users', NEW y \in users', x.id = y.id \/ x.email = y.email
          PROVE  x = y
      BY <3>3, <3>4, <3>5, <3>7 DEF RowsInv
    <3> QED BY <3>6, <3>7 DEF RowsInv
  <2>2. CASE users' = users BY <1>4, <1>9, <2>2 DEF Rename
  <2> QED BY <1>9, <2>1, <2>2 DEF Rename
<1>10. ASSUME NEW w \in Workers,
              Check(w) \/ \E u \in users, e \in Addresses : ChangeEmail(w, u, e)
       PROVE  RowsInv'
  BY <1>4, <1>10 DEF Check, ChangeEmail, tableVars
<1> QED BY <1>1, <1>2, <1>3, <1>5, <1>6, <1>7, <1>8, <1>9, <1>10 DEF AccountsNext

-----------------------------------------------------------------------------
\* The requests that have inserted a row of an email and not been answered yet.
Pending(pcs, jobs, e) ==
    {w \in Workers : pcs[w] \in {"update", "welcome"} /\ jobs[w].email = e}

HasRow(rs, e) == IF \E u \in rs : u.email = e THEN 1 ELSE 0

\* Every registration that was answered, or will be, has a row of its own,
\* which is still there or has given the email up.
Accounted(e) ==
    welcomed[e] + Cardinality(Pending(statement, job, e)) <= freed[e] + HasRow(users, e)

Accounting == \A e \in Emails : Accounted(e)

\* Finitely many requests are pending.
LEMMA PendingCount ==
    ASSUME AccountsAssumption, NEW pcs, NEW jobs, NEW e
    PROVE  /\ IsFiniteSet(Pending(pcs, jobs, e))
           /\ Cardinality(Pending(pcs, jobs, e)) \in Nat
BY FS_Subset, FS_CardinalityType DEF Pending, AccountsAssumption

\* A request that ends is pending no more, and no other becomes pending.
LEMMA EndPending ==
    ASSUME AccountsAssumption, AccountsTypeOK, NEW w \in Workers, NEW e \in Emails, Answer(w)
    PROVE  Pending(statement', job', e) = Pending(statement, job, e) \ {w}
BY DEF Answer, AccountsTypeOK, Pending

\* What a step does to the count of one email.
LEMMA AccountingStep ==
    ASSUME AccountsAssumption, AccountsTypeOK, JobsInv, RowsInv, Accounting, [AccountsNext]_accountVars,
           NEW e \in Emails
    PROVE  Accounted(e)'
<1> DEFINE before == Cardinality(Pending(statement, job, e))
           after  == Cardinality(Pending(statement', job', e))
<1>0. /\ welcomed[e] \in Nat /\ freed[e] \in Nat
      /\ before \in Nat /\ after \in Nat
      /\ HasRow(users, e) \in {0, 1} /\ HasRow(users', e) \in {0, 1}
      /\ welcomed[e] + before <= freed[e] + HasRow(users, e)
  BY PendingCount DEF AccountsTypeOK, Accounting, Accounted, HasRow, Addresses
<1> SUFFICES welcomed'[e] + after <= freed'[e] + HasRow(users', e)
  BY DEF Accounted
<1>1. ASSUME NEW w \in Workers, Answer(w) PROVE after <= before
  <2>1. Pending(statement', job', e) = Pending(statement, job, e) \ {w} BY <1>1, EndPending
  <2>2. IsFiniteSet(Pending(statement, job, e)) BY PendingCount
  <2>3. after = IF w \in Pending(statement, job, e) THEN before - 1 ELSE before
    BY <2>1, <2>2, FS_RemoveElement
  <2> HIDE DEF before, after
  <2> QED BY <2>3, <1>0
<1>2. ASSUME statement' = statement, job' = job PROVE after = before
  BY <1>2
<1>3. ASSUME after <= before, welcomed' = welcomed, freed' = freed, users' = users
      PROVE  welcomed'[e] + after <= freed'[e] + HasRow(users', e)
  BY <1>0, <1>3
<1> HIDE DEF before, after
<1>4. ASSUME NEW w \in Workers, NEW f \in Emails, Register(w, f) PROVE after <= before
  <2>1. Pending(statement', job', e) = Pending(statement, job, e)
    BY <1>4 DEF Register, AccountsTypeOK, Pending
  <2> QED BY <2>1, <1>0 DEF before, after
<1>5. ASSUME NEW w \in Workers, Validate(w) PROVE after <= before
  <2>1. CASE Goto(w, "insert")
    <3>1. Pending(statement', job', e) = Pending(statement, job, e)
      BY <1>5, <2>1 DEF Validate, Goto, AccountsTypeOK, Pending
    <3> QED BY <3>1, <1>0 DEF before, after
  <2> QED BY <1>1, <1>5, <2>1 DEF Validate
<1>6. ASSUME NEW w \in Workers, Insert(w)
      PROVE  welcomed'[e] + after <= freed'[e] + HasRow(users', e)
  <2>1. CASE ~Free(job[w].email)
    BY <1>1, <1>3, <1>6, <2>1 DEF Insert, accountHistory
  <2>2. CASE Free(job[w].email) /\ job[w].email # e
    <3>1. Pending(statement', job', e) = Pending(statement, job, e)
      BY <1>6, <2>2 DEF Insert, AccountsTypeOK, Pending
    <3>2. (\E u \in users' : u.email = e) <=> (\E u \in users : u.email = e)
      BY <1>6, <2>2 DEF Insert
    <3>3. HasRow(users', e) = HasRow(users, e) BY <3>2 DEF HasRow
    <3> QED BY <1>0, <1>6, <2>2, <3>1, <3>3 DEF Insert, accountHistory, before, after
  <2>3. CASE Free(job[w].email) /\ job[w].email = e
    <3>1. Pending(statement', job', e) = Pending(statement, job, e) \cup {w}
      BY <1>6, <2>3 DEF Insert, AccountsTypeOK, Pending
    <3>2. w \notin Pending(statement, job, e) BY <1>6 DEF Insert, Pending
    <3>3. after = before + 1
      BY <3>1, <3>2, PendingCount, FS_AddElement DEF before, after
    <3>4. HasRow(users, e) = 0 BY <2>3 DEF HasRow, Free, Taken
    <3>5. HasRow(users', e) = 1
      <4> DEFINE new == [id |-> nextUser, email |-> job[w].email, birthday |-> "raw"]
      <4>1. new \in users' /\ new.email = e BY <1>6, <2>3 DEF Insert
      <4> HIDE DEF new
      <4> QED BY <4>1 DEF HasRow
    <3> QED BY <1>0, <1>6, <2>3, <3>3, <3>4, <3>5 DEF Insert, accountHistory
  <2> QED BY <2>1, <2>2, <2>3
<1>7. ASSUME NEW w \in Workers, UpdateUser(w)
      PROVE  welcomed'[e] + after <= freed'[e] + HasRow(users', e)
  <2>1. Pending(statement', job', e) = Pending(statement, job, e)
    BY <1>7 DEF UpdateUser, Goto, AccountsTypeOK, Pending
  <2>2. \A u \in users : Parsed(u).email = u.email BY ParsedRow DEF AccountsTypeOK
  <2>3. HasRow(users', e) = HasRow(users, e) BY <1>7, <2>2 DEF UpdateUser, HasRow
  <2> QED BY <1>0, <1>7, <2>1, <2>3 DEF UpdateUser, accountHistory, before, after
<1>8. ASSUME NEW w \in Workers, Welcome(w)
      PROVE  welcomed'[e] + after <= freed'[e] + HasRow(users', e)
  <2>0. job[w].email \in Emails BY <1>8 DEF Welcome, JobsInv
  <2>1. CASE job[w].email # e
    <3>1. welcomed'[e] = welcomed[e] BY <1>8, <2>0, <2>1 DEF Welcome, AccountsTypeOK
    <3>2. after <= before BY <1>1, <1>8 DEF Welcome
    <3> QED BY <1>0, <1>8, <3>1, <3>2 DEF Welcome
  <2>2. CASE job[w].email = e
    <3>1. welcomed'[e] = welcomed[e] + 1 BY <1>8, <2>0, <2>2 DEF Welcome, AccountsTypeOK
    <3>2. Pending(statement', job', e) = Pending(statement, job, e) \ {w}
      BY <1>8, EndPending DEF Welcome
    <3>3. w \in Pending(statement, job, e) BY <1>8, <2>2 DEF Welcome, Pending
    <3>4. after = before - 1
      BY <3>2, <3>3, PendingCount, FS_RemoveElement DEF before, after
    <3> QED BY <1>0, <1>8, <3>1, <3>4 DEF Welcome
  <2> QED BY <2>1, <2>2
<1>9. ASSUME NEW u \in users, DestroyUser(u)
      PROVE  welcomed'[e] + after <= freed'[e] + HasRow(users', e)
  <2>0. u.email \in Addresses BY RowFields DEF AccountsTypeOK
  <2>1. after = before BY <1>2, <1>9 DEF DestroyUser, procVars
  <2>2. CASE u.email # e
    <3>1. freed'[e] = freed[e] BY <1>9, <2>0, <2>2 DEF DestroyUser, AccountsTypeOK, Addresses
    <3>2. HasRow(users', e) = HasRow(users, e) BY <1>9, <2>2 DEF DestroyUser, HasRow
    <3> QED BY <1>0, <1>9, <2>1, <3>1, <3>2 DEF DestroyUser
  <2>3. CASE u.email = e
    <3>1. freed'[e] = freed[e] + 1 BY <1>9, <2>0, <2>3 DEF DestroyUser, AccountsTypeOK
    <3> QED BY <1>0, <1>9, <2>1, <3>1 DEF DestroyUser
  <2> QED BY <2>2, <2>3
<1>10. ASSUME NEW w \in Workers, NEW f \in Emails, Login(w, f) PROVE after <= before
  BY <1>0, <1>2, <1>10 DEF Login, procVars
<1>11. ASSUME NEW t \in tokens, Logout(t) \/ Expire(t) PROVE after <= before
  BY <1>0, <1>2, <1>11 DEF Logout, Expire, accountVars, procVars
<1>12. ASSUME NEW w \in Workers, WorkerDies(w) PROVE after <= before
  BY <1>1, <1>12 DEF WorkerDies
<1>13. CASE UNCHANGED accountVars
  BY <1>0, <1>2, <1>3, <1>13 DEF accountVars, tableVars, procVars, accountHistory
<1>14. ASSUME NEW w \in Workers, NEW f \in Emails, Register(w, f) \/ Login(w, f)
       PROVE  welcomed'[e] + after <= freed'[e] + HasRow(users', e)
  BY <1>3, <1>4, <1>10, <1>14 DEF Register, Login, tableVars, accountHistory
<1>15. ASSUME NEW w \in Workers, Validate(w) \/ WorkerDies(w)
       PROVE  welcomed'[e] + after <= freed'[e] + HasRow(users', e)
  BY <1>3, <1>5, <1>12, <1>15 DEF Validate, WorkerDies, tableVars, accountHistory
<1>16. ASSUME NEW t \in tokens, Logout(t) \/ Expire(t)
       PROVE  welcomed'[e] + after <= freed'[e] + HasRow(users', e)
  BY <1>3, <1>11, <1>16 DEF Logout, Expire, accountVars, tableVars, accountHistory
<1>17. ASSUME NEW w \in Workers, NEW u \in users, NEW f \in Addresses, ChangeEmail(w, u, f)
       PROVE  welcomed'[e] + after <= freed'[e] + HasRow(users', e)
  <2>1. Pending(statement', job', e) = Pending(statement, job, e)
    BY <1>17 DEF ChangeEmail, AccountsTypeOK, Pending
  <2>2. after <= before BY <2>1, <1>0 DEF before, after
  <2> QED BY <1>3, <1>17, <2>2 DEF ChangeEmail, tableVars, accountHistory
<1>18. ASSUME NEW w \in Workers, Check(w)
       PROVE  welcomed'[e] + after <= freed'[e] + HasRow(users', e)
  <2>1. CASE Goto(w, "rename")
    <3>1. Pending(statement', job', e) = Pending(statement, job, e)
      BY <1>18, <2>1 DEF Check, Goto, AccountsTypeOK, Pending
    <3>2. after <= before BY <3>1, <1>0 DEF before, after
    <3> QED BY <1>3, <1>18, <3>2 DEF Check, tableVars, accountHistory
  <2>2. CASE Answer(w)
    BY <1>1, <1>3, <1>18, <2>2 DEF Check, tableVars, accountHistory
  <2> QED BY <1>18, <2>1, <2>2 DEF Check
<1>19. ASSUME NEW w \in Workers, Rename(w)
       PROVE  welcomed'[e] + after <= freed'[e] + HasRow(users', e)
  <2>1. after <= before /\ welcomed' = welcomed BY <1>1, <1>19 DEF Rename
  <2>2. ASSUME NEW u \in users,
               users' = (users \ {u}) \cup {Renamed(u, job[w].email)},
               freed' = [freed EXCEPT ![u.email] = @ + 1]
        PROVE  welcomed'[e] + after <= freed'[e] + HasRow(users', e)
    <3>1. e \in Addresses /\ u.email \in Addresses
      BY RowFields DEF AccountsTypeOK, Addresses
    <3>2. CASE u.email = e
      <4>1. freed'[e] = freed[e] + 1 BY <2>2, <3>1, <3>2 DEF AccountsTypeOK
      <4> QED BY <1>0, <2>1, <4>1
    <3>3. CASE u.email # e
      <4>1. freed'[e] = freed[e] BY <2>2, <3>1, <3>3 DEF AccountsTypeOK
      <4>2. (\E v \in users : v.email = e) => \E v \in users' : v.email = e
        BY <2>2, <3>3
      <4>3. HasRow(users', e) >= HasRow(users, e) BY <4>2 DEF HasRow
      <4> QED BY <1>0, <2>1, <4>1, <4>3
    <3> QED BY <3>2, <3>3
  <2>3. CASE users' = users /\ freed' = freed BY <1>3, <2>1, <2>3
  <2> QED BY <1>19, <2>2, <2>3 DEF Rename
<1> QED BY <1>6, <1>7, <1>8, <1>9, <1>13, <1>14, <1>15, <1>16, <1>17, <1>18, <1>19
        DEF AccountsNext

-----------------------------------------------------------------------------
\* The inductive invariant.
AccountsInv == AccountsTypeOK /\ JobsInv /\ RowsInv /\ Accounting

\* Nobody is registered in the beginning.
LEMMA AccountsInitInv == ASSUME AccountsAssumption PROVE AccountsInit => AccountsInv
<1> SUFFICES ASSUME AccountsInit PROVE AccountsInv
    OBVIOUS
<1> USE DEF AccountsAssumption, AccountsInit
<1>1. NoJob \in Jobs BY DEF NoJob, Jobs, Addresses
<1>2. AccountsTypeOK BY <1>1 DEF AccountsTypeOK, Statements, Ids, Tokens, Addresses
<1>3. JobsInv /\ RowsInv BY DEF JobsInv, RowsInv
<1>4. \A e \in Emails : Pending(statement, job, e) = {} BY DEF Pending
<1>5. Accounting
  BY <1>4, FS_EmptySet DEF Accounting, Accounted, HasRow, Addresses
<1> QED BY <1>2, <1>3, <1>5 DEF AccountsInv

\* Every request, deletion and death of a process keeps the invariant.
LEMMA AccountsStep == ASSUME AccountsAssumption PROVE AccountsInv /\ [AccountsNext]_accountVars => AccountsInv'
BY JobsStep, RowsStep, AccountingStep DEF AccountsInv, Accounting

\* The count says what OneAccount says, when there is nothing pending to hide.
LEMMA AccountsInvImplies == ASSUME AccountsAssumption PROVE AccountsInv => OneAccount
<1> SUFFICES ASSUME AccountsInv PROVE OneAccount
    OBVIOUS
<1>1. ASSUME NEW e \in Emails PROVE welcomed[e] <= 1 + freed[e]
  <2>1. Accounted(e) BY DEF AccountsInv, Accounting
  <2>2. Cardinality(Pending(statement, job, e)) \in Nat BY PendingCount
  <2>3. welcomed[e] \in Nat /\ freed[e] \in Nat BY DEF AccountsInv, AccountsTypeOK, Addresses
  <2> QED BY <2>1, <2>2, <2>3 DEF Accounted, HasRow
<1> QED BY <1>1 DEF AccountsInv, RowsInv, OneAccount

\* The tables and the requests keep their types.
THEOREM AccountsTyped == ASSUME AccountsAssumption PROVE AccountsSpec => []AccountsTypeOK
<1>1. AccountsInv => AccountsTypeOK BY DEF AccountsInv
<1> QED BY AccountsInitInv, AccountsStep, <1>1, PTL DEF AccountsSpec

\* However the SELECT of the unique rule and the INSERT of overlapping
\* registrations and changes of email interleave, whichever process dies and
\* whatever rows are deleted, an email has one account, and of its registrations
\* one is answered with a token, and one more for every time a row gave the
\* email up (OAuthController::register, UserController::update).
THEOREM OneAccountHolds == ASSUME AccountsAssumption PROVE AccountsSpec => []OneAccount
BY AccountsInitInv, AccountsStep, AccountsInvImplies, PTL DEF AccountsSpec


-----------------------------------------------------------------------------
(***************************************************************************)
(* Proofs about Profile, for any set of requests and of file names.        *)
(***************************************************************************)

\* What the variables of a request hold at each of its steps.
ProfileLocals ==
    \A r \in Requests :
        /\ pc[r] = "upload" => input[r].file
        /\ pc[r] = "delete" => input[r].file
        /\ upload[r] # NoFile <=> (pc[r] \in {"delete", "update"} /\ input[r].file)

\* A file that is written and not yet stored is known to its request alone.
UploadsPrivate ==
    \A r \in Requests : upload[r] # NoFile =>
        /\ upload[r] \in files
        /\ upload[r] # avatar
        /\ \A q \in Requests :
               /\ old_avatar[q] # upload[r]
               /\ q # r => upload[q] # upload[r]

\* Every name in use has been drawn, so the next one drawn is new to all.
NamesDrawn ==
    /\ files \subseteq drawn
    /\ avatar \in drawn \cup {NoFile}
    /\ \A r \in Requests : old_avatar[r] \in drawn \cup {NoFile}

\* Where the files are while single requests run one after another.
SerialFiles ==
    ~failed /\ ~overlapped /\ exists =>
        /\ Quiet => files \subseteq {avatar} \cup erased
        /\ \A r \in Requests :
               /\ pc[r] # "idle" => \A q \in Requests : pc[q] # "idle" => q = r
               /\ pc[r] \in {"upload", "delete", "update"} => old_avatar[r] = avatar
               /\ pc[r] \in {"find", "upload"} => files \subseteq {avatar} \cup erased
               /\ pc[r] = "delete" => files \subseteq {avatar, upload[r]} \cup erased
               /\ pc[r] = "update" /\ ~input[r].file => files \subseteq {avatar} \cup erased
               /\ pc[r] = "update" /\ input[r].file => files \subseteq {upload[r]} \cup erased

UploadInv == TypeOK /\ ProfileLocals /\ NamesDrawn /\ UploadsPrivate

ProfileInv == UploadInv /\ DanglingIsTransient /\ SerialFiles

(***************************************************************************)
(* Type correctness, and the privacy of the files being written.           *)
(***************************************************************************)

\* TypeOK is preserved by every step of a request, of whatever kind.
LEMMA ProfileTypeStep ==
    ASSUME TypeOK, [Next]_vars
    PROVE  TypeOK'
<1> USE DEF TypeOK
<1>0. NoInput \in Inputs /\ NoFile \in Names
    BY DEF NoInput, Inputs, Names
<1>1. ASSUME NEW r \in Requests, Start(r)
      PROVE  TypeOK'
    BY <1>1 DEF Start, Steps, rowVars, fileVars
<1>2. ASSUME NEW r \in Requests, Find(r)
      PROVE  TypeOK'
  <2>1. CASE exists
      BY <1>2, <2>1 DEF Find, Steps, rowVars, fileVars, histVars
  <2>2. CASE ~exists
      BY <1>2, <1>0, <2>2 DEF Find, End, Steps, rowVars, fileVars, histVars
  <2> QED
      BY <2>1, <2>2
<1>3. ASSUME NEW r \in Requests, Upload(r)
      PROVE  TypeOK'
    BY <1>3 DEF Upload, Steps, Names, rowVars, histVars
<1>4. ASSUME NEW r \in Requests, DeleteOld(r)
      PROVE  TypeOK'
    BY <1>4 DEF DeleteOld, Removed, Steps, rowVars, histVars
<1>5. ASSUME NEW r \in Requests, Update(r)
      PROVE  TypeOK'
    BY <1>0, <1>5 DEF Update, Stored, Empties, End, Steps, Names, fileVars
<1>6. ASSUME NEW r \in Requests, UpdateThrows(r)
      PROVE  TypeOK'
    BY <1>0, <1>6 DEF UpdateThrows, End, Steps, rowVars, fileVars
<1>7. ASSUME NEW r \in Requests, Die(r)
      PROVE  TypeOK'
    BY <1>0, <1>7 DEF Die, End, Steps, rowVars, fileVars
<1>8. CASE Destroy
    BY <1>8 DEF Destroy, fileVars, reqVars, histVars
<1>9. CASE UNCHANGED vars
    BY <1>9 DEF vars, rowVars, fileVars, reqVars, histVars
<1> QED
    BY <1>1, <1>2, <1>3, <1>4, <1>5, <1>6, <1>7, <1>8, <1>9 DEF Next, Step

\* A file that a request has written and not stored stays known to it alone: the
\* name is new when it is drawn, and becomes the avatar when it is given up.
LEMMA UploadStep ==
    ASSUME UploadInv, [Next]_vars
    PROVE  UploadInv'
<1>0. TypeOK'
    BY ProfileTypeStep DEF UploadInv
<1> SUFFICES ProfileLocals' /\ NamesDrawn' /\ UploadsPrivate'
    BY <1>0 DEF UploadInv
<1> USE ProfileAssumption DEF UploadInv
<1>1. ASSUME NEW r \in Requests, Start(r)
      PROVE  ProfileLocals' /\ NamesDrawn' /\ UploadsPrivate'
    BY <1>1 DEF Start, TypeOK, Steps, ProfileLocals, NamesDrawn, UploadsPrivate, rowVars, fileVars
<1>2. ASSUME NEW r \in Requests, Find(r)
      PROVE  ProfileLocals' /\ NamesDrawn' /\ UploadsPrivate'
  <2>1. CASE exists
      BY <1>2, <2>1 DEF Find, TypeOK, Steps, ProfileLocals, NamesDrawn, UploadsPrivate,
                        rowVars, fileVars
  <2>2. CASE ~exists
      BY <1>2, <2>2 DEF Find, End, NoInput, TypeOK, Steps, ProfileLocals, NamesDrawn, UploadsPrivate,
                        rowVars, fileVars
  <2> QED
      BY <2>1, <2>2
<1>3. ASSUME NEW r \in Requests, Upload(r)
      PROVE  ProfileLocals' /\ NamesDrawn' /\ UploadsPrivate'
  <2>1. PICK f \in Files \ drawn :
            /\ upload' = [upload EXCEPT ![r] = f]
            /\ drawn' = drawn \cup {f}
            /\ files' = files \cup {f}
      BY <1>3 DEF Upload
  <2>2. ProfileLocals'
      BY <1>3, <2>1 DEF Upload, TypeOK, Steps, ProfileLocals
  <2>3. NamesDrawn'
      BY <1>3, <2>1 DEF Upload, TypeOK, NamesDrawn, rowVars
  <2>4. f # NoFile /\ f \notin files /\ f # avatar
      BY <2>1 DEF NamesDrawn
  <2>5. \A q \in Requests : old_avatar[q] # f /\ upload[q] # f
      BY <2>1, <2>4 DEF NamesDrawn, UploadsPrivate
  <2>6. UploadsPrivate'
      BY <1>3, <2>1, <2>4, <2>5 DEF Upload, TypeOK, UploadsPrivate, rowVars
  <2> QED
      BY <2>2, <2>3, <2>6
<1>4. ASSUME NEW r \in Requests, DeleteOld(r)
      PROVE  ProfileLocals' /\ NamesDrawn' /\ UploadsPrivate'
    BY <1>4 DEF DeleteOld, Removed, TypeOK, Steps, ProfileLocals, NamesDrawn, UploadsPrivate, rowVars
<1>5. ASSUME NEW r \in Requests, Update(r)
      PROVE  ProfileLocals' /\ NamesDrawn' /\ UploadsPrivate'
  <2>1. ProfileLocals'
      BY <1>5 DEF Update, End, NoInput, TypeOK, Steps, ProfileLocals
  <2>2. NamesDrawn'
      BY <1>5 DEF Update, Stored, Empties, End, TypeOK, ProfileLocals, NamesDrawn, UploadsPrivate,
                  fileVars
  <2>3. UploadsPrivate'
      BY <1>5 DEF Update, Stored, Empties, End, TypeOK, ProfileLocals, UploadsPrivate, fileVars
  <2> QED
      BY <2>1, <2>2, <2>3
<1>6. ASSUME NEW r \in Requests, UpdateThrows(r)
      PROVE  ProfileLocals' /\ NamesDrawn' /\ UploadsPrivate'
    BY <1>6 DEF UpdateThrows, End, NoInput, TypeOK, Steps, ProfileLocals, NamesDrawn, UploadsPrivate,
                rowVars, fileVars
<1>7. ASSUME NEW r \in Requests, Die(r)
      PROVE  ProfileLocals' /\ NamesDrawn' /\ UploadsPrivate'
    BY <1>7 DEF Die, End, NoInput, TypeOK, Steps, ProfileLocals, NamesDrawn, UploadsPrivate,
                rowVars, fileVars
<1>8. CASE Destroy
    BY <1>8 DEF Destroy, ProfileLocals, NamesDrawn, UploadsPrivate, fileVars, reqVars
<1>9. CASE UNCHANGED vars
    BY <1>9 DEF vars, ProfileLocals, NamesDrawn, UploadsPrivate, rowVars, fileVars, reqVars
<1> QED
    BY <1>1, <1>2, <1>3, <1>4, <1>5, <1>6, <1>7, <1>8, <1>9 DEF Next, Step

\* A missing avatar stays owned by the request that removed its file.
LEMMA DanglingStep ==
    ASSUME UploadInv, DanglingIsTransient, [Next]_vars
    PROVE  DanglingIsTransient'
<1> USE ProfileAssumption DEF UploadInv, Dangling
<1>1. ASSUME NEW r \in Requests, Start(r)
      PROVE  DanglingIsTransient'
    BY <1>1 DEF Start, TypeOK, DanglingIsTransient, rowVars, fileVars
<1>2. ASSUME NEW r \in Requests, Find(r)
      PROVE  DanglingIsTransient'
    BY <1>2 DEF Find, End, NoInput, TypeOK, DanglingIsTransient, rowVars, fileVars, histVars
<1>3. ASSUME NEW r \in Requests, Upload(r)
      PROVE  DanglingIsTransient'
    BY <1>3 DEF Upload, TypeOK, DanglingIsTransient, rowVars, histVars
<1>4. ASSUME NEW r \in Requests, DeleteOld(r)
      PROVE  DanglingIsTransient'
    BY <1>4 DEF DeleteOld, Removed, TypeOK, ProfileLocals, DanglingIsTransient, rowVars, histVars
<1>5. ASSUME NEW r \in Requests, Update(r)
      PROVE  DanglingIsTransient'
  <2>1. CASE exists /\ input[r].file
      BY <1>5, <2>1 DEF Update, Stored, TypeOK, ProfileLocals, UploadsPrivate, DanglingIsTransient,
                        fileVars
  <2>2. CASE ~exists \/ ~input[r].file
      BY <1>5, <2>2 DEF Update, Stored, Empties, End, TypeOK, DanglingIsTransient, fileVars
  <2> QED
      BY <2>1, <2>2
<1>6. ASSUME NEW r \in Requests, UpdateThrows(r)
      PROVE  DanglingIsTransient'
    BY <1>6 DEF UpdateThrows, End, TypeOK, DanglingIsTransient, rowVars, fileVars
<1>7. ASSUME NEW r \in Requests, Die(r)
      PROVE  DanglingIsTransient'
    BY <1>7 DEF Die, End, TypeOK, DanglingIsTransient, rowVars, fileVars
<1>8. CASE Destroy
    BY <1>8 DEF Destroy, DanglingIsTransient
<1>9. CASE UNCHANGED vars
    BY <1>9 DEF vars, DanglingIsTransient, rowVars, fileVars, reqVars, histVars
<1> QED
    BY <1>1, <1>2, <1>3, <1>4, <1>5, <1>6, <1>7, <1>8, <1>9 DEF Next, Step

(***************************************************************************)
(* Files left behind.                                                      *)
(***************************************************************************)

\* While requests run one after another and none fails, each leaves the one
\* file that the row names, and those whose name an empty field took from it.
LEMMA SerialStep ==
    ASSUME UploadInv, SerialFiles, [Next]_vars
    PROVE  SerialFiles'
<1> SUFFICES ASSUME ~failed', ~overlapped', exists'
             PROVE  SerialFiles'
    BY DEF SerialFiles
<1> USE ProfileAssumption DEF UploadInv, Quiet
<1>1. ASSUME NEW r \in Requests, Start(r)
      PROVE  SerialFiles'
  <2>1. Quiet
      BY <1>1 DEF Start, TypeOK
  <2>2. /\ pc' = [pc EXCEPT ![r] = "find"]
        /\ files' = files /\ avatar' = avatar /\ erased' = erased
      BY <1>1 DEF Start, rowVars, fileVars
  <2>3. files \subseteq {avatar} \cup erased
      BY <1>1, <2>1 DEF Start, SerialFiles, rowVars
  <2> QED
      BY <2>1, <2>2, <2>3 DEF TypeOK, SerialFiles
<1>2. ASSUME NEW r \in Requests, Find(r)
      PROVE  SerialFiles'
    BY <1>2 DEF Find, TypeOK, ProfileLocals, SerialFiles, rowVars, fileVars, histVars
<1>3. ASSUME NEW r \in Requests, Upload(r)
      PROVE  SerialFiles'
    BY <1>3 DEF Upload, TypeOK, SerialFiles, rowVars, histVars
<1>4. ASSUME NEW r \in Requests, DeleteOld(r)
      PROVE  SerialFiles'
    BY <1>4 DEF DeleteOld, Removed, TypeOK, ProfileLocals, SerialFiles, rowVars, histVars
<1>5. ASSUME NEW r \in Requests, Update(r)
      PROVE  SerialFiles'
  <2>1. \A q \in Requests : pc'[q] = "idle"
      BY <1>5 DEF Update, End, TypeOK, SerialFiles
  <2>2. files' \subseteq {avatar'} \cup erased'
    <3>1. ~failed /\ ~overlapped /\ exists /\ files' = files /\ pc[r] = "update"
        BY <1>5 DEF Update, fileVars
    <3>2. CASE input[r].file
        BY <1>5, <3>1, <3>2 DEF Update, Stored, Empties, SerialFiles
    <3>3. CASE ~input[r].file /\ Empties(r)
      <4>1. files \subseteq {avatar} \cup erased /\ avatar # NoFile
          BY <3>1, <3>3 DEF SerialFiles, Empties
      <4>2. erased' = erased \cup {avatar}
          BY <1>5, <3>3, <4>1 DEF Update
      <4> QED
          BY <3>1, <4>1, <4>2
    <3>4. CASE ~input[r].file /\ ~Empties(r)
        BY <1>5, <3>1, <3>4 DEF Update, Stored, SerialFiles
    <3> QED
        BY <3>2, <3>3, <3>4
  <2> QED
      BY <2>1, <2>2 DEF SerialFiles
<1>6. ASSUME NEW r \in Requests, UpdateThrows(r)
      PROVE  SerialFiles'
  <2>1. \A q \in Requests : pc'[q] = "idle"
      BY <1>6 DEF UpdateThrows, End, TypeOK, SerialFiles, rowVars
  <2>2. files' \subseteq {avatar'} \cup erased'
      BY <1>6 DEF UpdateThrows, SerialFiles, rowVars, fileVars
  <2> QED
      BY <2>1, <2>2 DEF SerialFiles
<1>7. ASSUME NEW r \in Requests, Die(r)
      PROVE  SerialFiles'
  <2>1. \A q \in Requests : pc'[q] = "idle"
      BY <1>7 DEF Die, End, TypeOK, SerialFiles, rowVars
  <2>2. pc[r] \in {"find", "upload"} \/ (pc[r] = "update" /\ ~input[r].file)
      BY <1>7 DEF Die, TypeOK, Steps, ProfileLocals
  <2>3. files' \subseteq {avatar'} \cup erased'
      BY <1>7, <2>2 DEF Die, SerialFiles, rowVars, fileVars
  <2> QED
      BY <2>1, <2>3 DEF SerialFiles
<1>8. CASE Destroy
    BY <1>8 DEF Destroy
<1>9. CASE UNCHANGED vars
    BY <1>9 DEF vars, SerialFiles, rowVars, fileVars, reqVars, histVars
<1> QED
    BY <1>1, <1>2, <1>3, <1>4, <1>5, <1>6, <1>7, <1>8, <1>9 DEF Next, Step

(***************************************************************************)
(* The theorems.                                                           *)
(***************************************************************************)

\* The initial state satisfies every part of the invariant.
LEMMA ProfileInitInv == Init => ProfileInv
<1> SUFFICES ASSUME Init PROVE ProfileInv
    OBVIOUS
<1>1. TypeOK
    BY DEF Init, TypeOK, Steps, Inputs, NoInput, Names
<1>2. ProfileLocals /\ NamesDrawn /\ UploadsPrivate
    BY DEF Init, ProfileLocals, NamesDrawn, UploadsPrivate, NoInput
<1>3. DanglingIsTransient /\ SerialFiles
    BY DEF Init, DanglingIsTransient, Dangling, SerialFiles
<1> QED
    BY <1>1, <1>2, <1>3 DEF ProfileInv, UploadInv

\* ProfileInv is an invariant of UserController::update with any number of requests.
THEOREM Invariance == Spec => []ProfileInv
<1>1. ProfileInv /\ [Next]_vars => ProfileInv'
    BY UploadStep, DanglingStep, SerialStep DEF ProfileInv
<1> QED
    BY <1>1, ProfileInitInv, PTL DEF Spec

\* The row, the files and the requests keep their types.
THEOREM ProfileTyped == Spec => []TypeOK
<1>1. ProfileInv => TypeOK
    BY DEF ProfileInv, UploadInv
<1> QED
    BY <1>1, Invariance, PTL

\* No request removes a file that another has written and not yet stored.
THEOREM UploadsSafe == Spec => []UploadsKept
<1>1. ProfileInv => UploadsKept
    BY DEF ProfileInv, UploadInv, ProfileLocals, UploadsPrivate, UploadsKept
<1> QED
    BY <1>1, Invariance, PTL

\* A missing avatar always has a request that is about to replace it.
THEOREM DanglingOwned == Spec => []DanglingIsTransient
<1>1. ProfileInv => DanglingIsTransient
    BY DEF ProfileInv
<1> QED
    BY <1>1, Invariance, PTL

\* However requests overlap, once all have ended without a failure the row
\* names a file that is there.
THEOREM AvatarSafe == Spec => []AvatarKept
<1>1. ProfileInv => AvatarKept
    BY DEF ProfileInv, DanglingIsTransient, AvatarKept, Quiet
<1> QED
    BY <1>1, Invariance, PTL

\* Updates one after another leave no file behind but those whose name an
\* empty avatar field took from the row (UserController::update).
THEOREM SerialLeavesNoFile == Spec => []SerialClean
<1>1. ProfileInv => SerialClean
    BY DEF ProfileInv, SerialFiles, SerialClean
<1> QED
    BY <1>1, Invariance, PTL

\* The name stored in the row is that of a file which is there, or none.
THEOREM StoresPresent == Spec => StoredIsPresent
<1>1. ProfileInv /\ [Next]_vars => [avatar' # avatar => avatar' \in files' \cup {NoFile}]_vars
  <2> SUFFICES ASSUME ProfileInv, [Next]_vars, avatar' # avatar
               PROVE  avatar' \in files' \cup {NoFile}
      OBVIOUS
  <2>1. ASSUME NEW r \in Requests, Update(r)
        PROVE  avatar' \in files' \cup {NoFile}
      BY <2>1 DEF Update, Stored, Empties, ProfileInv, UploadInv, ProfileLocals, UploadsPrivate, fileVars
  <2>2. ASSUME NEW r \in Requests, Start(r) \/ Find(r) \/ Upload(r) \/ DeleteOld(r)
                                    \/ UpdateThrows(r) \/ Die(r)
        PROVE  FALSE
      BY <2>2 DEF Start, Find, Upload, DeleteOld, UpdateThrows, Die, rowVars
  <2> QED
      BY <2>1, <2>2 DEF Next, Step, Destroy, vars, rowVars
<1> QED
    BY <1>1, Invariance, PTL DEF Spec, StoredIsPresent
=============================================================================
