------------------------------ MODULE Accounts ------------------------------
(***************************************************************************)
(* Accounts and access tokens: OAuthController::register and ::logout, the *)
(* login route, User::destroy, and the change of a user's email, which is  *)
(* part of UserController::update.  Requests are served by several         *)
(* processes and go statement by statement: the unique rule of UserRequest *)
(* is a SELECT, made before the INSERT that it is to protect.              *)
(*                                                                         *)
(* Of a row the model keeps its email and the form of its birthday, which  *)
(* the client sends as d-m-Y, create() stores as it came and the UPDATE    *)
(* that follows stores as a date.  The hash that this UPDATE names is not  *)
(* fillable, so it is never stored, and is left out.  Verifying a password *)
(* is the OAuth library's: issuing a token succeeds or throws.             *)
(***************************************************************************)
EXTENDS Naturals, FiniteSets

CONSTANTS
    Workers,    \* processes that serve requests
    Emails,     \* addresses users register with
    NoEmail,    \* the empty string, also of a process that serves no request
    MaxFreed,   \* bound: times an email is given up when it changes once more
    MaxUsers,   \* bound: rows inserted in users
    MaxTokens   \* bound: access tokens issued

\* Processes are finitely many, bounds are numbers and NoEmail is no address.
AccountsAssumption ==
    /\ IsFiniteSet(Workers)
    /\ MaxFreed \in Nat /\ MaxUsers \in Nat /\ MaxTokens \in Nat
    /\ NoEmail \notin Emails

VARIABLES
    users,      \* rows of users
    nextUser,   \* its auto-increment counter
    tokens,     \* ids of valid access tokens
    nextToken,  \* tokens issued so far, plus one
    statement,  \* next statement of each process
    job,        \* email and row id its request is about
    welcomed,   \* history: registrations answered with a token, by email
    freed       \* history: rows that were deleted or given another email

tableVars == <<users, nextUser, tokens, nextToken>>
procVars == <<statement, job>>
accountHistory == <<welcomed, freed>>
accountVars == <<tableVars, procVars, accountHistory>>

Ids    == 1..MaxUsers
Tokens == 1..MaxTokens
Addresses == Emails \cup {NoEmail}
Rows   == [id : Ids, email : Addresses, birthday : {"raw", "date"}]
Jobs   == [email : Addresses, id : Ids \cup {0}]
NoJob  == [email |-> NoEmail, id |-> 0]
Statements == {"idle", "validate", "insert", "update", "welcome", "check", "rename"}

AccountsTypeOK ==
    /\ users \subseteq Rows
    /\ nextUser \in 1..(MaxUsers + 1)
    /\ tokens \subseteq Tokens
    /\ nextToken \in 1..(MaxTokens + 1)
    /\ statement \in [Workers -> Statements]
    /\ job \in [Workers -> Jobs]
    /\ welcomed \in [Emails -> Nat]
    /\ freed \in [Addresses -> Nat]

AccountsInit ==
    /\ users = {}
    /\ nextUser = 1
    /\ tokens = {}
    /\ nextToken = 1
    /\ statement = [w \in Workers |-> "idle"]
    /\ job = [w \in Workers |-> NoJob]
    /\ welcomed = [e \in Emails |-> 0]
    /\ freed = [e \in Addresses |-> 0]

Taken(e) == \E u \in users : u.email = e

\* The request goes on, about the same row.
Goto(w, step) ==
    /\ statement' = [statement EXCEPT ![w] = step]
    /\ UNCHANGED job

\* The request has been answered.
Answer(w) ==
    /\ statement' = [statement EXCEPT ![w] = "idle"]
    /\ job' = [job EXCEPT ![w] = NoJob]

(***************************************************************************)
(* Registration.                                                           *)
(***************************************************************************)

Register(w, e) ==
    /\ statement[w] = "idle"
    /\ job' = [job EXCEPT ![w] = [email |-> e, id |-> 0]]
    /\ statement' = [statement EXCEPT ![w] = "validate"]
    /\ UNCHANGED <<tableVars, accountHistory>>

\* 'email' => 'unique:users'; a taken email is answered with 400.
Validate(w) ==
    /\ statement[w] = "validate"
    /\ IF Taken(job[w].email) THEN Answer(w) ELSE Goto(w, "insert")
    /\ UNCHANGED <<tableVars, accountHistory>>

\* A faulty form, for a mutant: the table without its unique index.
AlwaysFree(e) == TRUE

\* The unique index of users.email lets the INSERT through.
Free(e) == ~Taken(e)

\* User::create; the INSERT throws on a taken email.
Insert(w) ==
    /\ statement[w] = "insert"
    /\ IF Free(job[w].email)
       THEN /\ nextUser <= MaxUsers
            /\ users' = users \cup
                   {[id |-> nextUser, email |-> job[w].email, birthday |-> "raw"]}
            /\ nextUser' = nextUser + 1
            /\ job' = [job EXCEPT ![w] = [email |-> job[w].email, id |-> nextUser]]
            /\ statement' = [statement EXCEPT ![w] = "update"]
       ELSE /\ Answer(w)
            /\ UNCHANGED <<users, nextUser>>
    /\ UNCHANGED <<tokens, nextToken, accountHistory>>

\* User::update stores the parsed birthday.
Parsed(u) == [id |-> u.id, email |-> u.email, birthday |-> "date"]

\* $user->update(...): an UPDATE of the row, if it is still there.
UpdateUser(w) ==
    /\ statement[w] = "update"
    /\ users' = {IF u.id = job[w].id THEN Parsed(u) ELSE u : u \in users}
    /\ Goto(w, "welcome")
    /\ UNCHANGED <<nextUser, tokens, nextToken, accountHistory>>

\* Authorizer::issueAccessToken, when it does not throw.
IssueAccessToken ==
    /\ nextToken <= MaxTokens
    /\ tokens' = tokens \cup {nextToken}
    /\ nextToken' = nextToken + 1

\* The request is answered with a token.
Welcome(w) ==
    /\ statement[w] = "welcome"
    /\ Taken(job[w].email)
    /\ IssueAccessToken
    /\ welcomed' = [welcomed EXCEPT ![job[w].email] = @ + 1]
    /\ Answer(w)
    /\ UNCHANGED <<users, nextUser, freed>>

(***************************************************************************)
(* A change of email.                                                      *)
(***************************************************************************)

\* UserController::update of user u, with an email.
ChangeEmail(w, u, e) ==
    /\ statement[w] = "idle"
    /\ job' = [job EXCEPT ![w] = [email |-> e, id |-> u.id]]
    /\ statement' = [statement EXCEPT ![w] = "check"]
    /\ UNCHANGED <<tableVars, accountHistory>>

\* 'email' => 'unique:users', which passes over an empty field.
Check(w) ==
    /\ statement[w] = "check"
    /\ IF job[w].email # NoEmail /\ Taken(job[w].email)
       THEN Answer(w) ELSE Goto(w, "rename")
    /\ UNCHANGED <<tableVars, accountHistory>>

\* The UPDATE gives the row the new email; User::update stores the birthday.
Renamed(u, e) == [id |-> u.id, email |-> e, birthday |-> "date"]

\* fill() and $user->update(): the UPDATE throws on a taken email, and there is
\* nothing to update when the row has been deleted.
Rename(w) ==
    /\ statement[w] = "rename"
    /\ \/ \E u \in users :
              /\ u.id = job[w].id
              /\ Free(job[w].email)
              /\ freed[u.email] < MaxFreed
              /\ users' = (users \ {u}) \cup {Renamed(u, job[w].email)}
              /\ freed' = [freed EXCEPT ![u.email] = @ + 1]
       \/ /\ (\A u \in users : u.id # job[w].id) \/ ~Free(job[w].email)
          /\ UNCHANGED <<users, freed>>
    /\ Answer(w)
    /\ UNCHANGED <<nextUser, tokens, nextToken, welcomed>>

(***************************************************************************)
(* The other requests.                                                     *)
(***************************************************************************)

Login(w, e) ==
    /\ statement[w] = "idle"
    /\ Taken(e)
    /\ IssueAccessToken
    /\ UNCHANGED <<users, nextUser, procVars, accountHistory>>

\* The request carries a valid token and ends in its first line: there is no
\* parent::getLogout().  The DELETE of the token is never reached.
Logout(t) ==
    /\ t \in tokens
    /\ UNCHANGED accountVars

\* A token reaches its expire_time.
Expire(t) ==
    /\ t \in tokens
    /\ tokens' = tokens \ {t}
    /\ UNCHANGED <<users, nextUser, nextToken, procVars, accountHistory>>

\* User::destroy
DestroyUser(u) ==
    /\ users' = users \ {u}
    /\ freed' = [freed EXCEPT ![u.email] = @ + 1]
    /\ UNCHANGED <<nextUser, tokens, nextToken, procVars, welcomed>>

\* The process dies, a statement throws, or no token is issued.
WorkerDies(w) ==
    /\ statement[w] # "idle"
    /\ Answer(w)
    /\ UNCHANGED <<tableVars, accountHistory>>

AccountsNext ==
    \/ \E w \in Workers, e \in Emails : Register(w, e) \/ Login(w, e)
    \/ \E w \in Workers : Validate(w) \/ Insert(w) \/ UpdateUser(w) \/ Welcome(w) \/ WorkerDies(w)
    \/ \E t \in tokens : Logout(t) \/ Expire(t)
    \/ \E u \in users : DestroyUser(u)
    \/ \E w \in Workers, u \in users, e \in Addresses : ChangeEmail(w, u, e)
    \/ \E w \in Workers : Check(w) \/ Rename(w)

AccountsSpec == AccountsInit /\ [][AccountsNext]_accountVars

(***************************************************************************)
(* Properties                                                              *)
(***************************************************************************)

\* However the checks, the inserts and the changes of email of overlapping
\* requests interleave, an id and an email belong to one row, and of the
\* registrations of one email no more are answered with a token than one, and
\* one more for every time a row has given the email up: by being deleted, or
\* by taking another in UserController::update.
OneAccount ==
    /\ \A u, v \in users : u.id = v.id \/ u.email = v.email => u = v
    /\ \A e \in Emails : welcomed[e] <= 1 + freed[e]

=============================================================================
