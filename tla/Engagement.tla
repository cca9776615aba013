----------------------------- MODULE Engagement -----------------------------
(***************************************************************************)
(* Likes and comments on posts, and the counters a post keeps of them.     *)
(*                                                                         *)
(* Every request runs in a PHP process of its own and the code opens no    *)
(* transaction: Like::save() is an INSERT, then finishSave() calls         *)
(* Post::makeLike, a SELECT of the post, an increment in memory and an     *)
(* UPDATE of the column.  Comment::save() is the same with makeComment.    *)
(* Each SQL statement is atomic; between two statements of one process any *)
(* other process may run.                                                  *)
(*                                                                         *)
(* The tables are those of the migrations.  The foreign keys matter: a     *)
(* DELETE of a user cascades through venues, posts, comments, likes and    *)
(* friends, and likes.post_id is declared to reference users, not posts.   *)
(***************************************************************************)
EXTENDS Naturals, FiniteSets

CONSTANTS
    Workers,      \* PHP processes that serve HTTP requests
    Seeder,       \* the process of "php artisan db:seed"
    MaxId,        \* bound: the largest auto-increment id handed out
    LikeTargets,  \* bound: the post ids that requests name
    MaxSaves,     \* bound: rows inserted for one post when a request may start
    SeedRows,     \* rows the seeder makes per table (10 in the code)
    SeedSaves,    \* comments, and likes, the seeder makes (100 in the code)
    FriendSplit,  \* friends.user_id is drawn from 1..FriendSplit (4)
    VenueOwners   \* venues.user_id is drawn from 1..VenueOwners (5)

ASSUME EngagementAssumption ==
    /\ IsFiniteSet(Workers)
    /\ Seeder \notin Workers
    /\ MaxId \in Nat \ {0}
    /\ LikeTargets \subseteq 1..MaxId
    /\ MaxSaves \in Nat
    /\ SeedRows \in 2..MaxId
    /\ SeedSaves \in Nat
    /\ FriendSplit \in 1..(SeedRows - 1)
    /\ VenueOwners \in 1..SeedRows

Ids   == 1..MaxId
Procs == Workers \cup {Seeder}
Kinds == {"like", "comment"}
Cells == Kinds \X Ids           \* one counter column of one post

\* What can befall the saves of a cell: two of them overlap, the process of
\* one dies, or one finds that there is no such post.
Causes == {"overlap", "death", "nopost"}

\* A cascade may also take stored rows away from a cell whose post stays.
Mishaps == Causes \cup {"cascade"}

\* The seeder fills the tables in this order.
NextStage == [users |-> "friends", friends |-> "venues", venues |-> "posts",
              posts |-> "comments", comments |-> "likes", likes |-> "done"]
Stages == {"users", "friends", "venues", "posts", "comments", "likes",
           "done", "aborted"}

VARIABLES
    users,      \* ids of the rows of users
    nextUser,   \* the next auto-increment id of users
    friends,    \* rows of friends: <<user_id, friend_id>> pairs present
    venues,     \* rows of venues
    posts,      \* rows of posts, without the two counters
    count,      \* count[<<k, p>>]: posts.likes_count and posts.comments_count
    rows,       \* rows[<<k, u, p>>]: how many rows of likes, comments (u, p) has
    pc,         \* where each process is in save(); "idle" outside it
    job,        \* the row being saved and the counter value makeLike has read
    stage,      \* the table the seeder is filling
    row,        \* rows it has begun in this stage
    made,       \* history: INSERTs of kind k for post id p so far
    mishaps     \* history: what has befallen the saves of a cell

tables == <<users, nextUser, friends, venues, posts, count, rows>>
vars == <<tables, pc, job, stage, row, made, mishaps>>

VenueRows == [id : Ids, user_id : Ids]
PostRows  == [id : Ids, venue_id : Ids, user_id : Ids]
Jobs      == [kind : Kinds, post : Ids, snap : Nat]
Steps     == {"idle", "find", "update"}

IdsOf(table) == {r.id : r \in table}

\* The processes that have inserted a row for the cell and not yet finished
\* makeLike or makeComment.
InSave(pcs, jobs, k, p) ==
    {w \in Procs : pcs[w] # "idle" /\ jobs[w].kind = k /\ jobs[w].post = p}
Pending(k, p) == InSave(pc, job, k, p)

TypeOK ==
    /\ users \subseteq Ids
    /\ nextUser \in 1..(MaxId + 1)
    /\ friends \subseteq Ids \X Ids
    /\ venues \subseteq VenueRows
    /\ posts \subseteq PostRows
    /\ count \in [Cells -> Nat]
    /\ rows \in [Kinds \X Ids \X Ids -> Nat]
    /\ pc \in [Procs -> Steps]
    /\ job \in [Procs -> Jobs]
    /\ stage \in Stages
    /\ row \in Nat
    /\ made \in [Cells -> Nat]
    /\ mishaps \subseteq Mishaps \X Kinds \X Ids

(***************************************************************************)
(* A freshly migrated database: every table is empty, the seeder is about  *)
(* to start.                                                               *)
(***************************************************************************)
Init ==
    /\ users = {}
    /\ nextUser = 1
    /\ friends = {}
    /\ venues = {}
    /\ posts = {}
    /\ count = [c \in Cells |-> 0]
    /\ rows = [r \in Kinds \X Ids \X Ids |-> 0]
    /\ pc = [w \in Procs |-> "idle"]
    /\ job = [w \in Procs |-> [kind |-> "like", post |-> 1, snap |-> 0]]
    /\ stage = "users"
    /\ row = 0
    /\ made = [c \in Cells |-> 0]
    /\ mishaps = {}

(***************************************************************************)
(* Saving a like or a comment.                                             *)
(***************************************************************************)

\* The foreign keys an INSERT has to satisfy.  likes.post_id references
\* users; comments.post_id references posts.
ForeignKeysHold(k, u, p) ==
    /\ u \in users
    /\ k = "like" => p \in users
    /\ k = "comment" => p \in IdsOf(posts)

\* Faulty: the INSERT passes over a row that is there, finishSave() counts it.
SaveIgnoringDuplicates(w, k, u, p) ==
    /\ pc[w] = "idle"
    /\ ForeignKeysHold(k, u, p)
    /\ rows' = [rows EXCEPT ![<<k, u, p>>] = 1]
    /\ made' = [made EXCEPT ![<<k, p>>] = @ + 1]
    /\ pc' = [pc EXCEPT ![w] = "find"]
    /\ job' = [job EXCEPT ![w] = [kind |-> k, post |-> p, snap |-> 0]]
    /\ mishaps' = IF Pending(k, p) = {} THEN mishaps
                  ELSE mishaps \cup {<<"overlap", k, p>>}
    /\ UNCHANGED <<users, nextUser, friends, venues, posts, count>>

\* save(), up to and including the INSERT; finishSave() is next.
Save(w, k, u, p) ==
    /\ pc[w] = "idle"
    /\ ForeignKeysHold(k, u, p)
    /\ rows' = [rows EXCEPT ![<<k, u, p>>] = @ + 1]
    /\ made' = [made EXCEPT ![<<k, p>>] = @ + 1]
    /\ pc' = [pc EXCEPT ![w] = "find"]
    /\ job' = [job EXCEPT ![w] = [kind |-> k, post |-> p, snap |-> 0]]
    /\ mishaps' = IF Pending(k, p) = {} THEN mishaps
                  ELSE mishaps \cup {<<"overlap", k, p>>}
    /\ UNCHANGED <<users, nextUser, friends, venues, posts, count>>

\* Post::find($id) in makeLike and makeComment: nothing more to do if there
\* is no such post.
Find(w) ==
    LET k == job[w].kind
        p == job[w].post
    IN  /\ pc[w] = "find"
        /\ \/ /\ p \in IdsOf(posts)
              /\ pc' = [pc EXCEPT ![w] = "update"]
              /\ job' = [job EXCEPT ![w] =
                                [kind |-> k, post |-> p, snap |-> count[<<k, p>>]]]
              /\ UNCHANGED mishaps
           \/ /\ p \notin IdsOf(posts)
              /\ pc' = [pc EXCEPT ![w] = "idle"]
              /\ mishaps' = mishaps \cup {<<"nopost", k, p>>}
              /\ UNCHANGED job
        /\ UNCHANGED <<tables, stage, row, made>>

\* Faulty forms of the increment, for the mutants: adding two, forgetting it.
IncrementedTwice(n) == n + 2
NotIncremented(n) == n

\* "likes_count += 1" and "comments_count += 1".
Incremented(n) == n + 1

\* $post->save() in makeLike and makeComment: an UPDATE of the one dirty
\* column with the value computed from the SELECT.  It matches no row when
\* the post has been deleted in between.
Update(w) ==
    LET k == job[w].kind
        p == job[w].post
    IN  /\ pc[w] = "update"
        /\ \/ /\ p \in IdsOf(posts)
              /\ count' = [count EXCEPT ![<<k, p>>] = Incremented(job[w].snap)]
              /\ UNCHANGED mishaps
           \/ /\ p \notin IdsOf(posts)
              /\ mishaps' = mishaps \cup {<<"nopost", k, p>>}
              /\ UNCHANGED count
        /\ pc' = [pc EXCEPT ![w] = "idle"]
        /\ UNCHANGED <<users, nextUser, friends, venues, posts, rows, job,
                       stage, row, made>>

(***************************************************************************)
(* HTTP requests.                                                          *)
(***************************************************************************)

\* PostController::like: user_id is the literal 1.  A request whose INSERT a
\* foreign key rejects ends in an exception and changes nothing.
Like(w, p) ==
    /\ made[<<"like", p>>] < MaxSaves
    /\ Save(w, "like", 1, p)
    /\ UNCHANGED <<stage, row>>

\* The INSERT of OAuthController::register.
Register ==
    /\ nextUser <= MaxId
    /\ users' = users \cup {nextUser}
    /\ nextUser' = nextUser + 1
    /\ UNCHANGED <<friends, venues, posts, count, rows, pc, job, stage, row,
                   made, mishaps>>

\* The rows that ON DELETE CASCADE removes with user u.
DeadVenues(u) == {v \in venues : v.user_id = u}
DeadPosts(u) ==
    {p \in posts : p.user_id = u \/ p.venue_id \in IdsOf(DeadVenues(u))}
DeadSave(k, author, p, u) ==
    \/ author = u
    \/ k = "like" /\ p = u
    \/ k = "comment" /\ p \in IdsOf(DeadPosts(u))

\* The cells that lose a stored row.
Robbed(u) == {c \in Cells : \E a \in Ids : /\ rows[<<c[1], a, c[2]>>] > 0
                                           /\ DeadSave(c[1], a, c[2], u)}

\* FriendController::delete: User::destroy($id).  No counter is decremented.
Delete(u) ==
    LET gone == IdsOf(DeadPosts(u))
    IN  /\ u \in users
        /\ users' = users \ {u}
        /\ friends' = {f \in friends : f[1] # u /\ f[2] # u}
        /\ venues' = venues \ DeadVenues(u)
        /\ posts' = posts \ DeadPosts(u)
        /\ count' = [c \in Cells |-> IF c[2] \in gone THEN 0 ELSE count[c]]
        /\ rows' = [r \in Kinds \X Ids \X Ids |->
                       IF DeadSave(r[1], r[2], r[3], u) THEN 0 ELSE rows[r]]
        /\ mishaps' = mishaps
               \cup ({"nopost"} \X Kinds \X gone)
               \cup {<<"cascade", c[1], c[2]>> : c \in Robbed(u)}
        /\ UNCHANGED <<nextUser, pc, job, stage, row, made>>

\* The process is killed, times out or loses its connection inside save().
WorkerDies(w) ==
    /\ pc[w] # "idle"
    /\ pc' = [pc EXCEPT ![w] = "idle"]
    /\ mishaps' = mishaps \cup {<<"death", job[w].kind, job[w].post>>}
    /\ UNCHANGED <<tables, job, stage, row, made>>

(***************************************************************************)
(* The seeder: one sequential process; an exception ends it.               *)
(***************************************************************************)

StageSize == IF stage \in {"comments", "likes"} THEN SeedSaves ELSE SeedRows

SeedUser ==
    /\ stage = "users" /\ row < StageSize
    /\ nextUser <= MaxId
    /\ users' = users \cup {nextUser}
    /\ nextUser' = nextUser + 1
    /\ row' = row + 1
    /\ UNCHANGED <<friends, venues, posts, count, rows, pc, job, stage, made,
                   mishaps>>

SeedFriend(u, f) ==
    /\ stage = "friends" /\ row < StageSize
    /\ u \in users /\ f \in users
    /\ friends' = friends \cup {<<u, f>>}
    /\ row' = row + 1
    /\ UNCHANGED <<users, nextUser, venues, posts, count, rows, pc, job,
                   stage, made, mishaps>>

SeedVenue(u) ==
    /\ stage = "venues" /\ row < StageSize
    /\ u \in users
    /\ venues' = venues \cup {[id |-> row + 1, user_id |-> u]}
    /\ row' = row + 1
    /\ UNCHANGED <<users, nextUser, friends, posts, count, rows, pc, job,
                   stage, made, mishaps>>

\* The counters start at their default, 0, which is what count holds for an id
\* without a row.
SeedPost(v, u) ==
    /\ stage = "posts" /\ row < StageSize
    /\ v \in IdsOf(venues) /\ u \in users
    /\ posts' = posts \cup {[id |-> row + 1, venue_id |-> v, user_id |-> u]}
    /\ row' = row + 1
    /\ UNCHANGED <<users, nextUser, friends, venues, count, rows, pc, job,
                   stage, made, mishaps>>

SeedSave(k, u, p) ==
    /\ stage = (IF k = "like" THEN "likes" ELSE "comments")
    /\ row < StageSize
    /\ Save(Seeder, k, u, p)
    /\ row' = row + 1
    /\ UNCHANGED stage

StageEnd ==
    /\ stage \notin {"done", "aborted"}
    /\ row = StageSize
    /\ pc[Seeder] = "idle"
    /\ stage' = NextStage[stage]
    /\ row' = 0
    /\ UNCHANGED <<tables, pc, job, made, mishaps>>

\* The draw of the next row violates a key and the INSERT throws: an email
\* the faker repeats, a venue_id of 0 (drawn from 0..10), or a reference to a
\* row that has been deleted.
BadDraw ==
    LET seeds == 1..SeedRows
    IN  \/ /\ stage = "friends"
           /\ \E u \in 1..FriendSplit, f \in (FriendSplit + 1)..SeedRows :
                  u \notin users \/ f \notin users
        \/ stage = "venues" /\ \E u \in 1..VenueOwners : u \notin users
        \/ stage \in {"users", "posts"}
        \/ stage = "comments" /\ \E u, p \in seeds : ~ForeignKeysHold("comment", u, p)
        \/ stage = "likes" /\ \E u, p \in seeds : ~ForeignKeysHold("like", u, p)

SeedAbort ==
    /\ pc[Seeder] = "idle" /\ row < StageSize
    /\ BadDraw
    /\ stage' = "aborted"
    /\ UNCHANGED <<tables, pc, job, row, made, mishaps>>

SeederDies ==
    /\ stage \notin {"done", "aborted"}
    /\ stage' = "aborted"
    /\ pc' = [pc EXCEPT ![Seeder] = "idle"]
    /\ mishaps' = IF pc[Seeder] = "idle" THEN mishaps
                  ELSE mishaps \cup {<<"death", job[Seeder].kind, job[Seeder].post>>}
    /\ UNCHANGED <<tables, job, row, made>>

Seed ==
    \/ SeedUser
    \/ \E u \in 1..FriendSplit, f \in (FriendSplit + 1)..SeedRows : SeedFriend(u, f)
    \/ \E u \in 1..VenueOwners : SeedVenue(u)
    \/ \E v, u \in 1..SeedRows : SeedPost(v, u)
    \/ \E k \in Kinds, u, p \in 1..SeedRows : SeedSave(k, u, p)
    \/ StageEnd
    \/ SeedAbort
    \/ SeederDies

Next ==
    \/ \E w \in Workers, p \in LikeTargets : Like(w, p)
    \/ \E w \in Procs : Find(w) \/ Update(w)
    \/ \E w \in Workers : WorkerDies(w)
    \/ Register
    \/ \E u \in Ids : Delete(u)
    \/ Seed

Spec == Init /\ [][Next]_vars

(***************************************************************************)
(* Properties                                                              *)
(***************************************************************************)

\* What makeLike and makeComment keep true whatever the interleaving: the
\* counter, and every value a process has read and may still write back,
\* leave room for all the processes that have yet to add their row.
CountBound ==
    \A k \in Kinds, p \in Ids :
        /\ count[<<k, p>>] + Cardinality(Pending(k, p)) <= made[<<k, p>>]
        /\ \A w \in Pending(k, p) :
               job[w].snap + Cardinality(Pending(k, p)) <= made[<<k, p>>]

Untroubled(k, p) == \A c \in Causes : <<c, k, p>> \notin mishaps

\* The counter of a post is exact as long as the saves for it did not
\* overlap, none of them died between the INSERT and the UPDATE, and none was
\* made before the post existed: these are the only ways finishSave loses one.
SerialExact ==
    \A k \in Kinds, p \in IdsOf(posts) :
        Untroubled(k, p) /\ Pending(k, p) = {} => count[<<k, p>>] = made[<<k, p>>]

\* The strengthening of SerialExact that every step preserves: an untroubled
\* cell has at most one save under way, which has read the current value.
SerialInv ==
    \A k \in Kinds, p \in Ids :
        Untroubled(k, p) =>
            /\ \A w, v \in Pending(k, p) : w = v
            /\ count[<<k, p>>] + Cardinality(Pending(k, p)) = made[<<k, p>>]
            /\ \A w \in Pending(k, p) :
                   pc[w] = "update" => job[w].snap = count[<<k, p>>]

\* The foreign keys of the migrations keep every row's references alive
\* through User::destroy: the cascade reaches a comment along both user_id
\* and user -> venue -> post -> comment, while other processes insert.
ReferentialIntegrity ==
    /\ \A v \in venues : v.user_id \in users
    /\ \A p \in posts : p.user_id \in users /\ p.venue_id \in IdsOf(venues)
    /\ \A f \in friends : f[1] \in users /\ f[2] \in users
    /\ \A u, p \in Ids :
           /\ rows[<<"comment", u, p>>] > 0 => u \in users /\ p \in IdsOf(posts)
           /\ rows[<<"like", u, p>>] > 0 => u \in users /\ p \in users
=============================================================================
