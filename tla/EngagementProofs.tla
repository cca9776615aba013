-------------------------- MODULE EngagementProofs --------------------------
(***************************************************************************)
(* Theorems about Engagement, for any number of processes, ids and rows.   *)
(***************************************************************************)
EXTENDS Engagement, FiniteSetTheorems, TLAPS

\* Constants: the seeder's draws are ids, and there are finitely many
\* processes.
LEMMA ConstantFacts ==
    /\ 1 \in Ids
    /\ \A n \in Nat : n < SeedRows => n + 1 \in Ids
    /\ \A n \in 1..SeedRows : n \in Ids
    /\ FriendSplit \in Nat /\ VenueOwners \in 1..SeedRows
    /\ SeedRows \in Nat /\ SeedSaves \in Nat
    /\ IsFiniteSet(Procs)
<1>1. IsFiniteSet(Workers) BY EngagementAssumption
<1>2. IsFiniteSet(Procs) BY <1>1, FS_AddElement DEF Procs
<1> QED BY <1>2, EngagementAssumption DEF Ids

\* Saving a row keeps the tables well typed.
LEMMA SaveType ==
    ASSUME TypeOK, NEW w \in Procs, NEW k \in Kinds, NEW u \in Ids, NEW p \in Ids,
           Save(w, k, u, p), stage' \in Stages, row' \in Nat
    PROVE  TypeOK'
<1>1. rows' \in [Kinds \X Ids \X Ids -> Nat] BY DEF TypeOK, Save
<1>2. made' \in [Cells -> Nat] BY DEF TypeOK, Save, Cells
<1>3. pc' \in [Procs -> Steps] BY DEF TypeOK, Save, Steps
<1>4. job' \in [Procs -> Jobs] BY DEF TypeOK, Save, Jobs
<1>5. mishaps' \subseteq Mishaps \X Kinds \X Ids BY DEF TypeOK, Save, Causes, Mishaps
<1> QED BY <1>1, <1>2, <1>3, <1>4, <1>5 DEF TypeOK, Save

\* Every step keeps the tables and the processes well typed.
LEMMA TypeStep == TypeOK /\ [Next]_vars => TypeOK'
<1> SUFFICES ASSUME TypeOK, [Next]_vars PROVE TypeOK'
    OBVIOUS
<1> USE ConstantFacts
<1>1. ASSUME NEW w \in Workers, NEW p \in LikeTargets, Like(w, p) PROVE TypeOK'
  <2>1. w \in Procs /\ p \in Ids BY EngagementAssumption DEF Procs, Ids
  <2>2. stage' \in Stages /\ row' \in Nat BY <1>1 DEF Like, TypeOK
  <2> QED BY <1>1, <2>1, <2>2, SaveType DEF Like, Kinds
<1>2. ASSUME NEW w \in Procs, Find(w) PROVE TypeOK'
  <2>1. job[w] \in Jobs BY DEF TypeOK
  <2>2. <<job[w].kind, job[w].post>> \in Cells BY <2>1 DEF Jobs, Cells
  <2>3. job' \in [Procs -> Jobs] BY <1>2, <2>1, <2>2 DEF TypeOK, Find, Jobs
  <2>4. pc' \in [Procs -> Steps] BY <1>2 DEF TypeOK, Find, Steps
  <2>5. mishaps' \subseteq Mishaps \X Kinds \X Ids
    BY <1>2, <2>1 DEF TypeOK, Find, Jobs, Causes, Mishaps
  <2> QED BY <1>2, <2>3, <2>4, <2>5 DEF TypeOK, Find, tables
<1>3. ASSUME NEW w \in Procs, Update(w) PROVE TypeOK'
  <2>1. job[w] \in Jobs BY DEF TypeOK
  <2>2. <<job[w].kind, job[w].post>> \in Cells BY <2>1 DEF Jobs, Cells
  <2>3. count' \in [Cells -> Nat]
    <3>1. job[w].snap + 1 \in Nat BY <2>1 DEF Jobs
    <3>2. \/ count' = count
          \/ count' = [count EXCEPT ![<<job[w].kind, job[w].post>>] = job[w].snap + 1]
      BY <1>3 DEF Update, Incremented
    <3>3. count \in [Cells -> Nat] BY DEF TypeOK
    <3> QED BY <3>1, <3>2, <3>3, <2>2
  <2>4. pc' \in [Procs -> Steps] BY <1>3 DEF TypeOK, Update, Steps
  <2>5. mishaps' \subseteq Mishaps \X Kinds \X Ids
    BY <1>3, <2>1 DEF TypeOK, Update, Jobs, Causes, Mishaps
  <2> QED BY <1>3, <2>3, <2>4, <2>5 DEF TypeOK, Update
<1>4. ASSUME NEW w \in Workers, WorkerDies(w) PROVE TypeOK'
  <2>1. w \in Procs /\ job[w] \in Jobs BY DEF TypeOK, Procs
  <2>2. mishaps' \subseteq Mishaps \X Kinds \X Ids
    BY <1>4, <2>1 DEF TypeOK, WorkerDies, Jobs, Causes, Mishaps
  <2> QED BY <1>4, <2>1, <2>2 DEF TypeOK, WorkerDies, tables, Steps
<1>5. CASE Register
  BY <1>5, EngagementAssumption DEF TypeOK, Register, Ids
<1>6. ASSUME NEW u \in Ids, Delete(u) PROVE TypeOK'
  <2>1. IdsOf(DeadPosts(u)) \subseteq Ids BY DEF TypeOK, IdsOf, DeadPosts, PostRows
  <2>2. count' \in [Cells -> Nat] BY <1>6 DEF TypeOK, Delete
  <2>3. rows' \in [Kinds \X Ids \X Ids -> Nat] BY <1>6 DEF TypeOK, Delete
  <2>4. mishaps' \subseteq Mishaps \X Kinds \X Ids
    <3>1. {"nopost"} \X Kinds \X IdsOf(DeadPosts(u)) \subseteq Mishaps \X Kinds \X Ids
      BY <2>1 DEF Causes, Mishaps
    <3>2. {<<"cascade", c[1], c[2]>> : c \in Robbed(u)} \subseteq Mishaps \X Kinds \X Ids
      BY DEF Robbed, Cells, Mishaps
    <3> QED BY <1>6, <3>1, <3>2 DEF TypeOK, Delete
  <2> QED BY <1>6, <2>2, <2>3, <2>4 DEF TypeOK, Delete
<1>7. CASE Seed
  <2>1. CASE SeedUser
    BY <2>1, EngagementAssumption DEF TypeOK, SeedUser, Ids
  <2>2. ASSUME NEW u \in 1..FriendSplit, NEW f \in (FriendSplit + 1)..SeedRows,
               SeedFriend(u, f)
        PROVE  TypeOK'
    BY <2>2 DEF TypeOK, SeedFriend
  <2>3. ASSUME NEW u \in 1..VenueOwners, SeedVenue(u) PROVE TypeOK'
    <3>1. row + 1 \in Ids BY <2>3 DEF TypeOK, SeedVenue, StageSize
    <3>2. [id |-> row + 1, user_id |-> u] \in VenueRows
      BY <2>3, <3>1 DEF SeedVenue, TypeOK, VenueRows
    <3> QED BY <2>3, <3>2 DEF TypeOK, SeedVenue
  <2>4. ASSUME NEW v \in 1..SeedRows, NEW u \in 1..SeedRows, SeedPost(v, u)
        PROVE  TypeOK'
    <3>1. row + 1 \in Ids BY <2>4 DEF TypeOK, SeedPost, StageSize
    <3>2. [id |-> row + 1, venue_id |-> v, user_id |-> u] \in PostRows
      BY <2>4, <3>1 DEF SeedPost, TypeOK, PostRows
    <3> QED BY <2>4, <3>2 DEF TypeOK, SeedPost
  <2>5. ASSUME NEW k \in Kinds, NEW u \in 1..SeedRows, NEW p \in 1..SeedRows,
               SeedSave(k, u, p)
        PROVE  TypeOK'
    <3>1. Seeder \in Procs /\ u \in Ids /\ p \in Ids BY DEF Procs
    <3>2. stage' \in Stages /\ row' \in Nat BY <2>5 DEF SeedSave, TypeOK
    <3> QED BY <2>5, <3>1, <3>2, SaveType DEF SeedSave
  <2>6. CASE StageEnd
    <3>1. stage' \in Stages BY <2>6 DEF TypeOK, StageEnd, Stages, NextStage
    <3> QED BY <2>6, <3>1 DEF TypeOK, StageEnd, tables
  <2>7. CASE SeedAbort
    BY <2>7 DEF TypeOK, SeedAbort, tables, Stages
  <2>8. CASE SeederDies
    <3>1. Seeder \in Procs /\ job[Seeder] \in Jobs BY DEF TypeOK, Procs
    <3>2. mishaps' \subseteq Mishaps \X Kinds \X Ids
      BY <2>8, <3>1 DEF TypeOK, SeederDies, Jobs, Causes, Mishaps
    <3> QED BY <2>8, <3>1, <3>2 DEF TypeOK, SeederDies, tables, Steps, Stages
  <2> QED BY <1>7, <2>1, <2>2, <2>3, <2>4, <2>5, <2>6, <2>7, <2>8 DEF Seed
<1>8. CASE UNCHANGED vars
  BY <1>8 DEF TypeOK, vars, tables
<1> QED BY <1>1, <1>2, <1>3, <1>4, <1>5, <1>6, <1>7, <1>8 DEF Next

\* The migrated, empty database is well typed.
LEMMA TypeInit == Init => TypeOK
BY ConstantFacts, EngagementAssumption
   DEF Init, TypeOK, Cells, Kinds, Stages, Steps, Jobs, Ids

\* The tables, the processes and the seeder keep their types.
THEOREM TypeCorrect == Spec => []TypeOK
BY TypeInit, TypeStep, PTL DEF Spec

-----------------------------------------------------------------------------
(***************************************************************************)
(* The processes inside save(), by cell.                                   *)
(***************************************************************************)

\* Finitely many processes are inside save() for a cell.
LEMMA SavesCount ==
    ASSUME NEW pcs, NEW jobs, NEW k, NEW p
    PROVE  /\ IsFiniteSet(InSave(pcs, jobs, k, p))
           /\ Cardinality(InSave(pcs, jobs, k, p)) \in Nat
BY ConstantFacts, FS_Subset, FS_CardinalityType DEF InSave

\* An INSERT makes its process pending for its cell and for no other.
LEMMA Join ==
    ASSUME TypeOK, NEW w \in Procs, NEW k \in Kinds, NEW p \in Ids,
           pc[w] = "idle",
           pc'[w] # "idle", job'[w].kind = k, job'[w].post = p,
           \A v \in Procs : v # w => pc'[v] = pc[v] /\ job'[v] = job[v]
    PROVE  /\ InSave(pc', job', k, p) = InSave(pc, job, k, p) \cup {w}
           /\ \A a, b : w \notin InSave(pc, job, a, b)
           /\ Cardinality(InSave(pc', job', k, p))
                  = Cardinality(InSave(pc, job, k, p)) + 1
           /\ \A a, b :
                  <<a, b>> # <<k, p>> =>
                      InSave(pc', job', a, b) = InSave(pc, job, a, b)
<1>1. InSave(pc', job', k, p) = InSave(pc, job, k, p) \cup {w}
  BY DEF InSave
<1>2. \A a, b : w \notin InSave(pc, job, a, b) BY DEF InSave
<1>3. ASSUME NEW a, NEW b, <<a, b>> # <<k, p>>
      PROVE  InSave(pc', job', a, b) = InSave(pc, job, a, b)
  BY <1>2, <1>3 DEF InSave
<1>4. IsFiniteSet(InSave(pc, job, k, p)) BY SavesCount
<1>5. Cardinality(InSave(pc, job, k, p) \cup {w})
          = Cardinality(InSave(pc, job, k, p)) + 1
  BY <1>2, <1>4, FS_AddElement
<1> QED BY <1>1, <1>2, <1>3, <1>5

\* A process that leaves save() is pending no longer; nothing else changes.
LEMMA Leave ==
    ASSUME TypeOK, NEW w \in Procs, NEW k \in Kinds, NEW p \in Ids,
           pc[w] # "idle", job[w].kind = k, job[w].post = p,
           pc' = [pc EXCEPT ![w] = "idle"]
    PROVE  /\ InSave(pc', job, k, p) = InSave(pc, job, k, p) \ {w}
           /\ w \in InSave(pc, job, k, p)
           /\ Cardinality(InSave(pc', job, k, p))
                  = Cardinality(InSave(pc, job, k, p)) - 1
           /\ \A a, b :
                  <<a, b>> # <<k, p>> =>
                      InSave(pc', job, a, b) = InSave(pc, job, a, b)
<1>1. \A v \in Procs : v # w => pc'[v] = pc[v]
  BY DEF TypeOK
<1>2. pc'[w] = "idle" BY DEF TypeOK
<1>3. InSave(pc', job, k, p) = InSave(pc, job, k, p) \ {w}
  BY <1>1, <1>2 DEF InSave
<1>4. w \in InSave(pc, job, k, p) BY DEF InSave
<1>5. ASSUME NEW a, NEW b, <<a, b>> # <<k, p>>
      PROVE  InSave(pc', job, a, b) = InSave(pc, job, a, b)
  BY <1>1, <1>2, <1>5 DEF InSave
<1>6. IsFiniteSet(InSave(pc, job, k, p)) BY SavesCount
<1>7. Cardinality(InSave(pc, job, k, p) \ {w})
          = Cardinality(InSave(pc, job, k, p)) - 1
  BY <1>4, <1>6, FS_RemoveElement
<1> QED BY <1>3, <1>4, <1>5, <1>7

-----------------------------------------------------------------------------
(***************************************************************************)
(* The counters.                                                           *)
(***************************************************************************)

CountInv == CountBound /\ SerialInv

\* Steps outside save() leave the counters of living posts alone.
LEMMA QuietCount ==
    ASSUME TypeOK, CountInv, UNCHANGED <<count, made, pc, job>>,
           mishaps \subseteq mishaps'
    PROVE  CountInv'
<1>1. CountBound' BY DEF CountInv, CountBound, Pending
<1>2. SerialInv' BY DEF CountInv, SerialInv, Untroubled, Pending
<1> QED BY <1>1, <1>2 DEF CountInv

\* What the two invariants say of one cell, as a function of the state.
CellBound(pcs, jobs, cnt, mde, k, p) ==
    /\ cnt[<<k, p>>] + Cardinality(InSave(pcs, jobs, k, p)) <= mde[<<k, p>>]
    /\ \A w \in InSave(pcs, jobs, k, p) :
           jobs[w].snap + Cardinality(InSave(pcs, jobs, k, p)) <= mde[<<k, p>>]

CellSerial(pcs, jobs, cnt, mde, k, p) ==
    /\ \A w, v \in InSave(pcs, jobs, k, p) : w = v
    /\ cnt[<<k, p>>] + Cardinality(InSave(pcs, jobs, k, p)) = mde[<<k, p>>]
    /\ \A w \in InSave(pcs, jobs, k, p) :
           pcs[w] = "update" => jobs[w].snap = cnt[<<k, p>>]

\* A cell is untouched by a step that changes neither its counter nor its
\* processes.
LEMMA OtherCell ==
    ASSUME NEW pcs, NEW jobs, NEW cnt, NEW mde, NEW pcs2, NEW jobs2, NEW cnt2,
           NEW mde2, NEW k, NEW p,
           InSave(pcs2, jobs2, k, p) = InSave(pcs, jobs, k, p),
           \A w \in InSave(pcs, jobs, k, p) : pcs2[w] = pcs[w] /\ jobs2[w] = jobs[w],
           cnt2[<<k, p>>] = cnt[<<k, p>>], mde2[<<k, p>>] = mde[<<k, p>>]
    PROVE  /\ CellBound(pcs, jobs, cnt, mde, k, p) =>
                  CellBound(pcs2, jobs2, cnt2, mde2, k, p)
           /\ CellSerial(pcs, jobs, cnt, mde, k, p) =>
                  CellSerial(pcs2, jobs2, cnt2, mde2, k, p)
BY DEF CellBound, CellSerial

\* It is enough to look at the cells a step touches: the others, and the ones
\* it troubles, take care of themselves.
LEMMA CellByCell ==
    ASSUME TypeOK, CountInv, mishaps \subseteq mishaps',
           NEW k \in Kinds, NEW p \in Ids,
           \A a \in Kinds, b \in Ids : <<a, b>> # <<k, p>> =>
               /\ InSave(pc', job', a, b) = InSave(pc, job, a, b)
               /\ \A w \in InSave(pc, job, a, b) : pc'[w] = pc[w] /\ job'[w] = job[w]
               /\ count'[<<a, b>>] = count[<<a, b>>]
               /\ made'[<<a, b>>] = made[<<a, b>>],
           CellBound(pc, job, count, made, k, p) =>
               CellBound(pc', job', count', made', k, p),
           (\A c \in Causes : <<c, k, p>> \notin mishaps')
               /\ CellSerial(pc, job, count, made, k, p) =>
               CellSerial(pc', job', count', made', k, p)
    PROVE  CountInv'
<1>1. ASSUME NEW a \in Kinds, NEW b \in Ids
      PROVE  CellBound(pc', job', count', made', a, b)
  <2>1. CellBound(pc, job, count, made, a, b)
    BY DEF CountInv, CountBound, Pending, CellBound
  <2>2. CASE <<a, b>> = <<k, p>> BY <2>1, <2>2
  <2>3. CASE <<a, b>> # <<k, p>> BY <2>1, <2>3, OtherCell
  <2> QED BY <2>2, <2>3
<1>2. ASSUME NEW a \in Kinds, NEW b \in Ids,
             \A c \in Causes : <<c, a, b>> \notin mishaps'
      PROVE  CellSerial(pc', job', count', made', a, b)
  <2>1. CellSerial(pc, job, count, made, a, b)
    BY <1>2 DEF CountInv, SerialInv, Pending, CellSerial, Untroubled
  <2>2. CASE <<a, b>> = <<k, p>> BY <1>2, <2>1, <2>2
  <2>3. CASE <<a, b>> # <<k, p>> BY <2>1, <2>3, OtherCell
  <2> QED BY <2>2, <2>3
<1>3. CountBound' BY <1>1 DEF CountBound, Pending, CellBound
<1>4. SerialInv' BY <1>2 DEF SerialInv, Pending, CellSerial, Untroubled
<1> QED BY <1>3, <1>4 DEF CountInv

\* The INSERT adds one row and one process that owes an increment.
LEMMA SaveCount ==
    ASSUME TypeOK, CountInv, NEW w \in Procs, NEW k \in Kinds, NEW u \in Ids,
           NEW p \in Ids, Save(w, k, u, p)
    PROVE  CountInv'
<1> DEFINE P == InSave(pc, job, k, p)
           Q == InSave(pc', job', k, p)
<1>1. /\ Q = P \cup {w}
      /\ \A a, b : w \notin InSave(pc, job, a, b)
      /\ Cardinality(Q) = Cardinality(P) + 1
      /\ \A a, b : <<a, b>> # <<k, p>> =>
             InSave(pc', job', a, b) = InSave(pc, job, a, b)
  <2>1. /\ pc[w] = "idle" /\ pc'[w] # "idle"
        /\ job'[w].kind = k /\ job'[w].post = p
        /\ \A v \in Procs : v # w => pc'[v] = pc[v] /\ job'[v] = job[v]
    BY DEF Save, TypeOK
  <2> QED BY <2>1, Join
<1>2. Cardinality(P) \in Nat BY SavesCount
<1>3. /\ count' = count
      /\ made'[<<k, p>>] = made[<<k, p>>] + 1
      /\ \A a \in Kinds, b \in Ids :
             <<a, b>> # <<k, p>> => made'[<<a, b>>] = made[<<a, b>>]
  BY DEF Save, TypeOK, Cells
<1>4. /\ job'[w].snap = 0
      /\ pc'[w] = "find"
      /\ \A v \in Procs : v # w => job'[v] = job[v] /\ pc'[v] = pc[v]
  BY DEF Save, TypeOK
<1>5. \A a, b : InSave(pc, job, a, b) \subseteq Procs BY DEF InSave
<1>6. \A v \in Procs : job[v].snap \in Nat BY DEF TypeOK, Jobs
<1>7. count[<<k, p>>] \in Nat /\ made[<<k, p>>] \in Nat
  BY DEF TypeOK, Cells
<1>8. ASSUME CellBound(pc, job, count, made, k, p)
      PROVE  CellBound(pc', job', count', made', k, p)
  <2>1. /\ count[<<k, p>>] + Cardinality(P) <= made[<<k, p>>]
        /\ \A v \in P : job[v].snap + Cardinality(P) <= made[<<k, p>>]
    BY <1>8 DEF CellBound
  <2>2. ASSUME NEW v \in Q
        PROVE  job'[v].snap + Cardinality(Q) <= made'[<<k, p>>]
    <3>1. CASE v = w BY <3>1, <2>1, <1>1, <1>2, <1>3, <1>4, <1>7
    <3>2. CASE v # w
      <4>1. v \in P /\ job'[v].snap = job[v].snap /\ job[v].snap \in Nat
        BY <3>2, <1>1, <1>4, <1>5, <1>6
      <4> QED BY <4>1, <2>1, <1>1, <1>2, <1>3, <1>7
    <3> QED BY <3>1, <3>2
  <2>3. count'[<<k, p>>] + Cardinality(Q) <= made'[<<k, p>>]
    BY <2>1, <1>1, <1>2, <1>3, <1>7
  <2> QED BY <2>2, <2>3 DEF CellBound
<1>9. ASSUME \A c \in Causes : <<c, k, p>> \notin mishaps',
             CellSerial(pc, job, count, made, k, p)
      PROVE  CellSerial(pc', job', count', made', k, p)
  <2>1. P = {} BY <1>9 DEF Save, Causes, Pending
  <2>2. count[<<k, p>>] + Cardinality(P) = made[<<k, p>>] BY <1>9 DEF CellSerial
  <2>3. Q = {w} BY <2>1, <1>1
  <2>4. count'[<<k, p>>] + Cardinality(Q) = made'[<<k, p>>]
    BY <2>2, <1>1, <1>2, <1>3, <1>7
  <2> QED BY <2>3, <2>4, <1>4 DEF CellSerial
<1>10. mishaps \subseteq mishaps' BY DEF Save
<1>11. \A a \in Kinds, b \in Ids : <<a, b>> # <<k, p>> =>
           /\ InSave(pc', job', a, b) = InSave(pc, job, a, b)
           /\ \A v \in InSave(pc, job, a, b) : pc'[v] = pc[v] /\ job'[v] = job[v]
           /\ count'[<<a, b>>] = count[<<a, b>>]
           /\ made'[<<a, b>>] = made[<<a, b>>]
  BY <1>1, <1>3, <1>4, <1>5
<1> QED BY <1>8, <1>9, <1>10, <1>11, CellByCell

\* A process that reads the counter takes a value that leaves room for all the
\* pending increments, its own included.
LEMMA ReadCount ==
    ASSUME TypeOK, CountInv, NEW w \in Procs, Find(w),
           job[w].post \in IdsOf(posts)
    PROVE  CountInv'
<1> DEFINE k == job[w].kind
           p == job[w].post
           P == InSave(pc, job, k, p)
<1>1. k \in Kinds /\ p \in Ids BY DEF TypeOK, Jobs
<1>2. /\ pc[w] = "find"
      /\ pc' = [pc EXCEPT ![w] = "update"]
      /\ job' = [job EXCEPT ![w] = [kind |-> k, post |-> p, snap |-> count[<<k, p>>]]]
      /\ UNCHANGED <<count, made, mishaps>>
  BY DEF Find, tables
<1>3. /\ pc'[w] = "update" /\ job'[w].kind = k /\ job'[w].post = p
      /\ job'[w].snap = count[<<k, p>>]
      /\ \A v \in Procs : v # w => pc'[v] = pc[v] /\ job'[v] = job[v]
  BY <1>2 DEF TypeOK
<1>4. ASSUME NEW a, NEW b PROVE InSave(pc', job', a, b) = InSave(pc, job, a, b)
  BY <1>2, <1>3 DEF InSave
<1>5. \A a, b : w \in InSave(pc, job, a, b) => <<a, b>> = <<k, p>>
  BY DEF InSave
<1>6. \A a, b : InSave(pc, job, a, b) \subseteq Procs BY DEF InSave
<1>7. ASSUME CellBound(pc, job, count, made, k, p)
      PROVE  CellBound(pc', job', count', made', k, p)
  <2>1. /\ count[<<k, p>>] + Cardinality(P) <= made[<<k, p>>]
        /\ \A v \in P : job[v].snap + Cardinality(P) <= made[<<k, p>>]
    BY <1>7 DEF CellBound
  <2>2. \A v \in P : job'[v].snap + Cardinality(P) <= made[<<k, p>>]
    BY <2>1, <1>3, <1>6
  <2> QED BY <2>1, <2>2, <1>2, <1>4 DEF CellBound
<1>8. ASSUME CellSerial(pc, job, count, made, k, p)
      PROVE  CellSerial(pc', job', count', made', k, p)
  <2>1. /\ \A v, x \in P : v = x
        /\ count[<<k, p>>] + Cardinality(P) = made[<<k, p>>]
        /\ \A v \in P : pc[v] = "update" => job[v].snap = count[<<k, p>>]
    BY <1>8 DEF CellSerial
  <2>2. \A v \in P : pc'[v] = "update" => job'[v].snap = count[<<k, p>>]
    BY <2>1, <1>3, <1>6
  <2>3. InSave(pc', job', k, p) = P /\ count' = count /\ made' = made
    BY <1>2, <1>4
  <2> QED BY <2>1, <2>2, <2>3 DEF CellSerial
<1>9. \A a \in Kinds, b \in Ids : <<a, b>> # <<k, p>> =>
          /\ InSave(pc', job', a, b) = InSave(pc, job, a, b)
          /\ \A v \in InSave(pc, job, a, b) : pc'[v] = pc[v] /\ job'[v] = job[v]
          /\ count'[<<a, b>>] = count[<<a, b>>]
          /\ made'[<<a, b>>] = made[<<a, b>>]
  BY <1>2, <1>3, <1>4, <1>5, <1>6
<1> QED BY <1>1, <1>2, <1>7, <1>8, <1>9, CellByCell

\* A save that ends without counting troubles its cell and lowers what is owed.
LEMMA DropCount ==
    ASSUME TypeOK, CountInv, NEW w \in Procs, NEW cause \in Causes,
           pc[w] # "idle", pc' = [pc EXCEPT ![w] = "idle"],
           UNCHANGED <<job, count, made>>,
           mishaps' = mishaps \cup {<<cause, job[w].kind, job[w].post>>}
    PROVE  CountInv'
<1> DEFINE k == job[w].kind
           p == job[w].post
           P == InSave(pc, job, k, p)
           Q == InSave(pc', job, k, p)
<1>1. k \in Kinds /\ p \in Ids BY DEF TypeOK, Jobs
<1>2. /\ Q = P \ {w}
      /\ w \in P
      /\ Cardinality(Q) = Cardinality(P) - 1
      /\ \A a, b : <<a, b>> # <<k, p>> =>
             InSave(pc', job, a, b) = InSave(pc, job, a, b)
  BY <1>1, Leave
<1>3. Cardinality(P) \in Nat BY SavesCount
<1>4. /\ \A v \in P : job[v].snap \in Nat
      /\ count[<<k, p>>] \in Nat /\ made[<<k, p>>] \in Nat
  BY <1>1 DEF TypeOK, Cells, InSave, Jobs
<1>5. ASSUME CellBound(pc, job, count, made, k, p)
      PROVE  CellBound(pc', job', count', made', k, p)
  <2>1. /\ count[<<k, p>>] + Cardinality(P) <= made[<<k, p>>]
        /\ \A v \in P : job[v].snap + Cardinality(P) <= made[<<k, p>>]
    BY <1>5 DEF CellBound
  <2>2. count[<<k, p>>] + Cardinality(Q) <= made[<<k, p>>]
    BY <2>1, <1>2, <1>3, <1>4
  <2>3. ASSUME NEW v \in Q
        PROVE  job[v].snap + Cardinality(Q) <= made[<<k, p>>]
    <3>1. v \in P /\ job[v].snap \in Nat BY <1>2, <1>4
    <3> QED BY <3>1, <2>1, <1>2, <1>3, <1>4
  <2> QED BY <2>2, <2>3 DEF CellBound
<1>6. \A v \in Procs : v # w => pc'[v] = pc[v] BY DEF TypeOK
<1>7. \A a, b : <<a, b>> # <<k, p>> =>
          w \notin InSave(pc, job, a, b) /\ InSave(pc, job, a, b) \subseteq Procs
  BY DEF InSave
<1>8. ASSUME NEW a \in Kinds, NEW b \in Ids, <<a, b>> # <<k, p>>
      PROVE  /\ InSave(pc', job', a, b) = InSave(pc, job, a, b)
             /\ \A v \in InSave(pc, job, a, b) : pc'[v] = pc[v] /\ job'[v] = job[v]
             /\ count'[<<a, b>>] = count[<<a, b>>]
             /\ made'[<<a, b>>] = made[<<a, b>>]
  <2>1. InSave(pc', job', a, b) = InSave(pc, job, a, b) BY <1>8, <1>2
  <2>2. \A v \in InSave(pc, job, a, b) : pc'[v] = pc[v] BY <1>8, <1>6, <1>7
  <2> QED BY <2>1, <2>2
<1> QED BY <1>1, <1>5, <1>8, CellByCell

\* A process that writes back its value plus one settles exactly one of the
\* increments that are owed.
LEMMA WriteCount ==
    ASSUME TypeOK, CountInv, NEW w \in Procs, Update(w),
           job[w].post \in IdsOf(posts)
    PROVE  CountInv'
<1> DEFINE k == job[w].kind
           p == job[w].post
           P == InSave(pc, job, k, p)
           Q == InSave(pc', job, k, p)
<1>1. k \in Kinds /\ p \in Ids /\ job[w].snap \in Nat BY DEF TypeOK, Jobs
<1>2. /\ pc[w] = "update"
      /\ pc' = [pc EXCEPT ![w] = "idle"]
      /\ count' = [count EXCEPT ![<<k, p>>] = job[w].snap + 1]
      /\ UNCHANGED <<job, made, mishaps>>
  BY DEF Update, Incremented
<1>3. /\ Q = P \ {w}
      /\ w \in P
      /\ Cardinality(Q) = Cardinality(P) - 1
      /\ \A a, b : <<a, b>> # <<k, p>> =>
             InSave(pc', job, a, b) = InSave(pc, job, a, b)
  BY <1>1, <1>2, Leave
<1>4. Cardinality(P) \in Nat BY SavesCount
<1>5. /\ \A v \in P : job[v].snap \in Nat
      /\ count[<<k, p>>] \in Nat /\ made[<<k, p>>] \in Nat
  BY <1>1 DEF TypeOK, Cells, InSave, Jobs
<1>6. /\ count'[<<k, p>>] = job[w].snap + 1
      /\ \A a \in Kinds, b \in Ids :
             <<a, b>> # <<k, p>> => count'[<<a, b>>] = count[<<a, b>>]
  BY <1>1, <1>2 DEF TypeOK, Cells
<1>7. ASSUME CellBound(pc, job, count, made, k, p)
      PROVE  CellBound(pc', job', count', made', k, p)
  <2>1. \A v \in P : job[v].snap + Cardinality(P) <= made[<<k, p>>]
    BY <1>7 DEF CellBound
  <2>2. count'[<<k, p>>] + Cardinality(Q) <= made[<<k, p>>]
    BY <2>1, <1>1, <1>3, <1>4, <1>5, <1>6
  <2>3. \A v \in Q : job[v].snap + Cardinality(Q) <= made[<<k, p>>]
    BY <2>1, <1>3, <1>4, <1>5
  <2> QED BY <1>2, <2>2, <2>3 DEF CellBound
<1>8. ASSUME CellSerial(pc, job, count, made, k, p)
      PROVE  CellSerial(pc', job', count', made', k, p)
  <2>1. /\ \A v, x \in P : v = x
        /\ count[<<k, p>>] + Cardinality(P) = made[<<k, p>>]
        /\ job[w].snap = count[<<k, p>>]
    BY <1>2, <1>3, <1>8 DEF CellSerial
  <2>2. Q = {} BY <2>1, <1>3
  <2>3. count'[<<k, p>>] + Cardinality(Q) = made[<<k, p>>]
    BY <2>1, <1>3, <1>4, <1>5, <1>6
  <2> QED BY <1>2, <2>2, <2>3 DEF CellSerial
<1>9. \A v \in Procs : v # w => pc'[v] = pc[v] BY <1>2 DEF TypeOK
<1>10. \A a, b : <<a, b>> # <<k, p>> =>
           w \notin InSave(pc, job, a, b) /\ InSave(pc, job, a, b) \subseteq Procs
  BY DEF InSave
<1>11. ASSUME NEW a \in Kinds, NEW b \in Ids, <<a, b>> # <<k, p>>
      PROVE  /\ InSave(pc', job', a, b) = InSave(pc, job, a, b)
             /\ \A v \in InSave(pc, job, a, b) : pc'[v] = pc[v] /\ job'[v] = job[v]
             /\ count'[<<a, b>>] = count[<<a, b>>]
             /\ made'[<<a, b>>] = made[<<a, b>>]
  <2>1. InSave(pc', job', a, b) = InSave(pc, job, a, b) BY <1>11, <1>2, <1>3
  <2>2. \A v \in InSave(pc, job, a, b) : pc'[v] = pc[v] BY <1>11, <1>9, <1>10
  <2>3. count'[<<a, b>>] = count[<<a, b>>] BY <1>11, <1>6
  <2> QED BY <2>1, <2>2, <2>3, <1>2
<1> QED BY <1>1, <1>2, <1>7, <1>8, <1>11, CellByCell

\* Deleting a user resets the counters of the posts that go with it, and
\* troubles them.
LEMMA DeleteCounts ==
    ASSUME TypeOK, CountInv, NEW u \in Ids, Delete(u)
    PROVE  CountInv'
<1> DEFINE gone == IdsOf(DeadPosts(u))
<1>1. UNCHANGED <<pc, job, made>> BY DEF Delete
<1>2. \A k \in Kinds, p \in Ids :
          count'[<<k, p>>] = IF p \in gone THEN 0 ELSE count[<<k, p>>]
  BY DEF Delete, Cells
<1>3. \A k \in Kinds, p \in gone : <<"nopost", k, p>> \in mishaps'
  BY DEF Delete
<1>4. mishaps \subseteq mishaps' BY DEF Delete
<1>5. \A k \in Kinds, p \in Ids : count[<<k, p>>] \in Nat /\ made[<<k, p>>] \in Nat
  BY DEF TypeOK, Cells
<1>6. CountBound'
  <2> SUFFICES ASSUME NEW k \in Kinds, NEW p \in Ids
               PROVE  CellBound(pc', job', count', made', k, p)
    BY DEF CountBound, CellBound, Pending
  <2>1. CellBound(pc, job, count, made, k, p)
    BY DEF CountInv, CountBound, CellBound, Pending
  <2>2. Cardinality(InSave(pc, job, k, p)) \in Nat BY SavesCount
  <2>3. count'[<<k, p>>] \in Nat /\ count'[<<k, p>>] <= count[<<k, p>>]
    BY <1>2, <1>5
  <2>4. count'[<<k, p>>] + Cardinality(InSave(pc, job, k, p)) <= made[<<k, p>>]
    BY <2>1, <2>2, <2>3, <1>5 DEF CellBound
  <2> QED BY <2>1, <2>4, <1>1 DEF CellBound
<1>7. SerialInv'
  <2> SUFFICES ASSUME NEW k \in Kinds, NEW p \in Ids,
                      \A c \in Causes : <<c, k, p>> \notin mishaps'
               PROVE  CellSerial(pc', job', count', made', k, p)
    BY DEF SerialInv, CellSerial, Pending, Untroubled
  <2>1. p \notin gone BY <1>3 DEF Causes
  <2>2. CellSerial(pc, job, count, made, k, p)
    BY <1>4 DEF CountInv, SerialInv, CellSerial, Pending, Untroubled
  <2>3. count'[<<k, p>>] = count[<<k, p>>] BY <2>1, <1>2
  <2> QED BY <2>2, <2>3, <1>1 DEF CellSerial
<1> QED BY <1>6, <1>7 DEF CountInv

\* Every step keeps the counters within what was stored.
LEMMA CountStep == TypeOK /\ CountInv /\ [Next]_vars => CountInv'
<1> SUFFICES ASSUME TypeOK, CountInv, [Next]_vars PROVE CountInv'
    OBVIOUS
<1>1. ASSUME NEW w \in Workers, NEW p \in LikeTargets, Like(w, p) PROVE CountInv'
  <2>1. w \in Procs /\ p \in Ids /\ 1 \in Ids
    BY EngagementAssumption DEF Procs, Ids
  <2> QED BY <1>1, <2>1, SaveCount DEF Like, Kinds
<1>2. ASSUME NEW w \in Procs, Find(w) PROVE CountInv'
  <2>1. CASE job[w].post \in IdsOf(posts) BY <1>2, <2>1, ReadCount
  <2>2. CASE job[w].post \notin IdsOf(posts)
    <3>1. /\ pc[w] # "idle" /\ pc' = [pc EXCEPT ![w] = "idle"]
          /\ UNCHANGED <<job, count, made>>
          /\ mishaps' = mishaps \cup {<<"nopost", job[w].kind, job[w].post>>}
      BY <1>2, <2>2 DEF Find, tables
    <3> QED BY <3>1, DropCount DEF Causes
  <2> QED BY <2>1, <2>2
<1>3. ASSUME NEW w \in Procs, Update(w) PROVE CountInv'
  <2>1. CASE job[w].post \in IdsOf(posts) BY <1>3, <2>1, WriteCount
  <2>2. CASE job[w].post \notin IdsOf(posts)
    <3>1. /\ pc[w] # "idle" /\ pc' = [pc EXCEPT ![w] = "idle"]
          /\ UNCHANGED <<job, count, made>>
          /\ mishaps' = mishaps \cup {<<"nopost", job[w].kind, job[w].post>>}
      BY <1>3, <2>2 DEF Update
    <3> QED BY <3>1, DropCount DEF Causes
  <2> QED BY <2>1, <2>2
<1>4. ASSUME NEW w \in Workers, WorkerDies(w) PROVE CountInv'
  <2>1. w \in Procs BY DEF Procs
  <2>2. /\ pc[w] # "idle" /\ pc' = [pc EXCEPT ![w] = "idle"]
        /\ UNCHANGED <<job, count, made>>
        /\ mishaps' = mishaps \cup {<<"death", job[w].kind, job[w].post>>}
    BY <1>4 DEF WorkerDies, tables
  <2> QED BY <2>1, <2>2, DropCount DEF Causes
<1>5. CASE Register BY <1>5, QuietCount DEF Register
<1>6. ASSUME NEW u \in Ids, Delete(u) PROVE CountInv' BY <1>6, DeleteCounts
<1>7. CASE Seed
  <2>1. ASSUME NEW k \in Kinds, NEW u \in 1..SeedRows, NEW p \in 1..SeedRows,
               SeedSave(k, u, p)
        PROVE  CountInv'
    <3>1. Seeder \in Procs /\ u \in Ids /\ p \in Ids BY ConstantFacts DEF Procs
    <3> QED BY <2>1, <3>1, SaveCount DEF SeedSave
  <2>2. CASE SeederDies
    <3>1. Seeder \in Procs BY DEF Procs
    <3>2. /\ pc' = [pc EXCEPT ![Seeder] = "idle"]
          /\ UNCHANGED <<job, count, made>>
      BY <2>2 DEF SeederDies, tables
    <3>3. CASE pc[Seeder] = "idle"
      <4>1. mishaps' = mishaps /\ pc' = pc
        BY <2>2, <3>2, <3>3 DEF SeederDies, TypeOK
      <4> QED BY <3>2, <4>1, QuietCount
    <3>4. CASE pc[Seeder] # "idle"
      <4>1. mishaps' = mishaps \cup {<<"death", job[Seeder].kind, job[Seeder].post>>}
        BY <2>2, <3>4 DEF SeederDies
      <4> QED BY <3>1, <3>2, <3>4, <4>1, DropCount DEF Causes
    <3> QED BY <3>3, <3>4
  <2>3. CASE SeedUser BY <2>3, QuietCount DEF SeedUser
  <2>4. ASSUME NEW u \in 1..FriendSplit, NEW f \in (FriendSplit + 1)..SeedRows,
               SeedFriend(u, f)
        PROVE  CountInv'
    BY <2>4, QuietCount DEF SeedFriend
  <2>5. ASSUME NEW u \in 1..VenueOwners, SeedVenue(u) PROVE CountInv'
    BY <2>5, QuietCount DEF SeedVenue
  <2>6. ASSUME NEW v \in 1..SeedRows, NEW u \in 1..SeedRows, SeedPost(v, u)
        PROVE  CountInv'
    BY <2>6, QuietCount DEF SeedPost
  <2>7. CASE StageEnd BY <2>7, QuietCount DEF StageEnd, tables
  <2>8. CASE SeedAbort BY <2>8, QuietCount DEF SeedAbort, tables
  <2> QED BY <1>7, <2>1, <2>2, <2>3, <2>4, <2>5, <2>6, <2>7, <2>8 DEF Seed
<1>8. CASE UNCHANGED vars BY <1>8, QuietCount DEF vars, tables
<1> QED BY <1>1, <1>2, <1>3, <1>4, <1>5, <1>6, <1>7, <1>8 DEF Next

\* No process is inside save() at the start, and nothing has been stored.
LEMMA CountInit == Init => CountInv
<1> SUFFICES ASSUME Init PROVE CountInv
    OBVIOUS
<1>1. \A k \in Kinds, p \in Ids : Pending(k, p) = {}
  BY DEF Init, Pending, InSave
<1>2. Cardinality({}) = 0 BY FS_EmptySet
<1>3. \A k \in Kinds, p \in Ids : count[<<k, p>>] = 0 /\ made[<<k, p>>] = 0
  BY DEF Init, Cells
<1>4. CountBound
  <2> SUFFICES ASSUME NEW k \in Kinds, NEW p \in Ids
               PROVE  /\ count[<<k, p>>] + Cardinality(Pending(k, p)) <= made[<<k, p>>]
                      /\ \A w \in Pending(k, p) :
                             job[w].snap + Cardinality(Pending(k, p)) <= made[<<k, p>>]
    BY DEF CountBound
  <2>1. Pending(k, p) = {} /\ Cardinality(Pending(k, p)) = 0 BY <1>1, <1>2
  <2>2. count[<<k, p>>] = 0 /\ made[<<k, p>>] = 0 BY <1>3
  <2> QED BY <2>1, <2>2
<1>5. SerialInv BY <1>1, <1>2, <1>3 DEF SerialInv
<1> QED BY <1>4, <1>5 DEF CountInv

\* The counters of Post, and the values makeLike and makeComment have yet to
\* write back, stay within the rows stored, in every interleaving.
THEOREM CountsBounded == Spec => []CountBound
<1>1. Init => TypeOK /\ CountInv BY TypeInit, CountInit
<1>2. TypeOK /\ CountInv /\ [Next]_vars => (TypeOK /\ CountInv)'
  BY TypeStep, CountStep
<1>3. TypeOK /\ CountInv => CountBound BY DEF CountInv
<1> QED BY <1>1, <1>2, <1>3, PTL DEF Spec

\* Saves that do not overlap, do not die and find their post are all counted.
THEOREM SerialSavesCounted == Spec => []SerialExact
<1>1. Init => TypeOK /\ CountInv BY TypeInit, CountInit
<1>2. TypeOK /\ CountInv /\ [Next]_vars => (TypeOK /\ CountInv)'
  BY TypeStep, CountStep
<1>3. TypeOK /\ CountInv => SerialExact
  <2> SUFFICES ASSUME TypeOK, CountInv, NEW k \in Kinds, NEW p \in IdsOf(posts),
                      Untroubled(k, p), Pending(k, p) = {}
               PROVE  count[<<k, p>>] = made[<<k, p>>]
    BY DEF SerialExact
  <2>1. p \in Ids BY DEF TypeOK, IdsOf, PostRows
  <2>2. count[<<k, p>>] + Cardinality(Pending(k, p)) = made[<<k, p>>]
    BY <2>1 DEF CountInv, SerialInv
  <2>3. Cardinality(Pending(k, p)) = 0 BY FS_EmptySet
  <2>4. count[<<k, p>>] \in Nat /\ made[<<k, p>>] \in Nat
    BY <2>1 DEF TypeOK, Cells
  <2> QED BY <2>2, <2>3, <2>4
<1> QED BY <1>1, <1>2, <1>3, PTL DEF Spec

-----------------------------------------------------------------------------
(***************************************************************************)
(* The references between the tables.                                      *)
(***************************************************************************)

\* An INSERT that the foreign keys accept refers to rows that exist.
LEMMA SaveRefs ==
    ASSUME TypeOK, ReferentialIntegrity, NEW w, NEW k \in Kinds, NEW u \in Ids,
           NEW p \in Ids, Save(w, k, u, p)
    PROVE  ReferentialIntegrity'
<1>1. UNCHANGED <<users, friends, venues, posts>> BY DEF Save
<1>2. ASSUME NEW a \in Ids, NEW b \in Ids, NEW c \in Kinds, rows'[<<c, a, b>>] > 0
      PROVE  ForeignKeysHold(c, a, b)
  <2>1. CASE <<c, a, b>> = <<k, u, p>>
    <3>1. c = k /\ a = u /\ b = p BY <2>1
    <3> QED BY <3>1 DEF Save
  <2>2. CASE <<c, a, b>> # <<k, u, p>>
    <3>1. rows'[<<c, a, b>>] = rows[<<c, a, b>>] BY <2>2 DEF Save, TypeOK
    <3> QED BY <1>2, <3>1 DEF ReferentialIntegrity, ForeignKeysHold, Kinds
  <2> QED BY <2>1, <2>2
<1>3. ASSUME NEW a \in Ids, NEW b \in Ids
      PROVE  /\ rows'[<<"comment", a, b>>] > 0 => a \in users /\ b \in IdsOf(posts)
             /\ rows'[<<"like", a, b>>] > 0 => a \in users /\ b \in users
  BY <1>2 DEF ForeignKeysHold, Kinds
<1> QED BY <1>1, <1>3 DEF ReferentialIntegrity, IdsOf

\* The cascade of User::destroy leaves no row behind that refers to a row it
\* removed.
LEMMA DeleteRefs ==
    ASSUME TypeOK, ReferentialIntegrity, NEW u \in Ids, Delete(u)
    PROVE  ReferentialIntegrity'
<1>1. /\ users' = users \ {u}
      /\ friends' = {f \in friends : f[1] # u /\ f[2] # u}
      /\ venues' = venues \ DeadVenues(u)
      /\ posts' = posts \ DeadPosts(u)
  BY DEF Delete
<1>2. \A v \in venues' : v.user_id \in users'
  BY <1>1 DEF ReferentialIntegrity, DeadVenues
<1>3. ASSUME NEW p \in posts' PROVE p.user_id \in users' /\ p.venue_id \in IdsOf(venues')
  <2>1. p \in posts /\ p.user_id # u /\ p.venue_id \notin IdsOf(DeadVenues(u))
    BY <1>1 DEF DeadPosts
  <2>2. PICK v \in venues : v.id = p.venue_id
    BY <2>1 DEF ReferentialIntegrity, IdsOf
  <2>3. v \notin DeadVenues(u) BY <2>1, <2>2 DEF IdsOf
  <2>4. v \in venues' BY <1>1, <2>3
  <2>5. p.venue_id \in IdsOf(venues') BY <2>2, <2>4 DEF IdsOf
  <2> QED BY <1>1, <2>1, <2>5 DEF ReferentialIntegrity
<1>4. \A f \in friends' : f[1] \in users' /\ f[2] \in users'
  BY <1>1 DEF ReferentialIntegrity
<1>5. ASSUME NEW a \in Ids, NEW p \in Ids, NEW k \in Kinds, rows'[<<k, a, p>>] > 0
      PROVE  ~DeadSave(k, a, p, u) /\ rows[<<k, a, p>>] > 0
  <2>1. rows'[<<k, a, p>>] = IF DeadSave(k, a, p, u) THEN 0 ELSE rows[<<k, a, p>>]
    BY DEF Delete
  <2> QED BY <1>5, <2>1
<1>6. ASSUME NEW a \in Ids, NEW p \in Ids, rows'[<<"comment", a, p>>] > 0
      PROVE  a \in users' /\ p \in IdsOf(posts')
  <2>1. ~DeadSave("comment", a, p, u) /\ rows[<<"comment", a, p>>] > 0
    BY <1>5, <1>6 DEF Kinds
  <2>2. a # u /\ p \notin IdsOf(DeadPosts(u)) BY <2>1 DEF DeadSave
  <2>3. PICK q \in posts : q.id = p
    BY <2>1 DEF ReferentialIntegrity, IdsOf
  <2>4. q \in posts' BY <1>1, <2>2, <2>3 DEF IdsOf
  <2>5. p \in IdsOf(posts') BY <2>3, <2>4 DEF IdsOf
  <2> QED BY <1>1, <2>1, <2>2, <2>5 DEF ReferentialIntegrity
<1>7. ASSUME NEW a \in Ids, NEW p \in Ids, rows'[<<"like", a, p>>] > 0
      PROVE  a \in users' /\ p \in users'
  <2>1. ~DeadSave("like", a, p, u) /\ rows[<<"like", a, p>>] > 0
    BY <1>5, <1>7 DEF Kinds
  <2> QED BY <1>1, <2>1 DEF DeadSave, ReferentialIntegrity
<1> QED BY <1>2, <1>3, <1>4, <1>6, <1>7 DEF ReferentialIntegrity, IdsOf

\* Every step keeps the references alive.
LEMMA RefsStep == TypeOK /\ ReferentialIntegrity /\ [Next]_vars => ReferentialIntegrity'
<1> SUFFICES ASSUME TypeOK, ReferentialIntegrity, [Next]_vars
             PROVE  ReferentialIntegrity'
    OBVIOUS
<1>1. ASSUME NEW w \in Workers, NEW p \in LikeTargets, Like(w, p)
      PROVE  ReferentialIntegrity'
  <2>1. p \in Ids /\ 1 \in Ids BY EngagementAssumption DEF Ids
  <2> QED BY <1>1, <2>1, SaveRefs DEF Like, Kinds
<1>2. ASSUME UNCHANGED <<users, friends, venues, posts, rows>>
      PROVE  ReferentialIntegrity'
  BY <1>2 DEF ReferentialIntegrity
<1>3. ASSUME NEW w \in Procs, Find(w) \/ Update(w) PROVE ReferentialIntegrity'
  BY <1>2, <1>3 DEF Find, Update, tables
<1>4. ASSUME NEW w \in Workers, WorkerDies(w) PROVE ReferentialIntegrity'
  BY <1>2, <1>4 DEF WorkerDies, tables
<1>5. CASE Register BY <1>5 DEF Register, ReferentialIntegrity
<1>6. ASSUME NEW u \in Ids, Delete(u) PROVE ReferentialIntegrity'
  BY <1>6, DeleteRefs
<1>7. CASE Seed
  <2>1. ASSUME NEW k \in Kinds, NEW u \in 1..SeedRows, NEW p \in 1..SeedRows,
               SeedSave(k, u, p)
        PROVE  ReferentialIntegrity'
    <3>1. u \in Ids /\ p \in Ids BY ConstantFacts
    <3> QED BY <2>1, <3>1, SaveRefs DEF SeedSave
  <2>2. CASE SeedUser BY <2>2 DEF SeedUser, ReferentialIntegrity
  <2>3. ASSUME NEW u, NEW f, SeedFriend(u, f) PROVE ReferentialIntegrity'
    BY <2>3 DEF SeedFriend, ReferentialIntegrity
  <2>4. ASSUME NEW u, SeedVenue(u) PROVE ReferentialIntegrity'
    <3>1. IdsOf(venues) \subseteq IdsOf(venues') BY <2>4 DEF SeedVenue, IdsOf
    <3>2. UNCHANGED <<users, friends, posts, rows>> BY <2>4 DEF SeedVenue
    <3>3. \A x \in venues' : x.user_id \in users
      BY <2>4 DEF SeedVenue, ReferentialIntegrity
    <3>4. \A x \in posts : x.user_id \in users /\ x.venue_id \in IdsOf(venues')
      BY <3>1 DEF ReferentialIntegrity
    <3> QED BY <3>2, <3>3, <3>4 DEF ReferentialIntegrity, IdsOf
  <2>5. ASSUME NEW v, NEW u, SeedPost(v, u) PROVE ReferentialIntegrity'
    <3>1. IdsOf(posts) \subseteq IdsOf(posts') BY <2>5 DEF SeedPost, IdsOf
    <3>2. UNCHANGED <<users, friends, venues, rows>> BY <2>5 DEF SeedPost
    <3>3. \A x \in posts' : x.user_id \in users /\ x.venue_id \in IdsOf(venues)
      BY <2>5 DEF SeedPost, ReferentialIntegrity
    <3>4. \A a, b \in Ids :
              rows[<<"comment", a, b>>] > 0 => a \in users /\ b \in IdsOf(posts')
      BY <3>1 DEF ReferentialIntegrity
    <3> QED BY <3>2, <3>3, <3>4 DEF ReferentialIntegrity, IdsOf
  <2>6. CASE StageEnd BY <1>2, <2>6 DEF StageEnd, tables
  <2>7. CASE SeedAbort BY <1>2, <2>7 DEF SeedAbort, tables
  <2>8. CASE SeederDies BY <1>2, <2>8 DEF SeederDies, tables
  <2> QED BY <1>7, <2>1, <2>2, <2>3, <2>4, <2>5, <2>6, <2>7, <2>8 DEF Seed
<1>8. CASE UNCHANGED vars BY <1>2, <1>8 DEF vars, tables
<1> QED BY <1>1, <1>3, <1>4, <1>5, <1>6, <1>7, <1>8 DEF Next

\* No row of the database refers to a row that does not exist.
THEOREM ReferencesHold == Spec => []ReferentialIntegrity
<1>1. Init => TypeOK /\ ReferentialIntegrity
  <2>1. Init => ReferentialIntegrity BY DEF Init, ReferentialIntegrity, Kinds
  <2> QED BY <2>1, TypeInit
<1>2. TypeOK /\ ReferentialIntegrity /\ [Next]_vars
          => (TypeOK /\ ReferentialIntegrity)'
  BY TypeStep, RefsStep
<1> QED BY <1>1, <1>2, PTL DEF Spec
=============================================================================
