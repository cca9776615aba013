--------------------------- MODULE PersistenceProofs ---------------------------
(* Theorems about Persistence, for any number of databases, writes, rewrites,  *)
(* saves, switches and faults: the log is complete, writes that were answered  *)
(* survive, and dirty counts what dump.rdb does not have.                      *)
EXTENDS Persistence, FiniteSetTheorems, NaturalsInduction, SequenceTheorems,
        WellFoundedInduction, TLAPS

-----------------------------------------------------------------------------
(* Types *)

DataSet == [Databases -> Seq(Nat)]
RdbChild == [phase : {"saving", "done", "failed", "killed"}, snap : DataSet]
Memory ==
  [data : DataSet, old : SUBSET Nat, acked : SUBSET Nat, dirty : Nat, before : Nat, bgsave : {"ok", "err"},
   rdb : {None} \cup RdbChild, state : {"off", "wait", "on"}, fd : {"none", "closed", "open"},
   selected : Databases \cup {-1}, buf : File, status : {"ok", "err"}, postponed : BOOLEAN, jobs : Seq(Nat),
   child : {None} \cup AofChild, rewrite : File, pipe : File, stop : BOOLEAN, scheduled : BOOLEAN,
   renamed : BOOLEAN]
DiskRecord == [aof : File, synced : Nat, gen : Nat, dump : DataSet, spoilt : BOOLEAN]
PlanRecord == [fsync : Policies, lazy : BOOLEAN, aof : BOOLEAN, left : [Kinds -> Nat]]

\* The memory, the disk and the plan are well typed, and no more is synced than there is.
DiskTypeOK ==
  /\ mem \in {None} \cup Memory
  /\ disk \in DiskRecord /\ disk.synced <= Len(disk.aof)
  /\ plan \in PlanRecord

-----------------------------------------------------------------------------
(* The inductive invariant *)

Sets(f) == {f[i].arg : i \in Complete(f)}
\* The file ends with a complete command.
Closed(f) == f # << >> => f[Len(f)].half = 2
\* Loading f makes the data set, and leaves the database selected that the server
\* takes for the selected one.
Makes(f, data, sel) ==
  /\ WellFormed(f) /\ Closed(f)
  /\ Loaded(f) = data
  /\ sel # -1 => Replayed(f).db = sel

\* The log and the buffer, unless a failed stop spoilt them; the new file of a child
LogInv(m, d) ==
  /\ m.state # "off" => m.fd = "open"
  /\ ~d.spoilt /\ m.state # "on" => m.buf = << >>
  /\ ~d.spoilt /\ m.state = "on" => Makes(d.aof \o m.buf, m.data, m.selected)
ChildInv(m) ==
  /\ m.child = None => m.rewrite = << >>
  /\ m.child # None => /\ m.child.phase \in {"answered", "done"} => m.stop
                       /\ WellFormed(Pending(m)) /\ Closed(Pending(m))
                       /\ m.state # "off" => Makes(Pending(m), m.data, m.selected)
FileInv(d) == ~d.spoilt => WellFormed(d.aof)

\* Where the writes are, also when the log is spoilt; always tells whether every
\* flush is synced.  Between the rename of a rewritten file and its fsync the new file
\* has everything, but only a part of it is synced.
Durable(d) == Sets(SubSeq(d.aof, 1, d.synced))
AckInv(m, d, always) ==
  /\ m.acked \subseteq Writes(m.data) \ m.old
  /\ m.renamed => m.buf = << >>
  /\ m.state = "on" =>
       /\ Writes(m.data) \subseteq Sets(d.aof) \cup Sets(m.buf)
       /\ m.status = "ok" /\ ~m.postponed => m.acked \subseteq Sets(d.aof)
       /\ always /\ ~m.renamed => /\ Writes(m.data) \ m.old \subseteq Durable(d) \cup Sets(m.buf)
                                  /\ m.acked \subseteq Durable(d)
Always == plan.fsync = "always" /\ ~plan.lazy

\* What dirty and dirty_before_bgsave tell while a child saves
Unsaved(m, data) == Cardinality(Writes(m.data) \ Writes(data))
DirtyInv(m, d) ==
  /\ Unsaved(m, d.dump) <= m.dirty
  /\ m.rdb # None => /\ m.before <= m.dirty
                     /\ m.rdb.phase = "saving" => Unsaved(m, m.rdb.snap) <= m.dirty - m.before
                     /\ m.rdb.phase = "done" => Unsaved(m, d.dump) <= m.dirty - m.before

DiskGood(d) == d \in DiskRecord /\ d.synced <= Len(d.aof) /\ FileInv(d)
MemGood(m, d, always) ==
  m \in Memory /\ LogInv(m, d) /\ ChildInv(m) /\ AckInv(m, d, always) /\ DirtyInv(m, d)
DiskInv ==
  /\ plan \in PlanRecord
  /\ DiskGood(disk)
  /\ mem = None \/ MemGood(mem, disk, Always)

-----------------------------------------------------------------------------
(* Induction: a set of numbers that is not empty has a smallest member. *)

LEMMA Smallest ==
  ASSUME NEW I \in SUBSET Nat, I # {}
  PROVE  \E x \in I : \A y \in I : x <= y
<1>1. PICK x \in I : \A y \in I : ~(<<y, x>> \in OpToRel(<, Nat))
  BY NatLessThanWellFounded, WFMin
<1>2. \A y \in I : ~(y < x) BY <1>1 DEF OpToRel
<1>3. \A y \in I : x <= y BY <1>2
<1> QED BY <1>3

-----------------------------------------------------------------------------
(* Sequences *)

LEMMA ConcatParts ==
  ASSUME NEW S, NEW f \in Seq(S), NEW g \in Seq(S)
  PROVE  /\ f \o g \in Seq(S) /\ Len(f \o g) = Len(f) + Len(g)
         /\ Len(f) \in Nat /\ Len(g) \in Nat
         /\ \A i \in 1..Len(f) : (f \o g)[i] = f[i]
         /\ \A i \in 1..Len(g) : (f \o g)[Len(f) + i] = g[i]
OBVIOUS

LEMMA ConcatAssoc ==
  ASSUME NEW S, NEW f \in Seq(S), NEW g \in Seq(S), NEW h \in Seq(S)
  PROVE  (f \o g) \o h = f \o (g \o h)
OBVIOUS

LEMMA ConcatEmpty ==
  ASSUME NEW S, NEW f \in Seq(S)
  PROVE  f \o << >> = f /\ << >> \o f = f
OBVIOUS

LEMMA FileConcat ==
  /\ << >> \in File
  /\ \A f \in File : f \o << >> = f /\ << >> \o f = f
  /\ \A f, g \in File : f \o g \in File
  /\ \A f, g, h \in File : (f \o g) \o h = f \o (g \o h)
BY ConcatParts, ConcatAssoc, ConcatEmpty DEF File

LEMMA FileLen == \A f \in File : Len(f) \in Nat
BY DEF File

LEMMA ConcatLonger ==
  \A f, g \in File, s \in Nat : s <= Len(f) => s <= Len(f \o g)
<1> SUFFICES ASSUME NEW f \in File, NEW g \in File, NEW s \in Nat, s <= Len(f) PROVE s <= Len(f \o g) OBVIOUS
<1> DEFINE x == Len(f)
           y == Len(g)
<1>1. x \in Nat /\ y \in Nat /\ Len(f \o g) = x + y BY ConcatParts DEF File
<1>2. s <= x OBVIOUS
<1> HIDE DEF x, y
<1> QED BY <1>1, <1>2

LEMMA AppendParts ==
  ASSUME NEW S, NEW f \in Seq(S), NEW u \in S
  PROVE  /\ Append(f, u) \in Seq(S) /\ Len(Append(f, u)) = Len(f) + 1 /\ Len(f) \in Nat
         /\ \A i \in 1..Len(f) : Append(f, u)[i] = f[i]
         /\ Append(f, u)[Len(f) + 1] = u
         /\ f \o <<u>> = Append(f, u)
OBVIOUS

LEMMA CutParts ==
  ASSUME NEW S, NEW f \in Seq(S), NEW k \in 0..Len(f)
  PROVE  /\ SubSeq(f, 1, k) \in Seq(S) /\ Len(SubSeq(f, 1, k)) = k
         /\ \A i \in 1..k : SubSeq(f, 1, k)[i] = f[i]
         /\ SubSeq(f, k + 1, Len(f)) \in Seq(S)
         /\ SubSeq(f, 1, k) \o SubSeq(f, k + 1, Len(f)) = f
<1>1. SubSeq(f, 1, k) \in Seq(S) /\ Len(SubSeq(f, 1, k)) = k /\ \A i \in 1..k : SubSeq(f, 1, k)[i] = f[i]
  OBVIOUS
<1>2. SubSeq(f, k + 1, Len(f)) \in Seq(S) OBVIOUS
<1>3. Len(f) \in Nat OBVIOUS
<1>4. 1 \in 1..(Len(f) + 1) /\ k \in (1 - 1)..Len(f) /\ Len(f) \in k..Len(f) BY <1>3
<1>5. SubSeq(f, 1, k) \o SubSeq(f, k + 1, Len(f)) = SubSeq(f, 1, Len(f)) BY <1>4, ConcatAdjacentSubSeq
<1> QED BY <1>1, <1>2, <1>5, SubSeqFull

LEMMA CutAll ==
  ASSUME NEW S, NEW f \in Seq(S)
  PROVE  SubSeq(f, 1, Len(f)) = f
OBVIOUS

-----------------------------------------------------------------------------
(* loadAppendOnlyFile, one unit after the other *)

Client == [db : Databases, data : DataSet]
NewClient == [db |-> 0, data |-> Nothing]
\* g[i] is the client after the first i units of f.
Replays(f, n, g) == g = [i \in 0..n |-> IF i = 0 THEN NewClient ELSE Execute(g[i - 1], f[i])]

LEMMA SomeReplay ==
  ASSUME NEW f, NEW n \in Nat
  PROVE  \E g : Replays(f, n, g)
<1> DEFINE Bad == {m \in Nat : ~ \E g : Replays(f, m, g)}
<1> SUFFICES ASSUME Bad # {} PROVE FALSE OBVIOUS
<1>1. PICK m \in Bad : \A y \in Bad : m <= y BY Smallest
<1>2. CASE m = 0
  <2>1. Replays(f, 0, [i \in 0..0 |-> NewClient]) BY DEF Replays
  <2> QED BY <2>1, <1>1, <1>2
<1>3. CASE m # 0
  <2>1. m - 1 \in Nat /\ m - 1 \notin Bad BY <1>1, <1>3
  <2>2. PICK g : Replays(f, m - 1, g) BY <2>1
  <2> DEFINE h == [i \in 0..m |-> IF i = m THEN Execute(g[m - 1], f[m]) ELSE g[i]]
  <2>3. Replays(f, m, h) BY <2>2, <1>3 DEF Replays
  <2> QED BY <2>3, <1>1
<1> QED BY <1>2, <1>3

LEMMA OneReplay ==
  ASSUME NEW f, NEW n \in Nat, NEW g, Replays(f, n, g),
         NEW e, NEW k \in 0..n, NEW h, Replays(e, k, h), \A i \in 1..k : e[i] = f[i]
  PROVE  \A i \in 0..k : g[i] = h[i]
<1> DEFINE Bad == {i \in 0..k : g[i] # h[i]}
<1> SUFFICES ASSUME Bad # {} PROVE FALSE OBVIOUS
<1>0. Bad \in SUBSET Nat OBVIOUS
<1>1. PICK m \in Bad : \A y \in Bad : m <= y BY <1>0, Smallest
<1>2. CASE m = 0 BY <1>1, <1>2 DEF Replays
<1>3. CASE m # 0
  <2>1. m - 1 \in 0..k /\ m - 1 \notin Bad /\ m \in 1..k BY <1>1, <1>3
  <2>2. g[m - 1] = h[m - 1] /\ e[m] = f[m] BY <2>1
  <2>3. g[m] = Execute(g[m - 1], f[m]) /\ h[m] = Execute(h[m - 1], e[m]) BY <2>1, <1>3 DEF Replays
  <2> QED BY <2>2, <2>3, <1>1
<1> QED BY <1>2, <1>3

LEMMA ReplayedIs ==
  ASSUME NEW f \in File
  PROVE  \E g : Replays(f, Len(f), g) /\ Replayed(f) = g[Len(f)]
<1> DEFINE g == CHOOSE g : Replays(f, Len(f), g)
<1>0. Len(f) \in Nat BY DEF File
<1>1. Replays(f, Len(f), g) BY <1>0, SomeReplay
<1>2. Replayed(f) = g[Len(f)] BY DEF Replayed, Replays, NewClient
<1> QED BY <1>1, <1>2

LEMMA ReplayedEmpty == Replayed(<< >>) = NewClient
<1>1. << >> \in File /\ Len(<< >>) = 0 BY DEF File
<1>2. PICK g : Replays(<< >>, 0, g) /\ Replayed(<< >>) = g[0] BY <1>1, ReplayedIs
<1> QED BY <1>2 DEF Replays

LEMMA ReplayedAppend ==
  ASSUME NEW f \in File, NEW u \in Unit
  PROVE  Replayed(Append(f, u)) = Execute(Replayed(f), u)
<1> DEFINE F == Append(f, u)
           n == Len(f)
<1>1. F \in File /\ Len(F) = n + 1 /\ n \in Nat /\ F[n + 1] = u /\ \A i \in 1..n : f[i] = F[i]
  BY AppendParts DEF File
<1> HIDE DEF F
<1>2. PICK g : Replays(F, n + 1, g) /\ Replayed(F) = g[n + 1] BY <1>1, ReplayedIs
<1>3. PICK h : Replays(f, n, h) /\ Replayed(f) = h[n] BY ReplayedIs
<1>4. g[n] = h[n]
  <2>1. n \in 0..(n + 1) /\ n \in 0..n /\ n + 1 \in Nat BY <1>1
  <2> QED BY <2>1, <1>1, <1>2, <1>3, OneReplay
<1>5. g[n + 1] = Execute(g[n], F[n + 1])
  <2>1. n + 1 \in 0..(n + 1) /\ n + 1 # 0 /\ (n + 1) - 1 = n BY <1>1
  <2> QED BY <2>1, <1>2 DEF Replays
<1> QED BY <1>1, <1>2, <1>3, <1>4, <1>5 DEF F

\* A beginning of a file is the next shorter one and one more unit.
LEMMA Beginnings ==
  ASSUME NEW f \in File, NEW k \in 1..Len(f)
  PROVE  /\ SubSeq(f, 1, k) \in File /\ SubSeq(f, 1, k - 1) \in File /\ f[k] \in Unit
         /\ SubSeq(f, 1, k) = Append(SubSeq(f, 1, k - 1), f[k])
<1>1. Len(f) \in Nat /\ k \in 0..Len(f) /\ k - 1 \in 0..Len(f) /\ f[k] \in Unit BY DEF File
<1>2. SubSeq(f, 1, k) \in File /\ SubSeq(f, 1, k - 1) \in File BY <1>1, CutParts DEF File
<1>3. 1 \in 1..Len(f) /\ k \in 1..Len(f) BY <1>1
<1>4. SubSeq(f, 1, k) = SubSeq(f, 1, k - 1) \o <<f[k]>> BY <1>3, SubSeqRecursiveSecond DEF File
<1> QED BY <1>1, <1>2, <1>4, AppendParts DEF File

LEMMA Zero == 0 \in Databases
BY PersistenceAssumption DEF Databases

LEMMA ExecuteType ==
  ASSUME NEW c \in Client, NEW u \in Unit
  PROVE  Execute(c, u) \in Client
<1>1. CASE u.half = 1 BY <1>1 DEF Execute
<1>2. CASE u.half # 1 /\ u.cmd = "select"
  <2>1. u.arg \in Databases BY <1>2 DEF Unit
  <2> QED BY <2>1, <1>2 DEF Execute, Client
<1>3. CASE u.half # 1 /\ u.cmd # "select"
  <2>1. u.arg \in Nat BY <1>3 DEF Unit
  <2>2. Append(c.data[c.db], u.arg) \in Seq(Nat) BY <2>1 DEF Client, DataSet
  <2> QED BY <2>2, <1>3 DEF Execute, Client, DataSet
<1> QED BY <1>1, <1>2, <1>3

\* The complete writes of a file, with one more unit
LEMMA SetsAppend ==
  ASSUME NEW f \in File, NEW u \in Unit
  PROVE  Sets(Append(f, u)) = Sets(f) \cup (IF u.cmd = "set" /\ u.half = 2 THEN {u.arg} ELSE {})
<1>1. /\ Len(Append(f, u)) = Len(f) + 1 /\ Len(f) \in Nat
      /\ \A i \in 1..Len(f) : Append(f, u)[i] = f[i]
      /\ Append(f, u)[Len(f) + 1] = u
  BY AppendParts DEF File
<1> QED BY <1>1 DEF Sets, Complete

\* A write adds itself to the data set.
Elements(q) == {q[i] : i \in 1..Len(q)}

LEMMA ElementsAppend ==
  ASSUME NEW q \in Seq(Nat), NEW n \in Nat
  PROVE  Append(q, n) \in Seq(Nat) /\ Elements(Append(q, n)) = Elements(q) \cup {n}
<1>1. /\ Len(Append(q, n)) = Len(q) + 1 /\ Len(q) \in Nat /\ Append(q, n) \in Seq(Nat)
      /\ \A i \in 1..Len(q) : Append(q, n)[i] = q[i]
      /\ Append(q, n)[Len(q) + 1] = n
  BY AppendParts
<1>2. Elements(Append(q, n)) \subseteq Elements(q) \cup {n} BY <1>1 DEF Elements
<1>3. Elements(q) \subseteq Elements(Append(q, n)) BY <1>1 DEF Elements
<1>4. n \in Elements(Append(q, n)) BY <1>1 DEF Elements
<1> QED BY <1>1, <1>2, <1>3, <1>4

LEMMA WritesAre ==
  ASSUME NEW data
  PROVE  \A n : n \in Writes(data) <=> \E d \in Databases : n \in Elements(data[d])
BY DEF Writes, Elements

LEMMA WritesAppend ==
  ASSUME NEW data \in DataSet, NEW d \in Databases, NEW n \in Nat
  PROVE  /\ [data EXCEPT ![d] = Append(@, n)] \in DataSet
         /\ Writes([data EXCEPT ![d] = Append(@, n)]) = Writes(data) \cup {n}
<1> DEFINE D == [data EXCEPT ![d] = Append(@, n)]
<1>1. /\ D \in DataSet /\ Elements(D[d]) = Elements(data[d]) \cup {n}
      /\ \A e \in Databases \ {d} : D[e] = data[e]
  BY ElementsAppend DEF DataSet
<1> HIDE DEF D
<1>2. ASSUME NEW x PROVE x \in Writes(D) <=> x \in Writes(data) \/ x = n
  <2>1. x \in Writes(D) <=> x \in Elements(D[d]) \/ \E e \in Databases \ {d} : x \in Elements(D[e])
    BY WritesAre
  <2>2. x \in Writes(data) <=> x \in Elements(data[d]) \/ \E e \in Databases \ {d} : x \in Elements(data[e])
    BY WritesAre
  <2> QED BY <2>1, <2>2, <1>1
<1>3. Writes(D) = Writes(data) \cup {n} BY <1>2
<1> QED BY <1>1, <1>3 DEF D

\* Executing a unit adds the write it completes to the data set.
LEMMA ExecuteWrites ==
  ASSUME NEW c \in Client, NEW u \in Unit
  PROVE  Writes(Execute(c, u).data) =
           Writes(c.data) \cup (IF u.cmd = "set" /\ u.half = 2 THEN {u.arg} ELSE {})
<1>1. CASE u.half = 1 BY <1>1 DEF Execute
<1>2. CASE u.half # 1 /\ u.cmd = "select" BY <1>2 DEF Execute, Client
<1>3. CASE u.half # 1 /\ u.cmd # "select"
  <2>1. u.arg \in Nat /\ u.cmd = "set" /\ u.half = 2 BY <1>3 DEF Unit
  <2>2. c.data \in DataSet /\ c.db \in Databases BY DEF Client
  <2>3. Execute(c, u).data = [c.data EXCEPT ![c.db] = Append(@, u.arg)] BY <1>3 DEF Execute, Client
  <2>4. Writes([c.data EXCEPT ![c.db] = Append(@, u.arg)]) = Writes(c.data) \cup {u.arg}
    BY <2>1, <2>2, WritesAppend
  <2> QED BY <2>1, <2>3, <2>4
<1> QED BY <1>1, <1>2, <1>3

LEMMA NothingWritten == Nothing \in DataSet /\ Writes(Nothing) = {}
<1>1. Nothing \in DataSet /\ \A d \in Databases : Elements(Nothing[d]) = {} BY DEF Nothing, DataSet, Elements
<1> QED BY <1>1, WritesAre

\* The loader makes a data set with the writes that are complete in the file.
LEMMA ReplayedWrites ==
  ASSUME NEW f \in File
  PROVE  Replayed(f) \in Client /\ Writes(Loaded(f)) = Sets(f)
<1> DEFINE Good(k) == /\ Replayed(SubSeq(f, 1, k)) \in Client
                      /\ Writes(Replayed(SubSeq(f, 1, k)).data) = Sets(SubSeq(f, 1, k))
           Bad == {k \in 0..Len(f) : ~Good(k)}
<1>0. Len(f) \in Nat BY DEF File
<1>1. Bad = {}
  <2> SUFFICES ASSUME Bad # {} PROVE FALSE OBVIOUS
  <2>0. Bad \in SUBSET Nat OBVIOUS
  <2>1. PICK k \in Bad : \A y \in Bad : k <= y BY <2>0, Smallest
  <2>2. CASE k = 0
    <3>1. SubSeq(f, 1, 0) = << >> BY SubSeqEmpty
    <3>2. Sets(<< >>) = {} BY DEF Sets, Complete
    <3>3. NewClient \in Client /\ Writes(NewClient.data) = {}
      BY Zero, NothingWritten DEF NewClient, Client
    <3>4. Good(0) BY <3>1, <3>2, <3>3, ReplayedEmpty
    <3> QED BY <3>4, <2>1, <2>2
  <2>3. CASE k # 0
    <3>1. k \in 1..Len(f) /\ k - 1 \in 0..Len(f) /\ k - 1 \notin Bad BY <1>0, <2>1, <2>3
    <3>2. Good(k - 1) BY <3>1
    <3> DEFINE a == SubSeq(f, 1, k - 1)
               u == f[k]
    <3>3. a \in File /\ u \in Unit /\ SubSeq(f, 1, k) = Append(a, u) BY <3>1, Beginnings
    <3>4. Replayed(SubSeq(f, 1, k)) = Execute(Replayed(a), u) BY <3>3, ReplayedAppend
    <3>5. Execute(Replayed(a), u) \in Client BY <3>2, <3>3, ExecuteType
    <3>6. Writes(Execute(Replayed(a), u).data) = Sets(Append(a, u))
      <4>1. Replayed(a) \in Client /\ Writes(Replayed(a).data) = Sets(a) BY <3>2
      <4>2. a \in File /\ u \in Unit BY <3>3
      <4> HIDE DEF a, u
      <4>3. Writes(Execute(Replayed(a), u).data) =
              Writes(Replayed(a).data) \cup (IF u.cmd = "set" /\ u.half = 2 THEN {u.arg} ELSE {})
        BY <4>1, <4>2, ExecuteWrites
      <4>4. Sets(Append(a, u)) = Sets(a) \cup (IF u.cmd = "set" /\ u.half = 2 THEN {u.arg} ELSE {})
        BY <4>2, SetsAppend
      <4> QED BY <4>1, <4>3, <4>4
    <3>7. Good(k) BY <3>3, <3>4, <3>5, <3>6
    <3> QED BY <3>7, <2>1
  <2> QED BY <2>2, <2>3
<1>2. Good(Len(f)) BY <1>0, <1>1
<1> QED BY <1>2, SubSeqFull DEF Loaded, File

-----------------------------------------------------------------------------
(* What the server appends to a file *)

LEMMA WellFormedAppend ==
  ASSUME NEW f \in File, WellFormed(f), NEW u \in Unit,
         IF u.cmd = "set" /\ u.half = 2 THEN f # << >> /\ f[Len(f)] = Half(u.arg, 1) ELSE Closed(f)
  PROVE  WellFormed(Append(f, u))
<1> DEFINE F == Append(f, u)
<1>1. /\ Len(F) = Len(f) + 1 /\ Len(f) \in Nat
      /\ \A i \in 1..Len(f) : F[i] = f[i]
      /\ F[Len(f) + 1] = u
  BY AppendParts DEF File
<1>2. f # << >> <=> Len(f) > 0 BY DEF File
<1> HIDE DEF F
<1>3. SUFFICES ASSUME NEW i \in 1..Len(F)
               PROVE  IF F[i].cmd = "set" /\ F[i].half = 2 THEN i > 1 /\ F[i - 1] = Half(F[i].arg, 1)
                      ELSE i > 1 => F[i - 1].half = 2
  BY DEF WellFormed, F
<1>4. CASE i <= Len(f)
  <2>1. i \in 1..Len(f) /\ F[i] = f[i] /\ (i > 1 => F[i - 1] = f[i - 1]) BY <1>1, <1>4
  <2> QED BY <2>1 DEF WellFormed
<1>5. CASE i = Len(f) + 1
  <2>1. F[i] = u /\ i - 1 = Len(f) /\ (i > 1 => Len(f) > 0 /\ F[i - 1] = f[Len(f)]) BY <1>1, <1>5
  <2>2. CASE u.cmd = "set" /\ u.half = 2
    <3>1. Len(f) > 0 /\ f[Len(f)] = Half(u.arg, 1) BY <2>2, <1>2
    <3>2. i > 1 BY <3>1, <2>1
    <3>3. F[i - 1] = Half(F[i].arg, 1) BY <3>1, <3>2, <2>1
    <3> QED BY <3>2, <3>3, <2>1, <2>2
  <2>3. CASE ~(u.cmd = "set" /\ u.half = 2)
    <3>1. Len(f) > 0 => f[Len(f)].half = 2 BY <2>3, <1>2 DEF Closed
    <3> QED BY <3>1, <2>1, <2>3
  <2> QED BY <2>2, <2>3
<1> QED BY <1>1, <1>4, <1>5

LEMMA UnitTypes ==
  /\ \A d \in Databases : Select(d) \in Unit
  /\ \A n \in Nat : Half(n, 1) \in Unit /\ Half(n, 2) \in Unit /\ Command(n) \in File
  /\ \A d, h : Select(d).cmd = "select" /\ Select(d).half = 2 /\ Select(d).arg = d
  /\ \A n, h : Half(n, h).cmd = "set" /\ Half(n, h).half = h /\ Half(n, h).arg = n
<1>1. /\ \A d \in Databases : Select(d) \in Unit
      /\ \A n \in Nat : Half(n, 1) \in Unit /\ Half(n, 2) \in Unit
  BY DEF Select, Half, Unit
<1>2. \A n \in Nat : Command(n) \in File BY <1>1 DEF Command, File
<1> QED BY <1>1, <1>2 DEF Select, Half

LEMMA ClosedAppend ==
  ASSUME NEW f \in File, NEW u \in Unit
  PROVE  Closed(Append(f, u)) <=> u.half = 2
<1>1. Append(f, u) # << >> /\ Len(Append(f, u)) = Len(f) + 1 /\ Append(f, u)[Len(f) + 1] = u
  BY AppendProperties DEF File
<1> QED BY <1>1 DEF Closed

LEMMA FeedSelect ==
  ASSUME NEW f \in File, WellFormed(f), Closed(f), NEW d \in Databases
  PROVE  LET F == f \o <<Select(d)>>
         IN  F \in File /\ WellFormed(F) /\ Closed(F) /\ Replayed(F).db = d /\ Loaded(F) = Loaded(f)
<1> DEFINE u == Select(d)
<1>1. u \in Unit /\ u.cmd = "select" /\ u.half = 2 /\ u.arg = d BY UnitTypes
<1> HIDE DEF u
<1>2. f \o <<u>> = Append(f, u) /\ Append(f, u) \in File BY <1>1, AppendParts DEF File
<1>3. WellFormed(Append(f, u)) BY <1>1, WellFormedAppend
<1>4. Closed(Append(f, u)) BY <1>1, ClosedAppend
<1>5. Replayed(Append(f, u)) = Execute(Replayed(f), u) /\ Replayed(f) \in Client
  BY <1>1, ReplayedAppend, ReplayedWrites
<1>6. Execute(Replayed(f), u) = [Replayed(f) EXCEPT !.db = d] BY <1>1 DEF Execute
<1>7. Replayed(Append(f, u)).db = d /\ Replayed(Append(f, u)).data = Replayed(f).data
  BY <1>5, <1>6 DEF Client
<1> QED BY <1>2, <1>3, <1>4, <1>7 DEF Loaded, u

LEMMA FeedCommand ==
  ASSUME NEW f \in File, WellFormed(f), Closed(f), NEW n \in Nat
  PROVE  LET F == f \o Command(n)
         IN  /\ F \in File /\ WellFormed(F) /\ Closed(F) /\ Replayed(F).db = Replayed(f).db
             /\ Loaded(F) = [Loaded(f) EXCEPT ![Replayed(f).db] = Append(@, n)]
<1> DEFINE u == Half(n, 1)
           v == Half(n, 2)
           A == Append(f, u)
           B == Append(A, v)
<1>1. u \in Unit /\ v \in Unit /\ u.half = 1 /\ v.half = 2 /\ v.cmd = "set" /\ v.arg = n BY UnitTypes
<1>2. u = Half(v.arg, 1) BY <1>1
<1> HIDE DEF u, v
<1>3. A \in File /\ f \o <<u>> = A /\ A # << >> /\ A[Len(A)] = u
  BY <1>1, AppendParts, AppendProperties DEF File
<1>4. WellFormed(A) BY <1>1, WellFormedAppend
<1> HIDE DEF A
<1>5. B \in File /\ A \o <<v>> = B BY <1>1, <1>3, AppendParts DEF File
<1>6. WellFormed(B) /\ Closed(B)
  <2>1. IF v.cmd = "set" /\ v.half = 2 THEN A # << >> /\ A[Len(A)] = Half(v.arg, 1) ELSE Closed(A)
    BY <1>1, <1>2, <1>3
  <2> QED BY <2>1, <1>1, <1>3, <1>4, WellFormedAppend, ClosedAppend
<1>7. f \o Command(n) = B
  <2>1. Command(n) = <<u>> \o <<v>> BY <1>1 DEF Command, u, v
  <2>2. <<u>> \in File /\ <<v>> \in File BY <1>1 DEF File
  <2>3. (f \o <<u>>) \o <<v>> = f \o (<<u>> \o <<v>>) BY <2>2, ConcatAssoc DEF File
  <2> QED BY <2>1, <2>3, <1>3, <1>5
<1>8. Replayed(A) = Replayed(f) /\ Replayed(f) \in Client
  <2>1. Replayed(A) = Execute(Replayed(f), u) BY <1>1, ReplayedAppend DEF A
  <2> QED BY <2>1, <1>1, ReplayedWrites DEF Execute
<1>9. Replayed(B) = [Replayed(f) EXCEPT !.data[Replayed(f).db] = Append(@, n)]
  <2>1. Replayed(B) = Execute(Replayed(A), v) BY <1>1, <1>3, ReplayedAppend
  <2> QED BY <2>1, <1>1, <1>8 DEF Execute
<1>10. Replayed(B).db = Replayed(f).db /\ Replayed(B).data = [Replayed(f).data EXCEPT ![Replayed(f).db] = Append(@, n)]
  BY <1>8, <1>9 DEF Client
<1> QED BY <1>5, <1>6, <1>7, <1>10 DEF Loaded

-----------------------------------------------------------------------------
(* rewriteAppendOnlyFile *)

Sections(d, q, n, g) == g = [k \in 0..n |-> IF k = 0 THEN <<Select(d)>> ELSE g[k - 1] \o Command(q[k])]

LEMMA SomeSections ==
  ASSUME NEW d, NEW q, NEW n \in Nat
  PROVE  \E g : Sections(d, q, n, g)
<1> DEFINE Bad == {m \in Nat : ~ \E g : Sections(d, q, m, g)}
<1> SUFFICES ASSUME Bad # {} PROVE FALSE OBVIOUS
<1>1. PICK m \in Bad : \A y \in Bad : m <= y BY Smallest
<1>2. CASE m = 0
  <2>1. Sections(d, q, 0, [k \in 0..0 |-> <<Select(d)>>]) BY DEF Sections
  <2> QED BY <2>1, <1>1, <1>2
<1>3. CASE m # 0
  <2>1. m - 1 \in Nat /\ m - 1 \notin Bad BY <1>1, <1>3
  <2>2. PICK g : Sections(d, q, m - 1, g) BY <2>1
  <2> DEFINE h == [k \in 0..m |-> IF k = m THEN g[m - 1] \o Command(q[m]) ELSE g[k]]
  <2>3. Sections(d, q, m, h) BY <2>2, <1>3 DEF Sections
  <2> QED BY <2>3, <1>1
<1> QED BY <1>2, <1>3

LEMMA SectionIs ==
  ASSUME NEW d, NEW q \in Seq(Nat), q # << >>
  PROVE  \E g : Sections(d, q, Len(q), g) /\ Section(d, q) = g[Len(q)]
<1> DEFINE g == CHOOSE g : Sections(d, q, Len(q), g)
<1>0. Len(q) \in Nat OBVIOUS
<1>1. Sections(d, q, Len(q), g) BY <1>0, SomeSections
<1>2. Section(d, q) = g[Len(q)] BY DEF Section, Sections
<1> QED BY <1>1, <1>2

\* The section of a database, after a file that has nothing for it, makes it.
LEMMA SectionMakes ==
  ASSUME NEW f \in File, WellFormed(f), Closed(f), NEW d \in Databases, NEW q \in Seq(Nat),
         Loaded(f)[d] = << >>
  PROVE  /\ Section(d, q) \in File /\ f \o Section(d, q) \in File
         /\ WellFormed(f \o Section(d, q)) /\ Closed(f \o Section(d, q))
         /\ Loaded(f \o Section(d, q)) = [Loaded(f) EXCEPT ![d] = q]
<1>0. Loaded(f) \in DataSet /\ Len(q) \in Nat BY ReplayedWrites DEF Loaded, Client
<1>1. CASE q = << >>
  <2>1. Section(d, q) = << >> /\ << >> \in File BY <1>1 DEF Section, File
  <2>2. f \o << >> = f BY ConcatEmpty DEF File
  <2>3. [Loaded(f) EXCEPT ![d] = << >>] = Loaded(f) BY <1>0 DEF DataSet
  <2> QED BY <1>1, <2>1, <2>2, <2>3
<1>2. CASE q # << >>
  <2>1. PICK g : Sections(d, q, Len(q), g) /\ Section(d, q) = g[Len(q)] BY <1>2, SectionIs
  <2> DEFINE T(k) == f \o g[k]
             Good(k) == /\ g[k] \in File /\ T(k) \in File /\ WellFormed(T(k)) /\ Closed(T(k))
                        /\ Replayed(T(k)).db = d
                        /\ Loaded(T(k)) = [Loaded(f) EXCEPT ![d] = SubSeq(q, 1, k)]
             Bad == {k \in 0..Len(q) : ~Good(k)}
  <2>2. Good(0)
    <3>1. g[0] = <<Select(d)>> BY <2>1, <1>0 DEF Sections
    <3>2. <<Select(d)>> \in File BY UnitTypes DEF File
    <3>3. [Loaded(f) EXCEPT ![d] = SubSeq(q, 1, 0)] = Loaded(f) BY <1>0, SubSeqEmpty DEF DataSet
    <3> QED BY <3>1, <3>2, <3>3, FeedSelect
  <2>3. ASSUME NEW k \in 1..Len(q), Good(k - 1) PROVE Good(k)
    <3>1. k \in 0..Len(q) /\ k # 0 /\ q[k] \in Nat BY <1>0
    <3>2. g[k] = g[k - 1] \o Command(q[k]) BY <2>1, <3>1 DEF Sections
    <3>3. Command(q[k]) \in File /\ g[k - 1] \in File BY <3>1, <2>3, UnitTypes
    <3>4. g[k] \in File /\ T(k) = T(k - 1) \o Command(q[k])
      <4>1. g[k - 1] \o Command(q[k]) \in File BY <3>3, ConcatParts DEF File
      <4>2. (f \o g[k - 1]) \o Command(q[k]) = f \o (g[k - 1] \o Command(q[k])) BY <3>3, FileConcat
      <4> QED BY <3>2, <4>1, <4>2
    <3> DEFINE F == T(k - 1)
    <3>5. F \in File /\ WellFormed(F) /\ Closed(F) /\ Replayed(F).db = d
          /\ Loaded(F) = [Loaded(f) EXCEPT ![d] = SubSeq(q, 1, k - 1)]
      BY <2>3
    <3> HIDE DEF F
    <3>6. /\ F \o Command(q[k]) \in File /\ WellFormed(F \o Command(q[k])) /\ Closed(F \o Command(q[k]))
          /\ Replayed(F \o Command(q[k])).db = d
          /\ Loaded(F \o Command(q[k])) = [Loaded(F) EXCEPT ![d] = Append(@, q[k])]
      BY <3>1, <3>5, FeedCommand
    <3>7. Append(SubSeq(q, 1, k - 1), q[k]) = SubSeq(q, 1, k)
      <4>1. 1 \in 1..Len(q) /\ k \in 1..Len(q) BY <1>0
      <4>2. SubSeq(q, 1, k) = SubSeq(q, 1, k - 1) \o <<q[k]>> BY <4>1, SubSeqRecursiveSecond
      <4>3. SubSeq(q, 1, k - 1) \in Seq(Nat) BY <3>1
      <4> QED BY <4>2, <4>3, <3>1, AppendParts
    <3>8. [Loaded(F) EXCEPT ![d] = Append(@, q[k])] = [Loaded(f) EXCEPT ![d] = SubSeq(q, 1, k)]
      BY <1>0, <3>5, <3>7 DEF DataSet
    <3> QED BY <3>4, <3>6, <3>8 DEF F
  <2>4. Bad = {}
    <3> SUFFICES ASSUME Bad # {} PROVE FALSE OBVIOUS
    <3>0. Bad \in SUBSET Nat OBVIOUS
    <3>1. PICK k \in Bad : \A y \in Bad : k <= y BY <3>0, Smallest
    <3>2. CASE k = 0 BY <3>1, <3>2, <2>2
    <3>3. CASE k # 0
      <4> HIDE DEF Good
      <4>1. k \in 1..Len(q) /\ k - 1 \in 0..Len(q) /\ k - 1 \notin Bad BY <1>0, <3>1, <3>3
      <4> QED BY <4>1, <2>3, <3>1
    <3> QED BY <3>2, <3>3
  <2>5. Good(Len(q))
    <3> HIDE DEF Good
    <3> QED BY <1>0, <2>4
  <2>6. SubSeq(q, 1, Len(q)) = q BY SubSeqFull
  <2> QED BY <2>1, <2>5, <2>6
<1> QED BY <1>1, <1>2

Rewrites(data, n, g) == g = [d \in 0..n |-> IF d = 0 THEN << >> ELSE g[d - 1] \o Section(d - 1, data[d - 1])]

LEMMA SomeRewrites ==
  ASSUME NEW data, NEW n \in Nat
  PROVE  \E g : Rewrites(data, n, g)
<1> DEFINE Bad == {m \in Nat : ~ \E g : Rewrites(data, m, g)}
<1> SUFFICES ASSUME Bad # {} PROVE FALSE OBVIOUS
<1>1. PICK m \in Bad : \A y \in Bad : m <= y BY Smallest
<1>2. CASE m = 0
  <2>1. Rewrites(data, 0, [d \in 0..0 |-> << >>]) BY DEF Rewrites
  <2> QED BY <2>1, <1>1, <1>2
<1>3. CASE m # 0
  <2>1. m - 1 \in Nat /\ m - 1 \notin Bad BY <1>1, <1>3
  <2>2. PICK g : Rewrites(data, m - 1, g) BY <2>1
  <2> DEFINE h == [d \in 0..m |-> IF d = m THEN g[m - 1] \o Section(m - 1, data[m - 1]) ELSE g[d]]
  <2>3. \A d \in 0..(m - 1) : h[d] = g[d] BY <2>1
  <2>4. ASSUME NEW d \in 0..m PROVE h[d] = IF d = 0 THEN << >> ELSE h[d - 1] \o Section(d - 1, data[d - 1])
    <3>1. CASE d = m
      <4>1. h[d - 1] = g[m - 1] BY <3>1, <2>1, <2>3
      <4> QED BY <4>1, <3>1, <1>3
    <3>2. CASE d # m
      <4>1. d \in 0..(m - 1) /\ h[d] = g[d] /\ (d # 0 => h[d - 1] = g[d - 1]) BY <3>2, <2>1, <2>3
      <4>2. g[d] = IF d = 0 THEN << >> ELSE g[d - 1] \o Section(d - 1, data[d - 1])
        BY <4>1, <2>2 DEF Rewrites
      <4> QED BY <4>1, <4>2
    <3> QED BY <3>1, <3>2
  <2>5. h = [d \in 0..m |-> IF d = 0 THEN << >> ELSE h[d - 1] \o Section(d - 1, data[d - 1])] BY <2>4
  <2> QED BY <2>5, <1>1 DEF Rewrites
<1> QED BY <1>2, <1>3

LEMMA RewrittenIs ==
  ASSUME NEW data
  PROVE  \E g : Rewrites(data, DbNum, g) /\ Rewritten(data) = g[DbNum]
<1> DEFINE g == CHOOSE g : Rewrites(data, DbNum, g)
<1>1. Rewrites(data, DbNum, g) BY PersistenceAssumption, SomeRewrites
<1>2. Rewritten(data) = g[DbNum] BY DEF Rewritten, Rewrites
<1> QED BY <1>1, <1>2

\* A rewritten file makes the data set it was made from.
LEMMA RewrittenMakes ==
  ASSUME NEW data \in DataSet
  PROVE  Rewritten(data) \in File /\ Makes(Rewritten(data), data, -1)
<1> USE DEF Databases
<1>0. DbNum \in Nat \ {0} BY PersistenceAssumption
<1>1. PICK g : Rewrites(data, DbNum, g) /\ Rewritten(data) = g[DbNum] BY RewrittenIs
<1> DEFINE Good(d) == /\ g[d] \in File /\ WellFormed(g[d]) /\ Closed(g[d])
                      /\ \A e \in Databases : Loaded(g[d])[e] = IF e < d THEN data[e] ELSE << >>
           Bad == {d \in 0..DbNum : ~Good(d)}
<1>2. Good(0)
  <2>1. g[0] = << >> BY <1>0, <1>1 DEF Rewrites
  <2>2. << >> \in File /\ WellFormed(<< >>) /\ Closed(<< >>) BY DEF File, WellFormed, Closed
  <2>3. Loaded(<< >>) = Nothing BY ReplayedEmpty DEF Loaded, NewClient
  <2>4. \A e \in Databases : Nothing[e] = << >> /\ ~(e < 0) BY DEF Nothing
  <2> QED BY <2>1, <2>2, <2>3, <2>4
<1>3. ASSUME NEW d \in 1..DbNum, Good(d - 1) PROVE Good(d)
  <2> DEFINE f == g[d - 1]
             s == Section(d - 1, data[d - 1])
  <2>1. d \in 0..DbNum /\ d # 0 /\ d - 1 \in Databases BY <1>0
  <2>2. g[d] = f \o s BY <1>1, <2>1 DEF Rewrites
  <2>3. f \in File /\ WellFormed(f) /\ Closed(f) /\ Loaded(f)[d - 1] = << >>
    BY <1>3, <2>1
  <2>4. data[d - 1] \in Seq(Nat) BY <2>1 DEF DataSet
  <2>5. f \o s \in File /\ WellFormed(f \o s) /\ Closed(f \o s)
        /\ Loaded(f \o s) = [Loaded(f) EXCEPT ![d - 1] = data[d - 1]]
    BY <2>1, <2>3, <2>4, SectionMakes
  <2>6. Loaded(f) \in DataSet BY <2>3, ReplayedWrites DEF Loaded, Client
  <2>7. ASSUME NEW e \in Databases PROVE Loaded(f \o s)[e] = IF e < d THEN data[e] ELSE << >>
    <3>1. CASE e = d - 1
      <4>1. Loaded(f \o s)[e] = data[e] BY <3>1, <2>5, <2>6, <2>1 DEF DataSet
      <4> QED BY <4>1, <3>1, <2>1
    <3>2. CASE e # d - 1
      <4>1. Loaded(f \o s)[e] = Loaded(f)[e] BY <3>2, <2>5, <2>6, <2>1 DEF DataSet
      <4>2. Loaded(f)[e] = IF e < d - 1 THEN data[e] ELSE << >> BY <1>3
      <4>3. e < d - 1 <=> e < d BY <3>2, <2>1
      <4> QED BY <4>1, <4>2, <4>3
    <3> QED BY <3>1, <3>2
  <2> QED BY <2>2, <2>5, <2>7
<1>4. Bad = {}
  <2> SUFFICES ASSUME Bad # {} PROVE FALSE OBVIOUS
  <2>0. Bad \in SUBSET Nat OBVIOUS
  <2>1. PICK d \in Bad : \A y \in Bad : d <= y BY <2>0, Smallest
  <2>2. CASE d = 0 BY <2>1, <2>2, <1>2
  <2>3. CASE d # 0
    <3>1. d \in 1..DbNum /\ d - 1 \in 0..DbNum /\ d - 1 \notin Bad BY <1>0, <2>1, <2>3
    <3> HIDE DEF Good
    <3> QED BY <3>1, <1>3, <2>1
  <2> QED BY <2>2, <2>3
<1>5. Good(DbNum) BY <1>0, <1>4
<1>6. Loaded(g[DbNum]) = data
  <2>1. Loaded(g[DbNum]) \in DataSet BY <1>5, ReplayedWrites DEF Loaded, Client
  <2>2. \A e \in Databases : Loaded(g[DbNum])[e] = data[e] BY <1>0, <1>5
  <2> HIDE DEF Databases
  <2> QED BY <2>1, <2>2 DEF DataSet
<1> QED BY <1>1, <1>5, <1>6 DEF Makes

-----------------------------------------------------------------------------
(* Parts of files *)

LEMMA WellFormedBeginning ==
  ASSUME NEW f \in File, WellFormed(f), NEW e \in File, Len(e) <= Len(f), \A i \in 1..Len(e) : e[i] = f[i]
  PROVE  WellFormed(e)
<1>1. Len(e) \in Nat /\ Len(f) \in Nat BY DEF File
<1>2. SUFFICES ASSUME NEW i \in 1..Len(e)
               PROVE  IF e[i].cmd = "set" /\ e[i].half = 2 THEN i > 1 /\ e[i - 1] = Half(e[i].arg, 1)
                      ELSE i > 1 => e[i - 1].half = 2
  BY DEF WellFormed
<1>3. i \in 1..Len(f) /\ e[i] = f[i] /\ (i > 1 => e[i - 1] = f[i - 1]) BY <1>1
<1> QED BY <1>3 DEF WellFormed

LEMMA WellFormedCut ==
  ASSUME NEW f \in File, WellFormed(f), NEW k \in 0..Len(f)
  PROVE  SubSeq(f, 1, k) \in File /\ Len(SubSeq(f, 1, k)) = k /\ WellFormed(SubSeq(f, 1, k))
<1> DEFINE e == SubSeq(f, 1, k)
<1>1. e \in File /\ Len(e) = k /\ \A i \in 1..k : e[i] = f[i] BY CutParts DEF File
<1>2. Len(f) \in Nat BY DEF File
<1> HIDE DEF e
<1>3. Len(e) <= Len(f) /\ \A i \in 1..Len(e) : e[i] = f[i] BY <1>1, <1>2
<1>4. WellFormed(e) BY <1>1, <1>3, WellFormedBeginning
<1> QED BY <1>1, <1>4 DEF e

LEMMA WellFormedPrefix ==
  ASSUME NEW f \in File, NEW g \in File, WellFormed(f \o g)
  PROVE  WellFormed(f)
<1>1. /\ f \o g \in File /\ Len(f \o g) = Len(f) + Len(g) /\ Len(f) \in Nat /\ Len(g) \in Nat
      /\ \A i \in 1..Len(f) : (f \o g)[i] = f[i]
  BY ConcatParts DEF File
<1>2. Len(f) <= Len(f \o g) BY <1>1
<1> QED BY <1>1, <1>2, WellFormedBeginning

LEMMA TrimmedClosed ==
  ASSUME NEW f \in File, WellFormed(f)
  PROVE  Trimmed(f) \in File /\ Len(Trimmed(f)) <= Len(f) /\ WellFormed(Trimmed(f)) /\ Closed(Trimmed(f))
<1>0. Len(f) \in Nat /\ (f # << >> => Len(f) > 0) BY DEF File
<1>1. CASE f # << >> /\ f[Len(f)].half = 1
  <2> DEFINE k == Len(f) - 1
             e == SubSeq(f, 1, k)
  <2>1. k \in 0..Len(f) /\ Trimmed(f) = e BY <1>0, <1>1 DEF Trimmed
  <2>2. e \in File /\ Len(e) = k /\ WellFormed(e) BY <2>1, WellFormedCut
  <2>3. k > 0 => e[k] = f[k] BY <2>1, CutParts DEF File
  <2>4. k > 0 => f[k].half = 2
    <3>1. Len(f) \in 1..Len(f) /\ (k > 0 => Len(f) > 1) BY <1>0, <1>1
    <3>2. ~(f[Len(f)].cmd = "set" /\ f[Len(f)].half = 2) BY <1>1
    <3> QED BY <3>1, <3>2 DEF WellFormed
  <2>5. Closed(e)
    <3>1. e # << >> => k > 0 BY <2>2 DEF File
    <3> QED BY <3>1, <2>2, <2>3, <2>4 DEF Closed
  <2> QED BY <1>0, <2>1, <2>2, <2>5
<1>2. CASE ~(f # << >> /\ f[Len(f)].half = 1)
  <2>1. Trimmed(f) = f BY <1>2 DEF Trimmed
  <2>2. f # << >> => f[Len(f)] \in Unit BY <1>0 DEF File
  <2>3. f # << >> => f[Len(f)].half = 2 BY <1>2, <2>2 DEF Unit
  <2> QED BY <1>0, <2>1, <2>3 DEF Closed
<1> QED BY <1>1, <1>2

LEMMA SetsConcat ==
  ASSUME NEW f \in File, NEW g \in File
  PROVE  Sets(f \o g) = Sets(f) \cup Sets(g)
<1> DEFINE F == f \o g
<1>1. /\ Len(F) = Len(f) + Len(g) /\ Len(f) \in Nat /\ Len(g) \in Nat
      /\ \A i \in 1..Len(f) : F[i] = f[i]
      /\ \A i \in 1..Len(g) : F[Len(f) + i] = g[i]
  BY ConcatParts DEF File
<1> HIDE DEF F
<1>2. ASSUME NEW n \in Sets(F) PROVE n \in Sets(f) \cup Sets(g)
  <2>1. PICK i \in 1..Len(F) : F[i].cmd = "set" /\ F[i].half = 2 /\ n = F[i].arg BY DEF Sets, Complete
  <2>2. CASE i <= Len(f)
    <3>1. i \in 1..Len(f) /\ F[i] = f[i] BY <1>1, <2>2
    <3> QED BY <3>1, <2>1 DEF Sets, Complete
  <2>3. CASE i > Len(f)
    <3>1. i - Len(f) \in 1..Len(g) /\ Len(f) + (i - Len(f)) = i BY <1>1, <2>3
    <3>2. F[i] = g[i - Len(f)] BY <3>1, <1>1
    <3> QED BY <3>1, <3>2, <2>1 DEF Sets, Complete
  <2> QED BY <1>1, <2>2, <2>3
<1>3. ASSUME NEW n \in Sets(f) PROVE n \in Sets(F)
  <2>1. PICK i \in 1..Len(f) : f[i].cmd = "set" /\ f[i].half = 2 /\ n = f[i].arg BY DEF Sets, Complete
  <2>2. i \in 1..Len(F) /\ F[i] = f[i] BY <1>1
  <2> QED BY <2>1, <2>2 DEF Sets, Complete
<1>4. ASSUME NEW n \in Sets(g) PROVE n \in Sets(F)
  <2>1. PICK i \in 1..Len(g) : g[i].cmd = "set" /\ g[i].half = 2 /\ n = g[i].arg BY DEF Sets, Complete
  <2>2. Len(f) + i \in 1..Len(F) /\ F[Len(f) + i] = g[i] BY <1>1
  <2> QED BY <2>1, <2>2 DEF Sets, Complete
<1>5. Sets(F) = Sets(f) \cup Sets(g) BY <1>2, <1>3, <1>4
<1> QED BY <1>5 DEF F

LEMMA SetsEmpty == Sets(<< >>) = {}
BY DEF Sets, Complete

LEMMA SetsCommand ==
  ASSUME NEW n \in Nat
  PROVE  n \in Sets(Command(n))
<1>1. Len(Command(n)) = 2 /\ Command(n)[2] = Half(n, 2) BY DEF Command
<1>2. 2 \in Complete(Command(n)) BY <1>1 DEF Complete, Half
<1> QED BY <1>1, <1>2 DEF Sets, Half

LEMMA ImageFinite ==
  ASSUME NEW S, IsFiniteSet(S), NEW g
  PROVE  IsFiniteSet({g[x] : x \in S}) /\ Cardinality({g[x] : x \in S}) <= Cardinality(S)
<1> DEFINE T == {g[x] : x \in S}
           h == [x \in S |-> g[x]]
<1>1. h \in Surjection(S, T) BY DEF Surjection
<1> QED BY <1>1, FS_Surjection

\* There are no more writes in a file than places where one is complete.
LEMMA SetsCounted ==
  ASSUME NEW f \in File
  PROVE  /\ IsFiniteSet(Sets(f)) /\ Cardinality(Complete(f)) \in Nat
         /\ Cardinality(Sets(f)) <= Cardinality(Complete(f))
<1>1. Len(f) \in Nat BY DEF File
<1>2. IsFiniteSet(1..Len(f)) BY <1>1, FS_Interval
<1>3. IsFiniteSet(Complete(f)) BY <1>2, FS_Subset DEF Complete
<1> DEFINE g == [i \in Complete(f) |-> f[i].arg]
<1>4. Sets(f) = {g[i] : i \in Complete(f)} BY DEF Sets
<1> HIDE DEF g
<1> QED BY <1>3, <1>4, ImageFinite, FS_CardinalityType

LEMMA WritesFinite ==
  ASSUME NEW data \in DataSet
  PROVE  Writes(data) \in SUBSET Nat /\ IsFiniteSet(Writes(data))
<1>1. \A d \in Databases : Elements(data[d]) \in SUBSET Nat /\ IsFiniteSet(Elements(data[d]))
  <2> SUFFICES ASSUME NEW d \in Databases
               PROVE  Elements(data[d]) \in SUBSET Nat /\ IsFiniteSet(Elements(data[d]))
    OBVIOUS
  <2> DEFINE q == data[d]
  <2>1. q \in Seq(Nat) BY DEF DataSet
  <2> HIDE DEF q
  <2>2. Len(q) \in Nat /\ \A i \in 1..Len(q) : q[i] \in Nat BY <2>1
  <2>3. IsFiniteSet(1..Len(q)) BY <2>2, FS_Interval
  <2>4. IsFiniteSet({q[i] : i \in 1..Len(q)}) BY <2>3, ImageFinite
  <2> QED BY <2>2, <2>4 DEF Elements, q
<1>2. IsFiniteSet(Databases) BY PersistenceAssumption, FS_Interval DEF Databases
<1> DEFINE g == [d \in Databases |-> Elements(data[d])]
           P == {g[d] : d \in Databases}
<1>3. IsFiniteSet(P)
  <2> HIDE DEF g
  <2> QED BY <1>2, ImageFinite
<1>4. \A T \in P : IsFiniteSet(T) BY <1>1
<1>5. IsFiniteSet(UNION P) BY <1>3, <1>4, FS_UNION
<1>6. Writes(data) = UNION P BY DEF Writes, Elements
<1> QED BY <1>1, <1>5, <1>6

-----------------------------------------------------------------------------
(* Frames: which fields each part of the invariant is about *)

SameLog(m, n) ==
  n.state = m.state /\ n.fd = m.fd /\ n.buf = m.buf /\ n.data = m.data /\ n.selected = m.selected
SameChild(m, n) ==
  /\ n.child = m.child /\ n.stop = m.stop /\ n.pipe = m.pipe /\ n.rewrite = m.rewrite
  /\ n.state = m.state /\ n.data = m.data /\ n.selected = m.selected
SameAck(m, n) ==
  /\ n.acked = m.acked /\ n.data = m.data /\ n.old = m.old /\ n.state = m.state /\ n.buf = m.buf
  /\ n.status = m.status /\ n.postponed = m.postponed /\ n.renamed = m.renamed
SameDirty(m, n) == n.data = m.data /\ n.dirty = m.dirty /\ n.before = m.before /\ n.rdb = m.rdb

LEMMA Frames ==
  ASSUME NEW m, NEW n, NEW d, NEW e, NEW always
  PROVE  /\ LogInv(m, d) /\ SameLog(m, n) /\ e.aof = d.aof /\ e.spoilt = d.spoilt => LogInv(n, e)
         /\ ChildInv(m) /\ SameChild(m, n) => ChildInv(n)
         /\ AckInv(m, d, always) /\ SameAck(m, n) /\ e.aof = d.aof /\ e.synced = d.synced => AckInv(n, e, always)
         /\ DirtyInv(m, d) /\ SameDirty(m, n) /\ e.dump = d.dump => DirtyInv(n, e)
<1>1. LogInv(m, d) /\ SameLog(m, n) /\ e.aof = d.aof /\ e.spoilt = d.spoilt => LogInv(n, e)
  BY DEF LogInv, SameLog
<1>2. ChildInv(m) /\ SameChild(m, n) => ChildInv(n) BY DEF ChildInv, SameChild, Pending
<1>3. AckInv(m, d, always) /\ SameAck(m, n) /\ e.aof = d.aof /\ e.synced = d.synced => AckInv(n, e, always)
  BY DEF AckInv, SameAck, Durable
<1>4. DirtyInv(m, d) /\ SameDirty(m, n) /\ e.dump = d.dump => DirtyInv(n, e)
  BY DEF DirtyInv, SameDirty, Unsaved
<1> QED BY <1>1, <1>2, <1>3, <1>4

\* A state of the server from which it takes a step
Running == DiskInv /\ ~Off

LEMMA RunningFacts ==
  ASSUME Running
  PROVE  plan \in PlanRecord /\ DiskGood(disk) /\ MemGood(mem, disk, Always) /\ mem \in Memory /\ disk \in DiskRecord
BY DEF Running, DiskInv, Off, MemGood, DiskGood

LEMMA SpendFacts ==
  ASSUME plan \in PlanRecord, NEW what \in Kinds, Spend(what)
  PROVE  plan' \in PlanRecord /\ Always' = Always /\ plan.left[what] \in Nat
<1>1. plan.left[what] \in Nat /\ plan.left[what] > 0 BY DEF PlanRecord, Spend
<1>2. plan' = [plan EXCEPT !.left[what] = plan.left[what] - 1] BY DEF Spend
<1>3. plan.left[what] - 1 \in Nat BY <1>1
<1>4. [plan.left EXCEPT ![what] = plan.left[what] - 1] \in [Kinds -> Nat] BY <1>3 DEF PlanRecord
<1> QED BY <1>1, <1>2, <1>4 DEF PlanRecord, Always

LEMMA Steady ==
  ASSUME plan \in PlanRecord, UNCHANGED plan
  PROVE  plan' \in PlanRecord /\ Always' = Always
BY DEF Always

\* How a step re-establishes the invariant
LEMMA Onward ==
  ASSUME plan' \in PlanRecord, Always' = Always, DiskGood(disk'), mem' = None \/ MemGood(mem', disk', Always)
  PROVE  DiskInv'
<1>1. Always' \in BOOLEAN BY DEF Always
<1> QED BY <1>1 DEF DiskInv

-----------------------------------------------------------------------------
(* The steps of the rewrite that move what is on its way *)

LEMMA TransferKeeps ==
  ASSUME Running, UNCHANGED disk, plan' \in PlanRecord, Always' = Always, mem' \in Memory,
         SameLog(mem, mem'), SameAck(mem, mem'), SameDirty(mem, mem'),
         mem.child # None, mem'.child # None, Pending(mem') = Pending(mem),
         mem'.child.phase \in {"answered", "done"} => mem'.stop
  PROVE  DiskInv'
<1>1. DiskGood(disk) /\ MemGood(mem, disk, Always) BY RunningFacts
<1>2. ChildInv(mem') BY <1>1 DEF MemGood, ChildInv, SameLog
<1>3. LogInv(mem', disk) /\ AckInv(mem', disk, Always) /\ DirtyInv(mem', disk) BY <1>1, Frames DEF MemGood
<1>4. MemGood(mem', disk', Always) BY <1>2, <1>3 DEF MemGood
<1> QED BY <1>1, <1>4, Onward

LEMMA ChildAsksStep == ASSUME Running, ChildAsks PROVE DiskInv'
<1>1. plan \in PlanRecord /\ MemGood(mem, disk, Always) /\ mem \in Memory BY RunningFacts
<1>2. mem.child \in AofChild /\ mem.child.phase = "writing" BY <1>1 DEF ChildAsks, Memory
<1> DEFINE c == [mem.child EXCEPT !.phase = "asked"]
<1>3. c \in AofChild /\ c.phase = "asked" /\ c.file = mem.child.file /\ c.got = mem.child.got BY <1>2 DEF AofChild
<1>4. mem' = [mem EXCEPT !.child = c] BY DEF ChildAsks
<1> HIDE DEF c
<1>5. mem' \in Memory /\ mem'.child = c /\ mem'.pipe = mem.pipe /\ mem'.rewrite = mem.rewrite
  BY <1>1, <1>3, <1>4 DEF Memory
<1>6. SameLog(mem, mem') /\ SameAck(mem, mem') /\ SameDirty(mem, mem')
  BY <1>1, <1>4 DEF Memory, SameLog, SameAck, SameDirty
<1>7. Pending(mem') = Pending(mem) BY <1>2, <1>3, <1>5 DEF Pending
<1>8. mem.child # None /\ c # None BY <1>3, PersistenceAssumption DEF ChildAsks
<1>9. UNCHANGED <<disk, plan>> BY DEF ChildAsks
<1> QED BY <1>1, <1>3, <1>5, <1>6, <1>7, <1>8, <1>9, TransferKeeps, Steady

LEMMA aofChildPipeReadableStep == ASSUME Running, aofChildPipeReadable PROVE DiskInv'
<1>1. plan \in PlanRecord /\ MemGood(mem, disk, Always) /\ mem \in Memory BY RunningFacts
<1>2. mem.child \in AofChild /\ mem.child.phase = "asked" BY <1>1 DEF aofChildPipeReadable, Memory
<1> DEFINE c == [mem.child EXCEPT !.phase = "answered"]
<1>3. c \in AofChild /\ c.phase = "answered" /\ c.file = mem.child.file /\ c.got = mem.child.got BY <1>2 DEF AofChild
<1>4. mem' = [mem EXCEPT !.stop = TRUE, !.child = c] BY DEF aofChildPipeReadable
<1> HIDE DEF c
<1>5. mem' \in Memory /\ mem'.child = c /\ mem'.stop /\ mem'.pipe = mem.pipe /\ mem'.rewrite = mem.rewrite
  BY <1>1, <1>3, <1>4 DEF Memory
<1>6. SameLog(mem, mem') /\ SameAck(mem, mem') /\ SameDirty(mem, mem')
  BY <1>1, <1>4 DEF Memory, SameLog, SameAck, SameDirty
<1>7. Pending(mem') = Pending(mem) BY <1>2, <1>3, <1>5 DEF Pending
<1>8. mem.child # None /\ c # None BY <1>3, PersistenceAssumption DEF aofChildPipeReadable
<1>9. UNCHANGED <<disk, plan>> BY DEF aofChildPipeReadable
<1> QED BY <1>1, <1>3, <1>5, <1>6, <1>7, <1>8, <1>9, TransferKeeps, Steady

LEMMA ChildFailsStep == ASSUME Running, ChildFails PROVE DiskInv'
<1>1. plan \in PlanRecord /\ MemGood(mem, disk, Always) /\ mem \in Memory BY RunningFacts
<1>2. mem.child \in AofChild /\ mem.child.phase # "done" BY <1>1 DEF ChildFails, Memory
<1> DEFINE c == [mem.child EXCEPT !.phase = "failed"]
<1>3. c \in AofChild /\ c.phase = "failed" /\ c.file = mem.child.file /\ c.got = mem.child.got BY <1>2 DEF AofChild
<1>4. mem' = [mem EXCEPT !.child = c] BY DEF ChildFails
<1> HIDE DEF c
<1>5. mem' \in Memory /\ mem'.child = c /\ mem'.pipe = mem.pipe /\ mem'.rewrite = mem.rewrite
  BY <1>1, <1>3, <1>4 DEF Memory
<1>6. SameLog(mem, mem') /\ SameAck(mem, mem') /\ SameDirty(mem, mem')
  BY <1>1, <1>4 DEF Memory, SameLog, SameAck, SameDirty
<1>7. Pending(mem') = Pending(mem) BY <1>2, <1>3, <1>5 DEF Pending
<1>8. mem.child # None /\ c # None BY <1>3, PersistenceAssumption DEF ChildFails
<1>9. UNCHANGED disk /\ Spend("faults") /\ "faults" \in Kinds BY DEF ChildFails, Kinds
<1> QED BY <1>1, <1>3, <1>5, <1>6, <1>7, <1>8, <1>9, TransferKeeps, SpendFacts

LEMMA aofReadDiffFromParentStep == ASSUME Running, aofReadDiffFromParent PROVE DiskInv'
<1>1. plan \in PlanRecord /\ MemGood(mem, disk, Always) /\ mem \in Memory BY RunningFacts
<1>2. mem.child \in AofChild /\ mem.child.phase = "writing" BY <1>1 DEF aofReadDiffFromParent, Memory
<1>0. mem.pipe \in File /\ mem.rewrite \in File /\ mem.child.file \in File /\ mem.child.got \in File
  BY <1>1, <1>2 DEF Memory, AofChild
<1> DEFINE c == [mem.child EXCEPT !.got = @ \o mem.pipe]
<1>3. c \in AofChild /\ c.phase = "writing" /\ c.file = mem.child.file /\ c.got = mem.child.got \o mem.pipe
  BY <1>0, <1>2, FileConcat DEF AofChild
<1>4. mem' = [mem EXCEPT !.child = c, !.pipe = << >>] BY DEF aofReadDiffFromParent
<1> HIDE DEF c
<1>5. mem' \in Memory /\ mem'.child = c /\ mem'.pipe = << >> /\ mem'.rewrite = mem.rewrite
  BY <1>1, <1>3, <1>4, FileConcat DEF Memory
<1>6. SameLog(mem, mem') /\ SameAck(mem, mem') /\ SameDirty(mem, mem')
  BY <1>1, <1>4 DEF Memory, SameLog, SameAck, SameDirty
<1>7. Pending(mem') = Pending(mem)
  <2>1. mem.child.file \o (mem.child.got \o mem.pipe) = (mem.child.file \o mem.child.got) \o mem.pipe
    BY <1>0, FileConcat
  <2>2. (mem.child.file \o (mem.child.got \o mem.pipe)) \o << >> = mem.child.file \o (mem.child.got \o mem.pipe)
    BY <1>0, FileConcat
  <2> QED BY <2>1, <2>2, <1>2, <1>3, <1>5 DEF Pending
<1>8. mem.child # None /\ c # None BY <1>3, PersistenceAssumption DEF aofReadDiffFromParent
<1>9. UNCHANGED <<disk, plan>> BY DEF aofReadDiffFromParent
<1> QED BY <1>1, <1>3, <1>5, <1>6, <1>7, <1>8, <1>9, TransferKeeps, Steady

LEMMA ChildExitsStep == ASSUME Running, ChildExits PROVE DiskInv'
<1>1. plan \in PlanRecord /\ MemGood(mem, disk, Always) /\ mem \in Memory BY RunningFacts
<1>2. mem.child # None /\ mem.child \in AofChild /\ mem.child.phase = "answered" BY <1>1 DEF ChildExits, Memory
<1>0. mem.pipe \in File /\ mem.rewrite \in File /\ mem.child.file \in File /\ mem.child.got \in File
  BY <1>1, <1>2 DEF Memory, AofChild
<1> DEFINE c == ChildEnds(mem.child, mem.pipe)
<1>3. c \in AofChild /\ c.phase = "done" /\ c.file = mem.child.file \o mem.child.got \o mem.pipe
  BY <1>0, <1>2, FileConcat DEF AofChild, ChildEnds
<1>4. mem' = [mem EXCEPT !.child = c, !.pipe = << >>] BY DEF ChildExits
<1> HIDE DEF c
<1>5. mem' \in Memory /\ mem'.child = c /\ mem'.stop = mem.stop /\ mem'.rewrite = mem.rewrite
  BY <1>1, <1>3, <1>4, FileConcat DEF Memory
<1>6. SameLog(mem, mem') /\ SameAck(mem, mem') /\ SameDirty(mem, mem')
  BY <1>1, <1>4 DEF Memory, SameLog, SameAck, SameDirty
<1>7. Pending(mem') = Pending(mem) BY <1>2, <1>3, <1>5 DEF Pending
<1>8. c # None /\ mem'.stop BY <1>1, <1>2, <1>3, <1>5, PersistenceAssumption DEF MemGood, ChildInv
<1>9. UNCHANGED <<disk, plan>> BY DEF ChildExits
<1> QED BY <1>1, <1>2, <1>3, <1>5, <1>6, <1>7, <1>8, <1>9, TransferKeeps, Steady

LEMMA aofChildWriteDiffDataStep == ASSUME Running, aofChildWriteDiffData PROVE DiskInv'
<1>1. plan \in PlanRecord /\ MemGood(mem, disk, Always) /\ mem \in Memory BY RunningFacts
<1>2. mem.child # None /\ mem.child \in AofChild /\ mem.child.phase \notin {"answered", "done"}
  BY <1>1 DEF aofChildWriteDiffData, Memory, MemGood, ChildInv
<1>0. mem.pipe \in File /\ mem.rewrite \in File /\ mem.child.file \in File /\ mem.child.got \in File
  BY <1>1, <1>2 DEF Memory, AofChild
<1>3. PICK k \in 1..Len(mem.rewrite) :
        mem' = [mem EXCEPT !.pipe = @ \o SubSeq(mem.rewrite, 1, k), !.rewrite = SubSeq(@, k + 1, Len(@))]
  BY DEF aofChildWriteDiffData
<1> DEFINE a == SubSeq(mem.rewrite, 1, k)
           b == SubSeq(mem.rewrite, k + 1, Len(mem.rewrite))
<1>4. a \in File /\ b \in File /\ a \o b = mem.rewrite
  <2>1. k \in 0..Len(mem.rewrite) BY <1>0 DEF File
  <2> QED BY <2>1, <1>0, CutParts DEF File
<1>10. mem' = [mem EXCEPT !.pipe = mem.pipe \o a, !.rewrite = b] BY <1>3
<1> HIDE DEF a, b
<1>11. mem.pipe \o a \in File BY <1>0, <1>4, FileConcat
<1>5. mem' \in Memory /\ mem'.child = mem.child /\ mem'.pipe = mem.pipe \o a /\ mem'.rewrite = b
  BY <1>1, <1>4, <1>10, <1>11 DEF Memory
<1>6. SameLog(mem, mem') /\ SameAck(mem, mem') /\ SameDirty(mem, mem')
  BY <1>1, <1>10 DEF Memory, SameLog, SameAck, SameDirty
<1>7. Pending(mem') = Pending(mem)
  <2> DEFINE h == mem.child.file \o mem.child.got
             p == mem.pipe
  <2>1. h \in File /\ p \in File BY <1>0, FileConcat
  <2> HIDE DEF h, p
  <2>3. a \in File /\ b \in File BY <1>4
  <2>2. (h \o (p \o a)) \o b = (h \o p) \o (a \o b)
    <3> DEFINE H == h \o p
    <3>1. h \o (p \o a) = H \o a BY <2>1, <2>3, FileConcat
    <3>2. H \in File BY <2>1, FileConcat
    <3> HIDE DEF H
    <3>3. (H \o a) \o b = H \o (a \o b) BY <2>3, <3>2, FileConcat
    <3> QED BY <3>1, <3>3 DEF H
  <2> QED BY <2>2, <1>2, <1>4, <1>5 DEF Pending, h, p
<1>9. UNCHANGED <<disk, plan>> BY DEF aofChildWriteDiffData
<1> QED BY <1>1, <1>2, <1>5, <1>6, <1>7, <1>9, TransferKeeps, Steady

-----------------------------------------------------------------------------
(* flushAppendOnlyFile *)

\* What a flush leaves, whatever it could do: the invariant; and a buffer that is
\* empty, or a server that knows it is not.
Result(m, d, r, always) ==
  /\ DiskGood(r.d) /\ r.d.dump = d.dump /\ r.d.spoilt = d.spoilt
  /\ \/ r.m = None
     \/ /\ MemGood(r.m, r.d, always)
        /\ r.m.data = m.data /\ r.m.old = m.old
        /\ r.m.buf = << >> \/ r.m.status = "err" \/ r.m.postponed
        /\ always => r.m.buf = << >>

SameMemory(m, n) == SameLog(m, n) /\ SameChild(m, n) /\ SameAck(m, n) /\ SameDirty(m, n)

LEMMA SyncFacts ==
  ASSUME NEW m \in Memory, NEW d \in DiskRecord, NEW due \in BOOLEAN, NEW r, r = SyncIfNeeded(m, d, due)
  PROVE  /\ r.m \in Memory /\ SameMemory(m, r.m)
         /\ r.d \in DiskRecord /\ r.d.aof = d.aof /\ r.d.dump = d.dump /\ r.d.spoilt = d.spoilt
         /\ r.d.synced \in {d.synced, Len(d.aof)}
         /\ Always => r.d.synced = Len(d.aof)
<1>1. Synced(d) \in DiskRecord /\ Synced(d).aof = d.aof /\ Synced(d).dump = d.dump
      /\ Synced(d).spoilt = d.spoilt /\ Synced(d).synced = Len(d.aof)
  BY DEF Synced, DiskRecord, File
<1> DEFINE n == [m EXCEPT !.jobs = Append(@, d.gen)]
<1>2. SameMemory(m, m) BY DEF SameMemory, SameLog, SameChild, SameAck, SameDirty
<1>3. n \in Memory
  <2>1. Append(m.jobs, d.gen) \in Seq(Nat) BY DEF Memory, DiskRecord
  <2> QED BY <2>1 DEF Memory
<1>4. SameMemory(m, n) BY DEF Memory, SameMemory, SameLog, SameChild, SameAck, SameDirty
<1>5. CASE plan.lazy /\ (m.child # None \/ m.rdb # None)
  <2>1. r.m = m /\ r.d = d BY <1>5 DEF SyncIfNeeded
  <2> QED BY <1>2, <1>5, <2>1 DEF Always
<1>6. CASE ~(plan.lazy /\ (m.child # None \/ m.rdb # None)) /\ plan.fsync = "always"
  <2>1. r.m = m /\ r.d = Synced(d) BY <1>6 DEF SyncIfNeeded
  <2> QED BY <1>1, <1>2, <2>1
<1>7. CASE ~(plan.lazy /\ (m.child # None \/ m.rdb # None)) /\ plan.fsync # "always"
  <2>0. ~Always BY <1>7 DEF Always
  <2>1. CASE plan.fsync = "everysec" /\ due /\ m.jobs = << >>
    <3>1. r.m = n /\ r.d = d BY <1>7, <2>1 DEF SyncIfNeeded
    <3> HIDE DEF n
    <3> QED BY <1>3, <1>4, <2>0, <3>1
  <2>2. CASE ~(plan.fsync = "everysec" /\ due /\ m.jobs = << >>)
    <3>1. r.m = m /\ r.d = d BY <1>7, <2>2 DEF SyncIfNeeded
    <3> QED BY <1>2, <2>0, <3>1
  <2> QED BY <2>1, <2>2
<1> QED BY <1>5, <1>6, <1>7

LEMMA WriteOkFacts ==
  ASSUME NEW m, NEW d, DiskGood(d), MemGood(m, d, Always), m.buf # << >>, NEW due \in BOOLEAN
  PROVE  Result(m, d, WriteOk(m, d, due), Always)
<1> DEFINE n == [m EXCEPT !.buf = << >>, !.status = "ok", !.postponed = FALSE]
           e == [d EXCEPT !.aof = @ \o m.buf]
           r == WriteOk(m, d, due)
<1>1. m \in Memory /\ d \in DiskRecord /\ m.buf \in File /\ d.aof \in File BY DEF MemGood, DiskGood, Memory, DiskRecord
<1> DEFINE F == d.aof \o m.buf
<1>2. F \in File /\ Len(F) = Len(d.aof) + Len(m.buf) /\ Len(d.aof) \in Nat /\ Len(m.buf) \in Nat
  BY <1>1, ConcatParts DEF File
<1>3. n \in Memory BY <1>1, FileConcat DEF Memory
<1>4. e \in DiskRecord /\ e.aof = F /\ e.synced = d.synced /\ e.dump = d.dump /\ e.spoilt = d.spoilt
  BY <1>1, <1>2 DEF DiskRecord
<1>5. n.buf = << >> /\ n.status = "ok" /\ ~n.postponed BY <1>1 DEF Memory
<1>6. n.state = m.state /\ n.fd = m.fd /\ n.data = m.data /\ n.selected = m.selected /\ n.acked = m.acked
      /\ n.old = m.old /\ SameChild(m, n) /\ SameDirty(m, n)
  BY <1>1 DEF Memory, SameChild, SameDirty
<1>7. r = SyncIfNeeded(n, e, due) BY DEF WriteOk
<1> HIDE DEF n, e, r, F
<1>8. /\ r.m \in Memory /\ SameMemory(n, r.m)
      /\ r.d \in DiskRecord /\ r.d.aof = e.aof /\ r.d.dump = e.dump /\ r.d.spoilt = e.spoilt
      /\ r.d.synced \in {e.synced, Len(e.aof)}
      /\ Always => r.d.synced = Len(e.aof)
  BY <1>3, <1>4, <1>7, SyncFacts
<1>9. SameLog(n, r.m) /\ SameChild(n, r.m) /\ SameAck(n, r.m) /\ SameDirty(n, r.m)
  BY <1>8 DEF SameMemory
<1>10. r.d.synced <= Len(r.d.aof)
  <2>1. d.synced \in Nat /\ d.synced <= Len(d.aof) BY <1>1 DEF DiskGood, DiskRecord
  <2>2. d.synced <= Len(F) BY <2>1, <1>1, ConcatLonger, Zenon DEF F
  <2>3. r.d.aof = F /\ r.d.synced \in {d.synced, Len(F)} BY <1>4, <1>8
  <2>4. Len(F) \in Nat BY <1>2, FileLen, Zenon
  <2> QED BY <2>2, <2>3, <2>4
<1>11. F \o << >> = F BY <1>2, FileConcat
<1>12. FileInv(r.d)
  <2> SUFFICES ASSUME ~d.spoilt PROVE WellFormed(F) BY <1>4, <1>8 DEF FileInv
  <2>1. m.state = "on" BY DEF MemGood, LogInv
  <2> QED BY <2>1 DEF MemGood, LogInv, Makes, F
<1>13. LogInv(r.m, r.d) BY <1>4, <1>5, <1>6, <1>8, <1>9, <1>11 DEF MemGood, LogInv, SameLog, F
<1>14. ChildInv(r.m) /\ DirtyInv(r.m, r.d)
  <2>1. ChildInv(n) /\ DirtyInv(n, e) BY <1>4, <1>6, Frames DEF MemGood
  <2> QED BY <2>1, <1>8, <1>9, Frames
<1>15. AckInv(r.m, r.d, Always)
  <2>1. Sets(r.d.aof) = Sets(d.aof) \cup Sets(m.buf) BY <1>1, <1>4, <1>8, SetsConcat DEF F
  <2>2. Always => Durable(r.d) = Sets(r.d.aof)
    <3>1. SubSeq(F, 1, Len(F)) = F BY <1>2, CutAll DEF File
    <3> QED BY <3>1, <1>4, <1>8 DEF Durable
  <2>3. m.acked \subseteq Writes(m.data) \ m.old
        /\ (m.state = "on" => Writes(m.data) \subseteq Sets(d.aof) \cup Sets(m.buf))
    BY DEF MemGood, AckInv
  <2>4. r.m.acked = m.acked /\ r.m.data = m.data /\ r.m.old = m.old /\ r.m.state = m.state
    BY <1>6, <1>9 DEF SameAck
  <2>5. r.m.buf = << >> BY <1>5, <1>9 DEF SameAck
  <2> QED BY <2>1, <2>2, <2>3, <2>4, <2>5 DEF AckInv
<1>16. r.m.data = m.data /\ r.m.old = m.old /\ r.m.buf = << >> BY <1>5, <1>6, <1>9 DEF SameAck
<1>17. DiskGood(r.d) /\ MemGood(r.m, r.d, Always)
  BY <1>8, <1>10, <1>12, <1>13, <1>14, <1>15 DEF DiskGood, MemGood
<1> QED BY <1>4, <1>8, <1>16, <1>17 DEF Result, r

LEMMA WriteFailsFacts ==
  ASSUME NEW m, NEW d, DiskGood(d), MemGood(m, d, Always), m.buf # << >>, NEW k \in 0..Len(m.buf)
  PROVE  Result(m, d, WriteFails(m, d, k), Always)
<1> DEFINE a == SubSeq(m.buf, 1, k)
           b == SubSeq(m.buf, k + 1, Len(m.buf))
           n == [m EXCEPT !.status = "err", !.postponed = FALSE, !.buf = b]
           e == [d EXCEPT !.aof = @ \o a]
           r == WriteFails(m, d, k)
           F == d.aof \o a
<1>1. m \in Memory /\ d \in DiskRecord /\ m.buf \in File /\ d.aof \in File BY DEF MemGood, DiskGood, Memory, DiskRecord
<1>2. a \in File /\ b \in File /\ a \o b = m.buf BY <1>1, CutParts DEF File
<1>3. r.d = e /\ r.m = IF plan.fsync = "always" THEN None ELSE n BY DEF WriteFails
<1> HIDE DEF a, b, r
<1>4. F \in File BY <1>1, <1>2, FileConcat
<1>5. e \in DiskRecord /\ e.aof = F /\ e.synced = d.synced /\ e.dump = d.dump /\ e.spoilt = d.spoilt
  BY <1>1, <1>4 DEF DiskRecord
<1>6. n \in Memory /\ n.buf = b /\ n.status = "err" BY <1>1, <1>2 DEF Memory
<1>7. n.state = m.state /\ n.fd = m.fd /\ n.data = m.data /\ n.selected = m.selected /\ n.acked = m.acked
      /\ n.old = m.old /\ n.renamed = m.renamed /\ SameChild(m, n) /\ SameDirty(m, n)
  BY <1>1 DEF Memory, SameChild, SameDirty
<1> HIDE DEF n, e
<1>8. F \o b = d.aof \o m.buf
  <2>1. (d.aof \o a) \o b = d.aof \o (a \o b)
    <3> DEFINE x == d.aof
    <3>1. x \in File BY <1>1
    <3> HIDE DEF x
    <3>2. (x \o a) \o b = x \o (a \o b) BY <3>1, <1>2, FileConcat
    <3> QED BY <3>2 DEF x
  <2> QED BY <2>1, <1>2
<1>9. e.synced <= Len(e.aof)
  <2>1. d.synced \in Nat /\ d.synced <= Len(d.aof) BY <1>1 DEF DiskGood, DiskRecord
  <2>2. d.synced <= Len(F) BY <2>1, <1>1, <1>2, ConcatLonger, Zenon DEF F
  <2> QED BY <2>2, <1>5
<1> HIDE DEF F
<1>10. FileInv(e)
  <2> SUFFICES ASSUME ~d.spoilt PROVE WellFormed(F) BY <1>5 DEF FileInv
  <2>1. m.state = "on" BY DEF MemGood, LogInv
  <2>2. WellFormed(F \o b) BY <2>1, <1>8 DEF MemGood, LogInv, Makes
  <2> QED BY <2>2, <1>2, <1>4, WellFormedPrefix
<1>11. LogInv(n, e)
  <2>1. ~d.spoilt => m.state = "on" BY DEF MemGood, LogInv
  <2> QED BY <2>1, <1>5, <1>6, <1>7, <1>8 DEF MemGood, LogInv
<1>12. ChildInv(n) /\ DirtyInv(n, e) BY <1>5, <1>7, Frames DEF MemGood
<1>13. ~Always => AckInv(n, e, Always)
  <2>1. Sets(F) \cup Sets(b) = Sets(d.aof) \cup Sets(m.buf)
    <3>1. Sets(F \o b) = Sets(F) \cup Sets(b) BY <1>2, <1>4, SetsConcat
    <3>2. Sets(d.aof \o m.buf) = Sets(d.aof) \cup Sets(m.buf) BY <1>1, SetsConcat
    <3> QED BY <3>1, <3>2, <1>8
  <2>2. m.acked \subseteq Writes(m.data) \ m.old
        /\ (m.state = "on" => Writes(m.data) \subseteq Sets(d.aof) \cup Sets(m.buf))
    BY DEF MemGood, AckInv
  <2>3. ~m.renamed BY DEF MemGood, AckInv
  <2> QED BY <2>1, <2>2, <2>3, <1>5, <1>6, <1>7 DEF AckInv
<1>14. DiskGood(e) BY <1>5, <1>9, <1>10 DEF DiskGood
<1>15. CASE plan.fsync = "always" BY <1>3, <1>5, <1>14, <1>15 DEF Result, r
<1>16. CASE plan.fsync # "always"
  <2>1. ~Always BY <1>16 DEF Always
  <2>2. MemGood(n, e, Always) BY <2>1, <1>6, <1>11, <1>12, <1>13 DEF MemGood
  <2> QED BY <2>1, <2>2, <1>3, <1>5, <1>6, <1>7, <1>14, <1>16 DEF Result, r
<1> QED BY <1>15, <1>16

LEMMA FlushedFacts ==
  ASSUME NEW m, NEW d, DiskGood(d), MemGood(m, d, Always), m.buf # << >>, NEW r \in Flushed(m, d)
  PROVE  Result(m, d, r, Always)
<1>1. m.buf \in File BY DEF MemGood, Memory
<1>2. Len(m.buf) \in Nat BY <1>1, FileLen
<1>3. 0..(Len(m.buf) - 1) \subseteq 0..Len(m.buf) /\ 0 \in 0..Len(m.buf) BY <1>2
<1>4. CASE \E due \in BOOLEAN : r = WriteOk(m, d, due) BY <1>4, WriteOkFacts
<1>5. CASE \E k \in 0..Len(m.buf) : r = WriteFails(m, d, k) BY <1>5, WriteFailsFacts
<1>6. (\E due \in BOOLEAN : r = WriteOk(m, d, due)) \/ \E k \in 0..Len(m.buf) : r = WriteFails(m, d, k)
  BY <1>3 DEF Flushed
<1> QED BY <1>4, <1>5, <1>6

LEMMA FlushFacts ==
  ASSUME NEW m, NEW d, DiskGood(d), MemGood(m, d, Always), NEW force \in BOOLEAN,
         NEW r \in flushAppendOnlyFile(m, d, force)
  PROVE  Result(m, d, r, Always)
<1>1. CASE m.buf = << >>
  <2>1. r = [m |-> m, d |-> d, bad |-> FALSE] BY <1>1 DEF flushAppendOnlyFile
  <2>2. r.m = m /\ r.d = d BY <2>1
  <2> QED BY <1>1, <2>2 DEF Result
<1>2. CASE m.buf # << >> /\ r \in Flushed(m, d) BY <1>2, FlushedFacts
<1>3. CASE m.buf # << >> /\ r \notin Flushed(m, d)
  <2> DEFINE n == [m EXCEPT !.postponed = TRUE]
  <2>1. plan.fsync = "everysec" /\ r = [m |-> n, d |-> d, bad |-> FALSE] BY <1>3 DEF flushAppendOnlyFile
  <2>2. r.m = n /\ r.d = d /\ ~Always BY <2>1 DEF Always
  <2>3. m \in Memory BY DEF MemGood
  <2>4. n \in Memory /\ n.postponed /\ SameLog(m, n) /\ SameChild(m, n) /\ SameDirty(m, n)
        /\ n.acked = m.acked /\ n.old = m.old /\ n.data = m.data /\ n.buf = m.buf /\ n.state = m.state
        /\ n.renamed = m.renamed
    BY <2>3 DEF Memory, SameLog, SameChild, SameDirty
  <2> HIDE DEF n
  <2>5. LogInv(n, d) /\ ChildInv(n) /\ DirtyInv(n, d) BY <2>4, Frames DEF MemGood
  <2>6. AckInv(n, d, Always) BY <2>2, <2>4 DEF MemGood, AckInv
  <2>7. MemGood(n, d, Always) BY <2>4, <2>5, <2>6 DEF MemGood
  <2> QED BY <2>2, <2>4, <2>7 DEF Result
<1> QED BY <1>1, <1>2, <1>3

LEMMA CostsFacts ==
  ASSUME plan \in PlanRecord, NEW bad, Costs(bad)
  PROVE  plan' \in PlanRecord /\ Always' = Always
<1>1. "faults" \in Kinds BY DEF Kinds
<1>2. CASE UNCHANGED plan BY <1>2, Steady
<1>3. CASE Spend("faults") BY <1>1, <1>3, SpendFacts
<1> QED BY <1>2, <1>3 DEF Costs

LEMMA beforeSleepStep == ASSUME Running, beforeSleep PROVE DiskInv'
<1>1. plan \in PlanRecord /\ DiskGood(disk) /\ MemGood(mem, disk, Always) BY RunningFacts
<1>2. PICK r \in flushAppendOnlyFile(mem, disk, FALSE) :
        /\ Costs(r.bad) /\ disk' = r.d
        /\ mem' = IF r.m = None THEN None ELSE [r.m EXCEPT !.acked = Writes(mem.data) \ mem.old]
  BY DEF beforeSleep
<1>3. plan' \in PlanRecord /\ Always' = Always BY <1>1, <1>2, CostsFacts
<1>4. Result(mem, disk, r, Always) BY <1>1, FlushFacts
<1>5. CASE r.m = None BY <1>2, <1>3, <1>4, <1>5, Onward DEF Result
<1>6. CASE r.m # None
  <2> DEFINE A == Writes(mem.data) \ mem.old
             n == [r.m EXCEPT !.acked = A]
  <2>1. mem' = n BY <1>2, <1>6
  <2>2. DiskGood(r.d) /\ MemGood(r.m, r.d, Always) /\ r.m.data = mem.data /\ r.m.old = mem.old
        /\ (r.m.buf = << >> \/ r.m.status = "err" \/ r.m.postponed)
        /\ (Always => r.m.buf = << >>)
    BY <1>4, <1>6 DEF Result
  <2>3. r.m \in Memory BY <2>2 DEF MemGood
  <2>4. A \in SUBSET Nat
    <3>1. mem.data \in DataSet BY <1>1 DEF MemGood, Memory
    <3> QED BY <3>1, WritesFinite
  <2> HIDE DEF A
  <2>5. n \in Memory /\ n.acked = A /\ SameLog(r.m, n) /\ SameChild(r.m, n) /\ SameDirty(r.m, n)
        /\ n.data = r.m.data /\ n.old = r.m.old /\ n.state = r.m.state /\ n.buf = r.m.buf
        /\ n.status = r.m.status /\ n.postponed = r.m.postponed /\ n.renamed = r.m.renamed
    BY <2>3, <2>4 DEF Memory, SameLog, SameChild, SameDirty
  <2> HIDE DEF n
  <2>6. LogInv(n, r.d) /\ ChildInv(n) /\ DirtyInv(n, r.d) BY <2>2, <2>5, Frames DEF MemGood
  <2>7. AckInv(n, r.d, Always)
    <3>1. A = Writes(n.data) \ n.old BY <2>2, <2>5 DEF A
    <3>2. AckInv(r.m, r.d, Always) BY <2>2 DEF MemGood
    <3>3. /\ n.renamed => n.buf = << >>
          /\ n.state = "on" =>
               /\ Writes(n.data) \subseteq Sets(r.d.aof) \cup Sets(n.buf)
               /\ Always /\ ~n.renamed => Writes(n.data) \ n.old \subseteq Durable(r.d) \cup Sets(n.buf)
      BY <3>2, <2>5 DEF AckInv
    <3>4. n.status = "ok" /\ ~n.postponed => Sets(n.buf) = {} BY <2>2, <2>5, SetsEmpty
    <3>5. Always => Sets(n.buf) = {} BY <2>2, <2>5, SetsEmpty
    <3> QED BY <3>1, <3>3, <3>4, <3>5, <2>5 DEF AckInv
  <2>8. MemGood(n, r.d, Always) BY <2>5, <2>6, <2>7 DEF MemGood
  <2> QED BY <2>1, <2>2, <2>8, <1>2, <1>3, Onward
<1> QED BY <1>5, <1>6

LEMMA CronFlushStep == ASSUME Running, CronFlush PROVE DiskInv'
<1>1. plan \in PlanRecord /\ DiskGood(disk) /\ MemGood(mem, disk, Always) BY RunningFacts
<1>2. PICK r \in flushAppendOnlyFile(mem, disk, FALSE) : Costs(r.bad) /\ mem' = r.m /\ disk' = r.d
  BY DEF CronFlush
<1>3. plan' \in PlanRecord /\ Always' = Always BY <1>1, <1>2, CostsFacts
<1>4. Result(mem, disk, r, Always) BY <1>1, FlushFacts
<1> QED BY <1>2, <1>3, <1>4, Onward DEF Result

LEMMA stopAppendOnlyStep == ASSUME Running, stopAppendOnly PROVE DiskInv'
<1>1. plan \in PlanRecord /\ DiskGood(disk) /\ MemGood(mem, disk, Always) BY RunningFacts
<1>2. PICK r \in flushAppendOnlyFile(mem, disk, TRUE) :
        /\ mem' = IF r.m = None THEN None
                  ELSE [r.m EXCEPT !.fd = "none", !.selected = -1, !.state = "off",
                                   !.child = None, !.rewrite = << >>, !.pipe = << >>]
        /\ disk' = IF r.m = None THEN r.d ELSE [Synced(r.d) EXCEPT !.spoilt = @ \/ r.m.buf # << >>]
  BY DEF stopAppendOnly
<1>3. plan' \in PlanRecord /\ Always' = Always
  <2>1. "switches" \in Kinds /\ Spend("switches") BY DEF Kinds, stopAppendOnly
  <2> QED BY <1>1, <2>1, SpendFacts
<1>4. Result(mem, disk, r, Always) BY <1>1, FlushFacts
<1>5. CASE r.m = None BY <1>2, <1>3, <1>4, <1>5, Onward DEF Result
<1>6. CASE r.m # None
  <2> DEFINE m == r.m
             d == r.d
             n == [m EXCEPT !.fd = "none", !.selected = -1, !.state = "off",
                            !.child = None, !.rewrite = << >>, !.pipe = << >>]
             e == [Synced(d) EXCEPT !.spoilt = @ \/ m.buf # << >>]
  <2>1. mem' = n /\ disk' = e BY <1>2, <1>6
  <2>2. DiskGood(d) /\ MemGood(m, d, Always) BY <1>4, <1>6 DEF Result
  <2> HIDE DEF m, d
  <2>3. m \in Memory /\ d \in DiskRecord /\ d.aof \in File BY <2>2 DEF MemGood, DiskGood, DiskRecord
  <2>4. n \in Memory /\ n.state = "off" /\ n.child = None /\ n.rewrite = << >> /\ n.buf = m.buf
        /\ n.renamed = m.renamed /\ n.acked = m.acked /\ n.old = m.old /\ n.data = m.data /\ SameDirty(m, n)
    BY <2>3, FileConcat DEF Memory, SameDirty
  <2>5. Len(d.aof) \in Nat BY <2>3, FileLen
  <2>6. e \in DiskRecord /\ e.aof = d.aof /\ e.synced = Len(d.aof) /\ e.dump = d.dump
        /\ (~e.spoilt => ~d.spoilt /\ m.buf = << >>)
    BY <2>3, <2>5 DEF DiskRecord, Synced
  <2> HIDE DEF n, e
  <2>7. DiskGood(e) BY <2>2, <2>5, <2>6 DEF DiskGood, FileInv
  <2>8. LogInv(n, e) BY <2>4, <2>6 DEF LogInv
  <2>9. ChildInv(n) BY <2>4 DEF ChildInv
  <2>10. AckInv(n, e, Always) BY <2>2, <2>4 DEF MemGood, AckInv
  <2>11. DirtyInv(n, e) BY <2>2, <2>4, <2>6, Frames DEF MemGood
  <2>12. MemGood(n, e, Always) BY <2>4, <2>8, <2>9, <2>10, <2>11 DEF MemGood
  <2> QED BY <2>1, <2>7, <2>12, <1>3, Onward
<1> QED BY <1>5, <1>6

-----------------------------------------------------------------------------
(* fsync *)

LEMMA SyncedKeeps ==
  ASSUME NEW m, NEW d, NEW always, DiskGood(d), MemGood(m, d, always)
  PROVE  DiskGood(Synced(d)) /\ MemGood(m, Synced(d), always)
<1> DEFINE e == Synced(d)
<1>1. d \in DiskRecord /\ d.aof \in File /\ d.synced \in Nat /\ d.synced <= Len(d.aof) BY DEF DiskGood, DiskRecord
<1>2. Len(d.aof) \in Nat BY <1>1, FileLen
<1>3. e \in DiskRecord /\ e.aof = d.aof /\ e.synced = Len(d.aof) /\ e.dump = d.dump /\ e.spoilt = d.spoilt
  BY <1>1, <1>2 DEF Synced, DiskRecord
<1> HIDE DEF e
<1>4. DiskGood(e) BY <1>2, <1>3 DEF DiskGood, FileInv
<1>5. SubSeq(d.aof, 1, Len(d.aof)) = d.aof BY <1>1, CutAll DEF File
<1>6. Durable(e) = Sets(d.aof) BY <1>3, <1>5 DEF Durable
<1>7. Durable(d) \subseteq Sets(d.aof)
  <2> DEFINE f == d.aof
             k == d.synced
             a == SubSeq(f, 1, k)
             b == SubSeq(f, k + 1, Len(f))
  <2>1. f \in File /\ k \in 0..Len(f) BY <1>1, <1>2
  <2> HIDE DEF f, k
  <2>2. a \in File /\ b \in File /\ a \o b = f BY <2>1, CutParts DEF File
  <2> HIDE DEF a, b
  <2>3. Sets(a) \subseteq Sets(f)
    <3>1. Sets(a \o b) = Sets(a) \cup Sets(b) BY <2>2, SetsConcat
    <3> QED BY <3>1, <2>2
  <2> QED BY <2>3 DEF Durable, a, f, k
<1>8. AckInv(m, e, always)
  <2>1. AckInv(m, d, always) BY DEF MemGood
  <2> QED BY <2>1, <1>3, <1>6, <1>7 DEF AckInv
<1>9. LogInv(m, e) /\ DirtyInv(m, e)
  <2>1. SameLog(m, m) /\ SameDirty(m, m) BY DEF SameLog, SameDirty
  <2> QED BY <2>1, <1>3, Frames DEF MemGood
<1> QED BY <1>4, <1>8, <1>9 DEF MemGood, e

LEMMA bioProcessBackgroundJobsStep == ASSUME Running, bioProcessBackgroundJobs PROVE DiskInv'
<1>1. plan \in PlanRecord /\ DiskGood(disk) /\ MemGood(mem, disk, Always) /\ mem \in Memory BY RunningFacts
<1>2. mem' = [mem EXCEPT !.jobs = Tail(@)] /\ mem.jobs # << >> /\ UNCHANGED plan BY DEF bioProcessBackgroundJobs
<1>3. disk' = Synced(disk) \/ disk' = disk BY DEF bioProcessBackgroundJobs
<1>4. DiskGood(disk') /\ MemGood(mem, disk', Always) BY <1>1, <1>3, SyncedKeeps
<1>5. Tail(mem.jobs) \in Seq(Nat) BY <1>1, <1>2 DEF Memory
<1>6. mem' \in Memory /\ SameMemory(mem, mem')
  BY <1>1, <1>2, <1>5 DEF Memory, SameMemory, SameLog, SameChild, SameAck, SameDirty
<1>7. MemGood(mem', disk', Always) BY <1>4, <1>6, Frames DEF MemGood, SameMemory
<1> QED BY <1>1, <1>2, <1>4, <1>7, Steady, Onward

-----------------------------------------------------------------------------
(* The rewrite begins and ends *)

LEMMA RewriteBegins ==
  ASSUME NEW m, NEW d, NEW always, MemGood(m, d, always), m.child = None,
         NEW n, n = rewriteAppendOnlyFileBackground(m)
  PROVE  MemGood(n, d, always) /\ ChildInv([n EXCEPT !.fd = "open", !.state = "wait"])
<1> DEFINE R == Rewritten(m.data)
           c == [phase |-> "writing", file |-> R, got |-> << >>]
<1>1. m \in Memory /\ m.data \in DataSet BY DEF MemGood, Memory
<1>2. R \in File /\ Makes(R, m.data, -1) BY <1>1, RewrittenMakes
<1>3. n = [m EXCEPT !.child = c, !.scheduled = FALSE, !.selected = -1, !.pipe = << >>, !.stop = FALSE]
  BY DEF rewriteAppendOnlyFileBackground
<1> HIDE DEF R
<1>4. c \in AofChild /\ c.phase = "writing" /\ c.file = R /\ c.got = << >> BY <1>2, FileConcat DEF AofChild
<1>5. c # None BY <1>4, PersistenceAssumption
<1> HIDE DEF c
<1>6. n \in Memory /\ n.child = c /\ n.pipe = << >> /\ n.rewrite = m.rewrite /\ n.selected = -1
      /\ n.state = m.state /\ n.fd = m.fd /\ n.buf = m.buf /\ n.data = m.data /\ SameAck(m, n) /\ SameDirty(m, n)
  <2>1. << >> \in File /\ -1 \in Databases \cup {-1} BY FileConcat
  <2>2. n \in Memory BY <1>1, <1>3, <1>4, <2>1 DEF Memory
  <2>3. n.child = c /\ n.pipe = << >> /\ n.rewrite = m.rewrite /\ n.selected = -1
        /\ n.state = m.state /\ n.fd = m.fd /\ n.buf = m.buf /\ n.data = m.data
    BY <1>1, <1>3 DEF Memory
  <2>4. SameAck(m, n) /\ SameDirty(m, n) BY <1>1, <1>3 DEF Memory, SameAck, SameDirty
  <2> QED BY <2>2, <2>3, <2>4
<1>7. m.rewrite = << >> BY DEF MemGood, ChildInv
<1>8. Pending(n) = R
  <2>1. Pending(n) = ((R \o << >>) \o << >>) \o << >> BY <1>4, <1>6, <1>7 DEF Pending
  <2>2. R \o << >> = R BY <1>2, FileConcat
  <2> QED BY <2>1, <2>2
<1> DEFINE o == [n EXCEPT !.fd = "open", !.state = "wait"]
<1>9. o.child = c /\ Pending(o) = Pending(n) /\ o.data = n.data /\ o.selected = n.selected
  BY <1>6 DEF Pending, Memory
<1> HIDE DEF o
<1>10. ChildInv(n) /\ ChildInv(o) BY <1>2, <1>4, <1>5, <1>6, <1>8, <1>9 DEF ChildInv, Makes
<1>11. LogInv(n, d)
  <2>1. LogInv(m, d) BY DEF MemGood
  <2> QED BY <2>1, <1>6 DEF LogInv, Makes
<1>12. AckInv(n, d, always) /\ DirtyInv(n, d) BY <1>6, Frames DEF MemGood
<1> QED BY <1>6, <1>10, <1>11, <1>12 DEF MemGood, o

LEMMA bgrewriteaofCommandStep == ASSUME Running, bgrewriteaofCommand PROVE DiskInv'
<1>1. plan \in PlanRecord /\ DiskGood(disk) /\ MemGood(mem, disk, Always) /\ mem \in Memory BY RunningFacts
<1>2. mem.child = None /\ Spend("rewrites") /\ "rewrites" \in Kinds /\ disk' = disk
  BY DEF bgrewriteaofCommand, Kinds
<1>3. CASE mem.rdb # None
  <2>1. mem' = [mem EXCEPT !.scheduled = TRUE] BY <1>3 DEF bgrewriteaofCommand
  <2>2. mem' \in Memory /\ SameMemory(mem, mem')
    BY <1>1, <2>1 DEF Memory, SameMemory, SameLog, SameChild, SameAck, SameDirty
  <2>3. MemGood(mem', disk', Always) BY <1>1, <1>2, <2>2, Frames DEF MemGood, SameMemory
  <2> QED BY <1>1, <1>2, <2>3, SpendFacts, Onward
<1>4. CASE mem.rdb = None
  <2>1. mem' = rewriteAppendOnlyFileBackground(mem) BY <1>4 DEF bgrewriteaofCommand
  <2>2. MemGood(mem', disk, Always) BY <1>1, <1>2, <2>1, RewriteBegins
  <2> QED BY <1>1, <1>2, <2>2, SpendFacts, Onward
<1> QED BY <1>3, <1>4

LEMMA ScheduledRewriteStep == ASSUME Running, ScheduledRewrite PROVE DiskInv'
<1>1. plan \in PlanRecord /\ DiskGood(disk) /\ MemGood(mem, disk, Always) BY RunningFacts
<1>2. mem.child = None /\ mem' = rewriteAppendOnlyFileBackground(mem) /\ UNCHANGED <<disk, plan>>
  BY DEF ScheduledRewrite
<1>3. MemGood(mem', disk, Always) BY <1>1, <1>2, RewriteBegins
<1> QED BY <1>1, <1>2, <1>3, Steady, Onward

LEMMA startAppendOnlyStep == ASSUME Running, startAppendOnly PROVE DiskInv'
<1>1. plan \in PlanRecord /\ DiskGood(disk) /\ MemGood(mem, disk, Always) /\ mem \in Memory BY RunningFacts
<1>2. mem.state = "off" /\ Spend("switches") /\ "switches" \in Kinds /\ disk' = disk
  BY DEF startAppendOnly, Kinds
<1>3. CASE mem' = [mem EXCEPT !.fd = "closed"]
  <2>1. mem' = [mem EXCEPT !.fd = "closed"] BY <1>3
  <2>2. mem' \in Memory /\ SameChild(mem, mem') /\ SameAck(mem, mem') /\ SameDirty(mem, mem')
        /\ mem'.state = "off" /\ mem'.buf = mem.buf
    BY <1>1, <1>2, <2>1 DEF Memory, SameChild, SameAck, SameDirty
  <2>3. LogInv(mem', disk) BY <1>1, <1>2, <2>2 DEF MemGood, LogInv
  <2>4. ChildInv(mem') /\ AckInv(mem', disk, Always) /\ DirtyInv(mem', disk) BY <1>1, <2>2, Frames DEF MemGood
  <2>5. MemGood(mem', disk', Always) BY <1>2, <2>2, <2>3, <2>4 DEF MemGood
  <2> QED BY <1>1, <1>2, <2>5, SpendFacts, Onward
<1>4. CASE mem.child = None /\ mem' = [rewriteAppendOnlyFileBackground(mem) EXCEPT !.fd = "open", !.state = "wait"]
  <2> DEFINE n == rewriteAppendOnlyFileBackground(mem)
  <2>1. mem' = [n EXCEPT !.fd = "open", !.state = "wait"] BY <1>4
  <2>0. n.state = mem.state BY <1>1 DEF rewriteAppendOnlyFileBackground, Memory
  <2> HIDE DEF n
  <2>2. MemGood(n, disk, Always) /\ ChildInv(mem')
    <3>1. n = rewriteAppendOnlyFileBackground(mem) BY DEF n
    <3>2. mem.child = None BY <1>4
    <3>3. MemGood(n, disk, Always) /\ ChildInv([n EXCEPT !.fd = "open", !.state = "wait"])
      BY <1>1, <3>1, <3>2, RewriteBegins
    <3> QED BY <2>1, <3>3
  <2>3. n \in Memory BY <2>2 DEF MemGood
  <2>4. mem' \in Memory /\ mem'.state = "wait" /\ mem'.fd = "open" /\ mem'.buf = n.buf
        /\ mem'.acked = n.acked /\ mem'.data = n.data /\ mem'.old = n.old /\ SameDirty(n, mem')
        /\ mem'.renamed = n.renamed
    BY <2>1, <2>3 DEF Memory, SameDirty
  <2>5. LogInv(mem', disk) BY <1>2, <2>0, <2>2, <2>4 DEF MemGood, LogInv
  <2>6. AckInv(mem', disk, Always) BY <2>2, <2>4 DEF MemGood, AckInv
  <2>7. DirtyInv(mem', disk) BY <2>2, <2>4, Frames DEF MemGood
  <2>8. MemGood(mem', disk', Always) BY <1>2, <2>2, <2>4, <2>5, <2>6, <2>7 DEF MemGood
  <2> QED BY <1>1, <1>2, <2>8, SpendFacts, Onward
<1> QED BY <1>3, <1>4 DEF startAppendOnly

LEMMA CleanupKeeps ==
  ASSUME NEW m, NEW d, NEW always, m \in Memory, LogInv(m, d), AckInv(m, d, always), DirtyInv(m, d)
  PROVE  MemGood(Cleanup(m), d, always)
<1> DEFINE n == Cleanup(m)
<1>1. n \in Memory /\ n.child = None /\ n.rewrite = << >> /\ SameLog(m, n) /\ SameAck(m, n) /\ SameDirty(m, n)
  BY FileConcat DEF Cleanup, Memory, SameLog, SameAck, SameDirty
<1> HIDE DEF n
<1>2. LogInv(n, d) /\ AckInv(n, d, always) /\ DirtyInv(n, d) BY <1>1, Frames
<1>3. ChildInv(n) BY <1>1 DEF ChildInv
<1> QED BY <1>1, <1>2, <1>3 DEF MemGood, n

LEMMA SwitchedFacts ==
  ASSUME NEW m \in Memory, NEW n, n = Switched(m)
  PROVE  /\ n \in Memory /\ SameDirty(m, n)
         /\ n.data = m.data /\ n.acked = m.acked /\ n.old = m.old
         /\ m.fd = "none" => n = m
         /\ m.fd # "none" => /\ n.buf = << >> /\ n.fd = "open" /\ n.selected = -1 /\ n.renamed
                             /\ n.state = IF m.state = "wait" THEN "on" ELSE m.state
<1>1. CASE m.fd = "none"
  <2>1. n = m BY <1>1 DEF Switched
  <2> QED BY <1>1, <2>1 DEF SameDirty
<1>2. CASE m.fd # "none"
  <2> DEFINE s == IF m.state = "wait" THEN "on" ELSE m.state
  <2>1. n = [m EXCEPT !.fd = "open", !.buf = << >>, !.selected = -1, !.state = s, !.renamed = TRUE]
    BY <1>2 DEF Switched
  <2>2. s \in {"off", "wait", "on"} BY DEF Memory
  <2> QED BY <1>2, <2>1, <2>2, FileConcat DEF Memory, SameDirty
<1> QED BY <1>1, <1>2

LEMMA RewriteEnds ==
  ASSUME Running, mem.child # None, mem.child.phase = "done",
         disk' = Renamed(mem, disk), mem' = Cleanup(Switched(mem)), UNCHANGED plan
  PROVE  DiskInv'
<1>1. plan \in PlanRecord /\ DiskGood(disk) /\ MemGood(mem, disk, Always) /\ mem \in Memory /\ disk \in DiskRecord
  BY RunningFacts
<1> DEFINE x == mem.child.file
           f == x \o mem.rewrite
           s == Len(x)
           n == Switched(mem)
<1>2. x \in File /\ mem.rewrite \in File BY <1>1 DEF Memory, AofChild
<1>3. f \in File BY <1>2, FileConcat
<1>4. disk' = [disk EXCEPT !.aof = f, !.gen = @ + 1, !.synced = s] BY DEF Renamed
<1>5. f = Pending(mem) BY DEF Pending
<1>6. Len(x) \in Nat /\ Len(f) \in Nat BY <1>2, <1>3, FileLen
<1>7. Len(x) <= Len(f)
  <2>1. Len(x) <= Len(x) BY <1>6
  <2> QED BY <2>1, <1>2, <1>6, ConcatLonger, Zenon
<1> HIDE DEF x, f
<1>8. s \in Nat /\ s <= Len(f) BY <1>6, <1>7
<1> HIDE DEF s
<1>10. disk' \in DiskRecord /\ disk'.aof = f /\ disk'.synced = s /\ disk'.dump = disk.dump
       /\ disk'.spoilt = disk.spoilt
  <2> DEFINE g == disk.gen + 1
  <2>1. g \in Nat BY <1>1 DEF DiskRecord
  <2>2. disk' = [disk EXCEPT !.aof = f, !.gen = g, !.synced = s] BY <1>4
  <2>3. s \in Nat BY <1>8
  <2> HIDE DEF g, n
  <2> QED BY <2>1, <2>2, <2>3, <1>1, <1>3 DEF DiskRecord
<1>11. WellFormed(f) /\ (mem.state # "off" => Makes(f, mem.data, mem.selected))
  BY <1>1, <1>5 DEF MemGood, ChildInv
<1>12. DiskGood(disk') BY <1>8, <1>10, <1>11 DEF DiskGood, FileInv
<1>14. /\ n \in Memory /\ SameDirty(mem, n)
       /\ n.data = mem.data /\ n.acked = mem.acked /\ n.old = mem.old
       /\ mem.fd = "none" => n = mem
       /\ mem.fd # "none" => /\ n.buf = << >> /\ n.fd = "open" /\ n.selected = -1 /\ n.renamed
                             /\ n.state = IF mem.state = "wait" THEN "on" ELSE mem.state
  BY <1>1, SwitchedFacts
<1>15. mem.fd = "none" => mem.state = "off" BY <1>1 DEF MemGood, LogInv
<1> HIDE DEF n
<1>16. LogInv(n, disk')
  <2>1. LogInv(mem, disk) BY <1>1 DEF MemGood
  <2>2. CASE mem.fd = "none" BY <2>1, <2>2, <1>10, <1>14, <1>15 DEF LogInv
  <2>3. CASE mem.fd # "none"
    <3>1. n.state = "on" => Makes(f, n.data, n.selected)
      BY <2>3, <1>11, <1>14 DEF Makes
    <3>2. f \o << >> = f BY <1>3, FileConcat
    <3> QED BY <2>3, <3>1, <3>2, <1>10, <1>14 DEF LogInv
  <2> QED BY <2>2, <2>3
<1>17. AckInv(n, disk', Always)
  <2>1. AckInv(mem, disk, Always) BY <1>1 DEF MemGood
  <2>2. CASE n.state # "on"
    <3>1. n.renamed => n.buf = << >> BY <2>1, <1>14 DEF AckInv
    <3> QED BY <2>1, <2>2, <3>1, <1>14 DEF AckInv
  <2>3. CASE n.state = "on"
    <3>1. mem.fd # "none" /\ mem.state # "off" BY <2>3, <1>14, <1>15
    <3>2. Writes(mem.data) = Sets(f) BY <3>1, <1>3, <1>11, ReplayedWrites DEF Makes
    <3>3. n.renamed /\ n.buf = << >> BY <3>1, <1>14
    <3> QED BY <2>1, <3>2, <3>3, <1>10, <1>14 DEF AckInv
  <2> QED BY <2>2, <2>3
<1>18. DirtyInv(n, disk') BY <1>1, <1>10, <1>14, Frames DEF MemGood
<1>19. MemGood(mem', disk', Always) BY <1>14, <1>16, <1>17, <1>18, CleanupKeeps DEF n
<1> QED BY <1>1, <1>12, <1>19, Steady, Onward

LEMMA backgroundRewriteDoneHandlerStep == ASSUME Running, backgroundRewriteDoneHandler PROVE DiskInv'
<1>1. plan \in PlanRecord /\ DiskGood(disk) /\ MemGood(mem, disk, Always) BY RunningFacts
<1>2. CASE mem.child.phase = "done" /\ disk' = Renamed(mem, disk)
           /\ mem' = Cleanup(Switched(mem)) /\ UNCHANGED plan
  BY <1>2, RewriteEnds DEF backgroundRewriteDoneHandler
<1>3. CASE mem' = Cleanup(mem) /\ disk' = disk /\ (Spend("faults") \/ UNCHANGED plan)
  <2>1. MemGood(mem', disk, Always) BY <1>1, <1>3, CleanupKeeps DEF MemGood
  <2>2. plan' \in PlanRecord /\ Always' = Always
    <3>1. "faults" \in Kinds BY DEF Kinds
    <3> QED BY <1>1, <1>3, <3>1, Steady, SpendFacts
  <2> QED BY <1>1, <1>3, <2>1, <2>2, Onward
<1> QED BY <1>2, <1>3 DEF backgroundRewriteDoneHandler

LEMMA RewriteSyncedStep == ASSUME Running, RewriteSynced PROVE DiskInv'
<1>1. plan \in PlanRecord /\ DiskGood(disk) /\ MemGood(mem, disk, Always) /\ mem \in Memory /\ disk \in DiskRecord
  BY RunningFacts
<1>2. mem.renamed /\ UNCHANGED plan /\ disk' = (IF plan.fsync = "always" THEN Synced(disk) ELSE disk)
  BY DEF RewriteSynced
<1>3. DiskGood(disk') /\ MemGood(mem, disk', Always) BY <1>1, <1>2, SyncedKeeps
<1> DEFINE j == IF plan.fsync = "everysec" THEN Append(mem.jobs, disk.gen) ELSE mem.jobs
<1>4. mem' = [mem EXCEPT !.renamed = FALSE, !.jobs = j] BY DEF RewriteSynced
<1>5. j \in Seq(Nat) BY <1>1 DEF Memory, DiskRecord
<1> HIDE DEF j
<1>6. mem' \in Memory /\ SameLog(mem, mem') /\ SameChild(mem, mem') /\ SameDirty(mem, mem')
      /\ mem'.acked = mem.acked /\ mem'.data = mem.data /\ mem'.old = mem.old /\ mem'.state = mem.state
      /\ mem'.buf = mem.buf /\ mem'.status = mem.status /\ mem'.postponed = mem.postponed /\ ~mem'.renamed
  BY <1>1, <1>4, <1>5 DEF Memory, SameLog, SameChild, SameDirty
<1>7. LogInv(mem', disk') /\ ChildInv(mem') /\ DirtyInv(mem', disk') BY <1>3, <1>6, Frames DEF MemGood
<1>8. AckInv(mem', disk', Always)
  <2>1. AckInv(mem, disk', Always) BY <1>3 DEF MemGood
  <2>2. Sets(mem.buf) = {} BY <1>2, <2>1, SetsEmpty DEF AckInv
  <2>3. Always => Durable(disk') = Sets(disk'.aof)
    <3>1. disk.aof \in File BY <1>1 DEF DiskRecord
    <3>2. SubSeq(disk.aof, 1, Len(disk.aof)) = disk.aof BY <3>1, CutAll DEF File
    <3>3. Always => disk'.aof = disk.aof /\ disk'.synced = Len(disk.aof) BY <1>1, <1>2 DEF Always, Synced, DiskRecord
    <3> QED BY <3>2, <3>3 DEF Durable
  <2> QED BY <2>1, <2>2, <2>3, <1>6 DEF AckInv
<1>9. MemGood(mem', disk', Always) BY <1>6, <1>7, <1>8 DEF MemGood
<1> QED BY <1>1, <1>2, <1>3, <1>9, Steady, Onward

-----------------------------------------------------------------------------
(* dump.rdb and dirty *)

LEMMA UnsavedType ==
  ASSUME NEW m \in Memory, NEW data
  PROVE  /\ Unsaved(m, data) \in Nat
         /\ data = m.data => Unsaved(m, data) = 0
         /\ IsFiniteSet(Writes(m.data) \ Writes(data))
<1>1. m.data \in DataSet BY DEF Memory
<1>2. IsFiniteSet(Writes(m.data)) BY <1>1, WritesFinite
<1>3. IsFiniteSet(Writes(m.data) \ Writes(data)) BY <1>2, FS_Subset
<1>4. Unsaved(m, data) \in Nat BY <1>3, FS_CardinalityType DEF Unsaved
<1>5. data = m.data => Unsaved(m, data) = 0 BY FS_EmptySet DEF Unsaved
<1> QED BY <1>3, <1>4, <1>5

\* What a step that only touches dump.rdb and its child has to show
LEMMA SaveKeeps ==
  ASSUME Running, plan' \in PlanRecord, Always' = Always, mem' \in Memory, disk' \in DiskRecord,
         SameLog(mem, mem'), SameChild(mem, mem'), SameAck(mem, mem'),
         disk'.aof = disk.aof, disk'.synced = disk.synced, disk'.spoilt = disk.spoilt,
         DirtyInv(mem', disk')
  PROVE  DiskInv'
<1>1. DiskGood(disk) /\ MemGood(mem, disk, Always) BY RunningFacts
<1>2. DiskGood(disk') BY <1>1 DEF DiskGood, FileInv
<1>3. LogInv(mem', disk') /\ ChildInv(mem') /\ AckInv(mem', disk', Always) BY <1>1, Frames DEF MemGood
<1> QED BY <1>2, <1>3, Onward DEF MemGood

LEMMA rdbSaveBackgroundStep == ASSUME Running, rdbSaveBackground PROVE DiskInv'
<1>1. plan \in PlanRecord /\ MemGood(mem, disk, Always) /\ mem \in Memory /\ disk \in DiskRecord BY RunningFacts
<1>2. Spend("saves") /\ "saves" \in Kinds /\ UNCHANGED disk BY DEF rdbSaveBackground, Kinds
<1> DEFINE c == [phase |-> "saving", snap |-> mem.data]
<1>3. mem' = [mem EXCEPT !.before = mem.dirty, !.rdb = c] BY DEF rdbSaveBackground
<1>4. c \in RdbChild /\ c.phase = "saving" /\ c.snap = mem.data BY <1>1 DEF RdbChild, Memory
<1> HIDE DEF c
<1>5. mem' \in Memory /\ mem'.data = mem.data /\ mem'.dirty = mem.dirty /\ mem'.before = mem.dirty /\ mem'.rdb = c
  BY <1>1, <1>3, <1>4 DEF Memory
<1>6. SameLog(mem, mem') /\ SameChild(mem, mem') /\ SameAck(mem, mem')
  BY <1>1, <1>3 DEF Memory, SameLog, SameChild, SameAck
<1>7. DirtyInv(mem', disk')
  <2>1. Unsaved(mem', disk.dump) <= mem'.dirty BY <1>1, <1>5 DEF MemGood, DirtyInv, Unsaved
  <2>2. Unsaved(mem', c.snap) = 0 BY <1>4, <1>5, UnsavedType
  <2>3. mem.dirty \in Nat BY <1>1 DEF Memory
  <2>4. mem.dirty <= mem.dirty /\ mem.dirty - mem.dirty = 0 BY <2>3
  <2> QED BY <2>1, <2>2, <2>4, <1>2, <1>4, <1>5 DEF DirtyInv
<1> QED BY <1>1, <1>2, <1>5, <1>6, <1>7, SpendFacts, SaveKeeps

LEMMA ForkFailsStep == ASSUME Running, ForkFails PROVE DiskInv'
<1>1. plan \in PlanRecord /\ MemGood(mem, disk, Always) /\ mem \in Memory /\ disk \in DiskRecord BY RunningFacts
<1>2. Spend("faults") /\ "faults" \in Kinds /\ UNCHANGED disk /\ mem.rdb = None BY DEF ForkFails, Kinds
<1>3. mem' = [mem EXCEPT !.before = mem.dirty, !.bgsave = "err"] BY DEF ForkFails
<1>5. mem' \in Memory /\ mem'.data = mem.data /\ mem'.dirty = mem.dirty /\ mem'.rdb = None
  BY <1>1, <1>2, <1>3 DEF Memory
<1>6. SameLog(mem, mem') /\ SameChild(mem, mem') /\ SameAck(mem, mem')
  BY <1>1, <1>3 DEF Memory, SameLog, SameChild, SameAck
<1>7. DirtyInv(mem', disk') BY <1>1, <1>2, <1>5 DEF MemGood, DirtyInv, Unsaved
<1> QED BY <1>1, <1>2, <1>5, <1>6, <1>7, SpendFacts, SaveKeeps

LEMMA RdbChildSavesStep == ASSUME Running, RdbChildSaves PROVE DiskInv'
<1>1. plan \in PlanRecord /\ MemGood(mem, disk, Always) /\ mem \in Memory /\ disk \in DiskRecord BY RunningFacts
<1>2. UNCHANGED plan /\ mem.rdb # None /\ mem.rdb.phase = "saving" BY DEF RdbChildSaves
<1>3. mem.rdb \in RdbChild BY <1>1, <1>2 DEF Memory
<1> DEFINE c == [mem.rdb EXCEPT !.phase = "done"]
<1>4. c \in RdbChild /\ c.phase = "done" BY <1>3 DEF RdbChild
<1>5. mem' = [mem EXCEPT !.rdb = c] /\ disk' = [disk EXCEPT !.dump = mem.rdb.snap] BY DEF RdbChildSaves
<1> HIDE DEF c
<1>6. mem' \in Memory /\ mem'.data = mem.data /\ mem'.dirty = mem.dirty /\ mem'.before = mem.before /\ mem'.rdb = c
  BY <1>1, <1>4, <1>5 DEF Memory
<1>7. SameLog(mem, mem') /\ SameChild(mem, mem') /\ SameAck(mem, mem')
  BY <1>1, <1>5 DEF Memory, SameLog, SameChild, SameAck
<1>8. disk' \in DiskRecord /\ disk'.aof = disk.aof /\ disk'.synced = disk.synced /\ disk'.spoilt = disk.spoilt
      /\ disk'.dump = mem.rdb.snap
  BY <1>1, <1>3, <1>5 DEF DiskRecord, RdbChild
<1>9. DirtyInv(mem', disk')
  <2> DEFINE u == Unsaved(mem', disk'.dump)
             x == mem.dirty
             y == mem.before
  <2>1. u \in Nat BY <1>6, UnsavedType
  <2>2. u = Unsaved(mem, mem.rdb.snap) BY <1>6, <1>8 DEF Unsaved
  <2>3. u <= x - y /\ y <= x BY <2>2, <1>1, <1>2 DEF MemGood, DirtyInv
  <2>4. x \in Nat /\ y \in Nat BY <1>1 DEF Memory
  <2> HIDE DEF u, x, y
  <2>5. u <= x BY <2>1, <2>3, <2>4
  <2> QED BY <2>3, <2>5, <1>4, <1>6 DEF DirtyInv, u, x, y
<1> QED BY <1>1, <1>2, <1>6, <1>7, <1>8, <1>9, Steady, SaveKeeps

LEMMA RdbChildFailsStep == ASSUME Running, RdbChildFails PROVE DiskInv'
<1>1. plan \in PlanRecord /\ MemGood(mem, disk, Always) /\ mem \in Memory /\ disk \in DiskRecord BY RunningFacts
<1>2. Spend("faults") /\ "faults" \in Kinds /\ UNCHANGED disk /\ mem.rdb # None BY DEF RdbChildFails, Kinds
<1>3. mem.rdb \in RdbChild BY <1>1, <1>2 DEF Memory
<1> DEFINE c == [mem.rdb EXCEPT !.phase = "failed"]
<1>4. c \in RdbChild /\ c.phase = "failed" BY <1>3 DEF RdbChild
<1>5. mem' = [mem EXCEPT !.rdb = c] BY DEF RdbChildFails
<1> HIDE DEF c
<1>6. mem' \in Memory /\ mem'.data = mem.data /\ mem'.dirty = mem.dirty /\ mem'.before = mem.before /\ mem'.rdb = c
  BY <1>1, <1>4, <1>5 DEF Memory
<1>7. SameLog(mem, mem') /\ SameChild(mem, mem') /\ SameAck(mem, mem')
  BY <1>1, <1>5 DEF Memory, SameLog, SameChild, SameAck
<1>8. DirtyInv(mem', disk') BY <1>1, <1>2, <1>4, <1>6 DEF MemGood, DirtyInv, Unsaved
<1> QED BY <1>1, <1>2, <1>6, <1>7, <1>8, SpendFacts, SaveKeeps

LEMMA backgroundSaveDoneHandlerStep == ASSUME Running, backgroundSaveDoneHandler PROVE DiskInv'
<1>1. plan \in PlanRecord /\ MemGood(mem, disk, Always) /\ mem \in Memory /\ disk \in DiskRecord BY RunningFacts
<1>2. UNCHANGED <<disk, plan>> /\ mem.rdb # None BY DEF backgroundSaveDoneHandler
<1>3. CASE mem.rdb.phase = "done"
  <2> DEFINE k == mem.dirty - mem.before
  <2>1. mem' = [mem EXCEPT !.dirty = k, !.bgsave = "ok", !.rdb = None]
    BY <1>3 DEF backgroundSaveDoneHandler, StillDirty
  <2>2. Unsaved(mem, disk.dump) <= k /\ mem.before <= mem.dirty BY <1>1, <1>2, <1>3 DEF MemGood, DirtyInv
  <2>3. k \in Nat
    <3>1. mem.before \in Nat /\ mem.dirty \in Nat BY <1>1 DEF Memory
    <3> QED BY <3>1, <2>2
  <2> HIDE DEF k
  <2>4. mem' \in Memory /\ mem'.data = mem.data /\ mem'.dirty = k /\ mem'.rdb = None
        /\ SameLog(mem, mem') /\ SameChild(mem, mem') /\ SameAck(mem, mem')
    BY <1>1, <2>1, <2>3 DEF Memory, SameLog, SameChild, SameAck
  <2>5. DirtyInv(mem', disk') BY <1>2, <2>2, <2>4 DEF DirtyInv, Unsaved
  <2> QED BY <1>1, <1>2, <2>4, <2>5, Steady, SaveKeeps
<1>4. CASE mem.rdb.phase # "done"
  <2> DEFINE b == IF mem.rdb.phase = "failed" THEN "err" ELSE mem.bgsave
  <2>1. mem' = [mem EXCEPT !.bgsave = b, !.rdb = None] BY <1>4 DEF backgroundSaveDoneHandler
  <2>2. b \in {"ok", "err"} BY <1>1 DEF Memory
  <2> HIDE DEF b
  <2>4. mem' \in Memory /\ mem'.data = mem.data /\ mem'.dirty = mem.dirty /\ mem'.rdb = None
        /\ SameLog(mem, mem') /\ SameChild(mem, mem') /\ SameAck(mem, mem')
    BY <1>1, <2>1, <2>2 DEF Memory, SameLog, SameChild, SameAck
  <2>5. DirtyInv(mem', disk') BY <1>1, <1>2, <2>4 DEF MemGood, DirtyInv, Unsaved
  <2> QED BY <1>1, <1>2, <2>4, <2>5, Steady, SaveKeeps
<1> QED BY <1>3, <1>4

LEMMA saveCommandStep == ASSUME Running, saveCommand PROVE DiskInv'
<1>1. plan \in PlanRecord /\ MemGood(mem, disk, Always) /\ mem \in Memory /\ disk \in DiskRecord BY RunningFacts
<1>2. Spend("saves") /\ "saves" \in Kinds /\ mem.rdb = None BY DEF saveCommand, Kinds
<1>3. mem' = [mem EXCEPT !.dirty = 0, !.bgsave = "ok"] /\ disk' = [disk EXCEPT !.dump = mem.data]
  BY DEF saveCommand
<1>4. mem' \in Memory /\ mem'.data = mem.data /\ mem'.dirty = 0 /\ mem'.rdb = None
      /\ SameLog(mem, mem') /\ SameChild(mem, mem') /\ SameAck(mem, mem')
  BY <1>1, <1>2, <1>3 DEF Memory, SameLog, SameChild, SameAck
<1>5. disk' \in DiskRecord /\ disk'.aof = disk.aof /\ disk'.synced = disk.synced /\ disk'.spoilt = disk.spoilt
      /\ disk'.dump = mem.data
  BY <1>1, <1>3 DEF DiskRecord, Memory
<1>6. DirtyInv(mem', disk')
  <2>1. Unsaved(mem', disk'.dump) = 0 BY <1>4, <1>5, UnsavedType
  <2>2. 0 <= 0 OBVIOUS
  <2> QED BY <2>1, <2>2, <1>4 DEF DirtyInv
<1> QED BY <1>1, <1>2, <1>4, <1>5, <1>6, SpendFacts, SaveKeeps

-----------------------------------------------------------------------------
(* A write *)

LEMMA FeedMakes ==
  ASSUME NEW f \in File, NEW data \in DataSet, NEW sel \in Databases \cup {-1}, Makes(f, data, sel),
         NEW db \in Databases, NEW n \in Nat,
         NEW q, q = (IF db = sel THEN << >> ELSE <<Select(db)>>) \o Command(n)
  PROVE  q \in File /\ Makes(f \o q, [data EXCEPT ![db] = Append(@, n)], db) /\ n \in Sets(q)
<1> DEFINE C == Command(n)
           s == IF db = sel THEN << >> ELSE <<Select(db)>>
           g == f \o s
<1>1. C \in File BY UnitTypes
<1>2. Select(db) \in Unit BY UnitTypes
<1>3. s \in File BY <1>2 DEF File
<1>4. g \in File BY <1>3, FileConcat
<1>5. WellFormed(g) /\ Closed(g) /\ Replayed(g).db = db /\ Loaded(g) = data
  <2>1. CASE db = sel
    <3>1. g = f BY <2>1, FileConcat
    <3>2. sel # -1 BY <2>1 DEF Databases
    <3> HIDE DEF g
    <3> QED BY <2>1, <3>1, <3>2 DEF Makes
  <2>2. CASE db # sel
    <3>1. g = f \o <<Select(db)>> BY <2>2
    <3>2. WellFormed(f) /\ Closed(f) /\ Loaded(f) = data BY DEF Makes
    <3> HIDE DEF g
    <3> QED BY <3>1, <3>2, FeedSelect
  <2> QED BY <2>1, <2>2
<1>6. q = s \o C /\ q \in File BY <1>1, <1>3, FileConcat
<1> HIDE DEF s, C
<1>7. f \o q = g \o C
  <2>1. (f \o s) \o C = f \o (s \o C) BY <1>1, <1>3, FileConcat
  <2> QED BY <2>1, <1>6
<1> HIDE DEF g
<1>8. LET F == g \o C
      IN  /\ F \in File /\ WellFormed(F) /\ Closed(F) /\ Replayed(F).db = Replayed(g).db
          /\ Loaded(F) = [Loaded(g) EXCEPT ![Replayed(g).db] = Append(@, n)]
  BY <1>4, <1>5, FeedCommand DEF C
<1>9. Makes(g \o C, [data EXCEPT ![db] = Append(@, n)], db) BY <1>5, <1>8 DEF Makes
<1>10. n \in Sets(q)
  <2>1. Sets(s \o C) = Sets(s) \cup Sets(C) BY <1>1, <1>3, SetsConcat
  <2>2. n \in Sets(C) BY SetsCommand DEF C
  <2> QED BY <2>1, <2>2, <1>6
<1> QED BY <1>6, <1>7, <1>9, <1>10

LEMMA UnsavedWrite ==
  ASSUME NEW m \in Memory, NEW k \in Memory, NEW n, Writes(k.data) = Writes(m.data) \cup {n}, NEW data
  PROVE  Unsaved(k, data) <= Unsaved(m, data) + 1
<1> DEFINE A == Writes(m.data) \ Writes(data)
           B == Writes(k.data) \ Writes(data)
<1>1. IsFiniteSet(A) /\ IsFiniteSet(B) BY UnsavedType
<1>2. B \subseteq A \cup {n} OBVIOUS
<1> HIDE DEF A, B
<1>3. IsFiniteSet(A \cup {n}) /\ Cardinality(A \cup {n}) = IF n \in A THEN Cardinality(A) ELSE Cardinality(A) + 1
  BY <1>1, FS_AddElement
<1>4. Cardinality(B) <= Cardinality(A \cup {n}) BY <1>2, <1>3, FS_Subset
<1>5. Cardinality(A) \in Nat /\ Cardinality(B) \in Nat BY <1>1, FS_CardinalityType
<1>6. Cardinality(B) <= Cardinality(A) + 1 BY <1>3, <1>4, <1>5
<1> QED BY <1>6 DEF Unsaved, A, B

LEMMA DirtyWrite ==
  ASSUME NEW m \in Memory, NEW k \in Memory, NEW n, Writes(k.data) = Writes(m.data) \cup {n},
         NEW d, DirtyInv(m, d), k.dirty = m.dirty + 1, k.before = m.before, k.rdb = m.rdb
  PROVE  DirtyInv(k, d)
<1>1. m.dirty \in Nat /\ m.before \in Nat BY DEF Memory
<1>2. ASSUME NEW data, NEW b \in Nat, Unsaved(m, data) <= m.dirty - b
      PROVE  Unsaved(k, data) <= k.dirty - b
  <2> DEFINE u == Unsaved(m, data)
             v == Unsaved(k, data)
             x == m.dirty
  <2>1. u \in Nat /\ v \in Nat /\ v <= u + 1 BY UnsavedType, UnsavedWrite
  <2>2. u <= x - b /\ x \in Nat BY <1>1, <1>2
  <2> HIDE DEF u, v, x
  <2>3. v <= (x + 1) - b BY <2>1, <2>2
  <2> QED BY <2>3 DEF v, x
<1>3. Unsaved(k, d.dump) <= k.dirty
  <2>1. m.dirty - 0 = m.dirty /\ k.dirty - 0 = k.dirty BY <1>1
  <2>2. Unsaved(m, d.dump) <= m.dirty - 0 BY <2>1 DEF DirtyInv
  <2>3. Unsaved(k, d.dump) <= k.dirty - 0 BY <1>2, <2>2
  <2> QED BY <2>1, <2>3
<1>4. m.before <= m.dirty => k.before <= k.dirty BY <1>1
<1>5. k.rdb # None /\ k.rdb.phase = "saving" => Unsaved(k, k.rdb.snap) <= k.dirty - k.before
  BY <1>1, <1>2 DEF DirtyInv
<1>6. k.rdb # None /\ k.rdb.phase = "done" => Unsaved(k, d.dump) <= k.dirty - k.before
  BY <1>1, <1>2 DEF DirtyInv
<1> QED BY <1>3, <1>4, <1>5, <1>6 DEF DirtyInv

LEMMA WriteStep == ASSUME Running, ~mem.renamed, NEW db \in Databases, Write(db) PROVE DiskInv'
<1>1. plan \in PlanRecord /\ DiskGood(disk) /\ MemGood(mem, disk, Always) /\ mem \in Memory /\ disk \in DiskRecord
  BY RunningFacts
<1>2. Spend("writes") /\ "writes" \in Kinds /\ UNCHANGED disk BY DEF Write, Kinds
<1>3. plan' \in PlanRecord /\ Always' = Always /\ plan.left["writes"] \in Nat BY <1>1, <1>2, SpendFacts
<1> DEFINE n == plan.left["writes"]
           D == [mem.data EXCEPT ![db] = Append(@, n)]
           k == mem.dirty + 1
           m == [mem EXCEPT !.data = D, !.dirty = k]
<1>4. mem' = IF m.state = "off" THEN m ELSE feedAppendOnlyFile(m, db, n) BY DEF Write
<1>5. n \in Nat BY <1>3
<1> HIDE DEF n
<1>6. mem.data \in DataSet /\ mem.buf \in File /\ mem.rewrite \in File /\ mem.selected \in Databases \cup {-1}
      /\ mem.dirty \in Nat
  BY <1>1 DEF Memory
<1>7. D \in DataSet /\ Writes(D) = Writes(mem.data) \cup {n} BY <1>5, <1>6, WritesAppend
<1>8. k \in Nat BY <1>6
<1>0. k = mem.dirty + 1 OBVIOUS
<1> HIDE DEF D, k
<1>9. m \in Memory /\ m.data = D /\ m.dirty = k /\ m.before = mem.before /\ m.rdb = mem.rdb /\ m.state = mem.state
      /\ m.fd = mem.fd /\ m.buf = mem.buf /\ m.selected = mem.selected /\ m.child = mem.child /\ m.stop = mem.stop
      /\ m.pipe = mem.pipe /\ m.rewrite = mem.rewrite /\ m.acked = mem.acked /\ m.old = mem.old
      /\ m.status = mem.status /\ m.postponed = mem.postponed /\ m.renamed = mem.renamed
  BY <1>1, <1>7, <1>8 DEF Memory
<1> HIDE DEF m
<1>10. LogInv(mem, disk) /\ ChildInv(mem) /\ AckInv(mem, disk, Always) /\ DirtyInv(mem, disk) BY <1>1 DEF MemGood
<1>11. CASE m.state = "off"
  <2>1. mem' = m BY <1>4, <1>11
  <2>2. LogInv(m, disk) BY <1>9, <1>10, <1>11 DEF LogInv
  <2>3. ChildInv(m) BY <1>9, <1>10, <1>11 DEF ChildInv, Pending
  <2>4. AckInv(m, disk, Always) BY <1>7, <1>9, <1>10, <1>11 DEF AckInv
  <2>5. DirtyInv(m, disk) BY <1>0, <1>1, <1>7, <1>9, <1>10, DirtyWrite
  <2>6. MemGood(mem', disk', Always) BY <1>2, <1>9, <2>1, <2>2, <2>3, <2>4, <2>5 DEF MemGood
  <2> QED BY <1>1, <1>2, <1>3, <2>6, Onward
<1>12. CASE m.state # "off"
  <2> DEFINE q == (IF db = mem.selected THEN << >> ELSE <<Select(db)>>) \o Command(n)
             b == IF mem.state = "on" THEN mem.buf \o q ELSE mem.buf
             w == IF mem.child = None THEN mem.rewrite ELSE mem.rewrite \o q
             o == [m EXCEPT !.selected = db, !.buf = b, !.rewrite = w]
  <2>1. q \in File /\ n \in Sets(q)
    <3> DEFINE s == IF db = mem.selected THEN << >> ELSE <<Select(db)>>
    <3>2. s \in File
      <4>1. Select(db) \in Unit BY UnitTypes
      <4> QED BY <4>1 DEF File
    <3>3. Command(n) \in File /\ n \in Sets(Command(n)) BY <1>5, UnitTypes, SetsCommand
    <3> HIDE DEF s
    <3>4. s \o Command(n) \in File /\ Sets(s \o Command(n)) = Sets(s) \cup Sets(Command(n))
      BY <3>2, <3>3, FileConcat, SetsConcat
    <3> QED BY <3>3, <3>4 DEF s
  <2>2. mem' = o
    <3>1. mem' = feedAppendOnlyFile(m, db, n) BY <1>4, <1>12
    <3> DEFINE y == [m EXCEPT !.selected = db, !.buf = b]
    <3>2. feedAppendOnlyFile(m, db, n) = aofRewriteBufferAppend(y, q)
      <4>1. b = IF m.state = "on" THEN m.buf \o q ELSE m.buf BY <1>9
      <4>2. q = (IF db = m.selected THEN << >> ELSE <<Select(db)>>) \o Command(n) BY <1>9
      <4> HIDE DEF q, b
      <4> QED BY <4>1, <4>2 DEF feedAppendOnlyFile
    <3> HIDE DEF q, b
    <3>3. y.child = mem.child /\ y.rewrite = mem.rewrite BY <1>9 DEF Memory
    <3>4. CASE mem.child = None
      <4>1. o = y BY <3>4, <1>9 DEF Memory
      <4> QED BY <3>1, <3>2, <3>3, <3>4, <4>1 DEF aofRewriteBufferAppend
    <3>5. CASE mem.child # None
      <4>1. aofRewriteBufferAppend(y, q) = [y EXCEPT !.rewrite = mem.rewrite \o q]
        <5> HIDE DEF y
        <5> QED BY <3>3, <3>5 DEF aofRewriteBufferAppend
      <4>2. [y EXCEPT !.rewrite = mem.rewrite \o q] = o BY <3>5, <1>9 DEF Memory
      <4> QED BY <3>1, <3>2, <4>1, <4>2
    <3> QED BY <3>4, <3>5
  <2>0. q = (IF db = mem.selected THEN << >> ELSE <<Select(db)>>) \o Command(n) OBVIOUS
  <2> HIDE DEF q
  <2>3. b \in File /\ w \in File BY <1>6, <2>1, FileConcat
  <2>4. (mem.state = "on" => b = mem.buf \o q) /\ (mem.state # "on" => b = mem.buf)
        /\ (mem.child = None => w = mem.rewrite) /\ (mem.child # None => w = mem.rewrite \o q)
    OBVIOUS
  <2> HIDE DEF b, w
  <2>5. o \in Memory /\ o.data = D /\ o.dirty = k /\ o.before = mem.before /\ o.rdb = mem.rdb /\ o.state = mem.state
        /\ o.fd = mem.fd /\ o.buf = b /\ o.selected = db /\ o.child = mem.child /\ o.stop = mem.stop
        /\ o.pipe = mem.pipe /\ o.rewrite = w /\ o.acked = mem.acked /\ o.old = mem.old
        /\ o.status = mem.status /\ o.postponed = mem.postponed /\ o.renamed = mem.renamed
    BY <1>9, <2>3 DEF Memory
  <2> HIDE DEF o
  <2>6. LogInv(o, disk)
    <3>1. CASE ~disk.spoilt /\ mem.state = "on"
      <4> DEFINE x == disk.aof
                 y == mem.buf
                 f == x \o y
      <4>1. x \in File /\ y \in File BY <1>1, <1>6 DEF DiskRecord
      <4>2. f \in File BY <4>1, FileConcat
      <4>3. Makes(f, mem.data, mem.selected) BY <3>1, <1>10 DEF LogInv
      <4> HIDE DEF x, y
      <4>4. f \o q = x \o (y \o q) BY <4>1, <2>1, FileConcat
      <4> HIDE DEF f
      <4>5. Makes(f \o q, D, db) BY <4>2, <4>3, <1>5, <1>6, <2>0, FeedMakes DEF D
      <4>6. Makes(disk.aof \o b, D, db) BY <4>4, <4>5, <2>4, <3>1 DEF x, y
      <4> QED BY <4>6, <3>1, <2>5, <1>10 DEF LogInv
    <3>2. CASE ~(~disk.spoilt /\ mem.state = "on") BY <3>2, <2>4, <2>5, <1>10 DEF LogInv
    <3> QED BY <3>1, <3>2
  <2>7. ChildInv(o)
    <3>1. CASE mem.child = None BY <3>1, <2>4, <2>5, <1>10 DEF ChildInv
    <3>2. CASE mem.child # None
      <4>0. mem.pipe \in File /\ mem.child \in AofChild BY <3>2, <1>1 DEF Memory
      <4> DEFINE A == IF mem.child.phase = "done" THEN mem.child.file
                      ELSE mem.child.file \o mem.child.got \o mem.pipe
                 z == mem.rewrite
                 f == A \o z
      <4>1. A \in File /\ z \in File
        <5>1. mem.child.file \in File /\ mem.child.got \in File BY <4>0 DEF AofChild
        <5> QED BY <5>1, <4>0, <1>6, FileConcat
      <4>2. Pending(mem) = f BY DEF Pending
      <4>3. Pending(o) = A \o (z \o q) BY <3>2, <2>4, <2>5 DEF Pending
      <4> HIDE DEF A, z
      <4>4. f \in File /\ f \o q = A \o (z \o q) BY <4>1, <2>1, FileConcat
      <4> HIDE DEF f
      <4>5. Makes(f, mem.data, mem.selected) BY <1>9, <1>10, <1>12, <3>2, <4>2 DEF ChildInv
      <4>6. Makes(f \o q, D, db) BY <4>4, <4>5, <1>5, <1>6, <2>0, FeedMakes DEF D
      <4>7. Makes(Pending(o), D, db) BY <4>3, <4>4, <4>6
      <4> QED BY <3>2, <4>7, <2>5, <1>10 DEF ChildInv, Makes
    <3> QED BY <3>1, <3>2
  <2>8. AckInv(o, disk, Always)
    <3>1. mem.state = "on" => Sets(o.buf) = Sets(mem.buf) \cup Sets(q)
      BY <2>1, <2>4, <2>5, <1>6, SetsConcat
    <3> QED BY <3>1, <2>1, <2>5, <1>7, <1>10 DEF AckInv
  <2>9. DirtyInv(o, disk) BY <1>0, <1>1, <1>7, <1>10, <2>5, DirtyWrite
  <2>10. MemGood(mem', disk', Always) BY <1>2, <2>2, <2>5, <2>6, <2>7, <2>8, <2>9 DEF MemGood
  <2> QED BY <1>1, <1>2, <1>3, <2>10, Onward
<1> QED BY <1>11, <1>12

-----------------------------------------------------------------------------
(* The end, and the next start *)

LEMMA prepareForShutdownStep == ASSUME Running, prepareForShutdown PROVE DiskInv'
<1>1. plan \in PlanRecord /\ DiskGood(disk) /\ MemGood(mem, disk, Always) /\ mem \in Memory BY RunningFacts
<1>2. Spend("faults") /\ "faults" \in Kinds /\ mem' = None BY DEF prepareForShutdown, Kinds
<1> DEFINE d == IF mem.state = "off" THEN disk ELSE Synced(disk)
<1>3. PICK save \in BOOLEAN : disk' = [d EXCEPT !.dump = IF save THEN mem.data ELSE @] BY DEF prepareForShutdown
<1>4. DiskGood(d) BY <1>1, SyncedKeeps
<1> HIDE DEF d
<1> DEFINE D == IF save THEN mem.data ELSE d.dump
<1>5. d \in DiskRecord /\ D \in DataSet BY <1>1, <1>4 DEF DiskGood, DiskRecord, Memory
<1>6. disk' = [d EXCEPT !.dump = D] BY <1>3
<1> HIDE DEF D
<1>7. disk' \in DiskRecord /\ disk'.aof = d.aof /\ disk'.synced = d.synced /\ disk'.spoilt = d.spoilt
  BY <1>5, <1>6 DEF DiskRecord
<1>8. DiskGood(disk') BY <1>4, <1>7 DEF DiskGood, FileInv
<1> QED BY <1>1, <1>2, <1>8, SpendFacts, Onward

LEMMA ShutdownFailsStep == ASSUME Running, ShutdownFails PROVE DiskInv'
<1>1. plan \in PlanRecord /\ DiskGood(disk) /\ MemGood(mem, disk, Always) /\ mem \in Memory BY RunningFacts
<1>2. Spend("faults") /\ "faults" \in Kinds BY DEF ShutdownFails, Kinds
<1>3. disk' = disk \/ disk' = Synced(disk) BY DEF ShutdownFails
<1>4. DiskGood(disk') /\ MemGood(mem, disk', Always) BY <1>1, <1>3, SyncedKeeps
<1> DEFINE s == Killed(mem.rdb, {"saving"}, "killed")
           c == IF mem.state = "on" THEN Killed(mem.child, {"writing", "asked", "answered"}, "failed") ELSE mem.child
<1>5. mem' = [mem EXCEPT !.rdb = s, !.child = c] BY DEF ShutdownFails
<1>6. s \in {None} \cup RdbChild /\ (mem.rdb = None => s = None)
      /\ (s # None => mem.rdb # None /\ s.phase \in {mem.rdb.phase, "killed"} /\ s.snap = mem.rdb.snap)
  <2>1. mem.rdb \in {None} \cup RdbChild BY <1>1 DEF Memory
  <2> QED BY <2>1 DEF Killed, RdbChild
<1>7. c \in {None} \cup AofChild /\ (c = None <=> mem.child = None)
      /\ (mem.child # None => /\ c.phase \in {mem.child.phase, "failed"} /\ c.file = mem.child.file
                              /\ c.got = mem.child.got
                              /\ c.phase = "done" <=> mem.child.phase = "done")
  <2>1. CASE mem.child = None
    <3>1. c = None BY <2>1 DEF Killed
    <3> QED BY <2>1, <3>1
  <2>2. CASE mem.child # None
    <3>1. mem.child \in AofChild BY <1>1, <2>2 DEF Memory
    <3>2. CASE c = mem.child
      <4> HIDE DEF c
      <4> QED BY <2>2, <3>1, <3>2
    <3>3. CASE c = [mem.child EXCEPT !.phase = "failed"] /\ mem.child.phase # "done"
      <4> HIDE DEF c
      <4>1. c \in AofChild /\ c.phase = "failed" /\ c.file = mem.child.file /\ c.got = mem.child.got
        BY <3>1, <3>3 DEF AofChild
      <4> QED BY <2>2, <3>3, <4>1, PersistenceAssumption
    <3> QED BY <3>2, <3>3, <2>2 DEF Killed
  <2> QED BY <2>1, <2>2
<1> HIDE DEF s, c
<1>8. mem' \in Memory /\ mem'.rdb = s /\ mem'.child = c /\ SameLog(mem, mem') /\ SameAck(mem, mem')
      /\ mem'.stop = mem.stop /\ mem'.pipe = mem.pipe /\ mem'.rewrite = mem.rewrite
      /\ mem'.dirty = mem.dirty /\ mem'.before = mem.before /\ mem'.data = mem.data
  BY <1>1, <1>5, <1>6, <1>7 DEF Memory, SameLog, SameAck
<1>9. LogInv(mem', disk') /\ AckInv(mem', disk', Always) BY <1>4, <1>8, Frames DEF MemGood
<1>10. DirtyInv(mem', disk') BY <1>4, <1>6, <1>8 DEF MemGood, DirtyInv, Unsaved
<1>11. ChildInv(mem')
  <2>0. ChildInv(mem) BY <1>1 DEF MemGood
  <2>1. CASE mem.child = None BY <2>0, <2>1, <1>7, <1>8 DEF ChildInv
  <2>2. CASE mem.child # None
    <3>1. Pending(mem') = Pending(mem) BY <2>2, <1>7, <1>8 DEF Pending
    <3> QED BY <2>0, <2>2, <3>1, <1>7, <1>8 DEF ChildInv, SameLog
  <2> QED BY <2>1, <2>2
<1>12. MemGood(mem', disk', Always) BY <1>8, <1>9, <1>10, <1>11 DEF MemGood
<1> QED BY <1>1, <1>2, <1>4, <1>12, SpendFacts, Onward

LEMMA KillStep == ASSUME Running, Kill PROVE DiskInv'
<1>1. plan \in PlanRecord /\ DiskGood(disk) BY RunningFacts
<1>2. Spend("faults") /\ "faults" \in Kinds /\ mem' = None /\ UNCHANGED disk BY DEF Kill, Kinds
<1> QED BY <1>1, <1>2, SpendFacts, Onward

LEMMA PowerFailureStep == ASSUME Running, PowerFailure PROVE DiskInv'
<1>1. plan \in PlanRecord /\ DiskGood(disk) /\ disk \in DiskRecord BY RunningFacts
<1>2. Spend("faults") /\ "faults" \in Kinds /\ mem' = None BY DEF PowerFailure, Kinds
<1>3. PICK k \in disk.synced..Len(disk.aof) : disk' = [disk EXCEPT !.aof = SubSeq(@, 1, k)] BY DEF PowerFailure
<1>4. disk.aof \in File /\ disk.synced \in Nat BY <1>1 DEF DiskRecord
<1>5. Len(disk.aof) \in Nat BY <1>4, FileLen
<1>6. k \in 0..Len(disk.aof) /\ disk.synced <= k BY <1>4, <1>5
<1> DEFINE f == SubSeq(disk.aof, 1, k)
<1>7. f \in File /\ Len(f) = k BY <1>4, <1>6, CutParts DEF File
<1>8. WellFormed(disk.aof) => WellFormed(f) BY <1>4, <1>6, WellFormedCut
<1>9. disk' = [disk EXCEPT !.aof = f] BY <1>3
<1> HIDE DEF f
<1>10. disk' \in DiskRecord /\ disk'.aof = f /\ disk'.synced = disk.synced /\ disk'.spoilt = disk.spoilt
  BY <1>1, <1>7, <1>9 DEF DiskRecord
<1>11. DiskGood(disk') BY <1>1, <1>6, <1>7, <1>8, <1>10 DEF DiskGood, FileInv
<1> QED BY <1>1, <1>2, <1>11, SpendFacts, Onward

LEMMA BootedFacts ==
  ASSUME NEW state \in {"off", "on"}, NEW data \in DataSet, NEW dirty \in Nat, NEW m, m = Booted(state, data, dirty)
  PROVE  /\ m \in Memory /\ m.data = data /\ m.old = Writes(data) /\ m.acked = {} /\ m.dirty = dirty
         /\ m.rdb = None /\ m.state = state /\ m.buf = << >> /\ m.selected = -1
         /\ m.child = None /\ m.rewrite = << >> /\ ~m.renamed
         /\ state = "on" => m.fd = "open"
<1>1. Writes(data) \in SUBSET Nat BY WritesFinite
<1>2. << >> \in File BY FileConcat
<1> DEFINE W == Writes(data)
           fd == IF state = "on" THEN "open" ELSE "none"
<1>3. m = [data |-> data, old |-> W, acked |-> {}, dirty |-> dirty, before |-> 0, bgsave |-> "ok", rdb |-> None,
           state |-> state, fd |-> fd, selected |-> -1, buf |-> << >>,
           status |-> "ok", postponed |-> FALSE, jobs |-> << >>,
           child |-> None, rewrite |-> << >>, pipe |-> << >>, stop |-> FALSE, scheduled |-> FALSE,
           renamed |-> FALSE]
  BY DEF Booted
<1>4. W \in SUBSET Nat BY <1>1
<1>5. fd \in {"none", "closed", "open"} /\ (state = "on" => fd = "open") OBVIOUS
<1> HIDE DEF W, fd
<1>6. m \in Memory BY <1>2, <1>3, <1>4, <1>5 DEF Memory
<1> QED BY <1>3, <1>5, <1>6 DEF W

\* The memory after a start, with what was loaded
LEMMA BootedGood ==
  ASSUME NEW state \in {"off", "on"}, NEW data \in DataSet, NEW dirty \in Nat, NEW d, NEW always,
         state = "on" => d.aof \in File /\ Makes(d.aof, data, -1),
         Cardinality(Writes(data) \ Writes(d.dump)) <= dirty
  PROVE  MemGood(Booted(state, data, dirty), d, always)
<1> DEFINE m == Booted(state, data, dirty)
<1>1. /\ m \in Memory /\ m.data = data /\ m.old = Writes(data) /\ m.acked = {} /\ m.dirty = dirty
      /\ m.rdb = None /\ m.state = state /\ m.buf = << >> /\ m.selected = -1
      /\ m.child = None /\ m.rewrite = << >> /\ ~m.renamed
      /\ state = "on" => m.fd = "open"
  BY BootedFacts
<1> HIDE DEF m
<1>2. LogInv(m, d)
  <2>1. state = "on" => d.aof \o << >> = d.aof BY FileConcat
  <2> QED BY <1>1, <2>1 DEF LogInv
<1>3. ChildInv(m) BY <1>1 DEF ChildInv
<1>4. AckInv(m, d, always)
  <2>1. state = "on" => Writes(data) = Sets(d.aof) BY ReplayedWrites DEF Makes
  <2> QED BY <1>1, <2>1 DEF AckInv
<1>5. DirtyInv(m, d) BY <1>1 DEF DirtyInv, Unsaved
<1> QED BY <1>1, <1>2, <1>3, <1>4, <1>5 DEF MemGood, m

LEMMA NothingUnsaved == ASSUME NEW data PROVE Cardinality(Writes(data) \ Writes(data)) <= 0
<1>1. Writes(data) \ Writes(data) = {} OBVIOUS
<1> QED BY <1>1, FS_EmptySet

LEMMA StartStep == ASSUME DiskInv, NEW aof \in BOOLEAN, Start(aof) PROVE DiskInv'
<1>1. plan \in PlanRecord /\ DiskGood(disk) /\ disk \in DiskRecord /\ UNCHANGED plan BY DEF DiskInv, DiskGood, Start
<1>2. disk.aof \in File /\ disk.synced \in Nat /\ disk.dump \in DataSet BY <1>1 DEF DiskRecord
<1> DEFINE f == Trimmed(disk.aof)
<1>3. CASE aof
  <2>1. WellFormed(disk.aof) /\ mem' = Booted("on", Loaded(f), Cardinality(Complete(f)))
        /\ disk' = [disk EXCEPT !.aof = f, !.synced = IF @ > Len(f) THEN Len(f) ELSE @]
    BY <1>3 DEF Start
  <2>2. f \in File /\ WellFormed(f) /\ Closed(f) BY <1>2, <2>1, TrimmedClosed
  <2> HIDE DEF f
  <2> DEFINE s == IF disk.synced > Len(f) THEN Len(f) ELSE disk.synced
             C == Cardinality(Complete(f))
             D == Loaded(f)
  <2>3. Len(f) \in Nat BY <2>2, FileLen
  <2>4. s \in Nat /\ s <= Len(f) BY <1>2, <2>3
  <2>5. disk' = [disk EXCEPT !.aof = f, !.synced = s] BY <2>1
  <2> HIDE DEF s
  <2>6. disk' \in DiskRecord /\ disk'.aof = f /\ disk'.synced = s /\ disk'.dump = disk.dump
    BY <1>1, <2>2, <2>4, <2>5 DEF DiskRecord
  <2>7. DiskGood(disk') BY <2>2, <2>4, <2>6 DEF DiskGood, FileInv
  <2>8. D \in DataSet /\ Writes(D) = Sets(f) /\ Makes(f, D, -1)
    BY <2>2, ReplayedWrites DEF Loaded, Client, Makes
  <2>9. C \in Nat /\ Cardinality(Writes(D) \ Writes(disk.dump)) <= C
    <3> DEFINE A == Writes(D) \ Writes(disk.dump)
    <3>1. IsFiniteSet(Sets(f)) /\ C \in Nat /\ Cardinality(Sets(f)) <= C BY <2>2, SetsCounted
    <3>2. A \subseteq Sets(f) BY <2>8
    <3> HIDE DEF A, C
    <3>3. IsFiniteSet(A) /\ Cardinality(A) <= Cardinality(Sets(f)) BY <3>1, <3>2, FS_Subset
    <3>4. Cardinality(A) \in Nat /\ Cardinality(Sets(f)) \in Nat BY <3>1, <3>3, FS_CardinalityType
    <3> QED BY <3>1, <3>3, <3>4 DEF A
  <2> HIDE DEF C, D
  <2>10. mem' = Booted("on", D, C) BY <2>1 DEF C, D
  <2>11. MemGood(Booted("on", D, C), disk', Always) BY <2>2, <2>6, <2>8, <2>9, BootedGood
  <2> QED BY <1>1, <2>7, <2>10, <2>11, Steady, Onward
<1>4. CASE ~aof
  <2>1. mem' = Booted("off", disk.dump, 0) /\ disk' = disk BY <1>4 DEF Start
  <2>2. MemGood(Booted("off", disk.dump, 0), disk, Always) BY <1>2, NothingUnsaved, BootedGood
  <2> QED BY <1>1, <2>1, <2>2, Steady, Onward
<1> QED BY <1>3, <1>4

LEMMA DiskInit == Init => DiskInv
<1> SUFFICES ASSUME Init PROVE DiskInv OBVIOUS
<1>1. PICK p \in Plans :
        /\ plan = p
        /\ mem = Booted(IF p.aof THEN "on" ELSE "off", Nothing, 0)
        /\ disk = [aof |-> << >>, synced |-> 0, gen |-> 0, dump |-> Nothing, spoilt |-> FALSE]
  BY DEF Init
<1>2. plan \in PlanRecord BY <1>1, PersistenceAssumption DEF PlanRecord
<1>3. << >> \in File /\ Nothing \in DataSet BY FileConcat, NothingWritten
<1>4. disk \in DiskRecord /\ disk.aof = << >> /\ disk.synced = 0 /\ disk.dump = Nothing
  BY <1>1, <1>3 DEF DiskRecord
<1>5. WellFormed(<< >>) /\ Closed(<< >>) /\ Len(<< >>) = 0 BY DEF WellFormed, Closed
<1>6. DiskGood(disk) BY <1>4, <1>5 DEF DiskGood, FileInv
<1>7. Makes(<< >>, Nothing, -1) BY <1>5, ReplayedEmpty DEF Makes, Loaded, NewClient
<1>8. MemGood(Booted(IF p.aof THEN "on" ELSE "off", Nothing, 0), disk, Always)
  <2> DEFINE st == IF p.aof THEN "on" ELSE "off"
  <2>1. st \in {"off", "on"} OBVIOUS
  <2> HIDE DEF st
  <2>2. disk.aof \in File /\ Makes(disk.aof, Nothing, -1) BY <1>3, <1>4, <1>7
  <2>3. Cardinality(Writes(Nothing) \ Writes(disk.dump)) <= 0 BY <1>4, NothingUnsaved
  <2>4. MemGood(Booted(st, Nothing, 0), disk, Always) BY <2>1, <2>2, <2>3, <1>3, BootedGood
  <2> QED BY <2>4 DEF st
<1> QED BY <1>1, <1>2, <1>6, <1>8 DEF DiskInv

LEMMA DiskStep == ASSUME DiskInv, [Next]_vars PROVE DiskInv'
<1>1. CASE UNCHANGED vars
  <2>1. mem' = mem /\ disk' = disk /\ plan' = plan BY <1>1 DEF vars
  <2>2. plan' \in PlanRecord /\ Always' = Always BY <2>1 DEF DiskInv, Always
  <2> QED BY <2>1, <2>2, Onward DEF DiskInv
<1>2. CASE ~Off /\ (Work \/ Users \/ Faults)
  <2>0. Running BY <1>2 DEF Running
  <2>1. CASE Work
    BY <2>0, <2>1, beforeSleepStep, CronFlushStep, bioProcessBackgroundJobsStep, ScheduledRewriteStep,
       aofChildWriteDiffDataStep, aofReadDiffFromParentStep, ChildAsksStep, aofChildPipeReadableStep,
       ChildExitsStep, backgroundRewriteDoneHandlerStep, RdbChildSavesStep, backgroundSaveDoneHandlerStep,
       RewriteSyncedStep
    DEF Work, Thread
  <2>2. CASE Users
    BY <2>0, <2>2, WriteStep, bgrewriteaofCommandStep, stopAppendOnlyStep, startAppendOnlyStep,
       rdbSaveBackgroundStep, saveCommandStep
    DEF Users
  <2>3. CASE Faults
    BY <2>0, <2>3, ChildFailsStep, ForkFailsStep, RdbChildFailsStep, prepareForShutdownStep,
       ShutdownFailsStep, KillStep, PowerFailureStep
    DEF Faults
  <2> QED BY <1>2, <2>1, <2>2, <2>3
<1>3. CASE \E aof \in BOOLEAN : Start(aof) BY <1>3, StartStep
<1> QED BY <1>1, <1>2, <1>3 DEF Next

\* The inductive invariant holds in every state of the server, its children and its
\* files: every action of Work, Users, Faults and every start keeps it.
THEOREM DiskAlwaysGood == Spec => []DiskInv
<1>1. Init => DiskInv BY DiskInit
<1>2. DiskInv /\ [Next]_vars => DiskInv' BY DiskStep
<1> QED BY <1>1, <1>2, PTL DEF Spec

\* The memory of the server, its threads and children, the files and the plan keep
\* their types through every handler, fault and restart, and no more of the append only
\* file is taken for synced than there is (flushAppendOnlyFile, bioProcessBackgroundJobs).
THEOREM PersistenceTyped == Spec => []DiskTypeOK
<1>1. DiskInv => DiskTypeOK BY DEF DiskInv, DiskTypeOK, DiskGood, MemGood
<1> QED BY <1>1, DiskAlwaysGood, PTL

\* feedAppendOnlyFile, flushAppendOnlyFile and the rewrite keep the log complete: for
\* any number of databases, writes, rewrites and faults, wherever a buffer, the pipe
\* or the disk cuts a command, loading the file makes the data set.
THEOREM LogAlwaysComplete == Spec => []LogComplete
<1>1. DiskInv => LogComplete
  <2> SUFFICES ASSUME DiskInv, ~disk.spoilt PROVE LogComplete BY DEF LogComplete
  <2>1. WellFormed(disk.aof) BY DEF DiskInv, DiskGood, FileInv
  <2>2. ~Off /\ mem.state = "on" => WellFormed(disk.aof \o mem.buf) /\ Loaded(disk.aof \o mem.buf) = mem.data
    BY DEF DiskInv, Off, MemGood, LogInv, Makes
  <2>3. ~Off /\ mem.state # "off" /\ mem.child # None => Loaded(Pending(mem)) = mem.data
    BY DEF DiskInv, Off, MemGood, ChildInv, Makes
  <2> QED BY <2>1, <2>2, <2>3 DEF LogComplete
<1> QED BY <1>1, DiskAlwaysGood, PTL

\* What flushAppendOnlyFile promises of the writes that beforeSleep answered: they
\* survive the death of the process unless a flush was postponed or failed, and with
\* appendfsync always a power failure, unless it comes between the rename of a
\* rewritten file and its fsync (backgroundRewriteDoneHandler).
THEOREM AckedAlwaysSurvives == Spec => []AckedSurvives
<1>1. DiskInv => AckedSurvives
  <2> SUFFICES ASSUME DiskInv, ~Off, mem.state = "on"
               PROVE  /\ plan.fsync = "always" /\ ~plan.lazy /\ ~mem.renamed => Survives(SubSeq(disk.aof, 1, disk.synced))
                      /\ mem.status = "ok" /\ ~mem.postponed => Survives(disk.aof)
    BY DEF AckedSurvives
  <2>1. AckInv(mem, disk, Always) BY DEF DiskInv, Off, MemGood
  <2>2. disk.aof \in File /\ disk.synced \in Nat /\ disk.synced <= Len(disk.aof)
    BY DEF DiskInv, DiskGood, DiskRecord
  <2>3. disk.synced \in 0..Len(disk.aof) BY <2>2, FileLen
  <2> DEFINE e == SubSeq(disk.aof, 1, disk.synced)
  <2>4. e \in File BY <2>2, <2>3, CutParts DEF File
  <2>5. Writes(Loaded(disk.aof)) = Sets(disk.aof) BY <2>2, ReplayedWrites
  <2>6. Writes(Loaded(e)) = Durable(disk) BY <2>4, ReplayedWrites DEF Durable
  <2> HIDE DEF e
  <2>7. Always /\ ~mem.renamed => mem.acked \subseteq Durable(disk) BY <2>1 DEF AckInv
  <2>8. mem.status = "ok" /\ ~mem.postponed => mem.acked \subseteq Sets(disk.aof) BY <2>1 DEF AckInv
  <2>9. Always /\ ~mem.renamed => Survives(e) BY <2>6, <2>7 DEF Survives
  <2>10. mem.status = "ok" /\ ~mem.postponed => Survives(disk.aof) BY <2>5, <2>8 DEF Survives
  <2> QED BY <2>9, <2>10 DEF Always, e
<1> QED BY <1>1, DiskAlwaysGood, PTL

\* backgroundSaveDoneHandlerDisk takes off dirty only what the child saved: dirty is
\* never less than the number of writes that dump.rdb does not have.
THEOREM DirtyAlwaysTold == Spec => []DirtyTold
<1>1. DiskInv => DirtyTold BY DEF DiskInv, DirtyTold, Off, MemGood, DirtyInv, Unsaved
<1> QED BY <1>1, DiskAlwaysGood, PTL

=============================================================================
