----------------------------- MODULE Persistence -----------------------------
(* How one Redis server keeps its data set on disk (aof.c, bio.c, rdb.c and   *)
(* the parts of redis.c that call them): the append only file and its buffer, *)
(* the fsync policies, the rewrite by a child with the pipe that brings it    *)
(* the commands since the fork, dump.rdb, shutdowns, and what is loaded after *)
(* the process was killed or the power failed.                                *)
(*                                                                            *)
(* A file is a sequence of units: SELECT is one, a write is two, so that a    *)
(* buffer, a pipe or a disk may cut a command in half.  The data set of a     *)
(* database is the sequence of its writes.  A process that is killed loses    *)
(* its memory and its children; a power failure also loses any part of the    *)
(* append only file after what was last synced.  The clock is left to the     *)
(* environment.  dump.rdb is synced before it gets its name.  A rename is     *)
(* taken to be durable at once: the code leaves that to the file system.      *)
EXTENDS Integers, Sequences, FiniteSets

CONSTANTS DbNum,   \* server.dbnum
          None,
          Plans    \* the policies, and the bounds: how much is left of every kind of event

Databases == 0..(DbNum - 1)
Unit == [cmd : {"select"}, arg : Databases, half : {2}] \cup [cmd : {"set"}, arg : Nat, half : {1, 2}]
File == Seq(Unit)
AofChild == [phase : {"writing", "asked", "answered", "done", "failed"}, file : File, got : File]
Kinds == {"writes", "faults", "rewrites", "saves", "switches"}
Policies == {"no", "everysec", "always"}

ASSUME PersistenceAssumption ==
  /\ DbNum \in Nat \ {0} /\ None \notin AofChild
  /\ \A p \in Plans : p \in [fsync : Policies, lazy : BOOLEAN, aof : BOOLEAN, left : [Kinds -> Nat]]

VARIABLES
  mem,     \* the memory of the server, with its threads and children; None when it does not run
  disk,    \* the append only file, how much of it is synced, dump.rdb, and (history) spoilt
  plan     \* what is left of the plan

vars == <<mem, disk, plan>>

-----------------------------------------------------------------------------
(* Files *)

Nothing == [d \in Databases |-> << >>]
Writes(data) == UNION {{data[d][i] : i \in 1..Len(data[d])} : d \in Databases}
Select(d) == [cmd |-> "select", arg |-> d, half |-> 2]
Half(n, h) == [cmd |-> "set", arg |-> n, half |-> h]
Command(n) == <<Half(n, 1), Half(n, 2)>>

\* rewriteAppendOnlyFile: SELECT and its keys, for every database with keys
Section(d, q) ==
  LET upto[k \in 0..Len(q)] == IF k = 0 THEN <<Select(d)>> ELSE upto[k - 1] \o Command(q[k])
  IN  IF q = << >> THEN << >> ELSE upto[Len(q)]
Rewritten(data) ==
  LET upto[d \in 0..DbNum] == IF d = 0 THEN << >> ELSE upto[d - 1] \o Section(d - 1, data[d - 1])
  IN  upto[DbNum]

\* loadAppendOnlyFile: a fake client c, with the database it has selected, runs the
\* commands, each when it is complete.
Execute(c, u) ==
  IF u.half = 1 THEN c
  ELSE IF u.cmd = "select" THEN [c EXCEPT !.db = u.arg]
  ELSE [c EXCEPT !.data[c.db] = Append(@, u.arg)]
Replayed(f) ==
  LET after[i \in 0..Len(f)] == IF i = 0 THEN [db |-> 0, data |-> Nothing] ELSE Execute(after[i - 1], f[i])
  IN  after[Len(f)]
Loaded(f) == Replayed(f).data
\* The format is good: no half is where it does not belong, except one at the end
WellFormed(f) ==
  \A i \in 1..Len(f) :
    IF f[i].cmd = "set" /\ f[i].half = 2 THEN i > 1 /\ f[i - 1] = Half(f[i].arg, 1)
    ELSE i > 1 => f[i - 1].half = 2
\* What is left of the file after aof-load-truncated cut the last command
Trimmed(f) == IF f # << >> /\ f[Len(f)].half = 1 THEN SubSeq(f, 1, Len(f) - 1) ELSE f
\* Where the writes of a file are complete
Complete(f) == {i \in 1..Len(f) : f[i].cmd = "set" /\ f[i].half = 2}

-----------------------------------------------------------------------------
(* The server *)

\* initServer and loadDataFromDisk
Booted(state, data, dirty) ==
  [data |-> data, old |-> Writes(data), acked |-> {}, dirty |-> dirty, before |-> 0, bgsave |-> "ok", rdb |-> None,
   state |-> state, fd |-> IF state = "on" THEN "open" ELSE "none", selected |-> -1, buf |-> << >>,
   status |-> "ok", postponed |-> FALSE, jobs |-> << >>,
   child |-> None, rewrite |-> << >>, pipe |-> << >>, stop |-> FALSE, scheduled |-> FALSE,
   renamed |-> FALSE]

Init ==
  \E p \in Plans :
    /\ plan = p
    /\ mem = Booted(IF p.aof THEN "on" ELSE "off", Nothing, 0)
    /\ disk = [aof |-> << >>, synced |-> 0, gen |-> 0, dump |-> Nothing, spoilt |-> FALSE]

Spend(what) == plan.left[what] > 0 /\ plan' = [plan EXCEPT !.left[what] = @ - 1]
Costs(bad) == IF bad THEN Spend("faults") ELSE UNCHANGED plan

aofRewriteBufferAppend(m, q) == IF m.child = None THEN m ELSE [m EXCEPT !.rewrite = @ \o q]
feedAppendOnlyFile(m, db, n) ==
  LET q == (IF db = m.selected THEN << >> ELSE <<Select(db)>>) \o Command(n)
  IN  aofRewriteBufferAppend([m EXCEPT !.selected = db, !.buf = IF m.state = "on" THEN @ \o q ELSE @], q)

\* A write, refused while the disk is in trouble (processCommand)
Write(db) ==
  /\ mem.status = "ok" /\ mem.bgsave = "ok" /\ Spend("writes")
  /\ \E m \in {[mem EXCEPT !.data[db] = Append(@, plan.left["writes"]), !.dirty = @ + 1]} :
       mem' = IF m.state = "off" THEN m ELSE feedAppendOnlyFile(m, db, plan.left["writes"])
  /\ UNCHANGED disk

-----------------------------------------------------------------------------
(* flushAppendOnlyFile: a state is a record [m, d, bad] of the memory, the disk and *)
(* whether something failed                                                         *)

Synced(d) == [d EXCEPT !.synced = Len(d.aof)]
\* Mutant: the fsync is left to the background thread under every policy.
SyncLater(m, d, due) == [m |-> [m EXCEPT !.jobs = Append(@, d.gen)], d |-> d, bad |-> FALSE]
\* due: a second has gone by since the last fsync
SyncIfNeeded(m, d, due) ==
  IF plan.lazy /\ (m.child # None \/ m.rdb # None) THEN [m |-> m, d |-> d, bad |-> FALSE]
  ELSE IF plan.fsync = "always" THEN [m |-> m, d |-> Synced(d), bad |-> FALSE]
  ELSE IF plan.fsync = "everysec" /\ due /\ m.jobs = << >>
    THEN [m |-> [m EXCEPT !.jobs = Append(@, d.gen)], d |-> d, bad |-> FALSE]
  ELSE [m |-> m, d |-> d, bad |-> FALSE]

WriteOk(m, d, due) ==
  SyncIfNeeded([m EXCEPT !.buf = << >>, !.status = "ok", !.postponed = FALSE], [d EXCEPT !.aof = @ \o m.buf], due)
\* k units were written and could not be truncated; under always the server exits.
WriteFails(m, d, k) ==
  [m |-> IF plan.fsync = "always" THEN None
         ELSE [m EXCEPT !.status = "err", !.postponed = FALSE, !.buf = SubSeq(@, k + 1, Len(@))],
   d |-> [d EXCEPT !.aof = @ \o SubSeq(m.buf, 1, k)], bad |-> m.fd = "open"]
Flushed(m, d) ==
  (IF m.fd = "open" THEN {WriteOk(m, d, due) : due \in BOOLEAN} ELSE {})
    \cup {WriteFails(m, d, k) : k \in IF m.fd = "open" THEN 0..(Len(m.buf) - 1) ELSE {0}}
flushAppendOnlyFile(m, d, force) ==
  IF m.buf = << >> THEN {[m |-> m, d |-> d, bad |-> FALSE]}
  ELSE IF plan.fsync = "everysec" /\ ~force /\ m.jobs # << >>
    THEN {[m |-> [m EXCEPT !.postponed = TRUE], d |-> d, bad |-> FALSE]}
           \cup IF m.postponed THEN Flushed(m, d) ELSE {}
  ELSE Flushed(m, d)

\* beforeSleep; then the replies are sent
beforeSleep ==
  /\ \E r \in flushAppendOnlyFile(mem, disk, FALSE) :
       /\ Costs(r.bad)
       /\ mem' = IF r.m = None THEN None ELSE [r.m EXCEPT !.acked = Writes(mem.data) \ mem.old]
       /\ disk' = r.d
  /\ <<mem', disk'>> # <<mem, disk>>
\* serverCron, while a flush is postponed or has failed
CronFlush ==
  /\ mem.postponed \/ mem.status = "err"
  /\ \E r \in flushAppendOnlyFile(mem, disk, FALSE) :
       Costs(r.bad) /\ mem' = r.m /\ disk' = r.d
  /\ <<mem', disk'>> # <<mem, disk>>
\* bioProcessBackgroundJobs: the oldest fsync.  A file that was replaced is synced in vain.
bioProcessBackgroundJobs ==
  /\ mem.jobs # << >>
  /\ disk' = IF Head(mem.jobs) = disk.gen THEN Synced(disk) ELSE disk
  /\ mem' = [mem EXCEPT !.jobs = Tail(@)]
  /\ UNCHANGED plan

-----------------------------------------------------------------------------
(* The rewrite *)

\* Also aofCreatePipes.  SELECT is issued again, at the start of the differences.
rewriteAppendOnlyFileBackground(m) ==
  [m EXCEPT !.child = [phase |-> "writing", file |-> Rewritten(m.data), got |-> << >>],
            !.scheduled = FALSE, !.selected = -1, !.pipe = << >>, !.stop = FALSE]

bgrewriteaofCommand ==
  /\ mem.child = None /\ Spend("rewrites")
  /\ mem' = IF mem.rdb # None THEN [mem EXCEPT !.scheduled = TRUE] ELSE rewriteAppendOnlyFileBackground(mem)
  /\ UNCHANGED disk
\* serverCron: the rewrite that was scheduled
ScheduledRewrite ==
  /\ mem.scheduled /\ mem.rdb = None /\ mem.child = None
  /\ mem' = rewriteAppendOnlyFileBackground(mem)
  /\ UNCHANGED <<disk, plan>>

aofChildWriteDiffData ==
  /\ mem.child # None /\ ~mem.stop /\ mem.rewrite # << >>
  /\ \E k \in 1..Len(mem.rewrite) :
       mem' = [mem EXCEPT !.pipe = @ \o SubSeq(mem.rewrite, 1, k), !.rewrite = SubSeq(@, k + 1, Len(@))]
  /\ UNCHANGED <<disk, plan>>

\* The child: reads what has come, then asks the server to stop
aofReadDiffFromParent ==
  /\ mem.child # None /\ mem.child.phase = "writing" /\ mem.pipe # << >>
  /\ mem' = [mem EXCEPT !.child.got = @ \o mem.pipe, !.pipe = << >>]
  /\ UNCHANGED <<disk, plan>>
ChildAsks ==
  /\ mem.child # None /\ mem.child.phase = "writing"
  /\ mem' = [mem EXCEPT !.child.phase = "asked"]
  /\ UNCHANGED <<disk, plan>>
aofChildPipeReadable ==
  /\ mem.child # None /\ mem.child.phase = "asked"
  /\ mem' = [mem EXCEPT !.stop = TRUE, !.child.phase = "answered"]
  /\ UNCHANGED <<disk, plan>>
\* What came until the answer is read, and everything received is written.
ChildEnds(c, pipe) == [c EXCEPT !.phase = "done", !.file = @ \o c.got \o pipe]
ChildExits ==
  /\ mem.child # None /\ mem.child.phase = "answered"
  /\ mem' = [mem EXCEPT !.child = ChildEnds(mem.child, mem.pipe), !.pipe = << >>]
  /\ UNCHANGED <<disk, plan>>
\* A write fails, the answer comes too late, or the child is killed.
ChildFails ==
  /\ mem.child # None /\ mem.child.phase \notin {"done", "failed"} /\ Spend("faults")
  /\ mem' = [mem EXCEPT !.child.phase = "failed"]
  /\ UNCHANGED disk

\* The end of backgroundRewriteDoneHandler
\* Mutant: a rewrite that failed is not tried again.
CleanupOnly(m) == [m EXCEPT !.child = None, !.rewrite = << >>, !.pipe = << >>]
Cleanup(m) ==
  [m EXCEPT !.child = None, !.rewrite = << >>, !.pipe = << >>, !.scheduled = @ \/ m.state = "wait"]
\* The file gets the rest of the differences and then its name; so far only what the
\* child wrote is synced.
Renamed(m, d) ==
  [d EXCEPT !.aof = m.child.file \o m.rewrite, !.gen = @ + 1, !.synced = Len(m.child.file)]
\* Mutant: the buffer, whose commands the new file already has, is kept.
SwitchedKeepingBuffer(m) ==
  IF m.fd = "none" THEN m
  ELSE [m EXCEPT !.fd = "open", !.selected = -1, !.state = IF @ = "wait" THEN "on" ELSE @, !.renamed = TRUE]
\* What the handler changes in the memory, which nobody else sees before it returns,
\* is all done at the rename; the fsync is still to come.
Switched(m) ==
  IF m.fd = "none" THEN m
  ELSE [m EXCEPT !.fd = "open", !.buf = << >>, !.selected = -1,
                 !.state = IF @ = "wait" THEN "on" ELSE @, !.renamed = TRUE]
backgroundRewriteDoneHandler ==
  /\ mem.child # None
  /\ \/ /\ mem.child.phase = "done"
        /\ disk' = Renamed(mem, disk)
        /\ mem' = Cleanup(Switched(mem))
        /\ UNCHANGED plan
     \/ \* the rest cannot be written, or the rename fails
        /\ mem.child.phase = "done" /\ Spend("faults")
        /\ mem' = Cleanup(mem) /\ UNCHANGED disk
     \/ /\ mem.child.phase = "failed"
        /\ mem' = Cleanup(mem) /\ UNCHANGED <<disk, plan>>
\* The end of the handler: the file that has its name now is synced, or will be.
RewriteSynced ==
  /\ mem.renamed
  /\ disk' = IF plan.fsync = "always" THEN Synced(disk) ELSE disk
  /\ mem' = [mem EXCEPT !.renamed = FALSE, !.jobs = IF plan.fsync = "everysec" THEN Append(@, disk.gen) ELSE @]
  /\ UNCHANGED plan

-----------------------------------------------------------------------------
(* CONFIG SET appendonly *)

\* The child is killed and its file removed.  A buffer that could not be written is
\* kept and flushed later, into whatever file is opened then: the file is spoilt.
stopAppendOnly ==
  /\ mem.state # "off" /\ Spend("switches")
  /\ \E r \in flushAppendOnlyFile(mem, disk, TRUE) :
       /\ mem' = IF r.m = None THEN None
                 ELSE [r.m EXCEPT !.fd = "none", !.selected = -1, !.state = "off",
                                  !.child = None, !.rewrite = << >>, !.pipe = << >>]
       /\ disk' = IF r.m = None THEN r.d ELSE [Synced(r.d) EXCEPT !.spoilt = @ \/ r.m.buf # << >>]
\* The rewrite is started at once; without it, when a child is running or the fork
\* fails, the descriptor is closed and kept.
startAppendOnly ==
  /\ mem.state = "off" /\ Spend("switches")
  /\ \E forks \in BOOLEAN :
     mem' = IF mem.child # None \/ ~forks THEN [mem EXCEPT !.fd = "closed"]
            ELSE [rewriteAppendOnlyFileBackground(mem) EXCEPT !.fd = "open", !.state = "wait"]
  /\ UNCHANGED disk

-----------------------------------------------------------------------------
(* dump.rdb *)

\* bgsaveCommand, or a save point
rdbSaveBackground ==
  /\ mem.rdb = None /\ mem.child = None /\ Spend("saves")
  /\ mem' = [mem EXCEPT !.before = mem.dirty, !.rdb = [phase |-> "saving", snap |-> mem.data]]
  /\ UNCHANGED disk
ForkFails ==
  /\ mem.rdb = None /\ mem.child = None /\ Spend("faults")
  /\ mem' = [mem EXCEPT !.before = mem.dirty, !.bgsave = "err"]
  /\ UNCHANGED disk
\* rdbSave in the child
RdbChildSaves ==
  /\ mem.rdb # None /\ mem.rdb.phase = "saving"
  /\ disk' = [disk EXCEPT !.dump = mem.rdb.snap]
  /\ mem' = [mem EXCEPT !.rdb.phase = "done"]
  /\ UNCHANGED plan
RdbChildFails ==
  /\ mem.rdb # None /\ mem.rdb.phase = "saving" /\ Spend("faults")
  /\ mem' = [mem EXCEPT !.rdb.phase = "failed"]
  /\ UNCHANGED disk
\* Mutant: writes made since the fork are taken for saved.
AllSaved(m) == 0
StillDirty(m) == m.dirty - m.before
\* A child that the server killed is not an error.
backgroundSaveDoneHandler ==
  /\ mem.rdb # None /\ mem.rdb.phase # "saving"
  /\ mem' = IF mem.rdb.phase = "done"
            THEN [mem EXCEPT !.dirty = StillDirty(mem), !.bgsave = "ok", !.rdb = None]
            ELSE [mem EXCEPT !.bgsave = IF mem.rdb.phase = "failed" THEN "err" ELSE @, !.rdb = None]
  /\ UNCHANGED <<disk, plan>>
saveCommand ==
  /\ mem.rdb = None /\ Spend("saves")
  /\ disk' = [disk EXCEPT !.dump = mem.data]
  /\ mem' = [mem EXCEPT !.dirty = 0, !.bgsave = "ok"]

-----------------------------------------------------------------------------
(* The end, and the next start *)

Off == mem = None
\* prepareForShutdown: the file is synced, but the buffer is not flushed.
prepareForShutdown ==
  /\ mem.state = "wait" => mem.child = None
  /\ Spend("faults")
  /\ \E save \in BOOLEAN :
       disk' = [(IF mem.state = "off" THEN disk ELSE Synced(disk)) EXCEPT
                  !.dump = IF save THEN mem.data ELSE @]
  /\ mem' = None
\* The data set cannot be saved, and the server goes on without its children.
Killed(c, phase, as) == IF c # None /\ c.phase \in phase THEN [c EXCEPT !.phase = as] ELSE c
ShutdownFails ==
  /\ mem.state = "wait" => mem.child = None
  /\ Spend("faults")
  /\ mem' = [mem EXCEPT !.rdb = Killed(@, {"saving"}, "killed"),
       !.child = IF mem.state = "on" THEN Killed(@, {"writing", "asked", "answered"}, "failed") ELSE @]
  /\ disk' = IF mem.state = "off" THEN disk ELSE Synced(disk)
Kill ==
  /\ Spend("faults")
  /\ mem' = None
  /\ UNCHANGED disk
PowerFailure ==
  /\ Spend("faults")
  /\ mem' = None
  /\ \E k \in disk.synced..Len(disk.aof) : disk' = [disk EXCEPT !.aof = SubSeq(@, 1, k)]
\* loadDataFromDisk, with or without the append only file
Start(aof) ==
  /\ Off
  /\ \E f \in {Trimmed(disk.aof)} :
       IF aof
       THEN /\ WellFormed(disk.aof)
            /\ mem' = Booted("on", Loaded(f), Cardinality(Complete(f)))
            /\ disk' = [disk EXCEPT !.aof = f, !.synced = IF @ > Len(f) THEN Len(f) ELSE @]
       ELSE mem' = Booted("off", disk.dump, 0) /\ UNCHANGED disk
  /\ UNCHANGED plan

\* What the server's own thread does by itself; between the rename of a rewritten file
\* and its fsync it is in the middle of a handler and does nothing else.
Thread ==
  \/ beforeSleep \/ CronFlush \/ ScheduledRewrite \/ aofChildWriteDiffData \/ aofChildPipeReadable
  \/ backgroundRewriteDoneHandler \/ backgroundSaveDoneHandler
\* With the background thread and the children
Work ==
  \/ ~mem.renamed /\ Thread
  \/ RewriteSynced \/ bioProcessBackgroundJobs
  \/ aofReadDiffFromParent \/ ChildAsks \/ ChildExits \/ RdbChildSaves
Users ==
  /\ ~mem.renamed
  /\ \/ \E db \in Databases : Write(db)
     \/ bgrewriteaofCommand \/ stopAppendOnly \/ startAppendOnly \/ rdbSaveBackground \/ saveCommand
Faults ==
  \/ ChildFails \/ RdbChildFails \/ Kill \/ PowerFailure
  \/ ~mem.renamed /\ (ForkFails \/ prepareForShutdown \/ ShutdownFails)
Next ==
  \/ ~Off /\ (Work \/ Users \/ Faults)
  \/ \E aof \in BOOLEAN : Start(aof)

Fairness == WF_vars(~Off /\ Work)
Spec == Init /\ [][Next]_vars /\ Fairness

-----------------------------------------------------------------------------
(* Properties *)

\* The new file, once the child has read the pipe and the server has added the rest
Pending(m) ==
  (IF m.child.phase = "done" THEN m.child.file ELSE m.child.file \o m.child.got \o m.pipe) \o m.rewrite

\* The append only file and the buffer make the data set, every write once and in its
\* database, and so do the new file of a rewrite, the pipe and the differences still
\* with the server, wherever they were cut and whatever failed; the file can always be
\* loaded (feedAppendOnlyFile, aofChildWriteDiffData, backgroundRewriteDoneHandler).
\* Left out are files that a failed stopAppendOnly spoilt.
LogComplete ==
  ~disk.spoilt =>
    /\ WellFormed(disk.aof)
    /\ ~Off /\ mem.state = "on" => /\ WellFormed(disk.aof \o mem.buf)
                                  /\ Loaded(disk.aof \o mem.buf) = mem.data
    /\ ~Off /\ mem.state # "off" /\ mem.child # None /\ mem.child.phase # "failed" =>
         Loaded(Pending(mem)) = mem.data

\* "we have the contract with the user that on acknowledged write data is synced on
\* disk": with appendfsync always, and fsync not left out during rewrites, what was
\* answered survives a power failure, except one between the rename of a rewritten file
\* and its fsync (mem.renamed), when the differences that the server appended to it may
\* be lost although they were answered and the old file had them.  With any policy it
\* survives the death of the process unless a flush was postponed or failed
\* (flushAppendOnlyFile is called before the replies are sent).
Survives(f) == mem.acked \subseteq Writes(Loaded(f))
AckedSurvives ==
  ~Off /\ mem.state = "on" =>
    /\ plan.fsync = "always" /\ ~plan.lazy /\ ~mem.renamed => Survives(SubSeq(disk.aof, 1, disk.synced))
    /\ mem.status = "ok" /\ ~mem.postponed => Survives(disk.aof)

\* server.dirty, which makes save points due, counts every write that dump.rdb does not
\* have, whichever child has ended, failed or been killed (backgroundSaveDoneHandlerDisk).
DirtyTold == ~Off => Cardinality(Writes(mem.data) \ Writes(disk.dump)) <= mem.dirty

\* A server that is told to switch to the append only file does so in the end, also
\* after rewrites that failed, unless it is told otherwise (aof_rewrite_scheduled).
Switching == ~Off /\ mem.state = "wait"
SwitchesOn == Switching ~> ~Switching
=============================================================================
