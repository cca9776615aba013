----------------------------- MODULE Connection -----------------------------
(* One connection: the query buffer, the parsers, the static and the linked  *)
(* output buffers whose nodes share string objects with the key space, and   *)
(* the ways a client is held back (blocked, paused) and closed.  A byte is a  *)
(* pair <<what, n>>: the header of an argument list or of a bulk, a control   *)
(* character, or a word.  A handler of the event loop is one action.         *)
EXTENDS Integers, Sequences, SequencesExt, FiniteSets

CONSTANTS
  Scripts,      \* what a peer may send: sequences of requests
  BufSize,      \* REDIS_REPLY_CHUNK_BYTES, of the static buffer ...
  ChunkBytes,   \* ... and of a node that small replies are glued to
  EmbLimit,     \* longest embedded string (39)
  BigArg,       \* REDIS_MBULK_BIG_ARG
  InlineMax,    \* REDIS_INLINE_MAX_SIZE
  MaxMultibulk, MaxBulk,  \* longest argument list (1024*1024), bulk (512 MB)
  SharedBulks,  \* REDIS_SHARED_BULKHDR_LEN
  MaxQuery,     \* client-query-buffer-limit
  HardLimit, SoftLimit, ItemSize,   \* client-output-buffer-limit
  MaxWrite,     \* REDIS_MAX_WRITE_PER_EVENT
  MaxRead,      \* bound: bytes read at once, unless all that was sent
  MaxRoom,      \* bound: bytes a socket takes in one event
  MaxPushes, MaxPauses    \* bounds: messages published, pauses by others

VARIABLES
  script,   \* what the peer sends
  wire,     \* the bytes of it that the server has not read
  c,        \* the client, and what of the server its handlers touch
  got,      \* the bytes the peer has received
  link,     \* "new", "open", or why it is closed
  pushes, pauses
connVars == <<script, wire, c, got, link, pushes, pauses>>

CR == <<"r", 0>>
LF == <<"n", 0>>
SP == <<" ", 0>>
DQ == <<"dquote", 0>>
SQ == <<"squote", 0>>
BS == <<"backslash", 0>>
CRLF == <<"crlf", 0>>
NotANumber == -9     \* what string2ll refuses
None == <<"none", 0>>

\* F(x), with x evaluated once.
Of(F(_), x) == CHOOSE y \in {F(z) : z \in {x}} : TRUE

-----------------------------------------------------------------------------
(* String objects.  A shared object is named by the bytes it holds. *)

Shared == {CRLF, <<"ok", 0>>, <<"nullbulk", 0>>, <<"syntaxerr", 0>>, <<"nullmultibulk", 0>>,
           <<":", 0>>, <<":", 1>>, <<"subscribed", 0>>, <<"message", 0>>}
          \cup {<<x, n>> : x \in {"*", "$"}, n \in 0..SharedBulks - 1}
Object(data, enc) == [data |-> data, enc |-> enc, alloc |-> Len(data)]
createSharedObjects == [x \in Shared |-> Object(<<x>>, "raw")]
createStringObject(data) == Object(data, IF Len(data) <= EmbLimit THEN "embstr" ELSE "raw")
getStringObjectSdsUsedMemory(ob) ==
  CASE ob.enc = "raw" -> 1 + ob.alloc [] ob.enc = "embstr" -> Len(ob.data) [] OTHER -> 0
sdscatlen(ob, s) ==
  LET len == Len(ob.data) + Len(s)
  IN  [ob EXCEPT !.data = @ \o s, !.alloc = IF @ >= len THEN @ ELSE 2 * len]
IsInteger(data) == Len(data) = 1 /\ data[1][1] = "digit"
tryObjectEncoding(ob) ==
  IF IsInteger(ob.data) THEN Object(ob.data, "int") ELSE createStringObject(ob.data)

RefCount(cl, id) ==
  Cardinality({i \in DOMAIN cl.reply : cl.reply[i] = id}) + Cardinality({x \in {"val", "name"} : cl[x] = id})
  + (IF id \in Shared THEN 1 ELSE 0)
\* An object without references is freed.
decrRefCount(cl) == [cl EXCEPT !.objs = [id \in {x \in DOMAIN @ : RefCount(cl, x) > 0} |-> cl.objs[id]]]
NewId(cl) == <<"obj", CHOOSE n \in 1..Cardinality(DOMAIN cl.objs) + 1 :
                        <<"obj", n>> \notin DOMAIN cl.objs /\ \A i \in 1..n - 1 : <<"obj", i>> \in DOMAIN cl.objs>>
Put(cl, id, ob) == [cl EXCEPT !.objs = (id :> ob) @@ @]

\* objs: the string objects by name; val, name: those of the key and of CLIENT
\* SETNAME; paused: "no", "on", or "over" when the time is up and nobody noticed;
\* queued: its entries in unblocked_clients; soft: 0, 1 over the limit, 2 for too
\* long.  The last four are history: the commands executed, what they answer
\* by their meaning, and the value and the name they leave.
createClient ==
  [querybuf |-> <<>>, reqtype |-> "none", multibulklen |-> 0, bulklen |-> -1, argv |-> <<>>,
   buf |-> <<>>, sentlen |-> 0, reply |-> <<>>, reply_bytes |-> 0, handler |-> FALSE,
   closeAfter |-> FALSE, asap |-> FALSE, soft |-> 0, blocked |-> FALSE, queued |-> 0, subscribed |-> FALSE,
   val |-> None, name |-> None, objs |-> createSharedObjects, paused |-> "no",
   executed |-> <<>>, said |-> <<>>, value |-> <<>>, called |-> <<>>]

-----------------------------------------------------------------------------
(* Output.  Replies go to the static buffer until one does not fit, then to   *)
(* the list; a node is glued to only when nobody else refers to its object.  *)

OutputMemory(cl) == cl.reply_bytes + ItemSize * Len(cl.reply)
checkClientOutputBufferLimits(cl) ==
  LET over == OutputMemory(cl) >= SoftLimit
  IN  [cl EXCEPT !.soft = IF ~over THEN 0 ELSE IF @ = 0 THEN 1 ELSE @,
                 !.asap = OutputMemory(cl) >= HardLimit \/ (over /\ cl.soft = 2)]
asyncCloseClientOnOutputBufferLimitReached(cl) ==
  IF cl.reply_bytes = 0 \/ cl.asap THEN cl ELSE checkClientOutputBufferLimits(cl)

prepareClientToWrite(cl) == [cl EXCEPT !.handler = @ \/ (cl.buf = <<>> /\ cl.reply = <<>>)]

\* Mutant: the last object is appended to although others refer to it.
AppendInPlace(cl) == cl
dupLastObjectIfNeeded(cl) ==
  LET tail == cl.objs[Last(cl.reply)]
  IN  IF RefCount(cl, Last(cl.reply)) > 1
      THEN [Put(cl, NewId(cl), Object(tail.data, tail.enc)) EXCEPT !.reply[Len(cl.reply)] = NewId(cl)]
      ELSE cl
Glues(cl, s) ==
  /\ cl.reply # <<>>
  /\ cl.objs[Last(cl.reply)].enc = "raw"
  /\ Len(cl.objs[Last(cl.reply)].data) + Len(s) <= ChunkBytes
Glued(d, s, old) ==
  LET id == Last(d.reply)
      ob == sdscatlen(d.objs[id], s)
  IN  [d EXCEPT !.objs[id] = ob, !.reply_bytes = @ - old + getStringObjectSdsUsedMemory(ob)]
Glue(cl, s) ==
  LET old == getStringObjectSdsUsedMemory(cl.objs[Last(cl.reply)])
  IN  Of(LAMBDA d : Glued(d, s, old), dupLastObjectIfNeeded(cl))
AddNode(cl, id) ==
  [cl EXCEPT !.reply = Append(@, id), !.reply_bytes = @ + getStringObjectSdsUsedMemory(cl.objs[id])]
addReplyToList(cl, data, id) ==
  Of(asyncCloseClientOnOutputBufferLimitReached, IF Glues(cl, data) THEN Glue(cl, data) ELSE AddNode(cl, id))

\* What a command adds to its reply: an object, a text, an sds that the node takes
\* over, or an array whose length comes last.
Obj(x) == [kind |-> "object", id |-> x, data |-> <<>>]
Text(data) == [kind |-> "text", id |-> None, data |-> data]
Sds(data) == [kind |-> "sds", id |-> None, data |-> data]
Deferred == [kind |-> "deferred", id |-> None, data |-> <<>>]
Length(n) == [kind |-> "length", id |-> None, data |-> <<<<"*", n>>>>]

Fits(cl, data) == cl.reply = <<>> /\ Len(cl.buf) + Len(data) <= BufSize
addReplyToBuffer(cl, data) == [cl EXCEPT !.buf = @ \o data]
\* An integer is formatted into the buffer; where it does not fit it is decoded.
addReply(cl, id, ob) ==
  IF ob.enc = "int" THEN addReplyToList(Put(cl, NewId(cl), createStringObject(ob.data)), ob.data, NewId(cl))
                    ELSE addReplyToList(cl, ob.data, id)
addReplyString(cl, data) == addReplyToList(Put(cl, NewId(cl), createStringObject(data)), data, NewId(cl))
addReplySds(cl, data) == addReplyToList(Put(cl, NewId(cl), Object(data, "raw")), data, NewId(cl))

addDeferredMultiBulkLength(cl) ==
  [Put(cl, NewId(cl), Object(<<>>, "null")) EXCEPT !.reply = Append(@, NewId(cl))]
LengthSet(cl, i, len) ==
  LET glued == i < Len(cl.reply)
      next == cl.objs[cl.reply[i + 1]]
      ob == IF glued THEN sdscatlen(len, next.data) ELSE len
  IN  [cl EXCEPT !.objs[cl.reply[i]] = ob,
                 !.reply = IF glued THEN RemoveAt(@, i + 1) ELSE @,
                 !.reply_bytes = @ + getStringObjectSdsUsedMemory(ob) - (IF glued THEN getStringObjectSdsUsedMemory(next) ELSE 0)]
setDeferredMultiBulkLength(cl, data) ==
  Of(asyncCloseClientOnOutputBufferLimitReached,
     LengthSet(cl, CHOOSE i \in DOMAIN cl.reply : cl.objs[cl.reply[i]].enc = "null", sdscatlen(Object(<<>>, "raw"), data)))

Data(cl, p) == IF p.kind = "object" THEN cl.objs[p.id].data ELSE p.data
AddPrepared(cl, p) ==
  IF p.kind = "deferred" THEN addDeferredMultiBulkLength(cl)
  ELSE IF p.kind = "length" THEN setDeferredMultiBulkLength(cl, p.data)
  ELSE IF cl.closeAfter THEN cl
  ELSE IF Fits(cl, Data(cl, p)) THEN addReplyToBuffer(cl, Data(cl, p))
  ELSE CASE p.kind = "object" -> addReply(cl, p.id, cl.objs[p.id])
         [] p.kind = "text" -> addReplyString(cl, p.data)
         [] p.kind = "sds" -> addReplySds(cl, p.data)
Add(cl, pieces) == FoldLeft(LAMBDA a, p : Of(LAMBDA b : AddPrepared(b, p), prepareClientToWrite(a)), cl, pieces)

ErrorText(msg) == <<<<"-ERR", 0>>, msg, CRLF>>
addReplyError(msg) == [i \in 1..3 |-> Text(<<ErrorText(msg)[i]>>)]
addReplyLongLongWithPrefix(n, prefix) ==
  IF prefix \in {"*", "$"} /\ n < SharedBulks THEN Obj(<<prefix, n>>) ELSE Text(<<<<prefix, n>>>>)
addReplyLongLong(n) == IF n \in 0..1 THEN Obj(<<":", n>>) ELSE addReplyLongLongWithPrefix(n, ":")
addReplyBulk(cl, id) == <<addReplyLongLongWithPrefix(Len(cl.objs[id].data), "$"), Obj(id), Obj(CRLF)>>
\* A bulk, or the null bulk when there is no object.
BulkOrNull(cl, id) == IF id = None THEN <<Obj(<<"nullbulk", 0>>)>> ELSE addReplyBulk(cl, id)

\* One turn of the loop of sendReplyToClient: w.room is what the socket takes.
SendData(w, data, mem) ==
  LET cl == w.cl
      n == Min({w.room, Len(data) - cl.sentlen})
  IN  [w EXCEPT !.cl = IF cl.sentlen + n < Len(data) THEN [cl EXCEPT !.sentlen = @ + n]
                       ELSE IF cl.buf # <<>> THEN [cl EXCEPT !.buf = <<>>, !.sentlen = 0]
                       ELSE [cl EXCEPT !.reply = Tail(@), !.sentlen = 0, !.reply_bytes = @ - mem],
                !.room = @ - n, !.out = @ \o SubSeq(data, cl.sentlen + 1, cl.sentlen + n),
                !.done = Len(data) > 0 /\ (n = 0 \/ Len(w.out) + n > MaxWrite)]
SendStep(w, i) ==
  IF w.done \/ (w.cl.buf = <<>> /\ w.cl.reply = <<>>) THEN w
  ELSE IF w.cl.buf # <<>> THEN SendData(w, w.cl.buf, 0)
  ELSE Of(LAMBDA ob : SendData(w, ob.data, getStringObjectSdsUsedMemory(ob)), w.cl.objs[Head(w.cl.reply)])
sendReplyToClient(cl, room) ==
  FoldLeft(SendStep, [cl |-> cl, room |-> room, out |-> <<>>, done |-> FALSE], [i \in 1..Len(cl.reply) + 2 |-> i])

-----------------------------------------------------------------------------
(* The commands that matter to a connection: they share an object with the   *)
(* reply, change one that a reply shares, build a reply whose length comes    *)
(* last, hold the client back or close it.                                   *)

Op(argv) == argv[1][1][1]
Arg(argv) == IF Len(argv) > 1 THEN argv[2] ELSE <<>>

\* What a command answers, and the value and the name it leaves, by its meaning.
Bulk(data) == <<<<"$", Len(data)>>>> \o data \o <<CRLF>>
Legal(name) == SP \notin ToSet(name)
Meaning(argv, v, name) ==
  CASE Op(argv) = "get" -> IF v = <<>> THEN <<<<"nullbulk", 0>>>> ELSE Bulk(v)
    [] Op(argv) = "append" -> <<<<":", Len(v \o Arg(argv))>>>>
    [] Op(argv) = "keys" -> IF v = <<>> THEN <<<<"*", 0>>>> ELSE <<<<"*", 1>>>> \o Bulk(v)
    [] Op(argv) = "getname" -> IF name = <<>> THEN <<<<"nullbulk", 0>>>> ELSE Bulk(name)
    [] Op(argv) = "setname" -> IF Legal(Arg(argv)) THEN <<<<"ok", 0>>>> ELSE ErrorText(<<"name", 0>>)
    [] Op(argv) = "killother" -> <<<<":", 0>>>>
    [] Op(argv) = "blpop" -> <<>>
    [] Op(argv) = "subscribe" -> <<<<"subscribed", 0>>>>
    [] Op(argv) \in {"set", "quit", "kill", "pause"} -> <<<<"ok", 0>>>>
    [] OTHER -> ErrorText(<<"unknown", 0>>)
ValueAfter(argv, v) ==
  CASE Op(argv) = "set" -> Arg(argv) [] Op(argv) = "append" -> v \o Arg(argv) [] OTHER -> v

dbUnshareStringValue(cl) ==
  IF RefCount(cl, cl.val) # 1 \/ cl.objs[cl.val].enc # "raw"
  THEN [Put(cl, NewId(cl), Object(cl.objs[cl.val].data, "raw")) EXCEPT !.val = NewId(cl)]
  ELSE cl
setKey(cl, data) ==
  [Put(cl, NewId(cl), tryObjectEncoding(createStringObject(data))) EXCEPT !.val = NewId(cl)]
appendToKey(cl, data) ==
  IF cl.val = None THEN setKey(cl, data)
  ELSE Of(LAMBDA u : [u EXCEPT !.objs[u.val] = sdscatlen(@, data)], dbUnshareStringValue(cl))
setName(cl, data) ==
  IF data = <<>> THEN [cl EXCEPT !.name = None]
  ELSE IF Legal(data) THEN [Put(cl, NewId(cl), createStringObject(data)) EXCEPT !.name = NewId(cl)]
  ELSE cl

\* What a command does to the client and the key, and then what it replies.
\* "kill" is CLIENT KILL of the client itself, "killother" of others only.
Effect(cl, op, arg) ==
  CASE op = "set" -> setKey(cl, arg)
    [] op = "append" -> appendToKey(cl, arg)
    [] op = "setname" -> setName(cl, arg)
    [] op = "pause" -> [cl EXCEPT !.paused = "on"]
    [] op = "blpop" -> [cl EXCEPT !.blocked = TRUE]
    [] op = "subscribe" -> [cl EXCEPT !.subscribed = TRUE]
    [] OTHER -> cl
Replies(cl, op, arg) ==
  CASE op = "get" -> BulkOrNull(cl, cl.val)
    [] op = "append" -> <<addReplyLongLong(Len(cl.objs[cl.val].data))>>
    [] op = "keys" -> IF cl.val = None THEN <<Deferred, Length(0)>> ELSE <<Deferred>> \o addReplyBulk(cl, cl.val) \o <<Length(1)>>
    [] op = "getname" -> BulkOrNull(cl, cl.name)
    [] op = "setname" -> IF Legal(arg) THEN <<Obj(<<"ok", 0>>)>> ELSE addReplyError(<<"name", 0>>)
    [] op = "killother" -> <<addReplyLongLong(0)>>
    [] op = "blpop" -> <<>>
    [] op = "subscribe" -> <<Obj(<<"subscribed", 0>>)>>
    [] op \in {"set", "quit", "kill", "pause"} -> <<Obj(<<"ok", 0>>)>>
    [] OTHER -> addReplyError(<<"unknown", 0>>)
Call(cl, op, arg) == Of(LAMBDA e : Add(e, Replies(e, op, arg)), Effect(cl, op, arg))
resetClient(cl) == [cl EXCEPT !.argv = <<>>, !.reqtype = "none", !.multibulklen = 0, !.bulklen = -1]
\* QUIT is answered before the commands are looked up, and leaves the arguments.
processCommand(cl) ==
  Of(LAMBDA e : [IF Op(cl.argv) = "quit" THEN e ELSE resetClient(e) EXCEPT
                   !.closeAfter = Op(cl.argv) \in {"quit", "kill"},
                   !.executed = Append(@, cl.argv),
                   !.said = @ \o Meaning(cl.argv, cl.value, cl.called),
                   !.value = ValueAfter(cl.argv, @),
                   !.called = IF Op(cl.argv) = "setname" /\ Legal(Arg(cl.argv)) THEN Arg(cl.argv) ELSE @],
     Call(cl, Op(cl.argv), Arg(cl.argv)))

-----------------------------------------------------------------------------
(* Input *)

From(s, pos) == SubSeq(s, pos + 1, Len(s))
Find(s, pos, x) == SelectInSubSeq(s, pos + 1, Len(s), LAMBDA y : y = x)

setProtocolError(cl, msg) ==
  [Add(cl, addReplyError(msg)) EXCEPT !.closeAfter = TRUE, !.said = @ \o ErrorText(msg)]
\* What a parser returns: the client, whether a request is complete, or the error.
Refuse(cl, pos, msg) == [cl |-> [cl EXCEPT !.querybuf = From(@, pos)], ok |-> FALSE, error |-> msg]
Wait(cl) == [cl |-> cl, ok |-> FALSE, error |-> None]

\* Splitting a line: mode is "blank", "word", a quote, or "after" a closing one.
SplitStep(a, t) ==
  CASE a.mode = "error" -> a
    [] a.mode = "after" -> [a EXCEPT !.mode = IF t = SP THEN "blank" ELSE "error"]
    [] a.mode \in {"blank", "word"} ->
         CASE t = SP -> IF a.mode = "word" THEN [a EXCEPT !.mode = "blank", !.words = Append(@, a.cur), !.cur = <<>>] ELSE a
           [] t \in {DQ, SQ} -> [a EXCEPT !.mode = t[1]]
           [] OTHER -> [a EXCEPT !.mode = "word", !.cur = Append(@, t)]
    [] a.mode = "dquote" ->
         CASE a.esc -> [a EXCEPT !.esc = FALSE, !.cur = Append(@, t)]
           [] ~a.esc /\ t = BS -> [a EXCEPT !.esc = TRUE]
           [] ~a.esc /\ t = DQ -> [a EXCEPT !.mode = "after", !.words = Append(@, a.cur), !.cur = <<>>]
           [] OTHER -> [a EXCEPT !.cur = Append(@, t)]
    [] OTHER ->
         CASE t = SQ /\ a.esc -> [a EXCEPT !.esc = FALSE, !.cur = Append(Front(@), t)]
           [] t = SQ /\ ~a.esc -> [a EXCEPT !.mode = "after", !.words = Append(@, a.cur), !.cur = <<>>]
           [] OTHER -> [a EXCEPT !.esc = t = BS, !.cur = Append(@, t)]
sdssplitargs(line) ==
  LET a == FoldLeft(SplitStep, [mode |-> "blank", words |-> <<>>, cur |-> <<>>, esc |-> FALSE], line)
  IN  [ok |-> a.mode \in {"blank", "word", "after"}, words |-> IF a.mode = "word" THEN Append(a.words, a.cur) ELSE a.words]

processInlineBuffer(cl, lf) ==
  LET querylen == IF lf > 1 /\ cl.querybuf[lf - 1] = CR THEN lf - 2 ELSE lf - 1
      args == sdssplitargs(SubSeq(cl.querybuf, 1, querylen))
  IN  IF lf = 0 THEN IF Len(cl.querybuf) > InlineMax THEN Refuse(cl, 0, <<"inline", 0>>) ELSE Wait(cl)
      ELSE IF ~args.ok THEN Refuse(cl, 0, <<"quotes", 0>>)
      ELSE [cl |-> [cl EXCEPT !.querybuf = From(@, querylen + 2), !.argv = SelectSeq(args.words, LAMBDA w : w # <<>>)],
            ok |-> TRUE, error |-> None]

\* The number after a "*" or "$" at pos, when the line ends there.
Number(q, pos, cr) == IF cr = pos + 2 THEN q[pos + 1][2] ELSE NotANumber
NoLine(cl, cr) == cr = 0 \/ cr = Len(cl.querybuf)

\* One argument, after pos bytes of the buffer; state is "run", "wait" for more
\* bytes, or what is wrong with the request.
BulkHeader(b, q, cr) ==
  LET ll == Number(q, b.pos, cr)
  IN  IF cr = 0 /\ Len(q) > InlineMax THEN [b EXCEPT !.state = "bulkcount", !.pos = 0]
      ELSE IF NoLine(b.cl, cr) THEN [b EXCEPT !.state = "wait"]
      ELSE IF q[b.pos + 1][1] # "$" THEN [b EXCEPT !.state = "expected"]
      ELSE IF ll < 0 \/ ll > MaxBulk THEN [b EXCEPT !.state = "bulklen"]
      ELSE IF ll >= BigArg THEN [b EXCEPT !.cl.querybuf = From(@, cr + 1), !.cl.bulklen = ll, !.pos = 0]
      ELSE [b EXCEPT !.cl.bulklen = ll, !.pos = cr + 1]
BulkArgument(b) ==
  LET len == b.cl.bulklen
      whole == b.pos = 0 /\ len >= BigArg /\ Len(b.cl.querybuf) = len + 2
  IN  IF b.state # "run" THEN b
      ELSE IF Len(b.cl.querybuf) - b.pos < len + 2 THEN [b EXCEPT !.state = "wait"]
      ELSE [b EXCEPT !.cl.argv = Append(@, SubSeq(b.cl.querybuf, b.pos + 1, b.pos + len)),
                     !.cl.querybuf = IF whole THEN <<>> ELSE @,
                     !.cl.bulklen = -1, !.cl.multibulklen = @ - 1,
                     !.pos = IF whole THEN 0 ELSE @ + len + 2]
BulkStep(b, i) ==
  IF b.state # "run" THEN b
  ELSE Of(BulkArgument, IF b.cl.bulklen = -1 THEN BulkHeader(b, b.cl.querybuf, Find(b.cl.querybuf, b.pos, CR)) ELSE b)
Trimmed(b) ==
  IF b.state \in {"run", "wait"} THEN [cl |-> [b.cl EXCEPT !.querybuf = From(@, b.pos)], ok |-> b.state = "run", error |-> None]
  ELSE Refuse(b.cl, b.pos, <<b.state, 0>>)
Bulks(cl, pos) ==
  Of(Trimmed, FoldLeft(BulkStep, [cl |-> cl, pos |-> pos, state |-> "run"], [i \in 1..cl.multibulklen |-> i]))

processMultibulkBuffer(cl, cr) ==
  LET ll == Number(cl.querybuf, 0, cr)
  IN  IF cl.multibulklen # 0 THEN Bulks(cl, 0)
      ELSE IF cr = 0 /\ Len(cl.querybuf) > InlineMax THEN Refuse(cl, 0, <<"mbulkcount", 0>>)
      ELSE IF NoLine(cl, cr) THEN Wait(cl)
      ELSE IF ll = NotANumber \/ ll > MaxMultibulk THEN Refuse(cl, 0, <<"mbulklen", 0>>)
      ELSE IF ll <= 0 THEN [cl |-> [cl EXCEPT !.querybuf = From(@, cr + 1)], ok |-> TRUE, error |-> None]
      ELSE Bulks([cl EXCEPT !.multibulklen = ll], cr + 1)

\* Mutant: nobody is resumed when a pause is over.
NobodyResumed(cl) == IF cl.paused = "over" THEN [cl EXCEPT !.paused = "no"] ELSE cl
\* A pause that is over puts every client that is not blocked in the queue of
\* the unblocked ones, whoever notices it.
clientsArePaused(cl) ==
  IF cl.paused = "over" THEN [cl EXCEPT !.paused = "no", !.queued = IF cl.blocked THEN @ ELSE @ + 1] ELSE cl

RequestType(q) == IF q[1][1] = "*" THEN "multibulk" ELSE "inline"
Parsed(t) ==
  IF t.reqtype = "inline" THEN processInlineBuffer(t, Find(t.querybuf, 0, LF))
                          ELSE processMultibulkBuffer(t, Find(t.querybuf, 0, CR))
Handle(r) ==
  IF r.error # None THEN [cl |-> setProtocolError(r.cl, r.error), go |-> FALSE]
  ELSE IF ~r.ok THEN [cl |-> r.cl, go |-> FALSE]
  ELSE IF r.cl.argv = <<>> THEN [cl |-> resetClient(r.cl), go |-> TRUE]
  ELSE [cl |-> processCommand(r.cl), go |-> TRUE]
Served(p) ==
  IF p.paused = "on" \/ p.blocked \/ p.closeAfter THEN [cl |-> p, go |-> FALSE]
  ELSE Of(Handle, Parsed([p EXCEPT !.reqtype = IF @ = "none" THEN RequestType(p.querybuf) ELSE @]))
InputStep(a, i) ==
  IF ~a.go \/ a.cl.querybuf = <<>> THEN a ELSE Of(Served, clientsArePaused(a.cl))
processInputBuffer(cl) ==
  FoldLeft(InputStep, [cl |-> cl, go |-> TRUE], [i \in 1..Len(cl.querybuf) |-> i]).cl

-----------------------------------------------------------------------------
(* The handlers *)

RequestBytes(s) == FlattenSeq([i \in DOMAIN s |-> s[i].bytes])
ConnInit ==
  /\ script \in Scripts
  /\ wire = RequestBytes(script)
  /\ c = createClient
  /\ got = <<>> /\ link = "new" /\ pushes = 0 /\ pauses = 0

Serve(cl) == c' = decrRefCount(cl)
\* freeClient, of a client that is no slave, master or monitor.
closeClient(why) ==
  /\ link' = why
  /\ c' = [c EXCEPT !.querybuf = <<>>, !.buf = <<>>, !.reply = <<>>, !.handler = FALSE, !.queued = 0]

\* A connection beyond maxclients is told so and closed.
acceptCommonHandler(full) ==
  /\ link = "new"
  /\ got' = IF full THEN <<<<"maxclients", 0>>>> ELSE <<>>
  /\ link' = IF full THEN "rejected" ELSE "open"
  /\ UNCHANGED <<script, wire, c, pushes, pauses>>

\* read() returns some of what has arrived; a fat argument is read alone.
ReadLen ==
  IF c.reqtype = "multibulk" /\ c.multibulklen # 0 /\ c.bulklen >= BigArg
  THEN c.bulklen + 2 - Len(c.querybuf) ELSE Len(wire)
readQueryFromClient(n) ==
  /\ link = "open" /\ n \in 1..Len(wire) /\ n <= ReadLen
  /\ wire' = From(wire, n)
  /\ \E q \in {c.querybuf \o SubSeq(wire, 1, n)} :
       IF Len(q) > MaxQuery THEN closeClient("query limit")
       ELSE /\ \E cl \in {processInputBuffer([c EXCEPT !.querybuf = q])} : Serve(cl)
            /\ link' = link
  /\ UNCHANGED <<script, got, pushes, pauses>>
\* read() returns 0: the peer has hung up, or that is what was asked for, which is
\* taken for the same.
ReadsNothing ==
  /\ link = "open" /\ (wire = <<>> \/ ReadLen = 0)
  /\ closeClient("hangup")
  /\ UNCHANGED <<script, wire, got, pushes, pauses>>

Writable(room) ==
  /\ link = "open" /\ c.handler
  /\ \E w \in {sendReplyToClient(c, room)} :
       /\ got' = got \o w.out
       /\ Serve([w.cl EXCEPT !.handler = w.cl.buf # <<>> \/ w.cl.reply # <<>>])
       /\ link' = IF c.closeAfter /\ w.cl.buf = <<>> /\ w.cl.reply = <<>> THEN "drained" ELSE link
  /\ UNCHANGED <<script, wire, pushes, pauses>>

processUnblockedClients ==
  /\ link = "open" /\ c.queued > 0
  /\ \E cl \in {FoldLeft(LAMBDA a, i : IF a.queued = 0 THEN a ELSE processInputBuffer([a EXCEPT !.queued = @ - 1]),
                         c, [i \in 1..c.queued + 1 |-> i])} : Serve(cl)
  /\ UNCHANGED <<script, wire, got, link, pushes, pauses>>

unblockClient(cl) == [cl EXCEPT !.blocked = FALSE, !.queued = @ + 1]
\* Somebody pushes an element, the wait times out, or the server becomes a slave
\* and disconnects who waits.
Answer(how) ==
  CASE how = "served" -> <<"message", 0>> [] how = "timeout" -> <<"nullmultibulk", 0>> [] how = "demoted" -> <<"-UNBLOCKED", 0>>
Resume(how) ==
  /\ link = "open" /\ c.blocked
  /\ \E cl \in {Add(c, <<IF how = "demoted" THEN Sds(<<Answer(how)>>) ELSE Obj(Answer(how))>>)} :
       Serve([unblockClient(cl) EXCEPT !.closeAfter = how = "demoted", !.said = Append(@, Answer(how))])
  /\ UNCHANGED <<script, wire, got, link, pushes, pauses>>

\* A message to a channel the client listens to: the key's value, say.
Publish ==
  /\ link = "open" /\ c.subscribed /\ ~c.closeAfter /\ c.val # None /\ pushes < MaxPushes
  /\ pushes' = pushes + 1
  /\ \E cl \in {Add(c, <<Obj(<<"message", 0>>)>> \o addReplyBulk(c, c.val))} :
       Serve([cl EXCEPT !.said = Append(@, <<"message", 0>>) \o Bulk(c.value)])
  /\ UNCHANGED <<script, wire, got, link, pauses>>

\* CLIENT PAUSE by another client, and the time it gives running out.
pauseClients ==
  /\ link = "open" /\ c.paused = "no" /\ pauses < MaxPauses
  /\ pauses' = pauses + 1
  /\ c' = [c EXCEPT !.paused = "on"]
  /\ UNCHANGED <<script, wire, got, link, pushes>>
PauseEnds ==
  /\ link = "open" /\ c.paused = "on"
  /\ c' = [c EXCEPT !.paused = "over"]
  /\ UNCHANGED <<script, wire, got, link, pushes, pauses>>
\* The soft limit has been exceeded for its number of seconds.
SoftTime ==
  /\ link = "open" /\ c.soft = 1
  /\ c' = [c EXCEPT !.soft = 2]
  /\ UNCHANGED <<script, wire, got, link, pushes, pauses>>

\* serverCron: clients scheduled for it are freed, the end of a pause is noticed.
ServerCron ==
  /\ link = "open" /\ (c.asap \/ c.paused = "over")
  /\ IF c.asap THEN closeClient("output limit") ELSE c' = clientsArePaused(c) /\ link' = link
  /\ UNCHANGED <<script, wire, got, pushes, pauses>>

ConnNext ==
  \/ \E full \in BOOLEAN : acceptCommonHandler(full)
  \/ \E n \in 1..MaxRead \cup {Len(wire)} : readQueryFromClient(n)
  \/ ReadsNothing
  \/ \E room \in 1..MaxRoom : Writable(room)
  \/ processUnblockedClients
  \/ \E how \in {"served", "timeout", "demoted"} : Resume(how)
  \/ Publish \/ pauseClients \/ PauseEnds \/ SoftTime \/ ServerCron

-----------------------------------------------------------------------------

Queued(cl) == From(cl.buf \o FlattenSeq([i \in DOMAIN cl.reply |-> cl.objs[cl.reply[i]].data]), cl.sentlen)

\* What the peer has received, followed by what is queued, is what its commands
\* answered, in their order and nothing twice, whatever part of it was in the
\* static buffer, in nodes of its own or in objects shared with the key space,
\* and however the socket took it; a peer that is closed after its last reply has
\* all of it.  No object that somebody else reads is changed by gluing to it: the
\* key keeps its value, the shared objects their text.  And reply_bytes is the
\* memory of the list, so that no client goes on beyond the hard limit.
AnswersInOrder ==
  /\ link = "open" => /\ got \o Queued(c) = c.said
                      /\ Queued(c) # <<>> \/ c.closeAfter => c.handler
                      /\ c.reply_bytes = FoldLeft(LAMBDA n, id : n + getStringObjectSdsUsedMemory(c.objs[id]), 0, c.reply)
                      /\ c.reply_bytes > 0 /\ OutputMemory(c) >= HardLimit => c.asap
  /\ link # "rejected" => IsPrefix(got, c.said)
  /\ link = "drained" => got = c.said
  /\ c.val # None => c.objs[c.val].data = c.value
  /\ \A x \in Shared : c.objs[x].data = <<x>>

Arrived == Len(RequestBytes(script)) - Len(wire)

\* Bytes have arrived behind an inline request that ends in LF alone; the parser
\* drops one of them.
BehindBareLF ==
  \E i \in DOMAIN script :
    /\ script[i].bytes[1][1] # "*" /\ Last(script[i].bytes) = LF
    /\ Len(script[i].bytes) = 1 \/ script[i].bytes[Len(script[i].bytes) - 1] # CR
    /\ Arrived > Len(RequestBytes(SubSeq(script, 1, i)))

\* The connection has been through a pause.
WasPaused == pauses > 0 \/ \E i \in DOMAIN c.executed : Op(c.executed[i]) = "pause"

\* The commands executed are those that were sent, in their order, with their
\* arguments byte for byte, however the bytes were cut by read(); and none that
\* has arrived is left in the query buffer of a client that nothing holds back
\* (not blocked, paused, queued to be resumed or about to be closed).  This ends
\* with an inline request that ends in LF alone (processInlineBuffer).  And a
\* client is taken for gone before all it sent is read only after a pause: one
\* that has a big argument complete when it is held back is asked for 0 bytes
\* (readQueryFromClient), and its request is lost.
RequestsServed ==
  LET whole == {i \in DOMAIN script : Len(RequestBytes(SubSeq(script, 1, i))) <= Arrived}
      args == SelectSeq([i \in DOMAIN script |-> script[i].args], LAMBDA a : a # <<>>)
  IN  /\ ~BehindBareLF =>
           /\ IsPrefix(c.executed, args)
           /\ link = "open" /\ ~c.blocked /\ c.paused = "no" /\ c.queued = 0 /\ ~c.closeAfter =>
                /\ Len(c.executed) = Cardinality({i \in whole : script[i].args # <<>>})
                /\ \A i \in whole : ~script[i].refused
      /\ link = "hangup" /\ wire # <<>> => WasPaused
=============================================================================
