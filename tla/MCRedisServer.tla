--------------------------- MODULE MCRedisServer ----------------------------
(* Two keys, two clients; the commands come in families that meet in a key   *)
(* space, each family with data sets to start from.  The behaviours of the    *)
(* family "connection" are those of a connection alone.                      *)
EXTENDS RedisServer

CONSTANTS foo, bar, c1, c2

MCKey == {foo, bar}
Two == {foo, bar} \X {foo, bar}
MCScript == [take |-> <<[argv |-> <<"srandmember", foo>>, use |-> FALSE], [argv |-> <<"srem", foo, {}>>, use |-> TRUE]>>,
             add  |-> <<[argv |-> <<"sadd", bar, {1}>>, use |-> FALSE], [argv |-> <<"select", 1>>, use |-> FALSE],
                        [argv |-> <<"sadd", foo, {2}>>, use |-> FALSE]>>]
MCWeightKey == [e \in 0..7 |-> IF e = 2 THEN foo ELSE bar]

MCFamily == {"strings", "lists", "blocking", "sets", "hashes", "zsets", "sort", "keys", "watch", "moves", "scripts", "expire", "connection"}

MCCommand == [f \in MCFamily |->
  CASE f = "strings" ->
         {<<"set", foo, <<1>>, x, Nil>> : x \in {"nx", "xx", "none"}} \cup {<<"getset", foo, <<1, 0>>>>}
         \cup {<<"setrange", k, i, <<1>>>> : k \in MCKey, i \in {0, 2}} \cup {<<"append", foo, <<0>>>>}
         \cup {<<"setbit", bar, i, 1 - i>> : i \in 0..1}
         \cup {<<x, foo, bar, <<1>>>> : x \in {"mset", "msetnx"}}
         \cup {<<x, k, 1>> : x \in {"incrby", "incrbyfloat"}, k \in MCKey} \cup {<<"incrby", foo, -1>>}
         \cup {<<"bitop", op, bar, foo, bar>> : op \in {"and", "or", "xor", "not"}} \cup {<<"del", foo>>}
    [] f = "lists" ->
         {<<"lpush", k, <<1, 2>>>> : k \in MCKey} \cup {<<"rpush", foo, <<1>>>>}
         \cup {<<"linsert", foo, x, 2, w>> : x \in {1, Nil}, w \in {"head", "tail"}}
         \cup {<<"lset", foo, i, 1>> : i \in {-1, 0, 2}} \cup {<<"lpop", foo>>, <<"rpop", bar>>}
         \cup {<<"ltrim", foo, i, j>> : i \in {0, 1, -2}, j \in {1, -1}}
         \cup {<<"lrem", foo, n, 1>> : n \in -1..1} \cup {<<"rpoplpush", x[1], x[2]>> : x \in Two}
    [] f = "blocking" ->
         {<<"rpush", k, <<1>>>> : k \in MCKey} \cup {<<"lpush", foo, <<1, 2>>>>} \cup {<<"blpop", <<foo, bar>>>>, <<"brpop", <<bar>>>>}
         \cup {<<"brpoplpush", x[1], x[2]>> : x \in Two} \cup {<<"rename", foo, bar>>, <<"del", bar>>, <<"sadd", bar, {1}>>,
            <<"sort", foo, "self", FALSE, FALSE, 3, FALSE, bar>>}
    [] f = "sets" ->
         {<<"sadd", k, {1, 2}>> : k \in MCKey} \cup {<<"sadd", foo, {3}>>} \cup {<<"srem", foo, {1}>>, <<"spop", foo>>, <<"spop", bar>>}
         \cup {<<"smove", x[1], x[2], 2>> : x \in Two}
         \cup {<<x, k, y>> : x \in {"sinterstore", "sunionstore", "sdiffstore"}, k \in MCKey, y \in {<<foo, bar>>, <<bar, foo>>, <<bar, bar>>}}
    [] f = "hashes" ->
         {<<"hset", k, 1, 1>> : k \in MCKey} \cup {<<"hsetnx", foo, 2, 1>>, <<"hmset", foo, <<2, 2>>>>, <<"hmset", bar, <<0, 1>>>>}
         \cup {<<x, k, 2, 1>> : x \in {"hincrby", "hincrbyfloat"}, k \in MCKey} \cup {<<"hdel", k, x>> : k \in MCKey, x \in {{1}, {1, 2}}}
    [] f = "zsets" ->
         {<<"zadd", k, <<2, 1>>, x>> : k \in MCKey, x \in {"nx", "xx", "none"}} \cup {<<"zincrby", foo, <<1>>, "none">>}
         \cup {<<"zrem", foo, {1}>>, <<"sadd", bar, {1, 3}>>}
         \cup {<<"zremrange", foo, i, j, x>> : i \in {0, 2}, j \in {-1, 2}, x \in {"rank", "score", "lex"}}
         \cup {<<"zstore", bar, x[1], x[2], 1, how, op>> : x \in Two, how \in {"sum", "min", "max"}, op \in {"union", "inter"}}
    [] f = "sort" ->
         {<<"sort", foo, by, a, d, n, g, foo>> : by \in {"self", "weight", "nosort"}, a \in BOOLEAN, d \in BOOLEAN, n \in {1, 3}, g \in BOOLEAN}
         \cup {<<"set", bar, <<x>>, "none", Nil>> : x \in {1, Letter}}
         \cup {<<"sort", foo, "weight", FALSE, FALSE, 0, FALSE, bar>>, <<"sadd", foo, {1, 2}>>, <<"sadd", foo, {3}>>, <<"zadd", foo, <<2, 1>>, "none">>,
                <<"rpush", foo, <<2, 1>>>>, <<"del", foo>>}
    [] f = "keys" ->
         {<<"set", foo, <<1>>, "none", Nil>>, <<"select", 0>>, <<"select", 1>>, <<"flushdb">>, <<"flushall">>, <<"del", foo>>,
          <<"move", foo, 1>>, <<"move", foo, 0>>}
         \cup {<<x, y[1], y[2]>> : x \in {"rename", "renamenx"}, y \in Two}
    [] f = "watch" -> {<<"sadd", foo, {1}>>, <<"srem", foo, {1}>>, <<"select", 1>>, <<"flushall">>, <<"blpop", <<foo>>>>}
    [] f = "moves" -> {<<"sadd", foo, {1}>>, <<"srem", foo, {1}>>, <<"select", 1>>, <<"move", foo, 1>>, <<"move", foo, 0>>}
    [] f = "scripts" ->
         {<<x, y>> : x \in {"eval", "evalsha", "script load"}, y \in {"take", "add"}}
         \cup {<<"script flush">>, <<"sadd", foo, {1, 2}>>, <<"spop", foo>>, <<"srem", bar, {1}>>}
    [] f = "expire" ->
         {<<"set", foo, <<1>>, "none", 1>>, <<"setex", bar, <<1>>, 1>>, <<"set", foo, <<1>>, "nx", Nil>>, <<"incrbyfloat", foo, 1>>, <<"persist", foo>>, <<"get", foo>>,
          <<"sdiffstore", bar, <<foo, bar>>>>}
         \cup {<<"expire", k, i>> : k \in MCKey, i \in {0, 1}} \cup {<<"pexpireat", foo, 1>>}
    [] f = "connection" -> {}]

MCSample == [f \in MCFamily |->
  CASE f = "lists" -> <<foo :> Nil @@ bar :> Set({1}), foo :> List(<<1, 2, 1>>) @@ bar :> Nil>>
    [] f = "sets" -> <<foo :> Set({1, 2, 3}) @@ bar :> Set({2}), foo :> List(<<1>>) @@ bar :> Nil>>
    [] f = "hashes" -> <<foo :> Nil @@ bar :> Nil, foo :> Set({1}) @@ bar :> Hash(<<1, 2>>)>>
    [] f = "zsets" -> <<foo :> Nil @@ bar :> Nil, foo :> Zset(<<1, 1>>) @@ bar :> List(<<1>>)>>
    [] f = "strings" -> <<foo :> Nil @@ bar :> Nil, foo :> Str(<<1, 1>>) @@ bar :> Set({1})>>
    [] OTHER -> <<NoKeys>>]

MCPeer == [f \in MCFamily |-> IF f \in {"blocking", "watch", "moves"} THEN {c1, c2} ELSE {c1}]
MCUsing == [f \in MCFamily |->
  CASE f = "keys" -> {"copies"} [] f = "watch" -> {"multi", "watch"} [] f = "moves" -> {"watch"} [] f = "scripts" -> {"copies"}
    [] f = "expire" -> {"time", "evict"} [] OTHER -> {}]

-----------------------------------------------------------------------------
VARIABLES script, wire, c, got, link, pushes, pauses
connectionVars == <<script, wire, c, got, link, pushes, pauses>>

W(x) == <<x, 0>>
CR == W("r")
LF == W("n")
SP == W(" ")
DQ == W("dquote")
SQ == W("squote")
BS == W("backslash")
BulkOf(a) == <<<<"$", Len(a)>>, CR, LF>> \o a \o <<CR, LF>>
Multi(args) == [bytes |-> <<<<"*", Len(args)>>, CR, LF>> \o FlattenSeq([i \in DOMAIN args |-> BulkOf(args[i])]), args |-> args, refused |-> FALSE]
Do(x) == Multi(<<<<W(x)>>>>)
With(x, a) == Multi(<<<<W(x)>>, a>>)
Line(bytes, args) == [bytes |-> bytes, args |-> args, refused |-> FALSE]
Bad(bytes) == [bytes |-> bytes, args |-> <<>>, refused |-> TRUE]
MCRequests == {
  <<Do("quit")>>,
  <<With("set", <<CR, LF, W("a")>>), Do("get"), With("append", <<W("b")>>), Do("get")>>,
  <<With("append", <<W("a"), W("b")>>), Do("get"), With("append", <<W("b")>>), Do("keys")>>,
  <<With("set", <<<<"digit", 7>>>>), Do("get"), Do("get"), Do("append")>>,
  <<With("setname", <<W("x"), W("y")>>), Do("getname"), With("setname", <<SP>>), Do("setname"), Do("getname")>>,
  <<Line(<<W("set"), SP, DQ, W("a"), SP, BS, DQ, DQ, CR, LF>>, <<<<W("set")>>, <<W("a"), SP, DQ>>>>), Line(<<SP, CR, LF>>, <<>>),
    Line(<<W("get"), SP, SQ, SQ, CR, LF>>, <<<<W("get")>>>>), Bad(<<W("get"), DQ, CR, LF>>), Do("get")>>,
  <<Do("blpop"), Do("pause"), Do("blpop"), Do("nosuch")>>,
  <<Line(<<<<"*", 0>>, CR, LF>>, <<>>), Do("killother"), Do("kill"), Do("get")>>,
  <<Do("get"), Do("quit"), Do("get")>>,
  <<Line(<<W("get"), LF>>, <<<<W("get")>>>>), Line(<<W("append"), SP, W("get"), CR, LF>>, <<<<W("append")>>, <<W("get")>>>>), Do("get")>>,
  <<With("set", <<W("a"), W("b")>>), Do("keys"), Do("subscribe")>>,
  <<Bad(<<<<"*", 9>>, CR, LF>>)>>, <<Bad(<<<<"*", 1>>, CR, LF, W("x"), CR, LF>>)>>, <<Bad(<<<<"*", 1>>, CR, LF, <<"$", -1>>, CR, LF>>)>>,
  <<Bad(<<<<"*", 1>>, CR, LF, <<"$", -9>>, CR, LF>>)>>,
  <<Bad([i \in 1..13 |-> W("z")])>>, <<Bad([i \in 1..13 |-> IF i = 1 THEN <<"*", 1>> ELSE W("z")])>>,
  <<Bad(<<<<"*", 1>>, CR, LF>> \o [i \in 1..13 |-> W("z")])>> }

Connections == INSTANCE Connection WITH
  Scripts <- MCRequests, BufSize <- 3, ChunkBytes <- 4, EmbLimit <- 1, BigArg <- 3, InlineMax <- 12,
  MaxMultibulk <- 4, MaxBulk <- 4, SharedBulks <- 3, MaxQuery <- 34, HardLimit <- 20, SoftLimit <- 12,
  ItemSize <- 1, MaxWrite <- 2, MaxRead <- 2, MaxRoom <- 3, MaxPushes <- 1, MaxPauses <- 1

ServerInit ==
  /\ Init
  /\ Connections!ConnInit
  /\ family # "connection" => script = <<Do("quit")>>
\* Behaviours end with a SORT that stores elements it could not order: from then
\* on the copies are on their own (CopiesFollow) and nothing bounds their values.
ServerNext ==
  \/ family # "connection" /\ (unsaid.tied => ~Quiet) /\ Next /\ UNCHANGED connectionVars
  \/ family = "connection" /\ Connections!ConnNext /\ UNCHANGED vars
ServerSpec == ServerInit /\ [][ServerNext]_<<vars, connectionVars>>

\* The peer of a connection gets the answers of its commands, in order and whole,
\* and no object that others read is changed on the way (addReply,
\* dupLastObjectIfNeeded, sendReplyToClient).
AnswersInOrder == family = "connection" => Connections!AnswersInOrder

\* Requests are executed as they were sent, and none is left behind in the query
\* buffer by a block or a pause (processInputBuffer, clientsArePaused), with the
\* two exceptions Connection names.
RequestsServed == family = "connection" => Connections!RequestsServed
=============================================================================
