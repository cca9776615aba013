----------------------------- MODULE ChatServer -----------------------------
(***************************************************************************)
(* The chat server, ChatSocket/server.js: a Node process that holds one    *)
(* socket.io socket and one Redis connection per user and forwards what is *)
(* published on a channel to the room of the same name.                    *)
(*                                                                         *)
(* A handler runs to its end before the next one starts.  A command to     *)
(* Redis is only sent by it: it takes effect when Redis reads it, in the   *)
(* order sent, and messages come back in the order Redis wrote them.       *)
(***************************************************************************)
EXTENDS PubSub

CONSTANTS
    Sockets,        \* sockets; each has a Redis connection of its own
    Names,          \* group ids and user ids, which the code does not tell apart
    MaxHandlers,    \* bound: message handlers one connection registers
    MaxPublish      \* bound: messages published

VARIABLES
    alive,      \* the Node process runs
    conn,       \* state of each socket
    rooms,      \* socket.io rooms each socket is in
    handlers,   \* "message" handlers on each Redis connection, in order
    logins,     \* arguments of the socket's "logged" events, in order
    toRedis,    \* commands sent on each Redis connection and not yet read
    fromRedis,  \* messages on each Redis connection not yet handled
    published,  \* history: what was published, in order
    copies,     \* history: copies[t, s, m] of message m sent to socket t by
                \* the handlers of connection s
    owed        \* history: <<t, m>> where t was in the room and its own
                \* connection subscribed when message m was published

nodeVars == <<alive, conn, rooms, handlers, logins>>
wireVars == <<toRedis, fromRedis>>
histVars == <<published, copies, owed>>
vars == <<pubsubVars, nodeVars, wireVars, histVars>>

ASSUME ChatAssumption ==
    /\ MaxHandlers \in Nat
    /\ MaxPublish \in Nat
    /\ Clients = Sockets
    /\ Channels = {"group_", "users_"} \X Names

Group(x) == <<"group_", x>>
User(x)  == <<"users_", x>>

HandlerKinds == {"join", "join_group", "logged"}
Commands == ({"subscribe", "unsubscribe"} \X Channels) \cup {<<"quit">>}
Messages == [chan : Channels, json : BOOLEAN]
Ids == 1..MaxPublish

TypeOK ==
    /\ PubSubType
    /\ alive \in BOOLEAN
    /\ conn \in [Sockets -> {"none", "open", "closed"}]
    /\ rooms \in [Sockets -> SUBSET (Channels \cup {<<"groupme">>})]
    /\ handlers \in [Sockets -> Seq(HandlerKinds)]
    /\ logins \in [Sockets -> Seq(Names)]
    /\ toRedis \in [Sockets -> Seq(Commands)]
    /\ fromRedis \in [Sockets -> Seq(Ids)]
    /\ published \in Seq(Messages)
    /\ copies \in [Sockets \X Sockets \X Ids -> Nat]
    /\ owed \subseteq Sockets \X Ids

Init ==
    /\ PubSubInit
    /\ alive = TRUE
    /\ conn = [s \in Sockets |-> "none"]
    /\ rooms = [s \in Sockets |-> {}]
    /\ handlers = [s \in Sockets |-> <<>>]
    /\ logins = [s \in Sockets |-> <<>>]
    /\ toRedis = [s \in Sockets |-> <<>>]
    /\ fromRedis = [s \in Sockets |-> <<>>]
    /\ published = <<>>
    /\ copies = [c \in Sockets \X Sockets \X Ids |-> 0]
    /\ owed = {}

Open(s) == alive /\ conn[s] = "open"

(***************************************************************************)
(* Handlers of socket events.                                              *)
(***************************************************************************)

Connect(s) ==
    /\ alive
    /\ conn[s] = "none"
    /\ conn' = [conn EXCEPT ![s] = "open"]
    /\ UNCHANGED <<pubsubVars, alive, rooms, handlers, logins, wireVars, histVars>>

\* "groupme": the room only; what it emits is a fixed text.
Groupme(s) ==
    /\ Open(s)
    /\ rooms' = [rooms EXCEPT ![s] = @ \cup {<<"groupme">>}]
    /\ UNCHANGED <<pubsubVars, alive, conn, handlers, logins, wireVars, histVars>>

\* redisUser.subscribe(channel); redisUser.on("message", ...)
Listen(s, kind, ch) ==
    /\ Open(s)
    /\ Len(handlers[s]) < MaxHandlers
    /\ toRedis' = [toRedis EXCEPT ![s] = Append(@, <<"subscribe", ch>>)]
    /\ handlers' = [handlers EXCEPT ![s] = Append(@, kind)]
    /\ UNCHANGED <<pubsubVars, alive, conn, fromRedis, histVars>>

Join(s, x) ==
    /\ Listen(s, "join", Group(x))
    /\ rooms' = [rooms EXCEPT ![s] = @ \cup {Group(x)}]
    /\ UNCHANGED logins

\* "join_group" subscribes and does not enter the room.
JoinGroup(s, x) ==
    /\ Listen(s, "join_group", Group(x))
    /\ UNCHANGED <<rooms, logins>>

Logged(s, x) ==
    /\ Listen(s, "logged", User(x))
    /\ rooms' = [rooms EXCEPT ![s] = @ \cup {User(x)}]
    /\ logins' = [logins EXCEPT ![s] = Append(@, x)]

\* A faulty form, for a mutant: only the nested handlers of "logged" clean up.
QuitNested(s) ==
    [i \in 1..(2 * Len(logins[s])) |->
        IF i % 2 = 0 THEN <<"quit">> ELSE <<"unsubscribe", Group(logins[s][(i + 1) \div 2])>>]

\* What the "disconnect" handlers send: the outer one quits; each "logged" has
\* added one that unsubscribes "group_" + msg, not "users_" + msg, and quits.
QuitCommands(s) ==
    [i \in 1..(2 * Len(logins[s]) + 1) |->
        IF i % 2 = 1 THEN <<"quit">> ELSE <<"unsubscribe", Group(logins[s][i \div 2])>>]

\* socket.io takes the socket out of its rooms, then runs the handlers.
Disconnect(s) ==
    /\ Open(s)
    /\ conn' = [conn EXCEPT ![s] = "closed"]
    /\ rooms' = [rooms EXCEPT ![s] = {}]
    /\ toRedis' = [toRedis EXCEPT ![s] = @ \o QuitCommands(s)]
    /\ UNCHANGED <<pubsubVars, alive, handlers, logins, fromRedis, histVars>>

\* An exception in a handler is not caught: the process ends, and every
\* connection with it; Redis notices in its own time.
ProcessEnds ==
    /\ alive' = FALSE
    /\ conn' = [s \in Sockets |-> "closed"]
    /\ rooms' = [s \in Sockets |-> {}]
    /\ toRedis' = [s \in Sockets |->
                      IF conn[s] = "open" THEN Append(toRedis[s], <<"quit">>)
                                          ELSE toRedis[s]]
    /\ fromRedis' = [s \in Sockets |-> <<>>]
    /\ UNCHANGED <<handlers, logins>>

\* "groupme" or "join" with a text that is not JSON.
BadPayload(s) ==
    /\ Open(s)
    /\ ProcessEnds
    /\ UNCHANGED <<pubsubVars, histVars>>

(***************************************************************************)
(* Redis reads the next command of a connection.                           *)
(***************************************************************************)
RedisReads(s) ==
    /\ toRedis[s] # <<>>
    /\ LET cmd == Head(toRedis[s])
       IN  /\ CASE cmd[1] = "subscribe"   -> pubsubSubscribeChannel(s, cmd[2])
                [] cmd[1] = "unsubscribe" -> pubsubUnsubscribeChannel(s, cmd[2])
                [] cmd[1] = "quit"        -> pubsubUnsubscribeAllChannels(s)
           \* nothing is read after a quit
           /\ toRedis' = [toRedis EXCEPT ![s] = IF cmd[1] = "quit" THEN <<>> ELSE Tail(@)]
    /\ UNCHANGED <<nodeVars, fromRedis, histVars>>

\* The backend publishes a message, JSON or not.
Publish(ch, json) ==
    /\ Len(published) < MaxPublish
    /\ LET m == Len(published) + 1
       IN  /\ published' = Append(published, [chan |-> ch, json |-> json])
           /\ fromRedis' = [s \in Sockets |->
                  IF conn[s] = "none" \/ ~alive THEN fromRedis[s]
                  ELSE fromRedis[s] \o [i \in 1..Receipts(ch, s) |-> m]]
           /\ owed' = owed \cup {<<t, m>> : t \in {s \in Sockets :
                  Open(s) /\ ch \in rooms[s] /\ ch \in client_channels[s]}}
    /\ UNCHANGED <<pubsubVars, nodeVars, toRedis, copies>>

(***************************************************************************)
(* A message reaches the Node process: every handler of the connection     *)
(* forwards it to the room of its channel, so each member of the room gets *)
(* one copy per handler of every subscribed connection.                    *)
(***************************************************************************)
\* Handlers that call JSON.parse on the message; the one of "join" does not.
Parses(kind) == kind \in {"join_group", "logged"}

\* A faulty form, for a mutant: socket.broadcast.to(channel), as in the line
\* that is commented out, which skips the socket itself.
ReachesOthers(s, t, ch) == ch \in rooms[t] /\ t # s

\* io.sockets.in(channel).emit: who gets what a handler of connection s emits.
Reaches(s, t, ch) == ch \in rooms[t]

Deliver(s) ==
    /\ alive
    /\ fromRedis[s] # <<>>
    /\ LET m == Head(fromRedis[s])
           msg == published[m]
           throwing == {i \in DOMAIN handlers[s] : Parses(handlers[s][i]) /\ ~msg.json}
           emits == Cardinality({i \in DOMAIN handlers[s] : throwing \cap 1..i = {}})
       IN  /\ copies' = [c \in DOMAIN copies |->
                  IF c[2] = s /\ c[3] = m /\ Reaches(s, c[1], msg.chan)
                  THEN copies[c] + emits ELSE copies[c]]
           /\ \/ /\ throwing = {}
                 /\ fromRedis' = [fromRedis EXCEPT ![s] = Tail(@)]
                 /\ UNCHANGED <<nodeVars, toRedis>>
              \/ /\ throwing # {}
                 /\ ProcessEnds
    /\ UNCHANGED <<pubsubVars, published, owed>>

Next ==
    \/ \E s \in Sockets : Connect(s) \/ Groupme(s) \/ Disconnect(s) \/ BadPayload(s)
    \/ \E s \in Sockets, x \in Names : Join(s, x) \/ JoinGroup(s, x) \/ Logged(s, x)
    \/ \E s \in Sockets : RedisReads(s)
    \/ \E s \in Sockets : Deliver(s)
    \/ \E ch \in Channels, json \in BOOLEAN : Publish(ch, json)

Spec == Init /\ [][Next]_vars

\* Both event loops go on serving what has reached them.
FairSpec ==
    /\ Spec
    /\ \A s \in Sockets : WF_vars(RedisReads(s)) /\ WF_vars(Deliver(s))

(***************************************************************************)
(* Properties                                                              *)
(***************************************************************************)

\* A message that a member's own subscription caught is not lost on the way: it
\* has been forwarded to the member, or is still on its connection, unless the
\* socket or the process has gone.
NothingLost ==
    \A o \in owed :
        LET t == o[1]
            m == o[2]
        IN  Open(t) => \/ copies[<<t, t, m>>] > 0
                       \/ Contains(fromRedis[t], m) /\ handlers[t] # <<>>

\* A socket that has gone leaves no subscription behind in Redis: the quit of
\* the "disconnect" handler, or the end of the process, takes it away.
NoLeak ==
    \A s \in Sockets : conn[s] = "closed" ~> client_channels[s] = {}

\* A message that a member's own subscription caught is forwarded to it in the
\* end, unless the socket closes or the process ends first.
EventuallyForwarded ==
    \A t \in Sockets, m \in Ids :
        <<t, m>> \in owed ~> (copies[<<t, t, m>>] > 0 \/ ~Open(t))
=============================================================================
