-------------------------- MODULE ChatServerProofs --------------------------
(***************************************************************************)
(* No message that a member's own subscription caught is lost, for any     *)
(* number of sockets, rooms, handlers and messages.                        *)
(*                                                                         *)
(* The argument follows a message through three queues: a subscription     *)
(* exists in Redis only after its handler does in Node, so there is one to *)
(* forward the message; the channel's list has whoever its own table says, *)
(* so the message is written to it; and a room is left only by closing the *)
(* socket, so the handler's emit still finds the member in it.             *)
(***************************************************************************)
EXTENDS ChatServer, SequenceTheorems, FiniteSetTheorems, WellFoundedInduction, TLAPS

Occurs(x, seq) == \E i \in 1..Len(seq) : seq[i] = x

\* Nothing has been asked of Redis for a socket that has not connected yet.
FreshInv ==
    \A s \in Sockets : conn[s] = "none" => toRedis[s] = <<>> /\ client_channels[s] = {}

\* Whoever is, or will be, subscribed has a handler.
HandlerInv ==
    \A s \in Sockets : Open(s) /\ (toRedis[s] # <<>> \/ client_channels[s] # {})
                       => handlers[s] # <<>>

\* The lists of the server have what the tables of its clients have
\* (pubsub.c:107 asserts it).
ListInv == \A s \in Sockets : \A ch \in client_channels[s] : Occurs(s, server_channels[ch])

\* Messages under way have been published.
WireInv ==
    /\ Len(published) <= MaxPublish
    /\ \A s \in Sockets : \A i \in 1..Len(fromRedis[s]) : fromRedis[s][i] \in 1..Len(published)

\* Who is owed a message is in its room as long as its socket is open.
RoomInv ==
    \A o \in owed : /\ o[2] \in 1..Len(published)
                    /\ conn[o[1]] # "none"
                    /\ Open(o[1]) => published[o[2]].chan \in rooms[o[1]]

IInv == TypeOK /\ FreshInv /\ HandlerInv /\ ListInv /\ WireInv /\ RoomInv /\ NothingLost

-----------------------------------------------------------------------------
(* Lists of clients. *)

LEMMA SmallestIndex ==
    ASSUME NEW I \in SUBSET Nat, I # {}
    PROVE  Min(I) \in I
<1>1. PICK x \in I : \A y \in I : ~(<<y, x>> \in OpToRel(<, Nat))
  BY NatLessThanWellFounded, WFMin
<1>2. \A y \in I : ~(y < x) BY <1>1 DEF OpToRel
<1>3. \A y \in I : x <= y BY <1>2
<1> QED BY <1>3 DEF Min

\* listDelNode takes one client from the list and leaves the others in it.
LEMMA RemoveFirstKeeps ==
    ASSUME NEW S, NEW seq \in Seq(S), NEW e
    PROVE  /\ RemoveFirst(seq, e) \in Seq(S)
           /\ \A x \in S : x # e /\ Occurs(x, seq) => Occurs(x, RemoveFirst(seq, e))
<1>1. CASE ~ \E i \in 1..Len(seq) : seq[i] = e BY <1>1 DEF RemoveFirst
<1>2. CASE \E i \in 1..Len(seq) : seq[i] = e
  <2> DEFINE I == {i \in 1..Len(seq) : seq[i] = e}
             k == Min(I)
  <2>1. k \in I BY <1>2, SmallestIndex
  <2>2. RemoveFirst(seq, e) = RemoveAt(seq, k)
    BY <1>2 DEF RemoveFirst, SelectInSeq
  <2> HIDE DEF k
  <2>3. k \in 1..Len(seq) /\ seq[k] = e BY <2>1
  <2>4. PICK a : a = SubSeq(seq, 1, k - 1) OBVIOUS
  <2>5. PICK b : b = SubSeq(seq, k + 1, Len(seq)) OBVIOUS
  <2>6. /\ a \in Seq(S) /\ Len(a) = k - 1 /\ \A i \in 1..(k - 1) : a[i] = seq[i]
    BY <2>3, <2>4
  <2>7. /\ b \in Seq(S) /\ Len(b) = Len(seq) - k /\ \A i \in 1..(Len(seq) - k) : b[i] = seq[k + i]
    BY <2>3, <2>5
  <2>8. PICK c : c = a \o b OBVIOUS
  <2>9. /\ c \in Seq(S) /\ Len(c) = Len(seq) - 1
        /\ \A i \in 1..(k - 1) : c[i] = seq[i]
        /\ \A i \in k..(Len(seq) - 1) : c[i] = seq[i + 1]
    <3>1. /\ c \in Seq(S) /\ Len(c) = Len(a) + Len(b)
          /\ \A i \in 1..(Len(a) + Len(b)) : c[i] = IF i <= Len(a) THEN a[i] ELSE b[i - Len(a)]
      BY <2>6, <2>7, <2>8, ConcatProperties
    <3>2. ASSUME NEW i \in k..(Len(seq) - 1) PROVE c[i] = seq[i + 1]
      <4>1. /\ i \in 1..(Len(a) + Len(b)) /\ ~(i <= Len(a)) /\ i - Len(a) = i - k + 1
            /\ i - k + 1 \in 1..(Len(seq) - k) /\ k + (i - k + 1) = i + 1
        BY <2>3, <2>6, <2>7
      <4> QED BY <4>1, <3>1, <2>7
    <3> QED BY <3>1, <3>2, <2>3, <2>6, <2>7
  <2>10. RemoveFirst(seq, e) = c BY <2>2, <2>4, <2>5, <2>8 DEF RemoveAt
  <2>11. ASSUME NEW x \in S, x # e, Occurs(x, seq) PROVE Occurs(x, c)
    <3>1. PICK i \in 1..Len(seq) : seq[i] = x BY <2>11 DEF Occurs
    <3>2. i # k BY <3>1, <2>3, <2>11
    <3>3. CASE i < k
      <4>1. i \in 1..(k - 1) /\ i \in 1..Len(c) BY <3>3, <2>3, <2>9
      <4> QED BY <4>1, <3>1, <2>9 DEF Occurs
    <3>4. CASE i > k
      <4>1. i - 1 \in k..(Len(seq) - 1) /\ i - 1 \in 1..Len(c) /\ (i - 1) + 1 = i
        BY <3>4, <3>1, <2>3, <2>9
      <4>2. c[i - 1] = seq[i] BY <4>1, <2>9
      <4> QED BY <4>1, <4>2, <3>1 DEF Occurs
    <3> QED BY <3>2, <3>3, <3>4, <2>3
  <2> QED BY <2>9, <2>10, <2>11
<1> QED BY <1>1, <1>2

\* A new client at the end of a list does not hide the others.
LEMMA AppendKeeps ==
    ASSUME NEW S, NEW seq \in Seq(S), NEW e \in S
    PROVE  /\ Append(seq, e) \in Seq(S)
           /\ Occurs(e, Append(seq, e))
           /\ \A x : Occurs(x, seq) => Occurs(x, Append(seq, e))
<1>1. PICK t : t = Append(seq, e) OBVIOUS
<1>2. /\ t \in Seq(S) /\ Len(t) = Len(seq) + 1 /\ t[Len(seq) + 1] = e
      /\ \A i \in 1..Len(seq) : t[i] = seq[i]
  BY <1>1
<1> QED BY <1>1, <1>2 DEF Occurs

-----------------------------------------------------------------------------
(* Steps of Redis. *)

\* What the next command of a connection can be.
LEMMA CommandKinds ==
    ASSUME TypeOK, NEW s \in Sockets, toRedis[s] # <<>>
    PROVE  /\ Head(toRedis[s]) \in Commands /\ Tail(toRedis[s]) \in Seq(Commands)
           /\ \/ Head(toRedis[s])[1] = "quit"
              \/ /\ Head(toRedis[s])[1] \in {"subscribe", "unsubscribe"}
                 /\ Head(toRedis[s])[2] \in Channels
<1>1. toRedis[s] \in Seq(Commands) BY DEF TypeOK
<1>2. PICK cmd : cmd = Head(toRedis[s]) OBVIOUS
<1>3. cmd \in Commands /\ Tail(toRedis[s]) \in Seq(Commands) BY <1>1, <1>2, HeadTailProperties
<1>4. cmd[1] = "quit" \/ (cmd[1] \in {"subscribe", "unsubscribe"} /\ cmd[2] \in Channels)
  BY <1>3 DEF Commands
<1> QED BY <1>2, <1>3, <1>4

\* The tables of Redis after a command: typed, and a client is in the list of
\* every channel its own table has.
LEMMA TablesStep ==
    ASSUME TypeOK, ListInv, NEW s \in Sockets, RedisReads(s)
    PROVE  PubSubType' /\ ListInv' /\ \A t \in Sockets : t # s => client_channels'[t] = client_channels[t]
<1>1. PubSubType BY DEF TypeOK
<1>2. PICK cmd : cmd = Head(toRedis[s]) OBVIOUS
<1>3. cmd[1] = "quit" \/ (cmd[1] \in {"subscribe", "unsubscribe"} /\ cmd[2] \in Channels)
  BY <1>2, CommandKinds DEF RedisReads
<1> USE ChatAssumption DEF PubSubType, ListInv
<1>4. CASE cmd[1] = "subscribe"
  <2>1. pubsubSubscribeChannel(s, cmd[2]) BY <1>2, <1>4 DEF RedisReads
  <2>2. CASE cmd[2] \in client_channels[s]
    BY <2>1, <2>2, <1>1 DEF pubsubSubscribeChannel, pubsubVars
  <2>3. CASE cmd[2] \notin client_channels[s]
    <3>1. /\ client_channels' = [client_channels EXCEPT ![s] = @ \cup {cmd[2]}]
          /\ server_channels' = [server_channels EXCEPT ![cmd[2]] = Append(@, s)]
      BY <2>1, <2>3 DEF pubsubSubscribeChannel
    <3>2. cmd[2] \in Channels BY <1>3, <1>4
    <3>3. /\ Append(server_channels[cmd[2]], s) \in Seq(Clients)
          /\ Occurs(s, Append(server_channels[cmd[2]], s))
          /\ \A x : Occurs(x, server_channels[cmd[2]]) => Occurs(x, Append(server_channels[cmd[2]], s))
      BY <3>2, <1>1, AppendKeeps
    <3> QED BY <3>1, <3>2, <3>3, <1>1
  <2> QED BY <2>2, <2>3
<1>5. CASE cmd[1] = "unsubscribe"
  <2>1. pubsubUnsubscribeChannel(s, cmd[2]) BY <1>2, <1>5 DEF RedisReads
  <2>2. CASE cmd[2] \notin client_channels[s]
    BY <2>1, <2>2, <1>1 DEF pubsubUnsubscribeChannel, pubsubVars
  <2>3. CASE cmd[2] \in client_channels[s]
    <3>1. /\ client_channels' = [client_channels EXCEPT ![s] = @ \ {cmd[2]}]
          /\ server_channels' = [server_channels EXCEPT ![cmd[2]] = RemoveFirst(@, s)]
      BY <2>1, <2>3 DEF pubsubUnsubscribeChannel
    <3>2. cmd[2] \in Channels BY <1>3, <1>5
    <3>3. /\ RemoveFirst(server_channels[cmd[2]], s) \in Seq(Clients)
          /\ \A x \in Clients : x # s /\ Occurs(x, server_channels[cmd[2]])
                => Occurs(x, RemoveFirst(server_channels[cmd[2]], s))
      BY <3>2, <1>1, RemoveFirstKeeps
    <3> QED BY <3>1, <3>2, <3>3, <1>1
  <2> QED BY <2>2, <2>3
<1>6. CASE cmd[1] = "quit"
  <2>1. pubsubUnsubscribeAllChannels(s) BY <1>2, <1>6 DEF RedisReads
  <2>2. \A ch \in Channels :
          /\ RemoveFirst(server_channels[ch], s) \in Seq(Clients)
          /\ \A x \in Clients : x # s /\ Occurs(x, server_channels[ch])
                => Occurs(x, RemoveFirst(server_channels[ch], s))
    BY <1>1, RemoveFirstKeeps
  <2> QED BY <2>1, <2>2, <1>1 DEF pubsubUnsubscribeAllChannels
<1> QED BY <1>3, <1>4, <1>5, <1>6

-----------------------------------------------------------------------------
(* Types. *)

\* The handlers that run before one throws are a number.
LEMMA PartCount ==
    ASSUME NEW seq, NEW S, seq \in Seq(S), NEW T \in SUBSET DOMAIN seq
    PROVE  IsFiniteSet(T) /\ Cardinality(T) \in Nat /\ (T # {} => Cardinality(T) > 0)
<1>1. DOMAIN seq = 1..Len(seq) /\ Len(seq) \in Nat BY LenProperties
<1>2. IsFiniteSet(1..Len(seq)) BY <1>1, FS_Interval
<1>3. IsFiniteSet(T) BY <1>1, <1>2, FS_Subset
<1> QED BY <1>3, FS_CardinalityType, FS_EmptySet

LEMMA QuitType ==
    ASSUME TypeOK, NEW s \in Sockets
    PROVE  QuitCommands(s) \in Seq(Commands)
<1> USE ChatAssumption
<1>1. logins[s] \in Seq(Names) BY DEF TypeOK
<1>2. PICK n : n = Len(logins[s]) OBVIOUS
<1>3. n \in Nat /\ \A j \in 1..n : logins[s][j] \in Names BY <1>1, <1>2
<1>4. \A i \in 1..(2 * n + 1) : i % 2 # 1 => i \div 2 \in 1..n BY <1>3
<1>5. \A i \in 1..(2 * n + 1) :
        (IF i % 2 = 1 THEN <<"quit">> ELSE <<"unsubscribe", Group(logins[s][i \div 2])>>) \in Commands
  BY <1>3, <1>4 DEF Commands, Group
<1> QED BY <1>2, <1>3, <1>5 DEF QuitCommands

LEMMA EndsType ==
    ASSUME TypeOK, ProcessEnds
    PROVE  /\ alive' \in BOOLEAN
           /\ conn' \in [Sockets -> {"none", "open", "closed"}]
           /\ rooms' \in [Sockets -> SUBSET (Channels \cup {<<"groupme">>})]
           /\ handlers' \in [Sockets -> Seq(HandlerKinds)]
           /\ logins' \in [Sockets -> Seq(Names)]
           /\ toRedis' \in [Sockets -> Seq(Commands)]
           /\ fromRedis' \in [Sockets -> Seq(Ids)]
<1>1. <<"quit">> \in Commands BY DEF Commands
<1>2. \A s \in Sockets : Append(toRedis[s], <<"quit">>) \in Seq(Commands)
  BY <1>1, AppendProperties DEF TypeOK
<1>3. toRedis' \in [Sockets -> Seq(Commands)] BY <1>2 DEF TypeOK, ProcessEnds
<1>4. fromRedis' \in [Sockets -> Seq(Ids)]
  <2>1. <<>> \in Seq(Ids) BY EmptySeq
  <2> QED BY <2>1 DEF ProcessEnds
<1>5. alive' = FALSE /\ handlers' = handlers /\ logins' = logins BY DEF ProcessEnds
<1>6. /\ conn' \in [Sockets -> {"none", "open", "closed"}]
      /\ rooms' \in [Sockets -> SUBSET (Channels \cup {<<"groupme">>})]
  BY DEF ProcessEnds
<1> QED BY <1>3, <1>4, <1>5, <1>6 DEF TypeOK

LEMMA TypeStep ==
    ASSUME TypeOK, ListInv, [Next]_vars
    PROVE  TypeOK'
<1> USE ChatAssumption
<1>1. CASE UNCHANGED vars
  BY <1>1 DEF TypeOK, PubSubType, vars, pubsubVars, nodeVars, wireVars, histVars
<1>2. ASSUME NEW s \in Sockets, Connect(s) \/ Groupme(s) PROVE TypeOK'
  <2>1. CASE Connect(s)
    BY <2>1 DEF TypeOK, PubSubType, Connect, pubsubVars, wireVars, histVars
  <2>2. CASE Groupme(s)
    <3>1. rooms' \in [Sockets -> SUBSET (Channels \cup {<<"groupme">>})]
      BY <2>2 DEF TypeOK, Groupme
    <3> QED BY <3>1, <2>2 DEF TypeOK, PubSubType, Groupme, pubsubVars, wireVars, histVars
  <2> QED BY <1>2, <2>1, <2>2
<1>3. ASSUME NEW s \in Sockets, Disconnect(s) PROVE TypeOK'
  <2>1. toRedis[s] \o QuitCommands(s) \in Seq(Commands)
    BY QuitType, ConcatProperties DEF TypeOK
  <2> QED BY <2>1, <1>3 DEF TypeOK, PubSubType, Disconnect, pubsubVars, histVars
<1>4. ASSUME NEW s \in Sockets, BadPayload(s) PROVE TypeOK'
  <2>1. ProcessEnds /\ UNCHANGED <<pubsubVars, histVars>> BY <1>4 DEF BadPayload
  <2>2. /\ PubSubType' /\ published' \in Seq(Messages)
        /\ copies' \in [Sockets \X Sockets \X Ids -> Nat] /\ owed' \subseteq Sockets \X Ids
    BY <2>1 DEF TypeOK, PubSubType, pubsubVars, histVars
  <2> QED BY <2>1, <2>2, EndsType DEF TypeOK
<1>5. ASSUME NEW s \in Sockets, NEW kind \in HandlerKinds, NEW ch \in Channels, Listen(s, kind, ch)
      PROVE  /\ PubSubType' /\ alive' \in BOOLEAN
             /\ conn' \in [Sockets -> {"none", "open", "closed"}]
             /\ handlers' \in [Sockets -> Seq(HandlerKinds)]
             /\ toRedis' \in [Sockets -> Seq(Commands)]
             /\ fromRedis' \in [Sockets -> Seq(Ids)]
             /\ published' \in Seq(Messages)
             /\ copies' \in [Sockets \X Sockets \X Ids -> Nat]
             /\ owed' \subseteq Sockets \X Ids
  <2>1. <<"subscribe", ch>> \in Commands BY DEF Commands
  <2>2. Append(toRedis[s], <<"subscribe", ch>>) \in Seq(Commands)
    BY <2>1, AppendProperties DEF TypeOK
  <2>3. Append(handlers[s], kind) \in Seq(HandlerKinds) BY AppendProperties DEF TypeOK
  <2>4. toRedis' \in [Sockets -> Seq(Commands)] /\ handlers' \in [Sockets -> Seq(HandlerKinds)]
    BY <2>2, <2>3, <1>5 DEF TypeOK, Listen
  <2> QED BY <2>4, <1>5 DEF TypeOK, PubSubType, Listen, pubsubVars, histVars
<1>6. ASSUME NEW s \in Sockets, NEW x \in Names, Join(s, x) PROVE TypeOK'
  <2>1. Group(x) \in Channels BY DEF Group
  <2>2. rooms' \in [Sockets -> SUBSET (Channels \cup {<<"groupme">>})] /\ logins' = logins
    BY <2>1, <1>6 DEF TypeOK, Join
  <2> QED BY <2>1, <2>2, <1>5, <1>6 DEF TypeOK, Join, HandlerKinds
<1>7. ASSUME NEW s \in Sockets, NEW x \in Names, JoinGroup(s, x) PROVE TypeOK'
  <2>1. Group(x) \in Channels BY DEF Group
  <2>2. Listen(s, "join_group", Group(x)) /\ rooms' = rooms /\ logins' = logins
    BY <1>7 DEF JoinGroup
  <2>3. "join_group" \in HandlerKinds BY DEF HandlerKinds
  <2> QED BY <2>1, <2>2, <2>3, <1>5 DEF TypeOK
<1>8. ASSUME NEW s \in Sockets, NEW x \in Names, Logged(s, x) PROVE TypeOK'
  <2>1. User(x) \in Channels BY DEF User
  <2>2. Append(logins[s], x) \in Seq(Names) BY AppendProperties DEF TypeOK
  <2>3. /\ rooms' \in [Sockets -> SUBSET (Channels \cup {<<"groupme">>})]
        /\ logins' \in [Sockets -> Seq(Names)]
    BY <2>1, <2>2, <1>8 DEF TypeOK, Logged
  <2> QED BY <2>1, <2>3, <1>5, <1>8 DEF TypeOK, Logged, HandlerKinds
<1>9. ASSUME NEW s \in Sockets, RedisReads(s) PROVE TypeOK'
  <2>1. PubSubType' BY <1>9, TablesStep
  <2>2. Tail(toRedis[s]) \in Seq(Commands) BY <1>9, CommandKinds DEF RedisReads
  <2>3. <<>> \in Seq(Commands) BY EmptySeq
  <2>4. toRedis' \in [Sockets -> Seq(Commands)]
    BY <2>2, <2>3, <1>9 DEF TypeOK, RedisReads
  <2> QED BY <2>1, <2>4, <1>9 DEF TypeOK, RedisReads, nodeVars, histVars
<1>10. ASSUME NEW s \in Sockets, Deliver(s) PROVE TypeOK'
  <2> DEFINE m == Head(fromRedis[s])
             throwing == {i \in DOMAIN handlers[s] : Parses(handlers[s][i]) /\ ~published[m].json}
             emits == Cardinality({i \in DOMAIN handlers[s] : throwing \cap 1..i = {}})
  <2>1. emits \in Nat BY PartCount DEF TypeOK
  <2>2. PICK e \in Nat : copies' = [c \in DOMAIN copies |->
                  IF c[2] = s /\ c[3] = m /\ Reaches(s, c[1], published[m].chan)
                  THEN copies[c] + e ELSE copies[c]]
    BY <2>1, <1>10 DEF Deliver
  <2> HIDE DEF emits, throwing, m
  <2>3. copies' \in [Sockets \X Sockets \X Ids -> Nat] BY <2>2 DEF TypeOK
  <2>4. UNCHANGED <<pubsubVars, published, owed>> BY <1>10 DEF Deliver
  <2>5. CASE ProcessEnds BY <2>3, <2>4, <2>5, EndsType DEF TypeOK, PubSubType, pubsubVars
  <2>6. CASE fromRedis' = [fromRedis EXCEPT ![s] = Tail(@)] /\ UNCHANGED <<nodeVars, toRedis>>
    <3>1. fromRedis[s] # <<>> BY <1>10 DEF Deliver
    <3>2. Tail(fromRedis[s]) \in Seq(Ids) BY <3>1, HeadTailProperties DEF TypeOK
    <3> QED BY <2>3, <2>4, <2>6, <3>2 DEF TypeOK, PubSubType, pubsubVars, nodeVars
  <2> QED BY <2>5, <2>6, <1>10 DEF Deliver
<1>11. ASSUME NEW ch \in Channels, NEW json \in BOOLEAN, Publish(ch, json) PROVE TypeOK'
  <2> DEFINE m == Len(published) + 1
  <2>1. published' = Append(published, [chan |-> ch, json |-> json]) BY <1>11 DEF Publish
  <2>2. m \in Ids
    <3>1. Len(published) \in Nat /\ Len(published) < MaxPublish BY <1>11 DEF TypeOK, Publish
    <3> QED BY <3>1 DEF Ids
  <2>3. published' \in Seq(Messages) BY <2>1, AppendProperties DEF TypeOK, Messages
  <2>4. \A s \in Sockets : Receipts(ch, s) \in Nat BY PartCount DEF Receipts, TypeOK, PubSubType
  <2>5. \A s \in Sockets : fromRedis[s] \o [i \in 1..Receipts(ch, s) |-> m] \in Seq(Ids)
    <3>1. TAKE s \in Sockets
    <3>2. PICK r \in Nat : r = Receipts(ch, s) BY <2>4
    <3>3. [i \in 1..r |-> m] \in Seq(Ids) BY <2>2
    <3> QED BY <3>2, <3>3, ConcatProperties DEF TypeOK
  <2>6. fromRedis' \in [Sockets -> Seq(Ids)] BY <2>5, <1>11 DEF TypeOK, Publish
  <2>7. owed' \subseteq Sockets \X Ids BY <2>2, <1>11 DEF TypeOK, Publish
  <2> QED BY <2>3, <2>6, <2>7, <1>11 DEF TypeOK, PubSubType, Publish, pubsubVars, nodeVars
<1> QED BY <1>1, <1>2, <1>3, <1>4, <1>6, <1>7, <1>8, <1>9, <1>10, <1>11 DEF Next

-----------------------------------------------------------------------------
(* The tables of Redis and the handlers of Node. *)

LEMMA ListStep ==
    ASSUME TypeOK, ListInv, [Next]_vars
    PROVE  ListInv'
<1>1. CASE UNCHANGED pubsubVars BY <1>1 DEF ListInv, pubsubVars
<1>2. CASE \E s \in Sockets : RedisReads(s) BY <1>2, TablesStep
<1> QED
  BY <1>1, <1>2 DEF Next, vars, Connect, Groupme, Disconnect, BadPayload, Join, JoinGroup, Logged,
     Listen, Deliver, Publish

LEMMA HandlerStep ==
    ASSUME TypeOK, ListInv, FreshInv, HandlerInv, [Next]_vars
    PROVE  FreshInv' /\ HandlerInv'
<1> USE DEF FreshInv, HandlerInv, Open
<1>1. CASE UNCHANGED <<conn, alive, toRedis, client_channels, handlers>> BY <1>1
<1>2. ASSUME NEW s \in Sockets, Connect(s) PROVE FreshInv' /\ HandlerInv'
  BY <1>2 DEF Connect, TypeOK, pubsubVars, wireVars
<1>3. ASSUME NEW s \in Sockets, Disconnect(s) PROVE FreshInv' /\ HandlerInv'
  BY <1>3 DEF Disconnect, TypeOK, pubsubVars
<1>4. ASSUME ProcessEnds PROVE FreshInv' /\ HandlerInv'
  BY <1>4 DEF ProcessEnds
<1>5. ASSUME NEW s \in Sockets, NEW kind \in HandlerKinds, NEW ch, Listen(s, kind, ch)
      PROVE  FreshInv' /\ HandlerInv'
  <2>1. Append(handlers[s], kind) # <<>>
    <3>1. handlers[s] \in Seq(HandlerKinds) BY DEF TypeOK
    <3>2. Len(Append(handlers[s], kind)) = Len(handlers[s]) + 1 /\ Len(handlers[s]) \in Nat
      BY <3>1, AppendProperties
    <3> QED BY <3>2
  <2>2. conn[s] = "open" /\ conn' = conn /\ alive' = alive /\ client_channels' = client_channels
    BY <1>5 DEF Listen, pubsubVars
  <2>3. handlers' = [handlers EXCEPT ![s] = Append(@, kind)] BY <1>5 DEF Listen
  <2>4. \A t \in Sockets : t # s => toRedis'[t] = toRedis[t] BY <1>5 DEF Listen, TypeOK
  <2> QED BY <2>1, <2>2, <2>3, <2>4 DEF TypeOK
<1>6. ASSUME NEW s \in Sockets, RedisReads(s) PROVE FreshInv' /\ HandlerInv'
  <2>1. \A t \in Sockets : t # s => client_channels'[t] = client_channels[t] BY <1>6, TablesStep
  <2>2. \A t \in Sockets : t # s => toRedis'[t] = toRedis[t] BY <1>6 DEF RedisReads, TypeOK
  <2>3. toRedis[s] # <<>> /\ conn' = conn /\ alive' = alive /\ handlers' = handlers
    BY <1>6 DEF RedisReads, nodeVars
  <2> QED BY <2>1, <2>2, <2>3
<1>7. ASSUME NEW s \in Sockets, NEW x \in Names, Join(s, x) \/ JoinGroup(s, x) \/ Logged(s, x)
      PROVE  FreshInv' /\ HandlerInv'
  BY <1>5, <1>7 DEF Join, JoinGroup, Logged, HandlerKinds
<1>8. ASSUME NEW s \in Sockets, Groupme(s) \/ BadPayload(s) \/ Deliver(s)
      PROVE  FreshInv' /\ HandlerInv'
  BY <1>1, <1>4, <1>8 DEF Groupme, BadPayload, Deliver, pubsubVars, nodeVars, wireVars
<1>9. ASSUME NEW ch, NEW json, Publish(ch, json) PROVE FreshInv' /\ HandlerInv'
  BY <1>1, <1>9 DEF Publish, pubsubVars, nodeVars
<1>10. CASE UNCHANGED vars
  BY <1>1, <1>10 DEF vars, pubsubVars, nodeVars, wireVars
<1> QED BY <1>2, <1>3, <1>6, <1>7, <1>8, <1>9, <1>10 DEF Next

-----------------------------------------------------------------------------
(* Messages under way. *)

\* The steps that leave messages, copies and rooms of open sockets alone.
Calm ==
    /\ UNCHANGED <<published, copies, owed, fromRedis>>
    /\ \A s \in Sockets : conn[s] # "none" =>
         /\ conn'[s] # "none"
         /\ Open(s)' => /\ Open(s)
                        /\ rooms[s] \subseteq rooms'[s]
                        /\ handlers[s] # <<>> => handlers'[s] # <<>>

LEMMA CalmStep ==
    ASSUME TypeOK, WireInv, RoomInv, NothingLost, Calm
    PROVE  WireInv' /\ RoomInv' /\ NothingLost'
<1>1. WireInv' BY DEF WireInv, Calm
<1>2. \A o \in owed : o[1] \in Sockets BY DEF TypeOK
<1>3. RoomInv' BY <1>2 DEF RoomInv, Calm
<1>4. NothingLost' BY <1>2 DEF RoomInv, NothingLost, Calm, Contains
<1> QED BY <1>1, <1>3, <1>4

\* After the end of the process nobody is open.
LEMMA EndStep ==
    ASSUME TypeOK, WireInv, RoomInv, ProcessEnds, UNCHANGED <<published, owed>>
    PROVE  WireInv' /\ RoomInv' /\ NothingLost'
<1>1. /\ alive' = FALSE
      /\ \A s \in Sockets : fromRedis'[s] = <<>> /\ conn'[s] = "closed"
  BY DEF ProcessEnds
<1>2. WireInv' BY <1>1 DEF WireInv
<1>3. RoomInv' BY <1>1 DEF RoomInv, Open, TypeOK
<1>4. NothingLost' BY <1>1 DEF NothingLost, Open
<1> QED BY <1>2, <1>3, <1>4

\* Redis writes a message to everybody in the list of its channel: whoever is
\* owed it has a handler and gets it.
LEMMA PublishStep ==
    ASSUME IInv, NEW ch \in Channels, NEW json \in BOOLEAN, Publish(ch, json)
    PROVE  WireInv' /\ RoomInv' /\ NothingLost'
<1> USE ChatAssumption
<1> DEFINE m == Len(published) + 1
           new == {<<t, m>> : t \in {s \in Sockets :
                     Open(s) /\ ch \in rooms[s] /\ ch \in client_channels[s]}}
<1>1. /\ published' = Append(published, [chan |-> ch, json |-> json])
      /\ Len(published) < MaxPublish
      /\ owed' = owed \cup new
      /\ UNCHANGED <<alive, conn, rooms, handlers, copies>>
  BY DEF Publish, nodeVars
<1>2. published \in Seq(Messages) BY DEF IInv, TypeOK
<1>3. /\ Len(published) \in Nat /\ Len(published') = m /\ published'[m].chan = ch
      /\ \A i \in 1..Len(published) : published'[i] = published[i]
  BY <1>1, <1>2, AppendProperties
<1>4. ASSUME NEW s \in Sockets
      PROVE  /\ \A i \in 1..Len(fromRedis'[s]) : fromRedis'[s][i] \in 1..m
             /\ \A x : Contains(fromRedis[s], x) => Contains(fromRedis'[s], x)
             /\ (Open(s) /\ ch \in client_channels[s]) => Contains(fromRedis'[s], m)
  <2>1. PICK old : old = fromRedis[s] OBVIOUS
  <2>2. old \in Seq(Ids) /\ \A i \in 1..Len(old) : old[i] \in 1..Len(published)
    BY <2>1 DEF IInv, TypeOK, WireInv
  <2>3. CASE conn[s] = "none" \/ ~alive
    <3>1. fromRedis'[s] = old BY <2>1, <2>3 DEF Publish
    <3> QED BY <3>1, <2>1, <2>2, <2>3, <1>3 DEF Open
  <2>4. CASE ~(conn[s] = "none" \/ ~alive)
    <3>1. Receipts(ch, s) \in Nat BY PartCount DEF Receipts, IInv, TypeOK, PubSubType
    <3>2. PICK r \in Nat : r = Receipts(ch, s) BY <3>1
    <3>3. PICK add : add = [i \in 1..r |-> m] OBVIOUS
    <3>4. PICK seq : seq = old \o add OBVIOUS
    <3>5. fromRedis'[s] = seq BY <2>1, <2>4, <3>2, <3>3, <3>4 DEF Publish
    <3>6. add \in Seq(Nat) /\ Len(add) = r /\ \A i \in 1..r : add[i] = m
      BY <3>3, <1>3
    <3>7. old \in Seq(Nat) /\ Len(old) \in Nat BY <2>2 DEF Ids
    <3>a. /\ Len(seq) = Len(old) + Len(add)
          /\ \A i \in 1..(Len(old) + Len(add)) :
               seq[i] = IF i <= Len(old) THEN old[i] ELSE add[i - Len(old)]
      BY <3>4, <3>6, <3>7, ConcatProperties
    <3>8. /\ Len(seq) = Len(old) + r
          /\ \A i \in 1..Len(old) : seq[i] = old[i]
          /\ \A i \in (Len(old) + 1)..(Len(old) + r) : seq[i] = m
      <4>1. ASSUME NEW i \in (Len(old) + 1)..(Len(old) + r) PROVE seq[i] = m
        <5>1. i \in 1..(Len(old) + Len(add)) /\ ~(i <= Len(old)) /\ i - Len(old) \in 1..r
          BY <3>6, <3>7
        <5> QED BY <5>1, <3>a, <3>6
      <4> QED BY <4>1, <3>a, <3>6, <3>7
    <3>9. ASSUME NEW i \in 1..Len(seq) PROVE seq[i] \in 1..m
      <4>1. CASE i \in 1..Len(old)
        <5>1. seq[i] \in 1..Len(published) BY <4>1, <3>8, <2>2
        <5> QED BY <5>1, <1>3
      <4>2. CASE i \notin 1..Len(old)
        <5>1. i \in (Len(old) + 1)..(Len(old) + r) BY <4>2, <3>7, <3>8
        <5> QED BY <5>1, <3>8, <1>3
      <4> QED BY <4>1, <4>2
    <3>10. \A x : Contains(old, x) => Contains(seq, x)
      BY <3>7, <3>8 DEF Contains
    <3>11. ASSUME ch \in client_channels[s] PROVE Contains(seq, m)
      <4>1. PICK i \in 1..Len(server_channels[ch]) : server_channels[ch][i] = s
        BY <3>11 DEF IInv, ListInv, Occurs
      <4>2. server_channels[ch] \in Seq(Clients) BY DEF IInv, TypeOK, PubSubType
      <4>3. i \in DOMAIN server_channels[ch] BY <4>2, <4>1, LenProperties
      <4>4. r > 0 BY <4>1, <4>2, <4>3, <3>2, PartCount DEF Receipts
      <4>5. Len(old) + 1 \in 1..Len(seq) /\ seq[Len(old) + 1] = m BY <4>4, <3>7, <3>8
      <4> QED BY <4>5 DEF Contains
    <3> QED BY <3>5, <3>9, <3>10, <3>11, <2>1
  <2> QED BY <2>3, <2>4
<1>5. WireInv' BY <1>1, <1>3, <1>4 DEF WireInv
<1>6. \A o \in owed' : o \in owed \/ (\E t \in Sockets :
         o[1] = t /\ o[2] = m /\ Open(t) /\ ch \in rooms[t] /\ ch \in client_channels[t])
  BY <1>1
<1>7. \A o \in owed : o[1] \in Sockets /\ o[2] \in 1..Len(published) BY DEF IInv, TypeOK, RoomInv
<1> HIDE DEF new
<1>8. RoomInv'
  <2>1. ASSUME NEW o \in owed'
        PROVE  /\ o[2] \in 1..Len(published')
               /\ conn'[o[1]] # "none"
               /\ Open(o[1])' => published'[o[2]].chan \in rooms'[o[1]]
    <3>1. CASE o \in owed
      BY <3>1, <1>1, <1>3, <1>7 DEF IInv, RoomInv, Open
    <3>2. CASE o \notin owed BY <3>2, <1>6, <1>1, <1>3 DEF Open
    <3> QED BY <3>1, <3>2
  <2> QED BY <2>1 DEF RoomInv
<1>9. NothingLost'
  <2>1. ASSUME NEW o \in owed', Open(o[1])'
        PROVE  \/ copies'[<<o[1], o[1], o[2]>>] > 0
               \/ Contains(fromRedis'[o[1]], o[2]) /\ handlers'[o[1]] # <<>>
    <3>0. Open(o[1]) BY <2>1, <1>1 DEF Open
    <3>1. CASE o \in owed
      <4>1. \/ copies[<<o[1], o[1], o[2]>>] > 0
            \/ Contains(fromRedis[o[1]], o[2]) /\ handlers[o[1]] # <<>>
        BY <3>0, <3>1 DEF IInv, NothingLost
      <4> QED BY <4>1, <3>1, <1>1, <1>4, <1>7
    <3>2. CASE o \notin owed
      <4>1. PICK t \in Sockets :
              o[1] = t /\ o[2] = m /\ Open(t) /\ ch \in rooms[t] /\ ch \in client_channels[t]
        BY <3>2, <1>6
      <4>2. handlers[t] # <<>> BY <4>1 DEF IInv, HandlerInv
      <4> QED BY <4>1, <4>2, <1>1, <1>4
    <3> QED BY <3>1, <3>2
  <2> QED BY <2>1 DEF NothingLost
<1> QED BY <1>5, <1>8, <1>9

\* Node takes a message from a connection.  When no handler throws, all of them
\* emit it, and a member that is owed it is in the room.
LEMMA DeliverStep ==
    ASSUME IInv, NEW s \in Sockets, Deliver(s)
    PROVE  WireInv' /\ RoomInv' /\ NothingLost'
<1> DEFINE m == Head(fromRedis[s])
           throwing == {i \in DOMAIN handlers[s] : Parses(handlers[s][i]) /\ ~published[m].json}
           emitting == {i \in DOMAIN handlers[s] : throwing \cap 1..i = {}}
<1>1. PICK e : e = Cardinality(emitting) OBVIOUS
<1>2. /\ fromRedis[s] # <<>>
      /\ UNCHANGED <<published, owed>>
      /\ copies' = [c \in DOMAIN copies |->
             IF c[2] = s /\ c[3] = m /\ Reaches(s, c[1], published[m].chan)
             THEN copies[c] + e ELSE copies[c]]
  BY <1>1 DEF Deliver
<1>3. CASE throwing # {}
  <2>1. ProcessEnds BY <1>3 DEF Deliver
  <2> QED BY <2>1, <1>2, EndStep DEF IInv
<1>4. CASE throwing = {}
  <2>1. fromRedis' = [fromRedis EXCEPT ![s] = Tail(@)] /\ UNCHANGED nodeVars BY <1>4 DEF Deliver
  <2>2. fromRedis \in [Sockets -> Seq(Ids)] BY DEF IInv, TypeOK
  <2>3. PICK old : old = fromRedis[s] OBVIOUS
  <2>4. old \in Seq(Ids) /\ old # <<>> BY <2>2, <2>3, <1>2
  <2>5. PICK rest : rest = Tail(old) OBVIOUS
  <2>6. /\ rest \in Seq(Ids) /\ Len(old) \in Nat /\ Len(rest) = Len(old) - 1
        /\ \A i \in 1..Len(rest) : rest[i] = old[i + 1]
        /\ m = old[1]
    BY <2>3, <2>4, <2>5
  <2>7. fromRedis'[s] = rest /\ \A t \in Sockets : t # s => fromRedis'[t] = fromRedis[t]
    BY <2>1, <2>2, <2>3, <2>5
  <2>8. \A x : Contains(old, x) => x = m \/ Contains(rest, x)
    <3>1. ASSUME NEW i \in 1..Len(old), i # 1 PROVE Contains(rest, old[i])
      <4>1. i - 1 \in 1..Len(rest) /\ (i - 1) + 1 = i BY <3>1, <2>6
      <4>2. rest[i - 1] = old[i] BY <4>1, <2>6
      <4> QED BY <4>1, <4>2 DEF Contains
    <3> QED BY <3>1, <2>6 DEF Contains
  <2>9. WireInv'
    <3>1. ASSUME NEW t \in Sockets, NEW i \in 1..Len(fromRedis'[t])
          PROVE  fromRedis'[t][i] \in 1..Len(published)
      <4>1. CASE t # s BY <4>1, <2>7 DEF IInv, WireInv
      <4>2. CASE t = s
        <5>1. i \in 1..Len(rest) BY <4>2, <2>7
        <5>2. rest[i] = old[i + 1] /\ i + 1 \in 1..Len(old) BY <5>1, <2>6
        <5> QED BY <5>2, <4>2, <2>3, <2>7 DEF IInv, WireInv
      <4> QED BY <4>1, <4>2
    <3> QED BY <3>1, <1>2 DEF IInv, WireInv
  <2>10. RoomInv' BY <2>1, <1>2 DEF IInv, RoomInv, Open, nodeVars
  <2>11. emitting = DOMAIN handlers[s] BY <1>4
  <2>12. handlers[s] \in Seq(HandlerKinds) BY DEF IInv, TypeOK
  <2>13. e \in Nat /\ (handlers[s] # <<>> => e > 0)
    <3>1. e = Cardinality(DOMAIN handlers[s]) BY <1>1, <2>11
    <3>2. ASSUME handlers[s] # <<>> PROVE DOMAIN handlers[s] # {}
      <4>1. Len(handlers[s]) \in Nat \ {0} BY <3>2, <2>12, EmptySeq
      <4>2. DOMAIN handlers[s] = 1..Len(handlers[s]) BY <2>12, LenProperties
      <4>3. 1 \in 1..Len(handlers[s]) BY <4>1
      <4> QED BY <4>2, <4>3
    <3> QED BY <3>1, <3>2, <2>12, PartCount
  <2> HIDE DEF m, throwing, emitting
  <2>14. NothingLost'
    <3>1. ASSUME NEW o \in owed, Open(o[1])
          PROVE  \/ copies'[<<o[1], o[1], o[2]>>] > 0
                 \/ Contains(fromRedis'[o[1]], o[2]) /\ handlers[o[1]] # <<>>
      <4>1. PICK t \in Sockets, x \in Ids : t = o[1] /\ x = o[2] BY DEF IInv, TypeOK
      <4>2. <<t, t, x>> \in DOMAIN copies /\ copies[<<t, t, x>>] \in Nat
        BY <4>1 DEF IInv, TypeOK
      <4>3. CASE copies[<<t, t, x>>] > 0
        <5>1. copies'[<<t, t, x>>] = copies[<<t, t, x>>] \/ copies'[<<t, t, x>>] = copies[<<t, t, x>>] + e
          BY <4>2, <1>2
        <5> QED BY <5>1, <4>1, <4>2, <4>3, <2>13
      <4>4. CASE Contains(fromRedis[t], x) /\ handlers[t] # <<>>
        <5>1. CASE t # s BY <5>1, <4>1, <4>4, <2>7
        <5>2. CASE t = s /\ x # m BY <5>2, <4>1, <4>4, <2>3, <2>7, <2>8
        <5>3. CASE t = s /\ x = m
          <6>1. Reaches(s, t, published[m].chan)
            BY <5>3, <3>1, <4>1 DEF IInv, RoomInv, Reaches
          <6>2. copies'[<<t, t, x>>] = copies[<<t, t, x>>] + e BY <6>1, <5>3, <4>2, <1>2
          <6> QED BY <6>2, <5>3, <4>1, <4>2, <4>4, <2>13
        <5> QED BY <5>1, <5>2, <5>3
      <4> QED BY <4>1, <4>3, <4>4, <3>1 DEF IInv, NothingLost
    <3>2. \A o \in owed : Open(o[1])' <=> Open(o[1]) BY <2>1 DEF Open, nodeVars
    <3> QED BY <3>1, <3>2, <1>2, <2>1 DEF NothingLost, nodeVars
  <2> QED BY <2>9, <2>10, <2>14
<1> QED BY <1>3, <1>4

-----------------------------------------------------------------------------
LEMMA MessageStep ==
    ASSUME IInv, [Next]_vars
    PROVE  WireInv' /\ RoomInv' /\ NothingLost'
<1> DEFINE Goal == WireInv' /\ RoomInv' /\ NothingLost'
<1>1. ASSUME Calm PROVE Goal BY <1>1, CalmStep DEF IInv
<1> HIDE DEF Goal
<1>2. ASSUME NEW s \in Sockets, Connect(s) PROVE Goal
  <2>1. Calm BY <1>2 DEF Connect, Calm, Open, IInv, TypeOK, wireVars, histVars
  <2> QED BY <1>1, <2>1
<1>3. ASSUME NEW s \in Sockets, Groupme(s) PROVE Goal
  <2>1. Calm BY <1>3 DEF Groupme, Calm, Open, IInv, TypeOK, wireVars, histVars
  <2> QED BY <1>1, <2>1
<1>4. ASSUME NEW s \in Sockets, Disconnect(s) PROVE Goal
  <2>1. Calm BY <1>4 DEF Disconnect, Calm, Open, IInv, TypeOK, histVars
  <2> QED BY <1>1, <2>1
<1>5. ASSUME NEW s \in Sockets, BadPayload(s) PROVE Goal
  BY <1>5, EndStep DEF BadPayload, histVars, IInv, Goal
<1>6. ASSUME NEW s \in Sockets, NEW kind \in HandlerKinds, NEW ch, Listen(s, kind, ch),
             \A t \in Sockets : rooms[t] \subseteq rooms'[t]
      PROVE  Goal
  <2>1. handlers \in [Sockets -> Seq(HandlerKinds)] BY DEF IInv, TypeOK
  <2>2. Append(handlers[s], kind) # <<>> BY <2>1, AppendProperties
  <2>3. \A t \in Sockets : handlers[t] # <<>> => handlers'[t] # <<>>
    BY <2>1, <2>2, <1>6 DEF Listen
  <2>4. Calm BY <1>6, <2>3 DEF Listen, Calm, Open, histVars
  <2> QED BY <1>1, <2>4
<1>7. ASSUME NEW s \in Sockets, NEW x \in Names, Join(s, x) \/ JoinGroup(s, x) \/ Logged(s, x)
      PROVE  Goal
  <2>1. \A t \in Sockets : rooms[t] \subseteq rooms'[t]
    BY <1>7 DEF Join, JoinGroup, Logged, IInv, TypeOK
  <2> QED BY <2>1, <1>6, <1>7 DEF Join, JoinGroup, Logged, HandlerKinds
<1>8. ASSUME NEW s \in Sockets, RedisReads(s) PROVE Goal
  <2>1. Calm BY <1>8 DEF RedisReads, Calm, Open, nodeVars, histVars
  <2> QED BY <1>1, <2>1
<1>9. ASSUME NEW s \in Sockets, Deliver(s) PROVE Goal BY <1>9, DeliverStep DEF Goal
<1>10. ASSUME NEW ch \in Channels, NEW json \in BOOLEAN, Publish(ch, json) PROVE Goal
  BY <1>10, PublishStep DEF Goal
<1>11. ASSUME UNCHANGED vars PROVE Goal
  <2>1. Calm BY <1>11 DEF vars, Calm, Open, nodeVars, wireVars, histVars
  <2> QED BY <1>1, <2>1
<1>12. Goal
  BY <1>2, <1>3, <1>4, <1>5, <1>7, <1>8, <1>9, <1>10, <1>11 DEF Next
<1> QED BY <1>12 DEF Goal

LEMMA IInvStep == IInv /\ [Next]_vars => IInv'
BY TypeStep, ListStep, HandlerStep, MessageStep DEF IInv

LEMMA IInvInit == Init => IInv
<1> USE ChatAssumption
<1> SUFFICES ASSUME Init PROVE IInv OBVIOUS
<1> USE DEF Init, PubSubInit
<1>1. TypeOK
  <2>1. \A S : <<>> \in Seq(S) OBVIOUS
  <2> QED BY <2>1 DEF TypeOK, PubSubType
<1>2. FreshInv /\ HandlerInv /\ ListInv BY DEF FreshInv, HandlerInv, ListInv, Open
<1>3. WireInv BY DEF WireInv
<1>4. RoomInv /\ NothingLost BY DEF RoomInv, NothingLost
<1> QED BY <1>1, <1>2, <1>3, <1>4 DEF IInv

\* The sockets, the queues, the tables of Redis and the history keep their types.
THEOREM TypeCorrect == Spec => []TypeOK
<1>1. IInv => TypeOK BY DEF IInv
<1> QED BY IInvInit, IInvStep, <1>1, PTL DEF Spec

\* Whatever order join, logged, disconnect, the commands Redis has still to read
\* and the messages Node has still to handle come in, a message caught by a
\* member's own subscription has been forwarded to it, or is still on its
\* connection with a handler to forward it, unless the socket or the process has
\* gone (server.js, the "join" and "logged" handlers; pubsubPublishMessage).
THEOREM MessagesKept == Spec => []NothingLost
<1>1. IInv => NothingLost BY DEF IInv
<1> QED BY IInvInit, IInvStep, <1>1, PTL DEF Spec

\* What Redis asserts when it removes a subscription holds: a client is in the
\* list of every channel that its own table names (pubsubUnsubscribeChannel).
THEOREM ListsAgree == Spec => []ListInv
<1>1. IInv => ListInv BY DEF IInv
<1> QED BY IInvInit, IInvStep, <1>1, PTL DEF Spec

=============================================================================
