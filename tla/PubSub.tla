------------------------------- MODULE PubSub -------------------------------
(***************************************************************************)
(* The channel subscriptions of the bundled Redis server (pubsub.c), which *)
(* carry the chat messages.  The server keeps each subscription twice: in  *)
(* the client's own table and in the channel's list of clients; it asserts *)
(* that the second holds whatever the first does.  Pattern subscriptions,  *)
(* which the chat server never makes, are left out.                        *)
(***************************************************************************)
EXTENDS Naturals, FiniteSets, SequencesExt

CONSTANTS
    Clients,    \* connections to Redis
    Channels    \* channel names

VARIABLES
    client_channels,    \* c->pubsub_channels
    server_channels     \* server.pubsub_channels; no entry is an empty list

pubsubVars == <<client_channels, server_channels>>

PubSubType ==
    /\ client_channels \in [Clients -> SUBSET Channels]
    /\ server_channels \in [Channels -> Seq(Clients)]

PubSubInit ==
    /\ client_channels = [c \in Clients |-> {}]
    /\ server_channels = [ch \in Channels |-> <<>>]

pubsubSubscribeChannel(c, ch) ==
    IF ch \in client_channels[c]
    THEN UNCHANGED pubsubVars
    ELSE /\ client_channels' = [client_channels EXCEPT ![c] = @ \cup {ch}]
         /\ server_channels' = [server_channels EXCEPT ![ch] = Append(@, c)]

pubsubUnsubscribeChannel(c, ch) ==
    IF ch \in client_channels[c]
    THEN /\ client_channels' = [client_channels EXCEPT ![c] = @ \ {ch}]
         /\ server_channels' = [server_channels EXCEPT ![ch] = RemoveFirst(@, c)]
    ELSE UNCHANGED pubsubVars

\* freeClient: the connection ends and leaves every list it is in.
pubsubUnsubscribeAllChannels(c) ==
    /\ client_channels' = [client_channels EXCEPT ![c] = {}]
    /\ server_channels' =
           [ch \in Channels |-> IF ch \in client_channels[c]
                                THEN RemoveFirst(server_channels[ch], c)
                                ELSE server_channels[ch]]

\* pubsubPublishMessage writes the message once to each client of the list.
Receipts(ch, c) == Cardinality({i \in DOMAIN server_channels[ch] : server_channels[ch][i] = c})

=============================================================================
