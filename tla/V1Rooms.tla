------------------------------ MODULE V1Rooms ------------------------------
(***************************************************************************)
(* The V1 room table (src/src/room_table.rs, room.rs, client.rs): rooms of *)
(* at most two clients, whose messages are relayed or kept until the peer  *)
(* can be handed them.                                                     *)
(*                                                                         *)
(* Abstractions.                                                           *)
(*  - A client's register-timeout is the time left: 0 is due, None is not  *)
(*    armed.                                                               *)
(*  - A message is its number among those its sender got accepted.  The    *)
(*    write queue of a client is drained by the collider within the call   *)
(*    that fills it; handed records what left a sender's hands, through a  *)
(*    write queue or with the answer to a join.                            *)
(*  - A call that is refused changes nothing: the room that is full, the   *)
(*    client that is there already and the queue at its limit were found,  *)
(*    not made, by the call.                                               *)
(***************************************************************************)
EXTENDS Integers, Sequences, FiniteSets

CONSTANTS
  Rooms,      \* room ids
  Clients,    \* client ids
  Loopback,   \* LOOPBACK_CLIENT_ID, the synthetic peer of a loopback join
  Timeout,    \* register_timeout, in ticks
  MaxQueued,  \* MAX_QUEUED_MSG_COUNT
  MaxSent     \* bound: messages one client sends while it is in a room

\* Option::None of a deadline.
None == -1

ASSUME V1Assumption ==
  /\ Loopback \in Clients
  /\ IsFiniteSet(Clients)
  /\ Timeout \in Nat \ {0} /\ MaxQueued \in Nat \ {0} /\ MaxSent \in Nat

VARIABLES
  rooms,    \* the clients of each room
  present,  \* the keys of RoomTable.rooms
  sent,     \* history: messages accepted from each client since it came
  handed    \* history: those of them that were handed to a peer, in order

vars == <<rooms, present, sent, handed>>

MAX_ROOM_CAPACITY == 2

Room == [clients    : SUBSET Clients,
         registered : SUBSET Clients,
         initiators : SUBSET Clients,
         timeout    : [Clients -> Nat \cup {None}],
         msgs       : [Clients -> Seq(Nat)]]

EmptyRoom == [clients    |-> {},
              registered |-> {},
              initiators |-> {},
              timeout    |-> [c \in Clients |-> None],
              msgs       |-> [c \in Clients |-> <<>>]]

\* Types of the state; a registration is some client's.
TypeOK ==
  /\ rooms \in [Rooms -> Room]
  /\ \A r \in Rooms : rooms[r].registered \subseteq rooms[r].clients
  /\ present \subseteq Rooms
  /\ sent \in [Rooms -> [Clients -> Nat]]
  /\ handed \in [Rooms -> [Clients -> Seq(Nat)]]

Init ==
  /\ rooms = [r \in Rooms |-> EmptyRoom]
  /\ present = {}
  /\ sent = [r \in Rooms |-> [c \in Clients |-> 0]]
  /\ handed = [r \in Rooms |-> [c \in Clients |-> <<>>]]

-----------------------------------------------------------------------------
(***************************************************************************)
(* One client.                                                             *)
(***************************************************************************)

\* What the clients of S have in f is forgotten.
Forget(f, S, empty) == [c \in Clients |-> IF c \in S THEN empty ELSE f[c]]

\* Client::register: a connection is bound and the timeout stops.
Bound(room, c) == [room EXCEPT !.registered = @ \cup {c}, !.timeout[c] = None]

\* Client::enqueue has a place for one more message.
CanEnqueue(room, c) == Len(room.msgs[c]) < MaxQueued

Drained__kept(msgs, S) == msgs

\* drain_msgs: the queues of the clients of S are emptied.
Drained(msgs, S) == Forget(msgs, S, <<>>)

\* send_queued: the queues of the clients of S follow what they handed over.
Flushed(h, msgs, S) == [c \in Clients |-> IF c \in S THEN h[c] \o msgs[c] ELSE h[c]]

HandOver(r, S) == handed' = [handed EXCEPT ![r] = Flushed(@, rooms[r].msgs, S)]

\* Client::handle_timeout: the deadline is past and no connection was bound.
Expired(room, c) == room.timeout[c] = 0 /\ c \notin room.registered

-----------------------------------------------------------------------------
(***************************************************************************)
(* One room.                                                               *)
(***************************************************************************)
Peers(room, c) == room.clients \ {c}

HasPlace__one_more(room, c) ==
  c \in room.clients \/ Cardinality(room.clients) <= MAX_ROOM_CAPACITY

\* Room::client finds the client, or a place for a new one.
HasPlace(room, c) ==
  c \in room.clients \/ Cardinality(room.clients) < MAX_ROOM_CAPACITY

\* Room::client: an unknown client comes unregistered, its timeout running.
NewClient(room, c) ==
  IF c \in room.clients
    THEN room
    ELSE [room EXCEPT !.clients = @ \cup {c}, !.timeout[c] = Timeout]

Removed__keeps_registration(room, S) ==
  [clients    |-> room.clients \ S,
   registered |-> room.registered,
   initiators |-> IF S \cap room.clients = {} THEN room.initiators ELSE room.clients \ S,
   timeout    |-> Forget(room.timeout, S, None),
   msgs       |-> Forget(room.msgs, S, <<>>)]

\* Room::remove for each client of S: whoever stays is made the initiator.
Removed(room, S) ==
  [clients    |-> room.clients \ S,
   registered |-> room.registered \ S,
   initiators |-> IF S \cap room.clients = {} THEN room.initiators ELSE room.clients \ S,
   timeout    |-> Forget(room.timeout, S, None),
   msgs       |-> Forget(room.msgs, S, <<>>)]

Elected__always(room, c) == room.initiators \cup {c}

\* The first client of a room is its initiator, a later one is not.
Elected(room, c) ==
  IF room.clients = {} THEN room.initiators \cup {c} ELSE room.initiators \ {c}

\* add_client: the newcomer takes the queued messages with its answer.  A
\* loopback join brings its peer along, if there is a place for it.
Joined(room, c, is_loopback) ==
  LET drained == [room EXCEPT !.msgs = Drained(@, room.clients),
                              !.initiators = Elected(room, c)]
      in == NewClient(drained, c)
  IN  IF is_loopback /\ HasPlace(in, Loopback)
        THEN [NewClient(in, Loopback) EXCEPT !.initiators = @ \ {Loopback}]
        ELSE in

\* Room::register: the client is made if need be, and takes its peer's queue.
Registered(room, c) ==
  [Bound(NewClient(room, c), c) EXCEPT !.msgs = Drained(@, Peers(room, c))]

Deregistered__no_timeout(room, c) == [room EXCEPT !.registered = @ \ {c}]

\* Room::deregister: the reconnect grace starts.
Deregistered(room, c) ==
  [room EXCEPT !.registered = @ \ {c}, !.timeout[c] = Timeout]

\* Room::handle_timeout reaps these.
ExpiredClients(room) == {c \in room.clients : Expired(room, c)}

PollDue__registered_only(room) == \E c \in room.registered : room.timeout[c] = 0

\* The instant of Room::poll_timeout has come.
PollDue(room) == \E c \in room.clients : room.timeout[c] = 0

-----------------------------------------------------------------------------
(***************************************************************************)
(* The operations of the table.                                            *)
(***************************************************************************)
Join(r, c, is_loopback) ==
  /\ c \notin rooms[r].clients
  /\ HasPlace(rooms[r], c)
  /\ rooms' = [rooms EXCEPT ![r] = Joined(@, c, is_loopback)]
  /\ HandOver(r, rooms[r].clients)
  /\ present' = present \cup {r}
  /\ UNCHANGED sent

Register(r, c) ==
  /\ HasPlace(rooms[r], c)
  /\ c \notin rooms[r].registered
  /\ rooms' = [rooms EXCEPT ![r] = Registered(@, c)]
  /\ HandOver(r, Peers(rooms[r], c))
  /\ present' = present \cup {r}
  /\ UNCHANGED sent

RelayOrQueue__queues(r, c, n) ==
  LET room == NewClient(rooms[r], c)
  IN  /\ CanEnqueue(room, c)
      /\ rooms' = [rooms EXCEPT ![r] = [room EXCEPT !.msgs[c] = Append(@, n)]]
      /\ UNCHANGED handed

\* Room::send: message n goes to the peer, if that is registered, and to the
\* sender's queue otherwise.
RelayOrQueue(r, c, n) ==
  LET room == NewClient(rooms[r], c)
  IN  \/ /\ Peers(room, c) \cap room.registered # {}
         /\ rooms' = [rooms EXCEPT ![r] = room]
         /\ handed' = [handed EXCEPT ![r][c] = Append(@, n)]
      \/ /\ Peers(room, c) \cap room.registered = {}
         /\ CanEnqueue(room, c)
         /\ rooms' = [rooms EXCEPT ![r] = [room EXCEPT !.msgs[c] = Append(@, n)]]
         /\ UNCHANGED handed

\* send and save_or_send of a client, which is made if need be.
Send(r, c) ==
  /\ HasPlace(rooms[r], c)
  /\ sent[r][c] < MaxSent
  /\ RelayOrQueue(r, c, sent[r][c] + 1)
  /\ sent' = [sent EXCEPT ![r][c] = @ + 1]
  /\ present' = present \cup {r}

Deregister(r, c) ==
  /\ c \in rooms[r].registered
  /\ rooms' = [rooms EXCEPT ![r] = Deregistered(@, c)]
  /\ UNCHANGED <<present, sent, handed>>

\* The entries of the rooms of S that keep a client.
Occupied(S) == {r \in S : rooms'[r].clients # {}}

\* The clients of gone[r] go from each room r, and an empty room with them.
Remove(gone) ==
  /\ rooms' = [r \in Rooms |-> Removed(rooms[r], gone[r])]
  /\ present' = Occupied(present)
  /\ sent' = [r \in Rooms |-> Forget(sent[r], gone[r], 0)]
  /\ handed' = [r \in Rooms |-> Forget(handed[r], gone[r], <<>>)]

Only(r, c) == [q \in Rooms |-> IF q = r THEN {c} ELSE {}]

Leave(r, c) ==
  /\ c \in rooms[r].clients
  /\ Remove(Only(r, c))

remove_if_unregistered(r, c) ==
  /\ c \in rooms[r].clients \ rooms[r].registered
  /\ Remove(Only(r, c))

handle_timeout ==
  /\ \E r \in Rooms : PollDue(rooms[r])
  /\ Remove([r \in Rooms |-> ExpiredClients(rooms[r])])

\* Time passes for every running timeout.
Tick ==
  /\ \E r \in Rooms, c \in Clients : rooms[r].timeout[c] > 0
  /\ rooms' = [r \in Rooms |-> [rooms[r] EXCEPT !.timeout =
                 [c \in Clients |-> IF @[c] > 0 THEN @[c] - 1 ELSE @[c]]]]
  /\ UNCHANGED <<present, sent, handed>>

\* close drops every room.
Close ==
  /\ rooms' = [r \in Rooms |-> EmptyRoom]
  /\ present' = {}
  /\ sent' = [r \in Rooms |-> [c \in Clients |-> 0]]
  /\ handed' = [r \in Rooms |-> [c \in Clients |-> <<>>]]

ClientCall(r, c) ==
  \/ \E is_loopback \in BOOLEAN : Join(r, c, is_loopback)
  \/ Register(r, c)
  \/ Send(r, c)
  \/ Deregister(r, c)
  \/ Leave(r, c)
  \/ remove_if_unregistered(r, c)

Next ==
  \/ \E r \in Rooms, c \in Clients : ClientCall(r, c)
  \/ handle_timeout
  \/ Tick
  \/ Close

Spec == Init /\ [][Next]_vars

\* The driver sleeps until poll_timeout and hands the time back.
FairSpec == Spec /\ WF_vars(Tick) /\ WF_vars(handle_timeout)

-----------------------------------------------------------------------------
(***************************************************************************)
(* Properties.                                                             *)
(***************************************************************************)

\* A room has two clients at most, though five calls can bring one in: a
\* join, its loopback peer, a registration, a message and an injected one.
Capacity == \A r \in Rooms : Cardinality(rooms[r].clients) <= MAX_ROOM_CAPACITY

\* No entry outlives its last client, whether a leave, a removal or a timeout
\* took it, and no client is without its room.
NoEmptyRoom == \A r \in Rooms : r \in present <=> rooms[r].clients # {}

\* The timeout runs exactly while a client has no connection, through every
\* drop and return: a registered client is never reaped, any other is.
TimeoutIffUnregistered ==
  \A r \in Rooms, c \in Clients :
    rooms[r].timeout[c] # None <=> c \in rooms[r].clients \ rooms[r].registered

\* At most one client of a room is the caller, and it is one of them.
OneInitiator ==
  \A r \in Rooms :
    /\ rooms[r].initiators \subseteq rooms[r].clients
    /\ Cardinality(rooms[r].initiators) <= 1

\* Messages are queued only while no peer is connected: none is overtaken by
\* a later one that is relayed at once.
QueuedWhileAlone ==
  \A r \in Rooms, c \in Clients :
    rooms[r].msgs[c] # <<>> => Peers(rooms[r], c) \cap rooms[r].registered = {}

UpTo(n) == [i \in 1..n |-> i]

\* What a client got accepted is handed over once and in order, or is still
\* queued, whether by relay, at the peer's registration or with its join.
InOrderOnce ==
  \A r \in Rooms, c \in Clients :
    handed[r][c] \o rooms[r].msgs[c] = UpTo(sent[r][c])

\* A client without a connection comes back or goes.
ReturnsOrGoes ==
  \A r \in Rooms, c \in Clients :
    c \in rooms[r].clients \ rooms[r].registered ~>
      c \notin rooms[r].clients \ rooms[r].registered
=============================================================================
