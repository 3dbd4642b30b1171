------------------------------ MODULE Collider ------------------------------
(***************************************************************************)
(* The collider (src/src/collider.rs): the sessions of the browsers'       *)
(* sockets over the two room tables.  The V1 table is V1Rooms; the V2      *)
(* table is RoomModes, which V2Rooms implements.                           *)
(*                                                                         *)
(* The collider is driven through &mut self: every input is one step, with *)
(* the calls into the tables and the drains at its end.  What interleaves  *)
(* are the sockets, the web server, the workers and the clock.             *)
(*                                                                         *)
(* Abstractions.                                                           *)
(*  - Of the outputs only Close is kept, as the set closing; a text goes   *)
(*    to the socket that connections or v2_connections names, and these    *)
(*    are state.  Frames of V2 sessions and queries change nothing here.   *)
(*  - handle_timeout visits the V1 table and every V2 room in one call;    *)
(*    here these are steps, which touch different state.                   *)
(*                                                                         *)
(* A definition X__fault is X with a mistake the code could have made; no  *)
(* other definition uses it.                                               *)
(***************************************************************************)
EXTENDS Integers, Sequences, FiniteSets

CONSTANTS
  Conns,                \* connection ids of sockets
  RoomsV1, ClientsV1,   \* ids of the V1 protocol
  Loopback,             \* LOOPBACK_CLIENT_ID
  Timeout,              \* register_timeout of V1 clients, in ticks
  MaxQueued,            \* MAX_QUEUED_MSG_COUNT
  MaxSent,              \* bound: messages one V1 client sends while in a room
  RoomsV2, ClientsV2,   \* ids of the V2 protocol
  MaxEpoch              \* bound: the signal epoch a V2 room reaches

\* No connection.
None == -1

ASSUME ConnsAssumption ==
  /\ None \notin Conns
  /\ MaxEpoch \in Nat

\* What V1Rooms assumes of its constants.
ASSUME TableAssumption ==
  /\ Loopback \in ClientsV1
  /\ IsFiniteSet(ClientsV1)
  /\ Timeout \in Nat \ {0} /\ MaxQueued \in Nat \ {0} /\ MaxSent \in Nat

VARIABLES
  sockets,         \* the driver's open sockets
  sessions,        \* Collider.sessions
  connections,     \* Collider.connections
  v2_connections,  \* Collider.v2_connections
  closing,         \* sockets with a Close among the outputs
  stale,           \* history: sessions whose V2 membership ended under them
  v1rooms, v1present, v1sent, v1handed,  \* Collider.rooms
  table, leaving                         \* Collider.v2_rooms

sessionVars == <<sockets, sessions, connections, v2_connections, closing>>
v1vars == <<v1rooms, v1present, v1sent, v1handed>>
v2vars == <<table, leaving>>
vars == <<sessionVars, stale, v1vars, v2vars>>

V1 == INSTANCE V1Rooms WITH
        Rooms <- RoomsV1, Clients <- ClientsV1,
        rooms <- v1rooms, present <- v1present, sent <- v1sent, handed <- v1handed

V2 == INSTANCE RoomModes WITH Rooms <- RoomsV2, Clients <- ClientsV2

KeysV1 == RoomsV1 \X ClientsV1
KeysV2 == RoomsV2 \X ClientsV2

\* An entry of sessions; NoSession is its absence.
NoSession == [kind |-> "None", key |-> <<>>]
Connected == [kind |-> "Connected", key |-> <<>>]
RegisteredV1(key) == [kind |-> "V1", key |-> key]
RegisteredV2(key) == [kind |-> "V2", key |-> key]

Session == {NoSession, Connected}
             \cup {RegisteredV1(key) : key \in KeysV1}
             \cup {RegisteredV2(key) : key \in KeysV2}

\* Types of the state of the sessions.
TypeOK ==
  /\ sockets \subseteq Conns
  /\ sessions \in [Conns -> Session]
  /\ connections \in [KeysV1 -> Conns \cup {None}]
  /\ v2_connections \in [KeysV2 -> Conns \cup {None}]
  /\ closing \subseteq sockets
  /\ stale \subseteq Conns

Init ==
  /\ sockets = {} /\ closing = {} /\ stale = {}
  /\ sessions = [k \in Conns |-> NoSession]
  /\ connections = [key \in KeysV1 |-> None]
  /\ v2_connections = [key \in KeysV2 |-> None]
  /\ V1!Init
  /\ V2!Init

\* The membership a session was registered for has ended, now or before.
Ended(k) ==
  \E key \in KeysV2 :
    /\ sessions'[k] = RegisteredV2(key)
    /\ \/ key[2] \notin table'[key[1]].members
       \/ k \in stale /\ sessions[k] = sessions'[k]

Observed == stale' = {k \in Conns : Ended(k)}

-----------------------------------------------------------------------------
(***************************************************************************)
(* Sockets.                                                                *)
(***************************************************************************)

\* A socket opens, under an id that is in no map of the collider.
Connect(k) ==
  /\ k \notin sockets
  /\ sessions[k] = NoSession
  /\ sockets' = sockets \cup {k}
  /\ sessions' = [sessions EXCEPT ![k] = Connected]
  /\ UNCHANGED <<connections, v2_connections, closing, v1vars, v2vars>>
  /\ Observed

\* fail_connection: the socket is to be closed; its session stays until then.
fail_connection(k) == closing' = closing \cup {k}

\* A text that is no message, a message that is no request, a registration
\* that is refused or not the first, a send without a session.
Refuse(k) ==
  /\ k \in sockets
  /\ fail_connection(k)
  /\ UNCHANGED <<sockets, sessions, connections, v2_connections, v1vars, v2vars>>
  /\ Observed

MayRegister__always(k) == k \in sockets
MayRegister(k) == k \in sockets /\ sessions[k] \in {NoSession, Connected}

\* register_v1 and register_v2: the table takes the registration, then the
\* session and the connection are recorded.
RegisterV1(k, r, c) ==
  /\ MayRegister(k)
  /\ V1!Register(r, c)
  /\ sessions' = [sessions EXCEPT ![k] = RegisteredV1(<<r, c>>)]
  /\ connections' = [connections EXCEPT ![<<r, c>>] = k]
  /\ UNCHANGED <<sockets, v2_connections, closing, v2vars>>
  /\ Observed

RegisterV2(k, r, c) ==
  /\ MayRegister(k)
  /\ V2!Register(r, c)
  /\ sessions' = [sessions EXCEPT ![k] = RegisteredV2(<<r, c>>)]
  /\ v2_connections' = [v2_connections EXCEPT ![<<r, c>>] = k]
  /\ UNCHANGED <<sockets, connections, closing, v1vars>>
  /\ Observed

\* send of a V1 session.
SendV1(k, r, c) ==
  /\ k \in sockets
  /\ sessions[k] = RegisteredV1(<<r, c>>)
  /\ V1!Send(r, c)
  /\ UNCHANGED <<sessionVars, v2vars>>
  /\ Observed

IsCurrent__any(map, key, k) == TRUE

\* Only the socket that the map names speaks for its client.
IsCurrent(map, key, k) == map[key] = k

\* disconnect of a session that is not, or not any more, its client's.
Forget(k) ==
  /\ \/ sessions[k] \in {NoSession, Connected}
     \/ \E key \in KeysV2 : sessions[k] = RegisteredV2(key)
                            /\ ~IsCurrent(v2_connections, key, k)
  /\ UNCHANGED <<connections, v2_connections, v1vars, v2vars>>

ForgetV1(k, r, c) ==
  /\ sessions[k] = RegisteredV1(<<r, c>>)
  /\ IsCurrent(connections, <<r, c>>, k)
  /\ connections' = [connections EXCEPT ![<<r, c>>] = None]
  /\ V1!Deregister(r, c)
  /\ UNCHANGED <<v2_connections, v2vars>>

\* A client that is not registered is left alone by the table.
ForgetV2(k, r, c) ==
  /\ sessions[k] = RegisteredV2(<<r, c>>)
  /\ IsCurrent(v2_connections, <<r, c>>, k)
  /\ v2_connections' = [v2_connections EXCEPT ![<<r, c>>] = None]
  /\ \/ V2!Deregister(r, c)
     \/ V2!DeregisterLeave(r, c)
     \/ c \notin table[r].registered /\ UNCHANGED v2vars
  /\ UNCHANGED <<connections, v1vars>>

\* The socket is gone: the browser closed it, or the driver did for a Close.
Disconnect(k) ==
  /\ k \in sockets
  /\ sockets' = sockets \ {k}
  /\ closing' = closing \ {k}
  /\ sessions' = [sessions EXCEPT ![k] = NoSession]
  /\ \/ Forget(k)
     \/ \E key \in KeysV1 : ForgetV1(k, key[1], key[2])
     \/ \E key \in KeysV2 : ForgetV2(k, key[1], key[2])
  /\ Observed

-----------------------------------------------------------------------------
(***************************************************************************)
(* The web server: handle_authority.                                       *)
(***************************************************************************)

Close__no_output(k) ==
  /\ sessions' = [j \in Conns |-> IF j = k THEN NoSession ELSE sessions[j]]
  /\ UNCHANGED closing
Close__unchecked(k) ==
  /\ sessions' = [j \in Conns |-> IF j = k THEN NoSession ELSE sessions[j]]
  /\ closing' = closing \cup {k}

\* close_client_connection and close_v2_client_connection of the socket k
\* that the map names, if it names one.
Close(k) ==
  /\ sessions' = [j \in Conns |-> IF j = k THEN NoSession ELSE sessions[j]]
  /\ closing' = closing \cup ({k} \cap sockets)

AdmitV1(r, c) ==
  /\ \E is_loopback \in BOOLEAN : V1!Join(r, c, is_loopback)
  /\ UNCHANGED <<sessionVars, v2vars>>
  /\ Observed

Inject(r, c) ==
  /\ V1!Send(r, c)
  /\ UNCHANGED <<sessionVars, v2vars>>
  /\ Observed

RemoveV1(r, c) ==
  /\ V1!Leave(r, c)
  /\ Close(connections[<<r, c>>])
  /\ connections' = [connections EXCEPT ![<<r, c>>] = None]
  /\ UNCHANGED <<sockets, v2_connections, v2vars>>
  /\ Observed

CloseV2__keeps_connection(r, c) ==
  /\ Close(v2_connections[<<r, c>>])
  /\ UNCHANGED v2_connections

CloseV2(r, c) ==
  /\ Close(v2_connections[<<r, c>>])
  /\ v2_connections' = [v2_connections EXCEPT ![<<r, c>>] = None]

\* A P2P or failed room lets the client go at once, an SFU room when its
\* worker says so.
RemoveV2(r, c) ==
  /\ V2!RemoveNow(r, c)
  /\ CloseV2(r, c)
  /\ UNCHANGED <<sockets, connections, v1vars>>
  /\ Observed

-----------------------------------------------------------------------------
(***************************************************************************)
(* The workers and the clock: drain_v2_actions, handle_timeout.            *)
(***************************************************************************)

\* MemberLeft: the socket is closed if the web server asked for the removal.
MemberLeft(r, c) ==
  /\ V2!Left(r, c)
  /\ IF table[r].removal THEN CloseV2(r, c)
                         ELSE UNCHANGED <<sessions, closing, v2_connections>>
  /\ UNCHANGED <<sockets, connections, v1vars>>
  /\ Observed

\* Steps of the V2 table that concern no session.
Commit(r) == table[r].epoch < MaxEpoch /\ V2!Commit(r)
Downgrade(r) == table[r].epoch < MaxEpoch /\ V2!Downgrade(r)

V2Only ==
  /\ \/ \E r \in RoomsV2, c \in ClientsV2 :
          \/ V2!AdmitAtOnce(r, c)
          \/ V2!AdmitLater(r, c)
          \/ \E removal \in BOOLEAN : V2!AskLeave(r, c, removal)
          \/ V2!Stayed(r, c)
     \/ \E r \in RoomsV2 :
          \/ Commit(r) \/ V2!Abandon(r) \/ V2!Entered(r) \/ V2!Refused(r)
          \/ V2!Fail(r) \/ V2!Reap(r) \/ Downgrade(r)
     \/ V2!LoseWorker
  /\ UNCHANGED <<sessionVars, v1vars>>
  /\ Observed

V1Only ==
  /\ V1!handle_timeout \/ V1!Tick
  /\ UNCHANGED <<sessionVars, v2vars>>
  /\ Observed

\* close: every session's socket is to be closed, and nothing is left.
Shutdown ==
  /\ closing' = closing \cup {k \in sockets : sessions[k] # NoSession}
  /\ sessions' = [k \in Conns |-> NoSession]
  /\ connections' = [key \in KeysV1 |-> None]
  /\ v2_connections' = [key \in KeysV2 |-> None]
  /\ V1!Close
  /\ V2!Clear
  /\ UNCHANGED sockets
  /\ Observed

Browser ==
  \E k \in Conns :
    \/ Connect(k) \/ Refuse(k) \/ Disconnect(k)
    \/ \E r \in RoomsV1, c \in ClientsV1 : RegisterV1(k, r, c) \/ SendV1(k, r, c)
    \/ \E r \in RoomsV2, c \in ClientsV2 : RegisterV2(k, r, c)

Authority ==
  \/ \E r \in RoomsV1, c \in ClientsV1 : AdmitV1(r, c) \/ Inject(r, c) \/ RemoveV1(r, c)
  \/ \E r \in RoomsV2, c \in ClientsV2 : RemoveV2(r, c)

Next ==
  \/ Browser
  \/ Authority
  \/ \E r \in RoomsV2, c \in ClientsV2 : MemberLeft(r, c)
  \/ V1Only \/ V2Only
  \/ Shutdown

Spec == Init /\ [][Next]_vars

-----------------------------------------------------------------------------
(***************************************************************************)
(* Properties.                                                             *)
(***************************************************************************)

\* A V1 client is registered exactly while one socket has its session and
\* connections names that socket: what the table writes for a client always
\* finds its socket, and no session outlives its client.
V1Exact ==
  \A key \in KeysV1 :
    /\ key[2] \in v1rooms[key[1]].registered <=> connections[key] # None
    /\ \A k \in Conns : sessions[k] = RegisteredV1(key) <=> connections[key] = k

\* v2_connections names sockets that have the client's session, and every
\* registered member has one: a frame or a control message for a member goes
\* to nobody else's socket, and is not dropped.
V2Reachable ==
  \A key \in KeysV2 :
    /\ v2_connections[key] # None => sessions[v2_connections[key]] = RegisteredV2(key)
    /\ key[2] \in table[key[1]].registered => v2_connections[key] # None

\* A session keeps its place while its membership lasts: the late disconnect
\* of an older socket takes neither the registration nor the connection of
\* the socket that replaced it.
LiveSessionsRegistered ==
  \A k \in Conns, key \in KeysV2 :
    sessions[k] = RegisteredV2(key) /\ k \notin stale =>
      /\ v2_connections[key] = k
      /\ key[2] \in table[key[1]].registered

\* No session outlives its socket, and a socket whose session was taken away
\* is told to close.
SocketsAccounted ==
  \A k \in Conns :
    /\ sessions[k] # NoSession => k \in sockets
    /\ k \in sockets => sessions[k] # NoSession \/ k \in closing
=============================================================================
