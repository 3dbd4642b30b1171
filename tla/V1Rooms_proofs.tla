--------------------------- MODULE V1Rooms_proofs ---------------------------
(***************************************************************************)
(* Theorems about the V1 room table, for every value of its constants.     *)
(*                                                                         *)
(* The invariants of V1Rooms need each other.  Capacity bounds the room a  *)
(* removal leaves to one client, so that promoting everybody who stays     *)
(* makes one initiator; and a message may be relayed at once only because  *)
(* no older one is queued while the peer is registered, which holds        *)
(* because every way of becoming registered empties the peer's queue.      *)
(* ClientsOK and LedgerOK say so of one room; their conjunction is         *)
(* inductive.                                                              *)
(***************************************************************************)
EXTENDS V1Rooms, FiniteSetTheorems, SequenceTheorems, TLAPS

\* Who is in a room, with which registration, timeout and role.
ClientsOK(room) ==
  /\ room \in Room
  /\ room.registered \subseteq room.clients
  /\ room.initiators \subseteq room.clients
  /\ Cardinality(room.clients) <= MAX_ROOM_CAPACITY
  /\ Cardinality(room.initiators) <= 1
  /\ \A c \in Clients : room.timeout[c] # None <=> c \in room.clients \ room.registered
  /\ \A c \in Clients : room.msgs[c] # <<>> => Peers(room, c) \cap room.registered = {}
  /\ \A c \in Clients \ room.clients : room.msgs[c] = <<>>

\* What the clients sent, against what was handed over and what is queued.
LedgerOK(room, s, h) ==
  /\ s \in [Clients -> Nat]
  /\ h \in [Clients -> Seq(Nat)]
  /\ \A c \in Clients : h[c] \o room.msgs[c] = UpTo(s[c])
  /\ \A c \in Clients \ room.clients : s[c] = 0

IInv ==
  /\ rooms \in [Rooms -> Room]
  /\ sent \in [Rooms -> [Clients -> Nat]]
  /\ handed \in [Rooms -> [Clients -> Seq(Nat)]]
  /\ present \subseteq Rooms
  /\ \A r \in Rooms : ClientsOK(rooms[r])
  /\ \A r \in Rooms : LedgerOK(rooms[r], sent[r], handed[r])
  /\ \A r \in Rooms : r \in present <=> rooms[r].clients # {}

-----------------------------------------------------------------------------
(***************************************************************************)
(* Sizes and sequences.                                                    *)
(***************************************************************************)

\* Sets of clients are finite.
LEMMA Finite ==
  ASSUME NEW S, S \subseteq Clients
  PROVE  IsFiniteSet(S) /\ Cardinality(S) \in Nat
BY FS_Subset, FS_CardinalityType, V1Assumption

\* Fewer clients are not more.
LEMMA SubsetSize ==
  ASSUME NEW S, NEW T, S \subseteq T, T \subseteq Clients, NEW n \in Nat, Cardinality(T) <= n
  PROVE  Cardinality(S) <= n
<1>1. /\ IsFiniteSet(T) /\ Cardinality(T) \in Nat
      /\ Cardinality(S) \in Nat
  BY Finite
<1>2. Cardinality(S) <= Cardinality(T)
  BY <1>1, FS_Subset
<1> QED
  BY <1>1, <1>2

\* The client HasPlace lets in does not exceed the bound.
LEMMA OneMore ==
  ASSUME NEW S, S \subseteq Clients, NEW c \in Clients, NEW n \in Nat,
         c \in S \/ Cardinality(S) < n,
         Cardinality(S) <= n
  PROVE  Cardinality(S \cup {c}) <= n
<1>1. IsFiniteSet(S) /\ Cardinality(S) \in Nat
  BY Finite
<1>2. Cardinality(S \cup {c}) = IF c \in S THEN Cardinality(S) ELSE Cardinality(S) + 1
  BY <1>1, FS_AddElement
<1> QED
  BY <1>1, <1>2

\* A removal from a room of two leaves one at most.
LEMMA FewerLeft ==
  ASSUME NEW T, T \subseteq Clients, NEW S, S \cap T # {}, Cardinality(T) <= 2
  PROVE  Cardinality(T \ S) <= 1
<1>1. PICK c \in T : c \in S
  OBVIOUS
<1>2. /\ IsFiniteSet(T) /\ Cardinality(T) \in Nat
      /\ Cardinality(T \ {c}) \in Nat /\ Cardinality(T \ S) \in Nat
  BY Finite
<1>3. Cardinality(T \ {c}) = Cardinality(T) - 1
  BY <1>1, <1>2, FS_RemoveElement
<1>4. T \ S \subseteq T \ {c} /\ T \ {c} \subseteq Clients
  BY <1>1
<1>5. Cardinality(T \ {c}) <= 1
  BY <1>2, <1>3
<1> QED
  BY <1>4, <1>5, SubsetSize

\* The numbers of the messages sent so far, as a sequence.
LEMMA UpToType ==
  ASSUME NEW n \in Nat
  PROVE  UpTo(n) \in Seq(Nat) /\ Len(UpTo(n)) = n /\ \A i \in 1..n : UpTo(n)[i] = i
BY DEF UpTo

\* The next message.
LEMMA UpToNext ==
  ASSUME NEW n \in Nat
  PROVE  Append(UpTo(n), n + 1) = UpTo(n + 1)
<1>1. /\ Append(UpTo(n), n + 1) \in Seq(Nat)
      /\ UpTo(n + 1) \in Seq(Nat)
      /\ Len(Append(UpTo(n), n + 1)) = Len(UpTo(n + 1))
  BY UpToType
<1>2. \A i \in 1..Len(UpTo(n + 1)) : Append(UpTo(n), n + 1)[i] = UpTo(n + 1)[i]
  BY UpToType
<1> QED
  BY <1>1, <1>2, SeqEqual

\* No message.
LEMMA UpToNone == UpTo(0) = <<>>
BY UpToType, EmptySeq

\* Queueing one more keeps the ledger.
LEMMA QueueOne ==
  ASSUME NEW h \in Seq(Nat), NEW m \in Seq(Nat), NEW n \in Nat
  PROVE  h \o Append(m, n) = Append(h \o m, n)
<1>1. Append(m, n) = m \o <<n>>
  BY AppendIsConcat
<1>2. h \o m \in Seq(Nat) /\ <<n>> \in Seq(Nat)
  BY ConcatProperties
<1>3. Append(h \o m, n) = (h \o m) \o <<n>>
  BY <1>2, AppendIsConcat
<1>4. (h \o m) \o <<n>> = h \o (m \o <<n>>)
  BY <1>2, ConcatAssociative
<1> QED
  BY <1>1, <1>3, <1>4

-----------------------------------------------------------------------------
(***************************************************************************)
(* One room.                                                               *)
(***************************************************************************)

\* Nothing is wrong with an empty room.
LEMMA EmptyOK == ClientsOK(EmptyRoom)
<1>1. Cardinality({}) = 0
  BY FS_EmptySet
<1> QED
  BY <1>1, EmptySeq DEF ClientsOK, EmptyRoom, Room, Peers, MAX_ROOM_CAPACITY, None

\* Room::client keeps a room in order where HasPlace lets it in.
LEMMA NewClientOK ==
  ASSUME NEW room, ClientsOK(room), NEW c \in Clients, HasPlace(room, c)
  PROVE  /\ ClientsOK(NewClient(room, c))
         /\ NewClient(room, c).clients = room.clients \cup {c}
         /\ NewClient(room, c).registered = room.registered
         /\ NewClient(room, c).initiators = room.initiators
         /\ NewClient(room, c).msgs = room.msgs
<1> DEFINE next == NewClient(room, c)
<1>1. CASE c \in room.clients
  BY <1>1 DEF NewClient, ClientsOK, Room
<1>2. CASE c \notin room.clients
  <2>1. /\ next.clients = room.clients \cup {c}
        /\ next.registered = room.registered
        /\ next.initiators = room.initiators
        /\ next.msgs = room.msgs
        /\ next.timeout = [room.timeout EXCEPT ![c] = Timeout]
        /\ next \in Room
    BY <1>2, V1Assumption DEF NewClient, ClientsOK, Room
  <2>2. Cardinality(next.clients) <= MAX_ROOM_CAPACITY
    <3>1. /\ room.clients \subseteq Clients
          /\ Cardinality(room.clients) < 2
      BY <1>2 DEF ClientsOK, Room, HasPlace, MAX_ROOM_CAPACITY
    <3>2. Cardinality(room.clients \cup {c}) <= 2
      BY <3>1, Finite, OneMore
    <3> QED
      BY <2>1, <3>2 DEF MAX_ROOM_CAPACITY
  <2>3. \A d \in Clients : next.timeout[d] # None <=> d \in next.clients \ next.registered
    BY <1>2, <2>1, V1Assumption DEF ClientsOK, Room, None
  <2>4. \A d \in Clients : next.msgs[d] # <<>> => Peers(next, d) \cap next.registered = {}
    BY <1>2, <2>1 DEF ClientsOK, Peers
  <2> QED
    BY <2>1, <2>2, <2>3, <2>4 DEF ClientsOK
<1> QED
  BY <1>1, <1>2

\* A room whose roles are set anew.
LEMMA RolesOK ==
  ASSUME NEW room, ClientsOK(room), NEW I, I \subseteq room.clients, Cardinality(I) <= 1
  PROVE  LET next == [room EXCEPT !.initiators = I]
         IN  /\ ClientsOK(next)
             /\ next.clients = room.clients
             /\ next.msgs = room.msgs
<1> DEFINE next == [room EXCEPT !.initiators = I]
<1>1. /\ next \in Room
      /\ next.clients = room.clients /\ next.registered = room.registered
      /\ next.timeout = room.timeout /\ next.msgs = room.msgs
      /\ next.initiators = I
  BY DEF ClientsOK, Room
<1> QED
  BY <1>1 DEF ClientsOK, Peers

\* A room with some of its queues emptied.
LEMMA DrainedOK ==
  ASSUME NEW room, ClientsOK(room), NEW S
  PROVE  LET next == [room EXCEPT !.msgs = Drained(@, S)]
         IN  /\ ClientsOK(next)
             /\ next.clients = room.clients
             /\ next.initiators = room.initiators
             /\ next.msgs = Drained(room.msgs, S)
<1> DEFINE next == [room EXCEPT !.msgs = Drained(@, S)]
<1>1. /\ next \in Room
      /\ next.clients = room.clients /\ next.registered = room.registered
      /\ next.timeout = room.timeout /\ next.initiators = room.initiators
      /\ next.msgs = Drained(room.msgs, S)
  BY EmptySeq DEF ClientsOK, Room, Drained, Forget
<1>2. \A c \in Clients : next.msgs[c] \in {room.msgs[c], <<>>}
  BY <1>1 DEF Drained, Forget
<1> QED
  BY <1>1, <1>2 DEF ClientsOK, Peers

\* Whatever Room::remove takes away, one survivor at most is promoted.
LEMMA RemovedOK ==
  ASSUME NEW room, ClientsOK(room), NEW S
  PROVE  ClientsOK(Removed(room, S))
<1> DEFINE next == Removed(room, S)
<1>1. /\ next.clients = room.clients \ S
      /\ next.registered = room.registered \ S
      /\ next.timeout = Forget(room.timeout, S, None)
      /\ next.msgs = Forget(room.msgs, S, <<>>)
      /\ next.initiators = IF S \cap room.clients = {} THEN room.initiators
                                                       ELSE room.clients \ S
  BY DEF Removed
<1>2. next \in Room
  BY EmptySeq DEF Removed, Forget, Room, ClientsOK, None
<1>3. Cardinality(next.clients) <= MAX_ROOM_CAPACITY
  BY <1>1, SubsetSize DEF ClientsOK, Room, MAX_ROOM_CAPACITY
<1>4. Cardinality(next.initiators) <= 1 /\ next.initiators \subseteq next.clients
  BY <1>1, FewerLeft DEF ClientsOK, Room, MAX_ROOM_CAPACITY
<1>5. \A c \in Clients : next.timeout[c] # None <=> c \in next.clients \ next.registered
  BY <1>1 DEF ClientsOK, Forget
<1>6. \A c \in Clients : next.msgs[c] # <<>> => Peers(next, c) \cap next.registered = {}
  BY <1>1 DEF ClientsOK, Forget, Peers
<1>7. \A c \in Clients \ next.clients : next.msgs[c] = <<>>
  BY <1>1 DEF ClientsOK, Forget
<1>8. next.registered \subseteq next.clients
  BY <1>1 DEF ClientsOK
<1> QED
  BY <1>2, <1>3, <1>4, <1>5, <1>6, <1>7, <1>8 DEF ClientsOK

\* The ledger of the clients that stay.
LEMMA RemovedLedger ==
  ASSUME NEW room, ClientsOK(room), NEW s, NEW h, LedgerOK(room, s, h), NEW S
  PROVE  LedgerOK(Removed(room, S), Forget(s, S, 0), Forget(h, S, <<>>))
<1>1. <<>> \o <<>> = UpTo(0)
  BY UpToNone, EmptySeq, ConcatEmptySeq
<1> QED
  BY <1>1, EmptySeq DEF LedgerOK, Removed, Forget

\* add_client, with and without the loopback peer.
LEMMA JoinedOK ==
  ASSUME NEW room, ClientsOK(room), NEW c \in Clients, c \notin room.clients,
         HasPlace(room, c), NEW is_loopback \in BOOLEAN
  PROVE  LET next == Joined(room, c, is_loopback)
         IN  /\ ClientsOK(next)
             /\ next.msgs = Drained(room.msgs, room.clients)
             /\ room.clients \cup {c} \subseteq next.clients
<1> DEFINE msgs == [room EXCEPT !.msgs = Drained(@, room.clients)]
           in == NewClient(msgs, c)
           I1 == Elected(room, c)
           elected == [in EXCEPT !.initiators = I1]
<1>1. /\ ClientsOK(msgs) /\ msgs.clients = room.clients
      /\ msgs.initiators = room.initiators
      /\ msgs.msgs = Drained(room.msgs, room.clients)
  BY DrainedOK
<1>2. HasPlace(msgs, c)
  BY <1>1 DEF HasPlace
<1>3. /\ ClientsOK(in) /\ in.clients = room.clients \cup {c}
      /\ in.msgs = Drained(room.msgs, room.clients)
  <2> HIDE DEF msgs
  <2> QED
    BY <1>1, <1>2, NewClientOK
<1>4. I1 \subseteq in.clients /\ Cardinality(I1) <= 1
  <2>1. CASE room.clients = {}
    <3>1. I1 = {c}
      BY <2>1 DEF Elected, ClientsOK
    <3>2. Cardinality({c}) = 1
      BY FS_Singleton
    <3> QED
      BY <1>3, <3>1, <3>2
  <2>2. CASE room.clients # {}
    <3>1. I1 \subseteq room.initiators
      BY <2>2 DEF Elected
    <3> QED
      BY <1>3, <3>1, SubsetSize DEF ClientsOK, Room
  <2> QED
    BY <2>1, <2>2
<1>5. /\ ClientsOK(elected) /\ elected.clients = room.clients \cup {c}
      /\ elected.msgs = Drained(room.msgs, room.clients)
  BY <1>3, <1>4, RolesOK
<1>6. NewClient([room EXCEPT !.msgs = Drained(@, room.clients),
                             !.initiators = Elected(room, c)], c) = elected
  BY DEF NewClient, ClientsOK, Room
<1> HIDE DEF elected
<1>7. CASE is_loopback /\ HasPlace(elected, Loopback)
  <2> DEFINE both == NewClient(elected, Loopback)
             I2 == both.initiators \ {Loopback}
  <2>1. /\ ClientsOK(both) /\ both.clients = elected.clients \cup {Loopback}
        /\ both.msgs = elected.msgs
    BY <1>5, <1>7, NewClientOK, V1Assumption
  <2> HIDE DEF both
  <2>2. I2 \subseteq both.initiators /\ I2 \subseteq both.clients /\ Cardinality(I2) <= 1
    <3>1. /\ both.initiators \subseteq Clients /\ both.initiators \subseteq both.clients
          /\ Cardinality(both.initiators) <= 1
      BY <2>1 DEF ClientsOK, Room
    <3> QED
      BY <3>1, SubsetSize
  <2>3. /\ ClientsOK([both EXCEPT !.initiators = I2])
        /\ [both EXCEPT !.initiators = I2].clients = both.clients
        /\ [both EXCEPT !.initiators = I2].msgs = both.msgs
    BY <2>1, <2>2, RolesOK
  <2>4. Joined(room, c, is_loopback) = [both EXCEPT !.initiators = I2]
    BY <1>6, <1>7 DEF Joined, both
  <2> QED
    BY <1>5, <2>1, <2>3, <2>4
<1>8. CASE ~(is_loopback /\ HasPlace(elected, Loopback))
  <2>1. Joined(room, c, is_loopback) = elected
    BY <1>6, <1>8 DEF Joined
  <2> QED
    BY <1>5, <2>1
<1> QED
  BY <1>7, <1>8

\* Room::register: the queue of the peer is empty once somebody can be
\* written to.
LEMMA RegisteredOK ==
  ASSUME NEW room, ClientsOK(room), NEW c \in Clients, HasPlace(room, c)
  PROVE  LET next == Registered(room, c)
         IN  /\ ClientsOK(next)
             /\ next.msgs = Drained(room.msgs, Peers(room, c))
             /\ next.clients = room.clients \cup {c}
<1> DEFINE in == NewClient(room, c)
           next == Registered(room, c)
<1>1. /\ ClientsOK(in) /\ in.clients = room.clients \cup {c}
      /\ in.registered = room.registered /\ in.initiators = room.initiators
      /\ in.msgs = room.msgs
  BY NewClientOK
<1>2. /\ next.clients = in.clients
      /\ next.registered = in.registered \cup {c}
      /\ next.initiators = in.initiators
      /\ next.timeout = [in.timeout EXCEPT ![c] = None]
      /\ next.msgs = Drained(in.msgs, Peers(room, c))
      /\ next \in Room
  BY <1>1, EmptySeq DEF Registered, Bound, ClientsOK, Room, Drained, Forget, None
<1>3. \A d \in Clients : next.timeout[d] # None <=> d \in next.clients \ next.registered
  BY <1>1, <1>2 DEF ClientsOK, Room
<1>4. \A d \in Clients : next.msgs[d] # <<>> => Peers(next, d) \cap next.registered = {}
  <2> SUFFICES ASSUME NEW d \in Clients, next.msgs[d] # <<>>
               PROVE  Peers(next, d) \cap next.registered = {}
    OBVIOUS
  <2>1. d \notin Peers(room, c) /\ in.msgs[d] # <<>>
    BY <1>1, <1>2 DEF Drained, Forget
  <2>2. Peers(in, d) \cap in.registered = {}
    BY <1>1, <2>1 DEF ClientsOK
  <2>3. CASE d = c
    BY <1>2, <2>2, <2>3 DEF Peers
  <2>4. CASE d # c
    <3>1. d \notin room.clients
      BY <2>1, <2>4 DEF Peers
    <3>2. room.msgs[d] = <<>>
      BY <3>1 DEF ClientsOK
    <3> QED
      BY <1>1, <2>1, <3>2
  <2> QED
    BY <2>3, <2>4
<1>5. \A d \in Clients \ next.clients : next.msgs[d] = <<>>
  BY <1>1, <1>2 DEF ClientsOK, Drained, Forget
<1>6. ClientsOK(next)
  BY <1>1, <1>2, <1>3, <1>4, <1>5 DEF ClientsOK
<1> QED
  BY <1>1, <1>2, <1>6

-----------------------------------------------------------------------------
(***************************************************************************)
(* The table.                                                              *)
(***************************************************************************)

\* A step of one room; the others are as they were.
OneRoom(r) ==
  /\ rooms' = [rooms EXCEPT ![r] = rooms'[r]]
  /\ sent' = [sent EXCEPT ![r] = sent'[r]]
  /\ handed' = [handed EXCEPT ![r] = handed'[r]]
  /\ present' = present \cup {r}
  /\ ClientsOK(rooms'[r])
  /\ LedgerOK(rooms'[r], sent'[r], handed'[r])
  /\ rooms'[r].clients # {}

\* A step of one room keeps the invariant of the table.
LEMMA OneRoomStep ==
  ASSUME IInv, NEW r \in Rooms, OneRoom(r)
  PROVE  IInv'
<1>1. /\ \A q \in Rooms \ {r} : /\ rooms'[q] = rooms[q] /\ sent'[q] = sent[q]
                               /\ handed'[q] = handed[q]
  BY DEF OneRoom, IInv
<1>2. \A q \in Rooms : ClientsOK(rooms'[q]) /\ LedgerOK(rooms'[q], sent'[q], handed'[q])
  BY <1>1 DEF OneRoom, IInv
<1>3. \A q \in Rooms : q \in present' <=> rooms'[q].clients # {}
  BY <1>1 DEF OneRoom, IInv
<1>4. rooms'[r] \in Room /\ sent'[r] \in [Clients -> Nat] /\ handed'[r] \in [Clients -> Seq(Nat)]
  BY <1>2 DEF ClientsOK, LedgerOK
<1>5. rooms' \in [Rooms -> Room]
  BY <1>4 DEF OneRoom, IInv
<1>6. sent' \in [Rooms -> [Clients -> Nat]]
  BY <1>4 DEF OneRoom, IInv
<1>7. handed' \in [Rooms -> [Clients -> Seq(Nat)]]
  BY <1>4 DEF OneRoom, IInv
<1>8. present' \subseteq Rooms
  BY DEF OneRoom, IInv
<1> QED
  BY <1>2, <1>3, <1>5, <1>6, <1>7, <1>8 DEF IInv

\* Handing the queues of S over and emptying them moves the messages from one
\* side of the ledger to the other.
LEMMA HandOverLedger ==
  ASSUME NEW room, ClientsOK(room), NEW s, NEW h, LedgerOK(room, s, h),
         NEW next, NEW S, next.msgs = Drained(room.msgs, S),
         room.clients \subseteq next.clients
  PROVE  LedgerOK(next, s, Flushed(h, room.msgs, S))
<1> DEFINE g == Flushed(h, room.msgs, S)
<1>1. ASSUME NEW c \in Clients
      PROVE  g[c] \in Seq(Nat) /\ g[c] \o next.msgs[c] = UpTo(s[c])
  <2>1. h[c] \in Seq(Nat) /\ room.msgs[c] \in Seq(Nat)
    BY DEF LedgerOK, ClientsOK, Room
  <2>2. h[c] \o room.msgs[c] \in Seq(Nat) /\ h[c] \o room.msgs[c] = UpTo(s[c])
    BY <2>1, ConcatProperties DEF LedgerOK
  <2>3. CASE c \in S
    <3>1. g[c] = h[c] \o room.msgs[c] /\ next.msgs[c] = <<>>
      BY <2>3 DEF Drained, Forget, Flushed
    <3>2. (h[c] \o room.msgs[c]) \o <<>> = h[c] \o room.msgs[c]
      BY <2>2, ConcatEmptySeq
    <3> QED
      BY <2>2, <3>1, <3>2
  <2>4. CASE c \notin S
    BY <2>1, <2>2, <2>4 DEF Drained, Forget, Flushed
  <2> QED
    BY <2>3, <2>4
<1>2. g \in [Clients -> Seq(Nat)]
  BY <1>1 DEF Flushed
<1> HIDE DEF g
<1>3. LedgerOK(next, s, g)
  BY <1>1, <1>2 DEF LedgerOK
<1> QED
  BY <1>3 DEF g

\* Join: the answer takes the queues along.
LEMMA JoinStep ==
  ASSUME IInv, NEW r \in Rooms, NEW c \in Clients, NEW is_loopback \in BOOLEAN,
         Join(r, c, is_loopback)
  PROVE  IInv'
<1> DEFINE room == rooms[r]
           next == Joined(room, c, is_loopback)
<1>1. ClientsOK(room) /\ LedgerOK(room, sent[r], handed[r])
  BY DEF IInv
<1>2. /\ ClientsOK(next) /\ next.msgs = Drained(room.msgs, room.clients)
      /\ room.clients \cup {c} \subseteq next.clients
  BY <1>1, JoinedOK DEF Join
<1>3. LedgerOK(next, sent[r], Flushed(handed[r], room.msgs, room.clients))
  <2> HIDE DEF next
  <2> QED
    BY <1>1, <1>2, HandOverLedger
<1>4. /\ rooms' = [rooms EXCEPT ![r] = next] /\ rooms'[r] = next
      /\ sent' = sent /\ present' = present \cup {r}
      /\ handed' = [handed EXCEPT ![r] = Flushed(handed[r], room.msgs, room.clients)]
  BY DEF Join, HandOver, IInv
<1>5. OneRoom(r)
  BY <1>2, <1>3, <1>4 DEF OneRoom, IInv
<1> QED
  BY <1>5, OneRoomStep

\* Register: the peer's queue goes to the new connection.
LEMMA RegisterStep ==
  ASSUME IInv, NEW r \in Rooms, NEW c \in Clients, Register(r, c)
  PROVE  IInv'
<1> DEFINE room == rooms[r]
           next == Registered(room, c)
           S == Peers(room, c)
<1>1. ClientsOK(room) /\ LedgerOK(room, sent[r], handed[r])
  BY DEF IInv
<1>2. /\ ClientsOK(next) /\ next.msgs = Drained(room.msgs, S)
      /\ next.clients = room.clients \cup {c}
  BY <1>1, RegisteredOK DEF Register
<1>3. LedgerOK(next, sent[r], Flushed(handed[r], room.msgs, S))
  <2> HIDE DEF next
  <2> QED
    BY <1>1, <1>2, HandOverLedger
<1>4. /\ rooms' = [rooms EXCEPT ![r] = next] /\ rooms'[r] = next
      /\ sent' = sent /\ present' = present \cup {r}
      /\ handed' = [handed EXCEPT ![r] = Flushed(handed[r], room.msgs, S)]
  BY DEF Register, HandOver, IInv
<1>5. OneRoom(r)
  BY <1>2, <1>3, <1>4 DEF OneRoom, IInv
<1> QED
  BY <1>5, OneRoomStep

\* A message is relayed at once only when nothing older waits.
LEMMA SendStep ==
  ASSUME IInv, NEW r \in Rooms, NEW c \in Clients, Send(r, c)
  PROVE  IInv'
<1> DEFINE room == NewClient(rooms[r], c)
           n == sent[r][c] + 1
           m == room.msgs[c]
           h == handed[r][c]
           s1 == [sent[r] EXCEPT ![c] = n]
<1>1. ClientsOK(rooms[r]) /\ LedgerOK(rooms[r], sent[r], handed[r])
  BY DEF IInv
<1>2. /\ ClientsOK(room) /\ room.clients = rooms[r].clients \cup {c}
      /\ room.msgs = rooms[r].msgs
  BY <1>1, NewClientOK DEF Send
<1> HIDE DEF room
<1>3. /\ h \in Seq(Nat) /\ m \in Seq(Nat) /\ h \o m = UpTo(sent[r][c])
      /\ sent[r][c] \in Nat /\ n \in Nat
  <2>1. h \in Seq(Nat) /\ h \o rooms[r].msgs[c] = UpTo(sent[r][c]) /\ sent[r][c] \in Nat
    BY <1>1 DEF LedgerOK
  <2>2. rooms[r].msgs[c] \in Seq(Nat)
    BY <1>1 DEF ClientsOK, Room
  <2> QED
    BY <1>2, <2>1, <2>2
<1>4. Append(h \o m, n) = UpTo(n)
  BY <1>3, UpToNext
<1>5. sent' = [sent EXCEPT ![r] = s1] /\ present' = present \cup {r} /\ sent'[r] = s1
  BY DEF Send, IInv
<1>6. CASE /\ Peers(room, c) \cap room.registered # {}
           /\ rooms' = [rooms EXCEPT ![r] = room]
           /\ handed' = [handed EXCEPT ![r][c] = Append(@, n)]
  <2> DEFINE h1 == [handed[r] EXCEPT ![c] = Append(@, n)]
  <2>1. m = <<>>
    BY <1>2, <1>6 DEF ClientsOK
  <2>2. /\ h = h \o m /\ Append(h, n) \in Seq(Nat)
        /\ Append(h, n) \o <<>> = Append(h, n)
    BY <1>3, <2>1, ConcatEmptySeq, AppendProperties
  <2>3. Append(h, n) \o m = UpTo(n)
    BY <1>4, <2>1, <2>2
  <2>4. LedgerOK(room, s1, h1)
    BY <1>1, <1>2, <1>3, <2>2, <2>3 DEF LedgerOK
  <2>5. rooms'[r] = room /\ handed' = [handed EXCEPT ![r] = h1] /\ handed'[r] = h1
    BY <1>6 DEF IInv
  <2>6. OneRoom(r)
    BY <1>2, <1>5, <1>6, <2>4, <2>5 DEF OneRoom
  <2> QED
    BY <2>6, OneRoomStep
<1>7. CASE /\ Peers(room, c) \cap room.registered = {}
           /\ rooms' = [rooms EXCEPT ![r] = [room EXCEPT !.msgs[c] = Append(@, n)]]
           /\ UNCHANGED handed
  <2> DEFINE next == [room EXCEPT !.msgs[c] = Append(@, n)]
  <2>1. Append(m, n) \in Seq(Nat)
    BY <1>3, AppendProperties
  <2>2. /\ next \in Room
        /\ next.clients = room.clients /\ next.registered = room.registered
        /\ next.timeout = room.timeout /\ next.initiators = room.initiators
        /\ next.msgs = [room.msgs EXCEPT ![c] = Append(m, n)]
    BY <1>2, <2>1 DEF ClientsOK, Room
  <2> HIDE DEF next
  <2>3. ClientsOK(next)
    BY <1>2, <1>7, <2>2 DEF ClientsOK, Peers
  <2>4. h \o Append(m, n) = UpTo(n)
    BY <1>3, <1>4, QueueOne
  <2>5. LedgerOK(next, s1, handed[r])
    <3>1. s1 \in [Clients -> Nat] /\ handed[r] \in [Clients -> Seq(Nat)]
      BY <1>1, <1>3 DEF LedgerOK
    <3>2. \A d \in Clients : handed[r][d] \o next.msgs[d] = UpTo(s1[d])
      <4> SUFFICES ASSUME NEW d \in Clients PROVE handed[r][d] \o next.msgs[d] = UpTo(s1[d])
        OBVIOUS
      <4>0. sent[r] \in [Clients -> Nat] /\ room.msgs \in [Clients -> Seq(Nat)]
        BY <1>1, <1>2 DEF LedgerOK, ClientsOK, Room
      <4>1. CASE d = c
        <5>1. next.msgs[d] = Append(m, n) /\ s1[d] = n
          BY <4>0, <4>1, <2>2
        <5> QED
          BY <4>1, <5>1, <2>4
      <4>2. CASE d # c
        <5>1. next.msgs[d] = rooms[r].msgs[d] /\ s1[d] = sent[r][d]
          BY <4>0, <4>2, <2>2, <1>2
        <5> QED
          BY <5>1, <1>1 DEF LedgerOK
      <4> QED
        BY <4>1, <4>2
    <3>3. \A d \in Clients \ next.clients : s1[d] = 0
      BY <1>1, <1>2, <2>2 DEF LedgerOK
    <3> QED
      BY <3>1, <3>2, <3>3 DEF LedgerOK
  <2>6. rooms' = [rooms EXCEPT ![r] = next] /\ rooms'[r] = next
    BY <1>7 DEF IInv, next
  <2>7. OneRoom(r)
    BY <1>2, <1>5, <1>7, <2>2, <2>3, <2>5, <2>6 DEF OneRoom, IInv
  <2> QED
    BY <2>7, OneRoomStep
<1> QED
  BY <1>6, <1>7 DEF Send, RelayOrQueue, room

\* Leave, remove_if_unregistered and handle_timeout.
LEMMA RemoveStep ==
  ASSUME IInv, NEW gone, Remove(gone)
  PROVE  IInv'
<1>1. ASSUME NEW r \in Rooms
      PROVE  /\ ClientsOK(rooms'[r])
             /\ LedgerOK(rooms'[r], sent'[r], handed'[r])
             /\ rooms'[r].clients \subseteq rooms[r].clients
  <2>1. ClientsOK(rooms[r]) /\ LedgerOK(rooms[r], sent[r], handed[r])
    BY DEF IInv
  <2>2. /\ rooms'[r] = Removed(rooms[r], gone[r])
        /\ sent'[r] = Forget(sent[r], gone[r], 0)
        /\ handed'[r] = Forget(handed[r], gone[r], <<>>)
    BY DEF Remove
  <2>3. Removed(rooms[r], gone[r]).clients \subseteq rooms[r].clients
    BY DEF Removed
  <2> QED
    BY <2>1, <2>2, <2>3, RemovedOK, RemovedLedger
<1>2. \A r \in Rooms : r \in present' <=> rooms'[r].clients # {}
  BY <1>1 DEF Remove, Occupied, IInv
<1>3. present' \subseteq Rooms
  BY DEF Remove, Occupied, IInv
<1>4. /\ \A r \in Rooms : rooms'[r] \in Room
      /\ \A r \in Rooms : sent'[r] \in [Clients -> Nat]
      /\ \A r \in Rooms : handed'[r] \in [Clients -> Seq(Nat)]
  BY <1>1 DEF ClientsOK, LedgerOK
<1>5. /\ rooms' \in [Rooms -> Room]
      /\ sent' \in [Rooms -> [Clients -> Nat]]
      /\ handed' \in [Rooms -> [Clients -> Seq(Nat)]]
  BY <1>4 DEF Remove
<1> QED
  BY <1>1, <1>2, <1>3, <1>5 DEF IInv

\* Steps that only touch registrations and timeouts.
LEMMA TimersStep ==
  ASSUME IInv, UNCHANGED <<present, sent, handed>>, rooms' \in [Rooms -> Room],
         \A r \in Rooms : /\ ClientsOK(rooms'[r])
                          /\ rooms'[r].clients = rooms[r].clients
                          /\ rooms'[r].msgs = rooms[r].msgs
  PROVE  IInv'
BY DEF IInv, LedgerOK

\* Deregister: the registration is exchanged for a running timeout.
LEMMA DeregisterStep ==
  ASSUME IInv, NEW r \in Rooms, NEW c \in Clients, Deregister(r, c)
  PROVE  IInv'
<1> DEFINE next == Deregistered(rooms[r], c)
<1>1. ClientsOK(rooms[r]) /\ c \in rooms[r].registered
  BY DEF IInv, Deregister
<1>2. /\ next \in Room
      /\ next.clients = rooms[r].clients /\ next.initiators = rooms[r].initiators
      /\ next.msgs = rooms[r].msgs /\ next.registered = rooms[r].registered \ {c}
      /\ next.timeout = [rooms[r].timeout EXCEPT ![c] = Timeout]
  BY <1>1, V1Assumption DEF Deregistered, ClientsOK, Room
<1>3. \A d \in Clients : next.timeout[d] # None <=> d \in next.clients \ next.registered
  BY <1>1, <1>2, V1Assumption DEF ClientsOK, Room, None
<1>4. ClientsOK(next)
  BY <1>1, <1>2, <1>3 DEF ClientsOK, Peers
<1>5. rooms' = [rooms EXCEPT ![r] = next]
  BY DEF Deregister
<1> HIDE DEF next
<1> QED
  BY <1>2, <1>4, <1>5, TimersStep DEF Deregister, IInv

\* Tick: a timeout that runs keeps running until it is due.
LEMMA TickStep ==
  ASSUME IInv, Tick
  PROVE  IInv'
<1>1. ASSUME NEW r \in Rooms
      PROVE  /\ rooms'[r] \in Room /\ ClientsOK(rooms'[r])
             /\ rooms'[r].clients = rooms[r].clients
             /\ rooms'[r].msgs = rooms[r].msgs
  <2> DEFINE next == rooms'[r]
             old == rooms[r].timeout
             t == [c \in Clients |-> IF old[c] > 0 THEN old[c] - 1 ELSE old[c]]
  <2>1. ClientsOK(rooms[r])
    BY DEF IInv
  <2>2. next = [rooms[r] EXCEPT !.timeout =
                  [c \in Clients |-> IF @[c] > 0 THEN @[c] - 1 ELSE @[c]]]
    BY DEF Tick
  <2>3. /\ next \in Room
        /\ next.clients = rooms[r].clients /\ next.initiators = rooms[r].initiators
        /\ next.msgs = rooms[r].msgs /\ next.registered = rooms[r].registered
        /\ next.timeout = t
    <3>1. t \in [Clients -> Nat \cup {None}]
      <4>1. \A c \in Clients : t[c] \in Nat \cup {None}
        BY <2>1 DEF ClientsOK, Room, None
      <4> QED
        BY <4>1
    <3>2. next = [rooms[r] EXCEPT !.timeout = t]
      BY <2>2
    <3> HIDE DEF t
    <3> QED
      BY <2>1, <3>1, <3>2 DEF ClientsOK, Room
  <2>4. \A d \in Clients : next.timeout[d] # None <=> rooms[r].timeout[d] # None
    BY <2>1, <2>3 DEF ClientsOK, Room, None
  <2> HIDE DEF next
  <2>5. ClientsOK(next)
    BY <2>1, <2>3, <2>4 DEF ClientsOK, Peers
  <2> QED
    BY <2>3, <2>5 DEF next
<1>2. rooms' \in [Rooms -> Room]
  BY <1>1 DEF Tick
<1> QED
  BY <1>1, <1>2, TimersStep DEF Tick

\* The table as new() and close() leave it.
LEMMA NothingThere ==
  /\ Init => IInv
  /\ Close => IInv'
<1>1. LedgerOK(EmptyRoom, [c \in Clients |-> 0], [c \in Clients |-> <<>>])
  <2>1. <<>> \o <<>> = UpTo(0)
    BY UpToNone, EmptySeq, ConcatEmptySeq
  <2> QED
    BY <2>1, EmptySeq DEF LedgerOK, EmptyRoom
<1>2. EmptyRoom \in Room /\ EmptyRoom.clients = {} /\ ClientsOK(EmptyRoom)
  BY EmptyOK DEF ClientsOK, EmptyRoom
<1>3. /\ [c \in Clients |-> 0] \in [Clients -> Nat]
      /\ [c \in Clients |-> <<>>] \in [Clients -> Seq(Nat)]
  BY EmptySeq
<1>4. ASSUME Init PROVE IInv
  BY <1>1, <1>2, <1>3, <1>4 DEF Init, IInv
<1>5. ASSUME Close PROVE IInv'
  BY <1>1, <1>2, <1>3, <1>5 DEF Close, IInv
<1> QED
  BY <1>4, <1>5

\* The invariant holds in every reachable state.
LEMMA IInvHolds == Spec => []IInv
<1>1. Init => IInv
  BY NothingThere
<1>2. ASSUME IInv, [Next]_vars
      PROVE  IInv'
  <2>1. CASE UNCHANGED vars
    BY <1>2, <2>1 DEF IInv, vars
  <2>2. ASSUME NEW r \in Rooms, NEW c \in Clients, ClientCall(r, c)
        PROVE  IInv'
    <3>1. CASE \E is_loopback \in BOOLEAN : Join(r, c, is_loopback)
      BY <1>2, <3>1, JoinStep
    <3>2. CASE Register(r, c)
      BY <1>2, <3>2, RegisterStep
    <3>3. CASE Send(r, c)
      BY <1>2, <3>3, SendStep
    <3>4. CASE Deregister(r, c)
      BY <1>2, <3>4, DeregisterStep
    <3>5. CASE Leave(r, c) \/ remove_if_unregistered(r, c)
      BY <1>2, <3>5, RemoveStep DEF Leave, remove_if_unregistered
    <3> QED
      BY <2>2, <3>1, <3>2, <3>3, <3>4, <3>5 DEF ClientCall
  <2>3. CASE handle_timeout
    BY <1>2, <2>3, RemoveStep DEF handle_timeout
  <2>4. CASE Tick
    BY <1>2, <2>4, TickStep
  <2>5. CASE Close
    BY <2>5, NothingThere
  <2> QED
    BY <1>2, <2>1, <2>2, <2>3, <2>4, <2>5 DEF Next
<1> QED
  BY <1>1, <1>2, PTL DEF Spec

\* TypeOK: the table's data keep their types and only clients of a room are
\* registered in it.
THEOREM V1TypeCorrect == Spec => []TypeOK
<1>1. IInv => TypeOK
  BY DEF IInv, TypeOK, ClientsOK
<1> QED
  BY <1>1, IInvHolds, PTL

\* Room::client bounds every way into a room: no room ever has a third client.
THEOREM V1Capacity == Spec => []Capacity
<1>1. IInv => Capacity
  BY DEF IInv, Capacity, ClientsOK
<1> QED
  BY <1>1, IInvHolds, PTL

\* Room::remove: a room of the table has a client, the entry goes with the
\* last one.
THEOREM V1EntriesUsed == Spec => []NoEmptyRoom
<1>1. IInv => NoEmptyRoom
  BY DEF IInv, NoEmptyRoom
<1> QED
  BY <1>1, IInvHolds, PTL

\* Client::register, Client::deregister: a timeout runs for exactly the clients
\* without a connection, so each of them comes back or goes.
THEOREM V1TimeoutsExact == Spec => []TimeoutIffUnregistered
<1>1. IInv => TimeoutIffUnregistered
  BY DEF IInv, TimeoutIffUnregistered, ClientsOK
<1> QED
  BY <1>1, IInvHolds, PTL

\* Room::add_client, Room::remove: promotion never makes a second initiator.
THEOREM V1InitiatorSole == Spec => []OneInitiator
<1>1. IInv => OneInitiator
  BY DEF IInv, OneInitiator, ClientsOK
<1> QED
  BY <1>1, IInvHolds, PTL

\* Room::send, Client::send: a client queues only while nobody else is there to
\* hand the message to.
THEOREM V1QueueAlone == Spec => []QueuedWhileAlone
<1>1. IInv => QueuedWhileAlone
  BY DEF IInv, QueuedWhileAlone, LedgerOK, ClientsOK
<1> QED
  BY <1>1, IInvHolds, PTL

\* Room::send, Room::register, Room::add_client: whatever the order in which
\* the two clients come, drop and return, no accepted message is lost,
\* repeated or overtaken while its sender is there.
THEOREM V1InOrderOnce == Spec => []InOrderOnce
<1>1. IInv => InOrderOnce
  BY DEF IInv, InOrderOnce, LedgerOK, ClientsOK
<1> QED
  BY <1>1, IInvHolds, PTL
============================================================================
