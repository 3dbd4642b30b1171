--------------------------- MODULE Collider_proofs ---------------------------
(***************************************************************************)
(* Theorems about the collider: every step of it is one of each room table *)
(* or leaves it alone, and the maps of sessions and connections agree with *)
(* the registrations of both tables.                                       *)
(*                                                                         *)
(* The five invariants are inductive together, with the types of the two   *)
(* tables.  What a call makes of a table matters here only as far as       *)
(* registrations go; the lemmas about the tables say that much.            *)
(***************************************************************************)
EXTENDS Collider, TLAPS

TablesOK ==
  /\ v1rooms \in [RoomsV1 -> V1!Room]
  /\ v1sent \in [RoomsV1 -> [ClientsV1 -> Nat]]
  /\ table \in [RoomsV2 -> V2!Room]

CInv ==
  /\ TypeOK /\ TablesOK
  /\ V1Exact /\ V2Reachable /\ LiveSessionsRegistered /\ SocketsAccounted

\* The registrations of the V1 table stay.
SameV1 == \A r \in RoomsV1 : v1rooms'[r].registered = v1rooms[r].registered

\* Nobody becomes registered in the V2 table, and who stays a member stays
\* registered, the clients of S excepted.
KeepsV2(S) ==
  \A r \in RoomsV2 :
    /\ table'[r].registered \subseteq table[r].registered
    /\ \A c \in table[r].registered \cap table'[r].members :
         <<r, c>> \notin S => c \in table'[r].registered

-----------------------------------------------------------------------------
(***************************************************************************)
(* The V1 table.                                                           *)
(***************************************************************************)

\* A room that nobody is in.
LEMMA EmptyRoomV1 == V1!EmptyRoom \in V1!Room /\ V1!EmptyRoom.registered = {}
BY DEF V1!EmptyRoom, V1!Room, V1!None

\* A client that is made has no connection.
LEMMA NewClientV1 ==
  ASSUME NEW room \in V1!Room, NEW c \in ClientsV1
  PROVE  /\ V1!NewClient(room, c) \in V1!Room
         /\ V1!NewClient(room, c).registered = room.registered
BY TableAssumption DEF V1!NewClient, V1!Room

\* Forgetting what some clients have keeps the types.
LEMMA ForgetTypes ==
  ASSUME NEW T, NEW f \in [ClientsV1 -> T], NEW S, NEW e \in T
  PROVE  V1!Forget(f, S, e) \in [ClientsV1 -> T]
BY DEF V1!Forget

\* A join binds no connection.
LEMMA JoinV1 ==
  ASSUME TablesOK, NEW r \in RoomsV1, NEW c \in ClientsV1, NEW is_loopback \in BOOLEAN,
         V1!Join(r, c, is_loopback), UNCHANGED table
  PROVE  TablesOK' /\ SameV1
<1> DEFINE room == v1rooms[r]
           drained == [room EXCEPT !.msgs = V1!Drained(@, room.clients),
                                   !.initiators = V1!Elected(room, c)]
           in == V1!NewClient(drained, c)
           both == V1!NewClient(in, Loopback)
           new == V1!Joined(room, c, is_loopback)
<1>1. room \in V1!Room
  BY DEF TablesOK
<1>2. drained \in V1!Room /\ drained.registered = room.registered
  <2>1. V1!Drained(room.msgs, room.clients) \in [ClientsV1 -> Seq(Nat)]
    <3>1. room.msgs \in [ClientsV1 -> Seq(Nat)] /\ <<>> \in Seq(Nat)
      BY <1>1 DEF V1!Room
    <3> QED
      BY <3>1, ForgetTypes DEF V1!Drained
  <2>2. V1!Elected(room, c) \in SUBSET ClientsV1
    BY <1>1 DEF V1!Elected, V1!Room
  <2> HIDE DEF room
  <2> QED
    BY <1>1, <2>1, <2>2 DEF V1!Room
<1>3. in \in V1!Room /\ in.registered = room.registered
  <2> HIDE DEF drained
  <2> QED
    BY <1>2, NewClientV1
<1>4. both \in V1!Room /\ both.registered = room.registered
  <2> HIDE DEF in
  <2> QED
    BY <1>3, NewClientV1, TableAssumption
<1>5. new = IF is_loopback /\ V1!HasPlace(in, Loopback)
              THEN [both EXCEPT !.initiators = @ \ {Loopback}]
              ELSE in
  BY DEF V1!Joined
<1>6. new \in V1!Room /\ new.registered = room.registered
  <2> HIDE DEF both, in, new, room
  <2>1. /\ [both EXCEPT !.initiators = @ \ {Loopback}] \in V1!Room
        /\ [both EXCEPT !.initiators = @ \ {Loopback}].registered = room.registered
    BY <1>4 DEF V1!Room
  <2> QED
    BY <1>3, <1>5, <2>1
<1>7. v1rooms' = [v1rooms EXCEPT ![r] = new] /\ v1sent' = v1sent
  BY DEF V1!Join
<1> HIDE DEF new
<1> QED
  BY <1>6, <1>7 DEF TablesOK, SameV1

\* A registration binds one connection.
LEMMA RegisterV1Table ==
  ASSUME TablesOK, NEW r \in RoomsV1, NEW c \in ClientsV1, V1!Register(r, c),
         UNCHANGED table
  PROVE  /\ TablesOK' /\ c \notin v1rooms[r].registered
         /\ \A q \in RoomsV1 : v1rooms'[q].registered =
              IF q = r THEN v1rooms[q].registered \cup {c} ELSE v1rooms[q].registered
<1> DEFINE room == V1!NewClient(v1rooms[r], c)
           new == V1!Registered(v1rooms[r], c)
<1>1. room \in V1!Room /\ room.registered = v1rooms[r].registered
  BY NewClientV1 DEF TablesOK
<1>2. V1!Bound(room, c) \in V1!Room
      /\ V1!Bound(room, c).registered = v1rooms[r].registered \cup {c}
  <2> HIDE DEF room
  <2> QED
    BY <1>1 DEF V1!Bound, V1!Room, V1!None
<1>3. new \in V1!Room /\ new.registered = v1rooms[r].registered \cup {c}
  <2> DEFINE bound == V1!Bound(room, c)
  <2>1. V1!Drained(bound.msgs, V1!Peers(v1rooms[r], c)) \in [ClientsV1 -> Seq(Nat)]
    <3>1. bound.msgs \in [ClientsV1 -> Seq(Nat)] /\ <<>> \in Seq(Nat)
      BY <1>2 DEF V1!Room
    <3> QED
      BY <3>1, ForgetTypes DEF V1!Drained
  <2>2. new = [bound EXCEPT !.msgs = V1!Drained(@, V1!Peers(v1rooms[r], c))]
    BY DEF V1!Registered
  <2> HIDE DEF bound
  <2>3. bound \in V1!Room /\ bound.registered = v1rooms[r].registered \cup {c}
    BY <1>2 DEF bound
  <2> HIDE DEF new
  <2> QED
    BY <2>1, <2>2, <2>3 DEF V1!Room
<1>4. /\ v1rooms' = [v1rooms EXCEPT ![r] = new] /\ v1sent' = v1sent
      /\ c \notin v1rooms[r].registered
  BY DEF V1!Register
<1> HIDE DEF new
<1> QED
  BY <1>3, <1>4 DEF TablesOK

\* A message binds no connection.
LEMMA SendV1Table ==
  ASSUME TablesOK, NEW r \in RoomsV1, NEW c \in ClientsV1, V1!Send(r, c),
         UNCHANGED table
  PROVE  TablesOK' /\ SameV1
<1> DEFINE room == V1!NewClient(v1rooms[r], c)
           n == v1sent[r][c] + 1
           queued == [room EXCEPT !.msgs[c] = Append(@, n)]
<1>1. room \in V1!Room /\ room.registered = v1rooms[r].registered
  BY NewClientV1 DEF TablesOK
<1>2. n \in Nat
  BY DEF TablesOK
<1>3. queued \in V1!Room /\ queued.registered = room.registered
  <2> HIDE DEF n, room
  <2>1. room.msgs \in [ClientsV1 -> Seq(Nat)] /\ Append(room.msgs[c], n) \in Seq(Nat)
    BY <1>1, <1>2 DEF V1!Room
  <2> QED
    BY <1>1, <2>1 DEF V1!Room
<1>4. /\ v1rooms' \in {[v1rooms EXCEPT ![r] = room], [v1rooms EXCEPT ![r] = queued]}
      /\ v1sent' = [v1sent EXCEPT ![r][c] = n]
  BY DEF V1!Send, V1!RelayOrQueue
<1>5. v1sent' \in [RoomsV1 -> [ClientsV1 -> Nat]]
  <2> HIDE DEF n
  <2> QED
    BY <1>2, <1>4 DEF TablesOK
<1> HIDE DEF room, queued
<1>6. v1rooms' \in [RoomsV1 -> V1!Room] /\ SameV1
  BY <1>1, <1>3, <1>4 DEF TablesOK, SameV1
<1> QED
  BY <1>5, <1>6 DEF TablesOK

\* Removing clients takes their registrations.
LEMMA RemoveV1Table ==
  ASSUME TablesOK, NEW gone, V1!Remove(gone), UNCHANGED table
  PROVE  /\ TablesOK'
         /\ \A r \in RoomsV1 : v1rooms'[r].registered = v1rooms[r].registered \ gone[r]
<1>1. /\ v1rooms' = [r \in RoomsV1 |-> V1!Removed(v1rooms[r], gone[r])]
      /\ v1sent' = [r \in RoomsV1 |-> V1!Forget(v1sent[r], gone[r], 0)]
  BY DEF V1!Remove
<1>2. ASSUME NEW room \in V1!Room, NEW S
      PROVE  V1!Removed(room, S) \in V1!Room
             /\ V1!Removed(room, S).registered = room.registered \ S
  <2>1. /\ V1!Forget(room.timeout, S, V1!None) \in [ClientsV1 -> Nat \cup {V1!None}]
        /\ V1!Forget(room.msgs, S, <<>>) \in [ClientsV1 -> Seq(Nat)]
    <3>1. /\ room.timeout \in [ClientsV1 -> Nat \cup {V1!None}]
          /\ room.msgs \in [ClientsV1 -> Seq(Nat)]
      BY DEF V1!Room
    <3>2. V1!None \in Nat \cup {V1!None} /\ <<>> \in Seq(Nat)
      OBVIOUS
    <3> QED
      BY <3>1, <3>2, ForgetTypes
  <2> QED
    BY <2>1 DEF V1!Removed, V1!Room
<1>3. v1sent' \in [RoomsV1 -> [ClientsV1 -> Nat]]
  BY <1>1, ForgetTypes DEF TablesOK
<1> QED
  BY <1>1, <1>2, <1>3 DEF TablesOK

\* Deregistering takes one registration.
LEMMA DeregisterV1Table ==
  ASSUME TablesOK, NEW r \in RoomsV1, NEW c \in ClientsV1, V1!Deregister(r, c),
         UNCHANGED table
  PROVE  /\ TablesOK'
         /\ \A q \in RoomsV1 : v1rooms'[q].registered =
              IF q = r THEN v1rooms[q].registered \ {c} ELSE v1rooms[q].registered
<1> DEFINE new == V1!Deregistered(v1rooms[r], c)
<1>1. v1rooms[r] \in V1!Room
  BY DEF TablesOK
<1>2. new \in V1!Room /\ new.registered = v1rooms[r].registered \ {c}
  BY <1>1, TableAssumption DEF V1!Deregistered, V1!Room
<1>3. v1rooms' = [v1rooms EXCEPT ![r] = new] /\ v1sent' = v1sent
  BY DEF V1!Deregister
<1> HIDE DEF new
<1> QED
  BY <1>2, <1>3 DEF TablesOK

\* Time takes nobody who is registered.
LEMMA TimeV1 ==
  ASSUME TablesOK, V1!handle_timeout \/ V1!Tick, UNCHANGED table
  PROVE  TablesOK' /\ SameV1
<1>1. CASE V1!handle_timeout
  <2> DEFINE gone == [r \in RoomsV1 |-> V1!ExpiredClients(v1rooms[r])]
  <2>1. V1!Remove(gone)
    BY <1>1 DEF V1!handle_timeout
  <2>2. \A r \in RoomsV1 : gone[r] \cap v1rooms[r].registered = {}
    BY DEF V1!ExpiredClients, V1!Expired
  <2> HIDE DEF gone
  <2>3. /\ TablesOK'
        /\ \A r \in RoomsV1 : v1rooms'[r].registered = v1rooms[r].registered \ gone[r]
    BY <2>1, RemoveV1Table
  <2> QED
    BY <2>2, <2>3 DEF SameV1
<1>2. CASE V1!Tick
  <2>1. ASSUME NEW room \in V1!Room
        PROVE  LET new == [room EXCEPT !.timeout =
                             [c \in ClientsV1 |-> IF @[c] > 0 THEN @[c] - 1 ELSE @[c]]]
               IN  new \in V1!Room /\ new.registered = room.registered
    <3> DEFINE less == [c \in ClientsV1 |-> IF room.timeout[c] > 0 THEN room.timeout[c] - 1
                                                                   ELSE room.timeout[c]]
    <3>1. less \in [ClientsV1 -> Nat \cup {V1!None}]
      BY DEF V1!Room, V1!None
    <3> HIDE DEF less
    <3>2. /\ [room EXCEPT !.timeout = less] \in V1!Room
          /\ [room EXCEPT !.timeout = less].registered = room.registered
      BY <3>1 DEF V1!Room
    <3> QED
      BY <3>2 DEF less
  <2>2. /\ v1rooms' = [r \in RoomsV1 |-> [v1rooms[r] EXCEPT !.timeout =
             [c \in ClientsV1 |-> IF @[c] > 0 THEN @[c] - 1 ELSE @[c]]]]
        /\ v1sent' = v1sent
    BY <1>2 DEF V1!Tick
  <2> QED
    BY <2>1, <2>2 DEF TablesOK, SameV1
<1> QED
  BY <1>1, <1>2

-----------------------------------------------------------------------------
(***************************************************************************)
(* The V2 table.                                                           *)
(***************************************************************************)

\* A room that is not there.
LEMMA AbsentV2 ==
  /\ V2!Absent \in V2!Room
  /\ V2!Absent.members = {} /\ V2!Absent.registered = {}
BY DEF V2!Absent, V2!Room

\* Members go with their registrations.
LEMMA WithoutV2 ==
  ASSUME NEW room \in V2!Room, NEW S
  PROVE  /\ V2!Without(room, S) \in V2!Room
         /\ V2!Without(room, S).members = room.members \ S
         /\ V2!Without(room, S).registered = room.registered \ S
BY DEF V2!Without, V2!Room

\* A room that is reaped had no member.
LEMMA ReapedV2 ==
  ASSUME NEW room \in V2!Room
  PROVE  /\ V2!Reaped(room) \in V2!Room
         /\ V2!Reaped(room).registered \subseteq room.registered
         /\ V2!Reaped(room).members = room.members
         /\ room.members # {} => V2!Reaped(room).registered = room.registered
BY AbsentV2 DEF V2!Reaped

\* What a room makes of its registrations, when those of S may be given up.
Shrinks(old, new, S) ==
  /\ new \in V2!Room
  /\ new.registered \subseteq old.registered
  /\ (old.registered \cap new.members) \ S \subseteq new.registered

\* One room of the table shrinks so.
LEMMA ShrinksKeeps ==
  ASSUME TablesOK, UNCHANGED <<v1rooms, v1sent>>,
         NEW r \in RoomsV2, NEW new, table' = [table EXCEPT ![r] = new],
         NEW S, Shrinks(table[r], new, S)
  PROVE  TablesOK' /\ KeepsV2({r} \X S) /\ table'[r] = new
<1>1. table \in [RoomsV2 -> V2!Room] /\ new \in V2!Room
  BY DEF TablesOK, Shrinks
<1>2. table'[r] = new /\ \A q \in RoomsV2 : q # r => table'[q] = table[q]
  BY <1>1
<1>3. TablesOK'
  BY <1>1 DEF TablesOK
<1>4. KeepsV2({r} \X S)
  <2> SUFFICES ASSUME NEW q \in RoomsV2
               PROVE  /\ table'[q].registered \subseteq table[q].registered
                      /\ \A c \in table[q].registered \cap table'[q].members :
                           <<q, c>> \notin {r} \X S => c \in table'[q].registered
    BY DEF KeepsV2
  <2>1. CASE q = r
    BY <1>2, <2>1 DEF Shrinks
  <2>2. CASE q # r
    BY <1>2, <2>2
  <2> QED
    BY <2>1, <2>2
<1> QED
  BY <1>2, <1>3, <1>4

\* No registration is given up.
LEMMA ShrinksKeepsAll ==
  ASSUME TablesOK, UNCHANGED <<v1rooms, v1sent>>,
         NEW r \in RoomsV2, NEW new, table' = [table EXCEPT ![r] = new],
         Shrinks(table[r], new, {})
  PROVE  TablesOK' /\ KeepsV2({}) /\ table'[r] = new
<1>1. TablesOK' /\ KeepsV2({r} \X {}) /\ table'[r] = new
  BY ShrinksKeeps
<1>2. {r} \X {} = {}
  OBVIOUS
<1> QED
  BY <1>1, <1>2

\* A registration adds one, of a member.
LEMMA RegisterV2Table ==
  ASSUME TablesOK, UNCHANGED <<v1rooms, v1sent>>,
         NEW r \in RoomsV2, NEW c \in ClientsV2, V2!Register(r, c)
  PROVE  /\ TablesOK' /\ c \notin table[r].registered /\ c \in table'[r].members
         /\ \A q \in RoomsV2 : table'[q].registered =
              IF q = r THEN table[q].registered \cup {c} ELSE table[q].registered
<1> DEFINE new == [table[r] EXCEPT !.registered = @ \cup {c}]
<1>1. /\ c \notin table[r].registered /\ c \in table[r].members
      /\ table' = [table EXCEPT ![r] = new]
  BY DEF V2!Register, V2!Becomes
<1>2. table[r] \in V2!Room
  BY DEF TablesOK
<1>3. /\ new \in V2!Room /\ new.registered = table[r].registered \cup {c}
      /\ new.members = table[r].members
  BY <1>2 DEF V2!Room
<1> HIDE DEF new
<1> QED
  BY <1>1, <1>3 DEF TablesOK

\* The end of a registration takes that one.
LEMMA DeregisterV2Table ==
  ASSUME TablesOK, UNCHANGED <<v1rooms, v1sent>>,
         NEW r \in RoomsV2, NEW c \in ClientsV2,
         V2!Deregister(r, c) \/ V2!DeregisterLeave(r, c)
  PROVE  TablesOK' /\ KeepsV2({<<r, c>>}) /\ c \notin table'[r].registered
<1> DEFINE new == [table[r] EXCEPT !.registered = @ \ {c}]
<1>1. table' = [table EXCEPT ![r] = new]
  BY DEF V2!Deregister, V2!Becomes, V2!DeregisterLeave
<1>2. table[r] \in V2!Room
  BY DEF TablesOK
<1>3. /\ new \in V2!Room /\ new.registered = table[r].registered \ {c}
      /\ new.members = table[r].members
  BY <1>2 DEF V2!Room
<1> HIDE DEF new
<1>4. Shrinks(table[r], new, {c})
  BY <1>3 DEF Shrinks
<1>5. TablesOK' /\ KeepsV2({r} \X {c}) /\ table'[r] = new
  BY <1>1, <1>4, ShrinksKeeps
<1>6. {r} \X {c} = {<<r, c>>}
  OBVIOUS
<1> QED
  BY <1>3, <1>5, <1>6

\* A removal from a P2P room takes the client and its registration.
LEMMA RemoveV2Table ==
  ASSUME TablesOK, UNCHANGED <<v1rooms, v1sent>>,
         NEW r \in RoomsV2, NEW c \in ClientsV2, V2!RemoveNow(r, c)
  PROVE  TablesOK' /\ KeepsV2({}) /\ c \notin table'[r].registered
<1> DEFINE less == V2!Without(table[r], {c})
           new == V2!Reaped(less)
<1>1. table' = [table EXCEPT ![r] = new]
  BY DEF V2!RemoveNow, V2!Becomes
<1>2. table[r] \in V2!Room
  BY DEF TablesOK
<1>3. /\ less \in V2!Room /\ less.registered = table[r].registered \ {c}
      /\ less.members = table[r].members \ {c}
  BY <1>2, WithoutV2
<1> HIDE DEF less
<1>4. /\ new \in V2!Room /\ new.registered \subseteq less.registered
      /\ new.members = less.members
      /\ less.members # {} => new.registered = less.registered
  BY <1>3, ReapedV2
<1> HIDE DEF new
<1>5. Shrinks(table[r], new, {}) /\ c \notin new.registered
  BY <1>3, <1>4 DEF Shrinks
<1> QED
  BY <1>1, <1>5, ShrinksKeepsAll

\* An answered leave takes the client and its registration.
LEMMA LeftV2Table ==
  ASSUME TablesOK, UNCHANGED <<v1rooms, v1sent>>,
         NEW r \in RoomsV2, NEW c \in ClientsV2, V2!Left(r, c)
  PROVE  TablesOK' /\ KeepsV2({}) /\ c \notin table'[r].registered
<1> DEFINE less == V2!Without(table[r], {c})
           done == [less EXCEPT !.removal = FALSE]
           new == V2!Reaped(done)
<1>1. table' = [table EXCEPT ![r] = new]
  BY DEF V2!Left
<1>2. table[r] \in V2!Room
  BY DEF TablesOK
<1>3. /\ less \in V2!Room /\ less.registered = table[r].registered \ {c}
      /\ less.members = table[r].members \ {c}
  BY <1>2, WithoutV2
<1> HIDE DEF less
<1>4. /\ done \in V2!Room /\ done.registered = table[r].registered \ {c}
      /\ done.members = table[r].members \ {c}
  BY <1>3 DEF V2!Room
<1> HIDE DEF done
<1>5. /\ new \in V2!Room /\ new.registered \subseteq done.registered
      /\ new.members = done.members
      /\ done.members # {} => new.registered = done.registered
  BY <1>4, ReapedV2
<1> HIDE DEF new
<1>6. Shrinks(table[r], new, {}) /\ c \notin new.registered
  BY <1>4, <1>5 DEF Shrinks
<1> QED
  BY <1>1, <1>6, ShrinksKeepsAll

\* The steps that concern no session.
V2Step(r, c) ==
  \/ V2!AdmitAtOnce(r, c)
  \/ V2!AdmitLater(r, c)
  \/ \E removal \in BOOLEAN : V2!AskLeave(r, c, removal)
  \/ V2!Stayed(r, c)

V2RoomStep(r) ==
  \/ V2!Commit(r) \/ V2!Abandon(r) \/ V2!Entered(r) \/ V2!Refused(r)
  \/ V2!Fail(r) \/ V2!Reap(r) \/ V2!Downgrade(r)

\* An admission, or a leave that is asked for or refused, changes no
\* registration.
LEMMA StepV2Table ==
  ASSUME TablesOK, UNCHANGED <<v1rooms, v1sent>>,
         NEW r \in RoomsV2, NEW c \in ClientsV2, V2Step(r, c)
  PROVE  TablesOK' /\ KeepsV2({})
<1>1. table[r] \in V2!Room /\ table \in [RoomsV2 -> V2!Room]
  BY DEF TablesOK
<1>2. CASE V2!AdmitAtOnce(r, c)
  <2> DEFINE new == [table[r] EXCEPT !.mode = "P2p", !.members = table[r].members \cup {c}]
  <2>1. table' = [table EXCEPT ![r] = new]
    BY <1>2 DEF V2!AdmitAtOnce, V2!Becomes
  <2>2. new \in V2!Room /\ new.registered = table[r].registered
    BY <1>1 DEF V2!Room
  <2> HIDE DEF new
  <2>3. Shrinks(table[r], new, {})
    BY <2>2 DEF Shrinks
  <2> QED
    BY <2>1, <2>3, ShrinksKeepsAll
<1>3. CASE V2!AdmitLater(r, c)
  <2> DEFINE new == [table[r] EXCEPT !.mode = IF @ = "P2p" THEN "Upgrading" ELSE @,
                                     !.members = @ \cup {c},
                                     !.entering = {c}]
  <2>1. table' = [table EXCEPT ![r] = new]
    BY <1>3 DEF V2!AdmitLater, V2!Becomes
  <2>2. new \in V2!Room /\ new.registered = table[r].registered
    BY <1>1 DEF V2!Room
  <2> HIDE DEF new
  <2>3. Shrinks(table[r], new, {})
    BY <2>2 DEF Shrinks
  <2> QED
    BY <2>1, <2>3, ShrinksKeepsAll
<1>4. ASSUME NEW removal \in BOOLEAN, table' = [table EXCEPT ![r].removal = removal]
      PROVE  TablesOK' /\ KeepsV2({})
  <2> DEFINE new == [table[r] EXCEPT !.removal = removal]
  <2>1. table' = [table EXCEPT ![r] = new]
    BY <1>1, <1>4
  <2>2. new \in V2!Room /\ new.registered = table[r].registered
    BY <1>1 DEF V2!Room
  <2> HIDE DEF new
  <2>3. Shrinks(table[r], new, {})
    BY <2>2 DEF Shrinks
  <2> QED
    BY <2>1, <2>3, ShrinksKeepsAll
<1>5. CASE \E removal \in BOOLEAN : V2!AskLeave(r, c, removal)
  BY <1>4, <1>5 DEF V2!AskLeave
<1>6. CASE V2!Stayed(r, c)
  <2>1. CASE table' = table
    BY <1>1, <2>1 DEF TablesOK, KeepsV2
  <2>2. CASE table' = [table EXCEPT ![r].removal = FALSE]
    BY <1>4, <2>2
  <2> QED
    BY <1>6, <2>1, <2>2 DEF V2!Stayed
<1> QED
  BY <1>2, <1>3, <1>5, <1>6 DEF V2Step

\* A room that changes its mode, or loses members, keeps the registrations of
\* those who stay.
LEMMA RoomStepV2Table ==
  ASSUME TablesOK, UNCHANGED <<v1rooms, v1sent>>, NEW r \in RoomsV2, V2RoomStep(r)
  PROVE  TablesOK' /\ KeepsV2({})
<1> DEFINE room == table[r]
<1>1. room \in V2!Room
  BY DEF TablesOK
<1>2. ASSUME NEW new, table' = [table EXCEPT ![r] = new], Shrinks(room, new, {})
      PROVE  TablesOK' /\ KeepsV2({})
  BY <1>2, ShrinksKeepsAll
<1>4. ASSUME NEW S, NEW m \in {"P2p", "Failed"},
             table' \in {[table EXCEPT ![r] = V2!Without(room, S)],
                         [table EXCEPT ![r] = V2!Reaped(V2!Without(room, S))],
                         [table EXCEPT ![r] = [V2!Without(room, S) EXCEPT !.mode = m]]}
      PROVE  TablesOK' /\ KeepsV2({})
  <2> DEFINE less == V2!Without(room, S)
  <2> HIDE DEF room
  <2>1. /\ less \in V2!Room /\ less.registered = room.registered \ S
        /\ less.members = room.members \ S
    BY <1>1, WithoutV2
  <2> HIDE DEF less
  <2>2. Shrinks(room, less, {})
    BY <2>1 DEF Shrinks
  <2>3. Shrinks(room, V2!Reaped(less), {})
    BY <2>1, ReapedV2 DEF Shrinks
  <2>4. Shrinks(room, [less EXCEPT !.mode = m], {})
    <3>1. /\ [less EXCEPT !.mode = m] \in V2!Room
          /\ [less EXCEPT !.mode = m].registered = less.registered
          /\ [less EXCEPT !.mode = m].members = less.members
      BY <2>1 DEF V2!Room
    <3> QED
      BY <2>1, <3>1 DEF Shrinks
  <2> QED
    BY <1>2, <1>4, <2>2, <2>3, <2>4 DEF less
<1>3. CASE V2!Commit(r)
  <2> DEFINE new == [room EXCEPT !.mode = "Sfu", !.epoch = @ + 1, !.entering = {}]
  <2>1. table' = [table EXCEPT ![r] = new]
    BY <1>3 DEF V2!Commit, V2!Becomes
  <2> HIDE DEF room
  <2>2. new \in V2!Room
    <3>1. room.epoch + 1 \in Nat /\ {} \in SUBSET ClientsV2
      BY <1>1 DEF V2!Room
    <3>2. new = [room EXCEPT !.mode = "Sfu", !.epoch = room.epoch + 1, !.entering = {}]
      BY <1>1 DEF V2!Room
    <3> QED
      BY <1>1, <3>1, <3>2 DEF V2!Room
  <2>3. new.registered = room.registered
    BY <1>1 DEF V2!Room
  <2> HIDE DEF new
  <2>4. Shrinks(room, new, {})
    BY <2>2, <2>3 DEF Shrinks
  <2> QED
    BY <1>2, <2>1, <2>4
<1>5. CASE V2!Downgrade(r)
  <2> DEFINE new == [room EXCEPT !.mode = "P2p", !.epoch = @ + 1]
  <2>1. table' = [table EXCEPT ![r] = new]
    BY <1>5 DEF V2!Downgrade, V2!Becomes
  <2> HIDE DEF room
  <2>2. new \in V2!Room
    <3>1. room.epoch + 1 \in Nat /\ {} \in SUBSET ClientsV2
      BY <1>1 DEF V2!Room
    <3>2. new = [room EXCEPT !.mode = "P2p", !.epoch = room.epoch + 1]
      BY <1>1 DEF V2!Room
    <3> QED
      BY <1>1, <3>1, <3>2 DEF V2!Room
  <2>3. new.registered = room.registered
    BY <1>1 DEF V2!Room
  <2> HIDE DEF new
  <2>4. Shrinks(room, new, {})
    BY <2>2, <2>3 DEF Shrinks
  <2> QED
    BY <1>2, <2>1, <2>4
<1>6. CASE V2!Entered(r)
  <2> DEFINE new == [room EXCEPT !.entering = {}]
  <2>1. table' = [table EXCEPT ![r] = new]
    BY <1>6 DEF V2!Entered, V2!Becomes
  <2> HIDE DEF room
  <2>2. new \in V2!Room
    BY <1>1 DEF V2!Room
  <2>3. new.registered = room.registered
    BY <1>1 DEF V2!Room
  <2> HIDE DEF new
  <2>4. Shrinks(room, new, {})
    BY <2>2, <2>3 DEF Shrinks
  <2> QED
    BY <1>2, <2>1, <2>4
<1>7. CASE V2!Fail(r)
  <2> DEFINE new == [room EXCEPT !.mode = "Failed"]
  <2>1. table' = [table EXCEPT ![r] = new]
    BY <1>7 DEF V2!Fail, V2!Becomes
  <2> HIDE DEF room
  <2>2. new \in V2!Room
    BY <1>1 DEF V2!Room
  <2>3. new.registered = room.registered
    BY <1>1 DEF V2!Room
  <2> HIDE DEF new
  <2>4. Shrinks(room, new, {})
    BY <2>2, <2>3 DEF Shrinks
  <2> QED
    BY <1>2, <2>1, <2>4
<1>8. CASE V2!Abandon(r)
  <2>1. table' = [table EXCEPT ![r] = [V2!Without(room, room.entering) EXCEPT !.mode = "P2p"]]
    BY <1>8 DEF V2!Abandon, V2!Becomes, V2!Abandoned
  <2> HIDE DEF room
  <2> QED
    BY <1>4, <2>1
<1>9. CASE V2!Refused(r)
  <2>1. table' = [table EXCEPT ![r] = V2!Without(room, room.entering)]
    BY <1>9 DEF V2!Refused, V2!Becomes
  <2> HIDE DEF room
  <2> QED
    BY <1>4, <2>1
<1>10. CASE V2!Reap(r)
  <2>1. PICK S : table' = [table EXCEPT ![r] = V2!Reaped(V2!Without(room, S))]
    BY <1>10 DEF V2!Reap, V2!Becomes
  <2> HIDE DEF room
  <2> QED
    BY <1>4, <2>1
<1> QED
  BY <1>3, <1>5, <1>6, <1>7, <1>8, <1>9, <1>10 DEF V2RoomStep

\* So do the rooms of a worker that is lost.
LEMMA LoseWorkerV2Table ==
  ASSUME TablesOK, UNCHANGED <<v1rooms, v1sent>>, V2!LoseWorker
  PROVE  TablesOK' /\ KeepsV2({})
<1>1. PICK S, D : table' = [r \in RoomsV2 |->
         IF r \in S THEN V2!Lost(table[r], IF r \in D THEN table[r].entering ELSE {})
                    ELSE table[r]]
  BY DEF V2!LoseWorker
<1>2. ASSUME NEW room \in V2!Room, NEW dropped
      PROVE  Shrinks(room, V2!Lost(room, dropped), {})
  <2>1. CASE room.mode = "Upgrading"
    <3> DEFINE less == V2!Without(room, room.entering)
    <3>1. /\ less \in V2!Room /\ less.registered = room.registered \ room.entering
          /\ less.members = room.members \ room.entering
      BY WithoutV2
    <3>2. V2!Lost(room, dropped) = [less EXCEPT !.mode = "P2p"]
      BY <2>1 DEF V2!Lost, V2!Abandoned
    <3> HIDE DEF less
    <3>3. /\ [less EXCEPT !.mode = "P2p"] \in V2!Room
          /\ [less EXCEPT !.mode = "P2p"].registered = less.registered
          /\ [less EXCEPT !.mode = "P2p"].members = less.members
      BY <3>1 DEF V2!Room
    <3> QED
      BY <3>1, <3>2, <3>3 DEF Shrinks
  <2>2. CASE room.mode # "Upgrading"
    <3> DEFINE less == V2!Without(room, dropped)
               new == [less EXCEPT !.mode = "Failed", !.removal = FALSE]
    <3>1. /\ less \in V2!Room /\ less.registered = room.registered \ dropped
          /\ less.members = room.members \ dropped
      BY WithoutV2
    <3>2. V2!Lost(room, dropped) = new
      BY <2>2 DEF V2!Lost
    <3> HIDE DEF less
    <3>3. new \in V2!Room /\ new.registered = less.registered /\ new.members = less.members
      BY <3>1 DEF V2!Room
    <3> HIDE DEF new
    <3> QED
      BY <3>1, <3>2, <3>3 DEF Shrinks
  <2> QED
    BY <2>1, <2>2
<1>3. ASSUME NEW r \in RoomsV2
      PROVE  table'[r] = table[r] \/ Shrinks(table[r], table'[r], {})
  <2>1. table[r] \in V2!Room
    BY DEF TablesOK
  <2>2. CASE r \in S
    BY <1>1, <1>2, <2>1, <2>2
  <2>3. CASE r \notin S
    BY <1>1, <2>3
  <2> QED
    BY <2>2, <2>3
<1>4. table' \in [RoomsV2 -> V2!Room]
  <2>1. \A r \in RoomsV2 : table'[r] \in V2!Room
    BY <1>3 DEF TablesOK, Shrinks
  <2>2. \E f : table' = [r \in RoomsV2 |-> f[r]]
    BY <1>1
  <2> QED
    BY <2>1, <1>1
<1>5. KeepsV2({})
  BY <1>3 DEF KeepsV2, Shrinks
<1> QED
  BY <1>4, <1>5 DEF TablesOK

-----------------------------------------------------------------------------
(***************************************************************************)
(* Sessions and connections.                                               *)
(***************************************************************************)

\* The kinds of a session exclude each other.
LEMMA SessionKinds ==
  /\ NoSession # Connected
  /\ \A a : RegisteredV1(a) # NoSession /\ RegisteredV1(a) # Connected
  /\ \A a : RegisteredV2(a) # NoSession /\ RegisteredV2(a) # Connected
  /\ \A a, b : RegisteredV1(a) # RegisteredV2(b)
  /\ \A a, b : RegisteredV1(a) = RegisteredV1(b) => a = b
  /\ \A a, b : RegisteredV2(a) = RegisteredV2(b) => a = b
<1>1. /\ NoSession.kind = "None" /\ Connected.kind = "Connected"
      /\ \A a : RegisteredV1(a).kind = "V1" /\ RegisteredV1(a).key = a
      /\ \A a : RegisteredV2(a).kind = "V2" /\ RegisteredV2(a).key = a
  BY DEF NoSession, Connected, RegisteredV1, RegisteredV2
<1>2. \A a, b : RegisteredV1(a) = RegisteredV1(b) => a = b
  BY <1>1
<1>3. \A a, b : RegisteredV2(a) = RegisteredV2(b) => a = b
  BY <1>1
<1> QED
  BY <1>1, <1>2, <1>3

\* The sessions of V1 clients, and the connections' of V2 clients, stay.
QuietV1 ==
  \A k \in Conns :
    \/ sessions'[k] = sessions[k]
    \/ \A key \in KeysV1 : sessions[k] # RegisteredV1(key) /\ sessions'[k] # RegisteredV1(key)

QuietV2 ==
  \A k \in Conns :
    \/ sessions'[k] = sessions[k]
    \/ \A key \in KeysV2 : v2_connections[key] # k /\ sessions'[k] # RegisteredV2(key)

\* The session of the connection that the map has for the key goes.
Closes(map, key) ==
  \A k \in Conns : sessions'[k] = IF k = map[key] THEN NoSession ELSE sessions[k]

\* A session that has a member still, and has it since, is not stale.
LEMMA NotStale ==
  ASSUME Observed, NEW k \in Conns, NEW key \in KeysV2,
         sessions'[k] = RegisteredV2(key), k \notin stale'
  PROVE  /\ key[2] \in table'[key[1]].members
         /\ sessions'[k] = sessions[k] => k \notin stale
BY DEF Observed, Ended

\* V1 clients keep their registrations and sessions.
LEMMA V1Kept ==
  ASSUME V1Exact, SameV1, QuietV1, UNCHANGED connections
  PROVE  V1Exact'
<1> SUFFICES ASSUME NEW key \in KeysV1
             PROVE  /\ key[2] \in v1rooms'[key[1]].registered <=> connections'[key] # None
                    /\ \A k \in Conns : sessions'[k] = RegisteredV1(key) <=> connections'[key] = k
  BY DEF V1Exact
<1>1. key[2] \in v1rooms'[key[1]].registered <=> connections'[key] # None
  BY DEF V1Exact, SameV1, KeysV1
<1>2. ASSUME NEW k \in Conns
      PROVE  sessions'[k] = RegisteredV1(key) <=> connections'[key] = k
  BY DEF V1Exact, QuietV1
<1> QED
  BY <1>1, <1>2

\* A V1 client gets its session and its connection.
LEMMA V1Opened ==
  ASSUME TypeOK, V1Exact, NEW k \in Conns, sessions[k] \in {NoSession, Connected},
         NEW r \in RoomsV1, NEW c \in ClientsV1, c \notin v1rooms[r].registered,
         \A q \in RoomsV1 : v1rooms'[q].registered =
            IF q = r THEN v1rooms[q].registered \cup {c} ELSE v1rooms[q].registered,
         sessions' = [sessions EXCEPT ![k] = RegisteredV1(<<r, c>>)],
         connections' = [connections EXCEPT ![<<r, c>>] = k]
  PROVE  V1Exact'
<1> SUFFICES ASSUME NEW key \in KeysV1
             PROVE  /\ key[2] \in v1rooms'[key[1]].registered <=> connections'[key] # None
                    /\ \A j \in Conns : sessions'[j] = RegisteredV1(key) <=> connections'[key] = j
  BY DEF V1Exact
<1>1. <<r, c>> \in KeysV1 /\ key = <<key[1], key[2]>> /\ key[1] \in RoomsV1
  BY DEF KeysV1
<1>2. /\ connections \in [KeysV1 -> Conns \cup {None}] /\ sessions \in [Conns -> Session]
      /\ k # None
  BY ConnsAssumption DEF TypeOK
<1>3. CASE key = <<r, c>>
  <2>1. connections'[key] = k /\ connections[key] = None
    BY <1>1, <1>2, <1>3 DEF V1Exact
  <2>2. key[2] \in v1rooms'[key[1]].registered
    BY <1>1, <1>3
  <2>3. \A j \in Conns : sessions[j] # RegisteredV1(key)
    BY <2>1, ConnsAssumption DEF V1Exact
  <2> QED
    BY <1>2, <1>3, <2>1, <2>2, <2>3
<1>4. CASE key # <<r, c>>
  <2>1. connections'[key] = connections[key]
    BY <1>1, <1>2, <1>4
  <2>2. key[2] \in v1rooms'[key[1]].registered <=> key[2] \in v1rooms[key[1]].registered
    BY <1>1, <1>4
  <2>3. \A j \in Conns : j # k => sessions'[j] = sessions[j]
    BY <1>2
  <2>4. sessions'[k] # RegisteredV1(key) /\ sessions[k] # RegisteredV1(key)
    BY <1>2, <1>4, SessionKinds
  <2> QED
    BY <2>1, <2>2, <2>3, <2>4 DEF V1Exact
<1> QED
  BY <1>3, <1>4

\* A V1 client loses its session and its connection.
LEMMA V1Closed ==
  ASSUME TypeOK, V1Exact, NEW r \in RoomsV1, NEW c \in ClientsV1,
         \A q \in RoomsV1 : v1rooms'[q].registered =
            IF q = r THEN v1rooms[q].registered \ {c} ELSE v1rooms[q].registered,
         Closes(connections, <<r, c>>),
         connections' = [connections EXCEPT ![<<r, c>>] = None]
  PROVE  V1Exact'
<1> SUFFICES ASSUME NEW key \in KeysV1
             PROVE  /\ key[2] \in v1rooms'[key[1]].registered <=> connections'[key] # None
                    /\ \A j \in Conns : sessions'[j] = RegisteredV1(key) <=> connections'[key] = j
  BY DEF V1Exact
<1>1. <<r, c>> \in KeysV1 /\ key = <<key[1], key[2]>> /\ key[1] \in RoomsV1
  BY DEF KeysV1
<1>2. connections \in [KeysV1 -> Conns \cup {None}]
  BY DEF TypeOK
<1>3. CASE key = <<r, c>>
  <2>1. connections'[key] = None
    BY <1>1, <1>2, <1>3
  <2>2. key[2] \notin v1rooms'[key[1]].registered
    BY <1>1, <1>3
  <2>3. \A j \in Conns : sessions'[j] # RegisteredV1(key)
    BY <1>1, <1>3, SessionKinds DEF V1Exact, Closes
  <2> QED
    BY <2>1, <2>2, <2>3, ConnsAssumption
<1>4. CASE key # <<r, c>>
  <2>1. connections'[key] = connections[key]
    BY <1>1, <1>2, <1>4
  <2>2. key[2] \in v1rooms'[key[1]].registered <=> key[2] \in v1rooms[key[1]].registered
    BY <1>1, <1>4
  <2>3. ASSUME NEW j \in Conns
        PROVE  sessions'[j] = RegisteredV1(key) <=> sessions[j] = RegisteredV1(key)
    <3>1. CASE j = connections[<<r, c>>]
      <4>1. sessions[j] = RegisteredV1(<<r, c>>)
        BY <1>1, <3>1 DEF V1Exact
      <4>2. sessions'[j] = NoSession
        BY <3>1 DEF Closes
      <4> QED
        BY <1>4, <4>1, <4>2, SessionKinds
    <3>2. CASE j # connections[<<r, c>>]
      BY <3>2 DEF Closes
    <3> QED
      BY <3>1, <3>2
  <2> QED
    BY <2>1, <2>2, <2>3 DEF V1Exact
<1> QED
  BY <1>3, <1>4

\* V2 clients keep their connections and, while they are members, their
\* registrations.
LEMMA V2Kept ==
  ASSUME TypeOK, V2Reachable, LiveSessionsRegistered, Observed,
         KeepsV2({}), QuietV2, UNCHANGED v2_connections
  PROVE  V2Reachable' /\ LiveSessionsRegistered'
<1>1. V2Reachable'
  <2> SUFFICES ASSUME NEW key \in KeysV2
               PROVE  /\ v2_connections[key] # None =>
                           sessions'[v2_connections[key]] = RegisteredV2(key)
                      /\ key[2] \in table'[key[1]].registered => v2_connections[key] # None
    BY DEF V2Reachable
  <2>1. key[1] \in RoomsV2 /\ v2_connections[key] \in Conns \cup {None}
    BY DEF KeysV2, TypeOK
  <2>2. table'[key[1]].registered \subseteq table[key[1]].registered
    BY <2>1 DEF KeepsV2
  <2>3. v2_connections[key] # None => sessions'[v2_connections[key]] = RegisteredV2(key)
    BY <2>1 DEF V2Reachable, QuietV2
  <2> QED
    BY <2>2, <2>3 DEF V2Reachable
<1>2. ASSUME NEW k \in Conns, NEW key \in KeysV2,
             sessions'[k] = RegisteredV2(key), k \notin stale'
      PROVE  v2_connections'[key] = k /\ key[2] \in table'[key[1]].registered
  <2>1. sessions'[k] = sessions[k]
    BY <1>2 DEF QuietV2
  <2>2. key[2] \in table'[key[1]].members /\ k \notin stale
    BY <1>2, <2>1, NotStale
  <2>3. v2_connections[key] = k /\ key[2] \in table[key[1]].registered
    BY <1>2, <2>1, <2>2 DEF LiveSessionsRegistered
  <2>4. key[1] \in RoomsV2
    BY DEF KeysV2
  <2> QED
    BY <2>2, <2>3, <2>4 DEF KeepsV2
<1>3. LiveSessionsRegistered'
  BY <1>2 DEF LiveSessionsRegistered
<1> QED
  BY <1>1, <1>3

\* A V2 client gets its session and its connection; a session it had before
\* is stale.
LEMMA V2Opened ==
  ASSUME TypeOK, V2Reachable, LiveSessionsRegistered, Observed,
         NEW k \in Conns, sessions[k] \in {NoSession, Connected},
         NEW r \in RoomsV2, NEW c \in ClientsV2, c \notin table[r].registered,
         \A q \in RoomsV2 : table'[q].registered =
            IF q = r THEN table[q].registered \cup {c} ELSE table[q].registered,
         sessions' = [sessions EXCEPT ![k] = RegisteredV2(<<r, c>>)],
         v2_connections' = [v2_connections EXCEPT ![<<r, c>>] = k]
  PROVE  V2Reachable' /\ LiveSessionsRegistered'
<1>1. <<r, c>> \in KeysV2 /\ \A key \in KeysV2 : key = <<key[1], key[2]>> /\ key[1] \in RoomsV2
  BY DEF KeysV2
<1>2. /\ v2_connections \in [KeysV2 -> Conns \cup {None}] /\ sessions \in [Conns -> Session]
      /\ k # None
  BY ConnsAssumption DEF TypeOK
<1>3. /\ sessions'[k] = RegisteredV2(<<r, c>>) /\ v2_connections'[<<r, c>>] = k
      /\ \A j \in Conns : j # k => sessions'[j] = sessions[j]
      /\ \A key \in KeysV2 : key # <<r, c>> => v2_connections'[key] = v2_connections[key]
  BY <1>1, <1>2
<1>4. V2Reachable'
  <2> SUFFICES ASSUME NEW key \in KeysV2
               PROVE  /\ v2_connections'[key] # None =>
                           sessions'[v2_connections'[key]] = RegisteredV2(key)
                      /\ key[2] \in table'[key[1]].registered => v2_connections'[key] # None
    BY DEF V2Reachable
  <2>1. CASE key = <<r, c>>
    BY <1>2, <1>3, <2>1
  <2>2. CASE key # <<r, c>>
    <3>1. v2_connections'[key] = v2_connections[key] /\ v2_connections[key] \in Conns \cup {None}
      BY <1>2, <1>3, <2>2
    <3>2. v2_connections[key] # k
      BY <1>2, SessionKinds DEF V2Reachable
    <3>3. key[2] \in table'[key[1]].registered => key[2] \in table[key[1]].registered
      <4>1. key = <<key[1], key[2]>> /\ key[1] \in RoomsV2
        BY <1>1
      <4>2. key[1] # r \/ key[2] # c
        BY <2>2, <4>1
      <4>3. table'[key[1]].registered = IF key[1] = r THEN table[key[1]].registered \cup {c}
                                                     ELSE table[key[1]].registered
        BY <4>1
      <4> QED
        BY <4>2, <4>3
    <3> QED
      BY <1>3, <3>1, <3>2, <3>3 DEF V2Reachable
  <2> QED
    BY <2>1, <2>2
<1>5. ASSUME NEW j \in Conns, NEW key \in KeysV2,
             sessions'[j] = RegisteredV2(key), j \notin stale'
      PROVE  v2_connections'[key] = j /\ key[2] \in table'[key[1]].registered
  <2>1. CASE j = k
    <3>1. key = <<r, c>>
      BY <1>3, <1>5, <2>1, SessionKinds
    <3> QED
      BY <1>3, <2>1, <3>1
  <2>2. CASE j # k
    <3>1. sessions'[j] = sessions[j] /\ j \notin stale
      BY <1>3, <1>5, <2>2, NotStale
    <3>2. v2_connections[key] = j /\ key[2] \in table[key[1]].registered
      BY <1>5, <3>1 DEF LiveSessionsRegistered
    <3>3. key # <<r, c>>
      BY <3>2
    <3> QED
      BY <1>1, <1>3, <3>2, <3>3
  <2> QED
    BY <2>1, <2>2
<1>6. LiveSessionsRegistered'
  BY <1>5 DEF LiveSessionsRegistered
<1> QED
  BY <1>4, <1>6

\* A V2 client that is not registered any more loses its session and its
\* connection.
LEMMA V2Closed ==
  ASSUME TypeOK, V2Reachable, LiveSessionsRegistered, Observed,
         NEW r \in RoomsV2, NEW c \in ClientsV2, KeepsV2({<<r, c>>}),
         c \notin table'[r].registered,
         Closes(v2_connections, <<r, c>>),
         v2_connections' = [v2_connections EXCEPT ![<<r, c>>] = None]
  PROVE  V2Reachable' /\ LiveSessionsRegistered'
<1>1. <<r, c>> \in KeysV2 /\ \A key \in KeysV2 : key = <<key[1], key[2]>> /\ key[1] \in RoomsV2
  BY DEF KeysV2
<1>2. v2_connections \in [KeysV2 -> Conns \cup {None}]
  BY DEF TypeOK
<1>3. /\ v2_connections'[<<r, c>>] = None
      /\ \A key \in KeysV2 : key # <<r, c>> => v2_connections'[key] = v2_connections[key]
  BY <1>1, <1>2
<1>4. V2Reachable'
  <2> SUFFICES ASSUME NEW key \in KeysV2
               PROVE  /\ v2_connections'[key] # None =>
                           sessions'[v2_connections'[key]] = RegisteredV2(key)
                      /\ key[2] \in table'[key[1]].registered => v2_connections'[key] # None
    BY DEF V2Reachable
  <2>1. CASE key = <<r, c>>
    BY <1>3, <2>1
  <2>2. CASE key # <<r, c>>
    <3>1. v2_connections'[key] = v2_connections[key] /\ v2_connections[key] \in Conns \cup {None}
      BY <1>2, <1>3, <2>2
    <3>2. ASSUME v2_connections[key] # None
          PROVE  sessions'[v2_connections[key]] = RegisteredV2(key)
      <4>1. v2_connections[key] \in Conns /\ sessions[v2_connections[key]] = RegisteredV2(key)
        BY <3>1, <3>2 DEF V2Reachable
      <4>2. v2_connections[key] # v2_connections[<<r, c>>]
        BY <1>1, <2>2, <3>2, <4>1, SessionKinds DEF V2Reachable
      <4> QED
        BY <4>1, <4>2 DEF Closes
    <3>3. key[2] \in table'[key[1]].registered => key[2] \in table[key[1]].registered
      BY <1>1 DEF KeepsV2
    <3> QED
      BY <3>1, <3>2, <3>3 DEF V2Reachable
  <2> QED
    BY <2>1, <2>2
<1>5. ASSUME NEW j \in Conns, NEW key \in KeysV2,
             sessions'[j] = RegisteredV2(key), j \notin stale'
      PROVE  v2_connections'[key] = j /\ key[2] \in table'[key[1]].registered
  <2>1. j # v2_connections[<<r, c>>] /\ sessions'[j] = sessions[j]
    BY <1>5, SessionKinds DEF Closes
  <2>2. key[2] \in table'[key[1]].members /\ j \notin stale
    BY <1>5, <2>1, NotStale
  <2>3. v2_connections[key] = j /\ key[2] \in table[key[1]].registered
    BY <1>5, <2>1, <2>2 DEF LiveSessionsRegistered
  <2>4. key # <<r, c>>
    BY <2>1, <2>3
  <2> QED
    BY <1>1, <1>3, <2>2, <2>3, <2>4 DEF KeepsV2
<1>6. LiveSessionsRegistered'
  BY <1>5 DEF LiveSessionsRegistered
<1> QED
  BY <1>4, <1>6

-----------------------------------------------------------------------------
(***************************************************************************)
(* The steps of the collider.                                              *)
(***************************************************************************)

\* The entries a session can become.
LEMMA SessionTypes ==
  /\ NoSession \in Session /\ Connected \in Session
  /\ \A key \in KeysV1 : RegisteredV1(key) \in Session
  /\ \A key \in KeysV2 : RegisteredV2(key) \in Session
BY DEF Session

\* A table that is left alone.
LEMMA IdleTables ==
  ASSUME TablesOK
  PROVE  /\ UNCHANGED <<v1rooms, v1sent, table>> => TablesOK'
         /\ UNCHANGED v1rooms => SameV1
         /\ UNCHANGED table => KeepsV2({})
BY DEF TablesOK, SameV1, KeepsV2

\* A step that writes neither map.
LEMMA NoMapStep ==
  ASSUME CInv, TablesOK', SameV1, KeepsV2({}), Observed, UNCHANGED sessionVars
  PROVE  CInv'
<1> USE DEF CInv
<1>1. UNCHANGED <<sockets, sessions, connections, v2_connections, closing>>
  BY DEF sessionVars
<1>2. TypeOK'
  BY <1>1 DEF TypeOK, Observed
<1>3. SocketsAccounted'
  BY <1>1 DEF SocketsAccounted
<1>4. QuietV1 /\ QuietV2
  BY <1>1 DEF QuietV1, QuietV2
<1>5. V1Exact'
  BY <1>1, <1>4, V1Kept
<1>6. V2Reachable' /\ LiveSessionsRegistered'
  BY <1>1, <1>4, V2Kept
<1> QED
  BY <1>2, <1>3, <1>5, <1>6

\* A socket opens.
LEMMA ConnectStep ==
  ASSUME CInv, NEW k \in Conns, Connect(k)
  PROVE  CInv'
<1> USE DEF CInv
<1>1. /\ sessions' = [sessions EXCEPT ![k] = Connected] /\ sessions[k] = NoSession
      /\ sockets' = sockets \cup {k}
      /\ UNCHANGED <<connections, v2_connections, closing, v1rooms, v1sent, table>>
      /\ Observed
  BY DEF Connect, v1vars, v2vars
<1>2. sessions \in [Conns -> Session] /\ k # None
  BY ConnsAssumption DEF TypeOK
<1>3. TypeOK'
  BY <1>1, <1>2, SessionTypes DEF TypeOK, Observed
<1>4. SocketsAccounted'
  BY <1>1, <1>2, SessionKinds DEF SocketsAccounted
<1>5. TablesOK' /\ SameV1 /\ KeepsV2({})
  BY <1>1, IdleTables
<1>6. \A j \in Conns : j # k => sessions'[j] = sessions[j]
  BY <1>1, <1>2
<1>7. sessions'[k] = Connected /\ \A key \in KeysV2 : v2_connections[key] # k
  BY <1>1, <1>2, SessionKinds DEF V2Reachable
<1>8. QuietV1 /\ QuietV2
  BY <1>1, <1>6, <1>7, SessionKinds DEF QuietV1, QuietV2
<1>9. V1Exact'
  BY <1>1, <1>5, <1>8, V1Kept
<1>10. V2Reachable' /\ LiveSessionsRegistered'
  BY <1>1, <1>5, <1>8, V2Kept
<1> QED
  BY <1>3, <1>4, <1>5, <1>9, <1>10

\* A frame that is refused has its socket closed.
LEMMA RefuseStep ==
  ASSUME CInv, NEW k \in Conns, Refuse(k)
  PROVE  CInv'
<1> USE DEF CInv
<1>1. /\ closing' = closing \cup {k} /\ k \in sockets
      /\ UNCHANGED <<sockets, sessions, connections, v2_connections, v1rooms, v1sent, table>>
      /\ Observed
  BY DEF Refuse, fail_connection, v1vars, v2vars
<1>2. TypeOK'
  BY <1>1 DEF TypeOK, Observed
<1>3. SocketsAccounted'
  BY <1>1 DEF SocketsAccounted
<1>4. TablesOK' /\ SameV1 /\ KeepsV2({})
  BY <1>1, IdleTables
<1>5. QuietV1 /\ QuietV2
  BY <1>1 DEF QuietV1, QuietV2
<1>6. V1Exact'
  BY <1>1, <1>4, <1>5, V1Kept
<1>7. V2Reachable' /\ LiveSessionsRegistered'
  BY <1>1, <1>4, <1>5, V2Kept
<1> QED
  BY <1>2, <1>3, <1>4, <1>6, <1>7

\* A V1 client registers on a socket without a session.
LEMMA RegisterV1Step ==
  ASSUME CInv, NEW k \in Conns, NEW r \in RoomsV1, NEW c \in ClientsV1, RegisterV1(k, r, c)
  PROVE  CInv'
<1> USE DEF CInv
<1>1. /\ k \in sockets /\ sessions[k] \in {NoSession, Connected}
      /\ V1!Register(r, c)
      /\ sessions' = [sessions EXCEPT ![k] = RegisteredV1(<<r, c>>)]
      /\ connections' = [connections EXCEPT ![<<r, c>>] = k]
      /\ UNCHANGED <<sockets, v2_connections, closing, table>>
      /\ Observed
  BY DEF RegisterV1, MayRegister, v2vars
<1>2. sessions \in [Conns -> Session] /\ k # None /\ <<r, c>> \in KeysV1
  BY ConnsAssumption DEF TypeOK, KeysV1
<1>3. TypeOK'
  BY <1>1, <1>2, SessionTypes DEF TypeOK, Observed
<1>4. /\ TablesOK' /\ c \notin v1rooms[r].registered
      /\ \A q \in RoomsV1 : v1rooms'[q].registered =
           IF q = r THEN v1rooms[q].registered \cup {c} ELSE v1rooms[q].registered
  BY <1>1, RegisterV1Table
<1>5. V1Exact'
  BY <1>1, <1>4, V1Opened
<1>6. \A j \in Conns : j # k => sessions'[j] = sessions[j]
  BY <1>1, <1>2
<1>7. sessions'[k] = RegisteredV1(<<r, c>>)
  BY <1>1, <1>2
<1>8. \A key \in KeysV2 : v2_connections[key] # k /\ sessions'[k] # RegisteredV2(key)
  BY <1>1, <1>2, <1>7, SessionKinds DEF V2Reachable
<1>9. QuietV2 /\ KeepsV2({})
  BY <1>1, <1>6, <1>8, IdleTables DEF QuietV2
<1>10. V2Reachable' /\ LiveSessionsRegistered'
  BY <1>1, <1>9, V2Kept
<1>11. SocketsAccounted'
  BY <1>1, <1>6, <1>7, SessionKinds DEF SocketsAccounted
<1> QED
  BY <1>3, <1>4, <1>5, <1>10, <1>11

\* A V2 client registers on a socket without a session.
LEMMA RegisterV2Step ==
  ASSUME CInv, NEW k \in Conns, NEW r \in RoomsV2, NEW c \in ClientsV2, RegisterV2(k, r, c)
  PROVE  CInv'
<1> USE DEF CInv
<1>1. /\ k \in sockets /\ sessions[k] \in {NoSession, Connected}
      /\ V2!Register(r, c)
      /\ sessions' = [sessions EXCEPT ![k] = RegisteredV2(<<r, c>>)]
      /\ v2_connections' = [v2_connections EXCEPT ![<<r, c>>] = k]
      /\ UNCHANGED <<sockets, connections, closing, v1rooms, v1sent>>
      /\ Observed
  BY DEF RegisterV2, MayRegister, v1vars
<1>2. sessions \in [Conns -> Session] /\ k # None /\ <<r, c>> \in KeysV2
  BY ConnsAssumption DEF TypeOK, KeysV2
<1>3. TypeOK'
  BY <1>1, <1>2, SessionTypes DEF TypeOK, Observed
<1>4. /\ TablesOK' /\ c \notin table[r].registered
      /\ \A q \in RoomsV2 : table'[q].registered =
           IF q = r THEN table[q].registered \cup {c} ELSE table[q].registered
  BY <1>1, RegisterV2Table
<1>5. V2Reachable' /\ LiveSessionsRegistered'
  BY <1>1, <1>4, V2Opened
<1>6. \A j \in Conns : j # k => sessions'[j] = sessions[j]
  BY <1>1, <1>2
<1>7. sessions'[k] = RegisteredV2(<<r, c>>)
  BY <1>1, <1>2
<1>8. \A key \in KeysV1 : sessions[k] # RegisteredV1(key) /\ sessions'[k] # RegisteredV1(key)
  BY <1>1, <1>7, SessionKinds
<1>9. QuietV1 /\ SameV1
  BY <1>1, <1>6, <1>8, IdleTables DEF QuietV1
<1>10. V1Exact'
  BY <1>1, <1>9, V1Kept
<1>11. SocketsAccounted'
  BY <1>1, <1>6, <1>7, SessionKinds DEF SocketsAccounted
<1> QED
  BY <1>3, <1>4, <1>5, <1>10, <1>11

\* A socket goes; what it spoke for goes with it, if it still did.
LEMMA DisconnectStep ==
  ASSUME CInv, NEW k \in Conns, Disconnect(k)
  PROVE  CInv'
<1> USE DEF CInv
<1>1. /\ k \in sockets /\ sockets' = sockets \ {k} /\ closing' = closing \ {k}
      /\ sessions' = [sessions EXCEPT ![k] = NoSession]
      /\ Observed
  BY DEF Disconnect
<1>2. sessions \in [Conns -> Session] /\ k # None
  BY ConnsAssumption DEF TypeOK
<1>3. sessions'[k] = NoSession /\ \A j \in Conns : j # k => sessions'[j] = sessions[j]
  BY <1>1, <1>2
<1>4. sessions' \in [Conns -> Session] /\ stale' \subseteq Conns
      /\ sockets' \subseteq Conns /\ closing' \subseteq sockets'
  BY <1>1, <1>2, SessionTypes DEF TypeOK, Observed
<1>5. SocketsAccounted'
  BY <1>1, <1>3 DEF SocketsAccounted
<1>6. CASE Forget(k)
  <2>1. /\ UNCHANGED <<connections, v2_connections, v1rooms, v1sent, table>>
        /\ \/ sessions[k] \in {NoSession, Connected}
           \/ \E key \in KeysV2 : sessions[k] = RegisteredV2(key) /\ v2_connections[key] # k
    BY <1>6 DEF Forget, IsCurrent, v1vars, v2vars
  <2>2. TablesOK' /\ SameV1 /\ KeepsV2({})
    BY <2>1, IdleTables
  <2>3. \A key \in KeysV2 : v2_connections[key] # k
    BY <1>2, <2>1, SessionKinds DEF V2Reachable
  <2>4. \A key \in KeysV1 : sessions[k] # RegisteredV1(key)
    BY <2>1, SessionKinds
  <2>5. QuietV1 /\ QuietV2
    BY <1>3, <2>3, <2>4, SessionKinds DEF QuietV1, QuietV2
  <2>6. V1Exact' /\ V2Reachable' /\ LiveSessionsRegistered'
    BY <1>1, <2>1, <2>2, <2>5, V1Kept, V2Kept
  <2>7. TypeOK'
    BY <1>4, <2>1 DEF TypeOK
  <2> QED
    BY <1>5, <2>2, <2>6, <2>7
<1>7. ASSUME NEW r \in RoomsV1, NEW c \in ClientsV1, ForgetV1(k, r, c)
      PROVE  CInv'
  <2>1. /\ sessions[k] = RegisteredV1(<<r, c>>) /\ connections[<<r, c>>] = k
        /\ connections' = [connections EXCEPT ![<<r, c>>] = None]
        /\ V1!Deregister(r, c)
        /\ UNCHANGED <<v2_connections, table>>
    BY <1>7 DEF ForgetV1, IsCurrent, v2vars
  <2>2. /\ TablesOK'
        /\ \A q \in RoomsV1 : v1rooms'[q].registered =
             IF q = r THEN v1rooms[q].registered \ {c} ELSE v1rooms[q].registered
    BY <2>1, DeregisterV1Table
  <2>3. Closes(connections, <<r, c>>)
    BY <1>3, <2>1 DEF Closes
  <2>4. V1Exact'
    BY <2>1, <2>2, <2>3, V1Closed
  <2>5. \A key \in KeysV2 : v2_connections[key] # k
    BY <1>2, <2>1, SessionKinds DEF V2Reachable
  <2>6. QuietV2 /\ KeepsV2({})
    BY <1>3, <2>1, <2>5, SessionKinds, IdleTables DEF QuietV2
  <2>7. V2Reachable' /\ LiveSessionsRegistered'
    BY <1>1, <2>1, <2>6, V2Kept
  <2>8. TypeOK'
    BY <1>4, <2>1 DEF TypeOK
  <2> QED
    BY <1>5, <2>2, <2>4, <2>7, <2>8
<1>8. ASSUME NEW r \in RoomsV2, NEW c \in ClientsV2, ForgetV2(k, r, c)
      PROVE  CInv'
  <2>1. /\ sessions[k] = RegisteredV2(<<r, c>>) /\ v2_connections[<<r, c>>] = k
        /\ v2_connections' = [v2_connections EXCEPT ![<<r, c>>] = None]
        /\ \/ V2!Deregister(r, c) \/ V2!DeregisterLeave(r, c)
           \/ c \notin table[r].registered /\ UNCHANGED table
        /\ UNCHANGED <<connections, v1rooms, v1sent>>
    BY <1>8 DEF ForgetV2, IsCurrent, v1vars, v2vars
  <2>2. TablesOK' /\ KeepsV2({<<r, c>>}) /\ c \notin table'[r].registered
    <3>1. CASE V2!Deregister(r, c) \/ V2!DeregisterLeave(r, c)
      BY <2>1, <3>1, DeregisterV2Table
    <3>2. CASE c \notin table[r].registered /\ UNCHANGED table
      <4>1. TablesOK' /\ KeepsV2({})
        BY <2>1, <3>2, IdleTables
      <4> QED
        BY <3>2, <4>1 DEF KeepsV2
    <3> QED
      BY <2>1, <3>1, <3>2
  <2>3. Closes(v2_connections, <<r, c>>)
    BY <1>3, <2>1 DEF Closes
  <2>4. V2Reachable' /\ LiveSessionsRegistered'
    BY <1>1, <2>1, <2>2, <2>3, V2Closed
  <2>5. \A key \in KeysV1 : sessions[k] # RegisteredV1(key) /\ sessions'[k] # RegisteredV1(key)
    BY <1>3, <2>1, SessionKinds
  <2>6. QuietV1 /\ SameV1
    BY <1>3, <2>1, <2>5, IdleTables DEF QuietV1
  <2>7. V1Exact'
    BY <2>1, <2>6, V1Kept
  <2>8. TypeOK'
    BY <1>4, <2>1 DEF TypeOK
  <2> QED
    BY <1>5, <2>2, <2>4, <2>7, <2>8
<1>9. \/ Forget(k)
      \/ \E key \in KeysV1 : ForgetV1(k, key[1], key[2])
      \/ \E key \in KeysV2 : ForgetV2(k, key[1], key[2])
  BY DEF Disconnect
<1> QED
  BY <1>6, <1>7, <1>8, <1>9 DEF KeysV1, KeysV2

\* What closing the socket of a client does to the sessions.
LEMMA CloseSessions ==
  ASSUME TypeOK, SocketsAccounted, NEW k \in Conns \cup {None}, Close(k), sockets' = sockets
  PROVE  /\ sessions' \in [Conns -> Session]
         /\ closing' \subseteq sockets'
         /\ SocketsAccounted'
         /\ \A j \in Conns : sessions'[j] = IF j = k THEN NoSession ELSE sessions[j]
<1>1. /\ sessions' = [j \in Conns |-> IF j = k THEN NoSession ELSE sessions[j]]
      /\ closing' = closing \cup ({k} \cap sockets)
  BY DEF Close
<1>2. \A j \in Conns : sessions'[j] = IF j = k THEN NoSession ELSE sessions[j]
  BY <1>1
<1>3. sessions' \in [Conns -> Session]
  BY <1>1, SessionTypes DEF TypeOK
<1>4. closing' \subseteq sockets'
  BY <1>1 DEF TypeOK
<1>5. SocketsAccounted'
  BY <1>1, <1>2 DEF SocketsAccounted
<1> QED
  BY <1>2, <1>3, <1>4, <1>5

\* A removal, or a leave, takes a V1 client with its socket.
LEMMA RemoveV1Step ==
  ASSUME CInv, NEW r \in RoomsV1, NEW c \in ClientsV1, RemoveV1(r, c)
  PROVE  CInv'
<1> USE DEF CInv
<1> DEFINE k == connections[<<r, c>>]
<1>1. /\ V1!Remove(V1!Only(r, c)) /\ Close(k)
      /\ connections' = [connections EXCEPT ![<<r, c>>] = None]
      /\ UNCHANGED <<sockets, v2_connections, table>>
      /\ Observed
  BY DEF RemoveV1, V1!Leave, v2vars
<1>2. <<r, c>> \in KeysV1 /\ k \in Conns \cup {None}
  BY DEF KeysV1, TypeOK
<1>3. /\ sessions' \in [Conns -> Session] /\ closing' \subseteq sockets' /\ SocketsAccounted'
      /\ \A j \in Conns : sessions'[j] = IF j = k THEN NoSession ELSE sessions[j]
  BY <1>1, <1>2, CloseSessions
<1>4. TypeOK'
  BY <1>1, <1>3 DEF TypeOK, Observed
<1>5. /\ TablesOK'
      /\ \A q \in RoomsV1 : v1rooms'[q].registered =
           IF q = r THEN v1rooms[q].registered \ {c} ELSE v1rooms[q].registered
  <2>1. /\ TablesOK'
        /\ \A q \in RoomsV1 : v1rooms'[q].registered = v1rooms[q].registered \ V1!Only(r, c)[q]
    BY <1>1, RemoveV1Table
  <2>2. \A q \in RoomsV1 : V1!Only(r, c)[q] = IF q = r THEN {c} ELSE {}
    BY DEF V1!Only
  <2> QED
    BY <2>1, <2>2
<1>6. V1Exact'
  <2>1. Closes(connections, <<r, c>>)
    BY <1>3 DEF Closes
  <2> QED
    BY <1>1, <1>5, <2>1, V1Closed
<1>7. QuietV2
  <2>1. \A key \in KeysV2 : k \in Conns => v2_connections[key] # k
    BY <1>2, SessionKinds, ConnsAssumption DEF V1Exact, V2Reachable
  <2> QED
    BY <1>3, <2>1, SessionKinds DEF QuietV2
<1>8. V2Reachable' /\ LiveSessionsRegistered'
  BY <1>1, <1>7, IdleTables, V2Kept
<1> QED
  BY <1>3, <1>4, <1>5, <1>6, <1>8

\* A V2 client that is not a member any more loses its socket.
LEMMA CloseV2Step ==
  ASSUME CInv, NEW r \in RoomsV2, NEW c \in ClientsV2, CloseV2(r, c),
         UNCHANGED <<sockets, connections, v1rooms>>, Observed,
         TablesOK', KeepsV2({}), c \notin table'[r].registered
  PROVE  CInv'
<1> USE DEF CInv
<1> DEFINE k == v2_connections[<<r, c>>]
<1>1. Close(k) /\ v2_connections' = [v2_connections EXCEPT ![<<r, c>>] = None]
  BY DEF CloseV2
<1>2. <<r, c>> \in KeysV2 /\ k \in Conns \cup {None}
  BY DEF KeysV2, TypeOK
<1>3. /\ sessions' \in [Conns -> Session] /\ closing' \subseteq sockets' /\ SocketsAccounted'
      /\ \A j \in Conns : sessions'[j] = IF j = k THEN NoSession ELSE sessions[j]
  BY <1>1, <1>2, CloseSessions
<1>4. TypeOK'
  BY <1>1, <1>3 DEF TypeOK, Observed
<1>5. V2Reachable' /\ LiveSessionsRegistered'
  <2>1. Closes(v2_connections, <<r, c>>) /\ KeepsV2({<<r, c>>})
    BY <1>3 DEF Closes, KeepsV2
  <2> QED
    BY <1>1, <2>1, V2Closed
<1>6. QuietV1
  <2>1. \A key \in KeysV1 : k \in Conns => sessions[k] # RegisteredV1(key)
    BY <1>2, SessionKinds, ConnsAssumption DEF V2Reachable
  <2> QED
    BY <1>3, <2>1, SessionKinds DEF QuietV1
<1>7. V1Exact'
  BY <1>6, IdleTables, V1Kept
<1> QED
  BY <1>3, <1>4, <1>5, <1>7

\* The web server removes a V2 client from a room that lets it go at once.
LEMMA RemoveV2Step ==
  ASSUME CInv, NEW r \in RoomsV2, NEW c \in ClientsV2, RemoveV2(r, c)
  PROVE  CInv'
<1>1. /\ V2!RemoveNow(r, c) /\ CloseV2(r, c) /\ Observed
      /\ UNCHANGED <<sockets, connections, v1rooms, v1sent>>
  BY DEF RemoveV2, v1vars
<1>2. TablesOK' /\ KeepsV2({}) /\ c \notin table'[r].registered
  BY <1>1, RemoveV2Table DEF CInv
<1> QED
  BY <1>1, <1>2, CloseV2Step

\* A worker says that a V2 client left.
LEMMA MemberLeftStep ==
  ASSUME CInv, NEW r \in RoomsV2, NEW c \in ClientsV2, MemberLeft(r, c)
  PROVE  CInv'
<1>1. /\ V2!Left(r, c) /\ Observed
      /\ UNCHANGED <<sockets, connections, v1rooms, v1sent>>
      /\ CloseV2(r, c) \/ UNCHANGED <<sessions, closing, v2_connections>>
  BY DEF MemberLeft, v1vars
<1>2. TablesOK' /\ KeepsV2({}) /\ c \notin table'[r].registered
  BY <1>1, LeftV2Table DEF CInv
<1>3. CASE CloseV2(r, c)
  BY <1>1, <1>2, <1>3, CloseV2Step
<1>4. CASE UNCHANGED <<sessions, closing, v2_connections>>
  <2>1. SameV1
    BY <1>1, IdleTables DEF CInv
  <2> QED
    BY <1>1, <1>2, <1>4, <2>1, NoMapStep DEF sessionVars
<1> QED
  BY <1>1, <1>3, <1>4

\* Calls and answers that concern no session.
LEMMA TableStep ==
  ASSUME CInv,
         \/ \E k \in Conns, r \in RoomsV1, c \in ClientsV1 : SendV1(k, r, c)
         \/ \E r \in RoomsV1, c \in ClientsV1 : AdmitV1(r, c) \/ Inject(r, c)
         \/ V1Only
         \/ V2Only
  PROVE  CInv'
<1> USE DEF CInv
<1>1. ASSUME NEW r \in RoomsV1, NEW c \in ClientsV1,
             V1!Send(r, c) \/ \E is_loopback \in BOOLEAN : V1!Join(r, c, is_loopback),
             UNCHANGED <<sessionVars, v2vars>>, Observed
      PROVE  CInv'
  <2>1. UNCHANGED table
    BY <1>1 DEF v2vars
  <2>2. TablesOK' /\ SameV1
    BY <1>1, <2>1, SendV1Table, JoinV1
  <2> QED
    BY <1>1, <2>1, <2>2, IdleTables, NoMapStep
<1>2. CASE V1Only
  <2>1. /\ V1!handle_timeout \/ V1!Tick
        /\ UNCHANGED <<sessionVars, table>> /\ Observed
    BY <1>2 DEF V1Only, v2vars
  <2>2. TablesOK' /\ SameV1
    BY <2>1, TimeV1
  <2> QED
    BY <2>1, <2>2, IdleTables, NoMapStep
<1>3. CASE V2Only
  <2>1. UNCHANGED <<sessionVars, v1rooms, v1sent>> /\ Observed
    BY <1>3 DEF V2Only, v1vars
  <2>2. \/ \E r \in RoomsV2, c \in ClientsV2 : V2Step(r, c)
        \/ \E r \in RoomsV2 : V2RoomStep(r)
        \/ V2!LoseWorker
    BY <1>3 DEF V2Only, V2Step, V2RoomStep, Commit, Downgrade
  <2>3. TablesOK' /\ KeepsV2({})
    BY <2>1, <2>2, StepV2Table, RoomStepV2Table, LoseWorkerV2Table
  <2> QED
    BY <2>1, <2>3, IdleTables, NoMapStep
<1>4. CASE \E k \in Conns, r \in RoomsV1, c \in ClientsV1 : SendV1(k, r, c)
  BY <1>1, <1>4 DEF SendV1
<1>5. CASE \E r \in RoomsV1, c \in ClientsV1 : AdmitV1(r, c) \/ Inject(r, c)
  BY <1>1, <1>5 DEF AdmitV1, Inject
<1> QED
  BY <1>2, <1>3, <1>4, <1>5

\* The empty tables.
LEMMA EmptyTables ==
  /\ V1!Init => /\ v1rooms \in [RoomsV1 -> V1!Room]
                /\ v1sent \in [RoomsV1 -> [ClientsV1 -> Nat]]
                /\ \A r \in RoomsV1 : v1rooms[r].registered = {}
  /\ V1!Close => /\ v1rooms' \in [RoomsV1 -> V1!Room]
                 /\ v1sent' \in [RoomsV1 -> [ClientsV1 -> Nat]]
                 /\ \A r \in RoomsV1 : v1rooms'[r].registered = {}
  /\ V2!Init => /\ table \in [RoomsV2 -> V2!Room]
                /\ \A r \in RoomsV2 : table[r].registered = {}
  /\ V2!Clear => /\ table' \in [RoomsV2 -> V2!Room]
                 /\ \A r \in RoomsV2 : table'[r].registered = {}
BY EmptyRoomV1, AbsentV2 DEF V1!Init, V1!Close, V2!Init, V2!Clear

\* Everything goes at once.
LEMMA ShutdownStep ==
  ASSUME CInv, Shutdown
  PROVE  CInv'
<1> USE DEF CInv
<1>1. /\ closing' = closing \cup {k \in sockets : sessions[k] # NoSession}
      /\ sessions' = [k \in Conns |-> NoSession]
      /\ connections' = [key \in KeysV1 |-> None]
      /\ v2_connections' = [key \in KeysV2 |-> None]
      /\ sockets' = sockets /\ Observed
  BY DEF Shutdown
<1>2. /\ TablesOK'
      /\ \A r \in RoomsV1 : v1rooms'[r].registered = {}
      /\ \A r \in RoomsV2 : table'[r].registered = {}
  BY EmptyTables DEF Shutdown, TablesOK
<1>3. TypeOK'
  BY <1>1, SessionTypes DEF TypeOK, Observed
<1>4. SocketsAccounted'
  BY <1>1 DEF SocketsAccounted
<1>5. V1Exact'
  BY <1>1, <1>2, SessionKinds, ConnsAssumption DEF V1Exact, KeysV1
<1>6. V2Reachable' /\ LiveSessionsRegistered'
  BY <1>1, <1>2, SessionKinds DEF V2Reachable, LiveSessionsRegistered, KeysV2
<1> QED
  BY <1>2, <1>3, <1>4, <1>5, <1>6

\* The collider begins with nothing.
LEMMA CInvInit ==
  ASSUME Init
  PROVE  CInv
<1>1. /\ TablesOK
      /\ \A r \in RoomsV1 : v1rooms[r].registered = {}
      /\ \A r \in RoomsV2 : table[r].registered = {}
  BY EmptyTables DEF Init, TablesOK
<1>2. TypeOK
  BY SessionTypes DEF Init, TypeOK
<1>3. SocketsAccounted
  BY DEF Init, SocketsAccounted
<1>4. V1Exact
  BY <1>1, SessionKinds, ConnsAssumption DEF Init, V1Exact, KeysV1
<1>5. V2Reachable /\ LiveSessionsRegistered
  BY <1>1, SessionKinds DEF Init, V2Reachable, LiveSessionsRegistered, KeysV2
<1> QED
  BY <1>1, <1>2, <1>3, <1>4, <1>5 DEF CInv

\* Every step keeps the maps exact.
LEMMA CInvStep ==
  ASSUME CInv, [Next]_vars
  PROVE  CInv'
<1>1. CASE UNCHANGED vars
  <2>1. UNCHANGED <<sockets, sessions, connections, v2_connections, closing, stale,
                    v1rooms, v1sent, table>>
    BY <1>1 DEF vars, sessionVars, v1vars, v2vars
  <2> QED
    BY <2>1 DEF CInv, TypeOK, TablesOK, V1Exact, V2Reachable, LiveSessionsRegistered,
                SocketsAccounted
<1>2. CASE Browser
  <2>1. PICK k \in Conns :
          \/ Connect(k) \/ Refuse(k) \/ Disconnect(k)
          \/ \E r \in RoomsV1, c \in ClientsV1 : RegisterV1(k, r, c) \/ SendV1(k, r, c)
          \/ \E r \in RoomsV2, c \in ClientsV2 : RegisterV2(k, r, c)
    BY <1>2 DEF Browser
  <2> QED
    BY <2>1, ConnectStep, RefuseStep, DisconnectStep, RegisterV1Step, RegisterV2Step, TableStep
<1>3. CASE Authority
  BY <1>3, RemoveV1Step, RemoveV2Step, TableStep DEF Authority
<1>4. CASE \E r \in RoomsV2, c \in ClientsV2 : MemberLeft(r, c)
  BY <1>4, MemberLeftStep
<1>5. CASE V1Only \/ V2Only
  BY <1>5, TableStep
<1>6. CASE Shutdown
  BY <1>6, ShutdownStep
<1> QED
  BY <1>1, <1>2, <1>3, <1>4, <1>5, <1>6 DEF Next

\* The invariant holds in every reachable state.
LEMMA CInvHolds == Spec => []CInv
<1>1. Init => CInv
  BY CInvInit
<1>2. CInv /\ [Next]_vars => CInv'
  BY CInvStep
<1> QED
  BY <1>1, <1>2, PTL DEF Spec

-----------------------------------------------------------------------------
(***************************************************************************)
(* The theorems.                                                           *)
(***************************************************************************)

\* The sessions and connections keep their types, and only an open socket is
\* to be closed.
THEOREM ColliderTypeCorrect == Spec => []TypeOK
<1>1. CInv => TypeOK
  BY DEF CInv
<1> QED
  BY <1>1, CInvHolds, PTL

\* register_v1, disconnect, close_client_connection: a V1 client is registered
\* exactly while connections names a socket, and one socket has its session.
THEOREM V1SessionsExact == Spec => []V1Exact
<1>1. CInv => V1Exact
  BY DEF CInv
<1> QED
  BY <1>1, CInvHolds, PTL

\* register_v2, disconnect, close_v2_client_connection: v2_connections names
\* the registered member's own socket, whatever failed or went meanwhile.
THEOREM V2MembersReachable == Spec => []V2Reachable
<1>1. CInv => V2Reachable
  BY DEF CInv
<1> QED
  BY <1>1, CInvHolds, PTL

\* disconnect of a socket that was replaced: the session that replaced it
\* keeps connection and registration while its membership lasts.
THEOREM LiveSessionsKept == Spec => []LiveSessionsRegistered
<1>1. CInv => LiveSessionsRegistered
  BY DEF CInv
<1> QED
  BY <1>1, CInvHolds, PTL

\* A socket without a session, other than by disconnect, is told to close.
THEOREM SocketsClosed == Spec => []SocketsAccounted
<1>1. CInv => SocketsAccounted
  BY DEF CInv
<1> QED
  BY <1>1, CInvHolds, PTL

\* The collider takes the V1 table through its own operations only: what is
\* proved of V1Rooms holds of rooms as Collider drives it.
THEOREM V1TableDriven == Spec => V1!Spec
<1>1. Init => V1!Init
  BY DEF Init
<1>2. [Next]_vars => [V1!Next]_(V1!vars)
  <2> SUFFICES ASSUME [Next]_vars PROVE V1!Next \/ UNCHANGED V1!vars
    OBVIOUS
  <2>1. CASE UNCHANGED vars
    BY <2>1 DEF vars, v1vars, V1!vars
  <2>2. CASE Browser
    <3>1. PICK k \in Conns :
            \/ Connect(k) \/ Refuse(k) \/ Disconnect(k)
            \/ \E r \in RoomsV1, c \in ClientsV1 : RegisterV1(k, r, c) \/ SendV1(k, r, c)
            \/ \E r \in RoomsV2, c \in ClientsV2 : RegisterV2(k, r, c)
      BY <2>2 DEF Browser
    <3>2. CASE Connect(k) \/ Refuse(k) \/ \E r \in RoomsV2, c \in ClientsV2 : RegisterV2(k, r, c)
      BY <3>2 DEF Connect, Refuse, RegisterV2, v1vars, V1!vars
    <3>3. CASE \E r \in RoomsV1, c \in ClientsV1 : RegisterV1(k, r, c) \/ SendV1(k, r, c)
      BY <3>3 DEF RegisterV1, SendV1, V1!Next, V1!ClientCall
    <3>4. CASE Disconnect(k)
      <4>1. CASE Forget(k) \/ \E key \in KeysV2 : ForgetV2(k, key[1], key[2])
        BY <4>1 DEF Forget, ForgetV2, v1vars, V1!vars
      <4>2. ASSUME NEW key \in KeysV1, ForgetV1(k, key[1], key[2])
            PROVE  V1!Next
        <5>1. key[1] \in RoomsV1 /\ key[2] \in ClientsV1
          BY DEF KeysV1
        <5> QED
          BY <4>2, <5>1 DEF ForgetV1, V1!Next, V1!ClientCall
      <4> QED
        BY <3>4, <4>1, <4>2 DEF Disconnect
    <3> QED
      BY <3>1, <3>2, <3>3, <3>4
  <2>3. CASE Authority
    <3>1. CASE \E r \in RoomsV2, c \in ClientsV2 : RemoveV2(r, c)
      BY <3>1 DEF RemoveV2, v1vars, V1!vars
    <3>2. CASE \E r \in RoomsV1, c \in ClientsV1 : AdmitV1(r, c) \/ Inject(r, c) \/ RemoveV1(r, c)
      BY <3>2 DEF AdmitV1, Inject, RemoveV1, V1!Next, V1!ClientCall
    <3> QED
      BY <2>3, <3>1, <3>2 DEF Authority
  <2>4. CASE \E r \in RoomsV2, c \in ClientsV2 : MemberLeft(r, c)
    BY <2>4 DEF MemberLeft, v1vars, V1!vars
  <2>5. CASE V1Only
    BY <2>5 DEF V1Only, V1!Next
  <2>6. CASE V2Only
    BY <2>6 DEF V2Only, v1vars, V1!vars
  <2>7. CASE Shutdown
    BY <2>7 DEF Shutdown, V1!Next
  <2> QED
    BY <2>1, <2>2, <2>3, <2>4, <2>5, <2>6, <2>7 DEF Next
<1> QED
  BY <1>1, <1>2, PTL DEF Spec, V1!Spec

\* And the V2 table through steps that RoomModes allows, so that whatever
\* holds of every table that implements RoomModes holds under the collider.
THEOREM V2TableDriven == Spec => V2!Spec
<1>1. Init => V2!Init
  BY DEF Init
<1>2. [Next]_vars => [V2!Next]_(V2!vars)
  <2> SUFFICES ASSUME [Next]_vars PROVE V2!Next \/ UNCHANGED V2!vars
    OBVIOUS
  <2>1. CASE UNCHANGED vars
    BY <2>1 DEF vars, v2vars, V2!vars
  <2>2. CASE Browser
    <3>1. PICK k \in Conns :
            \/ Connect(k) \/ Refuse(k) \/ Disconnect(k)
            \/ \E r \in RoomsV1, c \in ClientsV1 : RegisterV1(k, r, c) \/ SendV1(k, r, c)
            \/ \E r \in RoomsV2, c \in ClientsV2 : RegisterV2(k, r, c)
      BY <2>2 DEF Browser
    <3>2. CASE \/ Connect(k) \/ Refuse(k)
               \/ \E r \in RoomsV1, c \in ClientsV1 : RegisterV1(k, r, c) \/ SendV1(k, r, c)
      BY <3>2 DEF Connect, Refuse, RegisterV1, SendV1, v2vars, V2!vars
    <3>3. CASE \E r \in RoomsV2, c \in ClientsV2 : RegisterV2(k, r, c)
      BY <3>3 DEF RegisterV2, V2!Next, V2!Request
    <3>4. CASE Disconnect(k)
      <4>1. CASE Forget(k) \/ \E key \in KeysV1 : ForgetV1(k, key[1], key[2])
        BY <4>1 DEF Forget, ForgetV1, v2vars, V2!vars
      <4>2. ASSUME NEW key \in KeysV2, ForgetV2(k, key[1], key[2])
            PROVE  V2!Next \/ UNCHANGED V2!vars
        <5>1. key[1] \in RoomsV2 /\ key[2] \in ClientsV2
          BY DEF KeysV2
        <5> QED
          BY <4>2, <5>1 DEF ForgetV2, V2!Next, V2!Request, v2vars, V2!vars
      <4> QED
        BY <3>4, <4>1, <4>2 DEF Disconnect
    <3> QED
      BY <3>1, <3>2, <3>3, <3>4
  <2>3. CASE Authority
    <3>1. CASE \E r \in RoomsV2, c \in ClientsV2 : RemoveV2(r, c)
      BY <3>1 DEF RemoveV2, V2!Next, V2!Request
    <3>2. CASE \E r \in RoomsV1, c \in ClientsV1 : AdmitV1(r, c) \/ Inject(r, c) \/ RemoveV1(r, c)
      BY <3>2 DEF AdmitV1, Inject, RemoveV1, v2vars, V2!vars
    <3> QED
      BY <2>3, <3>1, <3>2 DEF Authority
  <2>4. CASE \E r \in RoomsV2, c \in ClientsV2 : MemberLeft(r, c)
    BY <2>4 DEF MemberLeft, V2!Next, V2!Answer
  <2>5. CASE V1Only
    BY <2>5 DEF V1Only, v2vars, V2!vars
  <2>6. CASE V2Only
    BY <2>6 DEF V2Only, Commit, Downgrade, V2!Next, V2!Request, V2!Answer
  <2>7. CASE Shutdown
    BY <2>7 DEF Shutdown, V2!Next
  <2> QED
    BY <2>1, <2>2, <2>3, <2>4, <2>5, <2>6, <2>7 DEF Next
<1> QED
  BY <1>1, <1>2, PTL DEF Spec, V2!Spec

=============================================================================
