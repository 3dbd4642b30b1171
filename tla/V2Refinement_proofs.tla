------------------------- MODULE V2Refinement_proofs -------------------------
(***************************************************************************)
(* V2Rooms implements RoomModes, for every value of its constants.         *)
(*                                                                         *)
(* The initial state maps to the initial state, and every step to a step   *)
(* of RoomModes or to a stutter.  The invariants of V2Rooms_proofs and     *)
(* V2RoomsMembers_proofs say why: the size of the room abort_upgrade   *)
(* and commit_downgrade leave behind, that nobody registered is dropped    *)
(* unasked, and that only an SFU room waits for a join or a leave.         *)
(***************************************************************************)
EXTENDS V2Refinement, V2RoomsMembers_proofs

ARoom == [mode       : {"Absent", "P2p", "Upgrading", "Sfu", "Failed"},
          members    : SUBSET Clients,
          entering   : SUBSET Clients,
          registered : SUBSET Clients,
          removal    : BOOLEAN,
          epoch      : Nat]

\* A step makes of the visible part of room r what next says.
Shows(r, next) == Table' = [Table EXCEPT ![r] = next]

-----------------------------------------------------------------------------
(***************************************************************************)
(* The visible part of a room.                                             *)
(***************************************************************************)

\* The visible part of a room has RoomModes' fields.
LEMMA VisibleType ==
  ASSUME NEW room \in Room
  PROVE  Visible(room) \in ARoom
BY DEF Visible, ARoom, Room, Modes, Entering, PendingLeave

\* The fields of the visible part of a room.
LEMMA VisibleFields ==
  ASSUME NEW room
  PROVE  /\ Visible(room).mode = room.mode
         /\ Visible(room).members = room.members
         /\ Visible(room).entering = Entering(room)
         /\ Visible(room).registered = room.registered
         /\ Visible(room).removal = room.pending_leave.requested
         /\ Visible(room).epoch = room.signal_epoch
BY DEF Visible

\* Rooms of RoomModes with the same fields are the same.
LEMMA SameFields ==
  ASSUME NEW a \in ARoom, NEW b \in ARoom,
         a.mode = b.mode, a.members = b.members, a.entering = b.entering,
         a.registered = b.registered, a.removal = b.removal, a.epoch = b.epoch
  PROVE  a = b
BY DEF ARoom

\* The size RoomModes allows a P2P room is that of the table.
LEMMA SmallIsSmall ==
  ASSUME NEW S
  PROVE  Abstract!Small(S) <=> Cardinality(S) <= MAX_P2P_MEMBERS
<1>1. Abstract!Cardinality(S) = Cardinality(S)
  BY DEF Abstract!Cardinality, Cardinality
<1> QED
  BY <1>1 DEF Abstract!Small, Abstract!MAX_P2P_MEMBERS, MAX_P2P_MEMBERS

\* An unknown room looks like RoomModes' absent one.
LEMMA VisibleAbsent == Visible(AbsentRoom) = Abstract!Absent
BY DEF Visible, AbsentRoom, Abstract!Absent, Entering, NoUpgrade, NoLeave

\* A step that touches one room touches one visible room.
LEMMA OneVisible ==
  ASSUME TypeOK, NEW r \in Rooms, NEW next, rooms' = [rooms EXCEPT ![r] = next]
  PROVE  Shows(r, Visible(next))
<1>1. \A q \in Rooms : rooms'[q] = IF q = r THEN next ELSE rooms[q]
  BY DEF TypeOK
<1>2. Table' = [q \in Rooms |-> Visible(rooms'[q])]
  BY DEF Table
<1>3. Table' = [q \in Rooms |-> IF q = r THEN Visible(next) ELSE Visible(rooms[q])]
  BY <1>1, <1>2
<1> QED
  BY <1>3 DEF Shows, Table

\* A step that keeps what is visible of a room is no step of RoomModes.
LEMMA SameVisible ==
  ASSUME TypeOK, NEW r \in Rooms, NEW next, rooms' = [rooms EXCEPT ![r] = next],
         Visible(next) = Visible(rooms[r])
  PROVE  Table' = Table
<1>1. \A q \in Rooms : rooms'[q] = IF q = r THEN next ELSE rooms[q]
  BY DEF TypeOK
<1> QED
  BY <1>1 DEF Table

\* The leaves in flight do not change with commands of another kind.
LEMMA SameLeaving ==
  ASSUME \A p : p.kind = "SfuLeave" => (p \in pending <=> p \in pending')
  PROVE  Leaving' = Leaving
BY DEF Leaving

\* Nobody enters a P2P room, nor an SFU room that awaits no join.
LEMMA NobodyEnters ==
  ASSUME NEW room \in Room, RoomOK(room), MembersOK(room),
         room.mode \in {"Absent", "P2p"} \/ (room.mode = "Sfu" /\ room.pending_join = None)
  PROVE  Entering(room) = {}
<1>1. room.mode \in {"Absent", "P2p", "Sfu"} => room.upgrade = NoUpgrade
  BY DEF RoomOK, BarrierShape
<1>2. room.pending_join = None
  BY DEF MembersOK, AwaitingOK
<1> QED
  BY <1>1, <1>2, IdsAssumption DEF Entering, NoUpgrade, None, Room

\* Requests of the web server that admit a client.
LEMMA AdmitRefines ==
  ASSUME TypeOK, RoomsOK, AllMembersOK, NEW r \in Rooms, NEW c \in Clients,
         AdmitFirst(r, c) \/ AdmitP2p(r, c) \/ AdmitUpgrade(r, c) \/ AdmitSfu(r, c)
  PROVE  Abstract!Request(r, c)
<1> DEFINE room == rooms[r]
           v == Visible(room)
           more == AddMember(room, c)
<1>0. /\ room \in Room /\ RoomOK(room) /\ MembersOK(room)
      /\ Table[r] = v /\ more \in Room /\ c # None
  BY AddMemberType, IdsAssumption DEF TypeOK, RoomsOK, AllMembersOK, Table, None
<1>a. /\ v \in ARoom /\ v.mode = room.mode /\ v.members = room.members
      /\ v.entering = Entering(room) /\ v.registered = room.registered
      /\ v.removal = room.pending_leave.requested /\ v.epoch = room.signal_epoch
      /\ room.members \subseteq Clients
  BY <1>0, VisibleType, VisibleFields DEF Room
<1>m. /\ more.mode = room.mode /\ more.members = room.members \cup {c}
      /\ more.registered = room.registered
      /\ more.upgrade = room.upgrade /\ more.pending_join = room.pending_join
      /\ more.pending_leave = room.pending_leave /\ more.signal_epoch = room.signal_epoch
  BY <1>0 DEF AddMember, Room
<1>1. CASE AdmitFirst(r, c)
  <2> DEFINE next == [AddMember(AbsentRoom, c) EXCEPT !.mode = "P2p", !.initiators = {c}]
  <2>0. AddMember(AbsentRoom, c) \in Room
    BY ConstantTypes, AddMemberType
  <2>1. /\ next.mode = "P2p" /\ next.members = {c} /\ next.registered = {}
        /\ next.upgrade = NoUpgrade /\ next.pending_join = None
        /\ next.pending_leave = NoLeave /\ next.signal_epoch = 0
    BY <2>0 DEF AddMember, AbsentRoom, Room
  <2>2. /\ room = AbsentRoom /\ rooms' = [rooms EXCEPT ![r] = next]
        /\ pending' = pending
    BY <1>0, <1>1 DEF AdmitFirst, MembersOK
  <2>n. next \in Room
    BY <2>0 DEF Room, Modes
  <2> HIDE DEF next
  <2>3. v = Abstract!Absent
    BY <2>2, VisibleAbsent
  <2> HIDE DEF v
  <2>4. Visible(next) = [v EXCEPT !.mode = "P2p", !.members = v.members \cup {c}]
    <3>1. /\ Visible(next).mode = "P2p" /\ Visible(next).members = {c}
          /\ Visible(next).entering = {} /\ Visible(next).registered = {}
          /\ Visible(next).removal = FALSE /\ Visible(next).epoch = 0
          /\ Visible(next) \in ARoom
      <4>1. Entering(next) = {}
        BY <1>0, <2>1 DEF Entering, NoUpgrade
      <4>2. next.pending_leave.requested = FALSE
        BY <2>1 DEF NoLeave
      <4> QED
        BY <2>1, <2>n, <4>1, <4>2, VisibleType, VisibleFields
    <3>2. LET b == [v EXCEPT !.mode = "P2p", !.members = v.members \cup {c}]
          IN  /\ b.mode = "P2p" /\ b.members = {c}
              /\ b.entering = {} /\ b.registered = {}
              /\ b.removal = FALSE /\ b.epoch = 0
              /\ b \in ARoom
      BY <1>a, <2>3 DEF ARoom, Abstract!Absent
    <3> QED
      BY <3>1, <3>2, SameFields
  <2>5. Shows(r, [v EXCEPT !.mode = "P2p", !.members = v.members \cup {c}])
    <3>1. Shows(r, Visible(next))
      BY <2>2, OneVisible
    <3> QED
      BY <2>4, <3>1
  <2>6. v.mode = "Absent" /\ v.members = {}
    BY <2>3 DEF Abstract!Absent
  <2>7. Abstract!Small(v.members \cup {c})
    <3>1. Cardinality({c}) = 1
      BY FS_Singleton
    <3>2. v.members \cup {c} = {c}
      BY <2>6
    <3> QED
      BY <3>1, <3>2, SmallIsSmall DEF MAX_P2P_MEMBERS
  <2>8. Leaving' = Leaving
    BY <2>2 DEF Leaving
  <2> QED
    BY <1>0, <2>5, <2>6, <2>7, <2>8
       DEF Shows, Abstract!Request, Abstract!AdmitAtOnce, Abstract!Becomes
<1>2. CASE AdmitP2p(r, c)
  <2>2. /\ room.mode = "P2p" /\ c \notin room.members
        /\ Cardinality(room.members) < MAX_P2P_MEMBERS
        /\ rooms' = [rooms EXCEPT ![r] = more] /\ pending' = pending
    BY <1>2 DEF AdmitP2p
  <2>3. Entering(more) = {} /\ Entering(room) = {}
    <3>1. Entering(room) = {} /\ room.upgrade.joining = None /\ room.pending_join = None
      BY <1>0, <2>2, NobodyEnters, NoBarrier DEF MembersOK, AwaitingOK
    <3> QED
      BY <1>0, <1>a, <1>m, <3>1, IdsAssumption DEF Entering, None
  <2> HIDE DEF v, more
  <2>4. Visible(more) = [v EXCEPT !.mode = "P2p", !.members = v.members \cup {c}]
    <3>1. /\ Visible(more).mode = "P2p" /\ Visible(more).members = v.members \cup {c}
          /\ Visible(more).entering = v.entering /\ Visible(more).registered = v.registered
          /\ Visible(more).removal = v.removal /\ Visible(more).epoch = v.epoch
          /\ Visible(more) \in ARoom
      BY <1>0, <1>a, <1>m, <2>2, <2>3, VisibleType, VisibleFields
    <3> QED
      BY <1>a, <3>1, SameFields DEF ARoom
  <2>5. Shows(r, [v EXCEPT !.mode = "P2p", !.members = v.members \cup {c}])
    <3>1. Shows(r, Visible(more))
      BY <2>2, OneVisible
    <3> QED
      BY <2>4, <3>1
  <2>6. Abstract!Small(v.members \cup {c})
    <3>1. Cardinality(room.members \cup {c}) <= MAX_P2P_MEMBERS
      BY <1>a, <2>2, OneMore
    <3> QED
      BY <1>a, <3>1, SmallIsSmall
  <2>8. Leaving' = Leaving
    BY <2>2 DEF Leaving
  <2> QED
    BY <1>0, <1>a, <2>2, <2>5, <2>6, <2>8
       DEF Shows, Abstract!Request, Abstract!AdmitAtOnce, Abstract!Becomes
<1>3. CASE AdmitUpgrade(r, c)
  <2> DEFINE next(w) == [more EXCEPT
                  !.mode = "Upgrading", !.assignment_epoch = room.assignment_epoch + 1,
                  !.assigned = w,
                  !.upgrade = [joining |-> c, todo |-> room.members \cup {c},
                               joined |-> <<>>]]
  <2>0. PICK w \in Workers :
          /\ rooms' = [rooms EXCEPT ![r] = next(w)]
          /\ \E cl, lc, ae : Issue({MakeCommand("UpgradeJoin", w, r, cl, lc, ae)})
    BY <1>3 DEF AdmitUpgrade
  <2>2. /\ room.mode = "P2p" /\ c \notin room.members
        /\ Cardinality(room.members) >= MAX_P2P_MEMBERS
    BY <1>3 DEF AdmitUpgrade
  <2> HIDE DEF more
  <2>1. /\ next(w).mode = "Upgrading" /\ next(w).members = room.members \cup {c}
        /\ next(w).registered = room.registered
        /\ next(w).upgrade.joining = c /\ next(w).pending_join = room.pending_join
        /\ next(w).pending_leave = room.pending_leave
        /\ next(w).signal_epoch = room.signal_epoch
    BY <1>0, <1>m DEF Room
  <2>n. next(w) \in Room
    <3>1. [joining |-> c, todo |-> room.members \cup {c}, joined |-> <<>>] \in Upgrade
      BY <1>a DEF Upgrade
    <3>2. room.assignment_epoch + 1 \in Nat
      BY <1>0 DEF Room
    <3> QED
      BY <1>0, <3>1, <3>2 DEF Room, Modes
  <2> HIDE DEF next, v
  <2>3. Entering(next(w)) = {c} /\ v.entering = {}
    <3>1. Entering(room) = {} /\ room.pending_join = None
      BY <1>0, <2>2, NobodyEnters DEF MembersOK, AwaitingOK
    <3> QED
      BY <1>0, <1>a, <2>1, <3>1, IdsAssumption DEF Entering, None
  <2>4. Visible(next(w)) = [v EXCEPT !.mode = "Upgrading", !.members = v.members \cup {c},
                                     !.entering = {c}]
    <3>1. /\ Visible(next(w)).mode = "Upgrading"
          /\ Visible(next(w)).members = v.members \cup {c}
          /\ Visible(next(w)).entering = {c} /\ Visible(next(w)).registered = v.registered
          /\ Visible(next(w)).removal = v.removal /\ Visible(next(w)).epoch = v.epoch
          /\ Visible(next(w)) \in ARoom
      BY <1>a, <2>1, <2>n, <2>3, VisibleType, VisibleFields
    <3> QED
      BY <1>a, <3>1, SameFields DEF ARoom
  <2>5. Shows(r, [v EXCEPT !.mode = "Upgrading", !.members = v.members \cup {c},
                           !.entering = {c}])
    BY <2>0, <2>4, OneVisible
  <2>6. ~Abstract!Small(v.members \cup {c})
    <3>1. IsFiniteSet(room.members)
      BY <1>a, FS_Subset, IdsAssumption
    <3>2. Cardinality(room.members \cup {c}) = Cardinality(room.members) + 1
      BY <2>2, <3>1, FS_AddElement
    <3>3. Cardinality(room.members) \in Nat
      BY <3>1, FS_CardinalityType
    <3> QED
      BY <1>a, <2>2, <3>2, <3>3, SmallIsSmall DEF MAX_P2P_MEMBERS
  <2>8. Leaving' = Leaving
    <3>1. \A p : p.kind = "SfuLeave" => (p \in pending <=> p \in pending')
      BY <2>0 DEF Issue, MakeCommand
    <3> QED
      BY <3>1, SameLeaving
  <2> QED
    BY <1>0, <1>a, <2>2, <2>3, <2>5, <2>6, <2>8
       DEF Shows, Abstract!Request, Abstract!AdmitLater, Abstract!Becomes
<1>4. CASE AdmitSfu(r, c)
  <2> DEFINE next == [more EXCEPT !.pending_join = c, !.downgrade_deadline = None]
  <2>2. /\ room.mode = "Sfu" /\ c \notin room.members /\ room.pending_join = None
        /\ rooms' = [rooms EXCEPT ![r] = next]
        /\ \E w, lc, ae : Issue({MakeCommand("SfuJoin", w, r, c, lc, ae)})
    BY <1>4 DEF AdmitSfu
  <2> HIDE DEF more
  <2>1. /\ next.mode = room.mode /\ next.members = room.members \cup {c}
        /\ next.registered = room.registered
        /\ next.upgrade = room.upgrade /\ next.pending_join = c
        /\ next.pending_leave = room.pending_leave /\ next.signal_epoch = room.signal_epoch
        /\ next \in Room
    BY <1>0, <1>m DEF Room
  <2> HIDE DEF next, v
  <2>3. Entering(next) = {c} /\ v.entering = {}
    <3>1. Entering(room) = {} /\ room.upgrade.joining = None
      BY <1>0, <2>2, NobodyEnters, NoBarrier
    <3> QED
      BY <1>0, <1>a, <2>1, <3>1, IdsAssumption DEF Entering, None
  <2>4. Visible(next) = [v EXCEPT !.mode = "Sfu", !.members = v.members \cup {c},
                                  !.entering = {c}]
    <3>1. /\ Visible(next).mode = "Sfu" /\ Visible(next).members = v.members \cup {c}
          /\ Visible(next).entering = {c} /\ Visible(next).registered = v.registered
          /\ Visible(next).removal = v.removal /\ Visible(next).epoch = v.epoch
          /\ Visible(next) \in ARoom
      BY <1>a, <2>1, <2>2, <2>3, VisibleType, VisibleFields
    <3> QED
      BY <1>a, <3>1, SameFields DEF ARoom
  <2>5. Shows(r, [v EXCEPT !.mode = "Sfu", !.members = v.members \cup {c},
                           !.entering = {c}])
    <3>1. Shows(r, Visible(next))
      BY <2>2, OneVisible
    <3> QED
      BY <2>4, <3>1
  <2>8. Leaving' = Leaving
    <3>1. \A p : p.kind = "SfuLeave" => (p \in pending <=> p \in pending')
      BY <2>2 DEF Issue, MakeCommand
    <3> QED
      BY <3>1, SameLeaving
  <2> QED
    BY <1>0, <1>a, <2>2, <2>3, <2>5, <2>8
       DEF Shows, Abstract!Request, Abstract!AdmitLater, Abstract!Becomes
<1> QED
  BY <1>1, <1>2, <1>3, <1>4

-----------------------------------------------------------------------------
(***************************************************************************)
(* The visible part of what the operations make of a room.                 *)
(***************************************************************************)

\* Dropped members are dropped from the visible room.
LEMMA VisibleDrop ==
  ASSUME NEW room \in Room, NEW S
  PROVE  Visible(DropMembers(room, S)) = Abstract!Without(Visible(room), S)
<1> DEFINE rest == DropMembers(room, S)
           v == Visible(room)
<1>1. /\ rest.mode = room.mode /\ rest.members = room.members \ S
      /\ rest.registered = room.registered \ S /\ rest.upgrade = room.upgrade
      /\ rest.pending_join = room.pending_join /\ rest.pending_leave = room.pending_leave
      /\ rest.signal_epoch = room.signal_epoch /\ rest \in Room
  BY DropMembersType DEF DropMembers, Room
<1> HIDE DEF rest
<1>2. Entering(rest) = Entering(room) \ S
  BY <1>1 DEF Entering
<1>3. /\ v \in ARoom /\ v.mode = room.mode /\ v.members = room.members
      /\ v.entering = Entering(room) /\ v.registered = room.registered
      /\ v.removal = room.pending_leave.requested /\ v.epoch = room.signal_epoch
  BY VisibleType, VisibleFields
<1>4. Visible(rest) \in ARoom
  BY <1>1, VisibleType
<1> HIDE DEF v
<1>5. Visible(rest) = [v EXCEPT !.members = v.members \ S, !.entering = v.entering \ S,
                                !.registered = v.registered \ S]
  <2> DEFINE w == [v EXCEPT !.members = v.members \ S, !.entering = v.entering \ S,
                            !.registered = v.registered \ S]
  <2>1. /\ w \in ARoom /\ w.mode = v.mode /\ w.members = v.members \ S
        /\ w.entering = v.entering \ S /\ w.registered = v.registered \ S
        /\ w.removal = v.removal /\ w.epoch = v.epoch
    BY <1>3 DEF ARoom
  <2> HIDE DEF w
  <2>2. Visible(rest) = w
    <3> DEFINE x == Visible(rest)
    <3>1. /\ x.mode = w.mode /\ x.members = w.members /\ x.entering = w.entering
          /\ x.registered = w.registered /\ x.removal = w.removal /\ x.epoch = w.epoch
      BY <1>1, <1>2, <1>3, <2>1, VisibleFields
    <3>2. x \in ARoom
      BY <1>4
    <3> HIDE DEF x
    <3>3. x = w
      BY <2>1, <3>1, <3>2, SameFields
    <3> QED
      BY <3>3 DEF x
  <2> QED
    BY <2>2 DEF w
<1> QED
  BY <1>3, <1>5 DEF Abstract!Without, rest, v, ARoom

\* A room without members is an absent one in both.
LEMMA VisibleReap ==
  ASSUME NEW room \in Room
  PROVE  Visible(ReapIfEmpty(room)) = Abstract!Reaped(Visible(room))
BY VisibleAbsent, VisibleFields DEF ReapIfEmpty, Abstract!Reaped

\* Who offers and what is queued is not visible.
LEMMA VisiblePromote ==
  ASSUME NEW room \in Room
  PROVE  Visible(promote_survivor(room)) = Visible(room)
BY DEF promote_survivor, Visible, Entering, Room

\* A step that keeps the visible fields of a room.
LEMMA SameShown ==
  ASSUME TypeOK, NEW r \in Rooms, NEW next \in Room, rooms' = [rooms EXCEPT ![r] = next],
         next.mode = rooms[r].mode, next.members = rooms[r].members,
         next.upgrade = rooms[r].upgrade, next.pending_join = rooms[r].pending_join,
         next.registered = rooms[r].registered,
         next.pending_leave.requested = rooms[r].pending_leave.requested,
         next.signal_epoch = rooms[r].signal_epoch
  PROVE  Table' = Table
<1>1. Visible(next) = Visible(rooms[r])
  BY DEF Visible, Entering
<1> QED
  BY <1>1, SameVisible

\* A leave that is issued is one the worker was told of.
LEMMA LeavingAsked ==
  ASSUME NEW r \in Rooms, NEW c \in Clients, NEW p,
         p.kind = "SfuLeave", p.room = r, p.client = c, pending' = pending \cup {p}
  PROVE  Leaving' = [Leaving EXCEPT ![r] = @ \cup {c}]
<1> DEFINE S(q) == {x.client : x \in {y \in pending : y.room = q /\ y.kind = "SfuLeave"}}
           T(q) == {x.client : x \in {y \in pending' : y.room = q /\ y.kind = "SfuLeave"}}
<1>1. \A q \in Rooms : T(q) = IF q = r THEN S(q) \cup {c} ELSE S(q)
  OBVIOUS
<1>2. Leaving = [q \in Rooms |-> S(q)] /\ Leaving' = [q \in Rooms |-> T(q)]
  BY DEF Leaving
<1> HIDE DEF S, T
<1> QED
  BY <1>1, <1>2

\* One that is answered is not, unless another is out for its client.
LEMMA LeavingAnswered ==
  ASSUME NEW r \in Rooms, NEW c \in Clients, NEW p \in pending,
         p.kind = "SfuLeave", p.room = r, p.client = c, pending' = pending \ {p}
  PROVE  c \in Leaving[r] /\ Abstract!Settled(r, c)
<1> DEFINE S(q) == {x.client : x \in {y \in pending : y.room = q /\ y.kind = "SfuLeave"}}
           T(q) == {x.client : x \in {y \in pending' : y.room = q /\ y.kind = "SfuLeave"}}
<1>1. c \in S(r) /\ T(r) \in {S(r), S(r) \ {c}}
  OBVIOUS
<1>2. \A q \in Rooms : q # r => T(q) = S(q)
  OBVIOUS
<1>3. Leaving = [q \in Rooms |-> S(q)] /\ Leaving' = [q \in Rooms |-> T(q)]
  BY DEF Leaving
<1> HIDE DEF S, T
<1>4. Leaving' = [Leaving EXCEPT ![r] = T(r)] /\ Leaving[r] = S(r)
  BY <1>2, <1>3
<1> QED
  BY <1>1, <1>4 DEF Abstract!Settled

-----------------------------------------------------------------------------
(***************************************************************************)
(* Requests.                                                               *)
(***************************************************************************)

\* register, deregister, send and remove.
LEMMA ClientRefines ==
  ASSUME TypeOK, RoomsOK, AllMembersOK, NEW r \in Rooms, NEW c \in Clients,
         \/ Register(r, c) \/ Deregister(r, c) \/ SendSfu(r, c) \/ SendQueued(r, c)
         \/ RemoveNow(r, c) \/ RemoveSfu(r, c)
  PROVE  Abstract!Request(r, c) \/ UNCHANGED <<Table, Leaving>>
<1> DEFINE room == rooms[r]
           v == Visible(room)
<1>0. room \in Room /\ RoomOK(room) /\ MembersOK(room) /\ Table[r] = v
  BY DEF TypeOK, RoomsOK, AllMembersOK, Table
<1>a. /\ v \in ARoom /\ v.mode = room.mode /\ v.members = room.members
      /\ v.entering = Entering(room) /\ v.registered = room.registered
      /\ v.removal = room.pending_leave.requested /\ v.epoch = room.signal_epoch
  BY <1>0, VisibleType, VisibleFields
<1>1. CASE Register(r, c)
  <2>1. PICK next : rooms' = [rooms EXCEPT ![r] = next] /\
          next = [room EXCEPT
              !.registered = @ \cup {c},
              !.deadline[c] = None,
              !.queued = IF room.mode = "P2p" THEN [NoQueues EXCEPT ![c] = room.queued[c]]
                                              ELSE @]
    BY <1>1 DEF Register
  <2>2. /\ next.mode = room.mode /\ next.members = room.members
        /\ next.registered = room.registered \cup {c}
        /\ next.upgrade = room.upgrade /\ next.pending_join = room.pending_join
        /\ next.pending_leave = room.pending_leave /\ next.signal_epoch = room.signal_epoch
        /\ next \in Room
    <3>1. [NoQueues EXCEPT ![c] = room.queued[c]] \in [Clients -> Seq(Frame)]
      BY <1>0, ConstantTypes DEF Room
    <3> QED
      BY <1>0, <2>1, <3>1 DEF Room
  <2>3. Visible(next) \in ARoom /\ Entering(next) = Entering(room)
    BY <2>2, VisibleType DEF Entering
  <2>4. /\ room.mode # "Upgrading" /\ c \in room.members /\ c \notin room.registered
        /\ c \notin Entering(room) /\ pending' = pending
    BY <1>1 DEF Register, HoldsToken, Entering
  <2> HIDE DEF v
  <2>5. Visible(next) = [v EXCEPT !.registered = v.registered \cup {c}]
    BY <1>a, <2>2, <2>3, VisibleFields, SameFields DEF ARoom
  <2>6. Shows(r, Visible(next))
    BY <2>1, OneVisible
  <2>7. Leaving' = Leaving
    BY <2>4 DEF Leaving
  <2>8. Abstract!Register(r, c)
    BY <1>0, <1>a, <2>4, <2>5, <2>6, <2>7 DEF Shows, Abstract!Register, Abstract!Becomes
  <2> QED
    BY <2>8 DEF Abstract!Request
<1>2. CASE Deregister(r, c)
  <2> DEFINE gone == [room EXCEPT !.registered = @ \ {c}]
  <2>1. c \in room.registered
    BY <1>2 DEF Deregister
  <2>2. CASE CanIssueLeave(r, c)
    <3>1. PICK next : rooms' = [rooms EXCEPT ![r] = next] /\
            next = [gone EXCEPT !.pending_leave = [client |-> c, requested |-> FALSE]]
      BY <1>2, <2>2 DEF Deregister
    <3>2. /\ next.mode = room.mode /\ next.members = room.members
          /\ next.registered = room.registered \ {c}
          /\ next.upgrade = room.upgrade /\ next.pending_join = room.pending_join
          /\ next.pending_leave.requested = FALSE /\ next.signal_epoch = room.signal_epoch
          /\ next \in Room
      BY <1>0, <3>1 DEF Room, PendingLeave
    <3>3. Visible(next) \in ARoom /\ Entering(next) = Entering(room)
      BY <3>2, VisibleType DEF Entering
    <3>4. room.mode = "Sfu" /\ room.pending_leave.requested = FALSE
      BY <2>2 DEF CanIssueLeave, NoLeave
    <3> HIDE DEF v
    <3>5. Visible(next) = [v EXCEPT !.registered = v.registered \ {c}]
      BY <1>a, <3>2, <3>3, <3>4, VisibleFields, SameFields DEF ARoom
    <3>6. Shows(r, Visible(next))
      BY <3>1, OneVisible
    <3>7. Leaving' = [Leaving EXCEPT ![r] = @ \cup {c}]
      <4>1. pending' = pending \cup {LeaveCommand(r, c)}
        BY <1>2, <2>2 DEF Deregister, Issue
      <4> QED
        BY <4>1, LeavingAsked DEF LeaveCommand, MakeCommand
    <3>8. Abstract!DeregisterLeave(r, c)
      BY <1>0, <1>a, <2>1, <3>4, <3>5, <3>6, <3>7 DEF Shows, Abstract!DeregisterLeave
    <3> QED
      BY <3>8 DEF Abstract!Request
  <2>3. CASE ~CanIssueLeave(r, c)
    <3>1. PICK next : rooms' = [rooms EXCEPT ![r] = next] /\
            next = [gone EXCEPT !.deadline[c] = Grace]
      BY <1>2, <2>3 DEF Deregister
    <3>2. /\ next.mode = room.mode /\ next.members = room.members
          /\ next.registered = room.registered \ {c}
          /\ next.upgrade = room.upgrade /\ next.pending_join = room.pending_join
          /\ next.pending_leave = room.pending_leave /\ next.signal_epoch = room.signal_epoch
          /\ next \in Room
      BY <1>0, <3>1, BoundsAssumption DEF Room
    <3>3. Visible(next) \in ARoom /\ Entering(next) = Entering(room)
      BY <3>2, VisibleType DEF Entering
    <3> HIDE DEF v
    <3>5. Visible(next) = [v EXCEPT !.registered = v.registered \ {c}]
      BY <1>a, <3>2, <3>3, VisibleFields, SameFields DEF ARoom
    <3>6. Shows(r, Visible(next))
      BY <3>1, OneVisible
    <3>7. Leaving' = Leaving
      BY <1>2, <2>3 DEF Deregister, Leaving
    <3>8. Abstract!Deregister(r, c)
      BY <1>0, <1>a, <2>1, <3>5, <3>6, <3>7
         DEF Shows, Abstract!Deregister, Abstract!Becomes
    <3> QED
      BY <3>8 DEF Abstract!Request
  <2> QED
    BY <2>2, <2>3
<1>3. CASE SendSfu(r, c)
  <2>1. Table' = Table
    BY <1>3 DEF SendSfu, Table
  <2>2. \A p : p.kind = "SfuLeave" => (p \in pending <=> p \in pending')
    BY <1>3 DEF SendSfu, Issue, MakeCommand
  <2> QED
    BY <2>1, <2>2, SameLeaving
<1>4. CASE SendQueued(r, c)
  <2>1. PICK frame \in Frame : rooms' = [rooms EXCEPT ![r] =
                                  [room EXCEPT !.queued[c] = Append(@, frame)]]
    <3>1. PICK peer \in IF room.members \ {c} = {} THEN {None}
                        ELSE (room.members \ {c}) \ room.registered :
            rooms' = [rooms EXCEPT ![r].queued[c] =
                        Append(@, [epoch |-> room.signal_epoch, peer |-> peer])]
      BY <1>4 DEF SendQueued
    <3>2. [epoch |-> room.signal_epoch, peer |-> peer] \in Frame
      BY <1>0, <3>1 DEF Frame, Room
    <3> QED
      BY <1>0, <3>1, <3>2 DEF TypeOK
  <2> DEFINE next == [room EXCEPT !.queued[c] = Append(@, frame)]
  <2>2. /\ next.mode = room.mode /\ next.members = room.members
        /\ next.registered = room.registered
        /\ next.upgrade = room.upgrade /\ next.pending_join = room.pending_join
        /\ next.pending_leave = room.pending_leave /\ next.signal_epoch = room.signal_epoch
        /\ next \in Room
    <3>1. Append(room.queued[c], frame) \in Seq(Frame)
      BY <1>0 DEF Room
    <3> QED
      BY <1>0, <3>1 DEF Room
  <2> HIDE DEF next
  <2>3. Table' = Table
    BY <2>1, <2>2, SameShown DEF next
  <2> QED
    BY <1>4, <2>3 DEF SendQueued, Leaving
<1>5. CASE RemoveNow(r, c)
  <2> DEFINE rest == DropMembers(room, {c})
  <2>1. /\ rooms' = [rooms EXCEPT ![r] = ReapIfEmpty(promote_survivor(rest))]
        /\ room.mode \in {"P2p", "Failed"} /\ c \in room.members /\ pending' = pending
    BY <1>5 DEF RemoveNow
  <2>2. Visible(ReapIfEmpty(promote_survivor(rest))) = Abstract!Reaped(Abstract!Without(v, {c}))
    BY <1>0, DropMembersType, PromoteType, VisibleReap, VisiblePromote, VisibleDrop
  <2> HIDE DEF rest
  <2>3. Shows(r, Visible(ReapIfEmpty(promote_survivor(rest))))
    BY <2>1, OneVisible
  <2>4. Leaving' = Leaving
    BY <2>1 DEF Leaving
  <2> HIDE DEF v
  <2>5. Abstract!RemoveNow(r, c)
    BY <1>0, <1>a, <2>1, <2>2, <2>3, <2>4 DEF Shows, Abstract!RemoveNow, Abstract!Becomes
  <2> QED
    BY <2>5 DEF Abstract!Request
<1>6. CASE RemoveSfu(r, c)
  <2>1. PICK next : rooms' = [rooms EXCEPT ![r] = next] /\
          next = [room EXCEPT !.pending_leave = [client |-> c, requested |-> TRUE]]
    BY <1>6 DEF RemoveSfu, TypeOK
  <2>2. /\ next.mode = room.mode /\ next.members = room.members
        /\ next.registered = room.registered
        /\ next.upgrade = room.upgrade /\ next.pending_join = room.pending_join
        /\ next.pending_leave.requested = TRUE /\ next.signal_epoch = room.signal_epoch
        /\ next \in Room
    BY <1>0, <2>1 DEF Room, PendingLeave
  <2>3. Visible(next) \in ARoom /\ Entering(next) = Entering(room)
    BY <2>2, VisibleType DEF Entering
  <2>4. /\ room.mode = "Sfu" /\ room.pending_leave.requested = FALSE /\ c \in room.members
        /\ pending' = pending \cup {LeaveCommand(r, c)}
    BY <1>6 DEF RemoveSfu, Settled, NoLeave, Issue
  <2> HIDE DEF v
  <2>5. Visible(next) = [v EXCEPT !.removal = TRUE]
    BY <1>a, <2>2, <2>3, VisibleFields, SameFields DEF ARoom
  <2>6. Table' = [Table EXCEPT ![r].removal = TRUE]
    <3>1. Shows(r, Visible(next))
      BY <2>1, OneVisible
    <3> QED
      BY <1>0, <2>5, <3>1 DEF Shows
  <2>7. Leaving' = [Leaving EXCEPT ![r] = @ \cup {c}]
    BY <2>4, LeavingAsked DEF LeaveCommand, MakeCommand
  <2>8. Abstract!AskLeave(r, c, TRUE)
    BY <1>0, <1>a, <2>4, <2>6, <2>7 DEF Abstract!AskLeave
  <2> QED
    BY <2>8 DEF Abstract!Request
<1> QED
  BY <1>1, <1>2, <1>3, <1>4, <1>5, <1>6

-----------------------------------------------------------------------------
(***************************************************************************)
(* Answers.                                                                *)
(***************************************************************************)

\* The command that is settled, and those that follow it, are no leaves.
LEMMA NoLeaveSettled ==
  ASSUME NEW p, NEW cmds, SettleAndIssue(p, cmds), p.kind # "SfuLeave",
         \A q \in cmds : q.kind # "SfuLeave"
  PROVE  Leaving' = Leaving
<1>1. \A q : q.kind = "SfuLeave" => (q \in pending <=> q \in pending')
  BY DEF SettleAndIssue
<1> QED
  BY <1>1, SameLeaving

\* commit_upgrade commits.
LEMMA VisibleCommitted ==
  ASSUME NEW room \in Room, RoomOK(room), MembersOK(room), room.upgrade # NoUpgrade
  PROVE  Visible(commit_upgrade(room)) =
           [Visible(room) EXCEPT !.mode = "Sfu", !.epoch = @ + 1, !.entering = {}]
<1> DEFINE next == commit_upgrade(room)
           v == Visible(room)
<1>1. /\ next.mode = "Sfu" /\ next.members = room.members
      /\ next.registered = room.registered /\ next.upgrade = NoUpgrade
      /\ next.pending_join = room.pending_join /\ next.pending_leave = room.pending_leave
      /\ next.signal_epoch = room.signal_epoch + 1 /\ next \in Room
  BY CommitUpgradeType DEF commit_upgrade, Room
<1> HIDE DEF next
<1>2. Entering(next) = {}
  BY <1>1, IdsAssumption DEF MembersOK, AwaitingOK, Entering, NoUpgrade, None, Room
<1>3. /\ v \in ARoom /\ v.mode = room.mode /\ v.members = room.members
      /\ v.entering = Entering(room) /\ v.registered = room.registered
      /\ v.removal = room.pending_leave.requested /\ v.epoch = room.signal_epoch
  BY VisibleType, VisibleFields
<1>4. Visible(next) \in ARoom
  BY <1>1, VisibleType
<1> HIDE DEF v
<1>5. Visible(next) = [v EXCEPT !.mode = "Sfu", !.epoch = v.epoch + 1, !.entering = {}]
  <2> DEFINE w == [v EXCEPT !.mode = "Sfu", !.epoch = v.epoch + 1, !.entering = {}]
             x == Visible(next)
  <2>1. /\ w \in ARoom /\ w.mode = "Sfu" /\ w.members = v.members
        /\ w.entering = {} /\ w.registered = v.registered
        /\ w.removal = v.removal /\ w.epoch = v.epoch + 1
    <3>1. v.epoch + 1 \in Nat /\ v \in ARoom
      BY <1>3 DEF ARoom
    <3> QED
      BY <3>1 DEF ARoom
  <2>2. /\ x.mode = "Sfu" /\ x.members = v.members /\ x.entering = {}
        /\ x.registered = v.registered /\ x.removal = v.removal
        /\ x.epoch = v.epoch + 1 /\ x \in ARoom
    BY <1>1, <1>2, <1>3, <1>4, VisibleFields
  <2> HIDE DEF w, x
  <2>3. x = w
    BY <2>1, <2>2, SameFields
  <2> QED
    BY <2>3 DEF w, x
<1> QED
  BY <1>3, <1>5 DEF next, v, ARoom

\* abort_upgrade abandons, and leaves a room of a size that may be P2P.
LEMMA VisibleAborted ==
  ASSUME NEW room \in Room, RoomOK(room), MembersOK(room), room.upgrade # NoUpgrade
  PROVE  /\ Visible(Aborted(room)) = Abstract!Abandoned(Visible(room))
         /\ Abstract!MayAbandon(Visible(room))
<1> DEFINE rest == DropMembers(room, {room.upgrade.joining})
           next == Aborted(room)
           v == Visible(room)
<1>1. /\ v \in ARoom /\ v.mode = room.mode /\ v.members = room.members
      /\ v.entering = Entering(room) /\ v.registered = room.registered
      /\ v.removal = room.pending_leave.requested /\ v.epoch = room.signal_epoch
  BY VisibleType, VisibleFields
<1>2. room.pending_join = None /\ None \notin room.members
  BY IdsAssumption DEF MembersOK, AwaitingOK, None, Room
<1>3. /\ Entering(room) = room.members \cap {room.upgrade.joining}
      /\ room.registered \subseteq room.members
  BY <1>2 DEF Entering, MembersOK
<1>4. /\ next.mode = "P2p" /\ next.members = room.members \ {room.upgrade.joining}
      /\ next.registered = room.registered \ {room.upgrade.joining}
      /\ next.upgrade = NoUpgrade /\ next.pending_join = None
      /\ next.pending_leave = room.pending_leave
      /\ next.signal_epoch = room.signal_epoch /\ next \in Room
  <2>1. rest \in Room
    BY DropMembersType
  <2>2. /\ rest.members = room.members \ {room.upgrade.joining}
        /\ rest.registered = room.registered \ {room.upgrade.joining}
        /\ rest.pending_join = None /\ rest.pending_leave = room.pending_leave
        /\ rest.signal_epoch = room.signal_epoch
    BY <1>2 DEF DropMembers, Room
  <2>3. next = [rest EXCEPT !.mode = "P2p", !.upgrade = NoUpgrade, !.assigned = None]
    BY DEF Aborted
  <2>4. next \in Room
    BY AbortedType
  <2> HIDE DEF rest, next
  <2> QED
    BY <2>1, <2>2, <2>3, <2>4 DEF Room
<1> HIDE DEF next, v
<1>5. Entering(next) = {}
  BY <1>2, <1>4 DEF Entering, NoUpgrade
<1>6. Visible(next) \in ARoom
  BY <1>4, VisibleType
<1>7. Visible(next) = [v EXCEPT !.members = v.members \ v.entering, !.entering = {},
                                !.registered = v.registered \ v.entering, !.mode = "P2p"]
  <2>1. /\ room.members \ {room.upgrade.joining} = v.members \ v.entering
        /\ room.registered \ {room.upgrade.joining} = v.registered \ v.entering
    BY <1>1, <1>3
  <2> DEFINE w == [v EXCEPT !.members = v.members \ v.entering, !.entering = {},
                            !.registered = v.registered \ v.entering, !.mode = "P2p"]
             x == Visible(next)
  <2>2. /\ w \in ARoom /\ w.mode = "P2p" /\ w.members = v.members \ v.entering
        /\ w.entering = {} /\ w.registered = v.registered \ v.entering
        /\ w.removal = v.removal /\ w.epoch = v.epoch
    BY <1>1 DEF ARoom
  <2>3. /\ x.mode = "P2p" /\ x.members = v.members \ v.entering /\ x.entering = {}
        /\ x.registered = v.registered \ v.entering
        /\ x.removal = v.removal /\ x.epoch = v.epoch /\ x \in ARoom
    BY <1>1, <1>4, <1>5, <1>6, <2>1, VisibleFields
  <2> HIDE DEF w, x
  <2>4. x = w
    BY <2>2, <2>3, SameFields
  <2> QED
    BY <2>4 DEF w, x
<1>8. Visible(next) = Abstract!Abandoned(v)
  BY <1>1, <1>7 DEF Abstract!Abandoned, Abstract!Without, ARoom
<1>9. Abstract!MayAbandon(v)
  <2>1. /\ Cardinality(room.members \ {room.upgrade.joining}) <= MAX_P2P_MEMBERS
        /\ room.mode \in {"Upgrading", "Failed"}
    BY DEF RoomOK, BarrierShape
  <2>2. v.members \ v.entering = room.members \ {room.upgrade.joining}
    BY <1>1, <1>3
  <2> QED
    BY <1>1, <2>1, <2>2, SmallIsSmall DEF Abstract!MayAbandon
<1> QED
  BY <1>8, <1>9 DEF next, v

\* A worker's answer to a join refused drops who was entering.
LEMMA VisibleRefused ==
  ASSUME NEW room \in Room, MembersOK(room), room.pending_join # None,
         NEW next, JoinRefused(room, next)
  PROVE  /\ Visible(next) = Abstract!Without(Visible(room), Visible(room).entering)
         /\ next \in Room
<1> DEFINE c == room.pending_join
           rest == DropMembers(room, {c})
           v == Visible(room)
<1>1. /\ rest \in Room /\ rest.members = room.members \ {c}
      /\ rest.registered = room.registered \ {c} /\ rest.upgrade = room.upgrade
      /\ rest.mode = room.mode /\ rest.pending_leave = room.pending_leave
      /\ rest.signal_epoch = room.signal_epoch
  BY DropMembersType DEF DropMembers, Room
<1>2. next = [rest EXCEPT !.pending_join = None]
  BY DEF JoinRefused
<1> HIDE DEF rest
<1>3. /\ next \in Room /\ next.members = room.members \ {c}
      /\ next.registered = room.registered \ {c} /\ next.upgrade = room.upgrade
      /\ next.mode = room.mode /\ next.pending_leave = room.pending_leave
      /\ next.signal_epoch = room.signal_epoch /\ next.pending_join = None
  BY <1>1, <1>2 DEF Room
<1>4. room.upgrade = NoUpgrade /\ None \notin room.members
  BY IdsAssumption DEF MembersOK, AwaitingOK, None, Room
<1>5. Entering(next) = {} /\ Entering(room) = room.members \cap {c}
  BY <1>3, <1>4 DEF Entering, NoUpgrade
<1>6. /\ v \in ARoom /\ v.mode = room.mode /\ v.members = room.members
      /\ v.entering = Entering(room) /\ v.registered = room.registered
      /\ v.removal = room.pending_leave.requested /\ v.epoch = room.signal_epoch
  BY VisibleType, VisibleFields
<1>7. /\ room.members \ {c} = v.members \ v.entering
      /\ room.registered \ {c} = v.registered \ v.entering
      /\ v.entering \ v.entering = {}
  BY <1>5, <1>6 DEF MembersOK
<1> DEFINE w == [v EXCEPT !.members = v.members \ v.entering, !.entering = {},
                          !.registered = v.registered \ v.entering]
           x == Visible(next)
<1> HIDE DEF v
<1>8. /\ w \in ARoom /\ w.mode = v.mode /\ w.members = v.members \ v.entering
      /\ w.entering = {} /\ w.registered = v.registered \ v.entering
      /\ w.removal = v.removal /\ w.epoch = v.epoch
  BY <1>6 DEF ARoom
<1>9. /\ x.mode = v.mode /\ x.members = v.members \ v.entering /\ x.entering = {}
      /\ x.registered = v.registered \ v.entering
      /\ x.removal = v.removal /\ x.epoch = v.epoch /\ x \in ARoom
  BY <1>3, <1>5, <1>6, <1>7, VisibleType, VisibleFields
<1>10. Abstract!Without(v, v.entering) = w
  BY <1>6, <1>7 DEF Abstract!Without, ARoom
<1> HIDE DEF w, x
<1>11. x = w
  BY <1>8, <1>9, SameFields
<1> QED
  BY <1>3, <1>10, <1>11 DEF x, v

\* A member that left is gone from the visible room, and the room with its
\* last member.
LEMMA VisibleLeft ==
  ASSUME NEW room \in Room, NEW c
  PROVE  Visible(ReapIfEmpty(arm_downgrade(
           [DropMembers(room, {c}) EXCEPT !.pending_leave = NoLeave])))
           = Abstract!Reaped([Abstract!Without(Visible(room), {c}) EXCEPT !.removal = FALSE])
<1> DEFINE rest == DropMembers(room, {c})
           left == [rest EXCEPT !.pending_leave = NoLeave]
           next == arm_downgrade(left)
           v == Visible(rest)
<1>1. rest \in Room
  BY DropMembersType
<1> HIDE DEF rest
<1>2. /\ left \in Room /\ left.mode = rest.mode /\ left.members = rest.members
      /\ left.registered = rest.registered /\ left.upgrade = rest.upgrade
      /\ left.pending_join = rest.pending_join /\ left.pending_leave = NoLeave
      /\ left.signal_epoch = rest.signal_epoch
  BY <1>1, ConstantTypes DEF Room
<1> HIDE DEF left
<1>3. /\ next \in Room /\ next.mode = rest.mode /\ next.members = rest.members
      /\ next.registered = rest.registered /\ next.upgrade = rest.upgrade
      /\ next.pending_join = rest.pending_join /\ next.pending_leave = NoLeave
      /\ next.signal_epoch = rest.signal_epoch
  BY <1>2, ArmDowngradeType DEF arm_downgrade, Room
<1> HIDE DEF next
<1>4. Entering(next) = Entering(rest)
  BY <1>3 DEF Entering
<1>5. /\ v \in ARoom /\ v.mode = rest.mode /\ v.members = rest.members
      /\ v.entering = Entering(rest) /\ v.registered = rest.registered
      /\ v.epoch = rest.signal_epoch
  BY <1>1, VisibleType, VisibleFields
<1> DEFINE w == [v EXCEPT !.removal = FALSE]
           x == Visible(next)
<1> HIDE DEF v
<1>6. /\ w \in ARoom /\ w.mode = v.mode /\ w.members = v.members
      /\ w.entering = v.entering /\ w.registered = v.registered
      /\ w.removal = FALSE /\ w.epoch = v.epoch
  BY <1>5 DEF ARoom
<1>7. /\ x.mode = v.mode /\ x.members = v.members /\ x.entering = v.entering
      /\ x.registered = v.registered /\ x.removal = FALSE
      /\ x.epoch = v.epoch /\ x \in ARoom
  BY <1>3, <1>4, <1>5, VisibleType, VisibleFields DEF NoLeave
<1> HIDE DEF w, x
<1>8. x = w
  BY <1>6, <1>7, SameFields
<1>9. v = Abstract!Without(Visible(room), {c})
  BY VisibleDrop DEF v, rest
<1>10. Visible(ReapIfEmpty(next)) = Abstract!Reaped(x)
  BY <1>3, VisibleReap DEF x
<1> QED
  BY <1>8, <1>9, <1>10 DEF w, next, left, rest

\* The results of commands.
LEMMA ResultRefines ==
  ASSUME TypeOK, RoomsOK, AllMembersOK, WireOK, NEW p \in wire, Result(p)
  PROVE  Abstract!Answer(p.room) \/ UNCHANGED <<Table, Leaving>>
<1> DEFINE r == p.room
           room == rooms[r]
           v == Visible(room)
           c == p.client
<1>0. /\ p \in pending /\ p \in Command /\ r \in Rooms /\ c \in Clients
  BY DEF TypeOK, WireOK, Command
<1>1. room \in Room /\ RoomOK(room) /\ MembersOK(room) /\ Table[r] = v
  BY <1>0 DEF TypeOK, RoomsOK, AllMembersOK, Table
<1>2. /\ v \in ARoom /\ v.mode = room.mode /\ v.members = room.members
      /\ v.entering = Entering(room) /\ v.registered = room.registered
      /\ v.removal = room.pending_leave.requested /\ v.epoch = room.signal_epoch
  BY <1>1, VisibleType, VisibleFields
<1>3. CASE UpgradeJoinMore(p)
  <2>1. Leaving' = Leaving
    <3>1. \A q \in NextUpgradeJoin(p) : q.kind # "SfuLeave"
      BY DEF NextUpgradeJoin, MakeCommand
    <3> QED
      BY <1>3, <3>1, NoLeaveSettled DEF UpgradeJoinMore
  <2> DEFINE next == Stepped(p)
  <2>2. rooms' = [rooms EXCEPT ![r] = next]
    BY <1>3 DEF UpgradeJoinMore
  <2>3. /\ next.mode = room.mode /\ next.members = room.members
        /\ next.registered = room.registered
        /\ next.upgrade.joining = room.upgrade.joining
        /\ next.pending_join = room.pending_join
        /\ next.pending_leave = room.pending_leave /\ next.signal_epoch = room.signal_epoch
    BY <1>1 DEF Stepped, Room, Upgrade
  <2> HIDE DEF next
  <2>4. Visible(next) = Visible(room)
    BY <2>3 DEF Visible, Entering
  <2>5. Table' = Table
    BY <1>0, <2>2, <2>4, SameVisible
  <2> QED
    BY <2>1, <2>5
<1>4. CASE UpgradeJoinLast(p)
  <2>1. Leaving' = Leaving
    BY <1>4, NoLeaveSettled DEF UpgradeJoinLast
  <2>2. room.upgrade # NoUpgrade /\ rooms' = [rooms EXCEPT ![r] = commit_upgrade(room)]
    BY <1>4 DEF UpgradeJoinLast
  <2>3. Shows(r, Visible(commit_upgrade(room)))
    BY <1>0, <2>2, OneVisible
  <2>4. Visible(commit_upgrade(room))
          = [v EXCEPT !.mode = "Sfu", !.epoch = @ + 1, !.entering = {}]
    BY <1>1, <2>2, VisibleCommitted
  <2>5. room.mode \in {"Upgrading", "Failed"}
    BY <1>1, <2>2 DEF RoomOK, BarrierShape
  <2> HIDE DEF v
  <2>6. Abstract!Commit(r)
    BY <1>1, <1>2, <2>1, <2>3, <2>4, <2>5 DEF Shows, Abstract!Commit, Abstract!Becomes
  <2> QED
    BY <2>6 DEF Abstract!Answer
<1>5. CASE UpgradeJoinErr(p)
  <2>1. Leaving' = Leaving
    <3>1. \A q \in AbortLeaves(r) : q.kind # "SfuLeave"
      BY DEF AbortLeaves, MakeCommand
    <3> QED
      BY <1>5, <3>1, NoLeaveSettled DEF UpgradeJoinErr
  <2>2. room.upgrade # NoUpgrade /\ rooms' = [rooms EXCEPT ![r] = Aborted(room)]
    BY <1>5 DEF UpgradeJoinErr
  <2>3. Shows(r, Visible(Aborted(room)))
    BY <1>0, <2>2, OneVisible
  <2>4. Visible(Aborted(room)) = Abstract!Abandoned(v) /\ Abstract!MayAbandon(v)
    BY <1>1, <2>2, VisibleAborted
  <2> HIDE DEF v
  <2>6. Abstract!Abandon(r)
    BY <1>1, <2>1, <2>3, <2>4 DEF Shows, Abstract!Abandon, Abstract!Becomes
  <2> QED
    BY <2>6 DEF Abstract!Answer
<1>6. CASE SfuJoinOk(p)
  <2>1. Leaving' = Leaving
    BY <1>6, NoLeaveSettled DEF SfuJoinOk
  <2> DEFINE next == [room EXCEPT !.pending_join = None]
  <2>2. room.pending_join # None /\ rooms' = [rooms EXCEPT ![r] = next]
    BY <1>1, <1>6 DEF SfuJoinOk
  <2>3. /\ next.mode = room.mode /\ next.members = room.members
        /\ next.registered = room.registered /\ next.upgrade = room.upgrade
        /\ next.pending_join = None /\ next.pending_leave = room.pending_leave
        /\ next.signal_epoch = room.signal_epoch /\ next \in Room
    BY <1>1 DEF Room
  <2> HIDE DEF next
  <2>4. Entering(next) = {}
    BY <1>1, <2>2, <2>3, IdsAssumption
       DEF MembersOK, AwaitingOK, Entering, NoUpgrade, None, Room
  <2>5. Shows(r, Visible(next))
    BY <1>0, <2>2, OneVisible
  <2> DEFINE w == [v EXCEPT !.entering = {}]
             x == Visible(next)
  <2>6. /\ w \in ARoom /\ w.mode = v.mode /\ w.members = v.members /\ w.entering = {}
        /\ w.registered = v.registered /\ w.removal = v.removal /\ w.epoch = v.epoch
    BY <1>2 DEF ARoom
  <2>7. /\ x \in ARoom /\ x.mode = v.mode /\ x.members = v.members /\ x.entering = {}
        /\ x.registered = v.registered /\ x.removal = v.removal /\ x.epoch = v.epoch
    BY <1>2, <2>3, <2>4, VisibleType, VisibleFields
  <2> HIDE DEF v, w, x
  <2>8. x = w
    BY <2>6, <2>7, SameFields
  <2>9. Abstract!Entered(r)
    BY <1>1, <2>1, <2>5, <2>8 DEF w, x, Shows, Abstract!Entered, Abstract!Becomes
  <2> QED
    BY <2>9 DEF Abstract!Answer
<1>7. CASE SfuJoinErr(p)
  <2>1. Leaving' = Leaving
    BY <1>7, NoLeaveSettled DEF SfuJoinErr
  <2>2. PICK next : /\ room.pending_join # None /\ rooms' = [rooms EXCEPT ![r] = next]
                    /\ JoinRefused(room, next)
    BY <1>7 DEF SfuJoinErr, JoinRefused
  <2>3. Visible(next) = Abstract!Without(v, v.entering)
    BY <1>1, <2>2, VisibleRefused
  <2>4. Shows(r, Visible(next))
    BY <1>0, <2>2, OneVisible
  <2>5. room.mode # "Upgrading"
    BY <1>1, <2>2 DEF MembersOK, AwaitingOK
  <2> HIDE DEF v
  <2>6. Abstract!Refused(r)
    BY <1>1, <1>2, <2>1, <2>3, <2>4, <2>5 DEF Shows, Abstract!Refused, Abstract!Becomes
  <2> QED
    BY <2>6 DEF Abstract!Answer
<1>8. CASE SfuLeaveOk(p)
  <2>1. c \in Leaving[r] /\ Abstract!Settled(r, c)
    <3>1. p.kind = "SfuLeave" /\ pending' = pending \ {p}
      BY <1>8 DEF SfuLeaveOk, SettleAndIssue
    <3> QED
      BY <1>0, <3>1, LeavingAnswered
  <2> DEFINE next == ReapIfEmpty(arm_downgrade(
                       [DropMembers(room, {c}) EXCEPT !.pending_leave = NoLeave]))
  <2>2. rooms' = [rooms EXCEPT ![r] = next]
    BY <1>8 DEF SfuLeaveOk
  <2>3. Visible(next) = Abstract!Reaped([Abstract!Without(v, {c}) EXCEPT !.removal = FALSE])
    BY <1>1, VisibleLeft
  <2> HIDE DEF next
  <2>4. Shows(r, Visible(next))
    BY <1>0, <2>2, OneVisible
  <2> HIDE DEF v
  <2>5. Abstract!Left(r, c)
    BY <1>1, <2>1, <2>3, <2>4 DEF Shows, Abstract!Left
  <2> QED
    BY <1>0, <2>5 DEF Abstract!Answer
<1>9. CASE SfuLeaveErr(p)
  <2>1. c \in Leaving[r] /\ Abstract!Settled(r, c)
    <3>1. p.kind = "SfuLeave" /\ pending' = pending \ {p}
      BY <1>9 DEF SfuLeaveErr, SettleAndIssue
    <3> QED
      BY <1>0, <3>1, LeavingAnswered
  <2> DEFINE next == [room EXCEPT !.pending_leave = NoLeave]
  <2>2. rooms' = [rooms EXCEPT ![r] = next]
    BY <1>1, <1>9 DEF SfuLeaveErr
  <2>3. /\ next.mode = room.mode /\ next.members = room.members
        /\ next.registered = room.registered /\ next.upgrade = room.upgrade
        /\ next.pending_join = room.pending_join /\ next.pending_leave = NoLeave
        /\ next.signal_epoch = room.signal_epoch /\ next \in Room
    BY <1>1, ConstantTypes DEF Room
  <2> HIDE DEF next
  <2>4. Entering(next) = Entering(room)
    BY <2>3 DEF Entering
  <2>5. Shows(r, Visible(next))
    BY <1>0, <2>2, OneVisible
  <2> DEFINE w == [v EXCEPT !.removal = FALSE]
             x == Visible(next)
  <2>6. /\ w \in ARoom /\ w.mode = v.mode /\ w.members = v.members
        /\ w.entering = v.entering /\ w.registered = v.registered
        /\ w.removal = FALSE /\ w.epoch = v.epoch
    BY <1>2 DEF ARoom
  <2>7. /\ x \in ARoom /\ x.mode = v.mode /\ x.members = v.members
        /\ x.entering = v.entering /\ x.registered = v.registered
        /\ x.removal = FALSE /\ x.epoch = v.epoch
    BY <1>2, <2>3, <2>4, VisibleType, VisibleFields DEF NoLeave
  <2> HIDE DEF v, w, x
  <2>8. x = w
    BY <2>6, <2>7, SameFields
  <2>9. Table' = [Table EXCEPT ![r].removal = FALSE]
    BY <1>1, <2>5, <2>8 DEF w, x, Shows
  <2>10. Abstract!Stayed(r, c)
    BY <2>1, <2>9 DEF Abstract!Stayed
  <2> QED
    BY <1>0, <2>10 DEF Abstract!Answer
<1>10. CASE SettleOnly(p)
  <2>1. Table' = Table /\ SettleAndIssue(p, {})
    BY <1>10 DEF SettleOnly, Table
  <2>2. CASE p.kind # "SfuLeave"
    BY <2>1, <2>2, NoLeaveSettled
  <2>3. CASE p.kind = "SfuLeave"
    <3>1. pending' = pending \ {p}
      BY <2>1 DEF SettleAndIssue
    <3>2. c \in Leaving[r] /\ Abstract!Settled(r, c)
      BY <1>0, <2>3, <3>1, LeavingAnswered
    <3>3. Abstract!Stayed(r, c)
      BY <2>1, <3>2 DEF Abstract!Stayed
    <3> QED
      BY <1>0, <3>3 DEF Abstract!Answer
  <2> QED
    BY <2>2, <2>3
<1> QED
  BY <1>3, <1>4, <1>5, <1>6, <1>7, <1>8, <1>9, <1>10 DEF Result

-----------------------------------------------------------------------------
(***************************************************************************)
(* Workers and time.                                                       *)
(***************************************************************************)

\* fail_room, of a room a worker reports as failed.
LEMMA FailRefines ==
  ASSUME TypeOK, NEW r \in Rooms, rooms' = fail_room(r), pending' = pending
  PROVE  Abstract!Fail(r) \/ UNCHANGED <<Table, Leaving>>
<1> DEFINE room == rooms[r]
           v == Visible(room)
           next == [room EXCEPT !.mode = "Failed"]
<1>0. Leaving' = Leaving
  BY DEF Leaving
<1>1. CASE room.mode = "Absent"
  BY <1>0, <1>1 DEF fail_room, Table
<1>2. CASE room.mode # "Absent"
  <2>1. room \in Room /\ Table[r] = v /\ rooms' = [rooms EXCEPT ![r] = next]
    BY <1>2 DEF TypeOK, Table, fail_room
  <2>2. /\ v \in ARoom /\ v.mode = room.mode /\ v.members = room.members
        /\ v.entering = Entering(room) /\ v.registered = room.registered
        /\ v.removal = room.pending_leave.requested /\ v.epoch = room.signal_epoch
    BY <2>1, VisibleType, VisibleFields
  <2>3. /\ next.mode = "Failed" /\ next.members = room.members
        /\ next.registered = room.registered /\ next.upgrade = room.upgrade
        /\ next.pending_join = room.pending_join
        /\ next.pending_leave = room.pending_leave
        /\ next.signal_epoch = room.signal_epoch /\ next \in Room
    BY <2>1 DEF Room, Modes
  <2> HIDE DEF next
  <2>4. Entering(next) = Entering(room)
    BY <2>3 DEF Entering
  <2>5. Shows(r, Visible(next))
    BY <2>1, OneVisible
  <2> DEFINE w == [v EXCEPT !.mode = "Failed"]
             x == Visible(next)
  <2>6. /\ w \in ARoom /\ w.mode = "Failed" /\ w.members = v.members
        /\ w.entering = v.entering /\ w.registered = v.registered
        /\ w.removal = v.removal /\ w.epoch = v.epoch
    BY <2>2 DEF ARoom
  <2>7. /\ x \in ARoom /\ x.mode = "Failed" /\ x.members = v.members
        /\ x.entering = v.entering /\ x.registered = v.registered
        /\ x.removal = v.removal /\ x.epoch = v.epoch
    BY <2>2, <2>3, <2>4, VisibleType, VisibleFields
  <2> HIDE DEF v, w, x
  <2>8. x = w
    BY <2>6, <2>7, SameFields
  <2> QED
    BY <1>0, <1>2, <2>1, <2>2, <2>5, <2>8 DEF w, x, Shows, Abstract!Fail, Abstract!Becomes
<1> QED
  BY <1>1, <1>2

\* The loss of the worker of a room that is not upgrading.
LEMMA VisibleExpired ==
  ASSUME NEW room \in Room, MembersOK(room), room.mode # "Upgrading"
  PROVE  Visible(Expired(room)) =
           Abstract!Lost(Visible(room),
                         IF room.pending_join # None THEN Visible(room).entering ELSE {})
<1> DEFINE c == room.pending_join
           rest == DropMembers(room, {c})
           next == Expired(room)
           v == Visible(room)
           S == IF room.pending_join # None THEN v.entering ELSE {}
<1>1. /\ rest \in Room /\ rest.members = room.members \ {c}
      /\ rest.registered = room.registered \ {c} /\ rest.upgrade = room.upgrade
      /\ rest.signal_epoch = room.signal_epoch
  BY DropMembersType DEF DropMembers, Room
<1>2. next = [rest EXCEPT !.mode = "Failed", !.pending_join = None, !.pending_leave = NoLeave]
  BY DEF Expired
<1> HIDE DEF rest
<1>3. /\ next.members = room.members \ {c} /\ next.registered = room.registered \ {c}
      /\ next.upgrade = room.upgrade /\ next.mode = "Failed"
      /\ next.pending_leave = NoLeave /\ next.pending_join = None
      /\ next.signal_epoch = room.signal_epoch
  BY <1>1, <1>2 DEF Room
<1>4. next \in Room
  BY ExpiredType
<1> HIDE DEF next
<1>5. /\ None \notin room.members /\ room.registered \subseteq room.members
      /\ c # None => room.upgrade = NoUpgrade
  BY IdsAssumption DEF MembersOK, AwaitingOK, None, Room
<1>6. Entering(next) = Entering(room) \ S
  <2>1. CASE c = None
    BY <1>3, <1>5, <2>1 DEF Entering
  <2>2. CASE c # None
    <3>1. Entering(next) = {}
      BY <1>3, <1>5, <2>2 DEF Entering, NoUpgrade
    <3> QED
      BY <2>2, <3>1, VisibleFields
  <2> QED
    BY <2>1, <2>2
<1>7. /\ v \in ARoom /\ v.mode = room.mode /\ v.members = room.members
      /\ v.entering = Entering(room) /\ v.registered = room.registered
      /\ v.removal = room.pending_leave.requested /\ v.epoch = room.signal_epoch
  BY VisibleType, VisibleFields
<1>8. room.members \ {c} = v.members \ S /\ room.registered \ {c} = v.registered \ S
  <2>1. CASE c = None
    BY <1>5, <1>7, <2>1
  <2>2. CASE c # None
    <3>1. Entering(room) = room.members \cap {c}
      BY <1>5, <2>2 DEF Entering, NoUpgrade
    <3> QED
      BY <1>5, <1>7, <2>2, <3>1
  <2> QED
    BY <2>1, <2>2
<1> DEFINE w == [v EXCEPT !.members = v.members \ S, !.entering = v.entering \ S,
                          !.registered = v.registered \ S, !.mode = "Failed",
                          !.removal = FALSE]
           x == Visible(next)
<1> HIDE DEF S, v
<1>9. /\ w \in ARoom /\ w.mode = "Failed" /\ w.members = v.members \ S
      /\ w.entering = v.entering \ S /\ w.registered = v.registered \ S
      /\ w.removal = FALSE /\ w.epoch = v.epoch
  BY <1>7 DEF ARoom
<1>10. /\ x.mode = "Failed" /\ x.members = v.members \ S /\ x.entering = v.entering \ S
       /\ x.registered = v.registered \ S /\ x.removal = FALSE /\ x.epoch = v.epoch
       /\ x \in ARoom
  BY <1>3, <1>4, <1>6, <1>7, <1>8, VisibleType, VisibleFields DEF NoLeave
<1>11. Abstract!Lost(v, S) = w
  BY <1>7 DEF Abstract!Lost, Abstract!Without, ARoom
<1> HIDE DEF w, x
<1>12. x = w
  BY <1>9, <1>10, SameFields
<1> QED
  BY <1>11, <1>12 DEF x, v, S, next

\* The loss of a worker, its rooms and what it was told.
LEMMA ExpireRefines ==
  ASSUME TypeOK, RoomsOK, AllMembersOK, NEW w \in Workers, expire_worker(w)
  PROVE  Abstract!LoseWorker
<1> DEFINE mine == {r \in workers[w].rooms : rooms[r].mode # "Absent"}
           waits == {r \in mine : rooms[r].pending_join # None}
           dropped(r) == IF r \in waits THEN Table[r].entering ELSE {}
           now(r) == IF r \in mine THEN Abstract!Lost(Table[r], dropped(r)) ELSE Table[r]
<1>1. \A r \in Rooms : /\ rooms[r] \in Room /\ RoomOK(rooms[r]) /\ MembersOK(rooms[r])
                       /\ Table[r] = Visible(rooms[r])
  BY DEF TypeOK, RoomsOK, AllMembersOK, Table
<1>2. mine \subseteq Rooms
  <2>1. workers[w].rooms \subseteq Rooms
    BY DEF TypeOK, Worker
  <2> QED
    BY <2>1
<1>3. \A r \in Rooms :
        rooms'[r] = IF r \in mine
                      THEN IF rooms[r].mode = "Upgrading" THEN Aborted(rooms[r])
                                                          ELSE Expired(rooms[r])
                      ELSE rooms[r]
  BY DEF expire_worker
<1>4. ASSUME NEW r \in Rooms PROVE Visible(rooms'[r]) = now(r)
  <2>1. CASE r \notin mine
    BY <1>1, <1>3, <2>1
  <2>2. CASE r \in mine /\ rooms[r].mode = "Upgrading"
    <3>1. rooms[r].upgrade # NoUpgrade /\ rooms'[r] = Aborted(rooms[r])
      BY <1>1, <1>3, <2>2 DEF RoomOK, BarrierShape
    <3>2. Visible(rooms'[r]) = Abstract!Abandoned(Table[r])
      BY <1>1, <3>1, VisibleAborted
    <3>3. Table[r].mode = "Upgrading"
      BY <1>1, <2>2, VisibleFields
    <3> QED
      BY <2>2, <3>2, <3>3 DEF Abstract!Lost
  <2>3. CASE r \in mine /\ rooms[r].mode # "Upgrading"
    <3>1. rooms'[r] = Expired(rooms[r])
      BY <1>3, <2>3
    <3>2. dropped(r) = IF rooms[r].pending_join # None THEN Table[r].entering ELSE {}
      BY <2>3
    <3> QED
      BY <1>1, <2>3, <3>1, <3>2, VisibleExpired
  <2> QED
    BY <2>1, <2>2, <2>3
<1>5. Table' = [r \in Rooms |-> now(r)]
  <2> HIDE DEF now
  <2> QED
    BY <1>4 DEF Table
<1>6. \A r \in mine : Table[r].mode # "Absent"
                      /\ (Table[r].mode = "Upgrading" => Abstract!MayAbandon(Table[r]))
  <2> SUFFICES ASSUME NEW r \in mine
               PROVE  Table[r].mode # "Absent"
                      /\ (Table[r].mode = "Upgrading" => Abstract!MayAbandon(Table[r]))
    OBVIOUS
  <2>1. r \in Rooms /\ Table[r].mode = rooms[r].mode /\ rooms[r].mode # "Absent"
    BY <1>1, <1>2, VisibleFields
  <2>2. rooms[r].mode = "Upgrading" => rooms[r].upgrade # NoUpgrade
    BY <1>1, <2>1 DEF RoomOK, BarrierShape
  <2> QED
    BY <1>1, <2>1, <2>2, VisibleAborted
<1>7. Leaving' \in [Rooms -> SUBSET Clients] /\ \A r \in Rooms : Leaving'[r] \subseteq Leaving[r]
  <2>1. \A p \in pending' : p.kind = "SfuLeave" => p \in pending
    <3>1. PICK R : pending' \subseteq pending \cup UNION {AbortLeaves(r) : r \in R}
      BY DEF expire_worker
    <3>2. \A r : \A p \in AbortLeaves(r) : p.kind = "Cleanup"
      BY DEF AbortLeaves, MakeCommand
    <3> QED
      BY <3>1, <3>2
  <2>2. \A p \in pending : p.client \in Clients
    BY DEF TypeOK, Command
  <2> QED
    BY <2>1, <2>2 DEF Leaving
<1>8. mine \in SUBSET {r \in Rooms : Table[r].mode # "Absent"} /\ waits \in SUBSET mine
  BY <1>2, <1>6
<1> HIDE DEF mine, waits
<1> QED
  BY <1>5, <1>6, <1>7, <1>8 DEF Abstract!LoseWorker

\* The sweep of one room: a downgrade, a leave or the members of a P2P room
\* whose grace is over.
LEMMA SweepRefines ==
  ASSUME TypeOK, RoomsOK, AllMembersOK, NEW r \in Rooms, SweepRoom(r)
  PROVE  \/ Abstract!Downgrade(r) \/ Abstract!Reap(r)
         \/ \E c \in Clients : Abstract!Request(r, c)
         \/ UNCHANGED <<Table, Leaving>>
<1> DEFINE room == rooms[r]
           v == Visible(room)
<1>1. room \in Room /\ RoomOK(room) /\ MembersOK(room) /\ Table[r] = v
  BY DEF TypeOK, RoomsOK, AllMembersOK, Table
<1>2. /\ v \in ARoom /\ v.mode = room.mode /\ v.members = room.members
      /\ v.entering = Entering(room) /\ v.registered = room.registered
      /\ v.removal = room.pending_leave.requested /\ v.epoch = room.signal_epoch
  BY <1>1, VisibleType, VisibleFields
<1>3. CASE SweepDowngrade(r) /\ is_downgrade_eligible(room)
  <2> DEFINE next == commit_downgrade(room)
  <2>1. rooms' = [rooms EXCEPT ![r] = next] /\ Issue(DowngradeLeaves(r))
    BY <1>3 DEF SweepDowngrade
  <2>2. /\ room.mode = "Sfu" /\ room.members # {}
        /\ Cardinality(room.members) <= MAX_P2P_MEMBERS
        /\ room.pending_join = None
    BY <1>3 DEF is_downgrade_eligible
  <2>3. /\ next.mode = "P2p" /\ next.members = room.members
        /\ next.registered = room.registered /\ next.upgrade = room.upgrade
        /\ next.pending_join = room.pending_join
        /\ next.pending_leave = room.pending_leave
        /\ next.signal_epoch = room.signal_epoch + 1 /\ next \in Room
    <3>1. next \in Room
      BY <1>1, <2>2, CommitDowngradeType
    <3> QED
      BY <1>1, <3>1 DEF commit_downgrade, Room
  <2> HIDE DEF next
  <2>4. Entering(next) = Entering(room) /\ Entering(room) = {}
    BY <1>1, <2>2, <2>3, NobodyEnters DEF Entering
  <2>5. Shows(r, Visible(next))
    BY <2>1, OneVisible
  <2> DEFINE w == [v EXCEPT !.mode = "P2p", !.epoch = v.epoch + 1]
             x == Visible(next)
  <2>6. /\ w \in ARoom /\ w.mode = "P2p" /\ w.members = v.members
        /\ w.entering = v.entering /\ w.registered = v.registered
        /\ w.removal = v.removal /\ w.epoch = v.epoch + 1
    <3>1. v.epoch + 1 \in Nat /\ v \in ARoom
      BY <1>2 DEF ARoom
    <3> QED
      BY <3>1 DEF ARoom
  <2>7. /\ x \in ARoom /\ x.mode = "P2p" /\ x.members = v.members
        /\ x.entering = v.entering /\ x.registered = v.registered
        /\ x.removal = v.removal /\ x.epoch = v.epoch + 1
    BY <1>2, <2>3, <2>4, VisibleType, VisibleFields
  <2>8. Leaving' = Leaving
    <3>1. \A p \in DowngradeLeaves(r) : p.kind = "Cleanup"
      BY DEF DowngradeLeaves, MakeCommand
    <3>2. \A p : p.kind = "SfuLeave" => (p \in pending <=> p \in pending')
      BY <2>1, <3>1 DEF Issue
    <3> QED
      BY <3>2, SameLeaving
  <2>9. Abstract!Small(v.members)
    BY <1>2, <2>2, SmallIsSmall
  <2> HIDE DEF v, w, x
  <2>10. x = w
    BY <2>6, <2>7, SameFields
  <2>11. Abstract!Downgrade(r)
    BY <1>1, <1>2, <2>2, <2>4, <2>5, <2>8, <2>9, <2>10
       DEF w, x, Shows, Abstract!Downgrade, Abstract!Becomes
  <2> QED
    BY <2>11
<1>4. CASE SweepDowngrade(r) /\ ~is_downgrade_eligible(room)
  <2> DEFINE next == [room EXCEPT !.downgrade_deadline = None]
  <2>1. rooms' = [rooms EXCEPT ![r] = next] /\ pending' = pending
    BY <1>4 DEF SweepDowngrade, TypeOK
  <2>2. /\ next.mode = room.mode /\ next.members = room.members
        /\ next.registered = room.registered /\ next.upgrade = room.upgrade
        /\ next.pending_join = room.pending_join
        /\ next.pending_leave = room.pending_leave
        /\ next.signal_epoch = room.signal_epoch /\ next \in Room
    BY <1>1 DEF Room
  <2> HIDE DEF next
  <2>3. Table' = Table
    BY <2>1, <2>2, SameShown
  <2> QED
    BY <2>1, <2>3 DEF Leaving
<1>5. CASE SweepSfu(r)
  <2>1. room.mode = "Sfu" /\ room.pending_leave = NoLeave
    BY <1>5 DEF SweepSfu, AwaitsLeave
  <2>2. PICK c \in ExpiredMembers(room) :
          IF CanIssueLeave(r, c)
            THEN /\ rooms' = [rooms EXCEPT ![r].pending_leave =
                                [client |-> c, requested |-> FALSE]]
                 /\ Issue({LeaveCommand(r, c)})
            ELSE /\ rooms' = [rooms EXCEPT ![r].deadline[c] = Grace]
                 /\ UNCHANGED <<pending, wire>>
    BY <1>5 DEF SweepSfu
  <2>3. c \in room.members /\ c \notin room.registered /\ c \in Clients
    <3>1. c \in room.members /\ room.deadline[c] = 0 /\ c \in Clients
      BY <1>1 DEF ExpiredMembers, Room
    <3> QED
      BY <1>1, <3>1 DEF MembersOK, None
  <2>4. CASE CanIssueLeave(r, c)
    <3> DEFINE next == [room EXCEPT !.pending_leave = [client |-> c, requested |-> FALSE]]
    <3>1. rooms' = [rooms EXCEPT ![r] = next] /\ pending' = pending \cup {LeaveCommand(r, c)}
      BY <2>2, <2>4 DEF TypeOK, Issue
    <3>2. /\ next.mode = room.mode /\ next.members = room.members
          /\ next.registered = room.registered /\ next.upgrade = room.upgrade
          /\ next.pending_join = room.pending_join
          /\ next.pending_leave.requested = room.pending_leave.requested
          /\ next.signal_epoch = room.signal_epoch /\ next \in Room
      <4>1. [client |-> c, requested |-> FALSE] \in PendingLeave
        BY <2>3 DEF PendingLeave
      <4>2. room.pending_leave.requested = FALSE
        BY <2>1 DEF NoLeave
      <4> QED
        BY <1>1, <4>1, <4>2 DEF Room
    <3> HIDE DEF next
    <3>3. Table' = Table
      BY <3>1, <3>2, SameShown
    <3>4. v.removal = FALSE
      BY <1>2, <2>1 DEF NoLeave
    <3> HIDE DEF v
    <3>5. Table = [Table EXCEPT ![r].removal = FALSE]
      <4>1. [v EXCEPT !.removal = FALSE] = v
        BY <1>2, <3>4 DEF ARoom
      <4>2. Table = [Table EXCEPT ![r] = v]
        BY <1>1 DEF Table
      <4> QED
        BY <1>1, <4>1, <4>2
    <3>6. Leaving' = [Leaving EXCEPT ![r] = @ \cup {c}]
      BY <2>3, <3>1, LeavingAsked DEF LeaveCommand, MakeCommand
    <3>7. Abstract!AskLeave(r, c, FALSE)
      BY <1>1, <1>2, <2>1, <2>3, <3>3, <3>4, <3>5, <3>6 DEF Abstract!AskLeave
    <3> QED
      BY <2>3, <3>7 DEF Abstract!Request
  <2>5. CASE ~CanIssueLeave(r, c)
    <3> DEFINE next == [room EXCEPT !.deadline[c] = Grace]
    <3>1. rooms' = [rooms EXCEPT ![r] = next] /\ pending' = pending
      BY <2>2, <2>5 DEF TypeOK
    <3>2. /\ next.mode = room.mode /\ next.members = room.members
          /\ next.registered = room.registered /\ next.upgrade = room.upgrade
          /\ next.pending_join = room.pending_join
          /\ next.pending_leave = room.pending_leave
          /\ next.signal_epoch = room.signal_epoch /\ next \in Room
      BY <1>1, <2>3, BoundsAssumption DEF Room
    <3> HIDE DEF next
    <3>3. Table' = Table
      BY <3>1, <3>2, SameShown
    <3> QED
      BY <3>1, <3>3 DEF Leaving
  <2> QED
    BY <2>4, <2>5
<1>6. CASE SweepP2p(r) /\ room.mode # "P2p"
  <2>1. rooms' = [rooms EXCEPT ![r] = room] /\ pending' = pending
    BY <1>6 DEF SweepP2p
  <2> QED
    BY <1>1, <2>1, SameShown DEF Leaving
<1>7. CASE SweepP2p(r) /\ room.mode = "P2p"
  <2> DEFINE S == ExpiredMembers(room)
             rest == DropMembers(room, S)
             next == IF rest = room THEN ReapIfEmpty(room)
                     ELSE ReapIfEmpty(promote_survivor(rest))
  <2>1. rooms' = [rooms EXCEPT ![r] = next] /\ pending' = pending
    BY <1>7 DEF SweepP2p
  <2>2. S \subseteq room.members \ room.registered
    <3>1. \A c \in S : c \in room.members /\ room.deadline[c] = 0 /\ c \in Clients
      BY <1>1 DEF ExpiredMembers, Room
    <3> QED
      BY <1>1, <3>1 DEF MembersOK, None
  <2> HIDE DEF S
  <2>3. rest \in Room /\ Visible(rest) = Abstract!Without(v, S)
    BY <1>1, DropMembersType, VisibleDrop
  <2> HIDE DEF rest
  <2>4. Visible(next) = Abstract!Reaped(Visible(rest))
    <3>1. CASE rest = room
      BY <2>3, <3>1, VisibleReap
    <3>2. CASE rest # room
      BY <2>3, <3>2, VisibleReap, VisiblePromote, PromoteType
    <3> QED
      BY <3>1, <3>2
  <2> HIDE DEF next
  <2>5. Shows(r, Visible(next))
    BY <2>1, OneVisible
  <2>6. Leaving' = Leaving
    BY <2>1 DEF Leaving
  <2> HIDE DEF v
  <2>7. Abstract!Reap(r)
    BY <1>1, <1>2, <1>7, <2>2, <2>3, <2>4, <2>5, <2>6
       DEF Shows, Abstract!Reap, Abstract!Becomes
  <2> QED
    BY <2>7
<1> QED
  BY <1>3, <1>4, <1>5, <1>6, <1>7 DEF SweepRoom

\* Time that passes changes nothing visible.
LEMMA TickRefines ==
  ASSUME TypeOK, Tick
  PROVE  UNCHANGED <<Table, Leaving>>
<1>1. ASSUME NEW r \in Rooms PROVE Visible(rooms'[r]) = Visible(rooms[r])
  <2> DEFINE aged == [rooms[r] EXCEPT !.downgrade_deadline = Elapsed(@),
                                      !.deadline = [c \in Clients |-> Elapsed(@[c])]]
  <2>1. rooms'[r] = aged
    BY DEF Tick
  <2>2. /\ aged.mode = rooms[r].mode /\ aged.members = rooms[r].members
        /\ aged.registered = rooms[r].registered /\ aged.upgrade = rooms[r].upgrade
        /\ aged.pending_join = rooms[r].pending_join
        /\ aged.pending_leave = rooms[r].pending_leave
        /\ aged.signal_epoch = rooms[r].signal_epoch
    BY DEF TypeOK, Room
  <2> HIDE DEF aged
  <2> QED
    BY <2>1, <2>2 DEF Visible, Entering
<1> QED
  BY <1>1 DEF Tick, Table, Leaving

\* clear forgets every room and every leave.
LEMMA ClearRefines ==
  ASSUME clear
  PROVE  Abstract!Clear
BY VisibleAbsent DEF clear, Table, Leaving, Abstract!Clear

-----------------------------------------------------------------------------
(***************************************************************************)
(* The refinement.                                                         *)
(***************************************************************************)

\* The table starts without rooms.
LEMMA InitRefines == Init => Abstract!Init
BY VisibleAbsent DEF Init, Table, Leaving, Abstract!Init

\* A step of the table is a step of RoomModes, or changes nothing visible.
LEMMA StepRefines ==
  ASSUME TypeOK, RoomsOK, AllMembersOK, WireOK, [Next]_vars
  PROVE  [Abstract!Next]_(Abstract!vars)
<1> SUFFICES Abstract!Next \/ UNCHANGED <<Table, Leaving>>
  BY DEF Abstract!vars
<1>1. CASE UNCHANGED vars
  BY <1>1 DEF vars, Table, Leaving
<1>2. CASE Browser \/ WebServer
  <2>1. PICK r \in Rooms, c \in Clients :
          \/ Register(r, c) \/ Deregister(r, c) \/ SendSfu(r, c) \/ SendQueued(r, c)
          \/ AdmitFirst(r, c) \/ AdmitP2p(r, c) \/ AdmitUpgrade(r, c) \/ AdmitSfu(r, c)
          \/ RemoveNow(r, c) \/ RemoveSfu(r, c)
    BY <1>2 DEF Browser, WebServer
  <2>2. Abstract!Request(r, c) \/ UNCHANGED <<Table, Leaving>>
    BY <2>1, AdmitRefines, ClientRefines
  <2> QED
    BY <2>2 DEF Abstract!Next
<1>3. CASE WorkerAnswer
  <2>1. ASSUME NEW p \in wire, Result(p)
        PROVE  Abstract!Next \/ UNCHANGED <<Table, Leaving>>
    <3>1. p.room \in Rooms
      BY DEF TypeOK, Command
    <3>2. Abstract!Answer(p.room) \/ UNCHANGED <<Table, Leaving>>
      BY <2>1, ResultRefines
    <3> QED
      BY <3>1, <3>2 DEF Abstract!Next
  <2>2. ASSUME NEW s \in syncs, SyncOk(s)
        PROVE  UNCHANGED <<Table, Leaving>>
    BY <2>2 DEF SyncOk, Table, Leaving
  <2>3. ASSUME NEW s \in syncs, SyncErr(s)
        PROVE  Abstract!Next \/ UNCHANGED <<Table, Leaving>>
    <3>1. s.room \in Rooms
      BY DEF TypeOK, SyncRoom
    <3>2. Abstract!Fail(s.room) \/ UNCHANGED <<Table, Leaving>>
      BY <2>3, <3>1, FailRefines DEF SyncErr
    <3> QED
      BY <3>1, <3>2 DEF Abstract!Next, Abstract!Answer
  <2> QED
    BY <1>3, <2>1, <2>2, <2>3 DEF WorkerAnswer
<1>4. CASE WorkerStream
  <2>1. ASSUME NEW w \in Workers, NEW r \in Rooms, WorkerFailure(w, r)
        PROVE  Abstract!Next \/ UNCHANGED <<Table, Leaving>>
    <3>1. Abstract!Fail(r) \/ UNCHANGED <<Table, Leaving>>
      BY <2>1, FailRefines DEF WorkerFailure
    <3> QED
      BY <3>1 DEF Abstract!Next, Abstract!Answer
  <2>2. ASSUME NEW w, NEW k, NEW x, NEW y,
               register_worker(w, k, x) \/ WorkerDisconnected(w, k) \/ WorkerHealth(w, x, y)
        PROVE  UNCHANGED <<Table, Leaving>>
    BY <2>2 DEF register_worker, WorkerDisconnected, WorkerHealth, Table, Leaving
  <2> QED
    BY <1>4, <2>1, <2>2 DEF WorkerStream
<1>5. CASE Tick
  BY <1>5, TickRefines
<1>6. CASE clear
  BY <1>6, ClearRefines DEF Abstract!Next
<1>7. CASE StartSweep
  BY <1>7 DEF StartSweep, Table, Leaving
<1>8. ASSUME NEW w \in due, expire_worker(w) PROVE Abstract!Next
  <2>1. w \in Workers
    BY DEF TypeOK
  <2> QED
    BY <1>8, <2>1, ExpireRefines DEF Abstract!Next
<1>9. ASSUME NEW r \in unswept, SweepRoom(r)
      PROVE  Abstract!Next \/ UNCHANGED <<Table, Leaving>>
  <2>1. r \in Rooms
    BY DEF TypeOK
  <2> QED
    BY <1>9, <2>1, SweepRefines DEF Abstract!Next
<1> QED
  BY <1>1, <1>2, <1>3, <1>4, <1>5, <1>6, <1>7, <1>8, <1>9 DEF Next, Operation, HandleTimeout

\* V2Rooms implements RoomModes: no registered member is dropped that nobody
\* asked to leave, no epoch advances without a commit, and no client registers
\* before it is in, whatever the workers, streams and timers do.
THEOREM TableImplementsModes == Spec => Implements
<1>1. TypeOK /\ RoomsOK /\ AllMembersOK /\ WireOK /\ [Next]_vars
        => [Abstract!Next]_(Abstract!vars)
  BY StepRefines
<1> QED
  BY <1>1, InitRefines, TypeCorrect, RoomsSafe, MembersSafe, WireSafe, PTL
     DEF Spec, Implements, Abstract!Spec

=============================================================================
