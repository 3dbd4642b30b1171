------------------------ MODULE V2RoomsMembers_proofs ------------------------
(***************************************************************************)
(* Who is in a room, who offers and what waits there, for every value of   *)
(* the constants.                                                          *)
(*                                                                         *)
(* RoomStep says what one step of the table may make of one room; the      *)
(* invariants of a single room are proved against it.  MembersOK holds of  *)
(* every room; RolesOK, who offers and whose frames are queued, of a room  *)
(* that no worker reports as failed.                                       *)
(***************************************************************************)
EXTENDS V2Rooms_proofs

-----------------------------------------------------------------------------
(***************************************************************************)
(* What a step may make of a room.                                         *)
(***************************************************************************)

Founded(room, next) ==
  /\ room.mode = "Absent"
  /\ \E c \in Clients :
       next = [AddMember(AbsentRoom, c) EXCEPT !.mode = "P2p", !.initiators = {c}]

JoinedP2p(room, next) ==
  /\ room.mode = "P2p"
  /\ Cardinality(room.members) < MAX_P2P_MEMBERS
  /\ \E c \in Clients \ room.members : next = AddMember(room, c)

UpgradeStarted(room, next) ==
  /\ room.mode = "P2p"
  /\ Cardinality(room.members) >= MAX_P2P_MEMBERS
  /\ \E c \in Clients \ room.members, w \in Workers :
       next = [AddMember(room, c) EXCEPT
                 !.mode = "Upgrading",
                 !.assignment_epoch = room.assignment_epoch + 1,
                 !.assigned = w,
                 !.upgrade = [joining |-> c, todo |-> room.members \cup {c},
                              joined |-> <<>>]]

JoinedSfu(room, next) ==
  /\ room.mode = "Sfu" /\ room.pending_join = None /\ room.pending_leave = NoLeave
  /\ \E c \in Clients \ room.members :
       next = [AddMember(room, c) EXCEPT !.pending_join = c, !.downgrade_deadline = None]

Registered(room, next) ==
  /\ room.mode # "Upgrading"
  /\ \E c \in room.members :
       /\ c \notin {room.upgrade.joining, room.pending_join}
       /\ c \notin room.registered
       /\ next = [room EXCEPT
                    !.registered = @ \cup {c},
                    !.deadline[c] = None,
                    !.queued = IF room.mode = "P2p"
                                 THEN [NoQueues EXCEPT ![c] = room.queued[c]] ELSE @]

\* A leave goes out: for a removal, a socket that dropped, or a grace over.
LeaveAsked(room, next) ==
  /\ room.mode = "Sfu" /\ room.pending_leave = NoLeave
  /\ \E c \in room.members :
       \/ /\ room.pending_join = None
          /\ next = [room EXCEPT !.pending_leave = [client |-> c, requested |-> TRUE]]
       \/ /\ c \in room.registered
          /\ next = [room EXCEPT !.registered = @ \ {c},
                                 !.pending_leave = [client |-> c, requested |-> FALSE]]
       \/ /\ room.deadline[c] = 0
          /\ next = [room EXCEPT !.pending_leave = [client |-> c, requested |-> FALSE]]

Away(room, next) ==
  \E c \in room.registered :
    next = [room EXCEPT !.registered = @ \ {c}, !.deadline[c] = Grace]

GraceAgain(room, next) ==
  /\ room.mode = "Sfu"
  /\ \E c \in room.members :
       room.deadline[c] = 0 /\ next = [room EXCEPT !.deadline[c] = Grace]

FrameQueued(room, next) ==
  /\ room.mode \in {"P2p", "Failed"}
  /\ \E c \in room.members :
       \E peer \in IF room.members \ {c} = {} THEN {None}
                   ELSE (room.members \ {c}) \ room.registered :
         next = [room EXCEPT !.queued[c] =
                   Append(@, [epoch |-> room.signal_epoch, peer |-> peer])]

\* The web server removes a member, or the sweep those whose grace is over.
DroppedNow(room, next) ==
  /\ \/ room.mode = "P2p"
     \/ room.mode = "Failed" /\ room.pending_join = None /\ room.pending_leave = NoLeave
  /\ \E S \in SUBSET room.members :
       /\ S # {}
       /\ next = ReapIfEmpty(promote_survivor(DropMembers(room, S)))

LeftEmpty(room, next) ==
  room.mode = "P2p" /\ next = ReapIfEmpty(room)

BarrierStepped(room, next) ==
  /\ room.upgrade # NoUpgrade
  /\ \E c \in Clients, todo \in SUBSET Clients :
       /\ todo = room.upgrade.todo \ {NextJoin(room.upgrade.todo, room.upgrade.joining)}
       /\ next = [room EXCEPT !.upgrade =
                    [room.upgrade EXCEPT !.todo = todo,
                                         !.joined = Append(room.upgrade.joined, c)]]

Committed(room, next) == room.upgrade # NoUpgrade /\ next = commit_upgrade(room)

GivenUp(room, next) == room.upgrade # NoUpgrade /\ next = Aborted(room)

JoinEntered(room, next) ==
  room.pending_join # None /\ next = [room EXCEPT !.pending_join = None]

JoinRefused(room, next) ==
  /\ room.pending_join # None
  /\ next = [DropMembers(room, {room.pending_join}) EXCEPT !.pending_join = None]

MemberLeft(room, next) ==
  /\ room.pending_leave # NoLeave
  /\ \E c \in Clients :
       next = ReapIfEmpty(arm_downgrade(
                [DropMembers(room, {c}) EXCEPT !.pending_leave = NoLeave]))

LeaveRefused(room, next) ==
  room.pending_leave # NoLeave /\ next = [room EXCEPT !.pending_leave = NoLeave]

WorkerLost(room, next) ==
  room.mode \in {"P2p", "Sfu", "Failed"} /\ next = Expired(room)

Aged(room, next) ==
  next = [room EXCEPT !.downgrade_deadline = Elapsed(@),
                      !.deadline = [c \in Clients |-> Elapsed(@[c])]]

Downgraded(room, next) == is_downgrade_eligible(room) /\ next = commit_downgrade(room)

DwellStopped(room, next) ==
  room.downgrade_deadline = 0 /\ next = [room EXCEPT !.downgrade_deadline = None]

Failing(room, next) == room.mode # "Absent" /\ next = [room EXCEPT !.mode = "Failed"]

\* What an admission makes of a room.
AdmitStep(room, next) ==
  \/ Founded(room, next) \/ JoinedP2p(room, next) \/ UpgradeStarted(room, next)
  \/ JoinedSfu(room, next)

\* The other steps of any room, but for a worker's report of its failure.
OtherStep(room, next) ==
  \/ next = room
  \/ Registered(room, next) \/ LeaveAsked(room, next)
  \/ Away(room, next) \/ GraceAgain(room, next) \/ FrameQueued(room, next)
  \/ DroppedNow(room, next) \/ LeftEmpty(room, next)
  \/ BarrierStepped(room, next) \/ Committed(room, next) \/ GivenUp(room, next)
  \/ JoinEntered(room, next) \/ JoinRefused(room, next)
  \/ MemberLeft(room, next) \/ LeaveRefused(room, next)
  \/ WorkerLost(room, next) \/ Aged(room, next)
  \/ Downgraded(room, next) \/ DwellStopped(room, next)
  \/ next = AbsentRoom

SoundStep(room, next) == AdmitStep(room, next) \/ OtherStep(room, next)

RoomStep(r) ==
  \/ SoundStep(rooms[r], rooms'[r])
  \/ r \in Failable /\ Failing(rooms[r], rooms'[r])

-----------------------------------------------------------------------------
(***************************************************************************)
(* The invariants.                                                         *)
(***************************************************************************)

\* The barrier or the worker's answer to a join or a leave is awaited in one
\* kind of room only.
AwaitingOK(room) ==
  /\ room.mode \in {"Absent", "P2p", "Upgrading"} \/ room.upgrade # NoUpgrade =>
       room.pending_join = None /\ room.pending_leave = NoLeave
  /\ room.upgrade # NoUpgrade => room.upgrade.joining \in Clients
  /\ room.mode \in {"Absent", "P2p"} => room.assigned = None
  /\ room.mode \in {"Upgrading", "Sfu"} \/ room.upgrade # NoUpgrade => room.assigned # None

MembersOK(room) ==
  /\ AwaitingOK(room)
  /\ room.mode = "Absent" => room = AbsentRoom
  /\ room.registered \subseteq room.members \ {room.upgrade.joining, room.pending_join}
  /\ \A c \in Clients : room.deadline[c] # None => c \in room.members \ room.registered

RolesOK(room) ==
  /\ room.initiators \subseteq room.members
  /\ room.mode \in {"P2p", "Upgrading"} =>
       \E c \in room.members \ {room.upgrade.joining} : room.initiators = {c}
  /\ room.mode = "Sfu" => room.initiators = {}
  /\ room.mode = "Failed" =>
       room.upgrade = NoUpgrade /\ room.pending_join = None /\ room.pending_leave = NoLeave

QueuesOK(room) ==
  room.mode \in {"P2p", "Upgrading"} =>
    \A c \in Clients : room.queued[c] # <<>> =>
      /\ room.registered \subseteq {c}
      /\ \A i \in DOMAIN room.queued[c] :
           /\ room.queued[c][i].epoch = room.signal_epoch
           /\ room.queued[c][i].peer \in {None} \cup (room.members \ {room.upgrade.joining})

AllMembersOK == \A r \in Rooms : MembersOK(rooms[r])

AllRolesOK == \A r \in Rooms \ Failable : RolesOK(rooms[r]) /\ QueuesOK(rooms[r])

RoomSteps == \A r \in Rooms : RoomStep(r)

\* Nobody is admitted to any room.
NoAdmission ==
  \A r \in Rooms : \/ OtherStep(rooms[r], rooms'[r])
                   \/ r \in Failable /\ Failing(rooms[r], rooms'[r])

-----------------------------------------------------------------------------
(***************************************************************************)
(* Every step of the table is such a step of every room.                   *)
(***************************************************************************)

\* An admission touches one room.
LEMMA OneAdmitStep ==
  ASSUME TypeOK, NEW r \in Rooms, NEW next, AdmitStep(rooms[r], next),
         rooms' = [rooms EXCEPT ![r] = next]
  PROVE  RoomSteps
<1> SUFFICES ASSUME NEW q \in Rooms PROVE RoomStep(q)
  BY DEF RoomSteps
<1>1. CASE q = r
  BY <1>1 DEF TypeOK, RoomStep, SoundStep
<1>2. CASE q # r
  <2>1. rooms'[q] = rooms[q]
    BY <1>2 DEF TypeOK
  <2> QED
    BY <2>1 DEF RoomStep, SoundStep, OtherStep
<1> QED
  BY <1>1, <1>2

\* Another step that touches one room.
LEMMA OneRoomStep ==
  ASSUME TypeOK, NEW r \in Rooms, NEW next, OtherStep(rooms[r], next),
         rooms' = [rooms EXCEPT ![r] = next]
  PROVE  NoAdmission
<1> SUFFICES ASSUME NEW q \in Rooms PROVE OtherStep(rooms[q], rooms'[q])
  BY DEF NoAdmission
<1>1. CASE q = r
  BY <1>1 DEF TypeOK
<1>2. CASE q # r
  <2>1. rooms'[q] = rooms[q]
    BY <1>2 DEF TypeOK
  <2> QED
    BY <2>1 DEF OtherStep
<1> QED
  BY <1>1, <1>2

\* A step that touches no room.
LEMMA NoRoomStep ==
  ASSUME rooms' = rooms
  PROVE  NoAdmission
BY DEF NoAdmission, OtherStep

\* admit, in its four outcomes.
LEMMA AdmitRoomSteps ==
  ASSUME TypeOK, NEW r \in Rooms, NEW c \in Clients,
         AdmitFirst(r, c) \/ AdmitP2p(r, c) \/ AdmitUpgrade(r, c) \/ AdmitSfu(r, c)
  PROVE  RoomSteps
<1>1. CASE AdmitFirst(r, c)
  <2> DEFINE next == [AddMember(AbsentRoom, c) EXCEPT !.mode = "P2p", !.initiators = {c}]
  <2>1. rooms[r].mode = "Absent" /\ rooms' = [rooms EXCEPT ![r] = next]
    BY <1>1 DEF AdmitFirst
  <2>2. Founded(rooms[r], next)
    BY <2>1 DEF Founded
  <2> HIDE DEF next
  <2> QED
    BY <2>1, <2>2, OneAdmitStep DEF AdmitStep
<1>2. CASE AdmitP2p(r, c)
  <2> DEFINE next == AddMember(rooms[r], c)
  <2>1. rooms' = [rooms EXCEPT ![r] = next]
    BY <1>2 DEF AdmitP2p
  <2>2. JoinedP2p(rooms[r], next)
    BY <1>2 DEF AdmitP2p, JoinedP2p
  <2> HIDE DEF next
  <2> QED
    BY <2>1, <2>2, OneAdmitStep DEF AdmitStep
<1>3. CASE AdmitUpgrade(r, c)
  <2> DEFINE next(w) == [AddMember(rooms[r], c) EXCEPT
                  !.mode = "Upgrading", !.assignment_epoch = rooms[r].assignment_epoch + 1,
                  !.assigned = w,
                  !.upgrade = [joining |-> c, todo |-> rooms[r].members \cup {c},
                               joined |-> <<>>]]
  <2>1. PICK w \in Workers : rooms' = [rooms EXCEPT ![r] = next(w)]
    BY <1>3 DEF AdmitUpgrade
  <2>2. /\ rooms[r].mode = "P2p" /\ c \notin rooms[r].members
        /\ Cardinality(rooms[r].members) >= MAX_P2P_MEMBERS
    BY <1>3 DEF AdmitUpgrade
  <2>3. UpgradeStarted(rooms[r], next(w))
    BY <2>2 DEF UpgradeStarted
  <2> HIDE DEF next
  <2> QED
    BY <2>1, <2>3, OneAdmitStep DEF AdmitStep
<1>4. CASE AdmitSfu(r, c)
  <2> DEFINE next == [AddMember(rooms[r], c) EXCEPT !.pending_join = c,
                                                    !.downgrade_deadline = None]
  <2>1. rooms' = [rooms EXCEPT ![r] = next]
    BY <1>4 DEF AdmitSfu
  <2>2. JoinedSfu(rooms[r], next)
    BY <1>4 DEF AdmitSfu, JoinedSfu
  <2> HIDE DEF next
  <2> QED
    BY <2>1, <2>2, OneAdmitStep DEF AdmitStep
<1> QED
  BY <1>1, <1>2, <1>3, <1>4

\* register, deregister, send and remove.
LEMMA ClientRoomSteps ==
  ASSUME TypeOK, NEW r \in Rooms, NEW c \in Clients,
         \/ Register(r, c) \/ Deregister(r, c) \/ SendSfu(r, c) \/ SendQueued(r, c)
         \/ RemoveNow(r, c) \/ RemoveSfu(r, c)
  PROVE  NoAdmission
<1> DEFINE room == rooms[r]
<1>0. room \in Room
  BY DEF TypeOK
<1>1. CASE Register(r, c)
  <2>1. /\ Registered(room, rooms'[r])
        /\ rooms' = [rooms EXCEPT ![r] = rooms'[r]]
    BY <1>1, <1>0 DEF Register, HoldsToken, Registered, TypeOK
  <2> QED
    BY <2>1, OneRoomStep DEF OtherStep
<1>2. CASE Deregister(r, c)
  <2> DEFINE gone == [room EXCEPT !.registered = @ \ {c}]
             left == [gone EXCEPT !.pending_leave = [client |-> c, requested |-> FALSE]]
             away == [gone EXCEPT !.deadline[c] = Grace]
  <2>1. c \in room.registered
    BY <1>2 DEF Deregister
  <2>2. CASE CanIssueLeave(r, c)
    <3>1. rooms' = [rooms EXCEPT ![r] = left]
      BY <1>2, <2>2 DEF Deregister
    <3>2. left = [room EXCEPT !.registered = @ \ {c},
                              !.pending_leave = [client |-> c, requested |-> FALSE]]
      BY <1>0 DEF Room
    <3>3. LeaveAsked(room, left)
      BY <2>1, <2>2, <3>2 DEF CanIssueLeave, LeaveAsked
    <3> QED
      BY <3>1, <3>3, OneRoomStep DEF OtherStep
  <2>3. CASE ~CanIssueLeave(r, c)
    <3>1. rooms' = [rooms EXCEPT ![r] = away]
      BY <1>2, <2>3 DEF Deregister
    <3>2. away = [room EXCEPT !.registered = @ \ {c}, !.deadline[c] = Grace]
      BY <1>0 DEF Room
    <3>3. Away(room, away)
      BY <2>1, <3>2 DEF Away
    <3> QED
      BY <3>1, <3>3, OneRoomStep DEF OtherStep
  <2> QED
    BY <2>2, <2>3
<1>3. CASE SendSfu(r, c)
  BY <1>3, NoRoomStep DEF SendSfu
<1>4. CASE SendQueued(r, c)
  <2> DEFINE next(peer) == [room EXCEPT !.queued[c] =
                              Append(@, [epoch |-> room.signal_epoch, peer |-> peer])]
  <2>1. PICK peer \in IF room.members \ {c} = {} THEN {None}
                      ELSE (room.members \ {c}) \ room.registered :
          rooms' = [rooms EXCEPT ![r] = next(peer)]
    BY <1>4 DEF SendQueued, TypeOK
  <2>2. FrameQueued(room, next(peer))
    BY <1>4, <2>1 DEF SendQueued, FrameQueued
  <2> HIDE DEF next
  <2> QED
    BY <2>1, <2>2, OneRoomStep DEF OtherStep
<1>5. CASE RemoveNow(r, c)
  <2> DEFINE next == ReapIfEmpty(promote_survivor(DropMembers(room, {c})))
  <2>1. /\ rooms' = [rooms EXCEPT ![r] = next]
        /\ room.mode \in {"P2p", "Failed"} /\ c \in room.members /\ Settled(room)
    BY <1>5 DEF RemoveNow
  <2>2. {c} \in SUBSET room.members /\ {c} # {}
    BY <2>1
  <2>3. DroppedNow(room, next)
    BY <2>1, <2>2 DEF DroppedNow, Settled
  <2> HIDE DEF next
  <2> QED
    BY <2>1, <2>3, OneRoomStep DEF OtherStep
<1>6. CASE RemoveSfu(r, c)
  <2> DEFINE next == [room EXCEPT !.pending_leave = [client |-> c, requested |-> TRUE]]
  <2>1. rooms' = [rooms EXCEPT ![r] = next]
    BY <1>6 DEF RemoveSfu, TypeOK
  <2>2. LeaveAsked(room, next)
    BY <1>6 DEF RemoveSfu, Settled, LeaveAsked
  <2> HIDE DEF next
  <2> QED
    BY <2>1, <2>2, OneRoomStep DEF OtherStep
<1> QED
  BY <1>1, <1>2, <1>3, <1>4, <1>5, <1>6

\* The results of commands.
LEMMA ResultRoomSteps ==
  ASSUME TypeOK, NEW p \in wire, Result(p)
  PROVE  NoAdmission
<1> DEFINE r == p.room
           room == rooms[r]
<1>0. p \in Command /\ r \in Rooms /\ p.client \in Clients
  BY DEF TypeOK, Command
<1>a. room \in Room /\ rooms \in [Rooms -> Room]
  BY <1>0 DEF TypeOK
<1>1. CASE UpgradeJoinMore(p)
  <2> DEFINE up == room.upgrade
             next == [room EXCEPT !.upgrade =
                        [up EXCEPT !.todo = Todo(p), !.joined = Append(up.joined, p.client)]]
  <2>1. up \in Upgrade
    BY <1>a DEF Room
  <2>2. Todo(p) \in SUBSET Clients
    BY <2>1 DEF Todo, Upgrade
  <2>3. Stepped(p) = next
    <3>1. Stepped(p) = [rooms[r] EXCEPT !.upgrade =
             [rooms[r].upgrade EXCEPT !.todo = Todo(p),
                !.joined = Append(rooms[r].upgrade.joined, p.client)]]
      BY <1>0, <1>a, <2>1 DEF Stepped, Room, Upgrade
    <3> QED
      BY <3>1
  <2>4. Todo(p) = up.todo \ {NextJoin(up.todo, up.joining)}
    BY DEF Todo
  <2>5. BarrierStepped(room, next)
    <3>1. up # NoUpgrade
      BY <1>1 DEF UpgradeJoinMore
    <3> QED
      BY <1>0, <2>2, <2>4, <3>1 DEF BarrierStepped
  <2>6. rooms' = [rooms EXCEPT ![r] = next]
    BY <1>1, <2>3 DEF UpgradeJoinMore
  <2> HIDE DEF next
  <2> QED
    BY <1>0, <2>5, <2>6, OneRoomStep DEF OtherStep
<1>2. CASE UpgradeJoinLast(p)
  BY <1>0, <1>2, OneRoomStep DEF UpgradeJoinLast, OtherStep, Committed
<1>3. CASE UpgradeJoinErr(p)
  BY <1>0, <1>3, OneRoomStep DEF UpgradeJoinErr, OtherStep, GivenUp
<1>4. CASE SfuJoinOk(p)
  <2>1. /\ rooms' = [rooms EXCEPT ![r] = [room EXCEPT !.pending_join = None]]
        /\ room.pending_join # None
    BY <1>4, <1>a DEF SfuJoinOk
  <2> QED
    BY <1>0, <2>1, OneRoomStep DEF OtherStep, JoinEntered
<1>5. CASE SfuJoinErr(p)
  BY <1>0, <1>5, OneRoomStep DEF SfuJoinErr, OtherStep, JoinRefused
<1>6. CASE SfuLeaveOk(p)
  <2> DEFINE next == ReapIfEmpty(arm_downgrade(
                [DropMembers(room, {p.client}) EXCEPT !.pending_leave = NoLeave]))
  <2>1. rooms' = [rooms EXCEPT ![r] = next] /\ room.pending_leave # NoLeave
    BY <1>6 DEF SfuLeaveOk
  <2>2. MemberLeft(room, next)
    BY <1>0, <2>1 DEF MemberLeft
  <2> HIDE DEF next
  <2> QED
    BY <1>0, <2>1, <2>2, OneRoomStep DEF OtherStep
<1>7. CASE SfuLeaveErr(p)
  <2>1. /\ rooms' = [rooms EXCEPT ![r] = [room EXCEPT !.pending_leave = NoLeave]]
        /\ room.pending_leave # NoLeave
    BY <1>7, <1>a DEF SfuLeaveErr
  <2> QED
    BY <1>0, <2>1, OneRoomStep DEF OtherStep, LeaveRefused
<1>8. CASE SettleOnly(p)
  BY <1>8, NoRoomStep DEF SettleOnly
<1> QED
  BY <1>1, <1>2, <1>3, <1>4, <1>5, <1>6, <1>7, <1>8 DEF Result

\* fail_room, of a room a worker reports as failed.
LEMMA FailRoomSteps ==
  ASSUME TypeOK, NEW r \in Rooms, r \in Failable, rooms' = fail_room(r)
  PROVE  NoAdmission
<1> SUFFICES ASSUME NEW q \in Rooms
             PROVE  \/ OtherStep(rooms[q], rooms'[q])
                    \/ q \in Failable /\ Failing(rooms[q], rooms'[q])
  BY DEF NoAdmission
<1>1. CASE rooms[r].mode = "Absent" \/ q # r
  <2>1. rooms'[q] = rooms[q]
    BY <1>1 DEF fail_room, TypeOK
  <2> QED
    BY <2>1 DEF OtherStep
<1>2. CASE rooms[r].mode # "Absent" /\ q = r
  <2>1. rooms'[q] = [rooms[q] EXCEPT !.mode = "Failed"]
    BY <1>2 DEF fail_room, TypeOK
  <2> QED
    BY <1>2, <2>1 DEF Failing
<1> QED
  BY <1>1, <1>2

\* What arrives from the workers, outside of the results.
LEMMA WorkerRoomSteps ==
  ASSUME TypeOK, WorkerStream \/ \E s \in syncs : SyncOk(s) \/ SyncErr(s)
  PROVE  NoAdmission
<1>1. ASSUME NEW s \in syncs, SyncErr(s)
      PROVE  NoAdmission
  <2>1. s.room \in Rooms
    BY DEF TypeOK, SyncRoom
  <2> QED
    BY <1>1, <2>1, FailRoomSteps DEF SyncErr
<1>2. ASSUME NEW s \in syncs, SyncOk(s)
      PROVE  NoAdmission
  BY <1>2, NoRoomStep DEF SyncOk
<1>3. ASSUME NEW w \in Workers, NEW r \in Rooms, WorkerFailure(w, r)
      PROVE  NoAdmission
  BY <1>3, FailRoomSteps DEF WorkerFailure
<1>4. ASSUME NEW w \in Workers, NEW k, NEW x, NEW y,
             register_worker(w, k, x) \/ WorkerDisconnected(w, k) \/ WorkerHealth(w, x, y)
      PROVE  NoAdmission
  BY <1>4, NoRoomStep DEF register_worker, WorkerDisconnected, WorkerHealth
<1> QED
  BY <1>1, <1>2, <1>3, <1>4 DEF WorkerStream

\* The loss of a worker.
LEMMA ExpireRoomSteps ==
  ASSUME TypeOK, RoomsOK, NEW w \in Workers, expire_worker(w)
  PROVE  NoAdmission
<1> SUFFICES ASSUME NEW r \in Rooms PROVE OtherStep(rooms[r], rooms'[r])
  BY DEF NoAdmission
<1>1. rooms[r] \in Room /\ RoomOK(rooms[r])
  BY DEF TypeOK, RoomsOK
<1>2. \/ rooms[r].mode = "Upgrading" /\ rooms'[r] = Aborted(rooms[r])
      \/ rooms[r].mode \notin {"Absent", "Upgrading"} /\ rooms'[r] = Expired(rooms[r])
      \/ rooms'[r] = rooms[r]
  BY DEF expire_worker
<1>3. rooms[r].mode \in Modes
  BY <1>1 DEF Room
<1>4. CASE rooms[r].mode = "Upgrading" /\ rooms'[r] = Aborted(rooms[r])
  BY <1>1, <1>4 DEF RoomOK, BarrierShape, OtherStep, GivenUp
<1>5. CASE rooms[r].mode \notin {"Absent", "Upgrading"} /\ rooms'[r] = Expired(rooms[r])
  BY <1>3, <1>5 DEF Modes, OtherStep, WorkerLost
<1> QED
  BY <1>2, <1>4, <1>5 DEF OtherStep

\* The sweep of one room.
LEMMA SweepRoomSteps ==
  ASSUME TypeOK, NEW r \in Rooms, SweepRoom(r)
  PROVE  NoAdmission
<1> DEFINE room == rooms[r]
<1>0. room \in Room
  BY DEF TypeOK
<1>1. CASE SweepDowngrade(r)
  <2>1. CASE is_downgrade_eligible(room)
    BY <1>1, <2>1, OneRoomStep DEF SweepDowngrade, OtherStep, Downgraded
  <2>2. CASE ~is_downgrade_eligible(room)
    <3>1. /\ rooms' = [rooms EXCEPT ![r] = [room EXCEPT !.downgrade_deadline = None]]
          /\ room.downgrade_deadline = 0
      BY <1>1, <2>2 DEF SweepDowngrade, TypeOK
    <3> QED
      BY <3>1, OneRoomStep DEF OtherStep, DwellStopped
  <2> QED
    BY <2>1, <2>2
<1>2. CASE SweepSfu(r)
  <2> DEFINE left(c) == [room EXCEPT !.pending_leave = [client |-> c, requested |-> FALSE]]
             again(c) == [room EXCEPT !.deadline[c] = Grace]
  <2>1. PICK c \in ExpiredMembers(room) :
          rooms' = [rooms EXCEPT ![r] = left(c)] \/ rooms' = [rooms EXCEPT ![r] = again(c)]
    BY <1>2 DEF SweepSfu, TypeOK
  <2>2. c \in room.members /\ room.deadline[c] = 0
    BY DEF ExpiredMembers
  <2>3. room.mode = "Sfu" /\ room.pending_leave = NoLeave
    BY <1>2 DEF SweepSfu, AwaitsLeave
  <2>4. LeaveAsked(room, left(c)) /\ GraceAgain(room, again(c))
    BY <2>2, <2>3 DEF LeaveAsked, GraceAgain
  <2> HIDE DEF left, again
  <2> QED
    BY <2>1, <2>4, OneRoomStep DEF OtherStep
<1>3. CASE SweepP2p(r)
  <2> DEFINE S == ExpiredMembers(room)
             rest == DropMembers(room, S)
             next == IF room.mode # "P2p" THEN room
                     ELSE IF rest = room THEN ReapIfEmpty(room)
                     ELSE ReapIfEmpty(promote_survivor(rest))
  <2>1. rooms' = [rooms EXCEPT ![r] = next]
    BY <1>3 DEF SweepP2p
  <2>2. S \subseteq room.members
    BY DEF ExpiredMembers
  <2>3. S = {} => rest = room
    <3>1. S = {} => Reset(room.deadline, S, None) = room.deadline
                    /\ Reset(room.queued, S, <<>>) = room.queued
      BY <1>0 DEF Reset, Room
    <3> QED
      BY <1>0, <3>1 DEF DropMembers, Room
  <2>4. OtherStep(room, next)
    <3>1. CASE room.mode # "P2p"
      BY <3>1 DEF OtherStep
    <3>2. CASE room.mode = "P2p" /\ rest = room
      BY <3>2 DEF OtherStep, LeftEmpty
    <3>3. CASE room.mode = "P2p" /\ rest # room
      <4>1. S # {}
        BY <2>3, <3>3
      <4>2. next = ReapIfEmpty(promote_survivor(DropMembers(room, S)))
        BY <3>3
      <4> HIDE DEF S, next
      <4>3. DroppedNow(room, next)
        BY <2>2, <3>3, <4>1, <4>2 DEF DroppedNow
      <4> QED
        BY <4>3 DEF OtherStep
    <3> QED
      BY <3>1, <3>2, <3>3
  <2> HIDE DEF next
  <2> QED
    BY <2>1, <2>4, OneRoomStep
<1> QED
  BY <1>1, <1>2, <1>3 DEF SweepRoom

\* Whoever enters a room was admitted to it.
LEMMA AdmittedOrNot ==
  ASSUME TypeOK, RoomsOK, [Next]_vars
  PROVE  \/ NoAdmission
         \/ \E r \in Rooms, c \in Clients :
              AdmitFirst(r, c) \/ AdmitP2p(r, c) \/ AdmitUpgrade(r, c) \/ AdmitSfu(r, c)
<1>1. CASE UNCHANGED vars
  BY <1>1, NoRoomStep DEF vars
<1>2. CASE Browser \/ WebServer
  BY <1>2, ClientRoomSteps DEF Browser, WebServer
<1>3. CASE WorkerAnswer
  BY <1>3, ResultRoomSteps, WorkerRoomSteps DEF WorkerAnswer
<1>4. CASE clear
  BY <1>4 DEF clear, NoAdmission, OtherStep
<1>5. CASE HandleTimeout
  <2>1. ASSUME NEW w \in due, expire_worker(w)
        PROVE  NoAdmission
    BY <2>1, ExpireRoomSteps DEF TypeOK
  <2>2. ASSUME NEW r \in unswept, SweepRoom(r)
        PROVE  NoAdmission
    BY <2>2, SweepRoomSteps DEF TypeOK
  <2>3. StartSweep => NoAdmission
    BY NoRoomStep DEF StartSweep
  <2> QED
    BY <1>5, <2>1, <2>2, <2>3 DEF HandleTimeout
<1>6. CASE Tick
  BY <1>6 DEF Tick, NoAdmission, OtherStep, Aged
<1> QED
  BY <1>1, <1>2, <1>3, <1>4, <1>5, <1>6, WorkerRoomSteps DEF Next, Operation

\* Every step of the table.
LEMMA RoomStepsAlways ==
  ASSUME TypeOK, RoomsOK, [Next]_vars
  PROVE  RoomSteps
<1>1. NoAdmission => RoomSteps
  BY DEF NoAdmission, RoomSteps, RoomStep, SoundStep
<1> QED
  BY <1>1, AdmittedOrNot, AdmitRoomSteps

-----------------------------------------------------------------------------
(***************************************************************************)
(* MembersOK is kept by every step of a room.                              *)
(***************************************************************************)

\* An unknown room has no members.
LEMMA AbsentMembersOK == MembersOK(AbsentRoom)
BY DEF MembersOK, AwaitingOK, AbsentRoom, NoUpgrade

\* A member goes, with its registration and its deadline.
LEMMA DropMembersOK ==
  ASSUME NEW room \in Room, MembersOK(room), NEW S
  PROVE  LET rest == DropMembers(room, S)
         IN  /\ rest \in Room
             /\ rest.registered \subseteq
                  rest.members \ {room.upgrade.joining, room.pending_join}
             /\ \A c \in Clients : rest.deadline[c] # None =>
                  c \in rest.members \ rest.registered
             /\ rest.members = room.members \ S
             /\ rest.mode = room.mode /\ rest.upgrade = room.upgrade
             /\ rest.pending_join = room.pending_join
             /\ rest.pending_leave = room.pending_leave
             /\ rest.assigned = room.assigned
<1> DEFINE rest == DropMembers(room, S)
<1>1. /\ rest.members = room.members \ S
      /\ rest.registered = room.registered \ S
      /\ rest.deadline = [c \in Clients |-> IF c \in S THEN None ELSE room.deadline[c]]
      /\ rest.mode = room.mode /\ rest.upgrade = room.upgrade
      /\ rest.pending_join = room.pending_join
      /\ rest.pending_leave = room.pending_leave
      /\ rest.assigned = room.assigned
  BY DEF DropMembers, Reset, Room
<1>2. rest \in Room
  BY DropMembersType
<1> HIDE DEF rest
<1>3. /\ room.registered \subseteq room.members \ {room.upgrade.joining, room.pending_join}
      /\ \A c \in Clients : room.deadline[c] # None => c \in room.members \ room.registered
  BY DEF MembersOK
<1>4. \A c \in Clients : rest.deadline[c] # None => c \in rest.members \ rest.registered
  <2> SUFFICES ASSUME NEW c \in Clients, rest.deadline[c] # None
               PROVE  c \in rest.members \ rest.registered
    OBVIOUS
  <2>1. c \notin S /\ room.deadline[c] # None
    BY <1>1
  <2> QED
    BY <1>1, <1>3, <2>1
<1>5. rest.registered \subseteq rest.members \ {room.upgrade.joining, room.pending_join}
  BY <1>1, <1>3
<1> QED
  BY <1>1, <1>2, <1>4, <1>5 DEF rest

\* The steps that start a membership or end a wait keep MembersOK.
LEMMA AdmitMembers ==
  ASSUME NEW room \in Room, RoomOK(room), MembersOK(room), NEW next,
         \/ Founded(room, next) \/ JoinedP2p(room, next)
         \/ UpgradeStarted(room, next) \/ JoinedSfu(room, next)
  PROVE  MembersOK(next)
<1>0. \A c \in Clients : AddMember(room, c) \in Room /\ c # None
  BY AddMemberType, IdsAssumption DEF None
<1>1. CASE Founded(room, next)
  <2>1. PICK c \in Clients :
          next = [AddMember(AbsentRoom, c) EXCEPT !.mode = "P2p", !.initiators = {c}]
    BY <1>1 DEF Founded
  <2>2. AddMember(AbsentRoom, c) \in Room
    BY ConstantTypes, AddMemberType
  <2>3. /\ next.mode = "P2p" /\ next.members = {c} /\ next.registered = {}
        /\ next.deadline = [[d \in Clients |-> None] EXCEPT ![c] = Grace]
        /\ next.upgrade = NoUpgrade /\ next.pending_join = None
        /\ next.pending_leave = NoLeave /\ next.assigned = None
    BY <2>1, <2>2 DEF AddMember, AbsentRoom, Room
  <2> QED
    BY <2>3 DEF MembersOK, AwaitingOK
<1>2. CASE JoinedP2p(room, next)
  <2>1. PICK c \in Clients \ room.members : next = AddMember(room, c)
    BY <1>2 DEF JoinedP2p
  <2>2. /\ next.mode = room.mode /\ next.members = room.members \cup {c}
        /\ next.registered = room.registered
        /\ next.deadline = [room.deadline EXCEPT ![c] = Grace]
        /\ next.upgrade = room.upgrade /\ next.pending_join = room.pending_join
        /\ next.pending_leave = room.pending_leave /\ next.assigned = room.assigned
        /\ room.mode = "P2p" /\ room.deadline \in [Clients -> Nat \cup {None}]
    BY <1>2, <2>1 DEF AddMember, Room, JoinedP2p
  <2> QED
    BY <2>1, <2>2 DEF MembersOK, AwaitingOK
<1>3. CASE UpgradeStarted(room, next)
  <2>1. PICK c \in Clients \ room.members, w \in Workers :
          next = [AddMember(room, c) EXCEPT
                    !.mode = "Upgrading",
                    !.assignment_epoch = room.assignment_epoch + 1,
                    !.assigned = w,
                    !.upgrade = [joining |-> c, todo |-> room.members \cup {c},
                                 joined |-> <<>>]]
    BY <1>3 DEF UpgradeStarted
  <2>2. /\ next.mode = "Upgrading" /\ next.members = room.members \cup {c}
        /\ next.registered = room.registered
        /\ next.deadline = [room.deadline EXCEPT ![c] = Grace]
        /\ next.upgrade = [joining |-> c, todo |-> room.members \cup {c}, joined |-> <<>>]
        /\ next.pending_join = room.pending_join
        /\ next.pending_leave = room.pending_leave /\ next.assigned = w
        /\ room.mode = "P2p" /\ room.deadline \in [Clients -> Nat \cup {None}]
    BY <1>0, <1>3, <2>1 DEF AddMember, Room, UpgradeStarted
  <2>3. next.upgrade.joining = c /\ w # None
    BY <2>2, IdsAssumption DEF None
  <2> QED
    BY <2>1, <2>2, <2>3 DEF MembersOK, AwaitingOK
<1>4. CASE JoinedSfu(room, next)
  <2>1. PICK c \in Clients \ room.members :
          next = [AddMember(room, c) EXCEPT !.pending_join = c, !.downgrade_deadline = None]
    BY <1>4 DEF JoinedSfu
  <2>2. /\ next.mode = "Sfu" /\ next.members = room.members \cup {c}
        /\ next.registered = room.registered
        /\ next.deadline = [room.deadline EXCEPT ![c] = Grace]
        /\ next.upgrade = room.upgrade /\ next.pending_join = c
        /\ next.pending_leave = room.pending_leave /\ next.assigned = room.assigned
        /\ room.mode = "Sfu" /\ room.deadline \in [Clients -> Nat \cup {None}]
    BY <1>0, <1>4, <2>1 DEF AddMember, Room, JoinedSfu
  <2>3. room.upgrade = NoUpgrade
    BY <2>2 DEF RoomOK, BarrierShape
  <2> QED
    BY <2>1, <2>2, <2>3 DEF MembersOK, AwaitingOK
<1> QED
  BY <1>1, <1>2, <1>3, <1>4

\* What browsers, the web server and the sweep do to a member keeps it.
LEMMA MemberMembers ==
  ASSUME NEW room \in Room, RoomOK(room), MembersOK(room), NEW next,
         \/ Registered(room, next) \/ LeaveAsked(room, next) \/ Away(room, next)
         \/ GraceAgain(room, next) \/ FrameQueued(room, next)
  PROVE  MembersOK(next)
<1>0. room.deadline \in [Clients -> Nat \cup {None}] /\ room.members \subseteq Clients
  BY DEF Room
<1>1. CASE Registered(room, next)
  <2>1. PICK c \in room.members :
          /\ c \notin {room.upgrade.joining, room.pending_join}
          /\ next = [room EXCEPT
                       !.registered = @ \cup {c},
                       !.deadline[c] = None,
                       !.queued = IF room.mode = "P2p"
                                    THEN [NoQueues EXCEPT ![c] = room.queued[c]] ELSE @]
    BY <1>1 DEF Registered
  <2>2. /\ next.mode = room.mode /\ next.members = room.members
        /\ next.registered = room.registered \cup {c}
        /\ next.deadline = [room.deadline EXCEPT ![c] = None]
        /\ next.upgrade = room.upgrade /\ next.pending_join = room.pending_join
        /\ next.pending_leave = room.pending_leave /\ next.assigned = room.assigned
    BY <2>1 DEF Room
  <2>3. next.mode # "Absent"
    BY <2>1, <2>2 DEF MembersOK, AbsentRoom
  <2> QED
    BY <1>0, <2>1, <2>2, <2>3 DEF MembersOK, AwaitingOK
<1>2. CASE LeaveAsked(room, next)
  <2>1. PICK c \in room.members :
          \/ next = [room EXCEPT !.pending_leave = [client |-> c, requested |-> TRUE]]
          \/ /\ c \in room.registered
             /\ next = [room EXCEPT !.registered = @ \ {c},
                                    !.pending_leave = [client |-> c, requested |-> FALSE]]
          \/ next = [room EXCEPT !.pending_leave = [client |-> c, requested |-> FALSE]]
    BY <1>2 DEF LeaveAsked
  <2> DEFINE Kept ==
        /\ next.mode = "Sfu" /\ room.mode = "Sfu" /\ next.members = room.members
        /\ next.registered \subseteq room.registered
        /\ next.deadline = room.deadline
        /\ next.upgrade = room.upgrade /\ next.pending_join = room.pending_join
        /\ next.assigned = room.assigned
  <2>2. Kept
    <3>1. room.mode = "Sfu"
      BY <1>2 DEF LeaveAsked
    <3>2. ASSUME NEW leave, next = [room EXCEPT !.pending_leave = leave]
          PROVE  Kept
      BY <3>1, <3>2 DEF Room
    <3>3. ASSUME NEW leave, next = [room EXCEPT !.registered = @ \ {c},
                                               !.pending_leave = leave]
          PROVE  Kept
      BY <3>1, <3>3 DEF Room
    <3> QED
      BY <2>1, <3>2, <3>3
  <2>3. room.upgrade = NoUpgrade
    BY <2>2 DEF RoomOK, BarrierShape
  <2> QED
    BY <2>2, <2>3 DEF MembersOK, AwaitingOK
<1>3. CASE Away(room, next)
  <2>1. PICK c \in room.registered :
          next = [room EXCEPT !.registered = @ \ {c}, !.deadline[c] = Grace]
    BY <1>3 DEF Away
  <2>2. /\ next.mode = room.mode /\ next.members = room.members
        /\ next.registered = room.registered \ {c}
        /\ next.deadline = [room.deadline EXCEPT ![c] = Grace]
        /\ next.upgrade = room.upgrade /\ next.pending_join = room.pending_join
        /\ next.pending_leave = room.pending_leave /\ next.assigned = room.assigned
    BY <2>1 DEF Room
  <2>3. next.mode # "Absent" /\ c \in room.members
    BY <2>1, <2>2 DEF MembersOK, AbsentRoom
  <2> QED
    BY <1>0, <2>1, <2>2, <2>3 DEF MembersOK, AwaitingOK
<1>4. CASE GraceAgain(room, next)
  <2>1. PICK c \in room.members :
          room.deadline[c] = 0 /\ next = [room EXCEPT !.deadline[c] = Grace]
    BY <1>4 DEF GraceAgain
  <2>2. /\ next.mode = room.mode /\ next.members = room.members
        /\ next.registered = room.registered
        /\ next.deadline = [room.deadline EXCEPT ![c] = Grace]
        /\ next.upgrade = room.upgrade /\ next.pending_join = room.pending_join
        /\ next.pending_leave = room.pending_leave /\ next.assigned = room.assigned
        /\ room.mode = "Sfu"
    BY <1>4, <2>1 DEF Room, GraceAgain
  <2>3. room.deadline[c] # None
    BY <2>1 DEF None
  <2> QED
    BY <1>0, <2>1, <2>2, <2>3 DEF MembersOK, AwaitingOK
<1>5. CASE FrameQueued(room, next)
  <2>0. PICK c \in Clients :
          \E q : next = [room EXCEPT !.queued = [@ EXCEPT ![c] = q]]
    BY <1>0, <1>5 DEF FrameQueued
  <2>1. PICK q : next = [room EXCEPT !.queued = [@ EXCEPT ![c] = q]]
    BY <2>0
  <2>2. /\ next.mode = room.mode /\ next.members = room.members
        /\ next.registered = room.registered /\ next.deadline = room.deadline
        /\ next.upgrade = room.upgrade /\ next.pending_join = room.pending_join
        /\ next.pending_leave = room.pending_leave /\ next.assigned = room.assigned
        /\ room.mode # "Absent"
    BY <1>5, <2>1 DEF Room, FrameQueued
  <2> QED
    BY <2>2 DEF MembersOK, AwaitingOK
<1> QED
  BY <1>1, <1>2, <1>3, <1>4, <1>5

\* Members going, at once or with a worker's answer, keep it.
LEMMA DropMembersSteps ==
  ASSUME NEW room \in Room, RoomOK(room), MembersOK(room), NEW next,
         \/ DroppedNow(room, next) \/ LeftEmpty(room, next) \/ GivenUp(room, next)
         \/ JoinRefused(room, next) \/ MemberLeft(room, next) \/ WorkerLost(room, next)
  PROVE  MembersOK(next)
<1>1. CASE DroppedNow(room, next)
  <2>1. PICK S : next = ReapIfEmpty(promote_survivor(DropMembers(room, S)))
    BY <1>1 DEF DroppedNow
  <2> DEFINE rest == DropMembers(room, S)
             kept == promote_survivor(rest)
  <2>2. rest \in Room
    BY DropMembersType
  <2>3. /\ kept.mode = rest.mode /\ kept.members = rest.members
        /\ kept.registered = rest.registered /\ kept.deadline = rest.deadline
        /\ kept.upgrade = rest.upgrade /\ kept.pending_join = rest.pending_join
        /\ kept.pending_leave = rest.pending_leave /\ kept.assigned = rest.assigned
    <3> HIDE DEF rest
    <3> QED
      BY <2>2 DEF promote_survivor, Room
  <2>4. room.mode # "Absent"
    BY <1>1 DEF DroppedNow
  <2> HIDE DEF kept
  <2>5. MembersOK(kept)
    BY <2>3, <2>4, DropMembersOK DEF MembersOK, AwaitingOK
  <2>6. next = ReapIfEmpty(kept)
    BY <2>1 DEF kept
  <2> QED
    BY <2>5, <2>6, AbsentMembersOK DEF ReapIfEmpty
<1>2. CASE LeftEmpty(room, next)
  BY <1>2, AbsentMembersOK DEF LeftEmpty, ReapIfEmpty
<1>3. CASE GivenUp(room, next)
  <2> DEFINE rest == DropMembers(room, {room.upgrade.joining})
  <2>1. rest \in Room
    BY DropMembersType
  <2>2. /\ next.mode = "P2p" /\ next.members = rest.members
        /\ next.registered = rest.registered /\ next.deadline = rest.deadline
        /\ next.upgrade = NoUpgrade /\ next.pending_join = rest.pending_join
        /\ next.pending_leave = rest.pending_leave /\ next.assigned = None
    <3>1. next = [rest EXCEPT !.mode = "P2p", !.upgrade = NoUpgrade, !.assigned = None]
      BY <1>3 DEF GivenUp, Aborted
    <3> HIDE DEF rest
    <3> QED
      BY <2>1, <3>1 DEF Room
  <2>3. room.upgrade # NoUpgrade
    BY <1>3 DEF GivenUp
  <2>4. room.registered \subseteq Clients /\ NoUpgrade.joining = None /\ None \notin Clients
    BY IdsAssumption DEF Room, NoUpgrade, None
  <2>5. rest.registered \subseteq Clients /\ rest.registered \subseteq rest.members
    <3>1. rest.registered \subseteq rest.members
      BY DropMembersOK
    <3> HIDE DEF rest
    <3> QED
      BY <2>1, <3>1 DEF Room
  <2>6. room.pending_join = None /\ room.pending_leave = NoLeave
    BY <2>3 DEF MembersOK, AwaitingOK
  <2> HIDE DEF rest
  <2>7. \A c \in Clients : rest.deadline[c] # None => c \in rest.members \ rest.registered
    BY DropMembersOK DEF rest
  <2>8. rest.pending_join = None /\ rest.pending_leave = NoLeave
    BY <2>6, DropMembersOK DEF rest
  <2> QED
    BY <2>2, <2>4, <2>5, <2>7, <2>8 DEF MembersOK, AwaitingOK
<1>4. CASE JoinRefused(room, next)
  <2> DEFINE rest == DropMembers(room, {room.pending_join})
  <2>1. rest \in Room
    BY DropMembersType
  <2>2. /\ next.mode = rest.mode /\ next.members = rest.members
        /\ next.registered = rest.registered /\ next.deadline = rest.deadline
        /\ next.upgrade = rest.upgrade /\ next.pending_join = None
        /\ next.pending_leave = rest.pending_leave /\ next.assigned = rest.assigned
    <3>1. next = [rest EXCEPT !.pending_join = None]
      BY <1>4 DEF JoinRefused
    <3> HIDE DEF rest
    <3> QED
      BY <2>1, <3>1 DEF Room
  <2>3. rest.registered \subseteq Clients /\ None \notin Clients
    <3> HIDE DEF rest
    <3> QED
      BY <2>1, IdsAssumption DEF Room, None
  <2>4. room.mode \in {"Sfu", "Failed"}
    <3>1. room.pending_join # None
      BY <1>4 DEF JoinRefused
    <3> QED
      BY <3>1 DEF MembersOK, AwaitingOK, Room, Modes
  <2> HIDE DEF rest
  <2>5. /\ rest.registered \subseteq rest.members \ {room.upgrade.joining, room.pending_join}
        /\ \A c \in Clients : rest.deadline[c] # None => c \in rest.members \ rest.registered
        /\ rest.mode = room.mode /\ rest.upgrade = room.upgrade
        /\ rest.pending_leave = room.pending_leave /\ rest.assigned = room.assigned
    BY DropMembersOK DEF rest
  <2> QED
    BY <2>2, <2>3, <2>4, <2>5 DEF MembersOK, AwaitingOK
<1>5. CASE MemberLeft(room, next)
  <2>1. PICK c : next = ReapIfEmpty(arm_downgrade(
                   [DropMembers(room, {c}) EXCEPT !.pending_leave = NoLeave]))
    BY <1>5 DEF MemberLeft
  <2> DEFINE rest == DropMembers(room, {c})
             left == [rest EXCEPT !.pending_leave = NoLeave]
             kept == arm_downgrade(left)
  <2>2. rest \in Room
    BY DropMembersType
  <2>3. left \in Room
    <3> HIDE DEF rest
    <3> QED
      BY <2>2, ConstantTypes DEF Room
  <2>4. /\ left.mode = rest.mode /\ left.members = rest.members
        /\ left.registered = rest.registered /\ left.deadline = rest.deadline
        /\ left.upgrade = rest.upgrade /\ left.pending_join = rest.pending_join
        /\ left.pending_leave = NoLeave /\ left.assigned = rest.assigned
    <3> HIDE DEF rest
    <3> QED
      BY <2>2 DEF Room
  <2> HIDE DEF left
  <2>5. /\ kept.mode = left.mode /\ kept.members = left.members
        /\ kept.registered = left.registered /\ kept.deadline = left.deadline
        /\ kept.upgrade = left.upgrade /\ kept.pending_join = left.pending_join
        /\ kept.pending_leave = left.pending_leave /\ kept.assigned = left.assigned
    BY <2>3 DEF arm_downgrade, Room
  <2>6. room.mode \in {"Sfu", "Failed"}
    <3>1. room.pending_leave # NoLeave
      BY <1>5 DEF MemberLeft
    <3> QED
      BY <3>1 DEF MembersOK, AwaitingOK, Room, Modes
  <2> HIDE DEF kept
  <2>7. MembersOK(kept)
    BY <2>4, <2>5, <2>6, DropMembersOK DEF MembersOK, AwaitingOK
  <2>8. next = ReapIfEmpty(kept)
    BY <2>1 DEF kept, left
  <2> QED
    BY <2>7, <2>8, AbsentMembersOK DEF ReapIfEmpty
<1>6. CASE WorkerLost(room, next)
  <2> DEFINE rest == DropMembers(room, {room.pending_join})
  <2>1. rest \in Room
    BY DropMembersType
  <2>2. /\ next.mode = "Failed" /\ next.members = rest.members
        /\ next.registered = rest.registered /\ next.deadline = rest.deadline
        /\ next.upgrade = rest.upgrade /\ next.pending_join = None
        /\ next.pending_leave = NoLeave /\ next.assigned = rest.assigned
    <3>1. next = [rest EXCEPT !.mode = "Failed", !.pending_join = None,
                              !.pending_leave = NoLeave]
      BY <1>6 DEF WorkerLost, Expired
    <3> HIDE DEF rest
    <3> QED
      BY <2>1, <3>1 DEF Room
  <2>3. rest.registered \subseteq Clients /\ None \notin Clients
    <3> HIDE DEF rest
    <3> QED
      BY <2>1, IdsAssumption DEF Room, None
  <2> HIDE DEF rest
  <2>4. /\ rest.registered \subseteq rest.members \ {room.upgrade.joining, room.pending_join}
        /\ \A c \in Clients : rest.deadline[c] # None => c \in rest.members \ rest.registered
        /\ rest.upgrade = room.upgrade /\ rest.assigned = room.assigned
    BY DropMembersOK DEF rest
  <2> QED
    BY <2>2, <2>3, <2>4 DEF MembersOK, AwaitingOK
<1> QED
  BY <1>1, <1>2, <1>3, <1>4, <1>5, <1>6

\* The barrier's steps, the other answers, time and a failure keep it.
LEMMA OtherMembers ==
  ASSUME NEW room \in Room, RoomOK(room), MembersOK(room), NEW next,
         \/ BarrierStepped(room, next) \/ Committed(room, next)
         \/ JoinEntered(room, next) \/ LeaveRefused(room, next)
         \/ Aged(room, next) \/ Downgraded(room, next) \/ DwellStopped(room, next)
         \/ Failing(room, next)
  PROVE  MembersOK(next)
<1>0. /\ room.deadline \in [Clients -> Nat \cup {None}] /\ None \notin Clients
      /\ room.registered \subseteq Clients /\ room.mode \in Modes /\ room.upgrade \in Upgrade
  BY IdsAssumption DEF Room, None
<1>1. CASE BarrierStepped(room, next)
  <2>1. PICK c \in Clients, todo \in SUBSET Clients :
          next = [room EXCEPT !.upgrade =
                    [room.upgrade EXCEPT !.todo = todo,
                                         !.joined = Append(room.upgrade.joined, c)]]
    BY <1>1 DEF BarrierStepped
  <2>2. /\ next.mode = room.mode /\ next.members = room.members
        /\ next.registered = room.registered /\ next.deadline = room.deadline
        /\ next.upgrade.joining = room.upgrade.joining
        /\ next.pending_join = room.pending_join
        /\ next.pending_leave = room.pending_leave /\ next.assigned = room.assigned
    BY <1>0, <2>1 DEF Room, Upgrade
  <2>3. room.upgrade # NoUpgrade
    BY <1>1 DEF BarrierStepped
  <2>4. room.mode # "Absent"
    BY <2>3 DEF MembersOK, AbsentRoom
  <2> QED
    BY <2>2, <2>3, <2>4 DEF MembersOK, AwaitingOK
<1>2. CASE Committed(room, next)
  <2>1. /\ next.mode = "Sfu" /\ next.members = room.members
        /\ next.registered = room.registered /\ next.deadline = room.deadline
        /\ next.upgrade = NoUpgrade /\ next.pending_join = room.pending_join
        /\ next.pending_leave = room.pending_leave /\ next.assigned = room.assigned
        /\ room.upgrade # NoUpgrade /\ NoUpgrade.joining = None
    BY <1>2 DEF Committed, commit_upgrade, Room, NoUpgrade
  <2> QED
    BY <1>0, <2>1 DEF MembersOK, AwaitingOK
<1>3. CASE JoinEntered(room, next)
  <2>1. /\ next.mode = room.mode /\ next.members = room.members
        /\ next.registered = room.registered /\ next.deadline = room.deadline
        /\ next.upgrade = room.upgrade /\ next.pending_join = None
        /\ next.pending_leave = room.pending_leave /\ next.assigned = room.assigned
        /\ room.pending_join # None
    BY <1>3 DEF JoinEntered, Room
  <2>2. room.mode # "Absent"
    BY <2>1 DEF MembersOK, AwaitingOK
  <2> QED
    BY <1>0, <2>1, <2>2 DEF MembersOK, AwaitingOK
<1>4. CASE LeaveRefused(room, next)
  <2>1. /\ next.mode = room.mode /\ next.members = room.members
        /\ next.registered = room.registered /\ next.deadline = room.deadline
        /\ next.upgrade = room.upgrade /\ next.pending_join = room.pending_join
        /\ next.pending_leave = NoLeave /\ next.assigned = room.assigned
        /\ room.pending_leave # NoLeave
    BY <1>4 DEF LeaveRefused, Room
  <2>2. room.mode # "Absent"
    BY <2>1 DEF MembersOK, AwaitingOK
  <2> QED
    BY <1>0, <2>1, <2>2 DEF MembersOK, AwaitingOK
<1>5. CASE Aged(room, next)
  <2>1. /\ next.mode = room.mode /\ next.members = room.members
        /\ next.registered = room.registered
        /\ next.deadline = [c \in Clients |-> Elapsed(room.deadline[c])]
        /\ next.upgrade = room.upgrade /\ next.pending_join = room.pending_join
        /\ next.pending_leave = room.pending_leave /\ next.assigned = room.assigned
    BY <1>5 DEF Aged, Room
  <2>2. \A t : Elapsed(t) # None => t # None
    BY DEF Elapsed, None
  <2>3. room.mode = "Absent" => next = AbsentRoom
    <3> SUFFICES ASSUME room = AbsentRoom PROVE next = AbsentRoom
      BY DEF MembersOK
    <3>1. Elapsed(None) = None
      BY DEF Elapsed, None
    <3>2. [c \in Clients |-> Elapsed(AbsentRoom.deadline[c])] = AbsentRoom.deadline
      BY <3>1 DEF AbsentRoom
    <3>3. AbsentRoom.downgrade_deadline = None
      BY DEF AbsentRoom
    <3>4. next = [AbsentRoom EXCEPT !.downgrade_deadline = AbsentRoom.downgrade_deadline,
                                    !.deadline = AbsentRoom.deadline]
      BY <1>5, <3>1, <3>2, <3>3 DEF Aged
    <3> QED
      BY <3>4, ConstantTypes DEF Room
  <2> QED
    BY <2>1, <2>2, <2>3 DEF MembersOK, AwaitingOK
<1>6. CASE Downgraded(room, next)
  <2>1. /\ next.mode = "P2p" /\ next.members = room.members
        /\ next.registered = room.registered /\ next.deadline = room.deadline
        /\ next.upgrade = room.upgrade /\ next.pending_join = room.pending_join
        /\ next.pending_leave = room.pending_leave /\ next.assigned = None
    BY <1>6 DEF Downgraded, commit_downgrade, Room
  <2>2. /\ room.upgrade = NoUpgrade /\ room.pending_join = None
        /\ room.pending_leave = NoLeave
    BY <1>6 DEF Downgraded, is_downgrade_eligible
  <2> QED
    BY <2>1, <2>2 DEF MembersOK, AwaitingOK
<1>7. CASE DwellStopped(room, next)
  <2>1. /\ next.mode = room.mode /\ next.members = room.members
        /\ next.registered = room.registered /\ next.deadline = room.deadline
        /\ next.upgrade = room.upgrade /\ next.pending_join = room.pending_join
        /\ next.pending_leave = room.pending_leave /\ next.assigned = room.assigned
        /\ room.downgrade_deadline # None
    BY <1>7 DEF DwellStopped, Room, None
  <2>2. room.mode # "Absent"
    BY <2>1 DEF MembersOK, AbsentRoom
  <2> QED
    BY <2>1, <2>2 DEF MembersOK, AwaitingOK
<1>8. CASE Failing(room, next)
  <2>1. /\ next.mode = "Failed" /\ next.members = room.members
        /\ next.registered = room.registered /\ next.deadline = room.deadline
        /\ next.upgrade = room.upgrade /\ next.pending_join = room.pending_join
        /\ next.pending_leave = room.pending_leave /\ next.assigned = room.assigned
    BY <1>8 DEF Failing, Room
  <2> QED
    BY <2>1 DEF MembersOK, AwaitingOK
<1> QED
  BY <1>1, <1>2, <1>3, <1>4, <1>5, <1>6, <1>7, <1>8

\* Every step of a room keeps MembersOK.
LEMMA MembersStep ==
  ASSUME NEW room \in Room, RoomOK(room), MembersOK(room), NEW next,
         SoundStep(room, next) \/ Failing(room, next)
  PROVE  MembersOK(next)
BY AbsentMembersOK, AdmitMembers, MemberMembers, DropMembersSteps, OtherMembers
DEF SoundStep, AdmitStep, OtherStep

\* It holds at the start and is kept by the table.
LEMMA MembersInductive ==
  /\ Init => AllMembersOK
  /\ TypeOK /\ RoomsOK /\ AllMembersOK /\ [Next]_vars => AllMembersOK'
<1>1. Init => AllMembersOK
  BY AbsentMembersOK DEF Init, AllMembersOK
<1>2. ASSUME TypeOK, RoomsOK, AllMembersOK, [Next]_vars
      PROVE  AllMembersOK'
  <2>1. RoomSteps
    BY <1>2, RoomStepsAlways
  <2> SUFFICES ASSUME NEW r \in Rooms PROVE MembersOK(rooms'[r])
    BY DEF AllMembersOK
  <2>2. rooms[r] \in Room /\ RoomOK(rooms[r]) /\ MembersOK(rooms[r])
    BY <1>2 DEF TypeOK, RoomsOK, AllMembersOK
  <2>3. SoundStep(rooms[r], rooms'[r]) \/ Failing(rooms[r], rooms'[r])
    BY <2>1 DEF RoomSteps, RoomStep
  <2> QED
    BY <2>2, <2>3, MembersStep
<1> QED
  BY <1>1, <1>2

\* A registered member has been answered, a deadline is that of a member who
\* is away, and nothing is awaited of a worker outside of SFU.
THEOREM MembersSafe == Spec => []AllMembersOK
<1>1. Spec => []TypeOK
  BY TypeCorrect
<1>2. Spec => []RoomsOK
  BY RoomsSafe
<1> QED
  BY <1>1, <1>2, MembersInductive, PTL DEF Spec

\* The driver's timer is due exactly when the sweep of handle_timeout has a
\* deadline to act on.
THEOREM PollIsExact == Spec => []PollExact
<1>1. TypeOK /\ AllMembersOK => PollExact
  <2> SUFFICES ASSUME TypeOK, AllMembersOK PROVE PollExact
    OBVIOUS
  <2>1. ASSUME NEW r \in Rooms
        PROVE  SweepHasWork(r) <=>
                 \/ rooms[r].downgrade_deadline = 0
                 \/ /\ \/ rooms[r].mode = "P2p"
                       \/ rooms[r].mode = "Sfu" /\ rooms[r].pending_leave = NoLeave
                    /\ \E c \in Clients : rooms[r].deadline[c] = 0
    <3>1. rooms[r].members \subseteq Clients
      BY DEF TypeOK, Room
    <3>2. \A c \in Clients : rooms[r].deadline[c] = 0 => c \in rooms[r].members
      BY DEF AllMembersOK, MembersOK, None
    <3>3. ExpiredMembers(rooms[r]) # {} <=> \E c \in Clients : rooms[r].deadline[c] = 0
      BY <3>1, <3>2 DEF ExpiredMembers
    <3> QED
      BY <3>3 DEF SweepHasWork, AwaitsLeave
  <2> QED
    BY <2>1 DEF PollExact, PollDue
<1> QED
  BY <1>1, TypeCorrect, MembersSafe, PTL

-----------------------------------------------------------------------------
(***************************************************************************)
(* Who offers and whose frames wait.                                       *)
(***************************************************************************)

PartsOK(room) == RolesOK(room) /\ QueuesOK(room)

\* Two members are all the members of a P2P room.
LEMMA TwoAreAll ==
  ASSUME NEW S, S \subseteq Clients, Cardinality(S) <= MAX_P2P_MEMBERS,
         NEW c \in S, NEW d \in S, c # d
  PROVE  S \subseteq {c, d}
<1> SUFFICES ASSUME NEW x \in S, x \notin {c, d} PROVE FALSE
  OBVIOUS
<1>1. IsFiniteSet(S)
  BY FS_Subset, IdsAssumption
<1>2. IsFiniteSet({c}) /\ Cardinality({c}) = 1
  BY FS_Singleton
<1>a. \A T, e : IsFiniteSet(T) /\ e \notin T =>
        IsFiniteSet(T \cup {e}) /\ Cardinality(T \cup {e}) = Cardinality(T) + 1
  BY FS_AddElement
<1>3. IsFiniteSet({c} \cup {d}) /\ Cardinality({c} \cup {d}) = 2
  <2>1. d \notin {c}
    OBVIOUS
  <2> QED
    BY <1>2, <1>a, <2>1
<1>4. Cardinality(({c} \cup {d}) \cup {x}) = 3
  <2>1. x \notin {c} \cup {d}
    OBVIOUS
  <2> QED
    BY <1>3, <1>a, <2>1
<1>5. ({c} \cup {d}) \cup {x} \in SUBSET S
  OBVIOUS
<1>6. 3 <= Cardinality(S)
  BY <1>1, <1>4, <1>5, FS_Subset
<1> QED
  BY <1>1, <1>6, FS_CardinalityType DEF MAX_P2P_MEMBERS

\* Who stays when somebody leaves a P2P room is alone.
LEMMA LoneSurvivor ==
  ASSUME NEW S, S \subseteq Clients, Cardinality(S) <= MAX_P2P_MEMBERS,
         NEW T, T \subseteq S, T # {}, S \ T # {}
  PROVE  Cardinality(S \ T) = 1
<1>1. PICK x \in T : TRUE
  OBVIOUS
<1>2. IsFiniteSet(S)
  BY FS_Subset, IdsAssumption
<1>3. IsFiniteSet(S \ {x}) /\ Cardinality(S \ {x}) = Cardinality(S) - 1
  BY <1>1, <1>2, FS_RemoveElement
<1>4. S \ T \in SUBSET (S \ {x})
  BY <1>1
<1>5. IsFiniteSet(S \ T) /\ Cardinality(S \ T) <= Cardinality(S \ {x})
  BY <1>3, <1>4, FS_Subset
<1>6. Cardinality(S \ T) # 0
  BY <1>5, FS_EmptySet
<1> QED
  BY <1>2, <1>3, <1>5, <1>6, FS_CardinalityType DEF MAX_P2P_MEMBERS

\* No barrier is open in a P2P or an SFU room, and no client has no name.
LEMMA NoBarrier ==
  ASSUME NEW room \in Room, RoomOK(room), room.mode \in {"P2p", "Sfu"}
  PROVE  room.upgrade = NoUpgrade /\ room.upgrade.joining = None /\ None \notin room.members
BY IdsAssumption DEF RoomOK, BarrierShape, NoUpgrade, None, Room

\* A step that leaves the members, the offerer and the queues alone.
LEMMA SameParts ==
  ASSUME NEW room \in Room, PartsOK(room), NEW next,
         next.mode = room.mode, next.members = room.members,
         next.initiators = room.initiators, next.queued = room.queued,
         next.signal_epoch = room.signal_epoch,
         next.registered \subseteq room.registered,
         next.upgrade.joining = room.upgrade.joining,
         room.mode = "Failed" =>
           next.upgrade = NoUpgrade /\ next.pending_join = None /\ next.pending_leave = NoLeave
  PROVE  PartsOK(next)
BY DEF PartsOK, RolesOK, QueuesOK

\* An unknown room, and one that became SFU or failed, waits for nothing.
LEMMA AbsentParts == PartsOK(AbsentRoom)
BY DEF PartsOK, RolesOK, QueuesOK, AbsentRoom

\* admit keeps the offerer; the first client of a room offers.
LEMMA AdmitParts ==
  ASSUME NEW room \in Room, RoomOK(room), MembersOK(room), PartsOK(room), NEW next,
         \/ Founded(room, next) \/ JoinedP2p(room, next)
         \/ UpgradeStarted(room, next) \/ JoinedSfu(room, next)
  PROVE  PartsOK(next)
<1>0. \A c \in Clients : AddMember(room, c) \in Room /\ c # None
  BY AddMemberType, IdsAssumption DEF None
<1>1. CASE Founded(room, next)
  <2>1. PICK c \in Clients :
          next = [AddMember(AbsentRoom, c) EXCEPT !.mode = "P2p", !.initiators = {c}]
    BY <1>1 DEF Founded
  <2>2. AddMember(AbsentRoom, c) \in Room
    BY ConstantTypes, AddMemberType
  <2>3. /\ next.mode = "P2p" /\ next.members = {c} /\ next.initiators = {c}
        /\ next.queued = NoQueues /\ next.upgrade.joining = None
    BY <2>1, <2>2 DEF AddMember, AbsentRoom, NoUpgrade, Room
  <2> QED
    BY <1>0, <2>3 DEF PartsOK, RolesOK, QueuesOK, NoQueues
<1>2. CASE JoinedP2p(room, next)
  <2>1. PICK c \in Clients \ room.members : next = AddMember(room, c)
    BY <1>2 DEF JoinedP2p
  <2>2. /\ next.mode = room.mode /\ next.members = room.members \cup {c}
        /\ next.initiators = room.initiators /\ next.registered = room.registered
        /\ next.queued = room.queued /\ next.signal_epoch = room.signal_epoch
        /\ next.upgrade = room.upgrade /\ room.mode = "P2p"
    BY <1>2, <2>1 DEF AddMember, Room, JoinedP2p
  <2> QED
    BY <2>1, <2>2 DEF PartsOK, RolesOK, QueuesOK
<1>3. CASE UpgradeStarted(room, next)
  <2>1. PICK c \in Clients \ room.members, w \in Workers :
          next = [AddMember(room, c) EXCEPT
                    !.mode = "Upgrading",
                    !.assignment_epoch = room.assignment_epoch + 1,
                    !.assigned = w,
                    !.upgrade = [joining |-> c, todo |-> room.members \cup {c},
                                 joined |-> <<>>]]
    BY <1>3 DEF UpgradeStarted
  <2>2. /\ next.mode = "Upgrading" /\ next.members = room.members \cup {c}
        /\ next.initiators = room.initiators /\ next.registered = room.registered
        /\ next.queued = room.queued /\ next.signal_epoch = room.signal_epoch
        /\ next.upgrade.joining = c /\ room.mode = "P2p"
    BY <1>0, <1>3, <2>1 DEF AddMember, Room, UpgradeStarted
  <2>3. next.members \ {c} = room.members \ {room.upgrade.joining}
    BY <2>1, <2>2, NoBarrier
  <2> QED
    BY <2>1, <2>2, <2>3 DEF PartsOK, RolesOK, QueuesOK
<1>4. CASE JoinedSfu(room, next)
  <2>1. PICK c \in Clients \ room.members :
          next = [AddMember(room, c) EXCEPT !.pending_join = c, !.downgrade_deadline = None]
    BY <1>4 DEF JoinedSfu
  <2>2. next.mode = "Sfu" /\ next.initiators = room.initiators /\ room.mode = "Sfu"
    BY <1>0, <1>4, <2>1 DEF AddMember, Room, JoinedSfu
  <2> QED
    BY <2>2 DEF PartsOK, RolesOK, QueuesOK
<1> QED
  BY <1>1, <1>2, <1>3, <1>4

\* register hands a member what waits for it and clears the other queue.
LEMMA RegisterParts ==
  ASSUME NEW room \in Room, RoomOK(room), MembersOK(room), PartsOK(room), NEW next,
         Registered(room, next)
  PROVE  PartsOK(next)
<1>1. PICK c \in room.members :
        next = [room EXCEPT
                  !.registered = @ \cup {c},
                  !.deadline[c] = None,
                  !.queued = IF room.mode = "P2p"
                               THEN [NoQueues EXCEPT ![c] = room.queued[c]] ELSE @]
  BY DEF Registered
<1>2. /\ next.mode = room.mode /\ next.members = room.members
      /\ next.initiators = room.initiators
      /\ next.registered = room.registered \cup {c}
      /\ room.mode = "P2p" => next.queued = [NoQueues EXCEPT ![c] = room.queued[c]]
      /\ next.signal_epoch = room.signal_epoch /\ next.upgrade = room.upgrade
      /\ next.pending_join = room.pending_join /\ next.pending_leave = room.pending_leave
      /\ room.mode # "Upgrading"
  BY <1>1 DEF Room, Registered
<1>3. RolesOK(next)
  BY <1>2 DEF PartsOK, RolesOK
<1>4. QueuesOK(next)
  <2> SUFFICES ASSUME room.mode = "P2p", NEW d \in Clients, next.queued[d] # <<>>
               PROVE  /\ next.registered \subseteq {d}
                      /\ \A i \in DOMAIN next.queued[d] :
                           /\ next.queued[d][i].epoch = room.signal_epoch
                           /\ next.queued[d][i].peer \in
                                {None} \cup (room.members \ {room.upgrade.joining})
    BY <1>2 DEF QueuesOK
  <2>1. d = c
    BY <1>2 DEF NoQueues
  <2>2. next.queued[d] = room.queued[d]
    BY <1>2, <2>1 DEF NoQueues
  <2>3. room.registered \subseteq {c}
    BY <2>1, <2>2 DEF PartsOK, QueuesOK
  <2> QED
    BY <1>2, <2>1, <2>2, <2>3 DEF PartsOK, QueuesOK
<1> QED
  BY <1>3, <1>4 DEF PartsOK

\* A frame is queued for a peer that is away.
LEMMA QueueParts ==
  ASSUME NEW room \in Room, RoomOK(room), MembersOK(room), PartsOK(room), NEW next,
         FrameQueued(room, next)
  PROVE  PartsOK(next)
<1>0. room.members \subseteq Clients /\ room.queued \in [Clients -> Seq(Frame)]
  BY DEF Room
<1>1. PICK c \in room.members :
        \E peer \in IF room.members \ {c} = {} THEN {None}
                    ELSE (room.members \ {c}) \ room.registered :
          next = [room EXCEPT !.queued[c] =
                    Append(@, [epoch |-> room.signal_epoch, peer |-> peer])]
  BY DEF FrameQueued
<1>a. PICK peer \in IF room.members \ {c} = {} THEN {None}
                    ELSE (room.members \ {c}) \ room.registered :
        next = [room EXCEPT !.queued[c] =
                  Append(@, [epoch |-> room.signal_epoch, peer |-> peer])]
  BY <1>1
<1> DEFINE f == [epoch |-> room.signal_epoch, peer |-> peer]
           q == Append(room.queued[c], f)
<1>2. /\ next.mode = room.mode /\ next.members = room.members
      /\ next.initiators = room.initiators /\ next.registered = room.registered
      /\ next.queued = [room.queued EXCEPT ![c] = q]
      /\ next.signal_epoch = room.signal_epoch /\ next.upgrade = room.upgrade
      /\ next.pending_join = room.pending_join /\ next.pending_leave = room.pending_leave
      /\ room.mode \in {"P2p", "Failed"}
  BY <1>a DEF Room, FrameQueued
<1>3. RolesOK(next)
  BY <1>2 DEF PartsOK, RolesOK
<1>4. ASSUME room.mode = "P2p"
      PROVE  room.registered \subseteq {c} /\ f.peer \in {None} \cup room.members
  <2>1. room.registered \subseteq room.members
    BY DEF MembersOK
  <2>2. CASE room.members \ {c} = {}
    BY <2>1, <2>2
  <2>3. CASE room.members \ {c} # {}
    <3>1. peer \in room.members /\ peer # c /\ peer \notin room.registered
      BY <2>3
    <3>2. Cardinality(room.members) <= MAX_P2P_MEMBERS
      BY <1>4 DEF RoomOK, P2pSmall
    <3>3. room.members \subseteq {c, peer}
      BY <1>0, <3>1, <3>2, TwoAreAll
    <3> QED
      BY <2>1, <3>1, <3>3
  <2> QED
    BY <2>2, <2>3
<1>5. QueuesOK(next)
  <2> SUFFICES ASSUME room.mode = "P2p", NEW d \in Clients, next.queued[d] # <<>>
               PROVE  /\ room.registered \subseteq {d}
                      /\ \A i \in DOMAIN next.queued[d] :
                           /\ next.queued[d][i].epoch = room.signal_epoch
                           /\ next.queued[d][i].peer \in
                                {None} \cup (room.members \ {room.upgrade.joining})
    BY <1>2 DEF QueuesOK
  <2>1. CASE d # c
    <3>1. next.queued[d] = room.queued[d]
      BY <1>0, <1>2, <2>1
    <3> QED
      BY <3>1 DEF PartsOK, QueuesOK
  <2>2. CASE d = c
    <3>1. next.queued[d] = q
      BY <1>0, <1>2, <2>2
    <3>2. room.queued[c] \in Seq(Frame) /\ f \in Frame
      <4>1. peer \in Clients \cup {None} /\ room.signal_epoch \in Nat
        BY <1>0, <1>a DEF Room
      <4> QED
        BY <1>0, <4>1 DEF Frame
    <3>3. \A i \in DOMAIN q : (i \in DOMAIN room.queued[c] /\ q[i] = room.queued[c][i])
                              \/ q[i] = f
      <4> HIDE DEF f
      <4> QED
        BY <3>2
    <3>4. \A i \in DOMAIN room.queued[c] :
            /\ room.queued[c][i].epoch = room.signal_epoch
            /\ room.queued[c][i].peer \in {None} \cup (room.members \ {room.upgrade.joining})
      <4>1. CASE room.queued[c] = <<>>
        BY <4>1
      <4>2. CASE room.queued[c] # <<>>
        BY <1>0, <4>2 DEF PartsOK, QueuesOK
      <4> QED
        BY <4>1, <4>2
    <3>5. /\ f.epoch = room.signal_epoch
          /\ f.peer \in {None} \cup (room.members \ {room.upgrade.joining})
      BY <1>4, NoBarrier
    <3> HIDE DEF f, q
    <3> QED
      BY <1>4, <2>2, <3>1, <3>3, <3>4, <3>5
  <2> QED
    BY <2>1, <2>2
<1> QED
  BY <1>3, <1>5 DEF PartsOK

\* Who stays alone in a P2P room offers, and nothing is queued for it.
LEMMA DropParts ==
  ASSUME NEW room \in Room, RoomOK(room), MembersOK(room), PartsOK(room), NEW next,
         DroppedNow(room, next)
  PROVE  PartsOK(next)
<1>1. PICK S \in SUBSET room.members :
        S # {} /\ next = ReapIfEmpty(promote_survivor(DropMembers(room, S)))
  BY DEF DroppedNow
<1> DEFINE rest == DropMembers(room, S)
           kept == promote_survivor(rest)
<1>2. /\ rest \in Room
      /\ rest.mode = room.mode /\ rest.members = room.members \ S
      /\ rest.initiators = room.initiators \ S /\ rest.upgrade = room.upgrade
      /\ rest.pending_join = room.pending_join /\ rest.pending_leave = room.pending_leave
  BY DropMembersType DEF DropMembers, Room
<1> HIDE DEF rest
<1>3. CASE room.members \ S = {}
  <2>1. kept.members = {}
    BY <1>2, <1>3 DEF promote_survivor, Room
  <2> QED
    BY <1>1, <2>1, AbsentParts DEF ReapIfEmpty, rest
<1>4. CASE room.members \ S # {} /\ room.mode = "P2p"
  <2>1. Cardinality(rest.members) = 1
    <3>1. room.members \subseteq Clients /\ Cardinality(room.members) <= MAX_P2P_MEMBERS
      BY <1>4 DEF RoomOK, P2pSmall, Room
    <3> QED
      BY <1>1, <1>2, <1>4, <3>1, LoneSurvivor
  <2>2. PICK c : rest.members = {c}
    <3>1. IsFiniteSet(rest.members)
      BY <1>2, FS_Subset, IdsAssumption DEF Room
    <3> QED
      BY <2>1, <3>1, FS_Singleton
  <2>3. /\ kept.mode = "P2p" /\ kept.members = {c} /\ kept.initiators = {c}
        /\ kept.queued = NoQueues /\ kept.upgrade = room.upgrade
    BY <1>2, <1>4, <2>1, <2>2 DEF promote_survivor, Room
  <2>4. room.upgrade.joining = None /\ c # None
    BY <1>2, <1>4, <2>2, NoBarrier
  <2>5. next = kept
    BY <1>1, <2>3 DEF ReapIfEmpty, rest
  <2> HIDE DEF kept
  <2> QED
    BY <2>3, <2>4, <2>5 DEF PartsOK, RolesOK, QueuesOK, NoQueues
<1>5. CASE room.members \ S # {} /\ room.mode # "P2p"
  <2>1. kept = rest
    BY <1>2, <1>5 DEF promote_survivor
  <2>2. next = rest /\ room.mode = "Failed"
    BY <1>1, <1>2, <1>5, <2>1 DEF ReapIfEmpty, rest, DroppedNow
  <2> QED
    BY <1>2, <2>2 DEF PartsOK, RolesOK, QueuesOK
<1> QED
  BY <1>3, <1>4, <1>5

\* The changes of mode: nobody offers in SFU; abort_upgrade keeps the offerer;
\* commit_downgrade picks one.
LEMMA ModeParts ==
  ASSUME NEW room \in Room, RoomOK(room), MembersOK(room), PartsOK(room), NEW next,
         \/ Committed(room, next) \/ GivenUp(room, next) \/ Downgraded(room, next)
         \/ WorkerLost(room, next)
  PROVE  PartsOK(next)
<1>1. CASE Committed(room, next)
  <2>1. next.mode = "Sfu" /\ next.initiators = {}
    BY <1>1 DEF Committed, commit_upgrade, Room
  <2> QED
    BY <2>1 DEF PartsOK, RolesOK, QueuesOK
<1>2. CASE GivenUp(room, next)
  <2> DEFINE c == room.upgrade.joining
             rest == DropMembers(room, {c})
  <2>1. room.mode = "Upgrading"
    BY <1>2 DEF GivenUp, RoomOK, BarrierShape, PartsOK, RolesOK
  <2>2. /\ rest \in Room
        /\ rest.members = room.members \ {c} /\ rest.initiators = room.initiators \ {c}
        /\ rest.registered \subseteq room.registered
        /\ rest.queued = Reset(room.queued, {c}, <<>>)
        /\ rest.signal_epoch = room.signal_epoch
    BY DropMembersType DEF DropMembers, Room
  <2> HIDE DEF rest
  <2>3. next = [rest EXCEPT !.mode = "P2p", !.upgrade = NoUpgrade, !.assigned = None]
    BY <1>2 DEF GivenUp, Aborted, rest
  <2>4. /\ next.mode = "P2p" /\ next.members = rest.members
        /\ next.initiators = rest.initiators /\ next.registered = rest.registered
        /\ next.queued = rest.queued /\ next.signal_epoch = rest.signal_epoch
        /\ next.upgrade = NoUpgrade
    BY <2>2, <2>3 DEF Room
  <2>5. next.members \ {next.upgrade.joining} = room.members \ {c}
    BY <2>2, <2>4, IdsAssumption DEF NoUpgrade, None, Room
  <2>6. \A d \in Clients : next.queued[d] # <<>> => next.queued[d] = room.queued[d]
    BY <2>2, <2>4 DEF Reset
  <2>7. QueuesOK(next)
    <3> SUFFICES ASSUME NEW d \in Clients, next.queued[d] # <<>>
                 PROVE  /\ next.registered \subseteq {d}
                        /\ \A i \in DOMAIN next.queued[d] :
                             /\ next.queued[d][i].epoch = next.signal_epoch
                             /\ next.queued[d][i].peer \in
                                  {None} \cup (room.members \ {c})
      BY <2>5 DEF QueuesOK
    <3>1. next.queued[d] = room.queued[d]
      BY <2>6
    <3>2. /\ room.registered \subseteq {d}
          /\ \A i \in DOMAIN room.queued[d] :
               /\ room.queued[d][i].epoch = room.signal_epoch
               /\ room.queued[d][i].peer \in {None} \cup (room.members \ {c})
      BY <2>1, <3>1 DEF PartsOK, QueuesOK
    <3>3. next.registered \subseteq {d} /\ next.signal_epoch = room.signal_epoch
      BY <2>2, <2>4, <3>2
    <3> QED
      BY <3>1, <3>2, <3>3
  <2>8. RolesOK(next)
    BY <2>1, <2>2, <2>4, <2>5 DEF PartsOK, RolesOK
  <2> QED
    BY <2>7, <2>8 DEF PartsOK
<1>3. CASE Downgraded(room, next)
  <2>1. /\ next.mode = "P2p" /\ next.members = room.members
        /\ next.initiators = {Min(room.members)} /\ next.queued = NoQueues
        /\ next.upgrade = room.upgrade
    BY <1>3 DEF Downgraded, commit_downgrade, Room
  <2>2. Min(room.members) \in room.members
    <3>1. room.members \subseteq Clients /\ room.members # {}
      BY <1>3 DEF Room, Downgraded, is_downgrade_eligible
    <3>2. room.members \subseteq Nat /\ IsFiniteSet(room.members)
      BY <3>1, FS_Subset, IdsAssumption
    <3> QED
      BY <3>1, <3>2, MinIsElement
  <2>3. room.upgrade.joining = None /\ None \notin room.members
    BY <1>3, NoBarrier DEF Downgraded, is_downgrade_eligible
  <2> QED
    BY <2>1, <2>2, <2>3 DEF PartsOK, RolesOK, QueuesOK, NoQueues
<1>4. CASE WorkerLost(room, next)
  <2> DEFINE rest == DropMembers(room, {room.pending_join})
  <2>1. /\ rest \in Room
        /\ rest.members = room.members \ {room.pending_join}
        /\ rest.initiators = room.initiators \ {room.pending_join}
        /\ rest.upgrade = room.upgrade
    BY DropMembersType DEF DropMembers, Room
  <2> HIDE DEF rest
  <2>2. next = [rest EXCEPT !.mode = "Failed", !.pending_join = None, !.pending_leave = NoLeave]
    BY <1>4 DEF WorkerLost, Expired, rest
  <2>3. /\ next.mode = "Failed" /\ next.members = rest.members
        /\ next.initiators = rest.initiators /\ next.upgrade = rest.upgrade
        /\ next.pending_join = None /\ next.pending_leave = NoLeave
    BY <2>1, <2>2 DEF Room
  <2>4. room.upgrade = NoUpgrade
    BY <1>4, NoBarrier DEF WorkerLost, PartsOK, RolesOK
  <2> QED
    BY <2>1, <2>3, <2>4 DEF PartsOK, RolesOK, QueuesOK
<1> QED
  BY <1>1, <1>2, <1>3, <1>4

\* Joins refused and leaves confirmed by the worker of an SFU room.
LEMMA SfuParts ==
  ASSUME NEW room \in Room, RoomOK(room), MembersOK(room), PartsOK(room), NEW next,
         JoinRefused(room, next) \/ MemberLeft(room, next)
  PROVE  PartsOK(next)
<1>1. room.mode = "Sfu" /\ room.initiators = {}
  <2>1. room.pending_join # None \/ room.pending_leave # NoLeave
    BY DEF JoinRefused, MemberLeft
  <2> QED
    BY <2>1 DEF MembersOK, AwaitingOK, PartsOK, RolesOK, Room, Modes
<1>2. CASE JoinRefused(room, next)
  <2> DEFINE rest == DropMembers(room, {room.pending_join})
  <2>1. rest \in Room /\ rest.mode = "Sfu" /\ rest.initiators = {}
    BY <1>1, DropMembersType DEF DropMembers, Room
  <2> HIDE DEF rest
  <2>2. next = [rest EXCEPT !.pending_join = None]
    BY <1>2 DEF JoinRefused, rest
  <2>3. next.mode = "Sfu" /\ next.initiators = {}
    BY <2>1, <2>2 DEF Room
  <2> QED
    BY <2>3 DEF PartsOK, RolesOK, QueuesOK
<1>3. CASE MemberLeft(room, next)
  <2>1. PICK c : next = ReapIfEmpty(arm_downgrade(
                   [DropMembers(room, {c}) EXCEPT !.pending_leave = NoLeave]))
    BY <1>3 DEF MemberLeft
  <2> DEFINE rest == DropMembers(room, {c})
             left == [rest EXCEPT !.pending_leave = NoLeave]
             kept == arm_downgrade(left)
  <2>2. rest \in Room /\ rest.mode = "Sfu" /\ rest.initiators = {}
    BY <1>1, DropMembersType DEF DropMembers, Room
  <2> HIDE DEF rest
  <2>3. left \in Room /\ left.mode = "Sfu" /\ left.initiators = {}
    BY <2>2, ConstantTypes DEF Room
  <2> HIDE DEF left
  <2>4. kept.mode = "Sfu" /\ kept.initiators = {}
    BY <2>3 DEF arm_downgrade, Room
  <2> HIDE DEF kept
  <2>5. PartsOK(kept)
    BY <2>4 DEF PartsOK, RolesOK, QueuesOK
  <2>6. next = ReapIfEmpty(kept)
    BY <2>1 DEF kept, left, rest
  <2> QED
    BY <2>5, <2>6, AbsentParts DEF ReapIfEmpty
<1> QED
  BY <1>2, <1>3

\* The steps that change no member, no offerer and no queue.
LEMMA QuietParts ==
  ASSUME NEW room \in Room, RoomOK(room), MembersOK(room), PartsOK(room), NEW next,
         \/ LeaveAsked(room, next) \/ Away(room, next) \/ GraceAgain(room, next)
         \/ BarrierStepped(room, next) \/ JoinEntered(room, next)
         \/ LeaveRefused(room, next) \/ Aged(room, next) \/ DwellStopped(room, next)
  PROVE  PartsOK(next)
<1>0. room.mode = "Failed" =>
        room.upgrade = NoUpgrade /\ room.pending_join = None /\ room.pending_leave = NoLeave
  BY DEF PartsOK, RolesOK
<1>1. CASE LeaveAsked(room, next)
  <2>1. PICK c, b :
          \/ next = [room EXCEPT !.pending_leave = [client |-> c, requested |-> b]]
          \/ next = [room EXCEPT !.registered = @ \ {c},
                                 !.pending_leave = [client |-> c, requested |-> b]]
    BY <1>1 DEF LeaveAsked
  <2> DEFINE Kept ==
        /\ next.mode = room.mode /\ next.members = room.members
        /\ next.initiators = room.initiators /\ next.queued = room.queued
        /\ next.signal_epoch = room.signal_epoch
        /\ next.registered \subseteq room.registered
        /\ next.upgrade = room.upgrade
  <2>2. Kept
    <3>1. ASSUME NEW leave, next = [room EXCEPT !.pending_leave = leave]
          PROVE  Kept
      BY <3>1 DEF Room
    <3>2. ASSUME NEW leave, next = [room EXCEPT !.registered = @ \ {c},
                                               !.pending_leave = leave]
          PROVE  Kept
      BY <3>2 DEF Room
    <3> QED
      BY <2>1, <3>1, <3>2
  <2>3. room.mode = "Sfu"
    BY <1>1 DEF LeaveAsked
  <2> QED
    BY <2>2, <2>3, SameParts
<1>2. CASE Away(room, next)
  <2>1. PICK c : next = [room EXCEPT !.registered = @ \ {c}, !.deadline[c] = Grace]
    BY <1>2 DEF Away
  <2>2. /\ next.mode = room.mode /\ next.members = room.members
        /\ next.initiators = room.initiators /\ next.queued = room.queued
        /\ next.signal_epoch = room.signal_epoch
        /\ next.registered \subseteq room.registered
        /\ next.upgrade = room.upgrade /\ next.pending_join = room.pending_join
        /\ next.pending_leave = room.pending_leave
    BY <2>1 DEF Room
  <2> QED
    BY <1>0, <2>2, SameParts
<1>3. CASE GraceAgain(room, next)
  <2>1. PICK c : next = [room EXCEPT !.deadline[c] = Grace]
    BY <1>3 DEF GraceAgain
  <2>2. /\ next.mode = room.mode /\ next.members = room.members
        /\ next.initiators = room.initiators /\ next.queued = room.queued
        /\ next.signal_epoch = room.signal_epoch /\ next.registered = room.registered
        /\ next.upgrade = room.upgrade /\ room.mode = "Sfu"
    BY <1>3, <2>1 DEF GraceAgain, Room
  <2> QED
    BY <2>2, SameParts
<1>4. CASE BarrierStepped(room, next)
  <2>1. PICK c \in Clients, todo \in SUBSET Clients :
          next = [room EXCEPT !.upgrade =
                    [room.upgrade EXCEPT !.todo = todo,
                                         !.joined = Append(room.upgrade.joined, c)]]
    BY <1>4 DEF BarrierStepped
  <2>2. room.upgrade \in Upgrade /\ room.upgrade # NoUpgrade
    BY <1>4 DEF Room, BarrierStepped
  <2>3. /\ next.mode = room.mode /\ next.members = room.members
        /\ next.initiators = room.initiators /\ next.queued = room.queued
        /\ next.signal_epoch = room.signal_epoch /\ next.registered = room.registered
        /\ next.upgrade.joining = room.upgrade.joining
    BY <2>1, <2>2 DEF Room, Upgrade
  <2> QED
    BY <1>0, <2>2, <2>3, SameParts
<1>5. CASE JoinEntered(room, next)
  <2>1. /\ next.mode = room.mode /\ next.members = room.members
        /\ next.initiators = room.initiators /\ next.queued = room.queued
        /\ next.signal_epoch = room.signal_epoch /\ next.registered = room.registered
        /\ next.upgrade = room.upgrade /\ room.pending_join # None
    BY <1>5 DEF JoinEntered, Room
  <2> QED
    BY <1>0, <2>1, SameParts
<1>6. CASE LeaveRefused(room, next)
  <2>1. /\ next.mode = room.mode /\ next.members = room.members
        /\ next.initiators = room.initiators /\ next.queued = room.queued
        /\ next.signal_epoch = room.signal_epoch /\ next.registered = room.registered
        /\ next.upgrade = room.upgrade /\ room.pending_leave # NoLeave
    BY <1>6 DEF LeaveRefused, Room
  <2> QED
    BY <1>0, <2>1, SameParts
<1>7. CASE Aged(room, next)
  <2>1. /\ next.mode = room.mode /\ next.members = room.members
        /\ next.initiators = room.initiators /\ next.queued = room.queued
        /\ next.signal_epoch = room.signal_epoch /\ next.registered = room.registered
        /\ next.upgrade = room.upgrade /\ next.pending_join = room.pending_join
        /\ next.pending_leave = room.pending_leave
    BY <1>7 DEF Aged, Room
  <2> QED
    BY <1>0, <2>1, SameParts
<1>8. CASE DwellStopped(room, next)
  <2>1. /\ next.mode = room.mode /\ next.members = room.members
        /\ next.initiators = room.initiators /\ next.queued = room.queued
        /\ next.signal_epoch = room.signal_epoch /\ next.registered = room.registered
        /\ next.upgrade = room.upgrade /\ next.pending_join = room.pending_join
        /\ next.pending_leave = room.pending_leave
    BY <1>8 DEF DwellStopped, Room
  <2> QED
    BY <1>0, <2>1, SameParts
<1> QED
  BY <1>1, <1>2, <1>3, <1>4, <1>5, <1>6, <1>7, <1>8

\* Every step of a room that no worker reports as failed.
LEMMA PartsStep ==
  ASSUME NEW room \in Room, RoomOK(room), MembersOK(room), PartsOK(room), NEW next,
         SoundStep(room, next)
  PROVE  PartsOK(next)
<1>1. CASE LeftEmpty(room, next)
  BY <1>1, AbsentParts DEF LeftEmpty, ReapIfEmpty
<1> QED
  BY <1>1, AbsentParts, AdmitParts, RegisterParts, QueueParts, DropParts, ModeParts,
     SfuParts, QuietParts DEF SoundStep, AdmitStep, OtherStep

\* It holds at the start and is kept by the table.
LEMMA RolesInductive ==
  /\ Init => AllRolesOK
  /\ TypeOK /\ RoomsOK /\ AllMembersOK /\ AllRolesOK /\ [Next]_vars => AllRolesOK'
<1>1. Init => AllRolesOK
  BY AbsentParts DEF Init, AllRolesOK, PartsOK
<1>2. ASSUME TypeOK, RoomsOK, AllMembersOK, AllRolesOK, [Next]_vars
      PROVE  AllRolesOK'
  <2>1. RoomSteps
    BY <1>2, RoomStepsAlways
  <2> SUFFICES ASSUME NEW r \in Rooms \ Failable PROVE PartsOK(rooms'[r])
    BY DEF AllRolesOK, PartsOK
  <2>2. /\ rooms[r] \in Room /\ RoomOK(rooms[r]) /\ MembersOK(rooms[r])
        /\ PartsOK(rooms[r])
    BY <1>2 DEF TypeOK, RoomsOK, AllMembersOK, AllRolesOK, PartsOK
  <2>3. SoundStep(rooms[r], rooms'[r])
    BY <2>1 DEF RoomSteps, RoomStep
  <2> QED
    BY <2>2, <2>3, PartsStep
<1> QED
  BY <1>1, <1>2

\* The inductive invariant of the offerer and the queues.
THEOREM RolesSafe == Spec => []AllRolesOK
<1>1. Spec => []TypeOK
  BY TypeCorrect
<1>2. Spec => []RoomsOK
  BY RoomsSafe
<1>3. Spec => []AllMembersOK
  BY MembersSafe
<1> QED
  BY <1>1, <1>2, <1>3, RolesInductive, PTL DEF Spec

\* Exactly one member of a P2P or an upgrading room offers, none in SFU.
THEOREM OffererIsSole == Spec => []SoleInitiator
<1>1. AllRolesOK => SoleInitiator
  BY FS_Singleton DEF AllRolesOK, RolesOK, SoleInitiator
<1> QED
  BY <1>1, RolesSafe, PTL

\* What is queued in a P2P room is of its epoch and for a peer that is away.
THEOREM QueuesSafe == Spec => []QueuedForAbsentPeer
<1>1. TypeOK /\ AllRolesOK => QueuedForAbsentPeer
  BY DEF TypeOK, Room, AllRolesOK, QueuesOK, QueuedForAbsentPeer
<1> QED
  BY <1>1, TypeCorrect, RolesSafe, PTL

-----------------------------------------------------------------------------
(***************************************************************************)
(* What is on a worker's stream is unacknowledged.                         *)
(***************************************************************************)

WireOK == wire \subseteq pending

\* A command is recorded when it is written, and forgotten when it is settled.
LEMMA WireInductive ==
  /\ Init => WireOK
  /\ WireOK /\ [Next]_vars => WireOK'
<1>1. Init => WireOK
  BY DEF Init, WireOK
<1>2. ASSUME WireOK, [Next]_vars PROVE WireOK'
  <2> USE WireOK DEF WireOK
  <2>0. ASSUME NEW cmds, Issue(cmds) PROVE WireOK'
    BY <2>0 DEF Issue
  <2>a. ASSUME NEW p, NEW cmds, SettleAndIssue(p, cmds) PROVE WireOK'
    BY <2>a DEF SettleAndIssue
  <2>b. ASSUME UNCHANGED <<pending, wire>> PROVE WireOK'
    BY <2>b
  <2> HIDE DEF WireOK
  <2>1. CASE UNCHANGED vars
    BY <2>1, <2>b DEF vars
  <2>2. ASSUME NEW r \in Rooms, NEW c \in Clients,
               Register(r, c) \/ Deregister(r, c) \/ SendSfu(r, c) \/ SendQueued(r, c)
        PROVE  WireOK'
    BY <2>2, <2>0, <2>b DEF Register, Deregister, SendSfu, SendQueued
  <2>3. ASSUME NEW r \in Rooms, NEW c \in Clients,
               \/ AdmitFirst(r, c) \/ AdmitP2p(r, c) \/ AdmitUpgrade(r, c) \/ AdmitSfu(r, c)
               \/ RemoveNow(r, c) \/ RemoveSfu(r, c)
        PROVE  WireOK'
    BY <2>3, <2>0, <2>b
       DEF AdmitFirst, AdmitP2p, AdmitUpgrade, AdmitSfu, RemoveNow, RemoveSfu
  <2>4. ASSUME NEW p, Result(p) PROVE WireOK'
    BY <2>4, <2>a DEF Result, UpgradeJoinMore, UpgradeJoinLast, UpgradeJoinErr,
         SfuJoinOk, SfuJoinErr, SfuLeaveOk, SfuLeaveErr, SettleOnly
  <2>5. ASSUME NEW s, SyncOk(s) \/ SyncErr(s) PROVE WireOK'
    BY <2>5 DEF SyncOk, SyncErr, WireOK
  <2>6. CASE WorkerStream
    <3>1. ASSUME NEW w, NEW k, NEW x, NEW y,
                 \/ register_worker(w, k, x) \/ WorkerDisconnected(w, k)
                 \/ WorkerHealth(w, x, y) \/ WorkerFailure(w, x)
          PROVE  WireOK'
      BY <3>1 DEF register_worker, WorkerDisconnected, WorkerHealth, WorkerFailure, WireOK
    <3> QED
      BY <2>6, <3>1 DEF WorkerStream
  <2>7. CASE Tick \/ clear \/ StartSweep
    BY <2>7 DEF Tick, clear, StartSweep, WireOK
  <2>8. ASSUME NEW w, expire_worker(w) PROVE WireOK'
    <3>1. PICK leaves : /\ pending' = (pending \cup leaves) \ OfWorker(w, pending \cup leaves)
                        /\ wire' = (wire \cup leaves) \ OfWorker(w, wire \cup leaves)
      BY <2>8 DEF expire_worker
    <3> QED
      BY <3>1 DEF OfWorker, WireOK
  <2>9. ASSUME NEW r, SweepRoom(r) PROVE WireOK'
    <3>1. CASE SweepDowngrade(r)
      BY <3>1, <2>0, <2>b DEF SweepDowngrade
    <3>2. CASE SweepSfu(r)
      <4>1. (\E c : Issue({LeaveCommand(r, c)})) \/ UNCHANGED <<pending, wire>>
        BY <3>2 DEF SweepSfu
      <4> QED
        BY <4>1, <2>0, <2>b
    <3>3. CASE SweepP2p(r)
      BY <3>3, <2>b DEF SweepP2p
    <3> QED
      BY <2>9, <3>1, <3>2, <3>3 DEF SweepRoom
  <2> QED
    BY <1>2, <2>1, <2>2, <2>3, <2>4, <2>5, <2>6, <2>7, <2>8, <2>9
       DEF Next, Operation, Browser, WebServer, WorkerAnswer, HandleTimeout
<1> QED
  BY <1>1, <1>2

\* No command travels that the table does not wait for.
THEOREM WireSafe == Spec => []WireOK
BY WireInductive, PTL DEF Spec

=============================================================================
