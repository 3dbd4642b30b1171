----------------------- MODULE V2RoomsCommands_proofs -----------------------
(***************************************************************************)
(* What the table and its workers owe each other, for every value of the   *)
(* constants: which memberships a worker may know, which commands are      *)
(* unacknowledged and where they travel, which rooms a worker has on its   *)
(* books and how many clients it is reckoned to carry, and which requests  *)
(* of the web server are answered.                                         *)
(***************************************************************************)
EXTENDS V2RoomsMembers_proofs

-----------------------------------------------------------------------------
(***************************************************************************)
(* An admission is completed in a committed mode.                          *)
(***************************************************************************)

AdmissionsCommitted ==
  \A q \in open \ open' :
    q.op = "admit" /\ q.room \notin Failable /\ q.client \in rooms'[q.room].members =>
      rooms'[q.room].mode \in {"P2p", "Sfu"}

\* The answers of the workers.
LEMMA ResultsCommitted ==
  ASSUME TypeOK, AllRolesOK, AllMembersOK, NEW p \in wire, Result(p)
  PROVE  AdmissionsCommitted
<1> DEFINE r == p.room
           room == rooms[r]
<1>0. r \in Rooms /\ room \in Room /\ rooms \in [Rooms -> Room]
  BY DEF TypeOK, Command
<1>a. SUFFICES ASSUME NEW q \in open, q \notin open', q.op = "admit",
                      q.room \notin Failable, q.client \in rooms'[q.room].members
               PROVE  rooms'[q.room].mode \in {"P2p", "Sfu"}
  BY DEF AdmissionsCommitted
<1>1. CASE UpgradeJoinLast(p)
  <2>1. q.room = r
    BY <1>1, <1>a DEF UpgradeJoinLast, Answer
  <2>a. rooms' = [rooms EXCEPT ![r] = commit_upgrade(room)]
    BY <1>1 DEF UpgradeJoinLast
  <2>2. rooms'[r] = commit_upgrade(room)
    BY <1>0, <2>a
  <2>3. commit_upgrade(room).mode = "Sfu"
    BY <1>0 DEF commit_upgrade, Room
  <2> QED
    BY <2>1, <2>2, <2>3
<1>2. CASE UpgradeJoinErr(p)
  <2>1. q.room = r
    <3>1. q \in AbortAnswer(r)
      BY <1>2, <1>a DEF UpgradeJoinErr
    <3> QED
      BY <3>1 DEF AbortAnswer, Answer
  <2>a. rooms' = [rooms EXCEPT ![r] = Aborted(room)]
    BY <1>2 DEF UpgradeJoinErr
  <2>2. rooms'[r] = Aborted(room)
    BY <1>0, <2>a
  <2>3. DropMembers(room, {room.upgrade.joining}) \in Room
    BY <1>0, DropMembersType
  <2> QED
    BY <2>1, <2>2, <2>3 DEF Aborted, Room
<1>3. CASE SfuJoinOk(p) \/ SfuJoinErr(p)
  <2>1. q.room = r /\ room.pending_join # None
    BY <1>0, <1>3, <1>a DEF SfuJoinOk, SfuJoinErr, Answer
  <2>2. RolesOK(room) /\ MembersOK(room) /\ room.mode \in Modes
    BY <1>0, <1>a, <2>1 DEF AllRolesOK, AllMembersOK, Room
  <2>3. room.mode = "Sfu"
    BY <2>1, <2>2 DEF RolesOK, MembersOK, AwaitingOK, Modes
  <2>4. rooms'[r].mode = room.mode
    <3>1. CASE SfuJoinOk(p)
      BY <1>0, <3>1 DEF SfuJoinOk, Room
    <3>2. CASE SfuJoinErr(p)
      <4>1. /\ DropMembers(room, {room.pending_join}) \in Room
            /\ DropMembers(room, {room.pending_join}).mode = room.mode
        BY <1>0, DropMembersType DEF DropMembers, Room
      <4>2. rooms'[r] = [DropMembers(room, {room.pending_join}) EXCEPT !.pending_join = None]
        BY <1>0, <3>2 DEF SfuJoinErr
      <4> QED
        BY <4>1, <4>2 DEF Room
    <3> QED
      BY <1>3, <3>1, <3>2
  <2> QED
    BY <2>1, <2>3, <2>4
<1>4. CASE SfuLeaveOk(p) \/ SfuLeaveErr(p)
  <2>1. open' = open \ LeaveAnswer(r)
    BY <1>4 DEF SfuLeaveOk, SfuLeaveErr
  <2>2. \A x \in LeaveAnswer(r) : x.op = "remove"
    BY DEF LeaveAnswer, Answer
  <2> QED
    BY <1>a, <2>1, <2>2
<1>5. CASE UpgradeJoinMore(p) \/ SettleOnly(p)
  BY <1>5, <1>a DEF UpgradeJoinMore, SettleOnly
<1> QED
  BY <1>1, <1>2, <1>3, <1>4, <1>5 DEF Result

\* The loss of a worker: upgrades are given up, and whose join it owed goes.
LEMMA ExpiryCommitted ==
  ASSUME TypeOK, NEW w, expire_worker(w)
  PROVE  AdmissionsCommitted
<1> DEFINE mine == {r \in workers[w].rooms : rooms[r].mode # "Absent"}
           aborted == {r \in mine : rooms[r].mode = "Upgrading"}
<1>0. w \in Workers /\ workers[w].rooms \subseteq Rooms
  BY DEF expire_worker, TypeOK, Worker
<1>1. SUFFICES ASSUME NEW q \in open, q \notin open', q.op = "admit",
                      q.client \in rooms'[q.room].members
               PROVE  rooms'[q.room].mode \in {"P2p", "Sfu"}
  BY DEF AdmissionsCommitted
<1>2. \/ \E r \in aborted : q \in AbortAnswer(r)
      \/ \E r \in mine \ aborted : q \in ExpiredAnswer(r)
  <2> DEFINE answers == UNION ({AbortAnswer(r) : r \in aborted} \cup
                               {ExpiredAnswer(r) : r \in mine \ aborted})
  <2>1. open' = open \ answers
    BY DEF expire_worker
  <2>2. q \in answers
    <3> HIDE DEF answers
    <3> QED
      BY <1>1, <2>1
  <2> QED
    <3> HIDE DEF mine, aborted
    <3> QED
      BY <2>2, Zenon
<1>e. rooms' = [r \in Rooms |-> CASE r \in aborted -> Aborted(rooms[r])
                                 [] r \in mine \ aborted -> Expired(rooms[r])
                                 [] OTHER -> rooms[r]]
  BY DEF expire_worker
<1>3. ASSUME NEW r \in aborted, q \in AbortAnswer(r)
      PROVE  rooms'[q.room].mode \in {"P2p", "Sfu"}
  <2>1. q.room = r /\ r \in Rooms /\ rooms'[r] = Aborted(rooms[r])
    BY <1>0, <1>e, <1>3 DEF AbortAnswer, Answer
  <2>2. DropMembers(rooms[r], {rooms[r].upgrade.joining}) \in Room
    BY <2>1, DropMembersType DEF TypeOK
  <2> QED
    BY <2>1, <2>2 DEF Aborted, Room
<1>4. ASSUME NEW r \in mine \ aborted, q \in ExpiredAnswer(r)
      PROVE  FALSE
  <2>1. q.room = r /\ r \in Rooms /\ rooms'[r] = Expired(rooms[r])
    BY <1>0, <1>e, <1>4 DEF ExpiredAnswer, LeaveAnswer, Answer
  <2>2. q.client = rooms[r].pending_join
    BY <1>1, <1>4 DEF ExpiredAnswer, LeaveAnswer, Answer
  <2>3. Expired(rooms[r]).members = rooms[r].members \ {rooms[r].pending_join}
    <3>1. DropMembers(rooms[r], {rooms[r].pending_join}) \in Room
      BY <2>1, DropMembersType DEF TypeOK
    <3>2. DropMembers(rooms[r], {rooms[r].pending_join}).members
            = rooms[r].members \ {rooms[r].pending_join}
      BY <2>1 DEF DropMembers, TypeOK, Room
    <3> QED
      BY <3>1, <3>2 DEF Expired, Room
  <2> QED
    BY <1>1, <2>1, <2>2, <2>3
<1> QED
  BY <1>2, <1>3, <1>4

\* The web server is told of an admission, and the client stays, only once
\* the room is P2P or SFU, in a room no worker reports as failed.
THEOREM AdmissionsSafe == Spec => AdmissionInCommittedMode
<1>1. TypeOK /\ AllRolesOK /\ AllMembersOK /\ [Next]_vars => [AdmissionsCommitted]_vars
  <2> SUFFICES ASSUME TypeOK, AllRolesOK, AllMembersOK, Next
               PROVE  AdmissionsCommitted
    OBVIOUS
  <2>1. CASE Browser \/ WebServer
    <3>a. Browser => open' = open
      BY DEF Browser, Register, Deregister, SendSfu, SendQueued
    <3>b. ASSUME NEW r \in Rooms, NEW c \in Clients,
                 \/ AdmitFirst(r, c) \/ AdmitP2p(r, c) \/ AdmitUpgrade(r, c)
                 \/ AdmitSfu(r, c) \/ RemoveNow(r, c) \/ RemoveSfu(r, c)
          PROVE  open \subseteq open'
      BY <3>b DEF AdmitFirst, AdmitP2p, AdmitUpgrade, AdmitSfu, RemoveNow, RemoveSfu
    <3>c. WebServer => open \subseteq open'
      BY <3>b DEF WebServer
    <3>1. open \subseteq open'
      BY <2>1, <3>a, <3>c
    <3> QED
      BY <3>1 DEF AdmissionsCommitted
  <2>2. CASE WorkerStream \/ Tick \/ StartSweep
    <3>1. ASSUME NEW w \in Workers, NEW k, NEW x, NEW y,
                 \/ register_worker(w, k, x) \/ WorkerDisconnected(w, k)
                 \/ WorkerHealth(w, x, y) \/ WorkerFailure(w, x)
          PROVE  open' = open
      BY <3>1 DEF register_worker, WorkerDisconnected, WorkerHealth, WorkerFailure
    <3>2. open' = open
      BY <2>2, <3>1 DEF WorkerStream, Tick, StartSweep
    <3> QED
      BY <3>2 DEF AdmissionsCommitted
  <2>3. CASE WorkerAnswer
    <3>1. ASSUME NEW s \in syncs, SyncOk(s) \/ SyncErr(s)
          PROVE  AdmissionsCommitted
      BY <3>1 DEF SyncOk, SyncErr, AdmissionsCommitted
    <3> QED
      BY <2>3, <3>1, ResultsCommitted DEF WorkerAnswer
  <2>4. CASE clear
    <3>1. ASSUME NEW q \in open, q.client \in rooms'[q.room].members PROVE FALSE
      <4>1. q.room \in Rooms
        BY DEF TypeOK, Request
      <4> QED
        BY <2>4, <3>1, <4>1 DEF clear, AbsentRoom
    <3> QED
      BY <3>1 DEF AdmissionsCommitted
  <2>5. CASE HandleTimeout /\ ~StartSweep
    <3>1. ASSUME NEW r, SweepRoom(r)
          PROVE  AdmissionsCommitted
      BY <3>1 DEF SweepRoom, AdmissionsCommitted
    <3> QED
      BY <2>5, <3>1, ExpiryCommitted DEF HandleTimeout
  <2> QED
    BY <2>1, <2>2, <2>3, <2>4, <2>5 DEF Next, Operation, HandleTimeout
<1> QED
  BY <1>1, TypeCorrect, RolesSafe, MembersSafe, PTL
     DEF Spec, AdmissionInCommittedMode, AdmissionsCommitted

-----------------------------------------------------------------------------
(***************************************************************************)
(* An upgrading room is on the books of its worker, failing rooms too.     *)
(***************************************************************************)

SameAssignment(room, next) ==
  next.assigned = room.assigned /\ next.assignment_epoch = room.assignment_epoch

\* Without an admission nobody enters or is newly waited for, no worker is
\* assigned and no upgrade starts.
StayFields(room, next) ==
  /\ next.members \subseteq room.members
  /\ next.upgrade.joining \in {room.upgrade.joining, None}
  /\ next.pending_join \in {room.pending_join, None}
  /\ SameAssignment(room, next) \/ next.assigned = None
  /\ next.mode = "Upgrading" => room.mode = "Upgrading" /\ SameAssignment(room, next)

\* The steps of a room but an admission are of this kind.
LEMMA OtherFields ==
  ASSUME NEW room \in Room, NEW next, OtherStep(room, next) \/ Failing(room, next)
  PROVE  StayFields(room, next)
<1> USE DEF StayFields, SameAssignment
<1>a. \A S : /\ DropMembers(room, S) \in Room
             /\ DropMembers(room, S).members = room.members \ S
             /\ DropMembers(room, S).mode = room.mode
             /\ DropMembers(room, S).upgrade = room.upgrade
             /\ DropMembers(room, S).pending_join = room.pending_join
             /\ SameAssignment(room, DropMembers(room, S))
  BY DropMembersType DEF DropMembers, Room
<1>b. ASSUME NEW kept \in Room, StayFields(room, kept)
      PROVE  StayFields(room, ReapIfEmpty(kept))
  BY <1>b DEF ReapIfEmpty, AbsentRoom, NoUpgrade
<1>1. CASE next = room \/ Failing(room, next)
  BY <1>1 DEF Failing, Room
<1>2. CASE Registered(room, next) \/ FrameQueued(room, next)
  BY <1>2 DEF Registered, FrameQueued, Room
<1>3. CASE LeaveAsked(room, next) \/ Away(room, next) \/ GraceAgain(room, next)
  BY <1>3 DEF LeaveAsked, Away, GraceAgain, Room
<1>4. CASE DroppedNow(room, next)
  <2>1. PICK S : next = ReapIfEmpty(promote_survivor(DropMembers(room, S)))
    BY <1>4 DEF DroppedNow
  <2> DEFINE rest == DropMembers(room, S)
  <2>2. rest \in Room /\ StayFields(room, rest)
    BY <1>a
  <2> HIDE DEF rest
  <2>3. promote_survivor(rest) \in Room /\ StayFields(room, promote_survivor(rest))
    BY <2>2, PromoteType DEF promote_survivor, Room
  <2> QED
    BY <1>b, <2>1, <2>3 DEF rest
<1>5. CASE LeftEmpty(room, next)
  BY <1>b, <1>5 DEF LeftEmpty
<1>6. CASE BarrierStepped(room, next) \/ Committed(room, next)
  <2>1. CASE BarrierStepped(room, next)
    <3>1. PICK todo, joined :
            next = [room EXCEPT !.upgrade = [room.upgrade EXCEPT !.todo = todo, !.joined = joined]]
      BY <2>1 DEF BarrierStepped
    <3> DEFINE up == [room.upgrade EXCEPT !.todo = todo, !.joined = joined]
    <3>2. up.joining = room.upgrade.joining
      BY DEF Room, Upgrade
    <3>3. next = [room EXCEPT !.upgrade = up]
      BY <3>1
    <3> HIDE DEF up
    <3> QED
      BY <3>2, <3>3 DEF Room
  <2>2. CASE Committed(room, next)
    BY <2>2 DEF Committed, commit_upgrade, Room, NoUpgrade
  <2> QED
    BY <1>6, <2>1, <2>2
<1>7. CASE GivenUp(room, next)
  BY <1>a, <1>7 DEF GivenUp, Aborted, Room, NoUpgrade
<1>8. CASE JoinEntered(room, next) \/ LeaveRefused(room, next)
  BY <1>8 DEF JoinEntered, LeaveRefused, Room
<1>9. CASE JoinRefused(room, next)
  BY <1>a, <1>9 DEF JoinRefused, Room
<1>10. CASE MemberLeft(room, next)
  <2>1. PICK c : next = ReapIfEmpty(arm_downgrade(
                          [DropMembers(room, {c}) EXCEPT !.pending_leave = NoLeave]))
    BY <1>10 DEF MemberLeft
  <2> DEFINE rest == DropMembers(room, {c})
             left == [rest EXCEPT !.pending_leave = NoLeave]
  <2>2. rest \in Room /\ StayFields(room, rest)
    BY <1>a
  <2> HIDE DEF rest
  <2>3. left \in Room /\ StayFields(room, left)
    BY <2>2, ConstantTypes DEF Room
  <2> HIDE DEF left
  <2>4. arm_downgrade(left) \in Room /\ StayFields(room, arm_downgrade(left))
    BY <2>3, ArmDowngradeType DEF arm_downgrade, Room
  <2> QED
    BY <1>b, <2>1, <2>4 DEF rest, left
<1>11. CASE WorkerLost(room, next)
  BY <1>a, <1>11 DEF WorkerLost, Expired, Room
<1>12. CASE Aged(room, next) \/ DwellStopped(room, next)
  BY <1>12 DEF Aged, DwellStopped, Room
<1>13. CASE Downgraded(room, next)
  BY <1>13 DEF Downgraded, commit_downgrade, Room
<1>14. CASE next = AbsentRoom
  BY <1>14 DEF AbsentRoom, NoUpgrade
<1> QED
  BY <1>1, <1>2, <1>3, <1>4, <1>5, <1>6, <1>7, <1>8, <1>9, <1>10, <1>11, <1>12,
     <1>13, <1>14 DEF OtherStep

\* What every room keeps when nobody is admitted.
LEMMA StayAlways ==
  ASSUME TypeOK, NoAdmission, NEW r \in Rooms
  PROVE  StayFields(rooms[r], rooms'[r])
BY OtherFields DEF NoAdmission, TypeOK

\* No worker loses a room that stays in its upgrade.
UpgradesKept ==
  \A r \in Rooms, w \in Workers :
    r \in workers[w].rooms /\ rooms'[r].mode = "Upgrading" => r \in workers'[w].rooms

\* Then a room that is still upgrading is still on the books.
LEMMA BooksKept ==
  ASSUME TypeOK, UpgradeOnBooks, NoAdmission, UpgradesKept
  PROVE  UpgradeOnBooks'
<1> SUFFICES ASSUME NEW r \in Rooms, rooms'[r].mode = "Upgrading"
             PROVE  rooms'[r].assigned # None /\ r \in workers'[rooms'[r].assigned].rooms
  BY DEF UpgradeOnBooks
<1>1. rooms[r].mode = "Upgrading" /\ rooms'[r].assigned = rooms[r].assigned
  BY StayAlways DEF StayFields, SameAssignment
<1>2. rooms[r].assigned # None /\ r \in workers[rooms[r].assigned].rooms
  BY <1>1 DEF UpgradeOnBooks
<1>3. rooms[r].assigned \in Workers
  BY <1>2 DEF TypeOK, Room
<1> QED
  BY <1>1, <1>2, <1>3 DEF UpgradesKept


\* The books of a worker are left alone, or only lose a room that is not
\* upgrading any more.
LEMMA ReleasedKept ==
  ASSUME TypeOK, NEW r \in Rooms, NEW w, NEW n,
         workers' = [workers EXCEPT ![w].rooms = @ \ {r}, ![w].clients = n],
         rooms'[r].mode # "Upgrading"
  PROVE  UpgradesKept
<1>1. \A v \in Workers : workers[v].rooms \ {r} \subseteq workers'[v].rooms
  BY DEF TypeOK, Worker
<1> QED
  BY <1>1 DEF UpgradesKept

LEMMA SameKept ==
  ASSUME \A w \in Workers : workers'[w].rooms = workers[w].rooms
  PROVE  UpgradesKept
BY DEF UpgradesKept

\* The answers of the workers.
LEMMA ResultsKept ==
  ASSUME TypeOK, NEW p \in wire, Result(p)
  PROVE  UpgradesKept
<1> DEFINE r == p.room
           room == rooms[r]
<1>0. r \in Rooms /\ room \in Room /\ rooms \in [Rooms -> Room]
  BY DEF TypeOK, Command
<1>1. CASE UpgradeJoinErr(p)
  <2>1. rooms'[r].mode = "P2p"
    BY <1>0, <1>1, DropMembersType DEF UpgradeJoinErr, Aborted, Room
  <2> QED
    BY <1>0, <1>1, <2>1, ReleasedKept DEF UpgradeJoinErr
<1>2. CASE SfuLeaveOk(p)
  <2> DEFINE rest == [DropMembers(room, {p.client}) EXCEPT !.pending_leave = NoLeave]
  <2>1. CASE rest.members = {}
    <3>1. rest \in Room
      BY <1>0, DropMembersType, ConstantTypes DEF Room
    <3>2. arm_downgrade(rest).members = {}
      BY <2>1, <3>1 DEF arm_downgrade, Room
    <3>3. rooms'[r] = AbsentRoom
      BY <1>0, <1>2, <3>2 DEF SfuLeaveOk, ReapIfEmpty
    <3>4. /\ rooms'[r].mode # "Upgrading"
          /\ workers' = [workers EXCEPT ![p.instance].clients = SatSub(@, 1),
                                        ![p.instance].rooms = @ \ {r}]
      BY <1>2, <2>1, <3>3 DEF SfuLeaveOk, AbsentRoom
    <3>5. \A v \in Workers : workers[v].rooms \ {r} \subseteq workers'[v].rooms
      BY <3>4 DEF TypeOK, Worker
    <3> QED
      BY <3>4, <3>5 DEF UpgradesKept
  <2>2. CASE rest.members # {}
    <3>1. workers' = [workers EXCEPT ![p.instance].clients = SatSub(@, 1),
                                     ![p.instance].rooms = @]
      BY <1>2, <2>2 DEF SfuLeaveOk
    <3>2. \A v \in Workers : workers'[v].rooms = workers[v].rooms
      BY <3>1 DEF TypeOK, Worker
    <3> QED
      BY <3>2, SameKept
  <2> QED
    BY <2>1, <2>2
<1>3. CASE SfuJoinOk(p)
  <2>1. \A v \in Workers : workers'[v].rooms = workers[v].rooms
    BY <1>3 DEF SfuJoinOk, TypeOK, Worker
  <2> QED
    BY <2>1, SameKept
<1>4. CASE \/ UpgradeJoinMore(p) \/ UpgradeJoinLast(p) \/ SfuJoinErr(p)
           \/ SfuLeaveErr(p) \/ SettleOnly(p)
  BY <1>4, SameKept
     DEF UpgradeJoinMore, UpgradeJoinLast, SfuJoinErr, SfuLeaveErr, SettleOnly
<1> QED
  BY <1>1, <1>2, <1>3, <1>4 DEF Result

\* The loss of a worker gives up every upgrade it takes off the books.
LEMMA ExpiryKept ==
  ASSUME TypeOK, NEW w, expire_worker(w)
  PROVE  UpgradesKept
<1> DEFINE mine == {r \in workers[w].rooms : rooms[r].mode # "Absent"}
           aborted == {r \in mine : rooms[r].mode = "Upgrading"}
<1>0. w \in Workers /\ workers \in [Workers -> Worker]
  BY DEF expire_worker, TypeOK
<1>1. rooms' = [r \in Rooms |-> CASE r \in aborted -> Aborted(rooms[r])
                                  [] r \in mine \ aborted -> Expired(rooms[r])
                                  [] OTHER -> rooms[r]]
  BY DEF expire_worker
<1>2. SUFFICES ASSUME NEW r \in Rooms, NEW v \in Workers, r \in workers[v].rooms,
                      rooms'[r].mode = "Upgrading"
               PROVE  r \in workers'[v].rooms
  BY DEF UpgradesKept
<1>3. r \notin mine
  <2>1. rooms[r] \in Room /\ Aborted(rooms[r]).mode = "P2p" /\ Expired(rooms[r]).mode = "Failed"
    BY DropMembersType DEF TypeOK, Aborted, Expired, Room
  <2> HIDE DEF aborted, mine
  <2> QED
    BY <1>1, <1>2, <2>1
<1>4. v # w
  BY <1>1, <1>2, <1>3
<1>5. workers'[v].rooms = workers[v].rooms \ {q \in aborted : rooms[q].assigned = v}
  BY <1>0, <1>4 DEF expire_worker, Worker
<1> QED
  BY <1>2, <1>3, <1>5

\* Every other step.
LEMMA UpgradesStayOnBooks ==
  ASSUME TypeOK, RoomsOK, UpgradeOnBooks, [Next]_vars
  PROVE  UpgradeOnBooks'
<1>1. ASSUME NEW r \in Rooms, NEW c \in Clients,
             AdmitFirst(r, c) \/ AdmitP2p(r, c) \/ AdmitUpgrade(r, c) \/ AdmitSfu(r, c)
      PROVE  UpgradeOnBooks'
  <2> SUFFICES ASSUME NEW q \in Rooms, rooms'[q].mode = "Upgrading"
               PROVE  rooms'[q].assigned # None /\ q \in workers'[rooms'[q].assigned].rooms
    BY DEF UpgradeOnBooks
  <2>0. rooms[r] \in Room /\ rooms[q] \in Room
    BY DEF TypeOK
  <2>1. CASE AdmitFirst(r, c) \/ AdmitP2p(r, c) \/ AdmitSfu(r, c)
    <3>a. q # r => rooms'[q] = rooms[q]
      BY <2>1 DEF AdmitFirst, AdmitP2p, AdmitSfu, TypeOK
    <3>b. /\ AdmitFirst(r, c) => rooms'[r].mode = "P2p"
          /\ AdmitP2p(r, c) => rooms'[r].mode = "P2p"
          /\ AdmitSfu(r, c) => rooms'[r].mode = "Sfu"
      <4>1. rooms \in [Rooms -> Room]
        BY DEF TypeOK
      <4>2. AddMember(AbsentRoom, c) \in Room /\ AddMember(rooms[r], c) \in Room
        BY <2>0, AddMemberType, ConstantTypes
      <4>3. AdmitFirst(r, c) => rooms'[r].mode = "P2p"
        BY <4>1, <4>2 DEF AdmitFirst, Room
      <4>4. AddMember(rooms[r], c).mode = rooms[r].mode
        BY <2>0 DEF AddMember, Room
      <4>5. AdmitP2p(r, c) => rooms'[r].mode = "P2p"
        BY <4>1, <4>4 DEF AdmitP2p
      <4>6. AdmitSfu(r, c) => rooms'[r].mode = "Sfu"
        <5> DEFINE next == [AddMember(rooms[r], c) EXCEPT !.pending_join = c,
                                                          !.downgrade_deadline = None]
        <5>1. AdmitSfu(r, c) => rooms' = [rooms EXCEPT ![r] = next] /\ rooms[r].mode = "Sfu"
          BY DEF AdmitSfu
        <5>2. next.mode = rooms[r].mode
          BY <4>2, <4>4 DEF Room
        <5> HIDE DEF next
        <5> QED
          BY <4>1, <5>1, <5>2
      <4> QED
        BY <4>3, <4>5, <4>6
    <3>1. rooms'[q].mode # "Upgrading" \/ rooms'[q] = rooms[q]
      BY <2>1, <3>a, <3>b
    <3>2. workers' = workers
      BY <2>1 DEF AdmitFirst, AdmitP2p, AdmitSfu
    <3> QED
      BY <3>1, <3>2 DEF UpgradeOnBooks
  <2>2. CASE AdmitUpgrade(r, c)
    <3>1. PICK w \in Workers :
            /\ rooms' = [rooms EXCEPT ![r] = [AddMember(rooms[r], c) EXCEPT
                 !.mode = "Upgrading",
                 !.assignment_epoch = rooms[r].assignment_epoch + 1,
                 !.assigned = w,
                 !.upgrade = [joining |-> c, todo |-> rooms[r].members \cup {c},
                              joined |-> <<>>]]]
            /\ workers' = [workers EXCEPT ![w].rooms = @ \cup {r},
                                          ![w].clients = @ + UpgradeClients]
      BY <2>2 DEF AdmitUpgrade
    <3>2. /\ r \in workers'[w].rooms
          /\ \A v \in Workers : workers[v].rooms \subseteq workers'[v].rooms
      BY <3>1 DEF TypeOK, Worker
    <3>3. AddMember(rooms[r], c) \in Room
      BY <2>0, AddMemberType
    <3>4. CASE q = r
      <4>1. rooms'[q].assigned = w
        BY <3>1, <3>3, <3>4 DEF TypeOK, Room
      <4> QED
        BY <3>2, <3>4, <4>1, IdsAssumption DEF None
    <3>5. CASE q # r
      <4>1. rooms'[q] = rooms[q]
        BY <3>1, <3>5 DEF TypeOK
      <4>2. rooms[q].assigned # None /\ q \in workers[rooms[q].assigned].rooms
        BY <4>1 DEF UpgradeOnBooks
      <4> QED
        BY <2>0, <3>2, <4>1, <4>2 DEF Room
    <3> QED
      BY <3>4, <3>5
  <2> QED
    BY <1>1, <2>1, <2>2
<1>2. ASSUME UpgradesKept, NoAdmission
      PROVE  UpgradeOnBooks'
  BY <1>2, BooksKept
<1>3. \/ UpgradesKept
      \/ \E r \in Rooms, c \in Clients :
           AdmitFirst(r, c) \/ AdmitP2p(r, c) \/ AdmitUpgrade(r, c) \/ AdmitSfu(r, c)
  <2>1. CASE UNCHANGED vars
    BY <2>1, SameKept DEF vars
  <2>2. CASE Browser
    BY <2>2, SameKept DEF Browser, Register, Deregister, SendSfu, SendQueued
  <2>3. ASSUME NEW r \in Rooms, NEW c \in Clients, RemoveNow(r, c) \/ RemoveSfu(r, c)
        PROVE  UpgradesKept
    BY <2>3, SameKept DEF RemoveNow, RemoveSfu
  <2>4. CASE WorkerAnswer
    <3>1. ASSUME NEW s \in syncs, SyncOk(s) \/ SyncErr(s)
          PROVE  UpgradesKept
      BY <3>1, SameKept DEF SyncOk, SyncErr
    <3> QED
      BY <2>4, <3>1, ResultsKept DEF WorkerAnswer
  <2>5. CASE WorkerStream
    <3>1. ASSUME NEW w \in Workers, NEW k, NEW x, NEW y,
                 \/ register_worker(w, k, x) \/ WorkerDisconnected(w, k)
                 \/ WorkerHealth(w, x, y) \/ WorkerFailure(w, x)
          PROVE  UpgradesKept
      <4>0. workers \in [Workers -> Worker]
        BY DEF TypeOK
      <4>1. CASE register_worker(w, k, x)
        BY <4>0, <4>1, SameKept DEF register_worker, Worker
      <4>2. CASE WorkerDisconnected(w, k)
        BY <4>0, <4>2, SameKept DEF WorkerDisconnected, Worker
      <4>3. CASE WorkerHealth(w, x, y) \/ WorkerFailure(w, x)
        BY <4>0, <4>3, SameKept DEF WorkerHealth, WorkerFailure, Worker
      <4> QED
        BY <3>1, <4>1, <4>2, <4>3
    <3> QED
      BY <2>5, <3>1 DEF WorkerStream
  <2>6. CASE Tick
    <3>1. \A v \in Workers : workers'[v].rooms = workers[v].rooms
      BY <2>6 DEF Tick, TypeOK, Worker
    <3> QED
      BY <3>1, SameKept
  <2>7. CASE clear
    BY <2>7 DEF clear, AbsentRoom, UpgradesKept
  <2>8. CASE HandleTimeout
    <3>1. ASSUME NEW r \in unswept, SweepRoom(r)
          PROVE  UpgradesKept
      <4>1. r \in Rooms /\ rooms[r] \in Room
        BY DEF TypeOK
      <4>2. CASE SweepDowngrade(r) /\ is_downgrade_eligible(rooms[r])
        <5>1. commit_downgrade(rooms[r]).mode = "P2p"
          BY <4>1 DEF commit_downgrade, Room
        <5>2. rooms' = [rooms EXCEPT ![r] = commit_downgrade(rooms[r])]
          BY <4>2 DEF SweepDowngrade
        <5>3. rooms'[r] = commit_downgrade(rooms[r])
          BY <4>1, <5>2 DEF TypeOK
        <5> QED
          BY <4>1, <4>2, <5>1, <5>3, ReleasedKept DEF SweepDowngrade
      <4>3. CASE ~(SweepDowngrade(r) /\ is_downgrade_eligible(rooms[r]))
        <5>1. workers' = workers
          BY <3>1, <4>3 DEF SweepRoom, SweepDowngrade, SweepSfu, SweepP2p
        <5> QED
          BY <5>1, SameKept
      <4> QED
        BY <4>2, <4>3
    <3>2. StartSweep => UpgradesKept
      BY SameKept DEF StartSweep
    <3> QED
      BY <2>8, <3>1, <3>2, ExpiryKept DEF HandleTimeout
  <2> QED
    BY <2>1, <2>2, <2>3, <2>4, <2>5, <2>6, <2>7, <2>8 DEF Next, Operation, WebServer
<1> QED
  BY <1>1, <1>2, <1>3, AdmittedOrNot

\* An upgrading room is on the books of its worker, in every reachable state.
THEOREM UpgradesOnBooks == Spec => []UpgradeOnBooks
<1>1. Init => UpgradeOnBooks
  BY DEF Init, UpgradeOnBooks, AbsentRoom
<1>2. TypeOK /\ RoomsOK /\ UpgradeOnBooks /\ [Next]_vars => UpgradeOnBooks'
  BY UpgradesStayOnBooks
<1> QED
  BY <1>1, <1>2, TypeCorrect, RoomsSafe, PTL DEF Spec

-----------------------------------------------------------------------------
(***************************************************************************)
(* What a worker may know of a membership: LifecycleFresh.                 *)
(***************************************************************************)

\* The membership a command is about, the only element of LegOf(p).
TheLeg(p) == [instance |-> p.instance, room |-> p.room, client |-> p.client,
              lifecycle |-> p.lifecycle, assignment_epoch |-> p.assignment_epoch]

\* The memberships the workers may hold, now or once they are told.
Known == legs \cup {TheLeg(p) : p \in pending}

\* None is newer than the client's last lifecycle, and one of that lifecycle
\* is of the room's assignment.
KnownCurrent ==
  \A l \in Known :
    LET room == rooms[l.room]
        last == lifecycle[l.room][l.client]
    IN  /\ l.lifecycle <= last
        /\ l.lifecycle = last /\ l.client \in room.members /\ room.assigned # None =>
             l.instance = room.assigned /\ l.assignment_epoch = room.assignment_epoch

KnownOnce ==
  \A l, m \in Known :
    l.room = m.room /\ l.client = m.client /\ l.lifecycle = m.lifecycle => l = m

LegsOK == KnownCurrent /\ KnownOnce

\* A command about the current membership of a member.
IssuedFor(p) ==
  /\ p.client \in rooms[p.room].members
  /\ rooms[p.room].assigned # None
  /\ TheLeg(p) = LegFor(p.room, p.client)

\* Nobody starts a lifecycle, and the workers are told and tell of known
\* memberships only.
Asks ==
  /\ lifecycle' = lifecycle
  /\ \A p \in pending' \ pending : IssuedFor(p)
  /\ \A l \in legs' \ legs : \E p \in pending : l = TheLeg(p)

\* The memberships are legs.
LEMMA KnownType ==
  ASSUME TypeOK
  PROVE  Known \subseteq Leg
<1>1. \A p \in Command : TheLeg(p) \in Leg
  BY DEF TheLeg, Command, Leg
<1> QED
  BY <1>1 DEF Known, TypeOK

LEMMA KnownTypeNext ==
  ASSUME TypeOK'
  PROVE  Known' \subseteq Leg
<1>1. \A p \in Command : TheLeg(p) \in Leg
  BY DEF TheLeg, Command, Leg
<1>2. Known' = legs' \cup {TheLeg(p) : p \in pending'}
  BY DEF Known, TheLeg
<1> QED
  BY <1>1, <1>2 DEF TypeOK

\* A leg is told by its fields.
LEMMA SameLeg ==
  ASSUME NEW l \in Leg, NEW m \in Leg,
         l.instance = m.instance, l.room = m.room, l.client = m.client,
         l.lifecycle = m.lifecycle, l.assignment_epoch = m.assignment_epoch
  PROVE  l = m
BY DEF Leg

\* The membership of a member of an assigned room is a leg.
LEMMA LegForType ==
  ASSUME TypeOK, NEW r \in Rooms, NEW c \in Clients, rooms[r].assigned # None
  PROVE  LegFor(r, c) \in Leg
<1>1. rooms[r].assigned \in Workers /\ rooms[r].assignment_epoch \in Nat
  BY DEF TypeOK, Room
<1>2. lifecycle[r][c] \in Nat
  BY DEF TypeOK
<1> QED
  BY <1>1, <1>2 DEF LegFor, Leg

\* LegsOK outlives what asks and tells of known memberships only.
LEMMA AsksLegs ==
  ASSUME TypeOK, TypeOK', LegsOK, NoAdmission, Asks
  PROVE  LegsOK'
<1> DEFINE Told(l) == \E r \in Rooms, c \in Clients :
                        /\ c \in rooms[r].members /\ rooms[r].assigned # None
                        /\ l = LegFor(r, c)
<1>0. rooms \in [Rooms -> Room] /\ lifecycle \in [Rooms -> [Clients -> Nat]]
  BY DEF TypeOK
<1>1. ASSUME NEW l \in Known'
      PROVE  l \in Leg /\ (l \in Known \/ Told(l))
  <2>1. l \in Leg
    BY KnownTypeNext
  <2>2. CASE l \in legs'
    BY <2>1, <2>2 DEF Asks, Known
  <2>3. CASE l \notin legs'
    <3>1. PICK p \in pending' : l = TheLeg(p)
      BY <2>3 DEF Known, TheLeg
    <3>2. CASE p \in pending
      <4> HIDE DEF Told
      <4> QED
        BY <2>1, <3>1, <3>2 DEF Known
    <3>3. CASE p \notin pending
      <4>1. IssuedFor(p)
        BY <3>3 DEF Asks
      <4>2. p.room \in Rooms /\ p.client \in Clients
        BY DEF TypeOK, Command
      <4>3. Told(l)
        BY <3>1, <4>1, <4>2 DEF IssuedFor
      <4> QED
        BY <2>1, <4>3
    <3> QED
      BY <3>2, <3>3
  <2> QED
    BY <2>2, <2>3
<1>2. ASSUME NEW l, l \in Leg, l \in Known \/ Told(l)
      PROVE  LET room == rooms[l.room]
                 last == lifecycle[l.room][l.client]
             IN  /\ l.lifecycle <= last
                 /\ l.lifecycle = last /\ l.client \in room.members /\ room.assigned # None =>
                      l.instance = room.assigned /\ l.assignment_epoch = room.assignment_epoch
  <2>1. CASE l \in Known
    BY <2>1 DEF LegsOK, KnownCurrent
  <2>2. CASE Told(l)
    <3>1. PICK r \in Rooms, c \in Clients : l = LegFor(r, c)
      BY <2>2
    <3>2. lifecycle[r][c] \in Nat
      BY <1>0
    <3> QED
      BY <3>1, <3>2 DEF LegFor
  <2> QED
    BY <1>2, <2>1, <2>2
<1>3. KnownCurrent'
  <2> SUFFICES ASSUME NEW l \in Known'
               PROVE  LET room == rooms'[l.room]
                          last == lifecycle'[l.room][l.client]
                      IN  /\ l.lifecycle <= last
                          /\ l.lifecycle = last /\ l.client \in room.members
                             /\ room.assigned # None =>
                               /\ l.instance = room.assigned
                               /\ l.assignment_epoch = room.assignment_epoch
    BY DEF KnownCurrent
  <2>1. l \in Leg /\ (l \in Known \/ Told(l))
    BY <1>1
  <2>2. StayFields(rooms[l.room], rooms'[l.room])
    BY <2>1, StayAlways DEF Leg
  <2> HIDE DEF Told
  <2> QED
    BY <1>2, <2>1, <2>2 DEF StayFields, SameAssignment, Asks
<1>4. KnownOnce'
  <2> SUFFICES ASSUME NEW l \in Known', NEW m \in Known',
                      l.room = m.room, l.client = m.client, l.lifecycle = m.lifecycle
               PROVE  l = m
    BY DEF KnownOnce
  <2>1. /\ l \in Leg /\ (l \in Known \/ Told(l))
        /\ m \in Leg /\ (m \in Known \/ Told(m))
    BY <1>1
  <2>a. ASSUME NEW x \in Leg, Told(x)
        PROVE  /\ x.client \in rooms[x.room].members /\ rooms[x.room].assigned # None
               /\ x.instance = rooms[x.room].assigned
               /\ x.assignment_epoch = rooms[x.room].assignment_epoch
               /\ x.lifecycle = lifecycle[x.room][x.client]
    BY <2>a DEF LegFor
  <2> HIDE DEF Told
  <2>2. CASE l \in Known /\ m \in Known
    BY <2>2 DEF LegsOK, KnownOnce
  <2>3. CASE Told(l) \/ Told(m)
    <3>1. l.instance = m.instance /\ l.assignment_epoch = m.assignment_epoch
      BY <1>2, <2>1, <2>3, <2>a
    <3> QED
      BY <2>1, <3>1, SameLeg
  <2> QED
    BY <2>1, <2>2, <2>3
<1> QED
  BY <1>3, <1>4 DEF LegsOK

\* A command made for a member on the assigned worker is issued for it.
LEMMA MadeIssued ==
  ASSUME NEW kind, NEW r, NEW c, c \in rooms[r].members, rooms[r].assigned # None
  PROVE  IssuedFor(MakeCommand(kind, rooms[r].assigned, r, c, lifecycle[r][c],
                               rooms[r].assignment_epoch))
BY DEF IssuedFor, MakeCommand, TheLeg, LegFor

\* The commands of the operations are.
LEMMA LeaveIssued ==
  ASSUME NEW r, NEW c, c \in rooms[r].members, Connected(rooms[r].assigned)
  PROVE  IssuedFor(LeaveCommand(r, c))
BY MadeIssued DEF LeaveCommand, Connected

LEMMA AbortLeavesIssued ==
  ASSUME TypeOK, NEW r \in Rooms, NEW p \in AbortLeaves(r)
  PROVE  IssuedFor(p)
<1> DEFINE room == rooms[r]
           joined == room.upgrade.joined
<1>1. /\ Connected(room.assigned)
      /\ \E i \in DOMAIN joined :
           /\ Present(room, i)
           /\ p = MakeCommand("Cleanup", room.assigned, r, joined[i],
                              lifecycle[r][joined[i]], room.assignment_epoch)
  BY DEF AbortLeaves
<1>2. PICK i \in DOMAIN joined :
        /\ Present(room, i)
        /\ p = MakeCommand("Cleanup", room.assigned, r, joined[i],
                           lifecycle[r][joined[i]], room.assignment_epoch)
  BY <1>1
<1>3. joined[i] \in Aborted(room).members
  <2>1. joined \in Seq(Clients)
    BY DEF TypeOK, Room, Upgrade
  <2>2. i \in 1..i
    BY <2>1
  <2> QED
    BY <1>2, <2>2 DEF Present
<1>4. Aborted(room).members \subseteq room.members
  <2>1. room \in Room
    BY DEF TypeOK
  <2>2. DropMembers(room, {room.upgrade.joining}) \in Room
    BY <2>1, DropMembersType
  <2>3. DropMembers(room, {room.upgrade.joining}).members \subseteq room.members
    BY <2>1 DEF DropMembers, Room
  <2> HIDE DEF room
  <2> QED
    BY <2>2, <2>3 DEF Aborted, Room
<1> QED
  BY <1>1, <1>2, <1>3, <1>4, MadeIssued DEF Connected

LEMMA DowngradeLeavesIssued ==
  ASSUME NEW r, NEW p \in DowngradeLeaves(r)
  PROVE  IssuedFor(p)
BY MadeIssued DEF DowngradeLeaves, Connected

LEMMA NextUpgradeJoinIssued ==
  ASSUME NEW q, NEW p \in NextUpgradeJoin(q)
  PROVE  IssuedFor(p)
BY MadeIssued DEF NextUpgradeJoin, Connected

\* The three ways a step treats the commands and the legs.
LEMMA IssueAsks ==
  ASSUME NEW cmds, Issue(cmds), \A p \in cmds : IssuedFor(p),
         lifecycle' = lifecycle, legs' = legs
  PROVE  Asks
BY DEF Issue, Asks

LEMMA SettleAsks ==
  ASSUME WireOK, NEW p \in wire, NEW cmds, SettleAndIssue(p, cmds),
         \A q \in cmds : IssuedFor(q),
         lifecycle' = lifecycle, legs' \subseteq legs \cup LegOf(p)
  PROVE  Asks
BY DEF SettleAndIssue, Asks, WireOK, LegOf, TheLeg

LEMMA QuietAsks ==
  ASSUME pending' \subseteq pending, legs' \subseteq legs, lifecycle' = lifecycle
  PROVE  Asks
BY DEF Asks

LEMMA ResultAsks ==
  ASSUME TypeOK, WireOK, NEW p \in wire, Result(p)
  PROVE  Asks
<1>0. p.room \in Rooms /\ \A q \in {} : IssuedFor(q)
  BY DEF TypeOK, Command
<1>1. CASE UpgradeJoinMore(p)
  BY <1>1, SettleAsks, NextUpgradeJoinIssued DEF UpgradeJoinMore
<1>2. CASE UpgradeJoinLast(p)
  BY <1>0, <1>2, SettleAsks DEF UpgradeJoinLast
<1>3. CASE UpgradeJoinErr(p)
  BY <1>0, <1>3, SettleAsks, AbortLeavesIssued DEF UpgradeJoinErr
<1>4. CASE SfuJoinOk(p) \/ SfuJoinErr(p)
  BY <1>0, <1>4, SettleAsks DEF SfuJoinOk, SfuJoinErr
<1>5. CASE SfuLeaveOk(p) \/ SfuLeaveErr(p)
  BY <1>0, <1>5, SettleAsks DEF SfuLeaveOk, SfuLeaveErr
<1>6. CASE SettleOnly(p)
  <2>1. SettleAndIssue(p, {}) /\ lifecycle' = lifecycle /\ legs' \subseteq legs \cup LegOf(p)
    BY <1>6 DEF SettleOnly
  <2> QED
    BY <1>0, <2>1, SettleAsks
<1> QED
  BY <1>1, <1>2, <1>3, <1>4, <1>5, <1>6 DEF Result

LEMMA ClientAsks ==
  ASSUME NEW r \in Rooms, NEW c \in Clients,
         \/ Register(r, c) \/ Deregister(r, c) \/ SendSfu(r, c) \/ SendQueued(r, c)
         \/ RemoveNow(r, c) \/ RemoveSfu(r, c)
  PROVE  Asks
<1>1. CASE Register(r, c) \/ SendQueued(r, c) \/ RemoveNow(r, c)
  BY <1>1, QuietAsks DEF Register, SendQueued, RemoveNow
<1>2. CASE Deregister(r, c)
  <2>1. CASE CanIssueLeave(r, c)
    BY <1>2, <2>1, IssueAsks, LeaveIssued DEF Deregister, CanIssueLeave
  <2>2. CASE ~CanIssueLeave(r, c)
    BY <1>2, <2>2, QuietAsks DEF Deregister
  <2> QED
    BY <2>1, <2>2
<1>3. CASE SendSfu(r, c)
  <2>1. /\ c \in rooms[r].members /\ rooms[r].assigned # None
        /\ Issue({MakeCommand("Signal", rooms[r].assigned, r, c, lifecycle[r][c],
                              rooms[r].assignment_epoch)})
        /\ lifecycle' = lifecycle /\ legs' = legs
    BY <1>3 DEF SendSfu, Connected
  <2> QED
    BY <2>1, MadeIssued, IssueAsks
<1>4. CASE RemoveSfu(r, c)
  BY <1>4, IssueAsks, LeaveIssued DEF RemoveSfu
<1> QED
  BY <1>1, <1>2, <1>3, <1>4

LEMMA ExpiryAsks ==
  ASSUME TypeOK, NEW w \in due, expire_worker(w)
  PROVE  Asks
<1> DEFINE mine == {r \in workers[w].rooms : rooms[r].mode # "Absent"}
           aborted == {r \in mine : rooms[r].mode = "Upgrading"}
           leaves == UNION {AbortLeaves(r) : r \in aborted}
<1>1. /\ pending' = (pending \cup leaves) \ OfWorker(w, pending \cup leaves)
      /\ lifecycle' = lifecycle /\ legs' \subseteq legs
  BY DEF expire_worker
<1>2. \A r \in aborted : r \in Rooms
  BY DEF TypeOK, Worker
<1>3. ASSUME NEW p \in leaves PROVE IssuedFor(p)
  <2>1. PICK r \in aborted : p \in AbortLeaves(r)
    <3> HIDE DEF aborted
    <3> QED
      BY Zenon
  <2> HIDE DEF aborted
  <2> QED
    BY <1>2, <2>1, AbortLeavesIssued
<1> HIDE DEF leaves
<1> QED
  BY <1>1, <1>3 DEF Asks

LEMMA SweepAsks ==
  ASSUME TypeOK, NEW r \in Rooms, SweepRoom(r)
  PROVE  Asks
<1>0. lifecycle' = lifecycle /\ legs' = legs
  BY DEF SweepRoom
<1>1. CASE SweepDowngrade(r)
  <2>1. Issue(DowngradeLeaves(r)) \/ pending' = pending
    BY <1>1 DEF SweepDowngrade
  <2> QED
    BY <1>0, <2>1, IssueAsks, QuietAsks, DowngradeLeavesIssued
<1>2. CASE SweepSfu(r)
  <2>1. \/ \E c : CanIssueLeave(r, c) /\ Issue({LeaveCommand(r, c)})
        \/ pending' = pending
    BY <1>2 DEF SweepSfu
  <2>2. ASSUME NEW c, CanIssueLeave(r, c), Issue({LeaveCommand(r, c)})
        PROVE  Asks
    BY <1>0, <2>2, IssueAsks, LeaveIssued DEF CanIssueLeave
  <2> QED
    BY <1>0, <2>1, <2>2, QuietAsks
<1>3. CASE SweepP2p(r)
  BY <1>0, <1>3, QuietAsks DEF SweepP2p
<1> QED
  BY <1>1, <1>2, <1>3 DEF SweepRoom

\* Every step but an admission.
LEMMA AsksOrAdmits ==
  ASSUME TypeOK, WireOK, [Next]_vars
  PROVE  \/ Asks
         \/ \E r \in Rooms, c \in Clients :
              AdmitFirst(r, c) \/ AdmitP2p(r, c) \/ AdmitUpgrade(r, c) \/ AdmitSfu(r, c)
<1>1. CASE UNCHANGED vars
  BY <1>1, QuietAsks DEF vars
<1>2. CASE Browser \/ WebServer
  BY <1>2, ClientAsks DEF Browser, WebServer
<1>3. ASSUME NEW s, SyncOk(s) \/ SyncErr(s)
      PROVE  Asks
  BY <1>3, QuietAsks DEF SyncOk, SyncErr
<1>4. CASE WorkerStream
  <2>1. ASSUME NEW w \in Workers, NEW k, NEW x, NEW y,
               \/ register_worker(w, k, x) \/ WorkerDisconnected(w, k)
               \/ WorkerHealth(w, x, y) \/ WorkerFailure(w, x)
        PROVE  Asks
    BY <2>1, QuietAsks DEF register_worker, WorkerDisconnected, WorkerHealth, WorkerFailure
  <2> QED
    BY <1>4, <2>1 DEF WorkerStream
<1>5. CASE Tick \/ clear \/ StartSweep
  BY <1>5, QuietAsks DEF Tick, clear, StartSweep
<1>6. CASE HandleTimeout
  <2>1. unswept \subseteq Rooms
    BY DEF TypeOK
  <2> QED
    BY <1>5, <1>6, <2>1, ExpiryAsks, SweepAsks DEF HandleTimeout
<1> QED
  BY <1>1, <1>2, <1>3, <1>4, <1>5, <1>6, ResultAsks DEF Next, Operation, WorkerAnswer

\* An admission: the clients of S start a lifecycle in room r, under the
\* assignment the room has or gets.
Starts(r, S) ==
  /\ lifecycle' = NextLifecycle(r, S) /\ legs' = legs
  /\ \A q \in Rooms \ {r} : rooms'[q] = rooms[q]
  /\ rooms'[r].members \subseteq rooms[r].members \cup S
  /\ SameAssignment(rooms[r], rooms'[r]) \/ rooms'[r].members \subseteq S
  /\ \A p \in pending' \ pending :
       /\ p.room = r /\ p.client \in S
       /\ p.instance = rooms'[r].assigned
       /\ p.lifecycle = lifecycle'[r][p.client]
       /\ p.assignment_epoch = rooms'[r].assignment_epoch

LEMMA AdmitStarts ==
  ASSUME TypeOK, NEW r \in Rooms, NEW c \in Clients,
         AdmitFirst(r, c) \/ AdmitP2p(r, c) \/ AdmitUpgrade(r, c) \/ AdmitSfu(r, c)
  PROVE  \E S \in SUBSET Clients : Starts(r, S)
<1>0. rooms \in [Rooms -> Room] /\ rooms[r] \in Room /\ AbsentRoom \in Room
  BY ConstantTypes DEF TypeOK
<1>a. /\ AddMember(rooms[r], c) \in Room
      /\ AddMember(rooms[r], c).members = rooms[r].members \cup {c}
      /\ SameAssignment(rooms[r], AddMember(rooms[r], c))
  BY <1>0, AddMemberType DEF AddMember, Room, SameAssignment
<1>1. CASE AdmitFirst(r, c)
  <2> DEFINE next == [AddMember(AbsentRoom, c) EXCEPT !.mode = "P2p", !.initiators = {c}]
  <2>1. next.members = {c}
    BY <1>0 DEF AddMember, AbsentRoom
  <2>2. rooms' = [rooms EXCEPT ![r] = next]
    BY <1>1 DEF AdmitFirst
  <2> HIDE DEF next
  <2>3. rooms'[r].members = {c} /\ \A q \in Rooms \ {r} : rooms'[q] = rooms[q]
    BY <1>0, <2>1, <2>2
  <2>4. lifecycle' = NextLifecycle(r, {c}) /\ legs' = legs /\ pending' = pending
    BY <1>1 DEF AdmitFirst
  <2>5. Starts(r, {c})
    BY <2>3, <2>4 DEF Starts
  <2> QED
    BY <2>5
<1>2. CASE AdmitP2p(r, c)
  <2>2. rooms' = [rooms EXCEPT ![r] = AddMember(rooms[r], c)]
    BY <1>2 DEF AdmitP2p
  <2>3. /\ rooms'[r] = AddMember(rooms[r], c)
        /\ \A q \in Rooms \ {r} : rooms'[q] = rooms[q]
    BY <1>0, <2>2
  <2>4. lifecycle' = NextLifecycle(r, {c}) /\ legs' = legs /\ pending' = pending
    BY <1>2 DEF AdmitP2p
  <2>5. Starts(r, {c})
    BY <1>a, <2>3, <2>4 DEF Starts
  <2> QED
    BY <2>5
<1>3. CASE AdmitUpgrade(r, c)
  <2> DEFINE all == rooms[r].members \cup {c}
             first == NextJoin(all, c)
             ae == rooms[r].assignment_epoch + 1
  <2>1. PICK w \in Workers :
          /\ rooms' = [rooms EXCEPT ![r] = [AddMember(rooms[r], c) EXCEPT
               !.mode = "Upgrading",
               !.assignment_epoch = ae,
               !.assigned = w,
               !.upgrade = [joining |-> c, todo |-> all, joined |-> <<>>]]]
          /\ Issue({MakeCommand("UpgradeJoin", w, r, first, lifecycle'[r][first], ae)})
    BY <1>3 DEF AdmitUpgrade
  <2>2. lifecycle' = NextLifecycle(r, all) /\ legs' = legs
    BY <1>3 DEF AdmitUpgrade
  <2>3. first \in all
    <3>1. all \subseteq Clients
      BY <1>0 DEF Room
    <3>2. IsFiniteSet(all \ {c}) /\ all \ {c} \subseteq Nat
      BY <3>1, FS_Subset, IdsAssumption
    <3>3. all \ {c} # {} => Min(all \ {c}) \in all \ {c}
      BY <3>2, MinIsElement
    <3> QED
      BY <3>3 DEF NextJoin
  <2>4. /\ rooms'[r].members = all /\ rooms'[r].assigned = w
        /\ rooms'[r].assignment_epoch = ae
        /\ \A q \in Rooms \ {r} : rooms'[q] = rooms[q]
    <3> HIDE DEF ae
    <3> QED
      BY <1>0, <1>a, <2>1 DEF Room
  <2>5. all \in SUBSET Clients
    BY <1>0 DEF Room
  <2> HIDE DEF all, first, ae
  <2>6. \A p \in pending' \ pending :
          p = MakeCommand("UpgradeJoin", w, r, first, lifecycle'[r][first], ae)
    BY <2>1 DEF Issue
  <2>7. Starts(r, all)
    BY <2>2, <2>3, <2>4, <2>6 DEF Starts, MakeCommand
  <2> QED
    BY <2>5, <2>7
<1>4. CASE AdmitSfu(r, c)
  <2> DEFINE next == [AddMember(rooms[r], c) EXCEPT !.pending_join = c,
                                                    !.downgrade_deadline = None]
  <2>1. next.members = rooms[r].members \cup {c} /\ SameAssignment(rooms[r], next)
    BY <1>a DEF Room, SameAssignment
  <2>2. rooms' = [rooms EXCEPT ![r] = next]
    BY <1>4 DEF AdmitSfu
  <2> HIDE DEF next
  <2>3. rooms'[r] = next /\ \A q \in Rooms \ {r} : rooms'[q] = rooms[q]
    BY <1>0, <2>2
  <2>4. /\ lifecycle' = NextLifecycle(r, {c}) /\ legs' = legs
        /\ Issue({MakeCommand("SfuJoin", rooms[r].assigned, r, c, lifecycle'[r][c],
                              rooms[r].assignment_epoch)})
    BY <1>4 DEF AdmitSfu
  <2>5. \A p \in pending' \ pending :
          p = MakeCommand("SfuJoin", rooms[r].assigned, r, c, lifecycle'[r][c],
                          rooms[r].assignment_epoch)
    BY <2>4 DEF Issue
  <2>6. Starts(r, {c})
    BY <2>1, <2>3, <2>4, <2>5 DEF Starts, MakeCommand, SameAssignment
  <2> QED
    BY <2>6
<1> QED
  BY <1>1, <1>2, <1>3, <1>4

\* LegsOK outlives an admission: what it asks for is new to every worker.
LEMMA StartsLegs ==
  ASSUME TypeOK, TypeOK', LegsOK, NEW r \in Rooms, NEW S \in SUBSET Clients, Starts(r, S)
  PROVE  LegsOK'
<1>0. /\ rooms \in [Rooms -> Room] /\ lifecycle \in [Rooms -> [Clients -> Nat]]
      /\ lifecycle' \in [Rooms -> [Clients -> Nat]]
  BY DEF TypeOK
<1>a. /\ \A c \in S : lifecycle'[r][c] = lifecycle[r][c] + 1
      /\ \A q \in Rooms, c \in Clients :
           q # r \/ c \notin S => lifecycle'[q][c] = lifecycle[q][c]
  BY <1>0 DEF Starts, NextLifecycle
<1> DEFINE New(l) == /\ l.room = r /\ l.client \in S
                     /\ l.instance = rooms'[r].assigned
                     /\ l.lifecycle = lifecycle'[r][l.client]
                     /\ l.assignment_epoch = rooms'[r].assignment_epoch
<1>1. ASSUME NEW l \in Known'
      PROVE  l \in Leg /\ (l \in Known \/ New(l))
  <2>1. l \in Leg
    BY KnownTypeNext
  <2>2. CASE l \in legs'
    BY <2>1, <2>2 DEF Starts, Known
  <2>3. CASE l \notin legs'
    <3>1. PICK p \in pending' : l = TheLeg(p)
      BY <2>3 DEF Known, TheLeg
    <3>2. p \in pending => l \in Known
      BY <3>1 DEF Known
    <3>3. p \notin pending => New(l)
      BY <3>1 DEF Starts, TheLeg
    <3> QED
      BY <2>1, <3>2, <3>3
  <2> QED
    BY <2>2, <2>3
<1>2. ASSUME NEW l \in Leg, l \in Known
      PROVE  /\ l.room \in Rooms /\ l.client \in Clients
             /\ l.lifecycle <= lifecycle[l.room][l.client]
             /\ lifecycle[l.room][l.client] <= lifecycle'[l.room][l.client]
             /\ l.lifecycle \in Nat
             /\ l.room = r /\ l.client \in S => l.lifecycle < lifecycle'[r][l.client]
  <2>1. /\ l.room \in Rooms /\ l.client \in Clients /\ l.lifecycle \in Nat
        /\ l.lifecycle <= lifecycle[l.room][l.client]
    BY <1>2 DEF LegsOK, KnownCurrent, Leg
  <2>2. lifecycle[l.room][l.client] \in Nat
    BY <1>0, <2>1
  <2> QED
    BY <1>a, <2>1, <2>2
<1>3. KnownCurrent'
  <2> SUFFICES ASSUME NEW l \in Known'
               PROVE  LET room == rooms'[l.room]
                          last == lifecycle'[l.room][l.client]
                      IN  /\ l.lifecycle <= last
                          /\ l.lifecycle = last /\ l.client \in room.members
                             /\ room.assigned # None =>
                               /\ l.instance = room.assigned
                               /\ l.assignment_epoch = room.assignment_epoch
    BY DEF KnownCurrent
  <2>1. l \in Leg /\ (l \in Known \/ New(l))
    BY <1>1
  <2>2. CASE New(l)
    <3>1. lifecycle'[r][l.client] \in Nat
      BY <1>0, <2>1, <2>2
    <3> QED
      BY <2>2, <3>1
  <2>3. CASE l \in Known /\ l.room = r /\ l.client \in S
    BY <1>0, <1>2, <2>1, <2>3
  <2>4. CASE l \in Known /\ ~(l.room = r /\ l.client \in S)
    <3>1. /\ l.room \in Rooms /\ l.client \in Clients
          /\ lifecycle'[l.room][l.client] = lifecycle[l.room][l.client]
      BY <1>2, <1>a, <2>1, <2>4
    <3>2. l.client \in rooms'[l.room].members =>
            /\ l.client \in rooms[l.room].members
            /\ rooms'[l.room].assigned = rooms[l.room].assigned
            /\ rooms'[l.room].assignment_epoch = rooms[l.room].assignment_epoch
      BY <2>4, <3>1 DEF Starts, SameAssignment
    <3>3. LET room == rooms[l.room]
              last == lifecycle[l.room][l.client]
          IN  /\ l.lifecycle <= last
              /\ l.lifecycle = last /\ l.client \in room.members /\ room.assigned # None =>
                   l.instance = room.assigned /\ l.assignment_epoch = room.assignment_epoch
      BY <2>4 DEF LegsOK, KnownCurrent
    <3> QED
      BY <3>1, <3>2, <3>3
  <2> HIDE DEF New
  <2> QED
    BY <2>1, <2>2, <2>3, <2>4
<1>4. KnownOnce'
  <2> SUFFICES ASSUME NEW l \in Known', NEW m \in Known',
                      l.room = m.room, l.client = m.client, l.lifecycle = m.lifecycle
               PROVE  l = m
    BY DEF KnownOnce
  <2>1. /\ l \in Leg /\ (l \in Known \/ New(l))
        /\ m \in Leg /\ (m \in Known \/ New(m))
    BY <1>1
  <2>2. CASE l \in Known /\ m \in Known
    BY <2>2 DEF LegsOK, KnownOnce
  <2>3. CASE New(l) /\ New(m)
    BY <2>1, <2>3, SameLeg
  <2>4. ASSUME NEW x \in Leg, NEW y \in Leg, x \in Known, New(y),
               x.room = y.room, x.client = y.client
        PROVE  x.lifecycle # y.lifecycle
    <3>1. x.lifecycle < lifecycle'[r][x.client] /\ x.lifecycle \in Nat
      BY <1>2, <2>4
    <3>2. y.lifecycle = lifecycle'[r][x.client] /\ y.lifecycle \in Nat
      BY <2>4 DEF Leg
    <3> HIDE DEF New
    <3> QED
      BY <3>1, <3>2
  <2> HIDE DEF New
  <2> QED
    BY <2>1, <2>2, <2>3, <2>4
<1> QED
  BY <1>3, <1>4 DEF LegsOK

\* Every step.
LEMMA LegsInductive ==
  /\ Init => LegsOK
  /\ TypeOK /\ TypeOK' /\ RoomsOK /\ WireOK /\ LegsOK /\ [Next]_vars => LegsOK'
<1>1. Init => LegsOK
  BY DEF Init, LegsOK, KnownCurrent, KnownOnce, Known
<1>2. ASSUME TypeOK, TypeOK', RoomsOK, WireOK, LegsOK, [Next]_vars
      PROVE  LegsOK'
  <2>1. CASE NoAdmission /\ Asks
    BY <1>2, <2>1, AsksLegs
  <2>2. ASSUME NEW r \in Rooms, NEW c \in Clients,
               AdmitFirst(r, c) \/ AdmitP2p(r, c) \/ AdmitUpgrade(r, c) \/ AdmitSfu(r, c)
        PROVE  LegsOK'
    BY <1>2, <2>2, AdmitStarts, StartsLegs
  <2> QED
    BY <1>2, <2>1, <2>2, AdmittedOrNot, AsksOrAdmits
<1> QED
  BY <1>1, <1>2

THEOREM LegsSafe == Spec => []LegsOK
<1>1. Spec => []TypeOK /\ []RoomsOK /\ []WireOK
  BY TypeCorrect, RoomsSafe, WireSafe
<1> QED
  BY <1>1, LegsInductive, PTL DEF Spec

\* A worker can tell the commands of an earlier upgrade from those of the
\* current one: a lifecycle id is joined under one assignment only.
THEOREM LifecyclesFresh == Spec => []LifecycleFresh
<1>1. LegsOK => LifecycleFresh
  <2>1. UNION {LegOf(p) : p \in pending} = {TheLeg(p) : p \in pending}
    <3>1. \A p : LegOf(p) = {TheLeg(p)}
      BY DEF LegOf, TheLeg
    <3> QED
      BY <3>1, Zenon
  <2> QED
    BY <2>1 DEF LegsOK, KnownOnce, Known, LifecycleFresh
<1> QED
  BY <1>1, LegsSafe, PTL

-----------------------------------------------------------------------------
(***************************************************************************)
(* What a room and its worker owe each other: WorkerBooks, BarrierCommand  *)
(* and GateInFlight, in a room no worker reports as failed.                *)
(***************************************************************************)

Hosted(room) == room.mode \in {"Upgrading", "Sfu"}

\* A command about the current membership of c under the current assignment.
Current(kind, r, c) ==
  MakeCommand(kind, rooms[r].assigned, r, c, lifecycle[r][c], rooms[r].assignment_epoch)

NextClient(room) == NextJoin(room.upgrade.todo, room.upgrade.joining)

OnBooks(r) ==
  \A w \in Workers :
    r \in workers[w].rooms <=> rooms[r].assigned = w /\ Hosted(rooms[r])

\* An outstanding leave is the one the room waits for.
LeaveExact(r) ==
  \A p \in pending : p.room = r /\ p.kind = "SfuLeave" =>
    /\ rooms[r].mode = "Sfu" /\ rooms[r].pending_leave # NoLeave
    /\ p = Current("SfuLeave", r, rooms[r].pending_leave.client)

\* An outstanding join of an upgrade is the one the barrier waits for.
UpgradeExact(r) ==
  \A p \in pending : p.room = r /\ p.kind = "UpgradeJoin" =>
    rooms[r].mode = "Upgrading" /\ p = Current("UpgradeJoin", r, NextClient(rooms[r]))

\* Those still to join are members, the newcomer the last of them.
TodoOK(room) ==
  room.mode = "Upgrading" =>
    room.upgrade.todo \subseteq room.members /\ room.upgrade.joining \in room.upgrade.todo

\* The command the room waits for reaches its worker.
Gated(r) ==
  /\ rooms[r].mode = "Upgrading" =>
       Travelling(Current("UpgradeJoin", r, NextClient(rooms[r])))
  /\ rooms[r].pending_join # None => Travelling(Current("SfuJoin", r, rooms[r].pending_join))
  /\ rooms[r].pending_leave # NoLeave =>
       Travelling(Current("SfuLeave", r, rooms[r].pending_leave.client))

DutyOK(r) ==
  OnBooks(r) /\ LeaveExact(r) /\ UpgradeExact(r) /\ TodoOK(rooms[r]) /\ Gated(r)

\* A SyncRoom replays the commands of its room on its worker only.
ReplayOK == \A s \in syncs : \A p \in s.replay : p.room = s.room /\ p.instance = s.instance

DutiesOK == ReplayOK /\ \A r \in Rooms \ Failable : DutyOK(r)

Alike(room, next) ==
  /\ next.mode = room.mode /\ next.members = room.members
  /\ next.assigned = room.assigned /\ next.assignment_epoch = room.assignment_epoch
  /\ next.upgrade = room.upgrade
  /\ next.pending_join = room.pending_join /\ next.pending_leave = room.pending_leave

AskKinds == {"UpgradeJoin", "SfuJoin", "SfuLeave"}

\* p travels after the step.
StillTravelling(p) ==
  /\ p \in pending'
  /\ p.instance # None /\ workers'[p.instance].conn # None =>
       p \in wire' \/ \E s \in syncs' : p \in s.replay

\* A step that leaves the dealings of room r with its worker and with the web
\* server as they are.
Still(r) ==
  /\ Alike(rooms[r], rooms'[r]) /\ lifecycle'[r] = lifecycle[r]
  /\ \A w \in Workers : r \in workers'[w].rooms <=> r \in workers[w].rooms
  /\ \A p \in pending' : p.room = r /\ p.kind # "Signal" => p \in pending
  /\ Hosted(rooms[r]) =>
       /\ \A p \in pending : p.room = r /\ p.kind \in AskKinds
                             /\ p.instance = rooms[r].assigned /\ Travelling(p) =>
            StillTravelling(p)
       /\ \A l \in legs : l.room = r /\ l.instance = rooms[r].assigned => l \in legs'
  /\ \A q \in Request : q.room = r => (q \in open' <=> q \in open)

\* Nobody waits in a room that is not hosted.
LEMMA BareAwaitsNothing ==
  ASSUME NEW room \in Room, MembersOK(room), RolesOK(room), ~Hosted(room)
  PROVE  /\ room.pending_join = None /\ room.pending_leave = NoLeave
         /\ room.mode \in {"Absent", "P2p", "Failed"}
BY DEF Hosted, MembersOK, AwaitingOK, RolesOK, Room, Modes

LEMMA StillDuty ==
  ASSUME TypeOK, NEW r \in Rooms, MembersOK(rooms[r]), RolesOK(rooms[r]), DutyOK(r), Still(r)
  PROVE  DutyOK(r)'
<1> DEFINE room == rooms[r]
           next == rooms'[r]
<1>0. Alike(room, next) /\ lifecycle'[r] = lifecycle[r] /\ room \in Room
  BY DEF Still, TypeOK
<1>1. OnBooks(r)'
  BY <1>0 DEF DutyOK, OnBooks, Still, Alike, Hosted
<1>a. \A kind, c : Current(kind, r, c)' = Current(kind, r, c)
  BY <1>0 DEF Current, Alike
<1>2. LeaveExact(r)'
  BY <1>0, <1>a DEF DutyOK, LeaveExact, Still, Alike
<1>3. UpgradeExact(r)'
  BY <1>0, <1>a DEF DutyOK, UpgradeExact, Still, Alike, NextClient
<1>4. TodoOK(rooms[r])'
  BY <1>0 DEF DutyOK, TodoOK, Alike
<1>5. Gated(r)'
  <2>1. ASSUME NEW kind \in AskKinds, NEW c, Hosted(room), Travelling(Current(kind, r, c))
        PROVE  Travelling(Current(kind, r, c))'
    <3>1. /\ Current(kind, r, c) \in pending
          /\ Current(kind, r, c).room = r /\ Current(kind, r, c).kind = kind
          /\ Current(kind, r, c).instance = room.assigned
      BY <2>1 DEF Travelling, Current, MakeCommand
    <3>2. StillTravelling(Current(kind, r, c))
      BY <2>1, <3>1 DEF Still
    <3> QED
      BY <1>a, <3>2 DEF StillTravelling, Travelling, Connected
  <2>2. ~Hosted(room) => room.pending_join = None /\ room.pending_leave = NoLeave
    BY <1>0, BareAwaitsNothing
  <2> QED
    BY <1>0, <1>a, <2>1, <2>2 DEF DutyOK, Gated, Alike, NextClient, Hosted, AskKinds
<1> QED
  BY <1>1, <1>2, <1>3, <1>4, <1>5 DEF DutyOK


\* A step that concerns room r only.
CommandsElse(r) ==
  \A p \in Command : p.room # r =>
    (p \in pending' <=> p \in pending) /\ (p \in wire' <=> p \in wire)

RoomsElse(r) ==
  \A q \in Rooms \ {r} : rooms'[q] = rooms[q] /\ lifecycle'[q] = lifecycle[q]

BooksElse(r) ==
  \A w \in Workers :
    workers'[w].conn = workers[w].conn /\ workers'[w].rooms \ {r} = workers[w].rooms \ {r}

LegsElse(r) == \A l \in legs : l.room # r => l \in legs'

OpenElse(r) == \A q \in Request : q.room # r => (q \in open' <=> q \in open)

Only(r) ==
  CommandsElse(r) /\ RoomsElse(r) /\ BooksElse(r) /\ LegsElse(r) /\ OpenElse(r) /\ syncs' = syncs

LEMMA OnlyStill ==
  ASSUME TypeOK, TypeOK', NEW r \in Rooms, Only(r), NEW q \in Rooms \ {r}
  PROVE  Still(q)
<1>1. Alike(rooms[q], rooms'[q]) /\ lifecycle'[q] = lifecycle[q]
  BY DEF Only, RoomsElse, Alike
<1>2. \A w \in Workers : q \in workers'[w].rooms <=> q \in workers[w].rooms
  BY DEF Only, BooksElse
<1>3. \A p \in pending' : p.room = q => p \in pending
  BY DEF Only, CommandsElse, TypeOK
<1>4. ASSUME NEW p \in pending, p.room = q, Travelling(p)
      PROVE  StillTravelling(p)
  <2>1. p \in Command /\ p.instance \in Workers
    BY DEF TypeOK, Command
  <2>2. p \in pending' /\ (p \in wire => p \in wire')
    BY <1>4, <2>1 DEF Only, CommandsElse
  <2>3. workers'[p.instance].conn = workers[p.instance].conn /\ syncs' = syncs
    BY <2>1 DEF Only, BooksElse
  <2> QED
    BY <1>4, <2>2, <2>3 DEF Travelling, StillTravelling, Connected
<1>5. \A l \in legs : l.room = q => l \in legs'
  BY DEF Only, LegsElse
<1>6. \A x \in Request : x.room = q => (x \in open' <=> x \in open)
  BY DEF Only, OpenElse
<1> QED
  BY <1>1, <1>2, <1>3, <1>4, <1>5, <1>6 DEF Still

\* How the operations treat the commands, the legs and the requests.
LEMMA IssueElse ==
  ASSUME NEW r, NEW cmds, Issue(cmds), \A p \in cmds : p.room = r
  PROVE  CommandsElse(r)
BY DEF Issue, CommandsElse

LEMMA SettleElse ==
  ASSUME NEW p, NEW cmds, SettleAndIssue(p, cmds), \A q \in cmds : q.room = p.room
  PROVE  CommandsElse(p.room)
BY DEF SettleAndIssue, CommandsElse

LEMMA SameElse ==
  ASSUME NEW r
  PROVE  /\ UNCHANGED <<pending, wire>> => CommandsElse(r)
         /\ workers' = workers => BooksElse(r)
         /\ legs' = legs => LegsElse(r)
         /\ open' = open => OpenElse(r)
BY DEF CommandsElse, BooksElse, LegsElse, OpenElse

LEMMA AnswerElse ==
  ASSUME NEW r, NEW answers, \A q \in answers : q.room = r,
         open' = open \ answers \/ open' = open \cup answers
  PROVE  OpenElse(r)
BY DEF OpenElse

LEMMA LegElse ==
  ASSUME NEW p, legs' = legs \cup LegOf(p) \/ legs' = legs \ LegOf(p)
  PROVE  LegsElse(p.room)
BY DEF LegsElse, LegOf

LEMMA RoomElse ==
  ASSUME TypeOK, NEW r \in Rooms, NEW next, rooms' = [rooms EXCEPT ![r] = next],
         \/ lifecycle' = lifecycle
         \/ \E S : lifecycle' = NextLifecycle(r, S)
  PROVE  RoomsElse(r) /\ rooms'[r] = next
<1>1. rooms \in [Rooms -> Room] /\ lifecycle \in [Rooms -> [Clients -> Nat]]
  BY DEF TypeOK
<1> QED
  BY <1>1 DEF RoomsElse, NextLifecycle


\* The commands of an operation are about its room.
LEMMA CommandRooms ==
  /\ \A kind, w, r, c, lc, ae : MakeCommand(kind, w, r, c, lc, ae).room = r
  /\ \A r, c : LeaveCommand(r, c).room = r
  /\ \A r : \A p \in AbortLeaves(r) \cup DowngradeLeaves(r) : p.room = r
  /\ \A q : \A p \in NextUpgradeJoin(q) : p.room = q.room
<1>1. \A kind, w, r, c, lc, ae : MakeCommand(kind, w, r, c, lc, ae).room = r
  BY DEF MakeCommand
<1> QED
  BY <1>1 DEF LeaveCommand, AbortLeaves, DowngradeLeaves, NextUpgradeJoin

LEMMA AnswerRooms ==
  /\ \A op, r, c : \A q \in Answer(op, r, c) : q.room = r
  /\ \A r : \A q \in AbortAnswer(r) \cup LeaveAnswer(r) \cup ExpiredAnswer(r) : q.room = r
<1>1. \A op, r, c : \A q \in Answer(op, r, c) : q.room = r
  BY DEF Answer
<1> QED
  BY <1>1 DEF AbortAnswer, LeaveAnswer, ExpiredAnswer

\* The web server's requests about another room are left alone.
LEMMA AnsweredElse ==
  ASSUME NEW r,
         \/ \E op, c : open' = open \ Answer(op, r, c)
         \/ open' = open \ AbortAnswer(r) \/ open' = open \ LeaveAnswer(r)
         \/ \E op, c : open' = open \cup Answer(op, r, c)
         \/ \E op, c : open' = open \cup {[op |-> op, room |-> r, client |-> c,
                                         lifecycle |-> lifecycle'[r][c]]}
         \/ open' = open
  PROVE  OpenElse(r)
<1>1. CASE open' = open
  BY <1>1 DEF OpenElse
<1>2. ASSUME NEW op, NEW c, open' = open \ Answer(op, r, c) \/ open' = open \cup Answer(op, r, c)
      PROVE  OpenElse(r)
  BY <1>2 DEF OpenElse, Answer
<1>3. CASE open' = open \ AbortAnswer(r)
  <2>1. \A q \in AbortAnswer(r) : q.room = r
    BY AnswerRooms
  <2> QED
    BY <1>3, <2>1, AnswerElse
<1>4. CASE open' = open \ LeaveAnswer(r)
  <2>1. \A q \in LeaveAnswer(r) : q.room = r
    BY AnswerRooms
  <2> QED
    BY <1>4, <2>1, AnswerElse
<1>5. ASSUME NEW op, NEW c, open' = open \cup {[op |-> op, room |-> r, client |-> c,
                                              lifecycle |-> lifecycle'[r][c]]}
      PROVE  OpenElse(r)
  BY <1>5 DEF OpenElse
<1> QED
  BY <1>1, <1>2, <1>3, <1>4, <1>5

LEMMA AdmitOnly ==
  ASSUME TypeOK, NEW r \in Rooms, NEW c \in Clients,
         AdmitFirst(r, c) \/ AdmitP2p(r, c) \/ AdmitUpgrade(r, c) \/ AdmitSfu(r, c)
  PROVE  Only(r)
<1>1. CASE AdmitFirst(r, c) \/ AdmitP2p(r, c)
  <2>1. RoomsElse(r)
    BY <1>1, RoomElse DEF AdmitFirst, AdmitP2p
  <2> QED
    BY <1>1, <2>1, SameElse DEF AdmitFirst, AdmitP2p, Only
<1>2. CASE AdmitUpgrade(r, c)
  <2>1. RoomsElse(r)
    BY <1>2, RoomElse DEF AdmitUpgrade
  <2>2. CommandsElse(r)
    <3>1. PICK w, c2, lc, ae : Issue({MakeCommand("UpgradeJoin", w, r, c2, lc, ae)})
      BY <1>2 DEF AdmitUpgrade
    <3> QED
      BY <3>1, CommandRooms, IssueElse
  <2>3. BooksElse(r)
    <3>1. PICK w \in Workers :
            workers' = [workers EXCEPT ![w].rooms = @ \cup {r},
                                       ![w].clients = @ + UpgradeClients]
      BY <1>2 DEF AdmitUpgrade
    <3> QED
      BY <3>1 DEF BooksElse, TypeOK, Worker
  <2>4. OpenElse(r)
    <3>1. open' = open \cup {[op |-> "admit", room |-> r, client |-> c,
                              lifecycle |-> lifecycle'[r][c]]}
      BY <1>2 DEF AdmitUpgrade, Answer
    <3> QED
      BY <3>1, AnsweredElse
  <2> QED
    BY <1>2, <2>1, <2>2, <2>3, <2>4, SameElse DEF AdmitUpgrade, Only
<1>3. CASE AdmitSfu(r, c)
  <2>1. RoomsElse(r)
    BY <1>3, RoomElse DEF AdmitSfu
  <2>2. CommandsElse(r)
    BY <1>3, CommandRooms, IssueElse DEF AdmitSfu
  <2>3. OpenElse(r)
    <3>1. open' = open \cup {[op |-> "admit", room |-> r, client |-> c,
                              lifecycle |-> lifecycle'[r][c]]}
      BY <1>3 DEF AdmitSfu, Answer
    <3> QED
      BY <3>1, AnsweredElse
  <2> QED
    BY <1>3, <2>1, <2>2, <2>3, SameElse DEF AdmitSfu, Only
<1> QED
  BY <1>1, <1>2, <1>3

LEMMA ClientOnly ==
  ASSUME TypeOK, NEW r \in Rooms, NEW c \in Clients,
         \/ Register(r, c) \/ Deregister(r, c) \/ SendSfu(r, c) \/ SendQueued(r, c)
         \/ RemoveNow(r, c) \/ RemoveSfu(r, c)
  PROVE  Only(r)
<1>1. CASE Register(r, c) \/ RemoveNow(r, c)
  <2>1. RoomsElse(r)
    BY <1>1, RoomElse DEF Register, RemoveNow
  <2> QED
    BY <1>1, <2>1, SameElse DEF Register, RemoveNow, Only
<1>2. CASE SendQueued(r, c)
  <2>1. RoomsElse(r)
    BY <1>2 DEF SendQueued, RoomsElse, TypeOK
  <2> QED
    BY <1>2, <2>1, SameElse DEF SendQueued, Only
<1>3. CASE Deregister(r, c)
  <2>1. RoomsElse(r)
    BY <1>3, RoomElse DEF Deregister
  <2>2. CommandsElse(r)
    <3>1. Issue({LeaveCommand(r, c)}) \/ UNCHANGED <<pending, wire>>
      BY <1>3 DEF Deregister
    <3> QED
      BY <3>1, CommandRooms, IssueElse, SameElse
  <2> QED
    BY <1>3, <2>1, <2>2, SameElse DEF Deregister, Only
<1>4. CASE SendSfu(r, c)
  <2>1. CommandsElse(r)
    BY <1>4, CommandRooms, IssueElse DEF SendSfu
  <2> QED
    BY <1>4, <2>1, SameElse DEF SendSfu, Only, RoomsElse
<1>5. CASE RemoveSfu(r, c)
  <2>1. RoomsElse(r)
    BY <1>5 DEF RemoveSfu, RoomsElse, TypeOK
  <2>2. CommandsElse(r)
    BY <1>5, CommandRooms, IssueElse DEF RemoveSfu
  <2>3. OpenElse(r)
    BY <1>5, AnsweredElse DEF RemoveSfu
  <2> QED
    BY <1>5, <2>1, <2>2, <2>3, SameElse DEF RemoveSfu, Only
<1> QED
  BY <1>1, <1>2, <1>3, <1>4, <1>5

LEMMA ResultOnly ==
  ASSUME TypeOK, NEW p \in wire, Result(p)
  PROVE  Only(p.room)
<1> DEFINE r == p.room
<1>0. r \in Rooms /\ p.instance \in Workers /\ \A q \in {} : q.room = r
  BY DEF TypeOK, Command
<1>a. workers \in [Workers -> Worker] /\ rooms \in [Rooms -> Room]
  BY DEF TypeOK
<1>1. CASE UpgradeJoinMore(p)
  <2>1. RoomsElse(r)
    <3>1. rooms' = [rooms EXCEPT ![r] = Stepped(p)] /\ lifecycle' = lifecycle
      BY <1>1 DEF UpgradeJoinMore
    <3> QED
      BY <1>a, <3>1 DEF RoomsElse
  <2>2. CommandsElse(r)
    BY <1>1, CommandRooms, SettleElse DEF UpgradeJoinMore
  <2> QED
    BY <1>1, <2>1, <2>2, LegElse, SameElse DEF UpgradeJoinMore, Only
<1>2. CASE UpgradeJoinLast(p)
  <2>1. RoomsElse(r)
    <3>1. /\ rooms' = [rooms EXCEPT ![r] = commit_upgrade(rooms[r])]
          /\ lifecycle' = lifecycle
      BY <1>2 DEF UpgradeJoinLast
    <3> QED
      BY <1>a, <3>1 DEF RoomsElse
  <2>2. CommandsElse(r)
    BY <1>0, <1>2, SettleElse DEF UpgradeJoinLast
  <2>3. OpenElse(r)
    <3>1. \/ open' = open \ Answer("admit", r, rooms[r].upgrade.joining)
          \/ open' = open
      BY <1>2 DEF UpgradeJoinLast
    <3> QED
      BY <3>1, AnsweredElse
  <2> QED
    BY <1>2, <2>1, <2>2, <2>3, LegElse, SameElse DEF UpgradeJoinLast, Only
<1>3. CASE UpgradeJoinErr(p)
  <2>1. RoomsElse(r)
    <3>1. /\ rooms' = [rooms EXCEPT ![r] = Aborted(rooms[r])]
          /\ lifecycle' = lifecycle
      BY <1>3 DEF UpgradeJoinErr
    <3> QED
      BY <1>a, <3>1 DEF RoomsElse
  <2>2. CommandsElse(r)
    <3>1. SettleAndIssue(p, AbortLeaves(r))
      BY <1>3 DEF UpgradeJoinErr
    <3> QED
      BY <3>1, CommandRooms, SettleElse
  <2>3. BooksElse(r)
    <3>1. workers' = [workers EXCEPT ![rooms[r].assigned].rooms = @ \ {r},
                        ![rooms[r].assigned].clients = SatSub(@, UpgradeClients)]
      BY <1>3 DEF UpgradeJoinErr
    <3> QED
      BY <1>a, <3>1 DEF BooksElse, Worker
  <2>4. OpenElse(r)
    BY <1>3, AnsweredElse DEF UpgradeJoinErr
  <2> QED
    BY <1>3, <2>1, <2>2, <2>3, <2>4, SameElse DEF UpgradeJoinErr, Only
<1>4. CASE SfuJoinOk(p)
  <2>1. RoomsElse(r)
    BY <1>a, <1>4 DEF SfuJoinOk, RoomsElse
  <2>2. CommandsElse(r)
    BY <1>0, <1>4, SettleElse DEF SfuJoinOk
  <2>3. BooksElse(r)
    <3>1. workers' = [workers EXCEPT ![p.instance].clients = @ + 1]
      BY <1>4 DEF SfuJoinOk
    <3> QED
      BY <1>a, <3>1 DEF BooksElse, Worker
  <2>4. OpenElse(r)
    <3>1. \/ open' = open \ Answer("admit", r, rooms[r].pending_join)
          \/ open' = open
      BY <1>4 DEF SfuJoinOk
    <3> QED
      BY <3>1, AnsweredElse
  <2> QED
    BY <1>4, <2>1, <2>2, <2>3, <2>4, LegElse DEF SfuJoinOk, Only
<1>5. CASE SfuJoinErr(p)
  <2>1. RoomsElse(r)
    <3>1. /\ rooms' = [rooms EXCEPT ![r] = [DropMembers(rooms[r], {rooms[r].pending_join}) EXCEPT !.pending_join = None]]
          /\ lifecycle' = lifecycle
      BY <1>5 DEF SfuJoinErr
    <3> QED
      BY <1>a, <3>1 DEF RoomsElse
  <2>2. CommandsElse(r)
    BY <1>0, <1>5, SettleElse DEF SfuJoinErr
  <2>3. OpenElse(r)
    BY <1>5, AnsweredElse DEF SfuJoinErr
  <2> QED
    BY <1>5, <2>1, <2>2, <2>3, SameElse DEF SfuJoinErr, Only
<1>6. CASE SfuLeaveOk(p)
  <2>1. RoomsElse(r)
    <3>1. PICK next : rooms' = [rooms EXCEPT ![r] = next] /\ lifecycle' = lifecycle
      BY <1>6 DEF SfuLeaveOk
    <3> QED
      BY <1>a, <3>1 DEF RoomsElse
  <2>2. CommandsElse(r)
    BY <1>0, <1>6, SettleElse DEF SfuLeaveOk
  <2>3. BooksElse(r)
    <3>1. \/ workers' = [workers EXCEPT ![p.instance].clients = SatSub(@, 1),
                                        ![p.instance].rooms = @ \ {r}]
          \/ workers' = [workers EXCEPT ![p.instance].clients = SatSub(@, 1),
                                        ![p.instance].rooms = @]
      BY <1>6 DEF SfuLeaveOk
    <3> QED
      BY <1>a, <3>1 DEF BooksElse, Worker
  <2>4. OpenElse(r)
    BY <1>6, AnsweredElse DEF SfuLeaveOk
  <2> QED
    BY <1>6, <2>1, <2>2, <2>3, <2>4, LegElse DEF SfuLeaveOk, Only
<1>7. CASE SfuLeaveErr(p)
  <2>1. RoomsElse(r)
    BY <1>a, <1>7 DEF SfuLeaveErr, RoomsElse
  <2>2. CommandsElse(r)
    BY <1>0, <1>7, SettleElse DEF SfuLeaveErr
  <2>3. OpenElse(r)
    BY <1>7, AnsweredElse DEF SfuLeaveErr
  <2> QED
    BY <1>7, <2>1, <2>2, <2>3, SameElse DEF SfuLeaveErr, Only
<1>8. CASE SettleOnly(p)
  <2>1. CommandsElse(r)
    BY <1>0, <1>8, SettleElse DEF SettleOnly
  <2>2. LegsElse(r)
    BY <1>8, LegElse, SameElse DEF SettleOnly
  <2> QED
    BY <1>8, <2>1, <2>2, SameElse DEF SettleOnly, Only, RoomsElse
<1> QED
  BY <1>1, <1>2, <1>3, <1>4, <1>5, <1>6, <1>7, <1>8 DEF Result

LEMMA SweepOnly ==
  ASSUME TypeOK, NEW r \in Rooms, SweepRoom(r)
  PROVE  Only(r)
<1>0. /\ lifecycle' = lifecycle /\ syncs' = syncs /\ LegsElse(r) /\ OpenElse(r)
      /\ workers \in [Workers -> Worker] /\ rooms \in [Rooms -> Room]
  BY SameElse DEF SweepRoom, TypeOK
<1>1. CASE SweepDowngrade(r)
  <2>1. RoomsElse(r)
    BY <1>0, <1>1 DEF SweepDowngrade, RoomsElse
  <2>2. CommandsElse(r)
    <3>1. Issue(DowngradeLeaves(r)) \/ UNCHANGED <<pending, wire>>
      BY <1>1 DEF SweepDowngrade
    <3> QED
      BY <3>1, CommandRooms, IssueElse, SameElse
  <2>3. BooksElse(r)
    <3>1. \/ workers' = workers
          \/ workers' = [workers EXCEPT ![rooms[r].assigned].rooms = @ \ {r},
               ![rooms[r].assigned].clients = SatSub(@, Cardinality(rooms[r].members))]
      BY <1>1 DEF SweepDowngrade
    <3> QED
      BY <1>0, <3>1 DEF BooksElse, Worker
  <2> QED
    BY <1>0, <2>1, <2>2, <2>3 DEF Only
<1>2. CASE SweepSfu(r)
  <2>1. PICK c :
          \/ /\ rooms' = [rooms EXCEPT ![r].pending_leave = [client |-> c, requested |-> FALSE]]
             /\ Issue({LeaveCommand(r, c)})
          \/ /\ rooms' = [rooms EXCEPT ![r].deadline[c] = Grace]
             /\ UNCHANGED <<pending, wire>>
    BY <1>2 DEF SweepSfu
  <2>2. RoomsElse(r)
    BY <1>0, <2>1 DEF RoomsElse
  <2>3. CommandsElse(r)
    BY <2>1, CommandRooms, IssueElse, SameElse
  <2> QED
    BY <1>0, <1>2, <2>2, <2>3, SameElse DEF SweepSfu, Only
<1>3. CASE SweepP2p(r)
  <2>1. RoomsElse(r)
    BY <1>0, <1>3 DEF SweepP2p, RoomsElse
  <2> QED
    BY <1>0, <1>3, <2>1, SameElse DEF SweepP2p, Only
<1> QED
  BY <1>1, <1>2, <1>3 DEF SweepRoom


-----------------------------------------------------------------------------
(***************************************************************************)
(* The room of the operation keeps its duties.                             *)
(***************************************************************************)

\* The command for the next state.
NextCommand(kind, r, c) ==
  MakeCommand(kind, rooms'[r].assigned, r, c, lifecycle'[r][c], rooms'[r].assignment_epoch)

LEMMA NextIsCurrent ==
  ASSUME NEW r, NEW kind, NEW c, SameAssignment(rooms[r], rooms'[r]), lifecycle' = lifecycle
  PROVE  NextCommand(kind, r, c) = Current(kind, r, c)
BY DEF NextCommand, Current, SameAssignment

LEMMA GatedNext ==
  ASSUME NEW r,
         rooms'[r].mode = "Upgrading" =>
           StillTravelling(NextCommand("UpgradeJoin", r, NextClient(rooms'[r]))),
         rooms'[r].pending_join # None =>
           StillTravelling(NextCommand("SfuJoin", r, rooms'[r].pending_join)),
         rooms'[r].pending_leave # NoLeave =>
           StillTravelling(NextCommand("SfuLeave", r, rooms'[r].pending_leave.client))
  PROVE  Gated(r)'
BY DEF Gated, StillTravelling, Travelling, Connected, NextCommand, Current, NextClient

\* A command that is neither settled nor taken off the stream.
LEMMA TravelsOn ==
  ASSUME TypeOK, NEW r, Only(r), NEW p \in pending, Travelling(p),
         p \in pending', p \in wire => p \in wire'
  PROVE  StillTravelling(p)
<1>1. p.instance \in Workers
  BY DEF TypeOK, Command
<1>2. workers'[p.instance].conn = workers[p.instance].conn /\ syncs' = syncs
  BY <1>1 DEF Only, BooksElse
<1> QED
  BY <1>1, <1>2 DEF Travelling, StillTravelling, Connected

\* A command that is issued travels.
LEMMA IssuedTravels ==
  ASSUME NEW p \in pending', p \in wire'
  PROVE  StillTravelling(p)
BY DEF StillTravelling

\* The fields of a command about the current membership.
LEMMA CurrentFields ==
  ASSUME NEW kind, NEW r, NEW c
  PROVE  /\ Current(kind, r, c).kind = kind /\ Current(kind, r, c).room = r
         /\ Current(kind, r, c).client = c
         /\ Current(kind, r, c).instance = rooms[r].assigned
         /\ Current(kind, r, c).lifecycle = lifecycle[r][c]
         /\ Current(kind, r, c).assignment_epoch = rooms[r].assignment_epoch
BY DEF Current, MakeCommand

\* A room that is not hosted has no duties but to have no leave, no join of
\* an upgrade and no place on a worker.
LEMMA BareDuty ==
  ASSUME TypeOK', AllMembersOK', AllRolesOK', NEW r \in Rooms \ Failable,
         ~Hosted(rooms'[r]), \A w \in Workers : r \notin workers'[w].rooms,
         \A p \in pending' : p.room = r => p.kind \notin {"UpgradeJoin", "SfuLeave"}
  PROVE  DutyOK(r)'
<1>1. MembersOK(rooms'[r]) /\ RolesOK(rooms'[r]) /\ rooms'[r] \in Room
  BY DEF TypeOK, AllMembersOK, AllRolesOK
<1>2. rooms'[r].pending_join = None /\ rooms'[r].pending_leave = NoLeave
  BY <1>1, BareAwaitsNothing
<1>3. rooms'[r].mode \notin {"Upgrading", "Sfu"}
  BY DEF Hosted
<1> QED
  BY <1>2, <1>3 DEF DutyOK, OnBooks, LeaveExact, UpgradeExact, TodoOK, Gated, Hosted

LEMMA BareHas ==
  ASSUME NEW r, DutyOK(r), ~Hosted(rooms[r])
  PROVE  /\ \A w \in Workers : r \notin workers[w].rooms
         /\ \A p \in pending : p.room = r => p.kind \notin {"UpgradeJoin", "SfuLeave"}
BY DEF DutyOK, OnBooks, LeaveExact, UpgradeExact, Hosted

\* It stays that way while nothing is asked of a worker.
LEMMA BareStays ==
  ASSUME TypeOK', AllMembersOK', AllRolesOK', NEW r \in Rooms \ Failable,
         DutyOK(r), ~Hosted(rooms[r]), ~Hosted(rooms'[r]),
         pending' \subseteq pending, workers' = workers
  PROVE  DutyOK(r)'
BY BareHas, BareDuty

\* A room that runs on no worker, and still does not.
BareStep(r) ==
  /\ ~Hosted(rooms[r]) /\ ~Hosted(rooms'[r])
  /\ rooms'[r].members \subseteq rooms[r].members
  /\ pending' = pending /\ workers' = workers /\ lifecycle' = lifecycle /\ open' = open

\* An SFU room asks its worker to let a member go.
AsksLeave(r, c, b) ==
  /\ rooms[r].mode = "Sfu" /\ rooms[r].pending_leave = NoLeave
  /\ rooms'[r].mode = "Sfu" /\ SameAssignment(rooms[r], rooms'[r])
  /\ rooms'[r].members = rooms[r].members /\ rooms'[r].upgrade = rooms[r].upgrade
  /\ rooms'[r].pending_join = rooms[r].pending_join
  /\ rooms'[r].pending_leave = [client |-> c, requested |-> b]
  /\ Issue({LeaveCommand(r, c)})
  /\ workers' = workers /\ lifecycle' = lifecycle /\ legs' = legs
  /\ open' = IF b THEN open \cup Answer("remove", r, c) ELSE open

\* What browsers, removals and the sweep make of a room, but for a downgrade.
OrdinaryStep(r) == Still(r) \/ BareStep(r) \/ \E c \in Clients, b \in BOOLEAN : AsksLeave(r, c, b)

LEMMA AsksLeaveDuty ==
  ASSUME TypeOK, TypeOK', NEW r \in Rooms \ Failable, MembersOK(rooms[r]), DutyOK(r), Only(r),
         NEW c, NEW b, AsksLeave(r, c, b)
  PROVE  DutyOK(r)'
<1>0. /\ rooms[r].mode = "Sfu" /\ rooms[r].pending_leave = NoLeave
      /\ rooms'[r].mode = "Sfu" /\ SameAssignment(rooms[r], rooms'[r])
      /\ rooms'[r].pending_join = rooms[r].pending_join
      /\ rooms'[r].pending_leave = [client |-> c, requested |-> b]
      /\ Issue({LeaveCommand(r, c)}) /\ workers' = workers /\ lifecycle' = lifecycle
  BY DEF AsksLeave
<1>a. \A kind, d : NextCommand(kind, r, d) = Current(kind, r, d)
  BY <1>0, NextIsCurrent
<1>b. LeaveCommand(r, c) = Current("SfuLeave", r, c)
  BY DEF LeaveCommand, Current
<1>c. pending' = pending \cup {Current("SfuLeave", r, c)}
      /\ wire' = wire \cup {Current("SfuLeave", r, c)}
  BY <1>0, <1>b DEF Issue
<1>1. OnBooks(r)'
  BY <1>0 DEF DutyOK, OnBooks, Hosted, SameAssignment
<1>2. LeaveExact(r)'
  <2> SUFFICES ASSUME NEW p \in pending', p.room = r, p.kind = "SfuLeave"
               PROVE  /\ rooms'[r].mode = "Sfu" /\ rooms'[r].pending_leave # NoLeave
                      /\ p = NextCommand("SfuLeave", r, rooms'[r].pending_leave.client)
    BY DEF LeaveExact, NextCommand, Current
  <2>1. p \notin pending
    BY <1>0 DEF DutyOK, LeaveExact
  <2>2. p = Current("SfuLeave", r, c)
    BY <1>c, <2>1
  <2>3. c \in Clients
    BY <2>2, CurrentFields DEF TypeOK, Command
  <2>4. c # None
    BY <2>3, IdsAssumption DEF None
  <2> QED
    BY <1>0, <1>a, <2>2, <2>4 DEF NoLeave
<1>3. UpgradeExact(r)' /\ TodoOK(rooms[r])'
  <2>1. \A p \in pending' : p.room = r => p.kind # "UpgradeJoin"
    BY <1>0, <1>c, CurrentFields DEF DutyOK, UpgradeExact
  <2> QED
    BY <1>0, <2>1 DEF UpgradeExact, TodoOK
<1>4. Gated(r)'
  <2>1. StillTravelling(Current("SfuLeave", r, c))
    BY <1>c, IssuedTravels
  <2>2. rooms[r].pending_join # None =>
          StillTravelling(Current("SfuJoin", r, rooms[r].pending_join))
    <3>1. rooms[r].pending_join # None => Travelling(Current("SfuJoin", r, rooms[r].pending_join))
      BY DEF DutyOK, Gated
    <3>2. \A p \in pending : p \in pending' /\ (p \in wire => p \in wire')
      BY <1>c
    <3> QED
      BY <3>1, <3>2, TravelsOn DEF Travelling
  <2> QED
    BY <1>0, <1>a, <2>1, <2>2, GatedNext
<1> QED
  BY <1>1, <1>2, <1>3, <1>4 DEF DutyOK

\* A step that changes nothing a duty is about.
LEMMA QuietStill ==
  ASSUME TypeOK, NEW r \in Rooms, Only(r), Alike(rooms[r], rooms'[r]),
         lifecycle' = lifecycle, workers' = workers, legs' = legs, open' = open,
         pending \subseteq pending', wire \subseteq wire',
         \A p \in pending' \ pending : p.kind = "Signal"
  PROVE  Still(r)
<1>1. \A p \in pending : Travelling(p) => StillTravelling(p)
  BY TravelsOn
<1> QED
  BY <1>1 DEF Still

\* A P2P or failed room loses members and stays what it is, or is reaped.
LEMMA DropStaysBare ==
  ASSUME NEW room \in Room, NEW S, ~Hosted(room)
  PROVE  /\ ~Hosted(ReapIfEmpty(promote_survivor(DropMembers(room, S))))
         /\ ReapIfEmpty(promote_survivor(DropMembers(room, S))).members \subseteq room.members
<1> DEFINE rest == DropMembers(room, S)
<1>1. rest \in Room
  BY DropMembersType
<1>2. rest.mode = room.mode /\ rest.members \subseteq room.members
  BY DEF DropMembers, Room
<1> HIDE DEF rest
<1>3. /\ promote_survivor(rest).mode = room.mode
      /\ promote_survivor(rest).members \subseteq room.members
  BY <1>1, <1>2 DEF promote_survivor, Room
<1> QED
  BY <1>3 DEF ReapIfEmpty, Hosted, AbsentRoom, rest

\* What the browsers and a removal do.
LEMMA ClientSteps ==
  ASSUME TypeOK, NEW r \in Rooms, NEW c \in Clients,
         \/ Register(r, c) \/ Deregister(r, c) \/ SendSfu(r, c) \/ SendQueued(r, c)
         \/ RemoveNow(r, c) \/ RemoveSfu(r, c)
  PROVE  OrdinaryStep(r)
<1>0. rooms \in [Rooms -> Room] /\ rooms[r] \in Room /\ Only(r)
  BY ClientOnly DEF TypeOK
<1>a. ASSUME Alike(rooms[r], rooms'[r]), workers' = workers, lifecycle' = lifecycle,
             legs' = legs, open' = open, UNCHANGED <<pending, wire>>
      PROVE  OrdinaryStep(r)
  BY <1>0, <1>a, QuietStill DEF OrdinaryStep
<1>1. CASE Register(r, c)
  <2>1. Alike(rooms[r], rooms'[r])
    BY <1>0, <1>1 DEF Register, Alike, Room
  <2> QED
    BY <1>1, <1>a, <2>1 DEF Register
<1>2. CASE Deregister(r, c)
  <2> DEFINE gone == [rooms[r] EXCEPT !.registered = @ \ {c}]
  <2>1. gone \in Room /\ Alike(rooms[r], gone)
    BY <1>0 DEF Room, Alike
  <2>2. CASE CanIssueLeave(r, c)
    <3>1. rooms' = [rooms EXCEPT ![r] =
                      [gone EXCEPT !.pending_leave = [client |-> c, requested |-> FALSE]]]
      BY <1>2, <2>2 DEF Deregister
    <3> HIDE DEF gone
    <3>2. rooms'[r] = [gone EXCEPT !.pending_leave = [client |-> c, requested |-> FALSE]]
      BY <1>0, <3>1
    <3>3. /\ rooms'[r].mode = rooms[r].mode /\ SameAssignment(rooms[r], rooms'[r])
          /\ rooms'[r].members = rooms[r].members /\ rooms'[r].upgrade = rooms[r].upgrade
          /\ rooms'[r].pending_join = rooms[r].pending_join
          /\ rooms'[r].pending_leave = [client |-> c, requested |-> FALSE]
      BY <2>1, <3>2 DEF Room, SameAssignment, Alike
    <3>4. AsksLeave(r, c, FALSE)
      BY <1>2, <2>2, <3>3 DEF Deregister, CanIssueLeave, AsksLeave
    <3> QED
      BY <3>4 DEF OrdinaryStep
  <2>3. CASE ~CanIssueLeave(r, c)
    <3>1. rooms' = [rooms EXCEPT ![r] = [gone EXCEPT !.deadline[c] = Grace]]
      BY <1>2, <2>3 DEF Deregister
    <3> HIDE DEF gone
    <3>2. Alike(rooms[r], rooms'[r])
      BY <1>0, <2>1, <3>1 DEF Room, Alike
    <3> QED
      BY <1>2, <1>a, <2>3, <3>2 DEF Deregister
  <2> QED
    BY <2>2, <2>3
<1>3. CASE SendSfu(r, c)
  <2>1. Alike(rooms[r], rooms'[r])
    BY <1>3 DEF SendSfu, Alike
  <2>2. PICK p : p.kind = "Signal" /\ Issue({p})
    BY <1>3 DEF SendSfu, MakeCommand
  <2>3. Still(r)
    BY <1>0, <1>3, <2>1, <2>2, QuietStill DEF SendSfu, Issue
  <2> QED
    BY <2>3 DEF OrdinaryStep
<1>4. CASE SendQueued(r, c)
  <2>1. PICK q : rooms' = [rooms EXCEPT ![r].queued[c] = q]
    BY <1>4 DEF SendQueued
  <2>2. Alike(rooms[r], rooms'[r])
    BY <1>0, <2>1 DEF Alike, Room
  <2> QED
    BY <1>4, <1>a, <2>2 DEF SendQueued
<1>5. CASE RemoveNow(r, c)
  <2>1. ~Hosted(rooms[r])
    BY <1>5 DEF RemoveNow, Hosted
  <2>2. rooms'[r] = ReapIfEmpty(promote_survivor(DropMembers(rooms[r], {c})))
    BY <1>0, <1>5 DEF RemoveNow
  <2>3. ~Hosted(rooms'[r]) /\ rooms'[r].members \subseteq rooms[r].members
    BY <1>0, <2>1, <2>2, DropStaysBare
  <2> QED
    BY <1>5, <2>1, <2>3 DEF RemoveNow, BareStep, OrdinaryStep
<1>6. CASE RemoveSfu(r, c)
  <2>1. rooms' = [rooms EXCEPT ![r].pending_leave = [client |-> c, requested |-> TRUE]]
    BY <1>6 DEF RemoveSfu
  <2>2. /\ rooms'[r].mode = rooms[r].mode /\ SameAssignment(rooms[r], rooms'[r])
        /\ rooms'[r].members = rooms[r].members /\ rooms'[r].upgrade = rooms[r].upgrade
        /\ rooms'[r].pending_join = rooms[r].pending_join
        /\ rooms'[r].pending_leave = [client |-> c, requested |-> TRUE]
    BY <1>0, <2>1 DEF Room, SameAssignment
  <2>3. AsksLeave(r, c, TRUE)
    BY <1>6, <2>2 DEF RemoveSfu, Settled, AsksLeave
  <2> QED
    BY <2>3 DEF OrdinaryStep
<1> QED
  BY <1>1, <1>2, <1>3, <1>4, <1>5, <1>6

LEMMA OrdinaryDuty ==
  ASSUME TypeOK, TypeOK', AllMembersOK, AllMembersOK', AllRolesOK, AllRolesOK',
         NEW r \in Rooms \ Failable, DutyOK(r), Only(r), OrdinaryStep(r)
  PROVE  DutyOK(r)'
<1>1. MembersOK(rooms[r]) /\ RolesOK(rooms[r])
  BY DEF AllMembersOK, AllRolesOK
<1>2. CASE BareStep(r)
  BY <1>2, BareStays DEF BareStep
<1> QED
  BY <1>1, <1>2, StillDuty, AsksLeaveDuty DEF OrdinaryStep

\* An admission to a P2P room that stays one.
LEMMA AdmittedBare ==
  ASSUME TypeOK, NEW r \in Rooms, NEW c \in Clients, AdmitFirst(r, c) \/ AdmitP2p(r, c)
  PROVE  rooms'[r].mode = "P2p" /\ rooms'[r].members \subseteq rooms[r].members \cup {c}
<1>0. rooms \in [Rooms -> Room] /\ rooms[r] \in Room /\ AbsentRoom \in Room
  BY ConstantTypes DEF TypeOK
<1>1. CASE AdmitFirst(r, c)
  <2>1. rooms'[r] = [AddMember(AbsentRoom, c) EXCEPT !.mode = "P2p", !.initiators = {c}]
    BY <1>0, <1>1 DEF AdmitFirst
  <2>2. AddMember(AbsentRoom, c) \in Room /\ AddMember(AbsentRoom, c).members = {c}
    BY <1>0, AddMemberType DEF AddMember, AbsentRoom
  <2> QED
    BY <2>1, <2>2 DEF Room
<1>2. CASE AdmitP2p(r, c)
  <2>1. rooms'[r] = AddMember(rooms[r], c) /\ rooms[r].mode = "P2p"
    BY <1>0, <1>2 DEF AdmitP2p
  <2> QED
    BY <1>0, <2>1 DEF AddMember, Room
<1> QED
  BY <1>1, <1>2

LEMMA AdmitBareDuty ==
  ASSUME TypeOK, TypeOK', AllMembersOK', AllRolesOK',
         NEW r \in Rooms \ Failable, NEW c \in Clients, DutyOK(r),
         AdmitFirst(r, c) \/ AdmitP2p(r, c)
  PROVE  DutyOK(r)'
<1>1. ~Hosted(rooms[r]) /\ workers' = workers /\ pending' = pending
  BY DEF AdmitFirst, AdmitP2p, Hosted
<1>2. ~Hosted(rooms'[r])
  BY AdmittedBare DEF Hosted
<1> QED
  BY <1>1, <1>2, BareStays

\* The room of an admission that opens the barrier.
LEMMA UpgradeOpened ==
  ASSUME TypeOK, AllMembersOK, NEW r \in Rooms, NEW c \in Clients, AdmitUpgrade(r, c)
  PROVE  /\ ~Hosted(rooms[r])
         /\ rooms'[r].mode = "Upgrading" /\ rooms'[r].assigned \in Workers
         /\ rooms'[r].members = rooms[r].members \cup {c}
         /\ rooms'[r].upgrade.joining = c /\ rooms'[r].upgrade.todo = rooms'[r].members
         /\ rooms'[r].upgrade.joined = <<>>
         /\ rooms'[r].pending_join = None /\ rooms'[r].pending_leave = NoLeave
         /\ Issue({NextCommand("UpgradeJoin", r, NextClient(rooms'[r]))})
         /\ \A v \in Workers :
              workers'[v].rooms = IF v = rooms'[r].assigned THEN workers[v].rooms \cup {r}
                                                            ELSE workers[v].rooms
         /\ \A v \in Workers :
              workers'[v].clients = IF v = rooms'[r].assigned
                                      THEN workers[v].clients + UpgradeClients
                                      ELSE workers[v].clients
<1> DEFINE all == rooms[r].members \cup {c}
           first == NextJoin(all, c)
           ae == rooms[r].assignment_epoch + 1
           up == [joining |-> c, todo |-> all, joined |-> <<>>]
<1>0. /\ rooms \in [Rooms -> Room] /\ rooms[r] \in Room /\ workers \in [Workers -> Worker]
      /\ rooms[r].mode = "P2p" /\ rooms[r].pending_join = None /\ rooms[r].pending_leave = NoLeave
  BY DEF TypeOK, AllMembersOK, MembersOK, AwaitingOK, AdmitUpgrade
<1>1. PICK w \in Workers :
        /\ rooms' = [rooms EXCEPT ![r] = [AddMember(rooms[r], c) EXCEPT
             !.mode = "Upgrading", !.assignment_epoch = ae, !.assigned = w, !.upgrade = up]]
        /\ workers' = [workers EXCEPT ![w].rooms = @ \cup {r},
                                      ![w].clients = @ + UpgradeClients]
        /\ Issue({MakeCommand("UpgradeJoin", w, r, first, lifecycle'[r][first], ae)})
  BY DEF AdmitUpgrade
<1>2. /\ rooms'[r].mode = "Upgrading" /\ rooms'[r].assigned = w /\ rooms'[r].upgrade = up
      /\ rooms'[r].assignment_epoch = ae /\ rooms'[r].members = all
      /\ rooms'[r].pending_join = None /\ rooms'[r].pending_leave = NoLeave
  <2>1. /\ AddMember(rooms[r], c) \in Room /\ AddMember(rooms[r], c).members = all
        /\ AddMember(rooms[r], c).pending_join = None
        /\ AddMember(rooms[r], c).pending_leave = NoLeave
    <3>1. AddMember(rooms[r], c) \in Room
      BY <1>0, AddMemberType
    <3>2. rooms[r] \in Room /\ rooms[r].pending_join = None /\ rooms[r].pending_leave = NoLeave
      BY <1>0
    <3> QED
      BY <3>1, <3>2 DEF AddMember, Room
  <2> HIDE DEF all, up, ae
  <2>2. rooms'[r] = [AddMember(rooms[r], c) EXCEPT
             !.mode = "Upgrading", !.assignment_epoch = ae, !.assigned = w, !.upgrade = up]
    BY <1>0, <1>1
  <2> QED
    BY <2>1, <2>2 DEF Room
<1>3. MakeCommand("UpgradeJoin", w, r, first, lifecycle'[r][first], ae)
        = NextCommand("UpgradeJoin", r, NextClient(rooms'[r]))
  BY <1>2 DEF NextCommand, NextClient
<1>4. \A v \in Workers :
        /\ workers'[v].rooms = IF v = w THEN workers[v].rooms \cup {r} ELSE workers[v].rooms
        /\ workers'[v].clients = IF v = w THEN workers[v].clients + UpgradeClients
                                          ELSE workers[v].clients
  BY <1>0, <1>1 DEF Worker
<1>5. /\ rooms'[r].upgrade.joining = c /\ rooms'[r].upgrade.todo = rooms'[r].members
      /\ rooms'[r].upgrade.joined = <<>>
  BY <1>2
<1> QED
  BY <1>0, <1>1, <1>2, <1>3, <1>4, <1>5 DEF Hosted

LEMMA AdmitUpgradeDuty ==
  ASSUME TypeOK, TypeOK', AllMembersOK, NEW r \in Rooms \ Failable, NEW c \in Clients,
         DutyOK(r), AdmitUpgrade(r, c)
  PROVE  DutyOK(r)'
<1> DEFINE next == rooms'[r]
           cmd == NextCommand("UpgradeJoin", r, NextClient(next))
<1>1. /\ next.mode = "Upgrading" /\ next.pending_join = None /\ next.pending_leave = NoLeave
      /\ next.upgrade.joining = c /\ next.upgrade.todo = next.members /\ c \in next.members
  <2>1. r \in Rooms
    OBVIOUS
  <2>2. next.members = rooms[r].members \cup {c}
    BY <2>1, UpgradeOpened
  <2> HIDE DEF next
  <2> QED
    BY <2>1, <2>2, UpgradeOpened DEF next
<1>2. pending' = pending \cup {cmd} /\ wire' = wire \cup {cmd} /\ cmd.kind = "UpgradeJoin"
  BY UpgradeOpened DEF Issue, NextClient, NextCommand, MakeCommand
<1> HIDE DEF cmd
<1>3. /\ \A v \in Workers : r \notin workers[v].rooms
      /\ \A p \in pending : p.room = r => p.kind \notin {"UpgradeJoin", "SfuLeave"}
  BY UpgradeOpened, BareHas
<1>4. OnBooks(r)'
  <2>1. \A v \in Workers : r \in workers'[v].rooms <=> v = next.assigned
    <3>1. r \in Rooms
      OBVIOUS
    <3>2. \A v \in Workers :
            workers'[v].rooms = IF v = next.assigned THEN workers[v].rooms \cup {r}
                                                     ELSE workers[v].rooms
      BY <3>1, UpgradeOpened
    <3> QED
      BY <1>3, <3>2
  <2> QED
    BY <1>1, <2>1 DEF OnBooks, Hosted
<1>5. LeaveExact(r)'
  BY <1>2, <1>3 DEF LeaveExact
<1>6. UpgradeExact(r)'
  <2>1. \A p \in pending' : p.room = r /\ p.kind = "UpgradeJoin" => p = cmd
    BY <1>2, <1>3
  <2> QED
    BY <1>1, <2>1 DEF UpgradeExact, cmd, NextCommand, Current, NextClient
<1>7. TodoOK(rooms[r])'
  BY <1>1 DEF TodoOK
<1>8. Gated(r)'
  <2>1. StillTravelling(cmd)
    BY <1>2, IssuedTravels
  <2> QED
    BY <1>1, <2>1, GatedNext DEF cmd
<1> QED
  BY <1>4, <1>5, <1>6, <1>7, <1>8 DEF DutyOK

\* The room of an admission to an SFU room.
LEMMA SfuEntered ==
  ASSUME TypeOK, NEW r \in Rooms, NEW c \in Clients, AdmitSfu(r, c)
  PROVE  /\ rooms[r].mode = "Sfu" /\ rooms[r].pending_join = None
         /\ rooms[r].pending_leave = NoLeave
         /\ rooms'[r].mode = "Sfu" /\ SameAssignment(rooms[r], rooms'[r])
         /\ rooms'[r].members = rooms[r].members \cup {c}
         /\ rooms'[r].upgrade = rooms[r].upgrade
         /\ rooms'[r].pending_join = c /\ rooms'[r].pending_leave = NoLeave
         /\ Issue({NextCommand("SfuJoin", r, c)})
<1>0. /\ rooms \in [Rooms -> Room] /\ rooms[r] \in Room
      /\ rooms[r].mode = "Sfu" /\ rooms[r].pending_leave = NoLeave
      /\ rooms[r].pending_join = None
  BY DEF TypeOK, AdmitSfu
<1>1. /\ AddMember(rooms[r], c) \in Room /\ AddMember(rooms[r], c).mode = "Sfu"
      /\ AddMember(rooms[r], c).members = rooms[r].members \cup {c}
      /\ AddMember(rooms[r], c).upgrade = rooms[r].upgrade
      /\ SameAssignment(rooms[r], AddMember(rooms[r], c))
      /\ AddMember(rooms[r], c).pending_leave = NoLeave
  <2>1. AddMember(rooms[r], c) \in Room
    BY <1>0, AddMemberType
  <2> QED
    BY <1>0, <2>1 DEF AddMember, Room, SameAssignment
<1>2. rooms'[r] = [AddMember(rooms[r], c) EXCEPT !.pending_join = c,
                                                !.downgrade_deadline = None]
  BY <1>0 DEF AdmitSfu
<1>3. /\ rooms'[r].mode = "Sfu" /\ SameAssignment(rooms[r], rooms'[r])
      /\ rooms'[r].members = rooms[r].members \cup {c}
      /\ rooms'[r].upgrade = rooms[r].upgrade
      /\ rooms'[r].pending_join = c /\ rooms'[r].pending_leave = NoLeave
  BY <1>1, <1>2 DEF Room, SameAssignment
<1>4. Issue({NextCommand("SfuJoin", r, c)})
  BY <1>3 DEF AdmitSfu, NextCommand, SameAssignment
<1> QED
  BY <1>0, <1>3, <1>4

LEMMA AdmitSfuDuty ==
  ASSUME TypeOK, TypeOK', NEW r \in Rooms \ Failable, NEW c \in Clients,
         DutyOK(r), AdmitSfu(r, c)
  PROVE  DutyOK(r)'
<1> DEFINE next == rooms'[r]
           cmd == NextCommand("SfuJoin", r, c)
<1>1. /\ rooms[r].mode = "Sfu" /\ rooms[r].pending_leave = NoLeave
      /\ next.mode = "Sfu" /\ SameAssignment(rooms[r], next)
      /\ next.pending_join = c /\ next.pending_leave = NoLeave
  BY SfuEntered
<1>2. pending' = pending \cup {cmd} /\ wire' = wire \cup {cmd} /\ cmd.kind = "SfuJoin"
  BY SfuEntered DEF Issue, NextCommand, MakeCommand
<1> HIDE DEF cmd
<1>3. \A p \in pending' : p.room = r => p.kind \notin {"UpgradeJoin", "SfuLeave"}
  BY <1>1, <1>2 DEF DutyOK, LeaveExact, UpgradeExact
<1>4. OnBooks(r)'
  BY <1>1 DEF DutyOK, OnBooks, Hosted, SameAssignment, AdmitSfu
<1>5. LeaveExact(r)' /\ UpgradeExact(r)' /\ TodoOK(rooms[r])'
  BY <1>1, <1>3 DEF LeaveExact, UpgradeExact, TodoOK
<1>6. Gated(r)'
  <2>1. StillTravelling(cmd)
    BY <1>2, IssuedTravels
  <2> QED
    BY <1>1, <2>1, GatedNext DEF cmd
<1> QED
  BY <1>4, <1>5, <1>6 DEF DutyOK

-----------------------------------------------------------------------------
(***************************************************************************)
(* The answers of the workers.                                             *)
(***************************************************************************)

Sound == TypeOK /\ AllMembersOK /\ AllRolesOK /\ RoomsOK /\ WireOK

\* Those still to join are joined one after the other, the newcomer last.
LEMMA NextJoinIn ==
  ASSUME NEW todo \in SUBSET Clients, NEW joining \in todo
  PROVE  /\ NextJoin(todo, joining) \in todo
         /\ NextJoin(todo, joining) = joining => todo = {joining}
<1>1. IsFiniteSet(todo \ {joining}) /\ todo \ {joining} \subseteq Nat
  BY FS_Subset, IdsAssumption
<1>2. todo \ {joining} # {} => Min(todo \ {joining}) \in todo \ {joining}
  BY <1>1, MinIsElement
<1> QED
  BY <1>2 DEF NextJoin

\* Settling a command leaves the others where they are.
LEMMA OthersTravel ==
  ASSUME TypeOK, NEW p, NEW cmds, SettleAndIssue(p, cmds), NEW r, Only(r),
         NEW g, Travelling(g), g # p
  PROVE  StillTravelling(g)
<1>1. g \in pending /\ g \in pending' /\ (g \in wire => g \in wire')
  BY DEF Travelling, SettleAndIssue
<1> QED
  BY <1>1, TravelsOn

\* A room that waits for an answer is an SFU room.
LEMMA AwaitingIsSfu ==
  ASSUME NEW room \in Room, MembersOK(room), RolesOK(room),
         room.pending_join # None \/ room.pending_leave # NoLeave
  PROVE  room.mode = "Sfu" /\ room.upgrade = NoUpgrade
BY DEF MembersOK, AwaitingOK, RolesOK, Room, Modes

\* The room of a worker's answer, before it is heard.
LEMMA AnsweredRoom ==
  ASSUME Sound, NEW p \in wire, p.room \notin Failable
  PROVE  /\ p \in pending /\ p \in Command /\ p.room \in Rooms /\ p.instance \in Workers
         /\ rooms \in [Rooms -> Room] /\ rooms[p.room] \in Room
         /\ MembersOK(rooms[p.room]) /\ RolesOK(rooms[p.room]) /\ RoomOK(rooms[p.room])
<1>1. TypeOK /\ p \in pending /\ p \in Command
  BY DEF Sound, WireOK, TypeOK
<1>2. p.room \in Rooms /\ p.instance \in Workers
  BY <1>1 DEF Command
<1> QED
  BY <1>1, <1>2 DEF Sound, TypeOK, AllMembersOK, AllRolesOK, RoomsOK

\* One more client has joined: the next one's join is under way.
LEMMA JoinMoreRoom ==
  ASSUME Sound, NEW p \in wire, p.room \notin Failable, DutyOK(p.room), UpgradeJoinMore(p)
  PROVE  LET room == rooms[p.room]
             next == rooms'[p.room]
         IN  /\ room.mode = "Upgrading"
             /\ p = Current("UpgradeJoin", p.room, NextClient(room))
             /\ next.mode = "Upgrading" /\ SameAssignment(room, next)
             /\ next.members = room.members
             /\ room.pending_join = None /\ room.pending_leave = NoLeave
             /\ next.pending_join = None /\ next.pending_leave = NoLeave
             /\ next.upgrade.todo = Todo(p) /\ next.upgrade.joining = room.upgrade.joining
             /\ next.upgrade.joined = Append(room.upgrade.joined, p.client)
<1> DEFINE r == p.room
           room == rooms[r]
           up == room.upgrade
           next == rooms'[r]
<1>0. /\ p \in pending /\ r \in Rooms /\ rooms \in [Rooms -> Room] /\ room \in Room
      /\ MembersOK(room) /\ RoomOK(room)
  BY AnsweredRoom
<1>1. /\ p.kind = "UpgradeJoin" /\ up # NoUpgrade
      /\ rooms' = [rooms EXCEPT ![r] = Stepped(p)]
  BY DEF UpgradeJoinMore
<1>2. room.mode = "Upgrading" /\ p = Current("UpgradeJoin", r, NextClient(room))
  BY <1>0, <1>1 DEF DutyOK, UpgradeExact
<1>3. next = Stepped(p)
  BY <1>0, <1>1
<1>4. room.pending_join = None /\ room.pending_leave = NoLeave
  BY <1>0, <1>1 DEF MembersOK, AwaitingOK
<1>5. up \in Upgrade
  BY <1>0 DEF Room
<1>6. /\ next.mode = room.mode /\ SameAssignment(room, next)
      /\ next.members = room.members
      /\ next.pending_join = room.pending_join /\ next.pending_leave = room.pending_leave
  BY <1>0, <1>3 DEF Stepped, Room, SameAssignment
<1>7. next.upgrade = [up EXCEPT !.todo = Todo(p), !.joined = Append(up.joined, p.client)]
  BY <1>0, <1>3, <1>5 DEF Stepped, Room, Upgrade
<1>8. /\ next.upgrade.todo = Todo(p) /\ next.upgrade.joining = up.joining
      /\ next.upgrade.joined = Append(up.joined, p.client)
  BY <1>5, <1>7 DEF Upgrade
<1> QED
  BY <1>2, <1>4, <1>6, <1>8

LEMMA JoinMoreDuty ==
  ASSUME Sound, Sound', NEW p \in wire, p.room \notin Failable, DutyOK(p.room),
         UpgradeJoinMore(p)
  PROVE  DutyOK(p.room)'
<1> DEFINE r == p.room
           room == rooms[r]
           up == room.upgrade
           next == rooms'[r]
<1>0. /\ p \in pending /\ p \in Command /\ r \in Rooms /\ p.instance \in Workers
      /\ rooms \in [Rooms -> Room] /\ room \in Room
      /\ MembersOK(room) /\ RoomOK(room) /\ Only(r) /\ TypeOK
  BY AnsweredRoom, ResultOnly DEF Result, Sound
<1>1. /\ p.kind = "UpgradeJoin" /\ up # NoUpgrade /\ Todo(p) # {}
      /\ SettleAndIssue(p, NextUpgradeJoin(p)) /\ Connected(p.instance)
      /\ workers' = workers /\ lifecycle' = lifecycle
  BY DEF UpgradeJoinMore, SettleAndIssue
<1>2. room.mode = "Upgrading" /\ p = Current("UpgradeJoin", r, NextClient(room))
  BY JoinMoreRoom
<1>3. /\ next.mode = "Upgrading" /\ SameAssignment(room, next)
      /\ next.members = room.members
      /\ next.pending_join = None /\ next.pending_leave = NoLeave
      /\ next.upgrade.todo = Todo(p) /\ next.upgrade.joining = up.joining
  BY JoinMoreRoom
<1>4. /\ Todo(p) \in SUBSET room.members /\ up.joining \in Todo(p)
      /\ NextClient(next) \in room.members
  <2>1. /\ up.todo \in SUBSET Clients /\ up.todo \subseteq room.members
        /\ up.joining \in up.todo
    BY <1>0, <1>2 DEF DutyOK, TodoOK, Room
  <2>2. Todo(p) = up.todo \ {NextJoin(up.todo, up.joining)}
    BY DEF Todo
  <2>3. up.joining \in Todo(p)
    BY <1>1, <2>1, <2>2, NextJoinIn
  <2>4. NextJoin(Todo(p), up.joining) \in Todo(p)
    BY <2>1, <2>2, <2>3, NextJoinIn
  <2> QED
    BY <1>3, <2>1, <2>2, <2>3, <2>4 DEF NextClient
<1> DEFINE cmd == NextCommand("UpgradeJoin", r, NextClient(next))
<1>5. NextUpgradeJoin(p) = {cmd} /\ cmd.kind = "UpgradeJoin"
  <2>1. Connected(room.assigned)
    BY <1>1, <1>2, CurrentFields
  <2>2. NextClient(next) = NextJoin(Todo(p), up.joining)
    BY <1>3 DEF NextClient
  <2> QED
    BY <1>1, <1>3, <1>4, <2>1, <2>2
       DEF NextUpgradeJoin, NextCommand, SameAssignment, MakeCommand
<1> HIDE DEF cmd
<1>6. pending' = (pending \ {p}) \cup {cmd} /\ wire' = (wire \ {p}) \cup {cmd}
  BY <1>1, <1>5 DEF SettleAndIssue
<1>7. OnBooks(r)'
  BY <1>1, <1>2, <1>3 DEF DutyOK, OnBooks, Hosted, SameAssignment
<1>8. LeaveExact(r)'
  BY <1>2, <1>5, <1>6 DEF DutyOK, LeaveExact
<1>9. UpgradeExact(r)'
  <2>1. \A q \in pending : q.room = r /\ q.kind = "UpgradeJoin" => q = p
    BY <1>2 DEF DutyOK, UpgradeExact
  <2>2. \A q \in pending' : q.room = r /\ q.kind = "UpgradeJoin" => q = cmd
    BY <1>6, <2>1
  <2> QED
    BY <1>3, <2>2 DEF UpgradeExact, cmd, NextCommand, Current, NextClient
<1>10. TodoOK(rooms[r])'
  BY <1>3, <1>4 DEF TodoOK
<1>11. Gated(r)'
  <2>1. StillTravelling(cmd)
    BY <1>6, IssuedTravels
  <2> QED
    BY <1>3, <2>1, GatedNext DEF cmd
<1> QED
  BY <1>7, <1>8, <1>9, <1>10, <1>11 DEF DutyOK

\* The barrier closes: nothing is asked of the worker any more.
LEMMA JoinLastRoom ==
  ASSUME Sound, NEW p \in wire, p.room \notin Failable, DutyOK(p.room), UpgradeJoinLast(p)
  PROVE  LET room == rooms[p.room]
             next == rooms'[p.room]
         IN  /\ room.mode = "Upgrading"
             /\ p = Current("UpgradeJoin", p.room, NextClient(room))
             /\ next.mode = "Sfu" /\ SameAssignment(room, next)
             /\ next.members = room.members /\ next.upgrade = NoUpgrade
             /\ room.pending_join = None /\ room.pending_leave = NoLeave
             /\ next.pending_join = None /\ next.pending_leave = NoLeave
<1> DEFINE r == p.room
           room == rooms[r]
           next == rooms'[r]
<1>0. /\ p \in pending /\ r \in Rooms /\ rooms \in [Rooms -> Room] /\ room \in Room
      /\ MembersOK(room)
  BY AnsweredRoom
<1>1. /\ p.kind = "UpgradeJoin" /\ room.upgrade # NoUpgrade
      /\ rooms' = [rooms EXCEPT ![r] = commit_upgrade(room)]
  BY DEF UpgradeJoinLast
<1>2. room.mode = "Upgrading" /\ p = Current("UpgradeJoin", r, NextClient(room))
  BY <1>0, <1>1 DEF DutyOK, UpgradeExact
<1>3. next = commit_upgrade(room)
  BY <1>0, <1>1
<1>4. room.pending_join = None /\ room.pending_leave = NoLeave
  BY <1>0, <1>1 DEF MembersOK, AwaitingOK
<1>5. /\ next.mode = "Sfu" /\ SameAssignment(room, next)
      /\ next.members = room.members /\ next.upgrade = NoUpgrade
      /\ next.pending_join = room.pending_join /\ next.pending_leave = room.pending_leave
  BY <1>0, <1>3 DEF commit_upgrade, Room, SameAssignment
<1> QED
  BY <1>2, <1>4, <1>5

LEMMA JoinLastDuty ==
  ASSUME Sound, Sound', NEW p \in wire, p.room \notin Failable, DutyOK(p.room),
         UpgradeJoinLast(p)
  PROVE  DutyOK(p.room)'
<1> DEFINE r == p.room
           room == rooms[r]
           next == rooms'[r]
<1>1. pending' = pending \ {p} /\ workers' = workers
  BY DEF UpgradeJoinLast, SettleAndIssue
<1>2. room.mode = "Upgrading" /\ p = Current("UpgradeJoin", r, NextClient(room))
  BY JoinLastRoom
<1>3. /\ next.mode = "Sfu" /\ SameAssignment(room, next)
      /\ next.pending_join = None /\ next.pending_leave = NoLeave
  BY JoinLastRoom
<1>4. \A q \in pending' : q.room = r => q.kind \notin {"UpgradeJoin", "SfuLeave"}
  BY <1>1, <1>2 DEF DutyOK, UpgradeExact, LeaveExact
<1>5. OnBooks(r)'
  BY <1>1, <1>2, <1>3 DEF DutyOK, OnBooks, Hosted, SameAssignment
<1>6. LeaveExact(r)' /\ UpgradeExact(r)' /\ TodoOK(rooms[r])'
  BY <1>3, <1>4 DEF LeaveExact, UpgradeExact, TodoOK
<1>7. Gated(r)'
  BY <1>3 DEF Gated
<1> QED
  BY <1>5, <1>6, <1>7 DEF DutyOK

\* The upgrade is given up: the room is off the books of its worker.
LEMMA JoinErrRoom ==
  ASSUME Sound, NEW p \in wire, p.room \notin Failable, DutyOK(p.room), UpgradeJoinErr(p)
  PROVE  LET room == rooms[p.room]
             next == rooms'[p.room]
         IN  /\ room.mode = "Upgrading" /\ ~Hosted(next)
             /\ room.pending_join = None /\ room.pending_leave = NoLeave
             /\ next.members = room.members \ {room.upgrade.joining}
             /\ next.upgrade = NoUpgrade
             /\ \A w \in Workers : p.room \notin workers'[w].rooms
             /\ \A q \in pending' : q.room = p.room =>
                  \/ q.kind = "Cleanup"
                  \/ q \in pending /\ q.kind \notin {"UpgradeJoin", "SfuLeave"}
<1> DEFINE r == p.room
           room == rooms[r]
           next == rooms'[r]
           rest == DropMembers(room, {room.upgrade.joining})
<1>0. /\ p \in pending /\ r \in Rooms /\ rooms \in [Rooms -> Room] /\ room \in Room
      /\ MembersOK(room) /\ workers \in [Workers -> Worker]
  BY AnsweredRoom DEF Sound, TypeOK
<1>1. /\ p.kind = "UpgradeJoin" /\ room.upgrade # NoUpgrade
      /\ pending' = (pending \ {p}) \cup AbortLeaves(r)
      /\ rooms' = [rooms EXCEPT ![r] = Aborted(room)]
      /\ workers' = [workers EXCEPT ![room.assigned].rooms = @ \ {r},
                                    ![room.assigned].clients = SatSub(@, UpgradeClients)]
  BY DEF UpgradeJoinErr, SettleAndIssue
<1>2. room.mode = "Upgrading" /\ p = Current("UpgradeJoin", r, NextClient(room))
  BY <1>0, <1>1 DEF DutyOK, UpgradeExact
<1>3. ~Hosted(next) /\ next.members = room.members \ {room.upgrade.joining}
      /\ next.upgrade = NoUpgrade
  <2>1. rest \in Room
    BY <1>0, DropMembersType
  <2>2. rest.members = room.members \ {room.upgrade.joining}
    BY <1>0 DEF DropMembers, Room
  <2>3. next = [rest EXCEPT !.mode = "P2p", !.upgrade = NoUpgrade, !.assigned = None]
    BY <1>0, <1>1 DEF Aborted
  <2> HIDE DEF rest
  <2> QED
    BY <2>1, <2>2, <2>3 DEF Room, Hosted
<1>4. \A w \in Workers : r \notin workers'[w].rooms
  <2>1. \A w \in Workers : r \in workers[w].rooms => room.assigned = w
    BY DEF DutyOK, OnBooks
  <2> QED
    BY <1>0, <1>1, <2>1 DEF Worker
<1>5. \A q \in AbortLeaves(r) : q.kind = "Cleanup"
  BY DEF AbortLeaves, MakeCommand
<1>6. \A q \in pending : q.room = r /\ q # p => q.kind \notin {"UpgradeJoin", "SfuLeave"}
  BY <1>0, <1>1, <1>2 DEF DutyOK, UpgradeExact, LeaveExact
<1>7. room.pending_join = None /\ room.pending_leave = NoLeave
  BY <1>0, <1>1 DEF MembersOK, AwaitingOK
<1> QED
  BY <1>1, <1>2, <1>3, <1>4, <1>5, <1>6, <1>7

LEMMA JoinErrDuty ==
  ASSUME Sound, Sound', NEW p \in wire, p.room \notin Failable, DutyOK(p.room),
         UpgradeJoinErr(p)
  PROVE  DutyOK(p.room)'
<1>1. p.room \in Rooms \ Failable /\ TypeOK' /\ AllMembersOK' /\ AllRolesOK'
  BY AnsweredRoom DEF Sound
<1>2. /\ ~Hosted(rooms'[p.room]) /\ \A w \in Workers : p.room \notin workers'[w].rooms
      /\ \A q \in pending' : q.room = p.room => q.kind \notin {"UpgradeJoin", "SfuLeave"}
  BY JoinErrRoom
<1> QED
  BY <1>1, <1>2, BareDuty

\* A newcomer of an SFU room has joined, or is refused.
LEMMA SfuJoinRoom ==
  ASSUME Sound, NEW p \in wire, p.room \notin Failable, SfuJoinOk(p) \/ SfuJoinErr(p)
  PROVE  LET room == rooms[p.room]
             next == rooms'[p.room]
         IN  /\ room.mode = "Sfu" /\ room.upgrade = NoUpgrade
             /\ next.mode = "Sfu" /\ SameAssignment(room, next) /\ next.upgrade = NoUpgrade
             /\ next.members = IF SfuJoinOk(p) THEN room.members
                                               ELSE room.members \ {room.pending_join}
             /\ next.pending_join = None /\ next.pending_leave = room.pending_leave
<1> DEFINE r == p.room
           room == rooms[r]
           next == rooms'[r]
<1>0. /\ p \in pending /\ r \in Rooms /\ rooms \in [Rooms -> Room] /\ room \in Room
      /\ MembersOK(room) /\ RolesOK(room)
  BY AnsweredRoom
<1>1. room.pending_join # None
  BY DEF SfuJoinOk, SfuJoinErr
<1>2. room.mode = "Sfu" /\ room.upgrade = NoUpgrade
  BY <1>0, <1>1, AwaitingIsSfu
<1>3. CASE SfuJoinOk(p)
  <2>1. next = [room EXCEPT !.pending_join = None]
    BY <1>0, <1>3 DEF SfuJoinOk
  <2> QED
    BY <1>0, <1>2, <1>3, <2>1 DEF Room, SameAssignment
<1>4. CASE SfuJoinErr(p) /\ ~SfuJoinOk(p)
  <2> DEFINE rest == DropMembers(room, {room.pending_join})
  <2>1. rest \in Room
    BY <1>0, DropMembersType
  <2>2. /\ rest.mode = "Sfu" /\ SameAssignment(room, rest) /\ rest.upgrade = NoUpgrade
        /\ rest.members = room.members \ {room.pending_join}
        /\ rest.pending_leave = room.pending_leave
    BY <1>0, <1>2 DEF DropMembers, Room, SameAssignment
  <2>3. next = [rest EXCEPT !.pending_join = None]
    BY <1>0, <1>4 DEF SfuJoinErr
  <2> HIDE DEF rest
  <2> QED
    BY <1>2, <1>4, <2>1, <2>2, <2>3 DEF Room, SameAssignment
<1> QED
  BY <1>3, <1>4

LEMMA SfuJoinDuty ==
  ASSUME Sound, Sound', NEW p \in wire, p.room \notin Failable, DutyOK(p.room),
         SfuJoinOk(p) \/ SfuJoinErr(p)
  PROVE  DutyOK(p.room)'
<1> DEFINE r == p.room
           room == rooms[r]
           next == rooms'[r]
<1>0. /\ p \in pending /\ r \in Rooms /\ p.instance \in Workers
      /\ rooms \in [Rooms -> Room] /\ room \in Room
      /\ MembersOK(room) /\ RolesOK(room) /\ Only(r) /\ TypeOK
  BY AnsweredRoom, ResultOnly DEF Result, Sound
<1>1. p.kind = "SfuJoin" /\ SettleAndIssue(p, {}) /\ lifecycle' = lifecycle
  BY DEF SfuJoinOk, SfuJoinErr
<1>2. room.mode = "Sfu"
  BY SfuJoinRoom
<1>3. /\ next.mode = "Sfu" /\ SameAssignment(room, next)
      /\ next.pending_join = None /\ next.pending_leave = room.pending_leave
  BY SfuJoinRoom
<1>4. \A w \in Workers : workers'[w].rooms = workers[w].rooms
  <2> DEFINE n == workers[p.instance].clients + 1
  <2>1. workers' = workers \/ workers' = [workers EXCEPT ![p.instance].clients = n]
    BY DEF SfuJoinOk, SfuJoinErr
  <2> HIDE DEF n
  <2>2. workers \in [Workers -> Worker]
    BY <1>0 DEF TypeOK
  <2> QED
    BY <2>1, <2>2 DEF Worker
<1>5. pending' = pending \ {p}
  BY <1>1 DEF SettleAndIssue
<1>a. \A kind, c : NextCommand(kind, r, c) = Current(kind, r, c)
  BY <1>1, <1>3, NextIsCurrent
<1>6. OnBooks(r)'
  BY <1>2, <1>3, <1>4 DEF DutyOK, OnBooks, Hosted, SameAssignment
<1>7. LeaveExact(r)'
  <2>1. ASSUME NEW q \in pending', q.room = r, q.kind = "SfuLeave"
        PROVE  room.pending_leave # NoLeave /\ q = Current("SfuLeave", r, room.pending_leave.client)
    BY <1>5, <2>1 DEF DutyOK, LeaveExact
  <2> QED
    BY <1>3, <1>a, <2>1 DEF LeaveExact, NextCommand, Current
<1>8. UpgradeExact(r)' /\ TodoOK(rooms[r])'
  BY <1>2, <1>3, <1>5 DEF DutyOK, UpgradeExact, TodoOK
<1>9. Gated(r)'
  <2>1. ASSUME next.pending_leave # NoLeave
        PROVE  StillTravelling(Current("SfuLeave", r, next.pending_leave.client))
    <3>1. Travelling(Current("SfuLeave", r, next.pending_leave.client))
      BY <1>3, <2>1 DEF DutyOK, Gated
    <3>2. Current("SfuLeave", r, next.pending_leave.client) # p
      BY <1>1, CurrentFields
    <3> QED
      BY <1>0, <1>1, <3>1, <3>2, OthersTravel
  <2> QED
    BY <1>3, <1>a, <2>1, GatedNext
<1> QED
  BY <1>6, <1>7, <1>8, <1>9 DEF DutyOK

\* The answer to a leave; when the last member went, the room goes as well,
\* and its place on the worker.
LEMMA SfuLeaveRoom ==
  ASSUME Sound, NEW p \in wire, p.room \notin Failable, DutyOK(p.room),
         SfuLeaveOk(p) \/ SfuLeaveErr(p)
  PROVE  LET room == rooms[p.room]
             next == rooms'[p.room]
         IN  /\ room.mode = "Sfu" /\ room.pending_leave # NoLeave
             /\ p = Current("SfuLeave", p.room, room.pending_leave.client)
             /\ next.members = IF SfuLeaveOk(p) THEN room.members \ {p.client} ELSE room.members
             /\ \A q \in pending' : q.room = p.room =>
                  q \in pending /\ q.kind \notin {"UpgradeJoin", "SfuLeave"}
             /\ \/ /\ next.members = {} /\ next = AbsentRoom
                   /\ \A w \in Workers : p.room \notin workers'[w].rooms
                \/ /\ next.mode = "Sfu" /\ SameAssignment(room, next)
                   /\ next.upgrade = room.upgrade
                   /\ next.pending_join = room.pending_join /\ next.pending_leave = NoLeave
                   /\ \A w \in Workers : workers'[w].rooms = workers[w].rooms
<1> DEFINE r == p.room
           room == rooms[r]
           next == rooms'[r]
           rest == [DropMembers(room, {p.client}) EXCEPT !.pending_leave = NoLeave]
<1>0. /\ p \in pending /\ r \in Rooms \ Failable /\ p.instance \in Workers
      /\ rooms \in [Rooms -> Room] /\ room \in Room /\ workers \in [Workers -> Worker]
  BY AnsweredRoom DEF Sound, TypeOK
<1>1. p.kind = "SfuLeave" /\ room.pending_leave # NoLeave /\ pending' = pending \ {p}
  BY DEF SfuLeaveOk, SfuLeaveErr, SettleAndIssue
<1>2. /\ room.mode = "Sfu" /\ p.instance = room.assigned
      /\ p = Current("SfuLeave", r, room.pending_leave.client)
  BY <1>0, <1>1, CurrentFields DEF DutyOK, LeaveExact
<1>3. \A q \in pending' : q.room = r => q \in pending /\ q.kind \notin {"UpgradeJoin", "SfuLeave"}
  <2>1. \A q \in pending : q.room = r /\ q.kind = "SfuLeave" => q = p
    BY <1>0, <1>1 DEF DutyOK, LeaveExact
  <2> QED
    BY <1>1, <1>2, <2>1 DEF DutyOK, UpgradeExact
<1>4. CASE SfuLeaveErr(p) /\ ~SfuLeaveOk(p)
  <2>1. next = [room EXCEPT !.pending_leave = NoLeave] /\ workers' = workers
    BY <1>0, <1>4 DEF SfuLeaveErr
  <2>2. /\ next.mode = "Sfu" /\ SameAssignment(room, next) /\ next.members = room.members
        /\ next.upgrade = room.upgrade
        /\ next.pending_join = room.pending_join /\ next.pending_leave = NoLeave
    BY <1>0, <1>2, <2>1 DEF Room, SameAssignment
  <2> QED
    BY <1>1, <1>2, <1>3, <1>4, <2>1, <2>2
<1>5. CASE SfuLeaveOk(p)
  <2> DEFINE n == SatSub(workers[p.instance].clients, 1)
             left == rest.members
             armed == arm_downgrade(rest)
  <2>1. /\ rest \in Room /\ rest.mode = "Sfu" /\ SameAssignment(room, rest)
        /\ left = room.members \ {p.client} /\ rest.upgrade = room.upgrade
        /\ rest.pending_join = room.pending_join /\ rest.pending_leave = NoLeave
    <3>1. DropMembers(room, {p.client}) \in Room
      BY <1>0, DropMembersType
    <3>2. /\ DropMembers(room, {p.client}).mode = "Sfu"
          /\ SameAssignment(room, DropMembers(room, {p.client}))
          /\ DropMembers(room, {p.client}).members = room.members \ {p.client}
          /\ DropMembers(room, {p.client}).upgrade = room.upgrade
          /\ DropMembers(room, {p.client}).pending_join = room.pending_join
      BY <1>0, <1>2 DEF DropMembers, Room, SameAssignment
    <3> QED
      BY <3>1, <3>2, ConstantTypes DEF Room, SameAssignment
  <2>2. /\ next = ReapIfEmpty(armed)
        /\ workers' = [workers EXCEPT ![p.instance].clients = n,
             ![p.instance].rooms = IF left = {} THEN @ \ {r} ELSE @]
    BY <1>0, <1>5 DEF SfuLeaveOk
  <2> HIDE DEF rest, n
  <2>3. /\ armed.mode = "Sfu" /\ SameAssignment(room, armed)
        /\ armed.members = left /\ armed.upgrade = room.upgrade
        /\ armed.pending_join = room.pending_join /\ armed.pending_leave = NoLeave
    BY <2>1 DEF arm_downgrade, Room, SameAssignment
  <2> HIDE DEF armed, left
  <2>4. CASE left = {}
    <3>1. next = AbsentRoom /\ next.members = {}
      BY <2>2, <2>3, <2>4 DEF ReapIfEmpty, AbsentRoom
    <3>2. \A w \in Workers : r \notin workers'[w].rooms
      <4>1. \A w \in Workers : r \in workers[w].rooms => p.instance = w
        BY <1>2 DEF DutyOK, OnBooks
      <4> QED
        BY <1>0, <2>2, <2>4, <4>1 DEF Worker
    <3> QED
      BY <1>1, <1>2, <1>3, <1>5, <2>1, <2>4, <3>1, <3>2
  <2>5. CASE left # {}
    <3>1. next = armed
      BY <2>2, <2>3, <2>5 DEF ReapIfEmpty
    <3>2. \A w \in Workers : workers'[w].rooms = workers[w].rooms
      BY <1>0, <2>2, <2>5 DEF Worker
    <3> QED
      BY <1>1, <1>2, <1>3, <1>5, <2>1, <2>3, <3>1, <3>2
  <2> QED
    BY <2>4, <2>5
<1> QED
  BY <1>4, <1>5

LEMMA SfuLeaveDuty ==
  ASSUME Sound, Sound', NEW p \in wire, p.room \notin Failable, DutyOK(p.room),
         SfuLeaveOk(p) \/ SfuLeaveErr(p)
  PROVE  DutyOK(p.room)'
<1> DEFINE r == p.room
           room == rooms[r]
           next == rooms'[r]
<1>0. /\ p \in pending /\ r \in Rooms \ Failable /\ p.instance \in Workers
      /\ Only(r) /\ TypeOK /\ TypeOK' /\ AllMembersOK' /\ AllRolesOK'
  BY AnsweredRoom, ResultOnly DEF Result, Sound
<1>1. p.kind = "SfuLeave" /\ SettleAndIssue(p, {}) /\ lifecycle' = lifecycle
  BY DEF SfuLeaveOk, SfuLeaveErr
<1>2. room.mode = "Sfu"
  BY SfuLeaveRoom
<1>4. \A q \in pending' : q.room = r => q.kind \notin {"UpgradeJoin", "SfuLeave"}
  BY SfuLeaveRoom
<1>5. CASE next = AbsentRoom /\ \A w \in Workers : r \notin workers'[w].rooms
  BY <1>0, <1>4, <1>5, BareDuty DEF Hosted, AbsentRoom
<1>6. CASE /\ next.mode = "Sfu" /\ SameAssignment(room, next)
           /\ next.pending_join = room.pending_join /\ next.pending_leave = NoLeave
           /\ \A w \in Workers : workers'[w].rooms = workers[w].rooms
  <2>a. \A kind, c : NextCommand(kind, r, c) = Current(kind, r, c)
    BY <1>1, <1>6, NextIsCurrent
  <2>3. OnBooks(r)'
    BY <1>2, <1>6 DEF DutyOK, OnBooks, Hosted, SameAssignment
  <2>4. LeaveExact(r)' /\ UpgradeExact(r)' /\ TodoOK(rooms[r])'
    BY <1>4, <1>6 DEF DutyOK, LeaveExact, UpgradeExact, TodoOK
  <2>5. Gated(r)'
    <3>1. ASSUME next.pending_join # None
          PROVE  StillTravelling(Current("SfuJoin", r, next.pending_join))
      <4>1. Travelling(Current("SfuJoin", r, next.pending_join))
        BY <1>6, <3>1 DEF DutyOK, Gated
      <4>2. Current("SfuJoin", r, next.pending_join) # p
        BY <1>1, CurrentFields
      <4> QED
        BY <1>0, <1>1, <4>1, <4>2, OthersTravel
    <3> QED
      BY <1>6, <2>a, <3>1, GatedNext
  <2> QED
    BY <2>3, <2>4, <2>5 DEF DutyOK
<1> QED
  BY <1>5, <1>6, SfuLeaveRoom

\* An answer nobody waits for is not the one a duty is about.
LEMMA SettleOnlyDuty ==
  ASSUME Sound, Sound', NEW p \in wire, p.room \notin Failable, DutyOK(p.room),
         SettleOnly(p)
  PROVE  DutyOK(p.room)'
<1> DEFINE r == p.room
           room == rooms[r]
<1>0. /\ p \in pending /\ r \in Rooms /\ room \in Room /\ RoomOK(room) /\ Only(r) /\ TypeOK
  BY AnsweredRoom, ResultOnly DEF Result, Sound
<1>1. /\ Unawaited(p) /\ SettleAndIssue(p, {}) /\ pending' = pending \ {p}
      /\ rooms' = rooms /\ workers' = workers /\ lifecycle' = lifecycle
  BY DEF SettleOnly, SettleAndIssue
<1>a. \A kind, c : NextCommand(kind, r, c) = Current(kind, r, c)
  BY <1>1, NextIsCurrent DEF SameAssignment
<1>2. OnBooks(r)' /\ TodoOK(rooms[r])'
  BY <1>1 DEF DutyOK, OnBooks, TodoOK
<1>3. LeaveExact(r)' /\ UpgradeExact(r)'
  BY <1>1 DEF DutyOK, LeaveExact, UpgradeExact, Current, NextClient
<1>4. Gated(r)'
  <2>1. ASSUME NEW g, Travelling(g), g # p PROVE StillTravelling(g)
    BY <1>0, <1>1, <2>1, OthersTravel
  <2>2. room.mode = "Upgrading" => StillTravelling(Current("UpgradeJoin", r, NextClient(room)))
    <3>1. room.mode = "Upgrading" => p.kind # "UpgradeJoin"
      BY <1>0, <1>1 DEF Unawaited, RoomOK, BarrierShape
    <3> QED
      BY <2>1, <3>1, CurrentFields DEF DutyOK, Gated
  <2>3. room.pending_join # None => StillTravelling(Current("SfuJoin", r, room.pending_join))
    <3>1. room.pending_join # None => p.kind # "SfuJoin"
      BY <1>1 DEF Unawaited
    <3> QED
      BY <2>1, <3>1, CurrentFields DEF DutyOK, Gated
  <2>4. room.pending_leave # NoLeave =>
          StillTravelling(Current("SfuLeave", r, room.pending_leave.client))
    <3>1. room.pending_leave # NoLeave => p.kind # "SfuLeave"
      BY <1>1 DEF Unawaited
    <3> QED
      BY <2>1, <3>1, CurrentFields DEF DutyOK, Gated
  <2> QED
    BY <1>1, <1>a, <2>2, <2>3, <2>4, GatedNext
<1> QED
  BY <1>2, <1>3, <1>4 DEF DutyOK

LEMMA ResultDuty ==
  ASSUME Sound, Sound', NEW p \in wire, p.room \notin Failable, DutyOK(p.room), Result(p)
  PROVE  DutyOK(p.room)'
BY JoinMoreDuty, JoinLastDuty, JoinErrDuty, SfuJoinDuty, SfuLeaveDuty, SettleOnlyDuty DEF Result

-----------------------------------------------------------------------------
(***************************************************************************)
(* The sweep of a room.                                                    *)
(***************************************************************************)

\* A room whose dwell is over goes back to P2P.
LEMMA DowngradedRoom ==
  ASSUME Sound, NEW r \in Rooms \ Failable, DutyOK(r),
         SweepDowngrade(r), is_downgrade_eligible(rooms[r])
  PROVE  /\ rooms[r].mode = "Sfu" /\ rooms[r].upgrade = NoUpgrade
         /\ rooms[r].pending_join = None /\ rooms[r].pending_leave = NoLeave
         /\ rooms'[r].members = rooms[r].members
         /\ ~Hosted(rooms'[r]) /\ \A w \in Workers : r \notin workers'[w].rooms
         /\ \A q \in pending' : q.room = r =>
              \/ q.kind = "Cleanup"
              \/ q \in pending /\ q.kind \notin {"UpgradeJoin", "SfuLeave"}
<1> DEFINE room == rooms[r]
<1>0. rooms \in [Rooms -> Room] /\ room \in Room /\ workers \in [Workers -> Worker]
  BY DEF Sound, TypeOK
<1>1. /\ rooms' = [rooms EXCEPT ![r] = commit_downgrade(room)]
      /\ workers' = [workers EXCEPT
           ![room.assigned].rooms = @ \ {r},
           ![room.assigned].clients = SatSub(@, Cardinality(room.members))]
      /\ pending' = pending \cup DowngradeLeaves(r)
  BY DEF SweepDowngrade, Issue
<1>2. /\ room.mode = "Sfu" /\ room.upgrade = NoUpgrade
      /\ room.pending_join = None /\ room.pending_leave = NoLeave
  BY DEF is_downgrade_eligible
<1>3. ~Hosted(rooms'[r]) /\ rooms'[r].members = room.members
  BY <1>0, <1>1 DEF commit_downgrade, Room, Hosted
<1>4. \A w \in Workers : r \notin workers'[w].rooms
  <2>1. \A w \in Workers : r \in workers[w].rooms => room.assigned = w
    BY DEF DutyOK, OnBooks
  <2> QED
    BY <1>0, <1>1, <2>1 DEF Worker
<1>5. \A q \in DowngradeLeaves(r) : q.kind = "Cleanup"
  BY DEF DowngradeLeaves, MakeCommand
<1>6. \A q \in pending : q.room = r => q.kind \notin {"UpgradeJoin", "SfuLeave"}
  BY <1>2 DEF DutyOK, UpgradeExact, LeaveExact
<1> QED
  BY <1>1, <1>2, <1>3, <1>4, <1>5, <1>6

\* What else the sweep makes of a room.
LEMMA SweepSteps ==
  ASSUME TypeOK, NEW r \in Rooms, SweepRoom(r)
  PROVE  \/ OrdinaryStep(r)
         \/ SweepDowngrade(r) /\ is_downgrade_eligible(rooms[r])
<1> DEFINE room == rooms[r]
           next == rooms'[r]
<1>0. /\ rooms \in [Rooms -> Room] /\ room \in Room /\ Only(r)
      /\ lifecycle' = lifecycle /\ legs' = legs /\ open' = open
  BY SweepOnly DEF TypeOK, SweepRoom
<1>a. ASSUME Alike(room, next), workers' = workers, UNCHANGED <<pending, wire>>
      PROVE  OrdinaryStep(r)
  BY <1>0, <1>a, QuietStill DEF OrdinaryStep
<1>1. CASE SweepDowngrade(r) /\ ~is_downgrade_eligible(room)
  <2>1. /\ rooms' = [rooms EXCEPT ![r].downgrade_deadline = None]
        /\ workers' = workers /\ UNCHANGED <<pending, wire>>
    BY <1>1 DEF SweepDowngrade
  <2>2. Alike(room, next)
    BY <1>0, <2>1 DEF Alike, Room
  <2> QED
    BY <1>a, <2>1, <2>2
<1>2. CASE SweepSfu(r)
  <2>1. PICK c \in ExpiredMembers(room) :
          IF CanIssueLeave(r, c)
            THEN /\ rooms' = [rooms EXCEPT ![r].pending_leave =
                                [client |-> c, requested |-> FALSE]]
                 /\ Issue({LeaveCommand(r, c)})
            ELSE /\ rooms' = [rooms EXCEPT ![r].deadline[c] = Grace]
                 /\ UNCHANGED <<pending, wire>>
    BY <1>2 DEF SweepSfu
  <2>2. workers' = workers /\ c \in Clients
    BY <1>0, <1>2 DEF SweepSfu, ExpiredMembers, Room
  <2>3. CASE CanIssueLeave(r, c)
    <3>1. rooms' = [rooms EXCEPT ![r].pending_leave = [client |-> c, requested |-> FALSE]]
      BY <2>1, <2>3
    <3>2. /\ next.mode = room.mode /\ SameAssignment(room, next)
          /\ next.members = room.members /\ next.upgrade = room.upgrade
          /\ next.pending_join = room.pending_join
          /\ next.pending_leave = [client |-> c, requested |-> FALSE]
      BY <1>0, <3>1 DEF Room, SameAssignment
    <3>3. AsksLeave(r, c, FALSE)
      BY <1>0, <2>1, <2>2, <2>3, <3>2 DEF CanIssueLeave, AsksLeave
    <3> QED
      BY <2>2, <3>3 DEF OrdinaryStep
  <2>4. CASE ~CanIssueLeave(r, c)
    <3>1. rooms' = [rooms EXCEPT ![r].deadline[c] = Grace] /\ UNCHANGED <<pending, wire>>
      BY <2>1, <2>4
    <3>2. Alike(room, next)
      BY <1>0, <3>1 DEF Alike, Room
    <3> QED
      BY <1>a, <2>2, <3>1, <3>2
  <2> QED
    BY <2>3, <2>4
<1>3. CASE SweepP2p(r)
  <2> DEFINE rest == DropMembers(room, ExpiredMembers(room))
  <2>1. /\ workers' = workers /\ UNCHANGED <<pending, wire>>
        /\ next = IF room.mode # "P2p" THEN room
                  ELSE IF rest = room THEN ReapIfEmpty(room)
                  ELSE ReapIfEmpty(promote_survivor(rest))
    BY <1>0, <1>3 DEF SweepP2p
  <2>2. CASE room.mode # "P2p"
    BY <1>a, <2>1, <2>2 DEF Alike
  <2>3. CASE room.mode = "P2p"
    <3>1. ~Hosted(room)
      BY <2>3 DEF Hosted
    <3>2. /\ ~Hosted(ReapIfEmpty(promote_survivor(rest)))
          /\ ReapIfEmpty(promote_survivor(rest)).members \subseteq room.members
      BY <1>0, <3>1, DropStaysBare
    <3>3. ~Hosted(ReapIfEmpty(room)) /\ ReapIfEmpty(room).members \subseteq room.members
      BY <3>1 DEF ReapIfEmpty, AbsentRoom, Hosted
    <3>4. ~Hosted(next) /\ next.members \subseteq room.members
      BY <2>1, <2>3, <3>2, <3>3
    <3> QED
      BY <1>0, <2>1, <3>1, <3>4 DEF BareStep, OrdinaryStep
  <2> QED
    BY <2>2, <2>3
<1> QED
  BY <1>1, <1>2, <1>3 DEF SweepRoom

LEMMA SweepDuty ==
  ASSUME Sound, Sound', NEW r \in Rooms \ Failable, DutyOK(r), SweepRoom(r)
  PROVE  DutyOK(r)'
<1>0. /\ TypeOK /\ TypeOK' /\ AllMembersOK /\ AllMembersOK' /\ AllRolesOK /\ AllRolesOK'
      /\ Only(r)
  BY SweepOnly DEF Sound
<1>1. CASE OrdinaryStep(r)
  BY <1>0, <1>1, OrdinaryDuty
<1>2. CASE SweepDowngrade(r) /\ is_downgrade_eligible(rooms[r])
  <2>1. /\ ~Hosted(rooms'[r]) /\ \A w \in Workers : r \notin workers'[w].rooms
        /\ \A q \in pending' : q.room = r => q.kind \notin {"UpgradeJoin", "SfuLeave"}
    BY <1>2, DowngradedRoom
  <2> QED
    BY <1>0, <2>1, BareDuty
<1> QED
  BY <1>0, <1>1, <1>2, SweepSteps

-----------------------------------------------------------------------------
(***************************************************************************)
(* Steps that concern a worker or the whole table.                         *)
(***************************************************************************)

\* The commands of a hosted room travel on, where the rest is left alone.
LEMMA TableStill ==
  ASSUME NEW r \in Rooms, Alike(rooms[r], rooms'[r]),
         lifecycle' = lifecycle, pending' = pending, legs' = legs, open' = open,
         \A w \in Workers : workers'[w].rooms = workers[w].rooms,
         Hosted(rooms[r]) =>
           \A p \in pending : p.room = r /\ p.instance = rooms[r].assigned /\ Travelling(p) =>
             StillTravelling(p)
  PROVE  Still(r)
BY DEF Still

LEMMA SyncStill ==
  ASSUME TypeOK, ReplayOK, NEW s, SyncOk(s) \/ SyncErr(s), NEW r \in Rooms \ Failable
  PROVE  Still(r)
<1>1. /\ workers' = workers /\ lifecycle' = lifecycle /\ pending' = pending
      /\ legs' = legs /\ open' = open /\ syncs' = syncs \ {s} /\ s \in syncs
  BY DEF SyncOk, SyncErr
<1>2. Alike(rooms[r], rooms'[r])
  <2>1. rooms'[r] = rooms[r]
    BY DEF SyncOk, SyncErr, fail_room, TypeOK
  <2> QED
    BY <2>1 DEF Alike
<1>3. \A p \in pending : p.room = r /\ Travelling(p) => StillTravelling(p)
  <2> SUFFICES ASSUME NEW p \in pending, p.room = r, Travelling(p)
               PROVE  StillTravelling(p)
    OBVIOUS
  <2>1. p \in s.replay => p \in wire'
    BY <1>1 DEF SyncOk, SyncErr, ReplayOK
  <2>2. wire \subseteq wire'
    BY DEF SyncOk, SyncErr
  <2> QED
    BY <1>1, <2>1, <2>2 DEF Travelling, StillTravelling, Connected
<1> QED
  BY <1>1, <1>2, <1>3, TableStill

\* A new stream of a worker: what it has not acknowledged is replayed.
LEMMA RegisterStill ==
  ASSUME TypeOK, ReplayOK, NEW w \in Workers, NEW k, NEW capacity,
         register_worker(w, k, capacity), NEW r \in Rooms, OnBooks(r)
  PROVE  Still(r)
<1> DEFINE replay(q) == {p \in OfWorker(w, pending) : p.room = q}
           sync(q) == [instance |-> w, room |-> q,
                       assignment_epoch |-> rooms[q].assignment_epoch, replay |-> replay(q)]
           mine == {q \in workers[w].rooms : rooms[q].mode # "Absent"}
<1>1. /\ rooms' = rooms /\ lifecycle' = lifecycle /\ pending' = pending
      /\ legs' = legs /\ open' = open
      /\ syncs' = (syncs \ OfWorker(w, syncs)) \cup {sync(q) : q \in mine}
      /\ wire' = wire \ OfWorker(w, wire)
      /\ workers' = [workers EXCEPT ![w].conn = k, ![w].capacity = capacity,
                                    ![w].health = "None", ![w].deadline = None]
  BY DEF register_worker
<1>2. \A v \in Workers : /\ workers'[v].rooms = workers[v].rooms
                         /\ v # w => workers'[v].conn = workers[v].conn
  BY <1>1 DEF TypeOK, Worker
<1>3. \A q : sync(q).instance = w /\ sync(q).room = q /\ sync(q).replay = replay(q)
  OBVIOUS
<1>4. \A q : \A p \in replay(q) : p \in pending /\ p.room = q /\ p.instance = w
  BY DEF OfWorker
<1>5. \A p \in pending : p.instance = w => p \in replay(p.room)
  BY DEF OfWorker
<1> HIDE DEF sync, replay
<1>6. ASSUME Hosted(rooms[r]), NEW p \in pending, p.room = r,
             p.instance = rooms[r].assigned, Travelling(p)
      PROVE  StillTravelling(p)
  <2>1. p.instance \in Workers
    BY DEF TypeOK, Command
  <2>2. CASE p.instance = w
    <3>1. r \in mine
      BY <1>6, <2>2 DEF OnBooks, Hosted
    <3>2. sync(r) \in syncs' /\ p \in sync(r).replay
      BY <1>1, <1>3, <1>5, <1>6, <2>2, <3>1
    <3> QED
      BY <1>1, <3>2 DEF StillTravelling
  <2>3. CASE p.instance # w
    <3>1. p \in wire => p \in wire'
      BY <1>1, <2>3 DEF OfWorker
    <3>2. \A s \in syncs : p \in s.replay => s \in syncs'
      BY <1>1, <2>3 DEF OfWorker, ReplayOK
    <3>3. workers'[p.instance].conn = workers[p.instance].conn
      BY <1>2, <2>1, <2>3
    <3> QED
      BY <1>1, <1>6, <3>1, <3>2, <3>3 DEF Travelling, StillTravelling, Connected
  <2> QED
    BY <2>2, <2>3
<1>7. Alike(rooms[r], rooms'[r])
  BY <1>1 DEF Alike
<1> QED
  BY <1>1, <1>2, <1>6, <1>7, TableStill

\* A stream is lost; nothing has to travel to a worker without one.
LEMMA DisconnectStill ==
  ASSUME TypeOK, NEW w \in Workers, NEW k, WorkerDisconnected(w, k),
         NEW r \in Rooms
  PROVE  Still(r)
<1>1. /\ rooms' = rooms /\ lifecycle' = lifecycle /\ pending' = pending
      /\ legs' = legs /\ open' = open /\ syncs' = syncs
  BY DEF WorkerDisconnected
<1>2. \/ workers' = workers /\ wire' = wire
      \/ /\ workers' = [workers EXCEPT ![w].conn = None, ![w].health = "None",
                                       ![w].deadline = Grace]
         /\ wire' = wire \ OfWorker(w, wire)
  BY DEF WorkerDisconnected
<1>3. \A v \in Workers : /\ workers'[v].rooms = workers[v].rooms
                         /\ workers'[v].conn \in {None, workers[v].conn}
                         /\ v # w => workers'[v].conn = workers[v].conn
  BY <1>2 DEF TypeOK, Worker
<1>4. \A p \in wire : p \in wire' \/ (p.instance = w /\ workers'[w].conn = None)
  BY <1>2 DEF OfWorker, TypeOK, Worker
<1>5. ASSUME NEW p \in pending, Travelling(p)
      PROVE  StillTravelling(p)
  <2>1. p.instance \in Workers
    BY DEF TypeOK, Command
  <2> QED
    BY <1>1, <1>3, <1>4, <1>5, <2>1 DEF Travelling, StillTravelling, Connected
<1>6. Alike(rooms[r], rooms'[r])
  BY <1>1 DEF Alike
<1> QED
  BY <1>1, <1>3, <1>5, <1>6, TableStill

\* Health, failure of a room, time and the start of the sweep.
LEMMA QuietTable ==
  ASSUME TypeOK, NEW r \in Rooms \ Failable,
         \/ \E w \in Workers : \E x, y : WorkerHealth(w, x, y) \/ WorkerFailure(w, x)
         \/ Tick \/ StartSweep \/ UNCHANGED vars
  PROVE  Still(r)
<1>1. /\ lifecycle' = lifecycle /\ pending' = pending /\ legs' = legs /\ open' = open
      /\ syncs' = syncs /\ wire' = wire
  BY DEF WorkerHealth, WorkerFailure, Tick, StartSweep, vars
<1>2. \A v \in Workers : workers'[v].rooms = workers[v].rooms /\ workers'[v].conn = workers[v].conn
  <2>1. CASE workers' = workers
    BY <2>1
  <2>2. ASSUME NEW w \in Workers, NEW x, NEW y, WorkerHealth(w, x, y)
        PROVE  \A v \in Workers :
                 workers'[v].rooms = workers[v].rooms /\ workers'[v].conn = workers[v].conn
    <3>1. workers' = [workers EXCEPT ![w].capacity = y, ![w].health = x]
      BY <2>2 DEF WorkerHealth
    <3> QED
      BY <3>1 DEF TypeOK, Worker
  <2>3. CASE Tick
    <3>1. workers' = [w \in Workers |-> [workers[w] EXCEPT !.deadline = Elapsed(@)]]
      BY <2>3 DEF Tick
    <3> QED
      BY <3>1 DEF TypeOK, Worker
  <2> QED
    BY <2>1, <2>2, <2>3 DEF WorkerFailure, StartSweep, vars
<1>3. Alike(rooms[r], rooms'[r])
  <2>1. rooms[r] \in Room
    BY DEF TypeOK
  <2>2. CASE Tick
    <3>1. rooms'[r] = [rooms[r] EXCEPT !.downgrade_deadline = Elapsed(@),
                         !.deadline = [c \in Clients |-> Elapsed(@[c])]]
      BY <2>2 DEF Tick
    <3> QED
      BY <2>1, <3>1 DEF Alike, Room
  <2>3. CASE ~Tick
    <3>1. rooms'[r] = rooms[r]
      BY <2>3 DEF WorkerHealth, WorkerFailure, StartSweep, vars, fail_room, TypeOK
    <3> QED
      BY <3>1 DEF Alike
  <2> QED
    BY <2>2, <2>3
<1>4. \A p \in pending : Travelling(p) => StillTravelling(p)
  <2>1. \A p \in pending : p.instance \in Workers
    BY DEF TypeOK, Command
  <2> QED
    BY <1>1, <1>2, <2>1 DEF Travelling, StillTravelling, Connected
<1> QED
  BY <1>1, <1>2, <1>3, <1>4, TableStill

LEMMA AnswerFields ==
  ASSUME NEW op, NEW r, NEW c, NEW q \in Answer(op, r, c)
  PROVE  q.op = op /\ q.room = r /\ q.client = c /\ q.lifecycle = lifecycle[r][c]
BY DEF Answer

\* The answer to an awaited admission.
LEMMA AnswerAwaited ==
  ASSUME NEW r, NEW c \in {rooms[r].upgrade.joining, rooms[r].pending_join},
         NEW q \in Answer("admit", r, c)
  PROVE  Awaited(q)
BY AnswerFields DEF Awaited

\* The loss of a worker takes the rooms on its books with it.
LEMMA ExpiredRoom ==
  ASSUME Sound, ReplayOK, NEW w \in Workers, expire_worker(w),
         NEW r \in Rooms \ Failable, DutyOK(r)
  PROVE  \/ Still(r)
         \/ /\ rooms[r].assigned = w /\ Hosted(rooms[r]) /\ ~Hosted(rooms'[r])
            /\ \A v \in Workers : r \notin workers'[v].rooms
            /\ \A p \in pending' : p.room = r =>
                 p.instance # w /\ (p.kind = "Cleanup" \/ p \in pending)
            /\ rooms'[r].members = rooms[r].members \
                 {IF rooms[r].mode = "Upgrading" THEN rooms[r].upgrade.joining
                                                 ELSE rooms[r].pending_join}
            /\ lifecycle' = lifecycle /\ open' \subseteq open
            /\ \A q \in open : q.room = r /\ q.op = "admit" => q \in open' \/ Awaited(q)
            /\ rooms[r].mode = "Sfu" => LeaveAnswer(r) \cap open' = {}
            /\ (IF rooms[r].mode = "Upgrading" THEN AbortAnswer(r) ELSE ExpiredAnswer(r))
                 \cap open' = {}
<1> DEFINE mine == {q \in workers[w].rooms : rooms[q].mode # "Absent"}
           aborted == {q \in mine : rooms[q].mode = "Upgrading"}
           on(v) == {q \in aborted : rooms[q].assigned = v}
           leaves == UNION {AbortLeaves(q) : q \in aborted}
           answers == UNION ({AbortAnswer(q) : q \in aborted} \cup
                             {ExpiredAnswer(q) : q \in mine \ aborted})
           room == rooms[r]
<1>0. /\ rooms \in [Rooms -> Room] /\ room \in Room /\ workers \in [Workers -> Worker]
      /\ TypeOK /\ MembersOK(room)
  BY DEF Sound, TypeOK, AllMembersOK
<1>1. /\ rooms' = [q \in Rooms |-> CASE q \in aborted -> Aborted(rooms[q])
                                     [] q \in mine \ aborted -> Expired(rooms[q])
                                     [] OTHER -> rooms[q]]
      /\ workers' = [v \in Workers |->
           IF v = w
             THEN [workers[w] EXCEPT !.deadline = None, !.rooms = {}, !.clients = 0]
             ELSE [workers[v] EXCEPT
                     !.rooms = @ \ on(v),
                     !.clients = SatSub(@, UpgradeClients * Cardinality(on(v)))]]
      /\ pending' = (pending \cup leaves) \ OfWorker(w, pending \cup leaves)
      /\ wire' = (wire \cup leaves) \ OfWorker(w, wire \cup leaves)
      /\ syncs' = syncs \ OfWorker(w, syncs)
      /\ legs' = legs \ OfWorker(w, legs)
      /\ open' = open \ answers
      /\ lifecycle' = lifecycle
  BY DEF expire_worker
<1>2. \A p \in leaves : p.kind = "Cleanup" /\ \E q \in mine : p.room = q
  <2>1. \A q : \A p \in AbortLeaves(q) : p.kind = "Cleanup" /\ p.room = q
    BY DEF AbortLeaves, MakeCommand
  <2>2. \A p \in leaves : \E q \in mine : p \in AbortLeaves(q)
    BY Zenon
  <2> HIDE DEF leaves
  <2> QED
    BY <2>1, <2>2
<1>3. \A q \in answers : q.room \in mine /\ q \in AbortAnswer(q.room) \cup ExpiredAnswer(q.room)
  <2>1. \A q \in answers : \E x \in mine : q \in AbortAnswer(x) \cup ExpiredAnswer(x)
    BY Zenon
  <2> HIDE DEF answers
  <2> QED
    BY <2>1, AnswerRooms
<1>4. \A v \in Workers : /\ workers'[v].rooms \subseteq workers[v].rooms
                         /\ workers[v].rooms \subseteq workers'[v].rooms \cup workers[w].rooms
                         /\ v # w => workers'[v].conn = workers[v].conn
  <2>1. \A v : on(v) \subseteq workers[w].rooms
    OBVIOUS
  <2> HIDE DEF on
  <2>2. /\ workers'[w].rooms = {}
        /\ \A v \in Workers \ {w} : /\ workers'[v].rooms = workers[v].rooms \ on(v)
                                    /\ workers'[v].conn = workers[v].conn
    BY <1>0, <1>1 DEF Worker
  <2> QED
    BY <2>1, <2>2
<1>5. /\ \A p \in pending' : p.instance # w /\ (p \in pending \/ p \in leaves)
      /\ \A p \in pending : p.instance # w => p \in pending'
      /\ \A p \in wire : p.instance # w => p \in wire'
      /\ \A s \in syncs : s.instance # w => s \in syncs'
      /\ \A l \in legs : l.instance # w => l \in legs'
      /\ syncs' \subseteq syncs
  <2> HIDE DEF leaves
  <2> QED
    BY <1>1 DEF OfWorker
<1>6. CASE r \in workers[w].rooms
  <2>1. room.assigned = w /\ Hosted(room)
    BY <1>6 DEF DutyOK, OnBooks
  <2>0. r \in mine /\ (r \in aborted <=> room.mode = "Upgrading")
    BY <1>6, <2>1 DEF Hosted
  <2>2. /\ ~Hosted(rooms'[r])
        /\ rooms'[r].members = room.members \
             {IF room.mode = "Upgrading" THEN room.upgrade.joining ELSE room.pending_join}
    <3>1. rooms'[r] = IF room.mode = "Upgrading" THEN Aborted(room) ELSE Expired(room)
      <4> HIDE DEF mine, aborted
      <4> QED
        BY <1>1, <2>0
    <3>2. \A S : DropMembers(room, S) \in Room
                /\ DropMembers(room, S).members = room.members \ S
      BY <1>0, DropMembersType DEF DropMembers, Room
    <3> QED
      BY <3>1, <3>2 DEF Aborted, Expired, Room, Hosted
  <2>3. \A v \in Workers : r \notin workers'[v].rooms
    <3>1. \A v \in Workers : r \in workers[v].rooms => v = w
      BY <2>1 DEF DutyOK, OnBooks
    <3>2. workers'[w].rooms = {}
      BY <1>0, <1>1 DEF Worker
    <3> QED
      BY <1>4, <3>1, <3>2
  <2>4. \A p \in pending' : p.room = r => p.instance # w /\ (p.kind = "Cleanup" \/ p \in pending)
    <3> HIDE DEF leaves
    <3> QED
      BY <1>2, <1>5
  <2>5. \A q \in answers : q.room = r /\ q.op = "admit" => Awaited(q)
    <3>1. \A q \in AbortAnswer(r) \cup ExpiredAnswer(r) :
            \/ q \in Answer("admit", r, room.upgrade.joining)
            \/ q \in Answer("admit", r, room.pending_join)
            \/ q \in Answer("remove", r, room.pending_leave.client)
      BY DEF AbortAnswer, ExpiredAnswer, LeaveAnswer
    <3>2. \A q \in AbortAnswer(r) \cup ExpiredAnswer(r) : q.op = "admit" => Awaited(q)
      BY <3>1, AnswerAwaited, AnswerFields
    <3> HIDE DEF answers, mine
    <3> QED
      BY <1>3, <3>2
  <2>6. /\ (IF room.mode = "Upgrading" THEN AbortAnswer(r) ELSE ExpiredAnswer(r)) \subseteq answers
        /\ room.mode = "Sfu" => LeaveAnswer(r) \subseteq answers
    <3>1. IF room.mode = "Upgrading"
            THEN AbortAnswer(r) \in {AbortAnswer(q) : q \in aborted}
            ELSE ExpiredAnswer(r) \in {ExpiredAnswer(q) : q \in mine \ aborted}
      BY <2>0
    <3>2. (IF room.mode = "Upgrading" THEN AbortAnswer(r) ELSE ExpiredAnswer(r)) \subseteq answers
      <4> HIDE DEF mine, aborted
      <4> QED
        BY <3>1
    <3> QED
      BY <3>2 DEF ExpiredAnswer
  <2> HIDE DEF answers
  <2> QED
    BY <1>1, <2>1, <2>2, <2>3, <2>4, <2>5, <2>6
<1>7. CASE r \notin workers[w].rooms
  <2>0. r \notin mine
    BY <1>7
  <2>1. Alike(room, rooms'[r])
    <3>1. rooms'[r] = room
      <4>1. r \notin aborted /\ r \notin mine \ aborted
        BY <2>0
      <4> HIDE DEF aborted, mine
      <4> QED
        BY <1>1, <4>1
    <3> QED
      BY <3>1 DEF Alike
  <2>2. \A v \in Workers : r \in workers'[v].rooms <=> r \in workers[v].rooms
    BY <1>4, <1>7
  <2>3. \A p \in pending' : p.room = r => p \in pending
    <3> HIDE DEF leaves
    <3> QED
      BY <1>2, <1>5, <2>0
  <2>4. Hosted(room) => room.assigned \in Workers \ {w}
    <3>1. Hosted(room) => room.assigned \in Workers
      BY <1>0 DEF Hosted, MembersOK, AwaitingOK, Room
    <3> QED
      BY <1>7, <3>1 DEF DutyOK, OnBooks
  <2>5. ASSUME Hosted(room), NEW p \in pending, p.instance = room.assigned, Travelling(p)
        PROVE  StillTravelling(p)
    <3>1. p.instance \in Workers \ {w}
      BY <2>4, <2>5
    <3>2. workers'[p.instance].conn = workers[p.instance].conn
      BY <1>4, <3>1
    <3>3. \A s \in syncs : p \in s.replay => s \in syncs'
      BY <1>5, <3>1 DEF ReplayOK
    <3> QED
      BY <1>5, <2>5, <3>1, <3>2, <3>3 DEF Travelling, StillTravelling, Connected
  <2>6. Hosted(room) => \A l \in legs : l.instance = room.assigned => l \in legs'
    BY <1>5, <2>4
  <2>7. \A q \in Request : q.room = r => (q \in open' <=> q \in open)
    <3> HIDE DEF answers
    <3> QED
      BY <1>1, <1>3, <2>0
  <2> QED
    BY <1>1, <2>1, <2>2, <2>3, <2>5, <2>6, <2>7 DEF Still
<1> QED
  BY <1>6, <1>7

LEMMA ExpiryDuty ==
  ASSUME Sound, Sound', ReplayOK, NEW w \in Workers, expire_worker(w),
         NEW r \in Rooms \ Failable, DutyOK(r)
  PROVE  DutyOK(r)'
<1>0. TypeOK /\ TypeOK' /\ AllMembersOK /\ AllMembersOK' /\ AllRolesOK /\ AllRolesOK'
  BY DEF Sound
<1>1. CASE Still(r)
  BY <1>0, <1>1, StillDuty DEF AllMembersOK, AllRolesOK
<1>2. CASE /\ rooms[r].assigned = w /\ ~Hosted(rooms'[r])
           /\ \A v \in Workers : r \notin workers'[v].rooms
           /\ \A p \in pending' : p.room = r =>
                p.instance # w /\ (p.kind = "Cleanup" \/ p \in pending)
  <2>1. \A p \in pending : p.room = r /\ p.kind \in {"UpgradeJoin", "SfuLeave"} =>
          p.instance = w
    BY <1>2, CurrentFields DEF DutyOK, UpgradeExact, LeaveExact
  <2>2. \A p \in pending' : p.room = r => p.kind \notin {"UpgradeJoin", "SfuLeave"}
    BY <1>2, <2>1
  <2> QED
    BY <1>0, <1>2, <2>2, BareDuty
<1> QED
  BY <1>1, <1>2, ExpiredRoom

\* The shutdown.
LEMMA ClearDuty ==
  ASSUME Sound', clear, NEW r \in Rooms \ Failable
  PROVE  DutyOK(r)'
<1>1. TypeOK' /\ AllMembersOK' /\ AllRolesOK'
  BY DEF Sound
<1>2. /\ ~Hosted(rooms'[r]) /\ \A w \in Workers : r \notin workers'[w].rooms
      /\ pending' = {}
  BY DEF clear, AbsentRoom, UnknownWorker, Hosted
<1> QED
  BY <1>1, <1>2, BareDuty

-----------------------------------------------------------------------------
(***************************************************************************)
(* The duties are kept.                                                    *)
(***************************************************************************)

\* A step that concerns one room, which keeps its own.
LEMMA OnlyDuties ==
  ASSUME Sound, Sound', DutiesOK, NEW r \in Rooms, Only(r),
         r \notin Failable => DutyOK(r)'
  PROVE  DutiesOK'
<1>1. ReplayOK'
  BY DEF Only, DutiesOK, ReplayOK
<1>2. ASSUME NEW q \in Rooms \ Failable, q # r
      PROVE  DutyOK(q)'
  BY <1>2, OnlyStill, StillDuty DEF Sound, DutiesOK, AllMembersOK, AllRolesOK
<1> QED
  BY <1>1, <1>2 DEF DutiesOK

LEMMA DutiesInductive ==
  /\ Init => DutiesOK
  /\ Sound /\ Sound' /\ DutiesOK /\ [Next]_vars => DutiesOK'
<1>1. Init => DutiesOK
  BY DEF Init, DutiesOK, ReplayOK, DutyOK, OnBooks, LeaveExact, UpgradeExact, TodoOK, Gated,
         Hosted, AbsentRoom, UnknownWorker
<1>2. ASSUME Sound, Sound', DutiesOK, [Next]_vars PROVE DutiesOK'
  <2>0. /\ ReplayOK /\ \A r \in Rooms \ Failable : DutyOK(r) /\ OnBooks(r)
        /\ TypeOK /\ TypeOK' /\ AllMembersOK /\ AllMembersOK' /\ AllRolesOK /\ AllRolesOK'
        /\ WireOK
    BY <1>2 DEF DutiesOK, DutyOK, Sound
  <2>a. ASSUME \A r \in Rooms \ Failable : Still(r), ReplayOK' PROVE DutiesOK'
    <3>1. ASSUME NEW r \in Rooms \ Failable PROVE DutyOK(r)'
      BY <2>0, <2>a, StillDuty DEF AllMembersOK, AllRolesOK
    <3> QED
      BY <2>a, <3>1 DEF DutiesOK
  <2>1. ASSUME NEW r \in Rooms, NEW c \in Clients,
               \/ Register(r, c) \/ Deregister(r, c) \/ SendSfu(r, c) \/ SendQueued(r, c)
               \/ RemoveNow(r, c) \/ RemoveSfu(r, c)
        PROVE  DutiesOK'
    <3>1. Only(r)
      BY <2>0, <2>1, ClientOnly
    <3>2. OrdinaryStep(r)
      BY <2>0, <2>1, ClientSteps
    <3>3. r \notin Failable => DutyOK(r)'
      BY <2>0, <3>1, <3>2, OrdinaryDuty
    <3> QED
      BY <1>2, <3>1, <3>3, OnlyDuties
  <2>2. ASSUME NEW r \in Rooms, NEW c \in Clients,
               AdmitFirst(r, c) \/ AdmitP2p(r, c) \/ AdmitUpgrade(r, c) \/ AdmitSfu(r, c)
        PROVE  DutiesOK'
    <3>1. Only(r)
      BY <2>0, <2>2, AdmitOnly
    <3>2. r \notin Failable => DutyOK(r)'
      BY <2>0, <2>2, AdmitBareDuty, AdmitUpgradeDuty, AdmitSfuDuty
    <3> QED
      BY <1>2, <3>1, <3>2, OnlyDuties
  <2>3. ASSUME NEW p \in wire, Result(p) PROVE DutiesOK'
    <3>1. Only(p.room) /\ p.room \in Rooms
      BY <2>0, <2>3, ResultOnly DEF TypeOK, Command
    <3>2. p.room \notin Failable => DutyOK(p.room)'
      BY <1>2, <2>0, <2>3, <3>1, ResultDuty
    <3> QED
      BY <1>2, <3>1, <3>2, OnlyDuties
  <2>4. ASSUME NEW s, SyncOk(s) \/ SyncErr(s) PROVE DutiesOK'
    <3>1. ReplayOK'
      BY <2>4, <2>0 DEF SyncOk, SyncErr, ReplayOK
    <3> QED
      BY <2>0, <2>4, <2>a, <3>1, SyncStill
  <2>5. CASE WorkerStream
    <3>1. ASSUME NEW w \in Workers, NEW k, NEW capacity, register_worker(w, k, capacity)
          PROVE  DutiesOK'
      <4>1. ReplayOK'
        BY <2>0, <3>1 DEF register_worker, ReplayOK, OfWorker
      <4> QED
        BY <2>0, <2>a, <3>1, <4>1, RegisterStill
    <3>2. ASSUME NEW w \in Workers, NEW k, WorkerDisconnected(w, k) PROVE DutiesOK'
      <4>1. ReplayOK'
        BY <2>0, <3>2 DEF WorkerDisconnected, ReplayOK
      <4> QED
        BY <2>0, <2>a, <3>2, <4>1, DisconnectStill
    <3>3. ASSUME NEW w \in Workers, NEW x, NEW y, WorkerHealth(w, x, y) \/ WorkerFailure(w, x)
          PROVE  DutiesOK'
      <4>1. ReplayOK'
        BY <2>0, <3>3 DEF WorkerHealth, WorkerFailure, ReplayOK
      <4> QED
        BY <2>0, <2>a, <3>3, <4>1, QuietTable
    <3> QED
      BY <2>5, <3>1, <3>2, <3>3 DEF WorkerStream
  <2>6. CASE Tick \/ StartSweep \/ UNCHANGED vars
    <3>1. ReplayOK'
      BY <2>0, <2>6 DEF Tick, StartSweep, vars, ReplayOK
    <3> QED
      BY <2>0, <2>6, <2>a, <3>1, QuietTable
  <2>7. CASE clear
    <3>1. ReplayOK'
      BY <2>7 DEF clear, ReplayOK
    <3> QED
      BY <1>2, <2>7, <3>1, ClearDuty DEF DutiesOK
  <2>8. ASSUME NEW w \in due, expire_worker(w) PROVE DutiesOK'
    <3>1. w \in Workers
      BY <2>0 DEF TypeOK
    <3>2. ReplayOK'
      BY <2>0, <2>8 DEF expire_worker, ReplayOK, OfWorker
    <3> QED
      BY <1>2, <2>0, <2>8, <3>1, <3>2, ExpiryDuty DEF DutiesOK
  <2>9. ASSUME NEW r \in unswept, SweepRoom(r) PROVE DutiesOK'
    <3>1. r \in Rooms /\ Only(r)
      BY <2>0, <2>9, SweepOnly DEF TypeOK
    <3>2. r \notin Failable => DutyOK(r)'
      BY <1>2, <2>0, <2>9, <3>1, SweepDuty
    <3> QED
      BY <1>2, <3>1, <3>2, OnlyDuties
  <2> QED
    BY <1>2, <2>1, <2>2, <2>3, <2>4, <2>5, <2>6, <2>7, <2>8, <2>9
       DEF Next, Operation, Browser, WebServer, WorkerAnswer, HandleTimeout
<1> QED
  BY <1>1, <1>2

\* What a room and its worker owe each other.
THEOREM DutiesSafe == Spec => []DutiesOK
<1>1. Spec => []Sound
  <2>1. TypeOK /\ AllMembersOK /\ AllRolesOK /\ RoomsOK /\ WireOK => Sound
    BY DEF Sound
  <2> QED
    BY <2>1, TypeCorrect, MembersSafe, RolesSafe, RoomsSafe, WireSafe, PTL
<1> QED
  BY <1>1, DutiesInductive, PTL DEF Spec

\* A worker's books hold exactly the rooms that run on it.
THEOREM BooksExact == Spec => []WorkerBooks
<1>1. DutiesOK => WorkerBooks
  BY DEF DutiesOK, DutyOK, OnBooks, Hosted, WorkerBooks
<1> QED
  BY <1>1, DutiesSafe, PTL

\* A result can only advance the barrier that asked for it.
THEOREM BarriersCommanded == Spec => []BarrierCommand
<1>1. TypeOK /\ DutiesOK => BarrierCommand
  <2> SUFFICES ASSUME TypeOK, DutiesOK, NEW p \in pending,
                      p.kind = "UpgradeJoin", p.room \notin Failable
               PROVE  /\ rooms[p.room].mode = "Upgrading"
                      /\ p.client = NextJoin(rooms[p.room].upgrade.todo,
                                             rooms[p.room].upgrade.joining)
                      /\ p.assignment_epoch = rooms[p.room].assignment_epoch
    BY DEF BarrierCommand
  <2>1. p.room \in Rooms \ Failable
    BY DEF TypeOK, Command
  <2> QED
    BY <2>1, CurrentFields DEF DutiesOK, DutyOK, UpgradeExact, NextClient
<1> QED
  BY <1>1, TypeCorrect, DutiesSafe, PTL

\* The command a transition waits for is on its way to the worker.
THEOREM GatesInFlight == Spec => []GateInFlight
<1>1. DutiesOK => GateInFlight
  BY DEF DutiesOK, DutyOK, Gated, GateInFlight, Current, NextClient
<1> QED
  BY <1>1, DutiesSafe, PTL

-----------------------------------------------------------------------------
(***************************************************************************)
(* Who has joined and who is answered: SfuMembersJoined and                *)
(* RequestsAwaited.                                                        *)
(***************************************************************************)

\* A leave left over from an upgrade that was given up, or from before a
\* downgrade, names no current membership of a room that runs on a worker.
CleanupStale(r) ==
  \A p \in pending : p.room = r /\ p.kind = "Cleanup" /\ Hosted(rooms[r]) =>
    p.lifecycle # lifecycle[r][p.client] \/ p.client \notin rooms[r].members

\* The barrier counts results, but it counts every member once: who is not to
\* do any more has joined.
BarrierLegs(r) ==
  rooms[r].mode = "Upgrading" =>
    \A c \in rooms[r].members \ rooms[r].upgrade.todo : LegFor(r, c) \in legs

\* An admission of room r that nobody will answer and whose member is gone.
\* That a leave is what it was lost to is shown last (AccountedOK).
Lost(q) == q \in open /\ q.op = "admit" /\ Ended(q) /\ ~Awaited(q)

Forsaken(r) == \E q \in open : q.room = r /\ Lost(q)

SfuLegs(r) ==
  rooms[r].mode = "Sfu" /\ ~Forsaken(r) =>
    \A c \in rooms[r].members \ {rooms[r].pending_join} : LegFor(r, c) \in legs

\* An outstanding join is the one the room waits for.
JoinExact(r) ==
  ~Forsaken(r) =>
    \A p \in pending : p.room = r /\ p.kind = "SfuJoin" =>
      rooms[r].pending_join # None /\ p = Current("SfuJoin", r, rooms[r].pending_join)

\* The admission of the newcomer of an SFU room is open.
AdmissionOpen(r) ==
  rooms[r].pending_join # None => Answer("admit", r, rooms[r].pending_join) \subseteq open

AdmitAwaited(r) ==
  ~Forsaken(r) => \A q \in open : q.room = r /\ q.op = "admit" => Awaited(q)

RemoveExact(r) ==
  \A q \in open : q.room = r /\ q.op = "remove" =>
    /\ rooms[r].pending_leave = [client |-> q.client, requested |-> TRUE]
    /\ q.lifecycle = lifecycle[r][q.client]

LegDuty(r) ==
  /\ CleanupStale(r) /\ BarrierLegs(r) /\ SfuLegs(r)
  /\ JoinExact(r) /\ AdmissionOpen(r) /\ AdmitAwaited(r) /\ RemoveExact(r)

\* No request is newer than the client's last lifecycle.
OpenBound == \A q \in open : q.lifecycle <= lifecycle[q.room][q.client]

LegDutiesOK == OpenBound /\ \A r \in Rooms \ Failable : LegDuty(r)

\* Requests are told by their fields.
LEMMA SameRequest ==
  ASSUME NEW q \in Request, NEW op, NEW r, NEW c, q.op = op, q.room = r, q.client = c,
         q.lifecycle = lifecycle[r][c]
  PROVE  q \in Answer(op, r, c)
BY DEF Request, Answer

\* A lost admission of the room stays lost.
Outlasts(r) == \A q \in Request : q.room = r /\ Lost(q) => Lost(q)'

LEMMA ForsakenOutlasts ==
  ASSUME TypeOK, NEW r \in Rooms, Outlasts(r)
  PROVE  ~Forsaken(r)' => ~Forsaken(r)
<1>1. ASSUME NEW q \in open, q.room = r, Lost(q) PROVE Forsaken(r)'
  BY <1>1 DEF TypeOK, Outlasts, Forsaken, Lost
<1> QED
  BY <1>1 DEF Forsaken

LEMMA StillLegs ==
  ASSUME TypeOK, TypeOK', NEW r \in Rooms, LegDuty(r), Still(r),
         Hosted(rooms[r]) => rooms[r].assigned # None
  PROVE  LegDuty(r)' /\ Outlasts(r)
<1> DEFINE room == rooms[r]
           next == rooms'[r]
<1>0. Alike(room, next) /\ lifecycle'[r] = lifecycle[r]
  BY DEF Still
<1>1. \A q : q.room = r => (q \in open' <=> q \in open)
  BY DEF Still, TypeOK
<1>2. \A q : q.room = r => (Awaited(q)' <=> Awaited(q))
  BY <1>0 DEF Awaited, Alike
<1>a. \A q \in Request : q.room = r => (Lost(q)' <=> Lost(q))
  BY <1>0, <1>1, <1>2 DEF Lost, Ended, Alike
<1>3. Forsaken(r)' <=> Forsaken(r)
  BY <1>1, <1>a DEF Forsaken, TypeOK
<1>4. \A c : LegFor(r, c)' = LegFor(r, c) /\ LegFor(r, c).room = r
             /\ LegFor(r, c).instance = room.assigned
  BY <1>0 DEF LegFor, Alike
<1>5. \A kind, c : Current(kind, r, c)' = Current(kind, r, c)
  BY <1>0 DEF Current, Alike
<1>6. \A p \in pending' : p.room = r /\ p.kind # "Signal" => p \in pending
  BY DEF Still
<1>7. Hosted(room) => \A c : LegFor(r, c) \in legs => LegFor(r, c) \in legs'
  BY <1>4 DEF Still
<1>8. CleanupStale(r)'
  BY <1>0, <1>6 DEF LegDuty, CleanupStale, Alike, Hosted
<1>9. BarrierLegs(r)'
  BY <1>0, <1>4, <1>7 DEF LegDuty, BarrierLegs, Alike, Hosted
<1>10. SfuLegs(r)'
  BY <1>0, <1>3, <1>4, <1>7 DEF LegDuty, SfuLegs, Alike, Hosted
<1>11. JoinExact(r)'
  BY <1>0, <1>3, <1>5, <1>6 DEF LegDuty, JoinExact, Alike
<1>12. AdmissionOpen(r)'
  BY <1>0, <1>1 DEF LegDuty, AdmissionOpen, Answer, Alike
<1>13. AdmitAwaited(r)'
  BY <1>1, <1>2, <1>3 DEF LegDuty, AdmitAwaited
<1>14. RemoveExact(r)'
  BY <1>0, <1>1 DEF LegDuty, RemoveExact, Alike
<1> QED
  BY <1>a, <1>8, <1>9, <1>10, <1>11, <1>12, <1>13, <1>14 DEF LegDuty, Outlasts

\* The admissions of room r are answered or stay, and whoever enters it, or
\* is waited for, does so in a new lifecycle.
Forward(r) ==
  /\ \A q \in open : q.room = r /\ q.op = "admit" => q \in open' \/ Awaited(q)
  /\ \A c \in Clients :
       \/ lifecycle'[r][c] > lifecycle[r][c]
       \/ /\ lifecycle'[r][c] = lifecycle[r][c]
          /\ c \in rooms'[r].members => c \in rooms[r].members
          /\ c \in {rooms'[r].upgrade.joining, rooms'[r].pending_join} =>
               c \in {rooms[r].upgrade.joining, rooms[r].pending_join}

\* So an admission that is lost stays lost.
LEMMA ForsakenStays ==
  ASSUME TypeOK, TypeOK', OpenBound, NEW r \in Rooms, Forward(r)
  PROVE  Outlasts(r) /\ (~Forsaken(r)' => ~Forsaken(r))
<1>1. ASSUME NEW q \in Request, q.room = r, Lost(q) PROVE Lost(q)'
  <2>1. q \in open /\ q.op = "admit" /\ Ended(q) /\ ~Awaited(q)
    BY <1>1 DEF Lost
  <2>2. q \in open' /\ q.client \in Clients /\ q.lifecycle \in Nat
    BY <1>1, <2>1 DEF Forward, Request
  <2>3. lifecycle[r][q.client] \in Nat /\ lifecycle'[r][q.client] \in Nat
        /\ q.lifecycle <= lifecycle[r][q.client]
    BY <1>1, <2>1, <2>2 DEF TypeOK, OpenBound
  <2>4. CASE lifecycle'[r][q.client] > lifecycle[r][q.client]
    <3>1. q.lifecycle # lifecycle'[r][q.client]
      BY <2>2, <2>3, <2>4
    <3> QED
      BY <1>1, <2>1, <2>2, <3>1 DEF Lost, Ended, Awaited
  <2>5. CASE lifecycle'[r][q.client] = lifecycle[r][q.client]
    <3>1. /\ q.client \in rooms'[r].members => q.client \in rooms[r].members
          /\ q.client \in {rooms'[r].upgrade.joining, rooms'[r].pending_join} =>
               q.client \in {rooms[r].upgrade.joining, rooms[r].pending_join}
      BY <2>2, <2>3, <2>5 DEF Forward
    <3> QED
      BY <1>1, <2>1, <2>2, <2>5, <3>1 DEF Lost, Ended, Awaited
  <2> QED
    BY <2>2, <2>4, <2>5 DEF Forward
<1> QED
  BY <1>1, ForsakenOutlasts DEF Outlasts

\* Nobody is admitted.
LEMMA StayForward ==
  ASSUME NEW r, lifecycle' = lifecycle, rooms'[r].members \subseteq rooms[r].members,
         {rooms'[r].upgrade.joining, rooms'[r].pending_join} \subseteq
           {rooms[r].upgrade.joining, rooms[r].pending_join, None},
         \A q \in open : q.room = r /\ q.op = "admit" => q \in open' \/ Awaited(q)
  PROVE  Forward(r)
<1>1. None \notin Clients
  BY IdsAssumption DEF None
<1> QED
  BY <1>1 DEF Forward

\* The clients of S are.
LEMMA AdmitForward ==
  ASSUME TypeOK, NEW r \in Rooms, NEW S \in SUBSET Clients, lifecycle' = NextLifecycle(r, S),
         open \subseteq open', rooms'[r].members \subseteq rooms[r].members \cup S,
         {rooms'[r].upgrade.joining, rooms'[r].pending_join} \subseteq
           {rooms[r].upgrade.joining, rooms[r].pending_join, None} \cup S
  PROVE  Forward(r)
<1>1. None \notin Clients
  BY IdsAssumption DEF None
<1>2. /\ \A c \in S : lifecycle'[r][c] > lifecycle[r][c]
      /\ \A c \in Clients \ S : lifecycle'[r][c] = lifecycle[r][c]
  BY DEF NextLifecycle, TypeOK
<1> QED
  BY <1>1, <1>2 DEF Forward

\* A room waits for what its mode allows.
LEMMA WaitsFor ==
  ASSUME NEW room \in Room, MembersOK(room), RolesOK(room), RoomOK(room)
  PROVE  /\ room.mode # "Upgrading" => room.upgrade = NoUpgrade
         /\ room.mode # "Sfu" => room.pending_join = None /\ room.pending_leave = NoLeave
BY DEF MembersOK, AwaitingOK, RolesOK, RoomOK, BarrierShape, AbsentRoom, Room, Modes

\* What a room that runs on no worker owes, if nobody it waited for is left.
LEMMA BareLegs ==
  ASSUME Sound, Sound', OpenBound, NEW r \in Rooms \ Failable, LegDuty(r), Forward(r),
         ~Hosted(rooms'[r]),
         rooms[r].upgrade.joining \notin rooms'[r].members,
         rooms[r].pending_join \notin rooms'[r].members,
         \A q \in open' : q.room = r => q.op = "admit" /\ q \in open,
         \A p \in pending' : p.room = r /\ p.kind = "SfuJoin" => Forsaken(r) \/ Forsaken(r)'
  PROVE  LegDuty(r)' /\ Outlasts(r)
<1>0. /\ TypeOK /\ TypeOK' /\ r \in Rooms
      /\ rooms'[r] \in Room /\ MembersOK(rooms'[r]) /\ RolesOK(rooms'[r]) /\ RoomOK(rooms'[r])
  BY DEF Sound, TypeOK, AllMembersOK, AllRolesOK, RoomsOK
<1>1. /\ rooms'[r].mode \notin {"Upgrading", "Sfu"} /\ rooms'[r].upgrade = NoUpgrade
      /\ rooms'[r].pending_join = None
  BY <1>0, WaitsFor DEF Hosted
<1>2. Outlasts(r) /\ (~Forsaken(r)' => ~Forsaken(r))
  BY <1>0, ForsakenStays
<1>3. \A q \in open' : q.room = r /\ q.op = "admit" => Forsaken(r)'
  <2> SUFFICES ASSUME NEW q \in open', q.room = r, q.op = "admit", ~Forsaken(r)'
               PROVE  FALSE
    OBVIOUS
  <2>1. q \in open /\ Awaited(q)
    BY <1>2 DEF LegDuty, AdmitAwaited
  <2>2. q.client \notin rooms'[r].members
    BY <2>1 DEF Awaited
  <2>3. q.client \in Clients
    BY <1>0 DEF TypeOK, Request
  <2>4. ~Awaited(q)'
    BY <1>1, <2>3, IdsAssumption DEF Awaited, NoUpgrade, None
  <2> QED
    BY <2>2, <2>4 DEF Forsaken, Lost, Ended
<1>4. CleanupStale(r)' /\ BarrierLegs(r)' /\ SfuLegs(r)' /\ AdmissionOpen(r)'
  BY <1>1 DEF CleanupStale, BarrierLegs, SfuLegs, AdmissionOpen, Hosted
<1>5. JoinExact(r)' /\ AdmitAwaited(r)' /\ RemoveExact(r)'
  BY <1>2, <1>3 DEF JoinExact, AdmitAwaited, RemoveExact
<1> QED
  BY <1>2, <1>4, <1>5 DEF LegDuty, Outlasts

\* Without a pending leave nobody waits for one.
LEMMA NoneToRemove ==
  ASSUME NEW r, RemoveExact(r), rooms[r].pending_leave = NoLeave
  PROVE  \A q \in open : q.room = r => q.op # "remove"
<1>1. ASSUME NEW q \in open, q.room = r, q.op = "remove"
      PROVE  NoLeave = [client |-> q.client, requested |-> TRUE]
  BY <1>1 DEF RemoveExact
<1> QED
  BY <1>1 DEF NoLeave

\* A room that awaits nothing: no request is open, no join outstanding, but for
\* those left over.
LEMMA NothingAwaited ==
  ASSUME TypeOK, NEW r \in Rooms, LegDuty(r), rooms[r].upgrade = NoUpgrade,
         rooms[r].pending_join = None, rooms[r].pending_leave = NoLeave
  PROVE  /\ \A q \in open : q.room = r => q.op = "admit" /\ Forsaken(r)
         /\ \A p \in pending : p.room = r /\ p.kind = "SfuJoin" => Forsaken(r)
<1>1. ASSUME NEW q \in open, q.room = r
      PROVE  q.op = "admit" /\ Forsaken(r)
  <2>1. q.op \in {"admit", "remove"} /\ q.client \in Clients /\ None \notin Clients
    BY IdsAssumption DEF TypeOK, Request, None
  <2>2. q.op # "remove"
    BY <1>1, NoneToRemove DEF LegDuty
  <2>3. ~Awaited(q)
    BY <1>1, <2>1 DEF Awaited, NoUpgrade
  <2> QED
    BY <1>1, <2>1, <2>2, <2>3 DEF LegDuty, AdmitAwaited
<1>2. \A p \in pending : p.room = r /\ p.kind = "SfuJoin" => Forsaken(r)
  BY DEF LegDuty, JoinExact
<1> QED
  BY <1>1, <1>2

\* What browsers, removals and the sweep make of a room.
LEMMA OrdinaryForward ==
  ASSUME Sound, Sound', NEW r \in Rooms \ Failable, NEW c, NEW b, BareStep(r) \/ AsksLeave(r, c, b)
  PROVE  Forward(r)
<1>1. /\ rooms[r] \in Room /\ MembersOK(rooms[r]) /\ RolesOK(rooms[r]) /\ RoomOK(rooms[r])
      /\ rooms'[r] \in Room /\ MembersOK(rooms'[r]) /\ RolesOK(rooms'[r]) /\ RoomOK(rooms'[r])
  BY DEF Sound, TypeOK, AllMembersOK, AllRolesOK, RoomsOK
<1>2. /\ rooms'[r].members \subseteq rooms[r].members /\ lifecycle' = lifecycle
      /\ open \subseteq open'
  BY DEF BareStep, AsksLeave
<1>3. {rooms'[r].upgrade.joining, rooms'[r].pending_join} \subseteq
        {rooms[r].upgrade.joining, rooms[r].pending_join, None}
  <2>1. CASE BareStep(r)
    <3>1. rooms'[r].mode \notin {"Upgrading", "Sfu"}
      BY <2>1 DEF BareStep, Hosted
    <3>2. rooms'[r].upgrade = NoUpgrade /\ rooms'[r].pending_join = None
      BY <1>1, <3>1, WaitsFor
    <3> QED
      BY <3>2 DEF NoUpgrade
  <2>2. CASE AsksLeave(r, c, b)
    BY <2>2 DEF AsksLeave
  <2> QED
    BY <2>1, <2>2
<1> QED
  BY <1>2, <1>3, StayForward

LEMMA BareStepLegs ==
  ASSUME Sound, Sound', OpenBound, NEW r \in Rooms \ Failable, LegDuty(r), BareStep(r)
  PROVE  LegDuty(r)' /\ Outlasts(r)
<1>0. /\ TypeOK /\ TypeOK' /\ r \in Rooms
      /\ rooms[r] \in Room /\ MembersOK(rooms[r]) /\ RolesOK(rooms[r]) /\ RoomOK(rooms[r])
  BY DEF Sound, TypeOK, AllMembersOK, AllRolesOK, RoomsOK
<1>1. /\ ~Hosted(rooms[r]) /\ ~Hosted(rooms'[r])
      /\ pending' = pending /\ open' = open /\ rooms[r].mode \notin {"Upgrading", "Sfu"}
  BY DEF BareStep, Hosted
<1>2. /\ rooms[r].upgrade = NoUpgrade /\ rooms[r].pending_join = None
      /\ rooms[r].pending_leave = NoLeave
  BY <1>0, <1>1, WaitsFor
<1>3. Forward(r)
  BY OrdinaryForward
<1>4. None \notin rooms'[r].members
  BY <1>0, IdsAssumption DEF TypeOK, Room, None
<1>5. /\ \A q \in open : q.room = r => q.op = "admit" /\ Forsaken(r)
      /\ \A p \in pending : p.room = r /\ p.kind = "SfuJoin" => Forsaken(r)
  BY <1>0, <1>2, NothingAwaited
<1> QED
  BY <1>1, <1>2, <1>3, <1>4, <1>5, BareLegs DEF NoUpgrade

LEMMA AsksLeaveLegs ==
  ASSUME Sound, Sound', OpenBound, NEW r \in Rooms \ Failable, LegDuty(r),
         NEW c \in Clients, NEW b \in BOOLEAN, AsksLeave(r, c, b)
  PROVE  LegDuty(r)' /\ Outlasts(r)
<1> DEFINE room == rooms[r]
           next == rooms'[r]
<1>0. TypeOK /\ TypeOK' /\ r \in Rooms
  BY DEF Sound
<1>1. /\ room.mode = "Sfu" /\ room.pending_leave = NoLeave
      /\ next.mode = "Sfu" /\ SameAssignment(room, next)
      /\ next.members = room.members /\ next.upgrade = room.upgrade
      /\ next.pending_join = room.pending_join
      /\ next.pending_leave = [client |-> c, requested |-> b]
      /\ lifecycle' = lifecycle /\ legs' = legs
  BY DEF AsksLeave
<1>2. \A p \in pending' : p \in pending \/ p.kind = "SfuLeave"
  BY DEF AsksLeave, Issue, LeaveCommand, MakeCommand
<1>3. /\ open \subseteq open'
      /\ \A q \in open' : \/ q \in open
                          \/ b /\ q \in Answer("remove", r, c)
  BY DEF AsksLeave
<1>4. Outlasts(r) /\ (~Forsaken(r)' => ~Forsaken(r))
  BY <1>0, OrdinaryForward, ForsakenStays
<1>5. CleanupStale(r)' /\ BarrierLegs(r)'
  BY <1>1, <1>2 DEF LegDuty, CleanupStale, BarrierLegs, Hosted
<1>6. SfuLegs(r)'
  BY <1>1, <1>4 DEF LegDuty, SfuLegs, LegFor, SameAssignment
<1>7. JoinExact(r)' /\ AdmissionOpen(r)'
  BY <1>1, <1>2, <1>3, <1>4
     DEF LegDuty, JoinExact, AdmissionOpen, Answer, Current, SameAssignment
<1>8. AdmitAwaited(r)'
  BY <1>1, <1>3, <1>4, AnswerFields DEF LegDuty, AdmitAwaited, Awaited
<1>9. RemoveExact(r)'
  <2>1. \A q \in open : q.room = r => q.op # "remove"
    BY <1>1, NoneToRemove DEF LegDuty
  <2>2. ASSUME NEW q \in open', q.room = r, q.op = "remove"
        PROVE  /\ rooms'[r].pending_leave = [client |-> q.client, requested |-> TRUE]
               /\ q.lifecycle = lifecycle'[r][q.client]
    <3>1. b = TRUE /\ q \in Answer("remove", r, c)
      BY <1>3, <2>1, <2>2
    <3>2. q.client = c /\ q.lifecycle = lifecycle[r][c]
      BY <3>1, AnswerFields
    <3> QED
      BY <1>1, <3>1, <3>2
  <2> QED
    BY <2>2 DEF RemoveExact
<1> QED
  BY <1>4, <1>5, <1>6, <1>7, <1>8, <1>9 DEF LegDuty, Outlasts

LEMMA OrdinaryLegs ==
  ASSUME Sound, Sound', OpenBound, NEW r \in Rooms \ Failable, LegDuty(r), OrdinaryStep(r)
  PROVE  LegDuty(r)' /\ Outlasts(r)
<1>1. /\ TypeOK /\ TypeOK' /\ r \in Rooms
      /\ rooms[r] \in Room /\ MembersOK(rooms[r])
  BY DEF Sound, TypeOK, AllMembersOK
<1>2. Hosted(rooms[r]) => rooms[r].assigned # None
  BY <1>1 DEF Hosted, MembersOK, AwaitingOK
<1> QED
  BY <1>1, <1>2, StillLegs, BareStepLegs, AsksLeaveLegs DEF OrdinaryStep

-----------------------------------------------------------------------------
(***************************************************************************)
(* Admissions.                                                             *)
(***************************************************************************)

\* Nothing is newer than the last lifecycle, so a new one was never heard of.
LEMMA CleanupsOld ==
  ASSUME TypeOK, TypeOK', LegsOK, NEW p \in pending,
         lifecycle'[p.room][p.client] > lifecycle[p.room][p.client]
  PROVE  p.lifecycle # lifecycle'[p.room][p.client]
<1>1. p \in Command
  BY DEF TypeOK
<1>2. p.room \in Rooms /\ p.client \in Clients /\ p.lifecycle \in Nat
  BY <1>1 DEF Command
<1>3. lifecycle[p.room][p.client] \in Nat /\ lifecycle'[p.room][p.client] \in Nat
  BY <1>2 DEF TypeOK
<1>4. TheLeg(p) \in Known
  BY DEF Known
<1>5. TheLeg(p).room = p.room /\ TheLeg(p).client = p.client /\ TheLeg(p).lifecycle = p.lifecycle
  BY DEF TheLeg
<1>6. p.lifecycle <= lifecycle[p.room][p.client]
  BY <1>4, <1>5 DEF LegsOK, KnownCurrent
<1> QED
  BY <1>2, <1>3, <1>6

\* An admission to a P2P room that stays one.
LEMMA AdmitBareLegs ==
  ASSUME Sound, Sound', OpenBound, NEW r \in Rooms \ Failable, NEW c \in Clients, LegDuty(r),
         AdmitFirst(r, c) \/ AdmitP2p(r, c)
  PROVE  LegDuty(r)' /\ Outlasts(r)
<1>0. /\ TypeOK /\ TypeOK' /\ r \in Rooms
      /\ rooms[r] \in Room /\ MembersOK(rooms[r]) /\ RolesOK(rooms[r]) /\ RoomOK(rooms[r])
      /\ rooms'[r] \in Room /\ MembersOK(rooms'[r]) /\ RolesOK(rooms'[r]) /\ RoomOK(rooms'[r])
  BY DEF Sound, TypeOK, AllMembersOK, AllRolesOK, RoomsOK
<1>1. /\ rooms[r].mode \notin {"Upgrading", "Sfu"}
      /\ lifecycle' = NextLifecycle(r, {c}) /\ pending' = pending /\ open' = open
  BY DEF AdmitFirst, AdmitP2p
<1>2. rooms'[r].mode = "P2p" /\ rooms'[r].members \subseteq rooms[r].members \cup {c}
  BY <1>0, AdmittedBare
<1>3. /\ rooms[r].upgrade = NoUpgrade /\ rooms[r].pending_join = None
      /\ rooms[r].pending_leave = NoLeave
      /\ rooms'[r].upgrade = NoUpgrade /\ rooms'[r].pending_join = None
  BY <1>0, <1>1, <1>2, WaitsFor
<1>4. Forward(r)
  <2>1. {c} \in SUBSET Clients
    OBVIOUS
  <2>2. {rooms'[r].upgrade.joining, rooms'[r].pending_join} \subseteq
          {rooms[r].upgrade.joining, rooms[r].pending_join, None} \cup {c}
    BY <1>3
  <2> QED
    BY <1>0, <1>1, <1>2, <2>1, <2>2, AdmitForward
<1>5. None \notin rooms'[r].members
  BY <1>0, IdsAssumption DEF Room, None
<1>6. /\ \A q \in open : q.room = r => q.op = "admit" /\ Forsaken(r)
      /\ \A p \in pending : p.room = r /\ p.kind = "SfuJoin" => Forsaken(r)
  BY <1>0, <1>3, NothingAwaited
<1>7. ~Hosted(rooms'[r])
  BY <1>2 DEF Hosted
<1> QED
  BY <1>1, <1>3, <1>4, <1>5, <1>6, <1>7, BareLegs DEF NoUpgrade

\* One that opens the barrier: everybody starts a lifecycle.
LEMMA AdmitUpgradeLegs ==
  ASSUME Sound, Sound', OpenBound, LegsOK, NEW r \in Rooms \ Failable, NEW c \in Clients,
         LegDuty(r), AdmitUpgrade(r, c)
  PROVE  LegDuty(r)' /\ Outlasts(r)
<1> DEFINE room == rooms[r]
           next == rooms'[r]
           all == room.members \cup {c}
<1>0. /\ TypeOK /\ TypeOK' /\ r \in Rooms
      /\ room \in Room /\ MembersOK(room) /\ RolesOK(room) /\ RoomOK(room)
  BY DEF Sound, TypeOK, AllMembersOK, AllRolesOK, RoomsOK
<1>1. /\ room.mode \notin {"Upgrading", "Sfu"} /\ next.mode = "Upgrading" /\ next.members = all
      /\ next.upgrade.joining = c /\ next.upgrade.todo = next.members
      /\ next.pending_join = None
  <2>1. AllMembersOK
    BY DEF Sound
  <2> QED
    BY <1>0, <2>1, UpgradeOpened DEF Hosted
<1>2. /\ lifecycle' = NextLifecycle(r, all) /\ open' = open \cup Answer("admit", r, c)'
  BY DEF AdmitUpgrade
<1>3. /\ room.upgrade = NoUpgrade /\ room.pending_join = None /\ room.pending_leave = NoLeave
  BY <1>0, <1>1, WaitsFor
<1>4. all \in SUBSET Clients
  BY <1>0 DEF Room
<1>5. \A x \in all : lifecycle'[r][x] > lifecycle[r][x]
  BY <1>0, <1>2, <1>4 DEF NextLifecycle, TypeOK
<1>6. Forward(r)
  <2> HIDE DEF next
  <2>1. {next.upgrade.joining, next.pending_join} \subseteq
          {room.upgrade.joining, room.pending_join, None} \cup all
    BY <1>1
  <2> QED
    BY <1>0, <1>1, <1>2, <1>4, <2>1, AdmitForward DEF next
<1>7. Outlasts(r) /\ (~Forsaken(r)' => ~Forsaken(r))
  BY <1>0, <1>6, ForsakenStays
<1>8. \A p \in pending' : p \in pending \/ p.kind = "UpgradeJoin"
  <2> DEFINE cmd == NextCommand("UpgradeJoin", r, NextClient(next))
  <2>1. cmd.kind = "UpgradeJoin"
    BY DEF NextCommand, MakeCommand
  <2>2. Issue({cmd})
    BY <1>0, UpgradeOpened DEF Sound
  <2> HIDE DEF cmd
  <2> QED
    BY <2>1, <2>2 DEF Issue
<1>9. /\ \A q \in open : q.room = r => q.op = "admit" /\ Forsaken(r)
      /\ \A p \in pending : p.room = r /\ p.kind = "SfuJoin" => Forsaken(r)
  BY <1>0, <1>3, NothingAwaited
<1>10. \A q \in open' :
         \/ q \in open
         \/ q.op = "admit" /\ q.room = r /\ q.client = c /\ q.lifecycle = lifecycle'[r][c]
  BY <1>2 DEF Answer
<1>11. CleanupStale(r)'
  BY <1>0, <1>1, <1>5, <1>8, CleanupsOld DEF CleanupStale
<1>12. BarrierLegs(r)' /\ SfuLegs(r)' /\ AdmissionOpen(r)'
  BY <1>1 DEF BarrierLegs, SfuLegs, AdmissionOpen
<1>13. JoinExact(r)' /\ AdmitAwaited(r)' /\ RemoveExact(r)'
  BY <1>1, <1>7, <1>8, <1>9, <1>10 DEF JoinExact, AdmitAwaited, RemoveExact, Awaited
<1> QED
  BY <1>7, <1>11, <1>12, <1>13 DEF LegDuty, Outlasts

\* One that has the newcomer join the worker.
LEMMA AdmitSfuLegs ==
  ASSUME Sound, Sound', OpenBound, LegsOK, NEW r \in Rooms \ Failable, NEW c \in Clients,
         LegDuty(r), AdmitSfu(r, c)
  PROVE  LegDuty(r)' /\ Outlasts(r)
<1> DEFINE room == rooms[r]
           next == rooms'[r]
<1>0. /\ TypeOK /\ TypeOK' /\ r \in Rooms
      /\ room \in Room /\ MembersOK(room) /\ RolesOK(room) /\ RoomOK(room)
  BY DEF Sound, TypeOK, AllMembersOK, AllRolesOK, RoomsOK
<1>1. /\ room.mode = "Sfu" /\ room.pending_join = None /\ room.pending_leave = NoLeave
      /\ next.mode = "Sfu" /\ SameAssignment(room, next)
      /\ next.members = room.members \cup {c} /\ next.upgrade = room.upgrade
      /\ next.pending_join = c
      /\ Issue({NextCommand("SfuJoin", r, c)})
  BY <1>0, SfuEntered
<1>2. /\ lifecycle' = NextLifecycle(r, {c}) /\ open' = open \cup Answer("admit", r, c)'
      /\ legs' = legs
  BY DEF AdmitSfu
<1>3. room.upgrade = NoUpgrade
  BY <1>0, <1>1, WaitsFor
<1>4. /\ lifecycle'[r][c] > lifecycle[r][c]
      /\ \A x \in Clients \ {c} : lifecycle'[r][x] = lifecycle[r][x]
  BY <1>0, <1>2 DEF NextLifecycle, TypeOK
<1>5. Forward(r)
  <2>1. {c} \in SUBSET Clients
    OBVIOUS
  <2>2. {next.upgrade.joining, next.pending_join} \subseteq
          {room.upgrade.joining, room.pending_join, None} \cup {c}
    BY <1>1
  <2> QED
    BY <1>0, <1>1, <1>2, <2>1, <2>2, AdmitForward
<1>6. Outlasts(r) /\ (~Forsaken(r)' => ~Forsaken(r))
  BY <1>0, <1>5, ForsakenStays
<1>7. /\ \A p \in pending' : p \in pending \/ p = NextCommand("SfuJoin", r, c)
      /\ NextCommand("SfuJoin", r, c).kind = "SfuJoin"
  <2>1. pending' = pending \cup {NextCommand("SfuJoin", r, c)}
    BY <1>1 DEF Issue
  <2> QED
    BY <2>1 DEF NextCommand, MakeCommand
<1>8. /\ \A q \in open : q.room = r => q.op = "admit" /\ Forsaken(r)
      /\ \A p \in pending : p.room = r /\ p.kind = "SfuJoin" => Forsaken(r)
  BY <1>0, <1>1, <1>3, NothingAwaited
<1>9. \A q \in open' :
        \/ q \in open
        \/ q.op = "admit" /\ q.room = r /\ q.client = c /\ q.lifecycle = lifecycle'[r][c]
  BY <1>2 DEF Answer
<1>10. CleanupStale(r)'
  <2> SUFFICES ASSUME NEW p \in pending', p.room = r, p.kind = "Cleanup"
               PROVE  p.lifecycle # lifecycle'[r][p.client] \/ p.client \notin next.members
    BY DEF CleanupStale
  <2>1. p \in pending /\ p.client \in Clients
    BY <1>0, <1>7 DEF TypeOK, Command
  <2>2. CASE p.client = c
    BY <1>0, <1>4, <2>1, <2>2, CleanupsOld
  <2>3. CASE p.client # c
    BY <1>1, <1>4, <2>1, <2>3 DEF LegDuty, CleanupStale, Hosted
  <2> QED
    BY <2>2, <2>3
<1>11. BarrierLegs(r)'
  BY <1>1 DEF BarrierLegs
<1>12. SfuLegs(r)'
  <2> SUFFICES ASSUME ~Forsaken(r)', NEW x \in next.members \ {c}
               PROVE  LegFor(r, x)' \in legs'
    BY <1>1 DEF SfuLegs
  <2>1. x \in room.members /\ x \in Clients /\ x # None
    BY <1>0, <1>1, IdsAssumption DEF Room, None
  <2>2. LegFor(r, x) \in legs
    BY <1>1, <1>6, <2>1 DEF LegDuty, SfuLegs
  <2> QED
    BY <1>1, <1>2, <1>4, <2>1, <2>2 DEF LegFor, SameAssignment
<1>13. JoinExact(r)'
  <2>1. c # None
    BY IdsAssumption DEF None
  <2> QED
    BY <1>1, <1>6, <1>7, <1>8, <2>1 DEF JoinExact, Current, NextCommand
<1>14. AdmissionOpen(r)'
  BY <1>1, <1>2 DEF AdmissionOpen
<1>15. AdmitAwaited(r)' /\ RemoveExact(r)'
  BY <1>1, <1>6, <1>8, <1>9 DEF AdmitAwaited, RemoveExact, Awaited
<1> QED
  BY <1>6, <1>10, <1>11, <1>12, <1>13, <1>14, <1>15 DEF LegDuty, Outlasts

-----------------------------------------------------------------------------
(***************************************************************************)
(* The answers of the workers.                                             *)
(***************************************************************************)

\* The leg an answer to the current command of c is about.
LEMMA LegOfCurrent ==
  ASSUME NEW kind, NEW r, NEW c
  PROVE  LegOf(Current(kind, r, c)) = {LegFor(r, c)}
BY CurrentFields DEF LegOf, LegFor

\* An admission that is awaited is the one of the only client waited for.
LEMMA AwaitedAnswer ==
  ASSUME TypeOK, NEW q \in open, q.op = "admit", Awaited(q),
         NEW c, {rooms[q.room].upgrade.joining, rooms[q.room].pending_join} \subseteq {c, None}
  PROVE  q.client = c /\ q \in Answer("admit", q.room, c)
<1>1. q \in Request /\ q.client \in Clients /\ None \notin Clients
  BY IdsAssumption DEF TypeOK, Request, None
<1>2. q.client = c /\ q.lifecycle = lifecycle[q.room][c]
  BY <1>1 DEF Awaited
<1> QED
  BY <1>1, <1>2, SameRequest

LEMMA JoinMoreLegs ==
  ASSUME Sound, Sound', OpenBound, NEW p \in wire, p.room \notin Failable, DutyOK(p.room),
         LegDuty(p.room), UpgradeJoinMore(p)
  PROVE  LegDuty(p.room)' /\ Outlasts(p.room)
<1> DEFINE r == p.room
           room == rooms[r]
           next == rooms'[r]
<1>0. TypeOK /\ TypeOK' /\ r \in Rooms
  BY AnsweredRoom DEF Sound
<1>1. /\ room.mode = "Upgrading" /\ p = Current("UpgradeJoin", r, NextClient(room))
      /\ next.mode = "Upgrading" /\ SameAssignment(room, next) /\ next.members = room.members
      /\ room.pending_join = None /\ room.pending_leave = NoLeave
      /\ next.pending_join = None /\ next.pending_leave = NoLeave
      /\ next.upgrade.todo = Todo(p) /\ next.upgrade.joining = room.upgrade.joining
  BY JoinMoreRoom
<1>2. /\ lifecycle' = lifecycle /\ open' = open /\ legs' = legs \cup {LegFor(r, NextClient(room))}
      /\ \A q \in pending' : q \in pending \/ q.kind = "UpgradeJoin"
  <2>1. LegOf(p) = {LegFor(r, NextClient(room))}
    BY <1>1, LegOfCurrent
  <2>2. \A q \in NextUpgradeJoin(p) : q.kind = "UpgradeJoin"
    BY DEF NextUpgradeJoin, MakeCommand
  <2> QED
    BY <2>1, <2>2 DEF UpgradeJoinMore, SettleAndIssue
<1> HIDE DEF next
<1>3. Outlasts(r) /\ (~Forsaken(r)' => ~Forsaken(r))
  <2>1. Forward(r)
    BY <1>1, <1>2, StayForward DEF next
  <2> QED
    BY <1>0, <2>1, ForsakenStays
<1>4. CleanupStale(r)'
  BY <1>1, <1>2 DEF LegDuty, CleanupStale, Hosted, next
<1>5. BarrierLegs(r)'
  <2>1. ASSUME NEW c \in next.members \ next.upgrade.todo
        PROVE  LegFor(r, c) \in legs'
    <3>1. c = NextClient(room) \/ c \notin room.upgrade.todo
      BY <1>1, <2>1 DEF Todo, NextClient
    <3> QED
      BY <1>1, <1>2, <2>1, <3>1 DEF LegDuty, BarrierLegs
  <2>2. \A c : LegFor(r, c)' = LegFor(r, c)
    BY <1>1, <1>2 DEF LegFor, SameAssignment, next
  <2> QED
    BY <2>1, <2>2 DEF BarrierLegs, next
<1>6. SfuLegs(r)' /\ AdmissionOpen(r)'
  BY <1>1 DEF SfuLegs, AdmissionOpen, next
<1>7. JoinExact(r)'
  BY <1>1, <1>2, <1>3 DEF LegDuty, JoinExact, next
<1>8. AdmitAwaited(r)'
  BY <1>1, <1>2, <1>3 DEF LegDuty, AdmitAwaited, Awaited, next
<1>9. RemoveExact(r)'
  BY <1>1, <1>2 DEF LegDuty, RemoveExact, next
<1> QED
  BY <1>3, <1>4, <1>5, <1>6, <1>7, <1>8, <1>9 DEF LegDuty, Outlasts

LEMMA JoinLastLegs ==
  ASSUME Sound, Sound', OpenBound, NEW p \in wire, p.room \notin Failable, DutyOK(p.room),
         LegDuty(p.room), UpgradeJoinLast(p)
  PROVE  LegDuty(p.room)' /\ Outlasts(p.room)
<1> DEFINE r == p.room
           room == rooms[r]
           next == rooms'[r]
           newcomer == room.upgrade.joining
<1>0. TypeOK /\ TypeOK' /\ r \in Rooms /\ room \in Room
  BY AnsweredRoom DEF Sound
<1>1. /\ room.mode = "Upgrading" /\ p = Current("UpgradeJoin", r, NextClient(room))
      /\ next.mode = "Sfu" /\ SameAssignment(room, next)
      /\ next.members = room.members /\ next.upgrade = NoUpgrade
      /\ room.pending_join = None /\ room.pending_leave = NoLeave
      /\ next.pending_join = None /\ next.pending_leave = NoLeave
  BY JoinLastRoom
<1>2. newcomer \in room.members /\ room.upgrade.todo = {newcomer} /\ NextClient(room) = newcomer
  <2>1. room.upgrade.todo \subseteq room.members /\ newcomer \in room.upgrade.todo
    BY <1>1 DEF DutyOK, TodoOK
  <2>2. room.upgrade.todo \ {NextClient(room)} = {}
    BY DEF UpgradeJoinLast, Todo, NextClient
  <2> QED
    BY <2>1, <2>2
<1>3. /\ lifecycle' = lifecycle /\ open' = open \ Answer("admit", r, newcomer)
      /\ legs' = legs \cup {LegFor(r, newcomer)} /\ pending' \subseteq pending
  BY <1>1, <1>2, LegOfCurrent DEF UpgradeJoinLast, SettleAndIssue
<1> HIDE DEF next
<1>4. Outlasts(r) /\ (~Forsaken(r)' => ~Forsaken(r))
  <2>1. \A q \in open : q.room = r /\ q.op = "admit" => q \in open' \/ Awaited(q)
    BY <1>3, AnswerAwaited
  <2>2. Forward(r)
    BY <1>1, <1>3, <2>1, StayForward DEF next, NoUpgrade
  <2> QED
    BY <1>0, <2>2, ForsakenStays
<1>5. CleanupStale(r)'
  BY <1>1, <1>3 DEF LegDuty, CleanupStale, Hosted, next
<1>6. BarrierLegs(r)' /\ AdmissionOpen(r)'
  BY <1>1 DEF BarrierLegs, AdmissionOpen, next
<1>7. SfuLegs(r)'
  <2>1. \A c \in room.members : LegFor(r, c) \in legs'
    BY <1>1, <1>2, <1>3 DEF LegDuty, BarrierLegs
  <2>2. \A c : LegFor(r, c)' = LegFor(r, c)
    BY <1>1, <1>3 DEF LegFor, SameAssignment, next
  <2> QED
    BY <1>1, <2>1, <2>2 DEF SfuLegs, next
<1>8. JoinExact(r)'
  BY <1>1, <1>3, <1>4 DEF LegDuty, JoinExact, next
<1>9. AdmitAwaited(r)'
  <2>1. ASSUME ~Forsaken(r)', NEW q \in open', q.room = r, q.op = "admit"
        PROVE  FALSE
    <3>1. q \in open /\ Awaited(q)
      BY <1>3, <1>4, <2>1 DEF LegDuty, AdmitAwaited
    <3>2. q \in Answer("admit", r, newcomer)
      BY <1>0, <1>1, <2>1, <3>1, AwaitedAnswer
    <3> QED
      BY <1>3, <2>1, <3>2
  <2> QED
    BY <2>1 DEF AdmitAwaited
<1>10. RemoveExact(r)'
  BY <1>1, <1>3 DEF LegDuty, RemoveExact, next
<1> QED
  BY <1>4, <1>5, <1>6, <1>7, <1>8, <1>9, <1>10 DEF LegDuty, Outlasts

\* An upgrade that is given up leaves nobody waiting.
LEMMA JoinErrLegs ==
  ASSUME Sound, Sound', OpenBound, NEW p \in wire, p.room \notin Failable, DutyOK(p.room),
         LegDuty(p.room), UpgradeJoinErr(p)
  PROVE  LegDuty(p.room)' /\ Outlasts(p.room)
<1> DEFINE r == p.room
           room == rooms[r]
           next == rooms'[r]
<1>0. /\ TypeOK /\ TypeOK' /\ r \in Rooms \ Failable
      /\ next \in Room /\ MembersOK(next) /\ RolesOK(next) /\ RoomOK(next)
  BY AnsweredRoom DEF Sound, TypeOK, AllMembersOK, AllRolesOK, RoomsOK
<1>1. /\ room.mode = "Upgrading" /\ ~Hosted(next)
      /\ room.pending_join = None /\ room.pending_leave = NoLeave
      /\ next.members = room.members \ {room.upgrade.joining}
      /\ next.upgrade = NoUpgrade
      /\ \A q \in pending' : q.room = r => q.kind = "Cleanup" \/ q \in pending
  BY JoinErrRoom
<1>2. lifecycle' = lifecycle /\ open' = open \ AbortAnswer(r)
  BY DEF UpgradeJoinErr
<1> HIDE DEF next
<1>3. next.pending_join = None
  BY <1>0, <1>1, WaitsFor DEF Hosted
<1>4. Forward(r)
  <2>1. AbortAnswer(r) \subseteq Answer("admit", r, room.upgrade.joining)
    BY DEF AbortAnswer
  <2>2. \A q \in open : q.room = r /\ q.op = "admit" => q \in open' \/ Awaited(q)
    BY <1>2, <2>1, AnswerAwaited
  <2> QED
    BY <1>1, <1>2, <1>3, <2>2, StayForward DEF next, NoUpgrade
<1>5. \A q \in open' : q.room = r => q.op = "admit" /\ q \in open
  <2>1. \A q \in open : q.room = r => q.op # "remove"
    BY <1>1, NoneToRemove DEF LegDuty
  <2> QED
    BY <1>0, <1>2, <2>1 DEF TypeOK, Request
<1>6. \A q \in pending' : q.room = r /\ q.kind = "SfuJoin" => Forsaken(r) \/ Forsaken(r)'
  BY <1>1 DEF LegDuty, JoinExact
<1>7. room.pending_join \notin next.members
  BY <1>0, <1>1, IdsAssumption DEF Room, None
<1> QED
  BY <1>0, <1>1, <1>4, <1>5, <1>6, <1>7, BareLegs DEF next

\* The newcomer of an SFU room has joined, or is refused.
LEMMA SfuJoinLegs ==
  ASSUME Sound, Sound', OpenBound, NEW p \in wire, p.room \notin Failable, LegDuty(p.room),
         SfuJoinOk(p) \/ SfuJoinErr(p)
  PROVE  LegDuty(p.room)' /\ Outlasts(p.room)
<1> DEFINE r == p.room
           room == rooms[r]
           next == rooms'[r]
           newcomer == room.pending_join
           ok == SfuJoinOk(p)
<1>0. TypeOK /\ TypeOK' /\ r \in Rooms /\ room \in Room /\ p \in pending
  BY AnsweredRoom DEF Sound
<1>1. /\ room.mode = "Sfu" /\ room.upgrade = NoUpgrade
      /\ next.mode = "Sfu" /\ SameAssignment(room, next) /\ next.upgrade = NoUpgrade
      /\ next.members = IF ok THEN room.members ELSE room.members \ {newcomer}
      /\ next.pending_join = None /\ next.pending_leave = room.pending_leave
  BY SfuJoinRoom
<1>2. /\ p.kind = "SfuJoin" /\ newcomer # None
      /\ lifecycle' = lifecycle /\ pending' = pending \ {p}
      /\ legs \subseteq legs' /\ (ok => legs' = legs \cup LegOf(p))
      /\ open' = IF ok /\ p.client \notin room.members
                   THEN open ELSE open \ Answer("admit", r, newcomer)
  BY DEF SfuJoinOk, SfuJoinErr, SettleAndIssue
<1> HIDE DEF next, ok
<1>3. open' \subseteq open /\ \A q \in open \ open' : q \in Answer("admit", r, newcomer)
  BY <1>2
<1>4. Outlasts(r) /\ (~Forsaken(r)' => ~Forsaken(r))
  <2>1. \A q \in open : q.room = r /\ q.op = "admit" => q \in open' \/ Awaited(q)
    BY <1>3, AnswerAwaited
  <2>2. Forward(r)
    BY <1>1, <1>2, <2>1, StayForward DEF next, NoUpgrade
  <2> QED
    BY <1>0, <2>2, ForsakenStays
<1>5. ~Forsaken(r) => \A q \in pending : q.room = r /\ q.kind = "SfuJoin" =>
                        q = Current("SfuJoin", r, newcomer)
  BY DEF LegDuty, JoinExact
<1>6. ~Forsaken(r) => p.client = newcomer /\ LegOf(p) = {LegFor(r, newcomer)}
  BY <1>0, <1>2, <1>5, CurrentFields, LegOfCurrent
<1>7. CleanupStale(r)'
  BY <1>1, <1>2 DEF LegDuty, CleanupStale, Hosted, next
<1>8. BarrierLegs(r)' /\ AdmissionOpen(r)'
  BY <1>1 DEF BarrierLegs, AdmissionOpen, next
<1>9. SfuLegs(r)'
  <2>1. ASSUME ~Forsaken(r)', NEW c \in next.members
        PROVE  LegFor(r, c) \in legs'
    <3>1. ~Forsaken(r)
      BY <1>4, <2>1
    <3>2. c = newcomer => ok
      BY <1>1, <2>1
    <3>3. c # newcomer => LegFor(r, c) \in legs
      BY <1>1, <2>1, <3>1 DEF LegDuty, SfuLegs
    <3> QED
      BY <1>2, <1>6, <3>1, <3>2, <3>3
  <2>2. \A c : LegFor(r, c)' = LegFor(r, c)
    BY <1>1, <1>2 DEF LegFor, SameAssignment, next
  <2> QED
    BY <2>1, <2>2 DEF SfuLegs, next
<1>10. JoinExact(r)'
  <2>1. ~Forsaken(r)' => \A q \in pending' : q.room = r => q.kind # "SfuJoin"
    BY <1>0, <1>2, <1>4, <1>5
  <2> QED
    BY <2>1 DEF JoinExact
<1>11. AdmitAwaited(r)'
  <2>1. ASSUME ~Forsaken(r)', NEW q \in open', q.room = r, q.op = "admit"
        PROVE  FALSE
    <3>1. q \in open /\ Awaited(q) /\ ~Forsaken(r)
      BY <1>3, <1>4, <2>1 DEF LegDuty, AdmitAwaited
    <3>2. q.client = newcomer /\ q \in Answer("admit", r, newcomer)
      BY <1>0, <1>1, <2>1, <3>1, AwaitedAnswer DEF NoUpgrade
    <3>3. newcomer \notin room.members
      BY <1>2, <1>6, <2>1, <3>1, <3>2
    <3>4. newcomer \notin next.members
      BY <1>1, <3>3
    <3>5. ~Awaited(q)'
      BY <1>1, <1>2, <2>1, <3>2 DEF Awaited, NoUpgrade, next
    <3> QED
      BY <2>1, <3>2, <3>4, <3>5 DEF Forsaken, Lost, Ended, next
  <2> QED
    BY <2>1 DEF AdmitAwaited
<1>12. RemoveExact(r)'
  BY <1>1, <1>2, <1>3 DEF LegDuty, RemoveExact, next
<1> QED
  BY <1>4, <1>7, <1>8, <1>9, <1>10, <1>11, <1>12 DEF LegDuty, Outlasts

\* A leave is answered; the web server hears of it if it asked.
LEMMA SfuLeaveLegs ==
  ASSUME Sound, Sound', OpenBound, NEW p \in wire, p.room \notin Failable, DutyOK(p.room),
         LegDuty(p.room), SfuLeaveOk(p) \/ SfuLeaveErr(p)
  PROVE  LegDuty(p.room)' /\ Outlasts(p.room)
<1> DEFINE r == p.room
           room == rooms[r]
           next == rooms'[r]
           leaver == room.pending_leave.client
           ok == SfuLeaveOk(p)
<1>0. /\ TypeOK /\ TypeOK' /\ r \in Rooms \ Failable /\ room \in Room /\ p \in pending
      /\ MembersOK(room) /\ RolesOK(room) /\ RoomOK(room)
  BY AnsweredRoom DEF Sound
<1>1. /\ room.mode = "Sfu" /\ p = Current("SfuLeave", r, leaver)
      /\ next.members = IF ok THEN room.members \ {p.client} ELSE room.members
      /\ \A q \in pending' : q.room = r => q \in pending
  BY SfuLeaveRoom
<1>2. /\ lifecycle' = lifecycle /\ open' = open \ LeaveAnswer(r)
      /\ legs' = IF ok THEN legs \ {LegFor(r, leaver)} ELSE legs
  <2>1. LegOf(p) = {LegFor(r, leaver)}
    BY <1>1, LegOfCurrent
  <2>2. SfuLeaveErr(p) => legs' = legs
    BY DEF SfuLeaveErr
  <2>3. ok => legs' = legs \ LegOf(p)
    BY DEF SfuLeaveOk
  <2>4. ok \/ SfuLeaveErr(p)
    OBVIOUS
  <2>5. lifecycle' = lifecycle /\ open' = open \ LeaveAnswer(r)
    BY DEF SfuLeaveOk, SfuLeaveErr
  <2> HIDE DEF ok
  <2> QED
    BY <2>1, <2>2, <2>3, <2>4, <2>5
<1>3. p.client = leaver
  BY <1>1, CurrentFields
<1>4. \/ next = AbsentRoom
      \/ /\ next.mode = "Sfu" /\ SameAssignment(room, next)
         /\ next.upgrade = room.upgrade
         /\ next.pending_join = room.pending_join /\ next.pending_leave = NoLeave
  BY SfuLeaveRoom
<1> HIDE DEF next, ok
<1>5. \A q \in open' : q.room = r => q.op = "admit" /\ q \in open
  <2> SUFFICES ASSUME NEW q \in open, q.room = r, q.op = "remove"
               PROVE  q \in LeaveAnswer(r)
    BY <1>0, <1>2 DEF TypeOK, Request
  <2>1. /\ room.pending_leave = [client |-> q.client, requested |-> TRUE]
        /\ q.lifecycle = lifecycle[r][q.client]
    BY DEF LegDuty, RemoveExact
  <2>2. room.pending_leave.requested /\ leaver = q.client
    BY <2>1
  <2>3. q \in Answer("remove", r, leaver)
    BY <1>0, <2>1, <2>2, SameRequest DEF TypeOK
  <2> QED
    BY <2>2, <2>3 DEF LeaveAnswer
<1>6. \A q \in open : q.op = "admit" => q \in open'
  BY <1>2, AnswerFields DEF LeaveAnswer
<1>7. Forward(r)
  <2>1. {next.upgrade.joining, next.pending_join} \subseteq
          {room.upgrade.joining, room.pending_join, None}
    BY <1>4 DEF AbsentRoom, NoUpgrade
  <2>2. next.members \subseteq room.members
    BY <1>1
  <2> QED
    BY <1>2, <1>6, <2>1, <2>2, StayForward DEF next
<1>8. Outlasts(r) /\ (~Forsaken(r)' => ~Forsaken(r))
  BY <1>0, <1>7, ForsakenStays
<1>9. CASE next = AbsentRoom
  <2>1. /\ ~Hosted(next) /\ next.members = {} /\ next.pending_join = None
        /\ next.upgrade = NoUpgrade
    BY <1>9 DEF Hosted, AbsentRoom
  <2>2. ASSUME NEW q \in pending', q.room = r, q.kind = "SfuJoin", ~Forsaken(r)
        PROVE  Forsaken(r)'
    <3>1. room.pending_join \in Clients
      BY <1>0, <1>1, <2>2 DEF LegDuty, JoinExact, Room
    <3>2. PICK x \in open : x \in Answer("admit", r, room.pending_join)
      BY <3>1, IdsAssumption DEF LegDuty, AdmissionOpen, Answer, None
    <3>3. x.op = "admit" /\ x.room = r /\ x.client = room.pending_join
      BY <3>2, AnswerFields
    <3>4. x \in open' /\ ~Awaited(x)'
      BY <1>6, <2>1, <3>1, <3>3, IdsAssumption DEF Awaited, NoUpgrade, None, next
    <3> QED
      BY <2>1, <3>3, <3>4 DEF Forsaken, Lost, Ended, next
  <2> QED
    BY <1>0, <1>5, <1>7, <2>1, <2>2, BareLegs DEF next
<1>10. CASE /\ next.mode = "Sfu" /\ SameAssignment(room, next)
            /\ next.upgrade = room.upgrade
            /\ next.pending_join = room.pending_join /\ next.pending_leave = NoLeave
  <2>1. CleanupStale(r)'
    BY <1>1, <1>2, <1>10 DEF LegDuty, CleanupStale, Hosted, next
  <2>2. BarrierLegs(r)'
    BY <1>10 DEF BarrierLegs, next
  <2>3. SfuLegs(r)'
    <3>1. ASSUME ~Forsaken(r)', NEW c \in next.members \ {next.pending_join}
          PROVE  LegFor(r, c) \in legs'
      <4>1. LegFor(r, c) \in legs
        BY <1>1, <1>8, <1>10, <3>1 DEF LegDuty, SfuLegs
      <4>2. ok => LegFor(r, c) # LegFor(r, leaver)
        BY <1>1, <1>3, <3>1 DEF LegFor
      <4> QED
        BY <1>2, <4>1, <4>2
    <3>2. \A c : LegFor(r, c)' = LegFor(r, c)
      BY <1>2, <1>10 DEF LegFor, SameAssignment, next
    <3> QED
      BY <3>1, <3>2 DEF SfuLegs, next
  <2>4. JoinExact(r)'
    <3>1. \A c : Current("SfuJoin", r, c)' = Current("SfuJoin", r, c)
      BY <1>2, <1>10 DEF Current, SameAssignment, next
    <3> QED
      BY <1>1, <1>8, <1>10, <3>1 DEF LegDuty, JoinExact, next
  <2>5. AdmissionOpen(r)'
    <3>1. \A c : Answer("admit", r, c)' = Answer("admit", r, c)
      BY <1>2 DEF Answer
    <3>2. \A c : Answer("admit", r, c) \subseteq open => Answer("admit", r, c) \subseteq open'
      BY <1>6, AnswerFields
    <3> QED
      BY <1>10, <3>1, <3>2 DEF LegDuty, AdmissionOpen, next
  <2>6. AdmitAwaited(r)'
    BY <1>2, <1>5, <1>8, <1>10 DEF LegDuty, AdmitAwaited, Awaited, next
  <2>7. RemoveExact(r)'
    BY <1>5 DEF RemoveExact
  <2> QED
    BY <1>8, <2>1, <2>2, <2>3, <2>4, <2>5, <2>6, <2>7 DEF LegDuty, Outlasts
<1> QED
  BY <1>4, <1>9, <1>10

\* An answer nobody waits for ends no leg the room counts on.
LEMMA SettleOnlyLegs ==
  ASSUME Sound, Sound', NEW p \in wire, p.room \notin Failable, DutyOK(p.room),
         LegDuty(p.room), SettleOnly(p)
  PROVE  LegDuty(p.room)' /\ Outlasts(p.room)
<1> DEFINE r == p.room
           room == rooms[r]
<1>0. p \in pending
  BY AnsweredRoom
<1>1. /\ rooms' = rooms /\ lifecycle' = lifecycle /\ open' = open /\ pending' \subseteq pending
  BY DEF SettleOnly, SettleAndIssue
<1>2. ASSUME Hosted(room), NEW c \in room.members, LegFor(r, c) \in legs
      PROVE  LegFor(r, c) \in legs'
  <2>1. p.kind = "SfuLeave" => ~Unawaited(p)
    BY <1>0 DEF DutyOK, LeaveExact, Unawaited
  <2>2. p.kind = "Cleanup" => LegFor(r, c) \notin LegOf(p)
    BY <1>0, <1>2 DEF LegDuty, CleanupStale, LegFor, LegOf
  <2> QED
    BY <1>2, <2>1, <2>2 DEF SettleOnly
<1>3. \A c : LegFor(r, c)' = LegFor(r, c)
  BY <1>1 DEF LegFor
<1>4. /\ Forsaken(r)' = Forsaken(r)
      /\ \A q : Awaited(q)' = Awaited(q) /\ Lost(q)' = Lost(q)
  BY <1>1 DEF Forsaken, Lost, Ended, Awaited
<1>5. CleanupStale(r)' /\ AdmissionOpen(r)' /\ AdmitAwaited(r)' /\ RemoveExact(r)'
  BY <1>1, <1>4
     DEF LegDuty, CleanupStale, AdmissionOpen, AdmitAwaited, RemoveExact, Answer
<1>6. JoinExact(r)'
  BY <1>1, <1>4 DEF LegDuty, JoinExact, Current
<1>7. BarrierLegs(r)' /\ SfuLegs(r)'
  BY <1>1, <1>2, <1>3, <1>4 DEF LegDuty, BarrierLegs, SfuLegs, Hosted
<1> QED
  BY <1>4, <1>5, <1>6, <1>7 DEF LegDuty, Outlasts

LEMMA ResultLegs ==
  ASSUME Sound, Sound', OpenBound, NEW p \in wire, p.room \notin Failable, DutyOK(p.room),
         LegDuty(p.room), Result(p)
  PROVE  LegDuty(p.room)' /\ Outlasts(p.room)
BY JoinMoreLegs, JoinLastLegs, JoinErrLegs, SfuJoinLegs, SfuLeaveLegs, SettleOnlyLegs DEF Result

-----------------------------------------------------------------------------
(***************************************************************************)
(* The sweep, the loss of a worker and the shutdown.                       *)
(***************************************************************************)

LEMMA DowngradedLegs ==
  ASSUME Sound, Sound', OpenBound, NEW r \in Rooms \ Failable, DutyOK(r), LegDuty(r),
         SweepRoom(r), SweepDowngrade(r), is_downgrade_eligible(rooms[r])
  PROVE  LegDuty(r)' /\ Outlasts(r)
<1>0. /\ TypeOK /\ TypeOK' /\ r \in Rooms
      /\ rooms'[r] \in Room /\ MembersOK(rooms'[r]) /\ RolesOK(rooms'[r]) /\ RoomOK(rooms'[r])
  BY DEF Sound, TypeOK, AllMembersOK, AllRolesOK, RoomsOK
<1>1. /\ rooms[r].upgrade = NoUpgrade
      /\ rooms[r].pending_join = None /\ rooms[r].pending_leave = NoLeave
      /\ rooms'[r].members = rooms[r].members /\ ~Hosted(rooms'[r])
      /\ \A q \in pending' : q.room = r => q.kind = "Cleanup" \/ q \in pending
  BY DowngradedRoom
<1>2. lifecycle' = lifecycle /\ open' = open
  BY DEF SweepRoom
<1>3. rooms'[r].upgrade = NoUpgrade /\ rooms'[r].pending_join = None
  BY <1>0, <1>1, WaitsFor DEF Hosted
<1>4. Forward(r)
  BY <1>1, <1>2, <1>3, StayForward
<1>5. None \notin rooms'[r].members
  BY <1>0, IdsAssumption DEF Room, None
<1>6. /\ \A q \in open : q.room = r => q.op = "admit" /\ Forsaken(r)
      /\ \A p \in pending : p.room = r /\ p.kind = "SfuJoin" => Forsaken(r)
  BY <1>0, <1>1, NothingAwaited
<1> QED
  BY <1>1, <1>2, <1>4, <1>5, <1>6, BareLegs DEF NoUpgrade

LEMMA SweepLegs ==
  ASSUME Sound, Sound', OpenBound, NEW r \in Rooms \ Failable, DutyOK(r), LegDuty(r),
         SweepRoom(r)
  PROVE  LegDuty(r)' /\ Outlasts(r)
<1>1. TypeOK
  BY DEF Sound
<1> QED
  BY <1>1, SweepSteps, OrdinaryLegs, DowngradedLegs

LEMMA ExpiryLegs ==
  ASSUME Sound, Sound', OpenBound, ReplayOK, NEW w \in Workers, expire_worker(w),
         NEW r \in Rooms \ Failable, DutyOK(r), LegDuty(r)
  PROVE  LegDuty(r)' /\ Outlasts(r)
<1> DEFINE room == rooms[r]
           next == rooms'[r]
<1>0. /\ TypeOK /\ TypeOK' /\ r \in Rooms
      /\ room \in Room /\ MembersOK(room) /\ RolesOK(room) /\ RoomOK(room)
      /\ next \in Room /\ MembersOK(next) /\ RolesOK(next) /\ RoomOK(next)
  BY DEF Sound, TypeOK, AllMembersOK, AllRolesOK, RoomsOK
<1>1. CASE Still(r)
  <2>1. Hosted(room) => room.assigned # None
    BY <1>0 DEF Hosted, MembersOK, AwaitingOK
  <2> QED
    BY <1>0, <1>1, <2>1, StillLegs
<1>2. CASE /\ room.assigned = w /\ Hosted(room) /\ ~Hosted(next)
           /\ \A p \in pending' : p.room = r =>
                p.instance # w /\ (p.kind = "Cleanup" \/ p \in pending)
           /\ next.members = room.members \
                {IF room.mode = "Upgrading" THEN room.upgrade.joining ELSE room.pending_join}
           /\ lifecycle' = lifecycle /\ open' \subseteq open
           /\ \A q \in open : q.room = r /\ q.op = "admit" => q \in open' \/ Awaited(q)
           /\ room.mode = "Sfu" => LeaveAnswer(r) \cap open' = {}
  <2>1. \/ room.mode = "Upgrading" /\ room.pending_join = None /\ room.pending_leave = NoLeave
        \/ room.mode = "Sfu" /\ room.upgrade = NoUpgrade
    BY <1>0, <1>2, WaitsFor DEF Hosted
  <2>2. None \notin next.members /\ NoUpgrade.joining = None
    BY <1>0, IdsAssumption DEF Room, None, NoUpgrade
  <2>3. room.upgrade.joining \notin next.members /\ room.pending_join \notin next.members
    BY <1>2, <2>1, <2>2
  <2>4. next.upgrade = NoUpgrade /\ next.pending_join = None
    BY <1>0, <1>2, WaitsFor DEF Hosted
  <2>5. Forward(r)
    BY <1>2, <2>2, <2>4, StayForward
  <2>6. ASSUME NEW q \in open', q.room = r, q.op = "remove"
        PROVE  FALSE
    <3>1. q \in open /\ q \in Request
      BY <1>0, <1>2, <2>6 DEF TypeOK
    <3>2. /\ room.pending_leave = [client |-> q.client, requested |-> TRUE]
          /\ q.lifecycle = lifecycle[r][q.client]
      BY <2>6, <3>1 DEF LegDuty, RemoveExact
    <3>3. room.mode = "Sfu"
      BY <2>1, <3>2 DEF NoLeave
    <3>4. q \in Answer("remove", r, q.client)
      BY <2>6, <3>1, <3>2, SameRequest
    <3>5. room.pending_leave.requested /\ room.pending_leave.client = q.client
      BY <3>2
    <3>6. q \in LeaveAnswer(r)
      BY <3>4, <3>5 DEF LeaveAnswer
    <3> QED
      BY <1>2, <2>6, <3>3, <3>6
  <2>7. \A q \in open' : q.room = r => q.op = "admit" /\ q \in open
    BY <1>0, <1>2, <2>6 DEF TypeOK, Request
  <2>8. \A p \in pending' : p.room = r /\ p.kind = "SfuJoin" => Forsaken(r) \/ Forsaken(r)'
    BY <1>2, CurrentFields DEF LegDuty, JoinExact
  <2> QED
    BY <1>2, <2>3, <2>5, <2>7, <2>8, BareLegs
<1> QED
  BY <1>1, <1>2, ExpiredRoom

LEMMA ClearLegs ==
  ASSUME clear, NEW r \in Rooms
  PROVE  LegDuty(r)'
<1>1. /\ rooms'[r].mode = "Absent" /\ rooms'[r].pending_join = None
      /\ pending' = {} /\ open' = {}
  BY DEF clear, AbsentRoom
<1> QED
  BY <1>1 DEF LegDuty, CleanupStale, BarrierLegs, SfuLegs, JoinExact, AdmissionOpen,
              AdmitAwaited, RemoveExact

-----------------------------------------------------------------------------
(***************************************************************************)
(* The requests and the legs are kept.                                     *)
(***************************************************************************)

\* A request is made under the client's last lifecycle.
LEMMA OpenedNow ==
  ASSUME [Next]_vars
  PROVE  \A q \in open' \ open : q.lifecycle = lifecycle'[q.room][q.client]
<1>1. CASE UNCHANGED vars
  BY <1>1 DEF vars
<1>2. ASSUME NEW r \in Rooms, NEW c \in Clients,
             \/ Register(r, c) \/ Deregister(r, c) \/ SendSfu(r, c) \/ SendQueued(r, c)
             \/ AdmitFirst(r, c) \/ AdmitP2p(r, c) \/ RemoveNow(r, c)
      PROVE  open' = open
  BY <1>2 DEF Register, Deregister, SendSfu, SendQueued, AdmitFirst, AdmitP2p, RemoveNow
<1>3. ASSUME NEW r \in Rooms, NEW c \in Clients, AdmitUpgrade(r, c) \/ AdmitSfu(r, c)
      PROVE  \A q \in open' \ open : q.lifecycle = lifecycle'[q.room][q.client]
  <2>1. open' = open \cup Answer("admit", r, c)'
    BY <1>3 DEF AdmitUpgrade, AdmitSfu
  <2> QED
    BY <2>1 DEF Answer
<1>4. ASSUME NEW r \in Rooms, NEW c \in Clients, RemoveSfu(r, c)
      PROVE  \A q \in open' \ open : q.lifecycle = lifecycle'[q.room][q.client]
  BY <1>4 DEF RemoveSfu, Answer
<1>5. ASSUME NEW p \in wire, Result(p)
      PROVE  open' \subseteq open
  BY <1>5 DEF Result, UpgradeJoinMore, UpgradeJoinLast, UpgradeJoinErr, SfuJoinOk, SfuJoinErr,
              SfuLeaveOk, SfuLeaveErr, SettleOnly
<1>6. ASSUME NEW s, SyncOk(s) \/ SyncErr(s)
      PROVE  open' = open
  BY <1>6 DEF SyncOk, SyncErr
<1>7. CASE WorkerStream
  <2>1. ASSUME NEW w, NEW k, NEW x, NEW y,
               \/ register_worker(w, k, x) \/ WorkerDisconnected(w, k)
               \/ WorkerHealth(w, x, y) \/ WorkerFailure(w, x)
        PROVE  open' = open
    BY <2>1 DEF register_worker, WorkerDisconnected, WorkerHealth, WorkerFailure
  <2> QED
    BY <1>7, <2>1 DEF WorkerStream
<1>8. CASE Tick \/ clear
  BY <1>8 DEF Tick, clear
<1>9. CASE HandleTimeout
  <2>1. ASSUME NEW w, expire_worker(w)
        PROVE  open' \subseteq open
    BY <2>1 DEF expire_worker
  <2>2. ASSUME NEW r, StartSweep \/ SweepRoom(r)
        PROVE  open' = open
    BY <2>2 DEF StartSweep, SweepRoom
  <2> QED
    BY <1>9, <2>1, <2>2 DEF HandleTimeout
<1> QED
  BY <1>1, <1>2, <1>3, <1>4, <1>5, <1>6, <1>7, <1>8, <1>9
     DEF Next, Operation, Browser, WebServer, WorkerAnswer

LEMMA OpenBoundKept ==
  ASSUME TypeOK, TypeOK', WireOK, OpenBound, [Next]_vars
  PROVE  OpenBound'
<1>1. ASSUME NEW r \in Rooms, NEW c \in Clients
      PROVE  lifecycle[r][c] <= lifecycle'[r][c]
  <2>1. lifecycle[r][c] \in Nat
    BY DEF TypeOK
  <2>2. CASE Asks
    BY <2>1, <2>2 DEF Asks
  <2>3. ASSUME NEW q \in Rooms, NEW S \in SUBSET Clients, lifecycle' = NextLifecycle(q, S)
        PROVE  lifecycle[r][c] <= lifecycle'[r][c]
    BY <2>1, <2>3 DEF NextLifecycle, TypeOK
  <2> QED
    BY <2>2, <2>3, AsksOrAdmits, AdmitStarts DEF Starts
<1>2. ASSUME NEW q \in open'
      PROVE  q.lifecycle <= lifecycle'[q.room][q.client]
  <2>1. q.room \in Rooms /\ q.client \in Clients /\ q.lifecycle \in Nat
    BY DEF TypeOK, Request
  <2>2. /\ lifecycle[q.room][q.client] \in Nat /\ lifecycle'[q.room][q.client] \in Nat
    BY <2>1 DEF TypeOK
  <2>3. CASE q \in open
    BY <1>1, <2>1, <2>2, <2>3 DEF OpenBound
  <2>4. CASE q \notin open
    BY <2>1, <2>4, OpenedNow
  <2> QED
    BY <2>3, <2>4
<1> QED
  BY <1>2 DEF OpenBound

\* A step that concerns one room, which keeps its own.
LEMMA OnlyLegs ==
  ASSUME Sound, Sound', LegDutiesOK, NEW r \in Rooms, Only(r),
         r \notin Failable => LegDuty(r)' /\ Outlasts(r), NEW q \in Rooms \ Failable
  PROVE  LegDuty(q)' /\ Outlasts(q)
<1>1. Hosted(rooms[q]) => rooms[q].assigned # None
  BY DEF Sound, AllMembersOK, MembersOK, AwaitingOK, Hosted
<1>2. q # r => Still(q)
  BY OnlyStill DEF Sound
<1> QED
  BY <1>1, <1>2, StillLegs DEF Sound, LegDutiesOK

\* What a step that is not the shutdown makes of a room.
LEMMA LegsStep ==
  ASSUME Sound, Sound', LegsOK, DutiesOK, LegDutiesOK, Next \/ UNCHANGED vars, ~clear,
         NEW q \in Rooms \ Failable
  PROVE  LegDuty(q)' /\ Outlasts(q)
<1>0. /\ TypeOK /\ TypeOK' /\ WireOK /\ ReplayOK /\ OpenBound
      /\ \A r \in Rooms \ Failable : DutyOK(r) /\ OnBooks(r) /\ LegDuty(r)
  BY DEF DutiesOK, DutyOK, LegDutiesOK, Sound
<1>a. ASSUME Still(q) PROVE LegDuty(q)' /\ Outlasts(q)
  <2>1. Hosted(rooms[q]) => rooms[q].assigned # None
    BY DEF Sound, AllMembersOK, MembersOK, AwaitingOK, Hosted
  <2> QED
    BY <1>0, <1>a, <2>1, StillLegs
<1>1. ASSUME NEW r \in Rooms, NEW c \in Clients,
             \/ Register(r, c) \/ Deregister(r, c) \/ SendSfu(r, c) \/ SendQueued(r, c)
             \/ RemoveNow(r, c) \/ RemoveSfu(r, c)
      PROVE  LegDuty(q)' /\ Outlasts(q)
  <2>1. Only(r)
    BY <1>0, <1>1, ClientOnly
  <2>2. OrdinaryStep(r)
    BY <1>0, <1>1, ClientSteps
  <2>3. r \notin Failable => LegDuty(r)' /\ Outlasts(r)
    BY <1>0, <2>2, OrdinaryLegs
  <2> QED
    BY <2>1, <2>3, OnlyLegs
<1>2. ASSUME NEW r \in Rooms, NEW c \in Clients,
             AdmitFirst(r, c) \/ AdmitP2p(r, c) \/ AdmitUpgrade(r, c) \/ AdmitSfu(r, c)
      PROVE  LegDuty(q)' /\ Outlasts(q)
  <2>1. Only(r)
    BY <1>0, <1>2, AdmitOnly
  <2>2. r \notin Failable => LegDuty(r)' /\ Outlasts(r)
    BY <1>0, <1>2, AdmitBareLegs, AdmitUpgradeLegs, AdmitSfuLegs
  <2> QED
    BY <2>1, <2>2, OnlyLegs
<1>3. ASSUME NEW p \in wire, Result(p) PROVE LegDuty(q)' /\ Outlasts(q)
  <2>1. Only(p.room) /\ p.room \in Rooms
    BY <1>0, <1>3, ResultOnly DEF TypeOK, Command
  <2>2. p.room \notin Failable => LegDuty(p.room)' /\ Outlasts(p.room)
    BY <1>0, <1>3, <2>1, ResultLegs
  <2> QED
    BY <2>1, <2>2, OnlyLegs
<1>4. ASSUME NEW s, SyncOk(s) \/ SyncErr(s) PROVE LegDuty(q)' /\ Outlasts(q)
  BY <1>0, <1>4, <1>a, SyncStill
<1>5. CASE WorkerStream
  <2>1. ASSUME NEW w \in Workers, NEW k, NEW capacity, register_worker(w, k, capacity)
        PROVE  Still(q)
    BY <1>0, <2>1, RegisterStill
  <2>2. ASSUME NEW w \in Workers, NEW k, WorkerDisconnected(w, k) PROVE Still(q)
    BY <1>0, <2>2, DisconnectStill
  <2>3. ASSUME NEW w \in Workers, NEW x, NEW y, WorkerHealth(w, x, y) \/ WorkerFailure(w, x)
        PROVE  Still(q)
    BY <1>0, <2>3, QuietTable
  <2> QED
    BY <1>5, <1>a, <2>1, <2>2, <2>3 DEF WorkerStream
<1>6. CASE Tick \/ StartSweep \/ UNCHANGED vars
  BY <1>0, <1>6, <1>a, QuietTable
<1>7. ASSUME NEW w \in due, expire_worker(w) PROVE LegDuty(q)' /\ Outlasts(q)
  <2>1. w \in Workers
    BY <1>0 DEF TypeOK
  <2> QED
    BY <1>0, <1>7, <2>1, ExpiryLegs
<1>8. ASSUME NEW r \in unswept, SweepRoom(r) PROVE LegDuty(q)' /\ Outlasts(q)
  <2>1. r \in Rooms /\ Only(r)
    BY <1>0, <1>8, SweepOnly DEF TypeOK
  <2>2. r \notin Failable => LegDuty(r)' /\ Outlasts(r)
    BY <1>0, <1>8, <2>1, SweepLegs
  <2> QED
    BY <2>1, <2>2, OnlyLegs
<1> QED
  BY <1>1, <1>2, <1>3, <1>4, <1>5, <1>6, <1>7, <1>8
     DEF Next, Operation, Browser, WebServer, WorkerAnswer, HandleTimeout

LEMMA LegDutiesInductive ==
  /\ Init => LegDutiesOK
  /\ Sound /\ Sound' /\ LegsOK /\ DutiesOK /\ LegDutiesOK /\ [Next]_vars => LegDutiesOK'
<1>1. Init => LegDutiesOK
  BY DEF Init, LegDutiesOK, OpenBound, LegDuty, CleanupStale, BarrierLegs, SfuLegs, JoinExact,
         AdmissionOpen, AdmitAwaited, RemoveExact, AbsentRoom
<1>2. ASSUME Sound, Sound', LegsOK, DutiesOK, LegDutiesOK, [Next]_vars PROVE LegDutiesOK'
  <2>1. OpenBound'
    BY <1>2, OpenBoundKept DEF LegDutiesOK, Sound
  <2>2. ASSUME NEW q \in Rooms \ Failable PROVE LegDuty(q)'
    BY <1>2, LegsStep, ClearLegs
  <2> QED
    BY <2>1, <2>2 DEF LegDutiesOK
<1> QED
  BY <1>1, <1>2

\* Who has joined, what is awaited and who is answered, in every room.
THEOREM LegDutiesSafe == Spec => []LegDutiesOK
<1>1. TypeOK /\ AllMembersOK /\ AllRolesOK /\ RoomsOK /\ WireOK => Sound
  BY DEF Sound
<1> QED
  BY <1>1, TypeCorrect, MembersSafe, RolesSafe, RoomsSafe, WireSafe, LegsSafe, DutiesSafe,
     LegDutiesInductive, PTL DEF Spec

-----------------------------------------------------------------------------
(***************************************************************************)
(* What an admission is lost to.  LegDutiesOK lets one be lost with its    *)
(* member in any way; it is never lost but to a leave that overtook its    *)
(* join, because whatever else drops a member that is waited for answers   *)
(* its admission.                                                          *)
(***************************************************************************)

\* Those who have joined are members, the newcomer not yet among them: when
\* the upgrade is given up all of them can be told, and the admission is
\* answered after them.
JoinedIn(room) ==
  room.mode = "Upgrading" =>
    \A i \in DOMAIN room.upgrade.joined :
      room.upgrade.joined[i] \in room.members \ {room.upgrade.joining}

\* Every open admission whose member is gone was overtaken by a leave, or is
\* of a room where an earlier one was.
Accounted(r) ==
  \A q \in open : q.room = r /\ q.op = "admit" /\ Ended(q) => q \in overtaken \/ Outlived(r)

AccountedOK == \A r \in Rooms \ Failable : JoinedIn(rooms[r]) /\ Accounted(r)

\* The memberships that the step ends under an admission somebody waits for,
\* it ends by a leave.
LeftOnly(r) ==
  \A q \in open' : q.room = r /\ q.op = "admit" /\ Ended(q)' =>
    \/ q \in overtaken'
    \/ q \in open /\ (Ended(q) \/ ~Awaited(q))

Accounts(r) == LeftOnly(r) /\ (JoinedIn(rooms[r]) => JoinedIn(rooms[r])')

\* No membership ends, and no admission is asked for.
LEMMA SameAccounts ==
  ASSUME NEW r, lifecycle'[r] = lifecycle[r],
         rooms[r].members \subseteq rooms'[r].members,
         \A q \in open' : q.room = r /\ q.op = "admit" => q \in open
  PROVE  LeftOnly(r)
BY DEF LeftOnly, Ended

LEMMA StillAccounts ==
  ASSUME TypeOK', NEW r \in Rooms, Still(r)
  PROVE  Accounts(r)
<1>1. /\ lifecycle'[r] = lifecycle[r] /\ Alike(rooms[r], rooms'[r])
      /\ \A q \in open' : q.room = r => q \in open
  BY DEF Still, TypeOK
<1>2. JoinedIn(rooms[r]) => JoinedIn(rooms[r])'
  BY <1>1 DEF JoinedIn, Alike
<1>3. LeftOnly(r)
  BY <1>1, SameAccounts DEF Alike
<1> QED
  BY <1>2, <1>3 DEF Accounts

\* Nobody is waited for; who asks to be admitted is a member.
LEMMA FreshAccounts ==
  ASSUME TypeOK, NEW r \in Rooms, rooms[r].upgrade = NoUpgrade, rooms[r].pending_join = None,
         \A q \in open' : q.room = r /\ q.op = "admit" => q \in open \/ ~Ended(q)'
  PROVE  LeftOnly(r)
<1>1. ASSUME NEW q \in open, q.room = r PROVE ~Awaited(q)
  BY <1>1, IdsAssumption DEF TypeOK, Request, Awaited, NoUpgrade, None
<1> QED
  BY <1>1 DEF LeftOnly

LEMMA OrdinaryAccounts ==
  ASSUME Sound, Sound', NEW r \in Rooms \ Failable, OrdinaryStep(r)
  PROVE  Accounts(r)
<1>0. /\ TypeOK /\ TypeOK' /\ r \in Rooms
      /\ rooms[r] \in Room /\ MembersOK(rooms[r]) /\ RolesOK(rooms[r]) /\ RoomOK(rooms[r])
  BY DEF Sound, TypeOK, AllMembersOK, AllRolesOK, RoomsOK
<1>1. CASE BareStep(r)
  <2>1. rooms[r].upgrade = NoUpgrade /\ rooms[r].pending_join = None
    BY <1>0, <1>1, WaitsFor DEF BareStep, Hosted
  <2>2. open' = open /\ rooms'[r].mode # "Upgrading"
    BY <1>1 DEF BareStep, Hosted
  <2>3. LeftOnly(r)
    BY <1>0, <2>1, <2>2, FreshAccounts
  <2> QED
    BY <2>2, <2>3 DEF Accounts, JoinedIn
<1>2. ASSUME NEW c \in Clients, NEW b \in BOOLEAN, AsksLeave(r, c, b)
      PROVE  Accounts(r)
  <2>1. /\ lifecycle' = lifecycle /\ rooms'[r].members = rooms[r].members
        /\ rooms'[r].mode = "Sfu"
    BY <1>2 DEF AsksLeave
  <2>2. \A q \in open' : q.op = "admit" => q \in open
    BY <1>2, AnswerFields DEF AsksLeave
  <2>3. LeftOnly(r)
    BY <2>1, <2>2, SameAccounts
  <2> QED
    BY <2>1, <2>3 DEF Accounts, JoinedIn
<1> QED
  BY <1>0, <1>1, <1>2, StillAccounts DEF OrdinaryStep

LEMMA AdmitAccounts ==
  ASSUME Sound, Sound', NEW r \in Rooms \ Failable, NEW c \in Clients,
         AdmitFirst(r, c) \/ AdmitP2p(r, c) \/ AdmitUpgrade(r, c) \/ AdmitSfu(r, c)
  PROVE  Accounts(r)
<1>0. /\ TypeOK /\ AllMembersOK /\ r \in Rooms
      /\ rooms[r] \in Room /\ MembersOK(rooms[r]) /\ RolesOK(rooms[r]) /\ RoomOK(rooms[r])
  BY DEF Sound, TypeOK, AllMembersOK, AllRolesOK, RoomsOK
<1>1. rooms[r].upgrade = NoUpgrade /\ rooms[r].pending_join = None
  <2>1. AdmitSfu(r, c) => rooms[r].mode = "Sfu" /\ rooms[r].pending_join = None
    BY DEF AdmitSfu
  <2>2. ~AdmitSfu(r, c) => rooms[r].mode \in {"Absent", "P2p"}
    BY DEF AdmitFirst, AdmitP2p, AdmitUpgrade
  <2> QED
    BY <1>0, <2>1, <2>2, WaitsFor
<1>2. JoinedIn(rooms[r])'
  <2>1. CASE AdmitUpgrade(r, c)
    <3>1. rooms'[r].upgrade.joined = <<>>
      BY <1>0, <2>1, UpgradeOpened
    <3> QED
      BY <3>1 DEF JoinedIn
  <2>2. CASE ~AdmitUpgrade(r, c)
    <3>1. rooms'[r].mode # "Upgrading"
      BY <1>0, <2>2, AdmittedBare, SfuEntered
    <3> QED
      BY <3>1 DEF JoinedIn
  <2> QED
    BY <2>1, <2>2
<1>3. AdmitUpgrade(r, c) \/ AdmitSfu(r, c) => c \in rooms'[r].members
  <2>1. ASSUME AdmitUpgrade(r, c) PROVE rooms'[r].members = rooms[r].members \cup {c}
    BY <1>0, <2>1, UpgradeOpened
  <2>2. ASSUME AdmitSfu(r, c) PROVE rooms'[r].members = rooms[r].members \cup {c}
    BY <1>0, <2>2, SfuEntered
  <2>3. c \in rooms[r].members \cup {c}
    OBVIOUS
  <2> QED
    BY <2>1, <2>2, <2>3
<1>4. \/ open' = open
      \/ (AdmitUpgrade(r, c) \/ AdmitSfu(r, c)) /\ open' = open \cup Answer("admit", r, c)'
  BY DEF AdmitFirst, AdmitP2p, AdmitUpgrade, AdmitSfu
<1>5. \A q \in open' : q \in open \/ ~Ended(q)'
  BY <1>3, <1>4 DEF Answer, Ended
<1> QED
  BY <1>0, <1>1, <1>2, <1>5, FreshAccounts DEF Accounts

\* One more member has joined: not the newcomer, who is the last.
LEMMA JoinMoreAccounts ==
  ASSUME Sound, Sound', NEW p \in wire, p.room \notin Failable, DutyOK(p.room),
         UpgradeJoinMore(p)
  PROVE  Accounts(p.room)
<1> DEFINE r == p.room
           room == rooms[r]
           next == rooms'[r]
<1>1. /\ room.mode = "Upgrading" /\ p = Current("UpgradeJoin", r, NextClient(room))
      /\ next.members = room.members /\ next.upgrade.joining = room.upgrade.joining
      /\ next.upgrade.joined = Append(room.upgrade.joined, p.client)
  BY JoinMoreRoom
<1>2. p.client = NextClient(room)
  BY <1>1, CurrentFields
<1>3. room.upgrade.todo \in SUBSET Clients /\ room.upgrade.joined \in Seq(Clients)
  BY AnsweredRoom DEF Room, Upgrade
<1>4. p.client \in room.members \ {room.upgrade.joining}
  <2>1. room.upgrade.todo \subseteq room.members /\ room.upgrade.joining \in room.upgrade.todo
    BY <1>1 DEF DutyOK, TodoOK
  <2>2. room.upgrade.todo \ {NextClient(room)} # {}
    BY DEF UpgradeJoinMore, Todo, NextClient
  <2>3. NextClient(room) \in room.upgrade.todo /\ NextClient(room) # room.upgrade.joining
    BY <1>3, <2>1, <2>2, NextJoinIn DEF NextClient
  <2> QED
    BY <1>2, <2>1, <2>3
<1>5. JoinedIn(room) => JoinedIn(next)
  <2> SUFFICES ASSUME JoinedIn(room), NEW i \in DOMAIN next.upgrade.joined
               PROVE  next.upgrade.joined[i] \in next.members \ {next.upgrade.joining}
    BY DEF JoinedIn
  <2> DEFINE joined == room.upgrade.joined
  <2>1. p.client \in Clients
    BY AnsweredRoom DEF Command
  <2>2. /\ \A j \in DOMAIN joined : joined[j] \in room.members \ {room.upgrade.joining}
        /\ joined \in Seq(Clients)
    BY <1>1, <1>3 DEF JoinedIn
  <2>3. i \in DOMAIN Append(joined, p.client)
    BY <1>1
  <2> HIDE DEF joined, next, room, r
  <2>4. \/ i \in DOMAIN joined /\ Append(joined, p.client)[i] = joined[i]
        \/ Append(joined, p.client)[i] = p.client
    BY <2>1, <2>2, <2>3
  <2> QED
    BY <1>1, <1>4, <2>2, <2>4 DEF joined
<1>6. LeftOnly(r)
  <2>1. lifecycle' = lifecycle /\ open' = open
    BY DEF UpgradeJoinMore
  <2> QED
    BY <1>1, <2>1, SameAccounts
<1> QED
  BY <1>5, <1>6 DEF Accounts

\* An upgrade that is given up answers its admission.
LEMMA AbortAnswers ==
  ASSUME NEW r \in Rooms, rooms[r] \in Room, MembersOK(rooms[r]), JoinedIn(rooms[r]),
         rooms[r].mode = "Upgrading"
  PROVE  AbortAnswer(r) = Answer("admit", r, rooms[r].upgrade.joining)
<1> DEFINE room == rooms[r]
           joined == room.upgrade.joined
<1>1. room.assigned # None
  BY DEF MembersOK, AwaitingOK
<1>2. Aborted(room).members = room.members \ {room.upgrade.joining}
  <2>1. /\ DropMembers(room, {room.upgrade.joining}) \in Room
        /\ DropMembers(room, {room.upgrade.joining}).members
             = room.members \ {room.upgrade.joining}
    BY DropMembersType DEF DropMembers, Room
  <2> QED
    BY <2>1 DEF Aborted, Room
<1>3. joined \in Seq(Clients)
  BY DEF Room, Upgrade
<1>4. Present(room, Len(joined))
  <2>1. \A j \in DOMAIN joined : joined[j] \in Aborted(room).members
    BY <1>2 DEF JoinedIn
  <2>2. 1..Len(joined) = DOMAIN joined
    BY <1>3
  <2> QED
    BY <2>1, <2>2 DEF Present
<1> QED
  BY <1>1, <1>4 DEF AbortAnswer

LEMMA JoinErrAccounts ==
  ASSUME Sound, Sound', NEW p \in wire, p.room \notin Failable, DutyOK(p.room),
         UpgradeJoinErr(p), JoinedIn(rooms[p.room])
  PROVE  Accounts(p.room)
<1> DEFINE r == p.room
           room == rooms[r]
           next == rooms'[r]
<1>1. /\ room.mode = "Upgrading" /\ next.mode # "Upgrading"
      /\ next.members = room.members \ {room.upgrade.joining}
  BY JoinErrRoom DEF Hosted
<1>2. /\ room \in Room /\ MembersOK(room) /\ r \in Rooms /\ TypeOK
  BY AnsweredRoom DEF Sound
<1>3. lifecycle' = lifecycle /\ open' = open \ Answer("admit", r, room.upgrade.joining)
  BY <1>1, <1>2, AbortAnswers DEF UpgradeJoinErr
<1>4. LeftOnly(r)
  <2> SUFFICES ASSUME NEW q \in open', q.room = r, q.op = "admit", Ended(q)', ~Ended(q)
               PROVE  FALSE
    BY <1>3 DEF LeftOnly
  <2> HIDE DEF next, room
  <2>1. q \in open /\ q \in Request
    BY <1>2, <1>3 DEF TypeOK
  <2>2. q.client = room.upgrade.joining /\ q.lifecycle = lifecycle[r][q.client]
    BY <1>1, <1>3 DEF Ended, next, room
  <2>3. q \in Answer("admit", r, room.upgrade.joining)
    BY <2>1, <2>2, SameRequest
  <2> QED
    BY <1>3, <2>3
<1> QED
  BY <1>1, <1>4 DEF Accounts, JoinedIn

\* So is the admission of a newcomer who may not join, and of one who may.
LEMMA SfuJoinAccounts ==
  ASSUME Sound, Sound', NEW p \in wire, p.room \notin Failable, SfuJoinOk(p) \/ SfuJoinErr(p)
  PROVE  Accounts(p.room)
<1> DEFINE r == p.room
           room == rooms[r]
           next == rooms'[r]
<1>1. /\ next.mode = "Sfu"
      /\ next.members = IF SfuJoinOk(p) THEN room.members ELSE room.members \ {room.pending_join}
  BY SfuJoinRoom
<1>2. /\ r \in Rooms /\ TypeOK /\ lifecycle' = lifecycle /\ open' \subseteq open
      /\ ~SfuJoinOk(p) => open' = open \ Answer("admit", r, room.pending_join)
  BY AnsweredRoom DEF Sound, SfuJoinOk, SfuJoinErr
<1>3. LeftOnly(r)
  <2> SUFFICES ASSUME NEW q \in open', q.room = r, q.op = "admit", Ended(q)', ~Ended(q)
               PROVE  FALSE
    BY <1>2 DEF LeftOnly
  <2> HIDE DEF next, room
  <2>1. q \in open /\ q \in Request
    BY <1>2 DEF TypeOK
  <2>2. /\ q.client \notin next.members /\ q.client \in room.members
        /\ q.lifecycle = lifecycle[r][q.client]
    BY <1>2 DEF Ended, next, room
  <2>3. ~SfuJoinOk(p) /\ q.client = room.pending_join
    BY <1>1, <2>2
  <2>4. q \in Answer("admit", r, room.pending_join)
    BY <2>1, <2>2, <2>3, SameRequest
  <2> QED
    BY <1>2, <2>3, <2>4
<1> QED
  BY <1>1, <1>3 DEF Accounts, JoinedIn

\* A confirmed leave does end memberships whose admission is open.
LEMMA SfuLeaveAccounts ==
  ASSUME Sound, Sound', NEW p \in wire, p.room \notin Failable, DutyOK(p.room),
         SfuLeaveOk(p) \/ SfuLeaveErr(p)
  PROVE  Accounts(p.room)
<1> DEFINE r == p.room
           room == rooms[r]
           next == rooms'[r]
<1>1. /\ next.mode # "Upgrading"
      /\ next.members = IF SfuLeaveOk(p) THEN room.members \ {p.client} ELSE room.members
  <2>1. /\ next.members = IF SfuLeaveOk(p) THEN room.members \ {p.client} ELSE room.members
        /\ next = AbsentRoom \/ next.mode = "Sfu"
    BY SfuLeaveRoom
  <2>2. AbsentRoom.mode = "Absent"
    BY DEF AbsentRoom
  <2> HIDE DEF next, room
  <2> QED
    BY <2>1, <2>2
<1>2. /\ r \in Rooms /\ TypeOK /\ lifecycle' = lifecycle /\ open' \subseteq open
      /\ SfuLeaveOk(p) => overtaken' = overtaken \cup (open \cap Answer("admit", r, p.client))
  BY AnsweredRoom DEF Sound, SfuLeaveOk, SfuLeaveErr
<1>3. LeftOnly(r)
  <2> SUFFICES ASSUME NEW q \in open', q.room = r, q.op = "admit", Ended(q)', ~Ended(q)
               PROVE  q \in overtaken'
    BY <1>2 DEF LeftOnly
  <2> HIDE DEF next, room
  <2>1. q \in open /\ q \in Request
    BY <1>2 DEF TypeOK
  <2>2. /\ q.client \notin next.members /\ q.client \in room.members
        /\ q.lifecycle = lifecycle[r][q.client]
    BY <1>2 DEF Ended, next, room
  <2>3. SfuLeaveOk(p) /\ q.client = p.client
    BY <1>1, <2>2
  <2>4. q \in Answer("admit", r, p.client)
    BY <2>1, <2>2, <2>3, SameRequest
  <2> QED
    BY <1>2, <2>1, <2>3, <2>4
<1> QED
  BY <1>1, <1>3 DEF Accounts, JoinedIn

LEMMA ResultAccounts ==
  ASSUME Sound, Sound', NEW p \in wire, p.room \notin Failable, DutyOK(p.room),
         JoinedIn(rooms[p.room]), Result(p)
  PROVE  Accounts(p.room)
<1> DEFINE r == p.room
           room == rooms[r]
           next == rooms'[r]
<1>1. CASE UpgradeJoinLast(p)
  <2>1. next.mode = "Sfu" /\ next.members = room.members
    BY <1>1, JoinLastRoom
  <2>2. lifecycle' = lifecycle /\ open' \subseteq open
    BY <1>1 DEF UpgradeJoinLast
  <2>3. LeftOnly(r)
    BY <2>1, <2>2, SameAccounts
  <2> QED
    BY <2>1, <2>3 DEF Accounts, JoinedIn
<1>2. CASE SettleOnly(p)
  <2>1. rooms' = rooms /\ lifecycle' = lifecycle /\ open' = open
    BY <1>2 DEF SettleOnly
  <2>2. LeftOnly(r)
    BY <2>1, SameAccounts
  <2> QED
    BY <2>1, <2>2 DEF Accounts, JoinedIn
<1> QED
  BY <1>1, <1>2, JoinMoreAccounts, JoinErrAccounts, SfuJoinAccounts, SfuLeaveAccounts DEF Result

LEMMA SweepAccounts ==
  ASSUME Sound, Sound', NEW r \in Rooms \ Failable, DutyOK(r), SweepRoom(r)
  PROVE  Accounts(r)
<1>0. TypeOK
  BY DEF Sound
<1>1. CASE SweepDowngrade(r) /\ is_downgrade_eligible(rooms[r])
  <2>1. rooms'[r].members = rooms[r].members /\ rooms'[r].mode # "Upgrading"
    BY <1>1, DowngradedRoom DEF Hosted
  <2>2. lifecycle' = lifecycle /\ open' = open
    BY DEF SweepRoom
  <2>3. LeftOnly(r)
    BY <2>1, <2>2, SameAccounts
  <2> QED
    BY <2>1, <2>3 DEF Accounts, JoinedIn
<1> QED
  BY <1>0, <1>1, SweepSteps, OrdinaryAccounts

\* The loss of the worker answers the admission it takes along.
LEMMA ExpiryAccounts ==
  ASSUME Sound, Sound', ReplayOK, NEW w \in Workers, expire_worker(w),
         NEW r \in Rooms \ Failable, DutyOK(r), JoinedIn(rooms[r])
  PROVE  Accounts(r)
<1> DEFINE room == rooms[r]
           next == rooms'[r]
           client == IF room.mode = "Upgrading" THEN room.upgrade.joining ELSE room.pending_join
           answer == IF room.mode = "Upgrading" THEN AbortAnswer(r) ELSE ExpiredAnswer(r)
<1>0. TypeOK /\ TypeOK' /\ r \in Rooms /\ room \in Room /\ MembersOK(room)
  BY DEF Sound, TypeOK, AllMembersOK
<1>1. CASE Still(r)
  BY <1>0, <1>1, StillAccounts
<1>2. CASE /\ ~Hosted(next) /\ next.members = room.members \ {client}
           /\ lifecycle' = lifecycle /\ open' \subseteq open /\ answer \cap open' = {}
  <2>1. LeftOnly(r)
    <3> SUFFICES ASSUME NEW q \in open', q.room = r, q.op = "admit", Ended(q)', ~Ended(q)
                 PROVE  FALSE
      BY <1>2 DEF LeftOnly
    <3>1. q \in open /\ q \in Request /\ q.client \in Clients
      BY <1>0, <1>2 DEF TypeOK, Request
    <3>2. q.client = client /\ q.lifecycle = lifecycle[r][q.client]
      BY <1>2 DEF Ended
    <3>3. q \in Answer("admit", r, client)
      BY <3>1, <3>2, SameRequest
    <3>4. CASE room.mode = "Upgrading"
      BY <1>0, <1>2, <3>3, <3>4, AbortAnswers
    <3>5. CASE room.mode # "Upgrading"
      <4>1. room.pending_join # None
        BY <3>1, <3>2, <3>5, IdsAssumption DEF None
      <4> QED
        BY <1>2, <3>3, <3>5, <4>1 DEF ExpiredAnswer
    <3> QED
      BY <3>4, <3>5
  <2> QED
    BY <1>2, <2>1 DEF Accounts, JoinedIn, Hosted
<1> QED
  BY <1>1, <1>2, ExpiredRoom

\* A step that concerns one room, which accounts for its own.
LEMMA OnlyAccounts ==
  ASSUME Sound, Sound', NEW r \in Rooms, Only(r), r \notin Failable => Accounts(r),
         NEW q \in Rooms \ Failable
  PROVE  Accounts(q)
<1>1. TypeOK /\ TypeOK' /\ (q # r => Still(q))
  BY OnlyStill DEF Sound
<1> QED
  BY <1>1, StillAccounts

\* What a step that is not the shutdown ends.
LEMMA AccountsStep ==
  ASSUME Sound, Sound', DutiesOK, AccountedOK, Next \/ UNCHANGED vars, ~clear,
         NEW q \in Rooms \ Failable
  PROVE  Accounts(q)
<1>0. /\ TypeOK /\ TypeOK' /\ WireOK /\ ReplayOK
      /\ \A r \in Rooms \ Failable : DutyOK(r) /\ OnBooks(r) /\ JoinedIn(rooms[r])
  BY DEF DutiesOK, DutyOK, AccountedOK, Sound
<1>1. ASSUME NEW r \in Rooms, NEW c \in Clients,
             \/ Register(r, c) \/ Deregister(r, c) \/ SendSfu(r, c) \/ SendQueued(r, c)
             \/ RemoveNow(r, c) \/ RemoveSfu(r, c)
      PROVE  Accounts(q)
  <2>1. Only(r) /\ OrdinaryStep(r)
    BY <1>0, <1>1, ClientOnly, ClientSteps
  <2> QED
    BY <2>1, OrdinaryAccounts, OnlyAccounts
<1>2. ASSUME NEW r \in Rooms, NEW c \in Clients,
             AdmitFirst(r, c) \/ AdmitP2p(r, c) \/ AdmitUpgrade(r, c) \/ AdmitSfu(r, c)
      PROVE  Accounts(q)
  <2>1. Only(r)
    BY <1>0, <1>2, AdmitOnly
  <2> QED
    BY <1>2, <2>1, AdmitAccounts, OnlyAccounts
<1>3. ASSUME NEW p \in wire, Result(p) PROVE Accounts(q)
  <2>1. Only(p.room) /\ p.room \in Rooms
    BY <1>0, <1>3, ResultOnly DEF TypeOK, Command
  <2> QED
    BY <1>0, <1>3, <2>1, ResultAccounts, OnlyAccounts
<1>4. ASSUME NEW s, SyncOk(s) \/ SyncErr(s) PROVE Accounts(q)
  BY <1>0, <1>4, StillAccounts, SyncStill
<1>5. CASE WorkerStream
  <2>1. ASSUME NEW w \in Workers, NEW k, NEW capacity, register_worker(w, k, capacity)
        PROVE  Still(q)
    BY <1>0, <2>1, RegisterStill
  <2>2. ASSUME NEW w \in Workers, NEW k, WorkerDisconnected(w, k) PROVE Still(q)
    BY <1>0, <2>2, DisconnectStill
  <2>3. ASSUME NEW w \in Workers, NEW x, NEW y, WorkerHealth(w, x, y) \/ WorkerFailure(w, x)
        PROVE  Still(q)
    BY <1>0, <2>3, QuietTable
  <2> QED
    BY <1>0, <1>5, <2>1, <2>2, <2>3, StillAccounts DEF WorkerStream
<1>6. CASE Tick \/ StartSweep \/ UNCHANGED vars
  BY <1>0, <1>6, StillAccounts, QuietTable
<1>7. ASSUME NEW w \in due, expire_worker(w) PROVE Accounts(q)
  <2>1. w \in Workers
    BY <1>0 DEF TypeOK
  <2> QED
    BY <1>0, <1>7, <2>1, ExpiryAccounts
<1>8. ASSUME NEW r \in unswept, SweepRoom(r) PROVE Accounts(q)
  <2>1. r \in Rooms /\ Only(r)
    BY <1>0, <1>8, SweepOnly DEF TypeOK
  <2> QED
    BY <1>0, <1>8, <2>1, SweepAccounts, OnlyAccounts
<1> QED
  BY <1>1, <1>2, <1>3, <1>4, <1>5, <1>6, <1>7, <1>8
     DEF Next, Operation, Browser, WebServer, WorkerAnswer, HandleTimeout

\* The history grows until the shutdown.
LEMMA OvertakenKept ==
  ASSUME Next \/ UNCHANGED vars, ~clear
  PROVE  overtaken \subseteq overtaken'
<1>1. ASSUME NEW r, NEW c,
             \/ Register(r, c) \/ Deregister(r, c) \/ SendSfu(r, c) \/ SendQueued(r, c)
             \/ AdmitFirst(r, c) \/ AdmitP2p(r, c) \/ AdmitUpgrade(r, c) \/ AdmitSfu(r, c)
             \/ RemoveNow(r, c) \/ RemoveSfu(r, c)
      PROVE  overtaken' = overtaken
  BY <1>1 DEF Register, Deregister, SendSfu, SendQueued, AdmitFirst, AdmitP2p, AdmitUpgrade,
              AdmitSfu, RemoveNow, RemoveSfu
<1>2. ASSUME NEW p, Result(p) PROVE overtaken \subseteq overtaken'
  BY <1>2 DEF Result, UpgradeJoinMore, UpgradeJoinLast, UpgradeJoinErr, SfuJoinOk, SfuJoinErr,
              SfuLeaveOk, SfuLeaveErr, SettleOnly
<1>3. ASSUME NEW s, SyncOk(s) \/ SyncErr(s) PROVE overtaken' = overtaken
  BY <1>3 DEF SyncOk, SyncErr
<1>4. ASSUME NEW w, NEW k, NEW x, NEW y,
             \/ register_worker(w, k, x) \/ WorkerDisconnected(w, k)
             \/ WorkerHealth(w, x, y) \/ WorkerFailure(w, x)
      PROVE  overtaken' = overtaken
  BY <1>4 DEF register_worker, WorkerDisconnected, WorkerHealth, WorkerFailure
<1>5. ASSUME NEW w, NEW r, expire_worker(w) \/ SweepRoom(r) PROVE overtaken' = overtaken
  BY <1>5 DEF expire_worker, SweepRoom
<1>6. CASE Tick \/ StartSweep \/ UNCHANGED vars
  BY <1>6 DEF Tick, StartSweep, vars
<1> QED
  BY <1>1, <1>2, <1>3, <1>4, <1>5, <1>6
     DEF Next, Operation, Browser, WebServer, WorkerAnswer, WorkerStream, HandleTimeout

\* Nothing is lost but what a leave overtook.
LEMMA LostToALeave ==
  ASSUME NEW r, Accounted(r), Forsaken(r)
  PROVE  Outlived(r)
<1>1. PICK q \in open : q.room = r /\ q.op = "admit" /\ Ended(q) /\ ~Awaited(q)
  BY DEF Forsaken, Lost
<1> QED
  BY <1>1 DEF Accounted, Outlived

LEMMA AccountedInductive ==
  /\ Init => AccountedOK
  /\ Sound /\ Sound' /\ LegsOK /\ DutiesOK /\ LegDutiesOK /\ AccountedOK /\ [Next]_vars
       => AccountedOK'
<1>1. Init => AccountedOK
  BY DEF Init, AccountedOK, Accounted, JoinedIn, AbsentRoom
<1>2. clear => AccountedOK'
  BY DEF clear, AccountedOK, Accounted, JoinedIn, AbsentRoom
<1>3. ASSUME Sound, Sound', LegsOK, DutiesOK, LegDutiesOK, AccountedOK, [Next]_vars, ~clear,
             NEW r \in Rooms \ Failable
      PROVE  JoinedIn(rooms[r])' /\ Accounted(r)'
  <2>1. Accounts(r) /\ Outlasts(r) /\ overtaken \subseteq overtaken'
    BY <1>3, AccountsStep, LegsStep, OvertakenKept
  <2>2. JoinedIn(rooms[r]) /\ Accounted(r) /\ AdmitAwaited(r)
    BY <1>3 DEF AccountedOK, LegDutiesOK, LegDuty
  <2>3. Outlived(r) => Outlived(r)'
    <3> SUFFICES ASSUME NEW q \in open \cap overtaken, q.room = r, Ended(q), ~Awaited(q)
                 PROVE  Outlived(r)'
      BY DEF Outlived
    <3>1. q \in Request /\ q.op = "admit"
      BY <1>3 DEF Sound, TypeOK
    <3>2. Lost(q)'
      BY <2>1, <3>1 DEF Lost, Outlasts
    <3> QED
      BY <2>1, <3>2 DEF Lost, Outlived
  <2>4. ASSUME NEW q \in open', q.room = r, q.op = "admit", Ended(q)', ~Outlived(r)'
        PROVE  q \in overtaken'
    <3>1. ~Outlived(r) /\ ~Forsaken(r)
      BY <2>2, <2>3, <2>4, LostToALeave
    <3>2. \/ q \in overtaken'
          \/ q \in open /\ (Ended(q) \/ ~Awaited(q))
      BY <2>1, <2>4 DEF Accounts, LeftOnly
    <3>3. q \in open => Awaited(q)
      BY <2>2, <2>4, <3>1 DEF AdmitAwaited
    <3>4. q \in open /\ Ended(q) => q \in overtaken
      BY <2>2, <2>4, <3>1 DEF Accounted
    <3> QED
      BY <2>1, <3>2, <3>3, <3>4
  <2> QED
    BY <2>1, <2>2, <2>4 DEF Accounts, Accounted
<1>4. ASSUME Sound, Sound', LegsOK, DutiesOK, LegDutiesOK, AccountedOK, [Next]_vars
      PROVE  AccountedOK'
  BY <1>2, <1>3, <1>4 DEF AccountedOK
<1> QED
  BY <1>1, <1>4

\* An admission is lost to a leave that overtook the join of its member, and
\* to nothing else.
THEOREM AccountsSafe == Spec => []AccountedOK
<1>1. TypeOK /\ AllMembersOK /\ AllRolesOK /\ RoomsOK /\ WireOK => Sound
  BY DEF Sound
<1> QED
  BY <1>1, TypeCorrect, MembersSafe, RolesSafe, RoomsSafe, WireSafe, LegsSafe, DutiesSafe,
     LegDutiesSafe, AccountedInductive, PTL DEF Spec

LEMMA Unforsaken ==
  ASSUME AccountedOK
  PROVE  \A r \in Rooms \ Failable : ~Outlived(r) => ~Forsaken(r)
BY LostToALeave DEF AccountedOK

\* The barrier counts the answers and compares none with the client it waits
\* for; every member of an SFU room has nonetheless joined its worker.
THEOREM MembersJoined == Spec => []SfuMembersJoined
<1>1. LegDutiesOK /\ AccountedOK => SfuMembersJoined
  <2> SUFFICES ASSUME LegDutiesOK, AccountedOK PROVE SfuMembersJoined
    OBVIOUS
  <2> QED
    BY Unforsaken DEF LegDutiesOK, LegDuty, SfuLegs, SfuMembersJoined
<1> QED
  BY <1>1, LegDutiesSafe, AccountsSafe, PTL

\* An open request of the web server has someone who will answer it; only a
\* leave that overtakes the join of its member leaves an admission without.
THEOREM RequestsAnswerable == Spec => []RequestsAwaited
<1>1. TypeOK /\ LegDutiesOK /\ AccountedOK => RequestsAwaited
  <2> SUFFICES ASSUME TypeOK, LegDutiesOK, AccountedOK, NEW q \in open, q.room \notin Failable
               PROVE  /\ q.op = "remove" => rooms[q.room].pending_leave =
                                              [client |-> q.client, requested |-> TRUE]
                      /\ q.op = "admit" /\ ~Outlived(q.room) => Awaited(q)
    BY DEF RequestsAwaited
  <2>1. q.room \in Rooms \ Failable /\ LegDuty(q.room)
    BY DEF TypeOK, Request, LegDutiesOK
  <2>2. ~Outlived(q.room) => ~Forsaken(q.room)
    BY <2>1, Unforsaken
  <2> QED
    BY <2>1, <2>2 DEF LegDuty, AdmitAwaited, RemoveExact
<1> QED
  BY <1>1, TypeCorrect, LegDutiesSafe, AccountsSafe, PTL

-----------------------------------------------------------------------------
(***************************************************************************)
(* What a worker is reckoned to carry: LoadNotOvercounted.                 *)
(*                                                                         *)
(* A worker's assigned_clients is compared with the places of its rooms,   *)
(* Held(r) for each: three for an upgrade in progress, and then the        *)
(* members whose join is answered.  Only where an admission was outlived   *)
(* can a join be answered for a member that is gone.                       *)
(***************************************************************************)

\* The places of a room.
LEMMA PlacesOf ==
  ASSUME NEW r, NEW n \in Nat
  PROVE  IsFiniteSet({r} \X (1..n)) /\ Cardinality({r} \X (1..n)) = n
<1>1. IsFiniteSet(1..n) /\ Cardinality(1..n) = n
  BY FS_Interval
<1>2. IsFiniteSet({r}) /\ Cardinality({r}) = 1
  BY FS_Singleton
<1>3. /\ IsFiniteSet({r} \X (1..n))
      /\ Cardinality({r} \X (1..n)) = Cardinality({r}) * Cardinality(1..n)
  BY <1>1, <1>2, FS_Product
<1> QED
  BY <1>1, <1>2, <1>3

\* The places of a set of rooms are finitely many.
LEMMA PlacesFinite ==
  ASSUME NEW S \in SUBSET Rooms, NEW f \in [Rooms -> Nat]
  PROVE  IsFiniteSet(Places(S, f)) /\ Cardinality(Places(S, f)) \in Nat
<1> DEFINE of(r) == {r} \X (1..f[r])
           T == {of(r) : r \in S}
           h == [r \in S |-> of(r)]
<1>1. IsFiniteSet(S)
  BY FS_Subset, IdsAssumption
<1>2. h \in Surjection(S, T)
  <2> HIDE DEF of
  <2> QED
    BY DEF Surjection
<1>3. IsFiniteSet(T)
  <2> HIDE DEF h, T
  <2> QED
    BY <1>1, <1>2, FS_Surjection
<1>4. \A p \in T : IsFiniteSet(p)
  <2>1. \A r \in S : IsFiniteSet(of(r))
    BY PlacesOf
  <2> HIDE DEF of
  <2> QED
    BY <2>1
<1>5. IsFiniteSet(UNION T)
  <2> HIDE DEF T
  <2> QED
    BY <1>3, <1>4, FS_UNION
<1>6. Places(S, f) = UNION T
  BY DEF Places
<1> HIDE DEF T
<1> QED
  BY <1>5, <1>6, FS_CardinalityType

\* A room's own places come on top of those of the other rooms.
LEMMA PlacesApart ==
  ASSUME NEW S \in SUBSET Rooms, NEW f \in [Rooms -> Nat], NEW r \in Rooms
  PROVE  Cardinality(Places(S, f)) =
           Cardinality(Places(S \ {r}, f)) + (IF r \in S THEN f[r] ELSE 0)
<1>1. CASE r \notin S
  <2>1. S \ {r} = S
    BY <1>1
  <2> QED
    BY <1>1, <2>1, PlacesFinite
<1>2. CASE r \in S
  <2> DEFINE own == {r} \X (1..f[r])
             rest == Places(S \ {r}, f)
  <2>1. Places(S, f) = rest \cup own
    BY <1>2 DEF Places
  <2>2. rest \cap own = {}
    BY DEF Places
  <2>3. IsFiniteSet(own) /\ Cardinality(own) = f[r]
    BY PlacesOf
  <2>4. IsFiniteSet(rest) /\ Cardinality(rest) \in Nat
    <3>1. S \ {r} \in SUBSET Rooms
      OBVIOUS
    <3> QED
      BY <3>1, PlacesFinite
  <2> HIDE DEF own, rest
  <2>5. Cardinality(Places(S, f)) = Cardinality(rest) + Cardinality(own) - Cardinality({})
    BY <2>1, <2>2, <2>3, <2>4, FS_Union
  <2> QED
    BY <1>2, <2>3, <2>4, <2>5, FS_EmptySet DEF rest
<1> QED
  BY <1>1, <1>2

\* Rooms that bring no fewer clients take no fewer places.
LEMMA PlacesGrow ==
  ASSUME NEW S \in SUBSET Rooms, NEW f \in [Rooms -> Nat], NEW g \in [Rooms -> Nat],
         \A r \in S : f[r] <= g[r]
  PROVE  Cardinality(Places(S, f)) <= Cardinality(Places(S, g))
<1>1. Places(S, f) \subseteq Places(S, g)
  BY DEF Places
<1> QED
  BY <1>1, PlacesFinite, FS_Subset

\* A barrier is opened by the third member, and nobody leaves while it is open.
Full(room) == room.mode = "Upgrading" => Cardinality(room.members) >= UpgradeClients

AllFull == \A r \in Rooms : Full(rooms[r])

LEMMA AddMemberFields ==
  ASSUME NEW room \in Room, NEW c \in Clients
  PROVE  /\ AddMember(room, c).mode = room.mode
         /\ AddMember(room, c).members = room.members \cup {c}
BY DEF AddMember, Room

LEMMA FullStep ==
  ASSUME NEW room \in Room, RoomOK(room), MembersOK(room), Full(room), NEW next,
         SoundStep(room, next) \/ Failing(room, next)
  PROVE  Full(next)
<1>1. CASE UpgradeStarted(room, next)
  <2>1. PICK c \in Clients \ room.members, w \in Workers :
          next = [AddMember(room, c) EXCEPT
                    !.mode = "Upgrading",
                    !.assignment_epoch = room.assignment_epoch + 1,
                    !.assigned = w,
                    !.upgrade = [joining |-> c, todo |-> room.members \cup {c},
                                 joined |-> <<>>]]
    BY <1>1 DEF UpgradeStarted
  <2>2. next.members = room.members \cup {c}
    <3>1. AddMember(room, c) \in Room /\ AddMember(room, c).members = room.members \cup {c}
      BY AddMemberType, AddMemberFields
    <3> QED
      BY <2>1, <3>1 DEF Room
  <2>3. IsFiniteSet(room.members) /\ Cardinality(room.members) >= 2
    BY <1>1, FS_Subset, IdsAssumption DEF UpgradeStarted, Room, MAX_P2P_MEMBERS
  <2>4. Cardinality(next.members) = Cardinality(room.members) + 1
    BY <2>2, <2>3, FS_AddElement
  <2> QED
    BY <2>3, <2>4, FS_CardinalityType DEF Full, UpgradeClients
<1>2. CASE next.mode = room.mode /\ next.members = room.members
  BY <1>2 DEF Full
<1>3. CASE next.mode # "Upgrading"
  BY <1>3 DEF Full
<1>4. ASSUME NEW S, ~Hosted(room)
      PROVE  ~Hosted(ReapIfEmpty(promote_survivor(DropMembers(room, S))))
  BY <1>4, DropStaysBare
<1>5. CASE Founded(room, next) \/ JoinedP2p(room, next) \/ JoinedSfu(room, next)
  <2>1. CASE Founded(room, next)
    <3>1. \A c \in Clients : AddMember(AbsentRoom, c) \in Room
      BY ConstantTypes, AddMemberType
    <3> QED
      BY <1>3, <2>1, <3>1 DEF Founded, Room
  <2>2. CASE JoinedP2p(room, next)
    BY <1>3, <2>2, AddMemberFields DEF JoinedP2p
  <2>3. CASE JoinedSfu(room, next)
    <3>1. PICK c \in Clients :
            next = [AddMember(room, c) EXCEPT !.pending_join = c, !.downgrade_deadline = None]
      BY <2>3 DEF JoinedSfu
    <3>2. AddMember(room, c) \in Room /\ AddMember(room, c).mode = "Sfu"
      BY <2>3, AddMemberType, AddMemberFields DEF JoinedSfu
    <3> QED
      BY <1>3, <3>1, <3>2 DEF Room
  <2> QED
    BY <1>5, <2>1, <2>2, <2>3
<1>6. CASE \/ next = room \/ Registered(room, next) \/ LeaveAsked(room, next)
           \/ Away(room, next) \/ GraceAgain(room, next) \/ FrameQueued(room, next)
           \/ BarrierStepped(room, next) \/ JoinEntered(room, next)
           \/ LeaveRefused(room, next) \/ Aged(room, next) \/ DwellStopped(room, next)
  <2>1. next.mode = room.mode /\ next.members = room.members
    BY <1>6 DEF Registered, LeaveAsked, Away, GraceAgain, FrameQueued, BarrierStepped,
                JoinEntered, LeaveRefused, Aged, DwellStopped, Room
  <2> QED
    BY <1>2, <2>1
<1>7. CASE DroppedNow(room, next) \/ LeftEmpty(room, next)
  <2>1. ~Hosted(room)
    BY <1>7 DEF DroppedNow, LeftEmpty, Hosted
  <2>2. ~Hosted(ReapIfEmpty(room))
    BY <2>1 DEF ReapIfEmpty, Hosted, AbsentRoom
  <2>3. ~Hosted(next)
    BY <1>4, <1>7, <2>1, <2>2 DEF DroppedNow, LeftEmpty
  <2> QED
    BY <1>3, <2>3 DEF Hosted
<1>8. CASE JoinRefused(room, next) \/ MemberLeft(room, next)
  <2>1. room.mode \notin {"Absent", "P2p", "Upgrading"}
    BY <1>8 DEF JoinRefused, MemberLeft, MembersOK, AwaitingOK
  <2>2. \A S : DropMembers(room, S) \in Room /\ DropMembers(room, S).mode = room.mode
    BY DropMembersType DEF DropMembers, Room
  <2>3. CASE JoinRefused(room, next)
    BY <1>3, <2>1, <2>2, <2>3 DEF JoinRefused, Room
  <2>4. CASE MemberLeft(room, next)
    <3>1. PICK c : next = ReapIfEmpty(arm_downgrade(
                            [DropMembers(room, {c}) EXCEPT !.pending_leave = NoLeave]))
      BY <2>4 DEF MemberLeft
    <3> DEFINE rest == [DropMembers(room, {c}) EXCEPT !.pending_leave = NoLeave]
    <3>2. rest \in Room /\ rest.mode = room.mode
      BY <2>2, ConstantTypes DEF Room
    <3> HIDE DEF rest
    <3>3. arm_downgrade(rest).mode = room.mode
      BY <3>2 DEF arm_downgrade, Room
    <3>4. next.mode # "Upgrading"
      BY <2>1, <3>1, <3>3 DEF ReapIfEmpty, AbsentRoom, rest
    <3> QED
      BY <1>3, <3>4
  <2> QED
    BY <1>8, <2>3, <2>4
<1>9. CASE Committed(room, next) \/ Downgraded(room, next) \/ Failing(room, next)
  BY <1>3, <1>9 DEF Committed, commit_upgrade, Downgraded, commit_downgrade, Failing, Room
<1>11. CASE next = AbsentRoom
  BY <1>3, <1>11 DEF AbsentRoom
<1>10. CASE GivenUp(room, next) \/ WorkerLost(room, next)
  <2>1. \A S : DropMembers(room, S) \in Room
    BY DropMembersType
  <2> QED
    BY <1>3, <1>10, <2>1 DEF GivenUp, Aborted, WorkerLost, Expired, Room
<1> QED
  BY <1>1, <1>5, <1>6, <1>7, <1>8, <1>9, <1>10, <1>11
     DEF SoundStep, AdmitStep, OtherStep

LEMMA FullInductive ==
  /\ Init => AllFull
  /\ Sound /\ AllFull /\ [Next]_vars => AllFull'
<1>1. Init => AllFull
  BY DEF Init, AllFull, Full, AbsentRoom
<1>2. ASSUME Sound, AllFull, [Next]_vars PROVE AllFull'
  <2>1. RoomSteps
    BY <1>2, RoomStepsAlways DEF Sound
  <2> SUFFICES ASSUME NEW r \in Rooms PROVE Full(rooms'[r])
    BY DEF AllFull
  <2>2. rooms[r] \in Room /\ RoomOK(rooms[r]) /\ MembersOK(rooms[r]) /\ Full(rooms[r])
    BY <1>2 DEF Sound, TypeOK, RoomsOK, AllMembersOK, AllFull
  <2>3. SoundStep(rooms[r], rooms'[r]) \/ Failing(rooms[r], rooms'[r])
    BY <2>1 DEF RoomSteps, RoomStep
  <2> QED
    BY <2>2, <2>3, FullStep
<1> QED
  BY <1>1, <1>2

\* The clients room r has brought to its worker so far: its members, but for
\* the one whose join is outstanding.
Held(r) == IF rooms[r].mode = "Upgrading" THEN UpgradeClients
           ELSE Cardinality(rooms[r].members \ {rooms[r].pending_join})

HeldBy(w) == Cardinality(Places(workers[w].rooms, [r \in Rooms |-> Held(r)]))

NoneForsaken == Failable = {} /\ \A r \in Rooms : ~Forsaken(r)

LoadsHeld == \A w \in Workers : workers[w].clients <= HeldBy(w)

LoadOK == AllFull /\ (NoneForsaken => LoadsHeld)

Part(r, w) == IF r \in workers[w].rooms THEN Held(r) ELSE 0

\* What a step adds to a worker's load, room r has brought.
Loaded(r) ==
  \A w \in Workers :
    \/ workers'[w].clients + Part(r, w) <= workers[w].clients + Part(r, w)'
    \/ workers'[w].clients <= Part(r, w)'

LEMMA MembersFinite ==
  ASSUME NEW room \in Room, NEW S
  PROVE  /\ IsFiniteSet(room.members) /\ Cardinality(room.members) \in Nat
         /\ IsFiniteSet(room.members \ S) /\ Cardinality(room.members \ S) \in Nat
         /\ Cardinality(room.members \ S) <= Cardinality(room.members)
<1>1. IsFiniteSet(room.members) /\ IsFiniteSet(room.members \ S)
      /\ Cardinality(room.members \ S) <= Cardinality(room.members)
  BY FS_Subset, IdsAssumption DEF Room
<1> QED
  BY <1>1, FS_CardinalityType

LEMMA HeldType ==
  ASSUME TypeOK
  PROVE  /\ [r \in Rooms |-> Held(r)] \in [Rooms -> Nat]
         /\ [r \in Rooms |-> Load(r)] \in [Rooms -> Nat]
         /\ \A r \in Rooms : Held(r) \in Nat /\ Held(r) <= Load(r)
         /\ \A w \in Workers : HeldBy(w) \in Nat /\ workers[w].clients \in Nat
                               /\ workers[w].rooms \in SUBSET Rooms
<1>1. ASSUME NEW r \in Rooms
      PROVE  Held(r) \in Nat /\ Load(r) \in Nat /\ Held(r) <= Load(r)
  <2>1. rooms[r] \in Room
    BY DEF TypeOK
  <2>2. /\ Cardinality(rooms[r].members) \in Nat
        /\ Cardinality(rooms[r].members \ {rooms[r].pending_join}) \in Nat
        /\ Cardinality(rooms[r].members \ {rooms[r].pending_join}) <= Cardinality(rooms[r].members)
    BY <2>1, MembersFinite
  <2> QED
    BY <2>2 DEF Held, Load, UpgradeClients
<1>2. ASSUME NEW w \in Workers
      PROVE  workers[w].clients \in Nat /\ workers[w].rooms \in SUBSET Rooms
  BY DEF TypeOK, Worker
<1>3. [r \in Rooms |-> Held(r)] \in [Rooms -> Nat] /\ [r \in Rooms |-> Load(r)] \in [Rooms -> Nat]
  BY <1>1
<1> QED
  BY <1>1, <1>2, <1>3, PlacesFinite DEF HeldBy

LEMMA HeldTypeNext ==
  ASSUME TypeOK'
  PROVE  /\ [r \in Rooms |-> Held(r)'] \in [Rooms -> Nat]
         /\ \A r \in Rooms : Held(r)' \in Nat
         /\ \A w \in Workers : HeldBy(w)' \in Nat /\ workers'[w].clients \in Nat
                               /\ workers'[w].rooms \in SUBSET Rooms
<1>1. ASSUME NEW r \in Rooms
      PROVE  Held(r)' \in Nat
  BY MembersFinite DEF Held, UpgradeClients, TypeOK
<1>2. ASSUME NEW w \in Workers
      PROVE  workers'[w].clients \in Nat /\ workers'[w].rooms \in SUBSET Rooms
  BY DEF TypeOK, Worker
<1>3. [r \in Rooms |-> Held(r)'] \in [Rooms -> Nat]
  BY <1>1
<1> QED
  BY <1>1, <1>2, <1>3, PlacesFinite DEF HeldBy

LEMMA OneRoomLoad ==
  ASSUME TypeOK, TypeOK', NEW r \in Rooms, RoomsElse(r), BooksElse(r), Loaded(r), LoadsHeld
  PROVE  LoadsHeld'
<1> SUFFICES ASSUME NEW w \in Workers PROVE workers'[w].clients <= HeldBy(w)'
  BY DEF LoadsHeld
<1> DEFINE f == [q \in Rooms |-> Held(q)]
           g == [q \in Rooms |-> Held(q)']
           S == workers[w].rooms
           T == workers'[w].rooms
           n == workers[w].clients
           m == workers'[w].clients
           rest == Cardinality(Places(S \ {r}, f))
           rest2 == Cardinality(Places(T \ {r}, g))
<1>1. /\ f \in [Rooms -> Nat] /\ g \in [Rooms -> Nat] /\ S \in SUBSET Rooms /\ T \in SUBSET Rooms
      /\ n \in Nat /\ m \in Nat /\ Part(r, w) \in Nat /\ Part(r, w)' \in Nat
      /\ S \ {r} \in SUBSET Rooms
  BY HeldType, HeldTypeNext DEF Part
<1>2. T \ {r} = S \ {r} /\ \A q \in S \ {r} : f[q] = g[q]
  BY <1>1 DEF RoomsElse, BooksElse, Held
<1>3. HeldBy(w) = rest + Part(r, w)
  <2>1. HeldBy(w) = Cardinality(Places(S, f)) /\ (Part(r, w) = IF r \in S THEN f[r] ELSE 0)
    BY DEF HeldBy, Part
  <2>2. Cardinality(Places(S, f)) = rest + IF r \in S THEN f[r] ELSE 0
    <3> HIDE DEF S, f
    <3> QED
      BY <1>1, PlacesApart
  <2> HIDE DEF S, f, rest
  <2> QED
    BY <2>1, <2>2
<1>4. HeldBy(w)' = rest2 + Part(r, w)'
  <2>1. HeldBy(w)' = Cardinality(Places(T, g)) /\ (Part(r, w)' = IF r \in T THEN g[r] ELSE 0)
    BY DEF HeldBy, Part
  <2>2. Cardinality(Places(T, g)) = rest2 + IF r \in T THEN g[r] ELSE 0
    <3> HIDE DEF T, g
    <3> QED
      BY <1>1, PlacesApart
  <2> HIDE DEF T, g, rest2
  <2> QED
    BY <2>1, <2>2
<1>5. rest <= rest2 /\ rest \in Nat /\ rest2 \in Nat
  <2> HIDE DEF S, T, f, g
  <2>1. rest <= rest2
    BY <1>1, <1>2, PlacesGrow
  <2> QED
    BY <1>1, <1>2, <2>1, PlacesFinite
<1>6. n <= rest + Part(r, w)
  BY <1>3 DEF LoadsHeld
<1>7. m + Part(r, w) <= n + Part(r, w)' \/ m <= Part(r, w)'
  BY DEF Loaded
<1> HIDE DEF n, m, rest, rest2
<1>8. m <= rest2 + Part(r, w)'
  BY <1>1, <1>5, <1>6, <1>7
<1> QED
  BY <1>4, <1>8 DEF m

\* The loads stay, and with them what the rooms have brought.
LEMMA SameLoad ==
  ASSUME TypeOK, TypeOK', LoadsHeld, NEW w \in Workers,
         workers'[w].clients <= workers[w].clients, workers'[w].rooms = workers[w].rooms,
         \A r \in workers[w].rooms : Held(r)' = Held(r)
  PROVE  workers'[w].clients <= HeldBy(w)'
<1> DEFINE f == [q \in Rooms |-> Held(q)]
           g == [q \in Rooms |-> Held(q)']
           S == workers[w].rooms
<1>1. /\ f \in [Rooms -> Nat] /\ g \in [Rooms -> Nat] /\ S \in SUBSET Rooms
      /\ \A q \in S : f[q] <= g[q]
      /\ HeldBy(w) \in Nat /\ HeldBy(w)' \in Nat
      /\ workers[w].clients \in Nat /\ workers'[w].clients \in Nat
  BY HeldType, HeldTypeNext
<1>2. HeldBy(w) = Cardinality(Places(S, f)) /\ HeldBy(w)' = Cardinality(Places(S, g))
  BY DEF HeldBy
<1>3. HeldBy(w) <= HeldBy(w)'
  <2> HIDE DEF f, g, S
  <2> QED
    BY <1>1, <1>2, PlacesGrow
<1> QED
  BY <1>1, <1>3 DEF LoadsHeld

\* A step that leaves what the room has brought, and its place, as they are.
LEMMA EvenlyLoaded ==
  ASSUME TypeOK, TypeOK', NEW r \in Rooms,
         \A w \in Workers : /\ workers'[w].clients = workers[w].clients
                            /\ r \in workers'[w].rooms <=> r \in workers[w].rooms
                            /\ r \in workers[w].rooms => Held(r)' = Held(r)
  PROVE  Loaded(r)
<1> SUFFICES ASSUME NEW w \in Workers
             PROVE  workers'[w].clients + Part(r, w) <= workers[w].clients + Part(r, w)'
  BY DEF Loaded
<1>1. Part(r, w)' = Part(r, w) /\ Part(r, w) \in Nat /\ workers[w].clients \in Nat
  BY HeldType DEF Part
<1> QED
  BY <1>1

LEMMA OrdinaryLoaded ==
  ASSUME TypeOK, TypeOK', NEW r \in Rooms, OnBooks(r), OrdinaryStep(r), workers' = workers
  PROVE  Loaded(r)
<1>1. \A w \in Workers : r \in workers[w].rooms => Hosted(rooms[r])
  BY DEF OnBooks
<1>2. Hosted(rooms[r]) => Held(r)' = Held(r)
  BY DEF OrdinaryStep, Still, Alike, BareStep, AsksLeave, Held
<1> QED
  BY <1>1, <1>2, EvenlyLoaded

LEMMA AdmitLoaded ==
  ASSUME Sound, Sound', NEW r \in Rooms, NEW c \in Clients, OnBooks(r),
         AdmitFirst(r, c) \/ AdmitP2p(r, c) \/ AdmitUpgrade(r, c) \/ AdmitSfu(r, c)
  PROVE  Loaded(r)
<1>0. TypeOK /\ TypeOK' /\ AllMembersOK
  BY DEF Sound
<1>1. CASE AdmitFirst(r, c) \/ AdmitP2p(r, c)
  <2>1. workers' = workers /\ \A w \in Workers : r \notin workers[w].rooms
    BY <1>1 DEF AdmitFirst, AdmitP2p, OnBooks, Hosted
  <2> QED
    BY <1>0, <2>1, EvenlyLoaded
<1>2. CASE AdmitUpgrade(r, c)
  <2> SUFFICES ASSUME NEW w \in Workers
               PROVE  workers'[w].clients + Part(r, w) <= workers[w].clients + Part(r, w)'
    BY DEF Loaded
  <2>1. r \notin workers[w].rooms
    BY <1>0, <1>2, UpgradeOpened DEF OnBooks
  <2>2. /\ workers'[w].rooms = IF w = rooms'[r].assigned THEN workers[w].rooms \cup {r}
                                                         ELSE workers[w].rooms
        /\ workers'[w].clients = IF w = rooms'[r].assigned
                                   THEN workers[w].clients + UpgradeClients
                                   ELSE workers[w].clients
    BY <1>0, <1>2, UpgradeOpened
  <2>3. Held(r)' = UpgradeClients
    BY <1>0, <1>2, UpgradeOpened DEF Held
  <2>4. workers[w].clients \in Nat
    BY <1>0, HeldType
  <2> QED
    BY <2>1, <2>2, <2>3, <2>4 DEF Part, UpgradeClients
<1>3. CASE AdmitSfu(r, c)
  <2>1. /\ rooms[r].mode = "Sfu" /\ rooms[r].pending_join = None /\ rooms'[r].mode = "Sfu"
        /\ rooms'[r].members = rooms[r].members \cup {c} /\ rooms'[r].pending_join = c
    BY <1>0, <1>3, SfuEntered
  <2>2. c \notin rooms[r].members /\ workers' = workers /\ rooms[r].members \subseteq Clients
    BY <1>0, <1>3 DEF AdmitSfu, TypeOK, Room
  <2>3. None \notin Clients
    BY IdsAssumption DEF None
  <2>4. rooms'[r].members \ {rooms'[r].pending_join} = rooms[r].members \ {rooms[r].pending_join}
    BY <2>1, <2>2, <2>3
  <2>5. Held(r)' = Held(r)
    BY <2>1, <2>4 DEF Held
  <2> QED
    BY <1>0, <2>2, <2>5, EvenlyLoaded
<1> QED
  BY <1>1, <1>2, <1>3

\* The last join of an upgrade replaces the three it was reckoned with.
LEMMA JoinLastLoaded ==
  ASSUME Sound, Sound', AllFull, NEW p \in wire, p.room \notin Failable, DutyOK(p.room),
         UpgradeJoinLast(p)
  PROVE  Loaded(p.room)
<1> DEFINE r == p.room
<1>0. TypeOK /\ TypeOK' /\ r \in Rooms /\ rooms'[r] \in Room
  BY AnsweredRoom DEF Sound, TypeOK
<1>1. /\ rooms[r].mode = "Upgrading" /\ rooms'[r].mode = "Sfu"
      /\ rooms'[r].members = rooms[r].members /\ rooms'[r].pending_join = None
  BY JoinLastRoom
<1>2. rooms'[r].members \ {None} = rooms'[r].members
  BY <1>0, IdsAssumption DEF Room, None
<1>3. Held(r) <= Held(r)' /\ Held(r) \in Nat /\ Held(r)' \in Nat
  BY <1>0, <1>1, <1>2, HeldType, HeldTypeNext DEF Held, AllFull, Full
<1>4. workers' = workers
  BY DEF UpgradeJoinLast
<1> SUFFICES ASSUME NEW w \in Workers
             PROVE  workers'[w].clients + Part(r, w) <= workers[w].clients + Part(r, w)'
  BY DEF Loaded
<1>5. workers[w].clients \in Nat
  BY <1>0, HeldType
<1> QED
  BY <1>3, <1>4, <1>5 DEF Part

LEMMA JoinErrLoaded ==
  ASSUME Sound, Sound', NEW p \in wire, p.room \notin Failable, DutyOK(p.room),
         UpgradeJoinErr(p)
  PROVE  Loaded(p.room)
<1> DEFINE r == p.room
           home == rooms[r].assigned
<1>0. TypeOK /\ TypeOK' /\ r \in Rooms /\ workers \in [Workers -> Worker]
  BY AnsweredRoom DEF Sound, TypeOK
<1>1. rooms[r].mode = "Upgrading" /\ \A w \in Workers : r \notin workers'[w].rooms
  BY JoinErrRoom
<1> SUFFICES ASSUME NEW w \in Workers
             PROVE  \/ workers'[w].clients + Part(r, w) <= workers[w].clients + Part(r, w)'
                    \/ workers'[w].clients <= Part(r, w)'
  BY DEF Loaded
<1>2. r \in workers[w].rooms => home = w
  BY DEF DutyOK, OnBooks
<1>3. workers'[w].clients = IF w = home THEN SatSub(workers[w].clients, UpgradeClients)
                                        ELSE workers[w].clients
  <2> DEFINE n == SatSub(workers[home].clients, UpgradeClients)
             left == workers[home].rooms \ {r}
  <2>1. workers' = [workers EXCEPT ![home].rooms = left, ![home].clients = n]
    BY DEF UpgradeJoinErr
  <2>2. w = home => n = SatSub(workers[w].clients, UpgradeClients)
    OBVIOUS
  <2> HIDE DEF n, left
  <2> QED
    BY <1>0, <2>1, <2>2 DEF Worker
<1>4. workers[w].clients \in Nat
  BY <1>0, HeldType
<1>5. Part(r, w)' = 0 /\ (Part(r, w) = IF r \in workers[w].rooms THEN 3 ELSE 0)
  BY <1>1 DEF Part, Held, UpgradeClients
<1> QED
  BY <1>2, <1>3, <1>4, <1>5 DEF SatSub, UpgradeClients

\* A newcomer is counted when its join is answered, and not when it is refused.
LEMMA SfuJoinLoaded ==
  ASSUME Sound, Sound', NEW p \in wire, p.room \notin Failable, DutyOK(p.room), LegDuty(p.room),
         SfuJoinOk(p) \/ SfuJoinErr(p), ~Forsaken(p.room), ~Forsaken(p.room)'
  PROVE  Loaded(p.room)
<1> DEFINE r == p.room
           room == rooms[r]
           next == rooms'[r]
           newcomer == room.pending_join
<1>0. /\ TypeOK /\ TypeOK' /\ r \in Rooms /\ room \in Room /\ p \in pending
      /\ workers \in [Workers -> Worker] /\ next \in Room
  BY AnsweredRoom DEF Sound, TypeOK
<1>1. /\ room.mode = "Sfu" /\ next.mode = "Sfu" /\ SameAssignment(room, next)
      /\ next.upgrade = NoUpgrade
      /\ next.members = IF SfuJoinOk(p) THEN room.members ELSE room.members \ {newcomer}
      /\ next.pending_join = None
  BY SfuJoinRoom
<1>2. p.kind = "SfuJoin" /\ newcomer # None /\ newcomer \in Clients /\ lifecycle' = lifecycle
  BY <1>0 DEF SfuJoinOk, SfuJoinErr, Room
<1>3. next.members \ {None} = next.members
  <2> HIDE DEF next
  <2>1. next.members \subseteq Clients
    BY <1>0 DEF Room
  <2> QED
    BY <2>1, IdsAssumption DEF None
<1>4. Held(r) = Cardinality(room.members \ {newcomer}) /\ Held(r)' = Cardinality(next.members)
  BY <1>1, <1>3 DEF Held
<1>5. CASE SfuJoinOk(p)
  <2>1. p = Current("SfuJoin", r, newcomer)
    BY <1>0, <1>2 DEF LegDuty, JoinExact
  <2>2. p.instance = room.assigned /\ p.client = newcomer
    BY <2>1, CurrentFields
  <2>3. newcomer \in room.members
    <3> SUFFICES ASSUME newcomer \notin room.members PROVE FALSE
      OBVIOUS
    <3>1. open' = open
      BY <1>5, <2>2 DEF SfuJoinOk
    <3>2. PICK q : q \in Answer("admit", r, newcomer) /\ q \in open
      BY <1>2 DEF LegDuty, AdmissionOpen, Answer
    <3>3. q.op = "admit" /\ q.room = r /\ q.client = newcomer
      BY <3>2, AnswerFields
    <3>4. ~Awaited(q)'
      BY <1>1, <1>2, <3>3 DEF Awaited, NoUpgrade
    <3>5. Forsaken(r)'
      BY <1>1, <1>5, <3>1, <3>2, <3>3, <3>4 DEF Forsaken, Lost, Ended
    <3> QED
      BY <3>5
  <2>4. Held(r)' = Held(r) + 1 /\ Held(r) \in Nat
    <3>1. IsFiniteSet(room.members) /\ Cardinality(room.members) \in Nat
      BY <1>0, MembersFinite
    <3>2. Cardinality(room.members \ {newcomer}) = Cardinality(room.members) - 1
      BY <2>3, <3>1, FS_RemoveElement
    <3>3. Held(r) \in Nat
      BY <1>0, HeldType
    <3> HIDE DEF r, room, next
    <3> QED
      BY <1>1, <1>4, <1>5, <3>1, <3>2, <3>3
  <2> SUFFICES ASSUME NEW w \in Workers
               PROVE  workers'[w].clients + Part(r, w) <= workers[w].clients + Part(r, w)'
    BY DEF Loaded
  <2>5. /\ workers'[w].clients = IF w = p.instance THEN workers[w].clients + 1
                                                   ELSE workers[w].clients
        /\ workers'[w].rooms = workers[w].rooms
    <3>1. workers' = [workers EXCEPT ![p.instance].clients = @ + 1]
      BY <1>5 DEF SfuJoinOk
    <3> QED
      BY <1>0, <3>1 DEF Worker
  <2>6. r \in workers[w].rooms <=> w = p.instance
    BY <1>1, <2>2 DEF DutyOK, OnBooks, Hosted
  <2>7. workers[w].clients \in Nat
    BY <1>0, HeldType
  <2>8. Part(r, w)' = IF w = p.instance THEN Held(r) + 1 ELSE 0
    BY <2>4, <2>5, <2>6 DEF Part
  <2>9. Part(r, w) = IF w = p.instance THEN Held(r) ELSE 0
    BY <2>6 DEF Part
  <2> HIDE DEF r
  <2> QED
    BY <2>4, <2>5, <2>7, <2>8, <2>9
<1>6. CASE ~SfuJoinOk(p)
  <2>1. Held(r)' = Held(r)
    BY <1>1, <1>4, <1>6
  <2>2. workers' = workers
    BY <1>6 DEF SfuJoinErr
  <2> HIDE DEF r
  <2>3. Loaded(r)
    BY <1>0, <2>1, <2>2, EvenlyLoaded
  <2> QED
    BY <2>3 DEF r
<1> QED
  BY <1>5, <1>6

\* A confirmed leave takes one client off.
LEMMA SfuLeaveLoaded ==
  ASSUME Sound, Sound', NEW p \in wire, p.room \notin Failable, DutyOK(p.room),
         SfuLeaveOk(p) \/ SfuLeaveErr(p)
  PROVE  Loaded(p.room)
<1> DEFINE r == p.room
           room == rooms[r]
           next == rooms'[r]
<1>0. /\ TypeOK /\ TypeOK' /\ r \in Rooms /\ room \in Room
      /\ workers \in [Workers -> Worker] /\ p.instance \in Workers
  BY AnsweredRoom DEF Sound, TypeOK
<1>1. /\ room.mode = "Sfu" /\ room.pending_leave # NoLeave
      /\ p = Current("SfuLeave", r, room.pending_leave.client)
      /\ next.members = IF SfuLeaveOk(p) THEN room.members \ {p.client} ELSE room.members
      /\ \/ /\ next.members = {}
            /\ \A w \in Workers : r \notin workers'[w].rooms
         \/ /\ next.mode = "Sfu" /\ next.pending_join = room.pending_join
            /\ \A w \in Workers : workers'[w].rooms = workers[w].rooms
  BY SfuLeaveRoom
<1>2. p.instance = room.assigned
  BY <1>1, CurrentFields
<1>3. \A w \in Workers : r \in workers[w].rooms <=> w = p.instance
  BY <1>1, <1>2 DEF DutyOK, OnBooks, Hosted
<1>4. Held(r) = Cardinality(room.members \ {room.pending_join}) /\ Held(r) \in Nat
      /\ Held(r)' \in Nat
  BY <1>0, <1>1, HeldType, HeldTypeNext DEF Held
<1>5. CASE SfuLeaveOk(p)
  <2> SUFFICES ASSUME NEW w \in Workers
               PROVE  \/ workers'[w].clients + Part(r, w) <= workers[w].clients + Part(r, w)'
                      \/ workers'[w].clients <= Part(r, w)'
    BY DEF Loaded
  <2>1. workers'[w].clients = IF w = p.instance THEN SatSub(workers[w].clients, 1)
                                                ELSE workers[w].clients
    <3> DEFINE n == SatSub(workers[p.instance].clients, 1)
    <3>1. \E left : workers' = [workers EXCEPT ![p.instance].clients = n,
                                               ![p.instance].rooms = left]
      BY <1>5 DEF SfuLeaveOk
    <3>2. w = p.instance => n = SatSub(workers[w].clients, 1)
      OBVIOUS
    <3> HIDE DEF n
    <3> QED
      BY <1>0, <3>1, <3>2 DEF Worker
  <2>2. workers[w].clients \in Nat
    BY <1>0, HeldType
  <2>3. next.mode = "Sfu" /\ next.pending_join = room.pending_join => Held(r) <= Held(r)' + 1
    <3> DEFINE U == room.members \ {room.pending_join}
               V == next.members \ {room.pending_join}
    <3>1. IsFiniteSet(U) /\ Cardinality(U) \in Nat
      BY <1>0, MembersFinite
    <3>2. V = U \ {p.client}
      BY <1>1, <1>5
    <3>3. next.mode = "Sfu" /\ next.pending_join = room.pending_join =>
            Held(r)' = Cardinality(V)
      BY DEF Held
    <3> HIDE DEF U, V
    <3>4. Cardinality(V) = IF p.client \in U THEN Cardinality(U) - 1 ELSE Cardinality(U)
      BY <3>1, <3>2, FS_RemoveElement
    <3> QED
      BY <1>4, <3>1, <3>3, <3>4 DEF U
  <2>4. room.members \ {p.client} = {} => Held(r) <= 1
    <3>1. CASE room.members \ {room.pending_join} = {}
      BY <1>4, <3>1, FS_EmptySet
    <3>2. CASE room.members \ {room.pending_join} # {} /\ room.members \ {p.client} = {}
      <4>1. room.members \ {room.pending_join} = {p.client}
        BY <3>2
      <4>2. Cardinality({p.client}) = 1
        BY FS_Singleton
      <4> QED
        BY <1>4, <4>1, <4>2
    <3> QED
      BY <3>1, <3>2
  <2>5. CASE w # p.instance
    <3>1. Part(r, w) = 0 /\ Part(r, w)' \in Nat
      BY <1>3, <1>4, <2>5 DEF Part
    <3> QED
      BY <2>1, <2>2, <2>5, <3>1
  <2>6. CASE w = p.instance
    <3>1. Part(r, w) = Held(r)
      BY <1>3, <2>6 DEF Part
    <3>2. Held(r) <= Part(r, w)' + 1 /\ Part(r, w)' \in Nat
      <4>1. CASE next.members = {} /\ r \notin workers'[w].rooms
        BY <1>1, <1>4, <1>5, <2>4, <4>1 DEF Part
      <4>2. CASE /\ next.mode = "Sfu" /\ next.pending_join = room.pending_join
                 /\ workers'[w].rooms = workers[w].rooms
        BY <1>3, <1>4, <2>3, <2>6, <4>2 DEF Part
      <4> QED
        BY <1>1, <4>1, <4>2
    <3> QED
      BY <1>4, <2>1, <2>2, <2>6, <3>1, <3>2 DEF SatSub
  <2> QED
    BY <2>5, <2>6
<1>6. CASE ~SfuLeaveOk(p)
  <2>a. workers' = workers /\ next = [room EXCEPT !.pending_leave = NoLeave]
    BY <1>0, <1>6 DEF SfuLeaveErr, Sound, TypeOK
  <2>1. /\ workers' = workers /\ next.mode = "Sfu" /\ next.members = room.members
        /\ next.pending_join = room.pending_join
    BY <1>0, <1>1, <2>a DEF Room
  <2>2. Held(r)' = Held(r)
    BY <1>1, <2>1 DEF Held
  <2> HIDE DEF r
  <2>3. Loaded(r)
    BY <1>0, <2>1, <2>2, EvenlyLoaded
  <2> QED
    BY <2>3 DEF r
<1> QED
  BY <1>5, <1>6

LEMMA ResultLoaded ==
  ASSUME Sound, Sound', AllFull, NEW p \in wire, p.room \notin Failable, DutyOK(p.room),
         LegDuty(p.room), Result(p), ~Forsaken(p.room), ~Forsaken(p.room)'
  PROVE  Loaded(p.room)
<1> DEFINE r == p.room
<1>0. TypeOK /\ TypeOK' /\ r \in Rooms /\ OnBooks(r)
  BY AnsweredRoom DEF Sound, DutyOK
<1>1. CASE UpgradeJoinMore(p)
  <2>1. /\ rooms[r].mode = "Upgrading" /\ rooms'[r].mode = "Upgrading"
    BY <1>1, JoinMoreRoom
  <2>2. Held(r)' = Held(r) /\ workers' = workers
    BY <1>1, <2>1 DEF Held, UpgradeJoinMore
  <2> HIDE DEF r
  <2>3. Loaded(r)
    BY <1>0, <2>2, EvenlyLoaded
  <2> QED
    BY <2>3 DEF r
<1>2. CASE SettleOnly(p)
  <2>1. Held(r)' = Held(r) /\ workers' = workers
    BY <1>2 DEF Held, SettleOnly
  <2> HIDE DEF r
  <2>2. Loaded(r)
    BY <1>0, <2>1, EvenlyLoaded
  <2> QED
    BY <2>2 DEF r
<1> QED
  BY <1>1, <1>2, JoinLastLoaded, JoinErrLoaded, SfuJoinLoaded, SfuLeaveLoaded DEF Result

\* A downgrade takes off all that the room brought.
LEMMA SweepLoaded ==
  ASSUME Sound, Sound', NEW r \in Rooms \ Failable, DutyOK(r), SweepRoom(r)
  PROVE  Loaded(r)
<1> DEFINE room == rooms[r]
           home == room.assigned
<1>0. /\ TypeOK /\ TypeOK' /\ room \in Room /\ workers \in [Workers -> Worker]
      /\ OnBooks(r) /\ r \in Rooms
  BY DEF Sound, TypeOK, DutyOK
<1>1. CASE SweepDowngrade(r) /\ is_downgrade_eligible(room)
  <2>1. /\ room.mode = "Sfu" /\ room.pending_join = None
        /\ \A w \in Workers : r \notin workers'[w].rooms
    BY <1>1, DowngradedRoom
  <2>2. room.members \ {None} = room.members
    BY <1>0, IdsAssumption DEF Room, None
  <2>3. Held(r) = Cardinality(room.members) /\ Held(r) \in Nat
    BY <1>0, <2>1, <2>2, HeldType DEF Held
  <2> SUFFICES ASSUME NEW w \in Workers
               PROVE  \/ workers'[w].clients + Part(r, w) <= workers[w].clients + Part(r, w)'
                      \/ workers'[w].clients <= Part(r, w)'
    BY DEF Loaded
  <2>4. r \in workers[w].rooms => w = home
    BY <1>0 DEF OnBooks
  <2>5. workers'[w].clients = IF w = home
                                THEN SatSub(workers[w].clients, Cardinality(room.members))
                                ELSE workers[w].clients
    <3> DEFINE n == SatSub(workers[home].clients, Cardinality(room.members))
               left == workers[home].rooms \ {r}
    <3>1. workers' = [workers EXCEPT ![home].rooms = left, ![home].clients = n]
      BY <1>1 DEF SweepDowngrade
    <3>2. w = home => n = SatSub(workers[w].clients, Cardinality(room.members))
      OBVIOUS
    <3> HIDE DEF n, left
    <3> QED
      BY <1>0, <3>1, <3>2 DEF Worker
  <2>6. Part(r, w)' = 0 /\ (Part(r, w) = IF r \in workers[w].rooms THEN Held(r) ELSE 0)
    BY <2>1 DEF Part
  <2>7. workers[w].clients \in Nat
    BY <1>0, HeldType
  <2> QED
    BY <2>3, <2>4, <2>5, <2>6, <2>7 DEF SatSub
<1>2. CASE ~(SweepDowngrade(r) /\ is_downgrade_eligible(room))
  <2>1. OrdinaryStep(r)
    BY <1>0, <1>2, SweepSteps
  <2>2. workers' = workers
    BY <1>2 DEF SweepRoom, SweepDowngrade, SweepSfu, SweepP2p
  <2> QED
    BY <1>0, <2>1, <2>2, OrdinaryLoaded
<1> QED
  BY <1>1, <1>2

\* A lost worker takes its rooms with it, the others keep theirs.
LEMMA ExpiryLoad ==
  ASSUME Sound, Sound', \A r \in Rooms : OnBooks(r), LoadsHeld,
         NEW w \in Workers, expire_worker(w)
  PROVE  LoadsHeld'
<1> DEFINE mine == {q \in workers[w].rooms : rooms[q].mode # "Absent"}
           aborted == {q \in mine : rooms[q].mode = "Upgrading"}
           on(v) == {q \in aborted : rooms[q].assigned = v}
<1>0. /\ TypeOK /\ TypeOK' /\ workers \in [Workers -> Worker]
      /\ \A v \in Workers : workers[v].rooms \subseteq Rooms /\ workers[v].clients \in Nat
  BY DEF Sound, TypeOK, Worker
<1>1. /\ rooms' = [q \in Rooms |-> CASE q \in aborted -> Aborted(rooms[q])
                                     [] q \in mine \ aborted -> Expired(rooms[q])
                                     [] OTHER -> rooms[q]]
      /\ workers' = [v \in Workers |->
           IF v = w
             THEN [workers[w] EXCEPT !.deadline = None, !.rooms = {}, !.clients = 0]
             ELSE [workers[v] EXCEPT
                     !.rooms = @ \ on(v),
                     !.clients = SatSub(@, UpgradeClients * Cardinality(on(v)))]]
  BY DEF expire_worker
<1> SUFFICES ASSUME NEW v \in Workers PROVE workers'[v].clients <= HeldBy(v)'
  BY DEF LoadsHeld
<1>2. CASE v = w
  <2>1. workers'[v].clients = 0
    BY <1>0, <1>1, <1>2 DEF Worker
  <2> QED
    BY <1>0, <2>1, HeldTypeNext
<1>3. CASE v # w
  <2>1. on(v) = {}
    BY <1>0, <1>3 DEF OnBooks
  <2>2. Cardinality(on(v)) = 0
    BY <2>1, FS_EmptySet
  <2>3. /\ workers'[v].rooms = workers[v].rooms \ on(v)
        /\ workers'[v].clients = SatSub(workers[v].clients, UpgradeClients * Cardinality(on(v)))
    <3> DEFINE n == SatSub(workers[v].clients, UpgradeClients * Cardinality(on(v)))
    <3>1. workers'[v] = [workers[v] EXCEPT !.rooms = @ \ on(v), !.clients = n]
      BY <1>1, <1>3
    <3> HIDE DEF n, on
    <3>2. workers'[v].rooms = workers[v].rooms \ on(v) /\ workers'[v].clients = n
      BY <1>0, <3>1 DEF Worker
    <3> QED
      BY <3>2 DEF n
  <2>4. workers'[v].rooms = workers[v].rooms /\ workers'[v].clients = workers[v].clients
    <3> HIDE DEF on
    <3> QED
      BY <1>0, <2>1, <2>2, <2>3 DEF SatSub, UpgradeClients
  <2>5. \A r \in workers[v].rooms : r \in Rooms /\ r \notin mine
    BY <1>0, <1>3 DEF OnBooks
  <2>6. \A r \in workers[v].rooms : rooms'[r] = rooms[r]
    <3>1. \A r \in workers[v].rooms : r \in Rooms /\ r \notin aborted /\ r \notin mine \ aborted
      BY <2>5
    <3> HIDE DEF aborted, mine
    <3> QED
      BY <1>1, <3>1
  <2>7. \A r \in workers[v].rooms : Held(r)' = Held(r)
    BY <2>6 DEF Held
  <2> QED
    BY <1>0, <2>4, <2>7, SameLoad
<1> QED
  BY <1>2, <1>3

\* The steps that concern a worker or the whole table, but for its loss.
LEMMA TableLoad ==
  ASSUME TypeOK, TypeOK', LoadsHeld, \A r \in Rooms : Alike(rooms[r], rooms'[r]),
         \A w \in Workers : /\ workers'[w].clients = workers[w].clients
                            /\ workers'[w].rooms = workers[w].rooms
  PROVE  LoadsHeld'
<1> SUFFICES ASSUME NEW w \in Workers PROVE workers'[w].clients <= HeldBy(w)'
  BY DEF LoadsHeld
<1>1. \A r \in workers[w].rooms : Held(r)' = Held(r)
  BY HeldType DEF Alike, Held
<1>2. workers'[w].clients <= workers[w].clients
  BY HeldType
<1> QED
  BY <1>1, <1>2, SameLoad

LEMMA StreamBooks ==
  ASSUME TypeOK, WorkerStream \/ Tick \/ StartSweep \/ UNCHANGED vars
  PROVE  \A v \in Workers : /\ workers'[v].clients = workers[v].clients
                            /\ workers'[v].rooms = workers[v].rooms
<1>0. workers \in [Workers -> Worker]
  BY DEF TypeOK
<1>1. CASE StartSweep \/ UNCHANGED vars
  BY <1>1 DEF StartSweep, vars
<1>2. CASE Tick
  BY <1>0, <1>2 DEF Tick, Worker
<1>3. CASE WorkerStream
  <2>1. ASSUME NEW w \in Workers, NEW k, NEW capacity, register_worker(w, k, capacity)
        PROVE  \A v \in Workers : /\ workers'[v].clients = workers[v].clients
                                  /\ workers'[v].rooms = workers[v].rooms
    <3>1. workers' = [workers EXCEPT ![w].conn = k, ![w].capacity = capacity,
                                     ![w].health = "None", ![w].deadline = None]
      BY <2>1 DEF register_worker
    <3> QED
      BY <1>0, <3>1 DEF Worker
  <2>2. ASSUME NEW w \in Workers, NEW k, WorkerDisconnected(w, k)
        PROVE  \A v \in Workers : /\ workers'[v].clients = workers[v].clients
                                  /\ workers'[v].rooms = workers[v].rooms
    <3>1. \/ workers' = workers
          \/ workers' = [workers EXCEPT ![w].conn = None, ![w].health = "None",
                                        ![w].deadline = Grace]
      BY <2>2 DEF WorkerDisconnected
    <3> QED
      BY <1>0, <3>1 DEF Worker
  <2>3. ASSUME NEW w \in Workers, NEW x, NEW y, WorkerHealth(w, x, y) \/ WorkerFailure(w, x)
        PROVE  \A v \in Workers : /\ workers'[v].clients = workers[v].clients
                                  /\ workers'[v].rooms = workers[v].rooms
    <3>1. \/ workers' = workers
          \/ workers' = [workers EXCEPT ![w].capacity = y, ![w].health = x]
      BY <2>3 DEF WorkerHealth, WorkerFailure
    <3> QED
      BY <1>0, <3>1 DEF Worker
  <2> QED
    BY <1>3, <2>1, <2>2, <2>3 DEF WorkerStream
<1> QED
  BY <1>1, <1>2, <1>3

\* Where no room outlived an admission, no worker is overcounted.
LEMMA LoadsStep ==
  ASSUME Sound, Sound', LegsOK, DutiesOK, LegDutiesOK, AllFull, LoadsHeld, Failable = {},
         \A r \in Rooms : ~Forsaken(r) /\ ~Forsaken(r)', Next \/ UNCHANGED vars, ~clear
  PROVE  LoadsHeld'
<1>0. /\ TypeOK /\ TypeOK' /\ ReplayOK
      /\ \A r \in Rooms : r \in Rooms \ Failable /\ DutyOK(r) /\ OnBooks(r) /\ LegDuty(r)
  BY DEF DutiesOK, DutyOK, LegDutiesOK, Sound
<1>a. ASSUME NEW r \in Rooms, Only(r), Loaded(r) PROVE LoadsHeld'
  BY <1>0, <1>a, OneRoomLoad DEF Only
<1>1. ASSUME NEW r \in Rooms, NEW c \in Clients,
             \/ Register(r, c) \/ Deregister(r, c) \/ SendSfu(r, c) \/ SendQueued(r, c)
             \/ RemoveNow(r, c) \/ RemoveSfu(r, c)
      PROVE  LoadsHeld'
  <2>1. Only(r) /\ OrdinaryStep(r)
    BY <1>0, <1>1, ClientOnly, ClientSteps
  <2>2. workers' = workers
    BY <1>1 DEF Register, Deregister, SendSfu, SendQueued, RemoveNow, RemoveSfu
  <2> QED
    BY <1>0, <1>a, <2>1, <2>2, OrdinaryLoaded
<1>2. ASSUME NEW r \in Rooms, NEW c \in Clients,
             AdmitFirst(r, c) \/ AdmitP2p(r, c) \/ AdmitUpgrade(r, c) \/ AdmitSfu(r, c)
      PROVE  LoadsHeld'
  BY <1>0, <1>a, <1>2, AdmitOnly, AdmitLoaded
<1>3. ASSUME NEW p \in wire, Result(p) PROVE LoadsHeld'
  <2>1. Only(p.room) /\ p.room \in Rooms
    BY <1>0, <1>3, ResultOnly DEF TypeOK, Command
  <2> QED
    BY <1>0, <1>3, <1>a, <2>1, ResultLoaded
<1>4. ASSUME NEW s, SyncOk(s) \/ SyncErr(s) PROVE LoadsHeld'
  <2>1. \A r \in Rooms : Still(r)
    BY <1>0, <1>4, SyncStill
  <2>2. workers' = workers
    BY <1>4 DEF SyncOk, SyncErr
  <2> QED
    BY <1>0, <2>1, <2>2, TableLoad DEF Still
<1>5. CASE WorkerStream \/ Tick \/ StartSweep \/ UNCHANGED vars
  <2>1. ASSUME NEW r \in Rooms PROVE Still(r)
    BY <1>0, <1>5, RegisterStill, DisconnectStill, QuietTable DEF WorkerStream
  <2> QED
    BY <1>0, <1>5, <2>1, StreamBooks, TableLoad DEF Still
<1>6. ASSUME NEW w \in due, expire_worker(w) PROVE LoadsHeld'
  <2>1. w \in Workers
    BY <1>0 DEF TypeOK
  <2> QED
    BY <1>0, <1>6, <2>1, ExpiryLoad
<1>7. ASSUME NEW r \in unswept, SweepRoom(r) PROVE LoadsHeld'
  <2>1. r \in Rooms /\ Only(r)
    BY <1>0, <1>7, SweepOnly DEF TypeOK
  <2> QED
    BY <1>0, <1>7, <1>a, <2>1, SweepLoaded
<1> QED
  BY <1>1, <1>2, <1>3, <1>4, <1>5, <1>6, <1>7
     DEF Next, Operation, Browser, WebServer, WorkerAnswer, HandleTimeout

LEMMA LoadInductive ==
  /\ Init => LoadOK
  /\ Sound /\ Sound' /\ LegsOK /\ DutiesOK /\ LegDutiesOK /\ LoadOK /\ [Next]_vars => LoadOK'
<1>1. ASSUME TypeOK, \A w \in Workers : workers[w].clients = 0 PROVE LoadsHeld
  BY <1>1, HeldType DEF LoadsHeld
<1>2. Init => LoadOK
  <2>1. Init => \A w \in Workers : workers[w].clients = 0
    BY DEF Init, UnknownWorker
  <2> QED
    BY <1>1, <2>1, InitTypes, FullInductive DEF LoadOK
<1>3. ASSUME Sound, Sound', LegsOK, DutiesOK, LegDutiesOK, LoadOK, [Next]_vars PROVE LoadOK'
  <2>1. AllFull /\ AllFull'
    BY <1>3, FullInductive DEF LoadOK
  <2> SUFFICES ASSUME Failable = {}, \A r \in Rooms : ~Forsaken(r)' PROVE LoadsHeld'
    BY <2>1 DEF LoadOK, NoneForsaken
  <2>2. CASE clear
    <3>1. \A w \in Workers : workers'[w].clients = 0
      BY <2>2 DEF clear, UnknownWorker
    <3>2. \A w \in Workers : HeldBy(w)' \in Nat
      BY <1>3, HeldTypeNext DEF Sound
    <3> QED
      BY <3>1, <3>2 DEF LoadsHeld
  <2>3. CASE ~clear
    <3>1. \A r \in Rooms : ~Forsaken(r)
      BY <1>3, <2>3, LegsStep, ForsakenOutlasts DEF Sound
    <3>2. LoadsHeld
      BY <1>3, <3>1 DEF LoadOK, NoneForsaken
    <3> QED
      BY <1>3, <2>1, <2>3, <3>1, <3>2, LoadsStep
  <2> QED
    BY <2>2, <2>3
<1> QED
  BY <1>2, <1>3

\* What assigned_clients counts, the rooms of the worker have brought: three
\* for an upgrade in progress, the joined members of an SFU room.
THEOREM LoadsSafe == Spec => []LoadOK
<1>1. TypeOK /\ AllMembersOK /\ AllRolesOK /\ RoomsOK /\ WireOK => Sound
  BY DEF Sound
<1> QED
  BY <1>1, TypeCorrect, MembersSafe, RolesSafe, RoomsSafe, WireSafe, LegsSafe, DutiesSafe,
     LegDutiesSafe, LoadInductive, PTL DEF Spec

\* So select_worker never passes over a worker for clients that its rooms
\* do not have.
THEOREM LoadsNotOvercounted == Spec => []LoadNotOvercounted
<1>1. TypeOK /\ LoadOK /\ AccountedOK => LoadNotOvercounted
  <2> SUFFICES ASSUME TypeOK, LoadOK, AccountedOK, Failable = {}, \A r \in Rooms : ~Outlived(r),
                      NEW w \in Workers
               PROVE  workers[w].clients <=
                        Cardinality(Places(workers[w].rooms, [r \in Rooms |-> Load(r)]))
    BY DEF LoadNotOvercounted
  <2> DEFINE f == [r \in Rooms |-> Held(r)]
             g == [r \in Rooms |-> Load(r)]
             S == workers[w].rooms
  <2>1. /\ f \in [Rooms -> Nat] /\ g \in [Rooms -> Nat] /\ S \in SUBSET Rooms
        /\ \A r \in S : f[r] <= g[r]
        /\ HeldBy(w) \in Nat /\ workers[w].clients \in Nat
    BY HeldType
  <2>2. workers[w].clients <= Cardinality(Places(S, f))
    BY Unforsaken DEF LoadOK, NoneForsaken, LoadsHeld, HeldBy
  <2> HIDE DEF f, g, S
  <2>3. Cardinality(Places(S, f)) <= Cardinality(Places(S, g))
    BY <2>1, PlacesGrow
  <2>4. Cardinality(Places(S, f)) \in Nat /\ Cardinality(Places(S, g)) \in Nat
    BY <2>1, PlacesFinite
  <2>5. workers[w].clients <= Cardinality(Places(S, g))
    BY <2>1, <2>2, <2>3, <2>4
  <2> QED
    BY <2>5 DEF S, g
<1> QED
  BY <1>1, TypeCorrect, LoadsSafe, AccountsSafe, PTL

=============================================================================
