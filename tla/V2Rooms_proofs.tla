--------------------------- MODULE V2Rooms_proofs ---------------------------
(***************************************************************************)
(* Theorems about V2Rooms, for every value of its constants: its state     *)
(* keeps its types, and a room has a mode that goes with its members.      *)
(***************************************************************************)
EXTENDS V2Rooms, FiniteSetTheorems, WellFoundedInduction, TLAPS

-----------------------------------------------------------------------------
(***************************************************************************)
(* Facts about the helpers.                                                *)
(***************************************************************************)

\* The least element of a nonempty set of naturals is one of its elements:
\* commit_downgrade's offerer is a member, the barrier's first join a client.
LEMMA MinIsElement ==
  ASSUME NEW S, S \subseteq Nat, S # {}, IsFiniteSet(S)
  PROVE  Min(S) \in S
<1> DEFINE Below(x) == {y \in S : y < x}
           T == {Below(x) : x \in S}
<1>1. T # {} /\ T \subseteq FiniteSubsetsOf(S)
  <2>1. T \subseteq SUBSET S
    OBVIOUS
  <2>2. FiniteSubsetsOf(S) = SUBSET S
    BY FS_FiniteSubsetsOfFinite
  <2>3. PICK x : x \in S
    OBVIOUS
  <2>4. Below(x) \in T
    BY <2>3
  <2> QED
    BY <2>1, <2>2, <2>4
<1>2. PICK U \in T : \A V \in T : ~(<<V, U>> \in StrictSubsetOrdering(S))
  BY <1>1, FS_StrictSubsetOrderingWellFounded, WFMin
<1>3. PICK x \in S : U = Below(x)
  BY <1>2
<1>4. ASSUME NEW y \in S, y < x
      PROVE  FALSE
  <2>a. y < x /\ ~(y < y)
    BY <1>4
  <2>b. \A z \in S : z < y => z < x
    BY <1>4
  <2>1. Below(y) \subseteq Below(x) /\ y \in Below(x) /\ y \notin Below(y)
    BY <2>a, <2>b, Zenon
  <2>2. <<Below(y), Below(x)>> \in StrictSubsetOrdering(S)
    BY <2>1 DEF StrictSubsetOrdering
  <2> QED
    BY <2>2, <1>2, <1>3
<1>5. \A y \in S : x <= y
  BY <1>4
<1> QED
  BY <1>5 DEF Min

\* new_member adds a member and keeps the room's type.
LEMMA AddMemberType ==
  ASSUME NEW room \in Room, NEW c \in Clients
  PROVE  AddMember(room, c) \in Room
BY BoundsAssumption DEF AddMember, Room

\* Removing members leaves a room of the right type.
LEMMA DropMembersType ==
  ASSUME NEW room \in Room, NEW S
  PROVE  DropMembers(room, S) \in Room
<1>1. Reset(room.deadline, S, None) \in [Clients -> Nat \cup {None}]
  BY DEF Reset, Room
<1>2. Reset(room.queued, S, <<>>) \in [Clients -> Seq(Frame)]
  <2>1. <<>> \in Seq(Frame) /\ room.queued \in [Clients -> Seq(Frame)]
    BY DEF Room
  <2> QED
    BY <2>1 DEF Reset
<1> QED
  BY <1>1, <1>2 DEF DropMembers, Room

\* The initial values: an unknown room, an unknown worker, nothing pending.
LEMMA ConstantTypes ==
  /\ AbsentRoom \in Room
  /\ UnknownWorker \in Worker
  /\ NoQueues \in [Clients -> Seq(Frame)]
  /\ NoUpgrade \in Upgrade
  /\ NoLeave \in PendingLeave
<1>1. NoQueues \in [Clients -> Seq(Frame)]
  BY DEF NoQueues
<1>2. NoUpgrade \in Upgrade /\ NoLeave \in PendingLeave
  BY DEF NoUpgrade, Upgrade, NoLeave, PendingLeave
<1>3. AbsentRoom \in Room
  BY <1>1, <1>2 DEF AbsentRoom, Room, Modes
<1>4. UnknownWorker \in Worker
  BY DEF UnknownWorker, Worker
<1> QED
  BY <1>1, <1>2, <1>3, <1>4

\* A room reaped when it is empty is a room or the absent one.
LEMMA ReapType ==
  ASSUME NEW room \in Room
  PROVE  ReapIfEmpty(room) \in Room
BY ConstantTypes DEF ReapIfEmpty

\* promote_survivor keeps the room's type.
LEMMA PromoteType ==
  ASSUME NEW room \in Room
  PROVE  promote_survivor(room) \in Room
BY ConstantTypes DEF promote_survivor, Room

\* commit_upgrade keeps the room's type.
LEMMA CommitUpgradeType ==
  ASSUME NEW room \in Room
  PROVE  commit_upgrade(room) \in Room
<1>1. room.signal_epoch + 1 \in Nat /\ "Sfu" \in Modes
  BY DEF Room, Modes
<1> QED
  BY <1>1, ConstantTypes DEF commit_upgrade, Room

\* commit_downgrade keeps the type of a room that has a member to offer.
LEMMA CommitDowngradeType ==
  ASSUME NEW room \in Room, room.members # {}
  PROVE  commit_downgrade(room) \in Room
<1>1. room.members \in SUBSET Clients
  BY DEF Room
<1>2. room.members \subseteq Nat /\ IsFiniteSet(room.members)
  BY <1>1, FS_Subset, IdsAssumption
<1>3. Min(room.members) \in room.members
  BY <1>2, MinIsElement
<1>4. {Min(room.members)} \in SUBSET Clients
  BY <1>1, <1>3
<1>5. room.signal_epoch + 1 \in Nat /\ "P2p" \in Modes
  BY DEF Room, Modes
<1> QED
  BY <1>4, <1>5, ConstantTypes DEF commit_downgrade, Room

\* abort_upgrade keeps the room's type.
LEMMA AbortedType ==
  ASSUME NEW room \in Room
  PROVE  Aborted(room) \in Room
<1>1. DropMembers(room, {room.upgrade.joining}) \in Room
  BY DropMembersType
<1> QED
  BY <1>1, ConstantTypes DEF Aborted, Room, Modes

\* A room of an expired worker keeps its type.
LEMMA ExpiredType ==
  ASSUME NEW room \in Room
  PROVE  Expired(room) \in Room
<1>1. DropMembers(room, {room.pending_join}) \in Room
  BY DropMembersType
<1> QED
  BY <1>1, ConstantTypes DEF Expired, Room, Modes

\* arm_downgrade keeps the room's type.
LEMMA ArmDowngradeType ==
  ASSUME NEW room \in Room
  PROVE  arm_downgrade(room) \in Room
BY BoundsAssumption DEF arm_downgrade, Room

\* queue_command records a command for a worker, a room and a client.
LEMMA CommandType ==
  ASSUME NEW kind \in {"UpgradeJoin", "SfuJoin", "SfuLeave", "Cleanup", "Signal"},
         NEW w \in Workers, NEW r \in Rooms, NEW c \in Clients,
         NEW lc \in Nat, NEW ae \in Nat
  PROVE  MakeCommand(kind, w, r, c, lc, ae) \in Command
BY DEF MakeCommand, Command

\* An answer names a request of the web server.
LEMMA AnswerType ==
  ASSUME TypeOK, NEW op \in {"admit", "remove"}, NEW r \in Rooms, NEW c \in Clients
  PROVE  Answer(op, r, c) \subseteq Request
BY DEF Answer, Request, TypeOK

\* So does the answer about a membership that is only beginning.
LEMMA AnswerTypeNext ==
  ASSUME NEW op \in {"admit", "remove"}, NEW r \in Rooms, NEW c \in Clients,
         lifecycle' \in [Rooms -> [Clients -> Nat]]
  PROVE  Answer(op, r, c)' \subseteq Request
<1>1. lifecycle'[r][c] \in Nat
  OBVIOUS
<1> QED
  BY <1>1 DEF Answer, Request

\* The leg a command begins or ends names a worker, a room and a client.
LEMMA LegType ==
  ASSUME NEW p \in Command
  PROVE  LegOf(p) \subseteq Leg
BY DEF LegOf, Leg, Command

\* next_lifecycle keeps one counter for each client of each room.
LEMMA LifecycleType ==
  ASSUME TypeOK, NEW r \in Rooms, NEW S
  PROVE  NextLifecycle(r, S) \in [Rooms -> [Clients -> Nat]]
BY DEF NextLifecycle, TypeOK

\* saturating_sub stays a natural number.
LEMMA SatSubType ==
  ASSUME NEW a \in Nat, NEW b \in Nat
  PROVE  SatSub(a, b) \in Nat
BY DEF SatSub

-----------------------------------------------------------------------------
(***************************************************************************)
(* Every operation keeps the types.                                        *)
(***************************************************************************)

\* admit, in its four outcomes, keeps the types.
LEMMA AdmitTypes ==
  ASSUME TypeOK, NEW r \in Rooms, NEW c \in Clients,
         AdmitFirst(r, c) \/ AdmitP2p(r, c) \/ AdmitUpgrade(r, c) \/ AdmitSfu(r, c)
  PROVE  TypeOK'
<1> USE DEF TypeOK, sweepVars
<1>0. rooms[r] \in Room /\ AddMember(rooms[r], c) \in Room
  BY AddMemberType
<1>1. CASE AdmitFirst(r, c)
  <2>1. [AddMember(AbsentRoom, c) EXCEPT !.mode = "P2p", !.initiators = {c}] \in Room
    <3>1. AddMember(AbsentRoom, c) \in Room
      BY AddMemberType, ConstantTypes
    <3> QED
      BY <3>1 DEF Room, Modes
  <2> QED
    BY <1>1, <2>1, LifecycleType DEF AdmitFirst
<1>2. CASE AdmitP2p(r, c)
  BY <1>0, <1>2, LifecycleType DEF AdmitP2p
<1>3. CASE AdmitUpgrade(r, c)
  <2> DEFINE all == rooms[r].members \cup {c}
             first == NextJoin(all, c)
             ae == rooms[r].assignment_epoch + 1
  <2>1. PICK w \in Workers :
          /\ lifecycle' = NextLifecycle(r, all)
          /\ rooms' = [rooms EXCEPT ![r] =
               [AddMember(rooms[r], c) EXCEPT
                  !.mode = "Upgrading", !.assignment_epoch = ae, !.assigned = w,
                  !.upgrade = [joining |-> c, todo |-> all, joined |-> <<>>]]]
          /\ workers' = [workers EXCEPT ![w].rooms = @ \cup {r},
                                        ![w].clients = @ + UpgradeClients]
          /\ Issue({MakeCommand("UpgradeJoin", w, r, first, lifecycle'[r][first], ae)})
    BY <1>3 DEF AdmitUpgrade
  <2>2. lifecycle' \in [Rooms -> [Clients -> Nat]]
    BY <2>1, LifecycleType
  <2>3. rooms[r].members \in SUBSET Clients /\ ae \in Nat
    BY <1>0 DEF Room
  <2>4. [joining |-> c, todo |-> all, joined |-> <<>>] \in Upgrade
    BY <2>3 DEF Upgrade
  <2>5. rooms' \in [Rooms -> Room]
    <3>1. [AddMember(rooms[r], c) EXCEPT
             !.mode = "Upgrading", !.assignment_epoch = ae, !.assigned = w,
             !.upgrade = [joining |-> c, todo |-> all, joined |-> <<>>]] \in Room
      BY <1>0, <2>3, <2>4 DEF Room, Modes
    <3> QED
      BY <2>1, <3>1
  <2>6. workers' \in [Workers -> Worker]
    BY <2>1 DEF Worker, UpgradeClients
  <2>7. first \in Clients
    <3>1. CASE all \ {c} = {}
      BY <3>1 DEF NextJoin
    <3>2. CASE all \ {c} # {}
      <4>1. all \ {c} \subseteq Clients
        BY <2>3
      <4>2. IsFiniteSet(all \ {c}) /\ all \ {c} \subseteq Nat
        BY <4>1, FS_Subset, IdsAssumption
      <4>3. Min(all \ {c}) \in all \ {c}
        BY <3>2, <4>2, MinIsElement
      <4> QED
        BY <3>2, <4>1, <4>3 DEF NextJoin
    <3> QED
      BY <3>1, <3>2
  <2>8. MakeCommand("UpgradeJoin", w, r, first, lifecycle'[r][first], ae) \in Command
    BY <2>2, <2>3, <2>7, CommandType
  <2>9. pending' \subseteq Command /\ wire' \subseteq Command
    BY <2>1, <2>8 DEF Issue
  <2>10. open' \subseteq Request
    <3>1. open' = open \cup Answer("admit", r, c)'
      BY <1>3 DEF AdmitUpgrade
    <3> QED
      BY <2>2, <3>1, AnswerTypeNext
  <2> QED
    BY <1>3, <2>2, <2>5, <2>6, <2>9, <2>10 DEF AdmitUpgrade
<1>4. CASE AdmitSfu(r, c)
  <2>1. lifecycle' \in [Rooms -> [Clients -> Nat]]
    BY <1>4, LifecycleType DEF AdmitSfu
  <2>2. [AddMember(rooms[r], c) EXCEPT !.pending_join = c,
                                       !.downgrade_deadline = None] \in Room
    BY <1>0 DEF Room
  <2>3. rooms' \in [Rooms -> Room]
    BY <1>4, <2>2 DEF AdmitSfu
  <2>4. rooms[r].assigned \in Workers /\ rooms[r].assignment_epoch \in Nat
    BY <1>0, <1>4 DEF AdmitSfu, Connected, Room
  <2>5. MakeCommand("SfuJoin", rooms[r].assigned, r, c, lifecycle'[r][c],
                    rooms[r].assignment_epoch) \in Command
    BY <2>1, <2>4, CommandType
  <2>6. pending' \subseteq Command /\ wire' \subseteq Command
    BY <1>4, <2>5 DEF AdmitSfu, Issue
  <2>7. open' \subseteq Request
    <3>1. open' = open \cup Answer("admit", r, c)'
      BY <1>4 DEF AdmitSfu
    <3> QED
      BY <2>1, <3>1, AnswerTypeNext
  <2> QED
    BY <1>4, <2>1, <2>3, <2>6, <2>7 DEF AdmitSfu
<1> QED
  BY <1>1, <1>2, <1>3, <1>4

\* issue_sfu_leave addresses a member of the room on its worker.
LEMMA LeaveCommandType ==
  ASSUME TypeOK, NEW r \in Rooms, NEW c \in Clients, Connected(rooms[r].assigned)
  PROVE  LeaveCommand(r, c) \in Command
<1>1. rooms[r].assigned \in Workers /\ rooms[r].assignment_epoch \in Nat
  BY DEF TypeOK, Room, Connected
<1>2. lifecycle[r][c] \in Nat
  BY DEF TypeOK
<1> QED
  BY <1>1, <1>2, CommandType DEF LeaveCommand

\* A room that waits for a leave keeps its type.
LEMMA PendingLeaveType ==
  ASSUME NEW room \in Room, NEW c \in Clients, NEW b \in BOOLEAN
  PROVE  [room EXCEPT !.pending_leave = [client |-> c, requested |-> b]] \in Room
<1>1. [client |-> c, requested |-> b] \in PendingLeave
  BY DEF PendingLeave
<1> QED
  BY <1>1 DEF Room

\* register, deregister and send keep the types.
LEMMA BrowserTypes ==
  ASSUME TypeOK, NEW r \in Rooms, NEW c \in Clients,
         Register(r, c) \/ Deregister(r, c) \/ SendSfu(r, c) \/ SendQueued(r, c)
  PROVE  TypeOK'
<1> USE DEF TypeOK, sweepVars
<1>0. rooms[r] \in Room
  OBVIOUS
<1>1. CASE Register(r, c)
  <2>1. [NoQueues EXCEPT ![c] = rooms[r].queued[c]] \in [Clients -> Seq(Frame)]
    BY <1>0, ConstantTypes DEF Room
  <2>2. rooms'[r] \in Room
    BY <1>0, <1>1, <2>1 DEF Register, Room
  <2> QED
    BY <1>1, <2>2 DEF Register
<1>2. CASE Deregister(r, c)
  <2> DEFINE gone == [rooms[r] EXCEPT !.registered = @ \ {c}]
  <2>1. gone \in Room
    BY <1>0 DEF Room
  <2>2. CASE CanIssueLeave(r, c)
    <3>1. [gone EXCEPT !.pending_leave = [client |-> c, requested |-> FALSE]] \in Room
      BY <2>1, PendingLeaveType
    <3>2. rooms' = [rooms EXCEPT ![r] =
             [gone EXCEPT !.pending_leave = [client |-> c, requested |-> FALSE]]]
      BY <1>2, <2>2 DEF Deregister
    <3>3. LeaveCommand(r, c) \in Command
      BY <2>2, LeaveCommandType DEF CanIssueLeave
    <3>4. pending' \subseteq Command /\ wire' \subseteq Command
      BY <1>2, <2>2, <3>3 DEF Deregister, Issue
    <3> QED
      BY <1>2, <3>1, <3>2, <3>4 DEF Deregister
  <2>3. CASE ~CanIssueLeave(r, c)
    <3>1. [gone EXCEPT !.deadline[c] = Grace] \in Room
      BY <2>1, BoundsAssumption DEF Room
    <3>2. rooms' = [rooms EXCEPT ![r] = [gone EXCEPT !.deadline[c] = Grace]]
      BY <1>2, <2>3 DEF Deregister
    <3> QED
      BY <1>2, <2>3, <3>1, <3>2 DEF Deregister
  <2> QED
    BY <2>2, <2>3
<1>3. CASE SendSfu(r, c)
  <2>1. rooms[r].assigned \in Workers /\ rooms[r].assignment_epoch \in Nat
    BY <1>0, <1>3 DEF SendSfu, Connected, Room
  <2>2. MakeCommand("Signal", rooms[r].assigned, r, c, lifecycle[r][c],
                    rooms[r].assignment_epoch) \in Command
    BY <2>1, CommandType
  <2>3. pending' \subseteq Command /\ wire' \subseteq Command
    BY <1>3, <2>2 DEF SendSfu, Issue
  <2> QED
    BY <1>3, <2>3 DEF SendSfu
<1>4. CASE SendQueued(r, c)
  <2>1. PICK peer \in Clients \cup {None} :
          rooms' = [rooms EXCEPT ![r].queued[c] =
            Append(@, [epoch |-> rooms[r].signal_epoch, peer |-> peer])]
    BY <1>0, <1>4 DEF SendQueued, Room
  <2>2. [epoch |-> rooms[r].signal_epoch, peer |-> peer] \in Frame
    BY <1>0 DEF Room, Frame
  <2>3. rooms[r].queued \in [Clients -> Seq(Frame)]
    BY <1>0 DEF Room
  <2>4. Append(rooms[r].queued[c], [epoch |-> rooms[r].signal_epoch, peer |-> peer])
          \in Seq(Frame)
    BY <2>2, <2>3
  <2>5. [rooms[r] EXCEPT !.queued[c] =
           Append(@, [epoch |-> rooms[r].signal_epoch, peer |-> peer])] \in Room
    BY <1>0, <2>4 DEF Room
  <2>6. rooms' \in [Rooms -> Room]
    BY <2>1, <2>5
  <2> QED
    BY <1>4, <2>6 DEF SendQueued
<1> QED
  BY <1>1, <1>2, <1>3, <1>4

\* remove keeps the types.
LEMMA RemoveTypes ==
  ASSUME TypeOK, NEW r \in Rooms, NEW c \in Clients, RemoveNow(r, c) \/ RemoveSfu(r, c)
  PROVE  TypeOK'
<1> USE DEF TypeOK, sweepVars
<1>0. rooms[r] \in Room
  OBVIOUS
<1>1. CASE RemoveNow(r, c)
  <2>1. ReapIfEmpty(promote_survivor(DropMembers(rooms[r], {c}))) \in Room
    BY <1>0, DropMembersType, PromoteType, ReapType
  <2> QED
    BY <1>1, <2>1 DEF RemoveNow
<1>2. CASE RemoveSfu(r, c)
  <2>1. [rooms[r] EXCEPT !.pending_leave = [client |-> c, requested |-> TRUE]] \in Room
    BY <1>0, PendingLeaveType
  <2>2. rooms' \in [Rooms -> Room]
    BY <1>2, <2>1 DEF RemoveSfu
  <2>3. LeaveCommand(r, c) \in Command
    BY <1>2, LeaveCommandType DEF RemoveSfu
  <2>4. pending' \subseteq Command /\ wire' \subseteq Command
    BY <1>2, <2>3 DEF RemoveSfu, Issue
  <2>5. open' \subseteq Request
    BY <1>2, AnswerType DEF RemoveSfu
  <2> QED
    BY <1>2, <2>2, <2>4, <2>5 DEF RemoveSfu
<1> QED
  BY <1>1, <1>2

\* A member dropped by an aborted upgrade is told to leave its worker.
LEMMA AbortLeavesType ==
  ASSUME TypeOK, NEW r \in Rooms
  PROVE  AbortLeaves(r) \subseteq Command
<1> DEFINE room == rooms[r]
           joined == room.upgrade.joined
<1>1. room \in Room
  BY DEF TypeOK
<1>2. joined \in Seq(Clients) /\ room.assignment_epoch \in Nat
  BY <1>1 DEF Room, Upgrade
<1>3. SUFFICES ASSUME Connected(room.assigned), NEW i \in DOMAIN joined
               PROVE  MakeCommand("Cleanup", room.assigned, r, joined[i],
                                  lifecycle[r][joined[i]], room.assignment_epoch)
                        \in Command
  BY DEF AbortLeaves
<1>4. room.assigned \in Workers
  BY <1>1, <1>3 DEF Room, Connected
<1>5. joined[i] \in Clients
  BY <1>2, <1>3
<1>6. lifecycle[r][joined[i]] \in Nat
  BY <1>5 DEF TypeOK
<1> QED
  BY <1>2, <1>4, <1>5, <1>6, CommandType

\* issue_next_upgrade_join addresses a member on the assigned worker.
LEMMA NextUpgradeJoinType ==
  ASSUME TypeOK, NEW p \in Command
  PROVE  NextUpgradeJoin(p) \subseteq Command
<1> DEFINE room == rooms[p.room]
           c == NextJoin(Todo(p), room.upgrade.joining)
<1>1. p.room \in Rooms /\ room \in Room
  BY DEF TypeOK, Command
<1>2. CASE c \in room.members /\ Connected(room.assigned)
  <2>1. c \in Clients /\ room.assigned \in Workers /\ room.assignment_epoch \in Nat
    BY <1>1, <1>2 DEF Room, Connected
  <2>2. lifecycle[p.room][c] \in Nat
    BY <1>1, <2>1 DEF TypeOK
  <2>3. MakeCommand("UpgradeJoin", room.assigned, p.room, c,
                    lifecycle[p.room][c], room.assignment_epoch) \in Command
    BY <1>1, <2>1, <2>2, CommandType
  <2> QED
    BY <1>2, <2>3 DEF NextUpgradeJoin
<1>3. CASE ~(c \in room.members /\ Connected(room.assigned))
  BY <1>3 DEF NextUpgradeJoin
<1> QED
  BY <1>2, <1>3

\* Settling a command and issuing others keeps the sets of commands.
LEMMA SettleType ==
  ASSUME TypeOK, NEW p, NEW cmds, cmds \subseteq Command, SettleAndIssue(p, cmds)
  PROVE  pending' \subseteq Command /\ wire' \subseteq Command /\ p \in Command
BY DEF TypeOK, SettleAndIssue

\* A barrier with one more client joined keeps the room's type.
LEMMA SteppedType ==
  ASSUME TypeOK, NEW p \in Command
  PROVE  Stepped(p) \in Room
<1>1. rooms[p.room] \in Room
  BY DEF TypeOK, Command
<1>2. rooms[p.room].upgrade \in Upgrade /\ p.client \in Clients
  BY <1>1 DEF Room, Command
<1>3. Todo(p) \in SUBSET Clients
  BY <1>2 DEF Todo, Upgrade
<1>4. Append(rooms[p.room].upgrade.joined, p.client) \in Seq(Clients)
  BY <1>2 DEF Upgrade
<1>5. [rooms[p.room].upgrade EXCEPT !.todo = Todo(p),
         !.joined = Append(rooms[p.room].upgrade.joined, p.client)] \in Upgrade
  BY <1>2, <1>3, <1>4 DEF Upgrade
<1>6. Stepped(p) = [rooms[p.room] EXCEPT !.upgrade =
         [rooms[p.room].upgrade EXCEPT !.todo = Todo(p),
            !.joined = Append(rooms[p.room].upgrade.joined, p.client)]]
  BY <1>1, <1>2 DEF Stepped, Room, Upgrade
<1> QED
  BY <1>1, <1>5, <1>6 DEF Room

\* Releasing a room's place on a worker, also when no worker is assigned.
LEMMA ReleaseType ==
  ASSUME TypeOK, NEW w, NEW r, NEW n \in Nat
  PROVE  [workers EXCEPT ![w].rooms = @ \ {r}, ![w].clients = SatSub(@, n)]
           \in [Workers -> Worker]
<1>1. CASE w \in Workers
  <2>1. workers[w] \in Worker /\ SatSub(workers[w].clients, n) \in Nat
    BY <1>1, SatSubType DEF TypeOK, Worker
  <2>2. [workers[w] EXCEPT !.rooms = @ \ {r}, !.clients = SatSub(@, n)] \in Worker
    BY <2>1 DEF Worker
  <2>3. [workers EXCEPT ![w].rooms = @ \ {r}, ![w].clients = SatSub(@, n)]
          = [workers EXCEPT ![w] = [workers[w] EXCEPT !.rooms = @ \ {r},
                                                      !.clients = SatSub(@, n)]]
    BY <1>1, <2>1 DEF TypeOK, Worker
  <2> QED
    BY <2>2, <2>3 DEF TypeOK
<1>2. CASE w \notin Workers
  BY <1>2 DEF TypeOK
<1> QED
  BY <1>1, <1>2

\* The results of the barrier's joins keep the types.
LEMMA BarrierTypes ==
  ASSUME TypeOK, NEW p,
         UpgradeJoinMore(p) \/ UpgradeJoinLast(p) \/ UpgradeJoinErr(p)
  PROVE  TypeOK'
<1> USE DEF TypeOK, sweepVars
<1>0. p \in Command
  BY DEF UpgradeJoinMore, UpgradeJoinLast, UpgradeJoinErr, SettleAndIssue
<1>a. p.room \in Rooms /\ p.instance \in Workers /\ rooms[p.room] \in Room
  BY <1>0 DEF Command
<1>b. legs \cup LegOf(p) \subseteq Leg
  BY <1>0, LegType
<1>1. CASE UpgradeJoinMore(p)
  <2>1. pending' \subseteq Command /\ wire' \subseteq Command
    BY <1>0, <1>1, NextUpgradeJoinType, SettleType DEF UpgradeJoinMore
  <2>2. rooms' \in [Rooms -> Room]
    BY <1>0, <1>1, <1>a, SteppedType DEF UpgradeJoinMore
  <2> QED
    BY <1>1, <1>b, <2>1, <2>2 DEF UpgradeJoinMore
<1>2. CASE UpgradeJoinLast(p)
  <2>1. pending' \subseteq Command /\ wire' \subseteq Command
    BY <1>2, SettleType DEF UpgradeJoinLast
  <2>2. rooms' \in [Rooms -> Room]
    BY <1>2, <1>a, CommitUpgradeType DEF UpgradeJoinLast
  <2>3. open' \subseteq Request
    BY <1>2 DEF UpgradeJoinLast
  <2> QED
    BY <1>2, <1>b, <2>1, <2>2, <2>3 DEF UpgradeJoinLast
<1>3. CASE UpgradeJoinErr(p)
  <2>1. pending' \subseteq Command /\ wire' \subseteq Command
    BY <1>a, <1>3, AbortLeavesType, SettleType DEF UpgradeJoinErr
  <2>2. rooms' \in [Rooms -> Room]
    BY <1>3, <1>a, AbortedType DEF UpgradeJoinErr
  <2>3. workers' \in [Workers -> Worker]
    BY <1>a, <1>3, ReleaseType DEF UpgradeJoinErr, UpgradeClients
  <2>4. open' \subseteq Request
    BY <1>3 DEF UpgradeJoinErr
  <2> QED
    BY <1>3, <2>1, <2>2, <2>3, <2>4 DEF UpgradeJoinErr
<1> QED
  BY <1>1, <1>2, <1>3

\* The results of joins and leaves in an SFU room keep the types.
LEMMA SfuResultTypes ==
  ASSUME TypeOK, NEW p,
         SfuJoinOk(p) \/ SfuJoinErr(p) \/ SfuLeaveOk(p) \/ SfuLeaveErr(p) \/ SettleOnly(p)
  PROVE  TypeOK'
<1> USE DEF TypeOK, sweepVars
<1>0. p \in Command
  BY DEF SfuJoinOk, SfuJoinErr, SfuLeaveOk, SfuLeaveErr, SettleOnly, SettleAndIssue
<1>a. p.room \in Rooms /\ p.instance \in Workers /\ rooms[p.room] \in Room
  BY <1>0 DEF Command
<1>b. legs \cup LegOf(p) \subseteq Leg
  BY <1>0, LegType
<1>c. workers[p.instance] \in Worker
  BY <1>a
<1>d. pending' \subseteq Command /\ wire' \subseteq Command
  BY SettleType DEF SfuJoinOk, SfuJoinErr, SfuLeaveOk, SfuLeaveErr, SettleOnly
<1>1. CASE SfuJoinOk(p)
  <2>1. [rooms[p.room] EXCEPT !.pending_join = None] \in Room
    BY <1>a DEF Room
  <2>2. rooms' \in [Rooms -> Room]
    BY <1>1, <1>a, <2>1 DEF SfuJoinOk
  <2>a. workers[p.instance].clients + 1 \in Nat
    BY <1>c DEF Worker
  <2>3. [workers[p.instance] EXCEPT !.clients = @ + 1] \in Worker
    BY <1>c, <2>a DEF Worker
  <2>4. workers' \in [Workers -> Worker]
    BY <1>1, <1>a, <2>3 DEF SfuJoinOk
  <2>5. open' \subseteq Request
    BY <1>1 DEF SfuJoinOk
  <2> QED
    BY <1>1, <1>b, <1>d, <2>2, <2>4, <2>5 DEF SfuJoinOk
<1>2. CASE SfuJoinErr(p)
  <2> DEFINE rest == DropMembers(rooms[p.room], {rooms[p.room].pending_join})
  <2>1. rest \in Room
    BY <1>a, DropMembersType
  <2>2. [rest EXCEPT !.pending_join = None] \in Room
    BY <2>1 DEF Room
  <2>3. rooms' \in [Rooms -> Room]
    BY <1>2, <1>a, <2>2 DEF SfuJoinErr
  <2> QED
    BY <1>2, <1>d, <2>3 DEF SfuJoinErr
<1>3. CASE SfuLeaveOk(p)
  <2> DEFINE dropped == DropMembers(rooms[p.room], {p.client})
             rest == [dropped EXCEPT !.pending_leave = NoLeave]
  <2>1. dropped \in Room
    BY <1>a, DropMembersType
  <2>2. rest \in Room
    BY <2>1, ConstantTypes DEF Room
  <2>3. ReapIfEmpty(arm_downgrade(rest)) \in Room
    BY <2>2, ArmDowngradeType, ReapType
  <2>4. rooms' \in [Rooms -> Room]
    BY <1>3, <1>a, <2>3 DEF SfuLeaveOk
  <2>5. SatSub(workers[p.instance].clients, 1) \in Nat
    BY <1>c, SatSubType DEF Worker
  <2>6. [workers[p.instance] EXCEPT
           !.clients = SatSub(@, 1),
           !.rooms = IF rest.members = {} THEN @ \ {p.room} ELSE @] \in Worker
    <3> HIDE DEF rest
    <3> QED
      BY <1>c, <2>5 DEF Worker
  <2>7. workers' = [workers EXCEPT ![p.instance] =
          [workers[p.instance] EXCEPT
             !.clients = SatSub(@, 1),
             !.rooms = IF rest.members = {} THEN @ \ {p.room} ELSE @]]
    BY <1>3, <1>a, <1>c DEF SfuLeaveOk, Worker
  <2>8. workers' \in [Workers -> Worker]
    BY <1>a, <2>6, <2>7
  <2>9. overtaken' \subseteq {q \in Request : q.op = "admit"}
    BY <1>3 DEF SfuLeaveOk, Answer
  <2> QED
    BY <1>3, <1>d, <2>4, <2>8, <2>9 DEF SfuLeaveOk
<1>4. CASE SfuLeaveErr(p)
  <2>1. [rooms[p.room] EXCEPT !.pending_leave = NoLeave] \in Room
    BY <1>a, ConstantTypes DEF Room
  <2>2. rooms' \in [Rooms -> Room]
    BY <1>4, <1>a, <2>1 DEF SfuLeaveErr
  <2> QED
    BY <1>4, <1>d, <2>2 DEF SfuLeaveErr
<1>5. CASE SettleOnly(p)
  BY <1>5, <1>b, <1>d DEF SettleOnly
<1> QED
  BY <1>1, <1>2, <1>3, <1>4, <1>5

\* fail_room keeps the types of the rooms.
LEMMA FailRoomType ==
  ASSUME TypeOK, NEW r \in Rooms
  PROVE  fail_room(r) \in [Rooms -> Room]
<1>1. rooms[r] \in Room
  BY DEF TypeOK
<1>2. [rooms[r] EXCEPT !.mode = "Failed"] \in Room
  BY <1>1 DEF Room, Modes
<1> QED
  BY <1>2 DEF TypeOK, fail_room

\* The answer to a SyncRoom keeps the types.
LEMMA SyncTypes ==
  ASSUME TypeOK, NEW s, SyncOk(s) \/ SyncErr(s)
  PROVE  TypeOK'
<1> USE DEF TypeOK, sweepVars
<1>1. CASE SyncOk(s)
  BY <1>1 DEF SyncOk
<1>2. CASE SyncErr(s)
  <2>1. s.room \in Rooms
    BY <1>2 DEF SyncErr, SyncRoom
  <2>2. rooms' \in [Rooms -> Room]
    BY <1>2, <2>1, FailRoomType DEF SyncErr
  <2> QED
    BY <1>2, <2>2 DEF SyncErr
<1> QED
  BY <1>1, <1>2

\* Registration, health, failure and loss of a worker keep the types.
LEMMA StreamTypes ==
  ASSUME TypeOK, NEW w \in Workers,
         \/ \E k \in Streams, capacity \in Capacities : register_worker(w, k, capacity)
         \/ \E k \in Streams : WorkerDisconnected(w, k)
         \/ \E state \in {"Ready", "Draining"}, capacity \in Capacities :
              WorkerHealth(w, state, capacity)
         \/ \E r \in Rooms : WorkerFailure(w, r)
  PROVE  TypeOK'
<1> USE DEF TypeOK, sweepVars
<1>0. workers[w] \in Worker
  OBVIOUS
<1>1. ASSUME NEW k \in Streams, NEW capacity \in Capacities,
             register_worker(w, k, capacity)
      PROVE  TypeOK'
  <2> DEFINE mine == {q \in workers[w].rooms : rooms[q].mode # "Absent"}
             sync(r) == [instance |-> w, room |-> r,
                         assignment_epoch |-> rooms[r].assignment_epoch,
                         replay |-> {p \in OfWorker(w, pending) : p.room = r}]
  <2>1. streams' \in [Workers -> SUBSET Streams]
    BY <1>1 DEF register_worker
  <2>2. [workers[w] EXCEPT !.conn = k, !.capacity = capacity,
                           !.health = "None", !.deadline = None] \in Worker
    BY <1>0, BoundsAssumption DEF Worker
  <2>3. workers' = [workers EXCEPT ![w] =
          [workers[w] EXCEPT !.conn = k, !.capacity = capacity,
                             !.health = "None", !.deadline = None]]
    BY <1>0, <1>1 DEF register_worker, Worker
  <2>4. workers' \in [Workers -> Worker]
    BY <2>2, <2>3
  <2>5. mine \subseteq Rooms
    BY <1>0 DEF Worker
  <2>6. \A r \in mine : sync(r) \in SyncRoom
    <3> SUFFICES ASSUME NEW r \in mine PROVE sync(r) \in SyncRoom
      OBVIOUS
    <3>1. rooms[r].assignment_epoch \in Nat
      BY <2>5 DEF Room
    <3>2. {p \in OfWorker(w, pending) : p.room = r} \in SUBSET Command
      BY DEF OfWorker
    <3> QED
      BY <2>5, <3>1, <3>2 DEF SyncRoom
  <2>7. syncs' = (syncs \ OfWorker(w, syncs)) \cup {sync(r) : r \in mine}
    BY <1>1 DEF register_worker
  <2>8. syncs' \subseteq SyncRoom
    BY <2>6, <2>7
  <2> QED
    BY <1>1, <2>1, <2>4, <2>8 DEF register_worker
<1>2. ASSUME NEW k \in Streams, WorkerDisconnected(w, k)
      PROVE  TypeOK'
  <2>1. [workers[w] EXCEPT !.conn = None, !.health = "None", !.deadline = Grace]
          \in Worker
    BY <1>0, BoundsAssumption DEF Worker
  <2>2. workers' \in [Workers -> Worker]
    <3>1. \/ workers' = workers
          \/ workers' = [workers EXCEPT ![w] =
                          [workers[w] EXCEPT !.conn = None, !.health = "None",
                                             !.deadline = Grace]]
      BY <1>2 DEF WorkerDisconnected
    <3> QED
      BY <1>0, <2>1, <3>1
  <2>3. streams' \in [Workers -> SUBSET Streams]
    BY <1>2 DEF WorkerDisconnected
  <2>4. wire' \subseteq Command
    BY <1>2 DEF WorkerDisconnected
  <2> QED
    BY <1>2, <2>2, <2>3, <2>4 DEF WorkerDisconnected
<1>3. ASSUME NEW state \in {"Ready", "Draining"}, NEW capacity \in Capacities,
             WorkerHealth(w, state, capacity)
      PROVE  TypeOK'
  <2>1. [workers[w] EXCEPT !.capacity = capacity, !.health = state] \in Worker
    BY <1>0, BoundsAssumption DEF Worker
  <2>2. workers' \in [Workers -> Worker]
    BY <1>0, <1>3, <2>1 DEF WorkerHealth, Worker
  <2> QED
    BY <1>3, <2>2 DEF WorkerHealth
<1>4. ASSUME NEW r \in Rooms, WorkerFailure(w, r)
      PROVE  TypeOK'
  BY <1>4, FailRoomType DEF WorkerFailure
<1> QED
  BY <1>1, <1>2, <1>3, <1>4


\* The passing of time keeps the types.
LEMMA TickTypes ==
  ASSUME TypeOK, Tick
  PROVE  TypeOK'
<1> USE DEF TypeOK, sweepVars
<1>1. \A t \in Nat \cup {None} : Elapsed(t) \in Nat \cup {None}
  BY DEF Elapsed, None
<1>2. workers' \in [Workers -> Worker]
  <2> SUFFICES ASSUME NEW w \in Workers
               PROVE  [workers[w] EXCEPT !.deadline = Elapsed(@)] \in Worker
    BY DEF Tick
  <2>1. workers[w] \in Worker
    OBVIOUS
  <2>2. Elapsed(workers[w].deadline) \in Nat \cup {None}
    BY <1>1, <2>1 DEF Worker
  <2> QED
    BY <2>1, <2>2 DEF Worker
<1>3. rooms' \in [Rooms -> Room]
  <2> DEFINE next(room) == [room EXCEPT !.downgrade_deadline = Elapsed(@),
                                        !.deadline = [c \in Clients |-> Elapsed(@[c])]]
  <2>1. ASSUME NEW room \in Room
        PROVE  next(room) \in Room
    <3>1. Elapsed(room.downgrade_deadline) \in Nat \cup {None}
      BY <1>1 DEF Room
    <3>2. room.deadline \in [Clients -> Nat \cup {None}]
      BY DEF Room
    <3>3. [c \in Clients |-> Elapsed(room.deadline[c])] \in [Clients -> Nat \cup {None}]
      BY <1>1, <3>2
    <3> QED
      BY <3>1, <3>3 DEF Room
  <2> HIDE DEF next
  <2>2. \A r \in Rooms : next(rooms[r]) \in Room
    BY <2>1
  <2>3. rooms' = [r \in Rooms |-> next(rooms[r])]
    BY DEF Tick, next
  <2> QED
    BY <2>2, <2>3
<1> QED
  BY <1>2, <1>3 DEF Tick

\* The start of handle_timeout keeps the types.
LEMMA StartSweepTypes ==
  ASSUME TypeOK, StartSweep
  PROVE  TypeOK'
BY DEF TypeOK, StartSweep

\* expire_worker keeps the types.
LEMMA ExpireWorkerTypes ==
  ASSUME TypeOK, NEW w \in Workers, expire_worker(w)
  PROVE  TypeOK'
<1> USE DEF TypeOK, sweepVars
<1> DEFINE mine == {r \in workers[w].rooms : rooms[r].mode # "Absent"}
           aborted == {r \in mine : rooms[r].mode = "Upgrading"}
           on(v) == {r \in aborted : rooms[r].assigned = v}
           leaves == UNION {AbortLeaves(r) : r \in aborted}
<1>1. workers[w] \in Worker
  OBVIOUS
<1>2. mine \subseteq Rooms /\ aborted \subseteq Rooms
  BY <1>1 DEF Worker
<1>3. leaves \subseteq Command
  <2>1. \A r \in aborted : AbortLeaves(r) \subseteq Command
    BY <1>2, AbortLeavesType
  <2> QED
    BY <2>1
<1>4. rooms' \in [Rooms -> Room]
  <2>1. rooms' = [r \in Rooms |-> CASE r \in aborted -> Aborted(rooms[r])
                                    [] r \in mine \ aborted -> Expired(rooms[r])
                                    [] OTHER -> rooms[r]]
    BY DEF expire_worker
  <2>2. \A r \in Rooms : Aborted(rooms[r]) \in Room /\ Expired(rooms[r]) \in Room
    BY AbortedType, ExpiredType
  <2> HIDE DEF mine, aborted
  <2> QED
    BY <2>1, <2>2
<1>5. workers' \in [Workers -> Worker]
  <2>1. [workers[w] EXCEPT !.deadline = None, !.rooms = {}, !.clients = 0] \in Worker
    BY <1>1 DEF Worker
  <2>2. ASSUME NEW v \in Workers
        PROVE  [workers[v] EXCEPT
                  !.rooms = @ \ on(v),
                  !.clients = SatSub(@, UpgradeClients * Cardinality(on(v)))] \in Worker
    <3>1. on(v) \subseteq Rooms
      BY <1>2
    <3>2. IsFiniteSet(on(v))
      BY <3>1, FS_Subset, IdsAssumption
    <3>3. Cardinality(on(v)) \in Nat
      BY <3>2, FS_CardinalityType
    <3>4. UpgradeClients * Cardinality(on(v)) \in Nat
      BY <3>3 DEF UpgradeClients
    <3>5. workers[v] \in Worker
      OBVIOUS
    <3> HIDE DEF on
    <3>6. SatSub(workers[v].clients, UpgradeClients * Cardinality(on(v))) \in Nat
      BY <3>4, <3>5, SatSubType DEF Worker
    <3> QED
      BY <3>5, <3>6 DEF Worker
  <2>3. workers' = [v \in Workers |->
           IF v = w
             THEN [workers[w] EXCEPT !.deadline = None, !.rooms = {}, !.clients = 0]
             ELSE [workers[v] EXCEPT
                     !.rooms = @ \ on(v),
                     !.clients = SatSub(@, UpgradeClients * Cardinality(on(v)))]]
    BY DEF expire_worker
  <2> HIDE DEF on
  <2> QED
    BY <2>1, <2>2, <2>3
<1>6. pending' \subseteq Command /\ wire' \subseteq Command
  <2>1. pending' = (pending \cup leaves) \ OfWorker(w, pending \cup leaves)
    BY DEF expire_worker
  <2>2. wire' = (wire \cup leaves) \ OfWorker(w, wire \cup leaves)
    BY DEF expire_worker
  <2> HIDE DEF leaves
  <2> QED
    BY <1>3, <2>1, <2>2
<1>7. syncs' \subseteq SyncRoom /\ legs' \subseteq Leg /\ open' \subseteq Request
  BY DEF expire_worker
<1>8. due' \subseteq Workers /\ UNCHANGED <<lifecycle, unswept, streams, overtaken>>
  BY DEF expire_worker
<1> QED
  BY <1>4, <1>5, <1>6, <1>7, <1>8

\* commit_downgrade tells the members' worker, and names each member.
LEMMA DowngradeLeavesType ==
  ASSUME TypeOK, NEW r \in Rooms
  PROVE  DowngradeLeaves(r) \subseteq Command
<1>1. rooms[r] \in Room
  BY DEF TypeOK
<1>2. CASE Connected(rooms[r].assigned)
  <2>1. rooms[r].assigned \in Workers /\ rooms[r].assignment_epoch \in Nat
          /\ rooms[r].members \subseteq Clients
    BY <1>1, <1>2 DEF Room, Connected
  <2>2. \A c \in rooms[r].members : lifecycle[r][c] \in Nat
    BY <2>1 DEF TypeOK
  <2>3. \A c \in rooms[r].members :
          MakeCommand("Cleanup", rooms[r].assigned, r, c, lifecycle[r][c],
                      rooms[r].assignment_epoch) \in Command
    BY <2>1, <2>2, CommandType
  <2> QED
    BY <1>2, <2>3 DEF DowngradeLeaves
<1>3. CASE ~Connected(rooms[r].assigned)
  BY <1>3 DEF DowngradeLeaves
<1> QED
  BY <1>2, <1>3

\* handle_timeout's visit of one room keeps the types.
LEMMA SweepRoomTypes ==
  ASSUME TypeOK, NEW r \in Rooms, SweepRoom(r)
  PROVE  TypeOK'
<1> USE DEF TypeOK, sweepVars
<1>0. rooms[r] \in Room
  OBVIOUS
<1> SUFFICES /\ rooms' \in [Rooms -> Room] /\ workers' \in [Workers -> Worker]
             /\ pending' \subseteq Command /\ wire' \subseteq Command
  BY DEF SweepRoom
<1>1. CASE SweepDowngrade(r)
  <2>1. CASE is_downgrade_eligible(rooms[r])
    <3>1. commit_downgrade(rooms[r]) \in Room
      BY <1>0, <2>1, CommitDowngradeType DEF is_downgrade_eligible
    <3>2. rooms' \in [Rooms -> Room]
      BY <1>1, <2>1, <3>1 DEF SweepDowngrade
    <3>3. rooms[r].members \subseteq Clients
      BY <1>0 DEF Room
    <3>4. Cardinality(rooms[r].members) \in Nat
      BY <3>3, FS_Subset, FS_CardinalityType, IdsAssumption
    <3>5. workers' \in [Workers -> Worker]
      <4> DEFINE n == Cardinality(rooms[r].members)
                 w == rooms[r].assigned
      <4>1. workers' = [workers EXCEPT ![w].rooms = @ \ {r}, ![w].clients = SatSub(@, n)]
        BY <1>1, <2>1 DEF SweepDowngrade
      <4>2. n \in Nat
        BY <3>4
      <4> HIDE DEF n, w
      <4> QED
        BY <4>1, <4>2, ReleaseType
    <3>6. pending' \subseteq Command /\ wire' \subseteq Command
      BY <1>1, <2>1, DowngradeLeavesType DEF SweepDowngrade, Issue
    <3> QED
      BY <3>2, <3>5, <3>6
  <2>2. CASE ~is_downgrade_eligible(rooms[r])
    <3>1. [rooms[r] EXCEPT !.downgrade_deadline = None] \in Room
      BY <1>0 DEF Room
    <3>2. rooms' \in [Rooms -> Room]
      BY <1>1, <2>2, <3>1 DEF SweepDowngrade
    <3> QED
      BY <1>1, <2>2, <3>2 DEF SweepDowngrade
  <2> QED
    BY <2>1, <2>2
<1>2. CASE SweepSfu(r)
  <2>1. PICK c \in ExpiredMembers(rooms[r]) :
          IF CanIssueLeave(r, c)
            THEN /\ rooms' = [rooms EXCEPT ![r].pending_leave =
                                [client |-> c, requested |-> FALSE]]
                 /\ Issue({LeaveCommand(r, c)})
            ELSE /\ rooms' = [rooms EXCEPT ![r].deadline[c] = Grace]
                 /\ UNCHANGED <<pending, wire>>
    BY <1>2 DEF SweepSfu
  <2>2. c \in Clients
    BY <1>0, <2>1 DEF ExpiredMembers, Room
  <2>3. CASE CanIssueLeave(r, c)
    <3>1. [rooms[r] EXCEPT !.pending_leave = [client |-> c, requested |-> FALSE]] \in Room
      BY <1>0, <2>2, PendingLeaveType
    <3>2. rooms' \in [Rooms -> Room]
      BY <2>1, <2>3, <3>1
    <3>3. LeaveCommand(r, c) \in Command
      BY <2>2, <2>3, LeaveCommandType DEF CanIssueLeave
    <3> QED
      BY <1>2, <2>1, <2>3, <3>2, <3>3 DEF SweepSfu, Issue
  <2>4. CASE ~CanIssueLeave(r, c)
    <3>1. [rooms[r] EXCEPT !.deadline[c] = Grace] \in Room
      BY <1>0, <2>2, BoundsAssumption DEF Room
    <3>2. rooms' \in [Rooms -> Room]
      BY <2>1, <2>4, <3>1
    <3> QED
      BY <1>2, <2>1, <2>4, <3>2 DEF SweepSfu
  <2> QED
    BY <2>3, <2>4
<1>3. CASE SweepP2p(r)
  <2> DEFINE rest == DropMembers(rooms[r], ExpiredMembers(rooms[r]))
  <2>1. /\ ReapIfEmpty(rooms[r]) \in Room
        /\ ReapIfEmpty(promote_survivor(rest)) \in Room
    BY <1>0, DropMembersType, PromoteType, ReapType
  <2>2. rooms' \in [Rooms -> Room]
    BY <1>0, <1>3, <2>1 DEF SweepP2p
  <2> QED
    BY <1>3, <2>2 DEF SweepP2p
<1> QED
  BY <1>1, <1>2, <1>3 DEF SweepRoom

\* clear keeps the types.
LEMMA ClearTypes ==
  ASSUME TypeOK, clear
  PROVE  TypeOK'
BY ConstantTypes DEF TypeOK, clear, sweepVars

-----------------------------------------------------------------------------
\* Every step of the room table keeps the types.
LEMMA TypeStep ==
  ASSUME TypeOK, [Next]_vars
  PROVE  TypeOK'
<1>1. CASE UNCHANGED vars
  BY <1>1 DEF TypeOK, vars
<1>2. ASSUME NEW r \in Rooms, NEW c \in Clients,
             Register(r, c) \/ Deregister(r, c) \/ SendSfu(r, c) \/ SendQueued(r, c)
      PROVE  TypeOK'
  BY <1>2, BrowserTypes
<1>3. ASSUME NEW r \in Rooms, NEW c \in Clients,
             \/ AdmitFirst(r, c) \/ AdmitP2p(r, c) \/ AdmitUpgrade(r, c) \/ AdmitSfu(r, c)
             \/ RemoveNow(r, c) \/ RemoveSfu(r, c)
      PROVE  TypeOK'
  BY <1>3, AdmitTypes, RemoveTypes
<1>4. CASE WorkerAnswer
  BY <1>4, BarrierTypes, SfuResultTypes, SyncTypes DEF WorkerAnswer, Result
<1>5. CASE WorkerStream
  BY <1>5, StreamTypes DEF WorkerStream
<1>6. CASE HandleTimeout
  <2>1. ASSUME NEW w \in due, expire_worker(w)
        PROVE  TypeOK'
    BY <2>1, ExpireWorkerTypes DEF TypeOK
  <2>2. ASSUME NEW r \in unswept, SweepRoom(r)
        PROVE  TypeOK'
    BY <2>2, SweepRoomTypes DEF TypeOK
  <2> QED
    BY <1>6, <2>1, <2>2, StartSweepTypes DEF HandleTimeout
<1> QED
  BY <1>1, <1>2, <1>3, <1>4, <1>5, <1>6, TickTypes, ClearTypes
     DEF Next, Operation, Browser, WebServer

\* The room table starts with nothing in it.
LEMMA InitTypes == Init => TypeOK
BY ConstantTypes DEF Init, TypeOK

\* The state of the room table keeps its types whatever the number of rooms,
\* clients, workers and streams.
THEOREM TypeCorrect == Spec => []TypeOK
<1>1. Init => TypeOK
  BY InitTypes
<1>2. TypeOK /\ [Next]_vars => TypeOK'
  BY TypeStep
<1> QED
  BY <1>1, <1>2, PTL DEF Spec

-----------------------------------------------------------------------------
(***************************************************************************)
(* The mode of a room.                                                     *)
(*                                                                         *)
(* RoomsOK, the conjunction of three invariants that the runs check, is    *)
(* inductive: P2pCapacity needs to know what an open barrier may look like *)
(* (abort_upgrade drops one member only) and when a dwell may run          *)
(* (commit_downgrade keeps every member), and they need each other.        *)
(* Almost every operation is quiet: it keeps or fails the mode, adds no    *)
(* member and opens nothing.  The others have a lemma of their own.        *)
(***************************************************************************)

RoomOK(room) == P2pSmall(room) /\ BarrierShape(room) /\ DwellIdle(room)

RoomsOK == \A r \in Rooms : RoomOK(rooms[r])

\* What a step may make of a room.
Good(room, next) == RoomOK(next) /\ EpochStep(room, next)

RoomsStep == \A r \in Rooms : Good(rooms[r], rooms'[r])

-----------------------------------------------------------------------------
(***************************************************************************)
(* Sizes of member sets.                                                   *)
(***************************************************************************)

\* A set of clients inside another one of at most two has at most two.
LEMMA SmallSubset ==
  ASSUME NEW S, NEW T, S \subseteq T, T \subseteq Clients,
         Cardinality(T) <= MAX_P2P_MEMBERS
  PROVE  Cardinality(S) <= MAX_P2P_MEMBERS
<1>1. IsFiniteSet(T)
  BY FS_Subset, IdsAssumption
<1>2. /\ IsFiniteSet(S) /\ Cardinality(S) <= Cardinality(T)
  BY <1>1, FS_Subset
<1>3. Cardinality(S) \in Nat /\ Cardinality(T) \in Nat
  BY <1>1, <1>2, FS_CardinalityType
<1> QED
  BY <1>2, <1>3 DEF MAX_P2P_MEMBERS

\* admit's third client is the first one too many.
LEMMA OneMore ==
  ASSUME NEW S, S \subseteq Clients, NEW c \in Clients,
         Cardinality(S) < MAX_P2P_MEMBERS
  PROVE  Cardinality(S \cup {c}) <= MAX_P2P_MEMBERS
<1>1. IsFiniteSet(S)
  BY FS_Subset, IdsAssumption
<1>2. Cardinality(S) \in Nat
  BY <1>1, FS_CardinalityType
<1>3. Cardinality(S \cup {c}) = IF c \in S THEN Cardinality(S) ELSE Cardinality(S) + 1
  BY <1>1, FS_AddElement
<1> QED
  BY <1>2, <1>3 DEF MAX_P2P_MEMBERS

\* A room and its absence: nobody, nothing open.
LEMMA AbsentOK == RoomOK(AbsentRoom)
BY DEF RoomOK, P2pSmall, BarrierShape, DwellIdle, AbsentRoom, NoUpgrade

-----------------------------------------------------------------------------
(***************************************************************************)
(* Steps of one room.                                                      *)
(***************************************************************************)

\* A quiet step: the mode is kept or becomes Failed, no member comes, no
\* barrier or dwell starts, no join is awaited anew and the epoch stays.
LEMMA QuietStep ==
  ASSUME NEW room \in Room, RoomOK(room), NEW next,
         next.mode \in {room.mode, "Failed"},
         next.members \subseteq room.members,
         next.upgrade = room.upgrade,
         next.pending_join \in {room.pending_join, None},
         next.downgrade_deadline # None => room.downgrade_deadline # None,
         next.signal_epoch = room.signal_epoch
  PROVE  Good(room, next)
<1>1. /\ room.members \subseteq Clients
      /\ room.members \ {room.upgrade.joining} \subseteq Clients
      /\ next.members \ {room.upgrade.joining} \subseteq room.members \ {room.upgrade.joining}
  BY DEF Room
<1>2. P2pSmall(next)
  BY <1>1, SmallSubset DEF RoomOK, P2pSmall
<1>3. BarrierShape(next)
  BY <1>1, SmallSubset DEF RoomOK, BarrierShape
<1>4. DwellIdle(next)
  BY <1>1, SmallSubset DEF RoomOK, DwellIdle
<1>5. EpochStep(room, next)
  <2>1. ~Commits(room, next)
    BY DEF Commits
  <2>2. room.signal_epoch \in Nat
    BY DEF Room
  <2> QED
    BY <2>1, <2>2 DEF EpochStep
<1> QED
  BY <1>2, <1>3, <1>4, <1>5 DEF Good, RoomOK

\* A room that goes away.
LEMMA ReapStep ==
  ASSUME NEW room
  PROVE  Good(room, AbsentRoom)
BY AbsentOK DEF Good, EpochStep, AbsentRoom

\* A room that stays as it is.
LEMMA SameStep ==
  ASSUME NEW room \in Room, RoomOK(room)
  PROVE  Good(room, room)
BY QuietStep

\* admit: the newcomer of a P2P room that is not full.
LEMMA AdmitP2pStep ==
  ASSUME NEW room \in Room, RoomOK(room), NEW c \in Clients,
         room.mode = "P2p", Cardinality(room.members) < MAX_P2P_MEMBERS
  PROVE  Good(room, AddMember(room, c))
<1> DEFINE next == AddMember(room, c)
<1>1. /\ next.mode = "P2p" /\ next.members = room.members \cup {c}
      /\ next.upgrade = room.upgrade
      /\ next.downgrade_deadline = room.downgrade_deadline
      /\ next.signal_epoch = room.signal_epoch /\ room.signal_epoch \in Nat
      /\ room.members \subseteq Clients
  BY DEF AddMember, Room
<1>2. Cardinality(next.members) <= MAX_P2P_MEMBERS
  BY <1>1, OneMore
<1> HIDE DEF next
<1>3. RoomOK(next)
  BY <1>1, <1>2 DEF RoomOK, P2pSmall, BarrierShape, DwellIdle
<1>4. EpochStep(room, next)
  BY <1>1 DEF EpochStep, Commits
<1> QED
  BY <1>3, <1>4 DEF Good, next

\* admit: the client that starts the upgrade of a full P2P room.
LEMMA AdmitUpgradeStep ==
  ASSUME NEW room \in Room, RoomOK(room), NEW c \in Clients, NEW w, NEW todo, NEW ae,
         room.mode = "P2p"
  PROVE  Good(room, [AddMember(room, c) EXCEPT
                       !.mode = "Upgrading", !.assignment_epoch = ae, !.assigned = w,
                       !.upgrade = [joining |-> c, todo |-> todo, joined |-> <<>>]])
<1> DEFINE next == [AddMember(room, c) EXCEPT
                      !.mode = "Upgrading", !.assignment_epoch = ae, !.assigned = w,
                      !.upgrade = [joining |-> c, todo |-> todo, joined |-> <<>>]]
<1>0. AddMember(room, c) \in Room
  BY AddMemberType
<1>1. /\ next.mode = "Upgrading"
      /\ next.upgrade = [joining |-> c, todo |-> todo, joined |-> <<>>]
      /\ next.members = room.members \cup {c}
      /\ next.downgrade_deadline = room.downgrade_deadline
      /\ next.signal_epoch = room.signal_epoch /\ room.signal_epoch \in Nat
      /\ room.members \subseteq Clients
  BY <1>0 DEF AddMember, Room
<1>2. next.upgrade.joining = c /\ next.upgrade # NoUpgrade
  BY <1>1, IdsAssumption DEF NoUpgrade, None
<1> HIDE DEF next
<1>3. next.members \ {c} \subseteq room.members
  BY <1>1
<1>4. Cardinality(next.members \ {c}) <= MAX_P2P_MEMBERS
  BY <1>1, <1>3, SmallSubset DEF RoomOK, P2pSmall
<1>5. next.downgrade_deadline = None
  BY <1>1 DEF RoomOK, DwellIdle
<1>6. RoomOK(next)
  BY <1>1, <1>2, <1>4, <1>5 DEF RoomOK, P2pSmall, BarrierShape, DwellIdle
<1>7. EpochStep(room, next)
  BY <1>1 DEF EpochStep, Commits
<1> QED
  BY <1>6, <1>7 DEF Good, next

\* admit_to_sfu: a further client of an SFU room stops the dwell.
LEMMA AdmitSfuStep ==
  ASSUME NEW room \in Room, RoomOK(room), NEW c \in Clients, room.mode = "Sfu"
  PROVE  Good(room, [AddMember(room, c) EXCEPT !.pending_join = c,
                                               !.downgrade_deadline = None])
<1> DEFINE next == [AddMember(room, c) EXCEPT !.pending_join = c,
                                              !.downgrade_deadline = None]
<1>0. AddMember(room, c) \in Room
  BY AddMemberType
<1>1. /\ next.mode = "Sfu" /\ next.upgrade = room.upgrade
      /\ next.downgrade_deadline = None
      /\ next.signal_epoch = room.signal_epoch /\ room.signal_epoch \in Nat
  BY <1>0 DEF AddMember, Room
<1> HIDE DEF next
<1>2. RoomOK(next)
  BY <1>1 DEF RoomOK, P2pSmall, BarrierShape, DwellIdle
<1>3. EpochStep(room, next)
  BY <1>1 DEF EpochStep, Commits
<1> QED
  BY <1>2, <1>3 DEF Good, next

\* commit_upgrade: the barrier closes into SFU, under the next epoch.
LEMMA CommitUpgradeStep ==
  ASSUME NEW room \in Room, RoomOK(room), room.upgrade # NoUpgrade
  PROVE  Good(room, commit_upgrade(room))
<1> DEFINE next == commit_upgrade(room)
<1>1. /\ next.mode = "Sfu" /\ next.upgrade = NoUpgrade
      /\ next.downgrade_deadline = room.downgrade_deadline
      /\ next.signal_epoch = room.signal_epoch + 1
  BY DEF commit_upgrade, Room
<1>2. room.mode \in {"Upgrading", "Failed"} /\ room.downgrade_deadline = None
  BY DEF RoomOK, BarrierShape
<1> HIDE DEF next
<1>3. RoomOK(next)
  BY <1>1, <1>2 DEF RoomOK, P2pSmall, BarrierShape, DwellIdle
<1>4. EpochStep(room, next)
  BY <1>1, <1>2 DEF EpochStep, Commits
<1> QED
  BY <1>3, <1>4 DEF Good, next

\* abort_upgrade: without its newcomer the room is a P2P room again.
LEMMA AbortedStep ==
  ASSUME NEW room \in Room, RoomOK(room), room.upgrade # NoUpgrade
  PROVE  Good(room, Aborted(room))
<1> DEFINE next == Aborted(room)
           c == room.upgrade.joining
<1>0. DropMembers(room, {c}) \in Room
  BY DropMembersType
<1>1. /\ next.mode = "P2p" /\ next.upgrade = NoUpgrade
      /\ next.members = room.members \ {c}
      /\ next.downgrade_deadline = room.downgrade_deadline
      /\ next.signal_epoch = room.signal_epoch /\ room.signal_epoch \in Nat
  BY <1>0 DEF Aborted, DropMembers, Room
<1>2. /\ room.mode \in {"Upgrading", "Failed"} /\ room.downgrade_deadline = None
      /\ Cardinality(next.members) <= MAX_P2P_MEMBERS
  BY <1>1 DEF RoomOK, BarrierShape
<1> HIDE DEF next
<1>3. RoomOK(next)
  BY <1>1, <1>2 DEF RoomOK, P2pSmall, BarrierShape, DwellIdle
<1>4. EpochStep(room, next)
  BY <1>1, <1>2 DEF EpochStep, Commits
<1> QED
  BY <1>3, <1>4 DEF Good, next

\* arm_downgrade after a member is gone: the dwell runs only if the room is
\* eligible.
LEMMA LeaveStep ==
  ASSUME NEW room \in Room, RoomOK(room), NEW c
  PROVE  Good(room, ReapIfEmpty(arm_downgrade(
           [DropMembers(room, {c}) EXCEPT !.pending_leave = NoLeave])))
<1> DEFINE dropped == DropMembers(room, {c})
           rest == [dropped EXCEPT !.pending_leave = NoLeave]
           next == arm_downgrade(rest)
<1>0. dropped \in Room
  BY DropMembersType
<1>1. rest \in Room
  BY <1>0, ConstantTypes DEF Room
<1>2. /\ rest.mode = room.mode /\ rest.members \subseteq room.members
      /\ rest.upgrade = room.upgrade /\ rest.pending_join = room.pending_join
      /\ rest.downgrade_deadline = room.downgrade_deadline
      /\ rest.signal_epoch = room.signal_epoch
  BY <1>0 DEF DropMembers, Room
<1> HIDE DEF rest
<1>3. Good(room, rest)
  BY <1>2, QuietStep
<1>4. /\ next.mode = rest.mode /\ next.members = rest.members
      /\ next.upgrade = rest.upgrade /\ next.pending_join = rest.pending_join
      /\ next.signal_epoch = rest.signal_epoch
      /\ next.downgrade_deadline # None => is_downgrade_eligible(rest)
  BY <1>1 DEF arm_downgrade, Room
<1> HIDE DEF next
<1>5. RoomOK(next)
  BY <1>3, <1>4 DEF Good, RoomOK, P2pSmall, BarrierShape, DwellIdle, is_downgrade_eligible
<1>6. EpochStep(room, next)
  BY <1>3, <1>4 DEF Good, EpochStep, Commits
<1>7. Good(room, next)
  BY <1>5, <1>6 DEF Good
<1> QED
  BY <1>7, ReapStep DEF ReapIfEmpty, next, rest

\* commit_downgrade: an eligible room fits in P2P, under the next epoch.
LEMMA CommitDowngradeStep ==
  ASSUME NEW room \in Room, RoomOK(room), is_downgrade_eligible(room)
  PROVE  Good(room, commit_downgrade(room))
<1> DEFINE next == commit_downgrade(room)
<1>1. /\ next.mode = "P2p" /\ next.upgrade = room.upgrade
      /\ next.members = room.members
      /\ next.downgrade_deadline = None
      /\ next.signal_epoch = room.signal_epoch + 1
  BY DEF commit_downgrade, Room
<1> HIDE DEF next
<1>2. RoomOK(next)
  BY <1>1 DEF RoomOK, P2pSmall, BarrierShape, DwellIdle, is_downgrade_eligible
<1>3. EpochStep(room, next)
  BY <1>1 DEF EpochStep, Commits, is_downgrade_eligible
<1> QED
  BY <1>2, <1>3 DEF Good, next

\* Members leave a P2P or a failed room at once; a lone survivor is promoted.
LEMMA DropStep ==
  ASSUME NEW room \in Room, RoomOK(room), NEW S
  PROVE  Good(room, ReapIfEmpty(promote_survivor(DropMembers(room, S))))
<1> DEFINE rest == DropMembers(room, S)
           next == promote_survivor(rest)
<1>0. rest \in Room
  BY DropMembersType
<1>1. /\ rest.mode = room.mode /\ rest.members \subseteq room.members
      /\ rest.upgrade = room.upgrade /\ rest.pending_join = room.pending_join
      /\ rest.downgrade_deadline = room.downgrade_deadline
      /\ rest.signal_epoch = room.signal_epoch
  BY DEF DropMembers, Room
<1> HIDE DEF rest
<1>2. /\ next.mode = rest.mode /\ next.members = rest.members
      /\ next.upgrade = rest.upgrade /\ next.pending_join = rest.pending_join
      /\ next.downgrade_deadline = rest.downgrade_deadline
      /\ next.signal_epoch = rest.signal_epoch
  BY <1>0 DEF promote_survivor, Room
<1> HIDE DEF next
<1>3. Good(room, next)
  BY <1>1, <1>2, QuietStep
<1> QED
  BY <1>3, ReapStep DEF ReapIfEmpty, next, rest

\* issue_next_upgrade_join: one more client has joined, the barrier is open.
LEMMA SteppedStep ==
  ASSUME TypeOK, NEW p \in Command, RoomOK(rooms[p.room]),
         rooms[p.room].upgrade # NoUpgrade
  PROVE  Good(rooms[p.room], Stepped(p))
<1> DEFINE room == rooms[p.room]
           next == Stepped(p)
           joined == Append(room.upgrade.joined, p.client)
<1>1. room \in Room /\ p.client \in Clients
  BY DEF TypeOK, Command
<1>2. room.upgrade \in Upgrade
  BY <1>1 DEF Room
<1>3. /\ next.mode = room.mode /\ next.members = room.members
      /\ next.upgrade = [room.upgrade EXCEPT !.todo = Todo(p), !.joined = joined]
      /\ next.pending_join = room.pending_join
      /\ next.downgrade_deadline = room.downgrade_deadline
      /\ next.signal_epoch = room.signal_epoch /\ room.signal_epoch \in Nat
  BY <1>1, <1>2 DEF Stepped, Room, Upgrade
<1>4. joined # <<>>
  BY <1>1, <1>2 DEF Upgrade
<1> HIDE DEF next, joined
<1>5. next.upgrade.joining = room.upgrade.joining /\ next.upgrade # NoUpgrade
  <2>1. /\ next.upgrade.joining = room.upgrade.joining
        /\ next.upgrade.joined = joined
    BY <1>2, <1>3 DEF Upgrade
  <2>2. NoUpgrade.joined = <<>>
    BY DEF NoUpgrade
  <2> QED
    BY <1>4, <2>1, <2>2
<1>6. RoomOK(next)
  BY <1>3, <1>5 DEF RoomOK, P2pSmall, BarrierShape, DwellIdle
<1>7. EpochStep(room, next)
  BY <1>3 DEF EpochStep, Commits
<1> QED
  BY <1>6, <1>7 DEF Good, next

-----------------------------------------------------------------------------
(***************************************************************************)
(* Steps of the table.                                                     *)
(***************************************************************************)

\* A step that touches one room and does it well.
LEMMA OneRoom ==
  ASSUME TypeOK, RoomsOK, NEW r \in Rooms, NEW next, Good(rooms[r], next),
         rooms' = [rooms EXCEPT ![r] = next]
  PROVE  RoomsStep
<1> SUFFICES ASSUME NEW q \in Rooms PROVE Good(rooms[q], rooms'[q])
  BY DEF RoomsStep
<1>1. rooms[q] \in Room /\ RoomOK(rooms[q])
  BY DEF TypeOK, RoomsOK
<1>2. CASE q = r
  BY <1>2 DEF TypeOK
<1>3. CASE q # r
  <2>1. rooms'[q] = rooms[q]
    BY <1>3 DEF TypeOK
  <2> QED
    BY <1>1, <2>1, SameStep
<1> QED
  BY <1>2, <1>3

\* A step that touches one room quietly.
LEMMA OneQuietRoom ==
  ASSUME TypeOK, RoomsOK, NEW r \in Rooms, NEW next,
         rooms' = [rooms EXCEPT ![r] = next],
         next.mode \in {rooms[r].mode, "Failed"},
         next.members \subseteq rooms[r].members,
         next.upgrade = rooms[r].upgrade,
         next.pending_join \in {rooms[r].pending_join, None},
         next.downgrade_deadline # None => rooms[r].downgrade_deadline # None,
         next.signal_epoch = rooms[r].signal_epoch
  PROVE  RoomsStep
<1>1. rooms[r] \in Room /\ RoomOK(rooms[r])
  BY DEF TypeOK, RoomsOK
<1>2. Good(rooms[r], next)
  BY <1>1, QuietStep
<1> QED
  BY <1>2, OneRoom

\* A step that touches no room.
LEMMA NoRoom ==
  ASSUME TypeOK, RoomsOK, rooms' = rooms
  PROVE  RoomsStep
BY SameStep DEF RoomsStep, RoomsOK, TypeOK

\* admit, in its four outcomes, keeps every room within the invariant.
LEMMA AdmitRooms ==
  ASSUME TypeOK, RoomsOK, NEW r \in Rooms, NEW c \in Clients,
         AdmitFirst(r, c) \/ AdmitP2p(r, c) \/ AdmitUpgrade(r, c) \/ AdmitSfu(r, c)
  PROVE  RoomsStep
<1>0. rooms[r] \in Room /\ RoomOK(rooms[r])
  BY DEF TypeOK, RoomsOK
<1>1. CASE AdmitFirst(r, c)
  <2> DEFINE next == [AddMember(AbsentRoom, c) EXCEPT !.mode = "P2p", !.initiators = {c}]
  <2>1. AddMember(AbsentRoom, c) \in Room
    BY ConstantTypes, AddMemberType
  <2>2. /\ next.mode = "P2p" /\ next.members = {c} /\ next.upgrade = NoUpgrade
        /\ next.downgrade_deadline = None
    BY <2>1 DEF AddMember, AbsentRoom, Room
  <2> HIDE DEF next
  <2>3. Cardinality(next.members) = 1
    BY <2>2, FS_Singleton
  <2>4. RoomOK(next)
    BY <2>2, <2>3 DEF RoomOK, P2pSmall, BarrierShape, DwellIdle, MAX_P2P_MEMBERS
  <2>5. Good(rooms[r], next)
    BY <1>1, <2>4 DEF Good, EpochStep, AdmitFirst
  <2>6. rooms' = [rooms EXCEPT ![r] = next]
    BY <1>1 DEF AdmitFirst, next
  <2> QED
    BY <2>5, <2>6, OneRoom
<1>2. CASE AdmitP2p(r, c)
  <2>1. Good(rooms[r], AddMember(rooms[r], c))
    BY <1>0, <1>2, AdmitP2pStep DEF AdmitP2p
  <2>2. rooms' = [rooms EXCEPT ![r] = AddMember(rooms[r], c)]
    BY <1>2 DEF AdmitP2p
  <2> QED
    BY <2>1, <2>2, OneRoom
<1>3. CASE AdmitUpgrade(r, c)
  <2> DEFINE next(w) == [AddMember(rooms[r], c) EXCEPT
                  !.mode = "Upgrading", !.assignment_epoch = rooms[r].assignment_epoch + 1,
                  !.assigned = w,
                  !.upgrade = [joining |-> c, todo |-> rooms[r].members \cup {c},
                               joined |-> <<>>]]
  <2>1. PICK w \in Workers : rooms' = [rooms EXCEPT ![r] = next(w)]
    BY <1>3 DEF AdmitUpgrade
  <2>2. Good(rooms[r], next(w))
    BY <1>0, <1>3, AdmitUpgradeStep DEF AdmitUpgrade
  <2> HIDE DEF next
  <2> QED
    BY <2>1, <2>2, OneRoom
<1>4. CASE AdmitSfu(r, c)
  <2> DEFINE next == [AddMember(rooms[r], c) EXCEPT !.pending_join = c,
                                                    !.downgrade_deadline = None]
  <2>1. rooms' = [rooms EXCEPT ![r] = next]
    BY <1>4 DEF AdmitSfu
  <2>2. Good(rooms[r], next)
    BY <1>0, <1>4, AdmitSfuStep DEF AdmitSfu
  <2> HIDE DEF next
  <2> QED
    BY <2>1, <2>2, OneRoom
<1> QED
  BY <1>1, <1>2, <1>3, <1>4

\* register, deregister, send and remove keep every room within it.
LEMMA ClientRooms ==
  ASSUME TypeOK, RoomsOK, NEW r \in Rooms, NEW c \in Clients,
         \/ Register(r, c) \/ Deregister(r, c) \/ SendSfu(r, c) \/ SendQueued(r, c)
         \/ RemoveNow(r, c) \/ RemoveSfu(r, c)
  PROVE  RoomsStep
<1>0. rooms[r] \in Room /\ RoomOK(rooms[r])
  BY DEF TypeOK, RoomsOK
<1>1. CASE Register(r, c)
  <2> DEFINE next == [rooms[r] EXCEPT
              !.registered = @ \cup {c},
              !.deadline[c] = None,
              !.queued = IF rooms[r].mode = "P2p"
                           THEN [NoQueues EXCEPT ![c] = rooms[r].queued[c]] ELSE @]
  <2>1. rooms' = [rooms EXCEPT ![r] = next]
    BY <1>1 DEF Register
  <2>2. /\ next.mode = rooms[r].mode /\ next.members = rooms[r].members
        /\ next.upgrade = rooms[r].upgrade /\ next.pending_join = rooms[r].pending_join
        /\ next.downgrade_deadline = rooms[r].downgrade_deadline
        /\ next.signal_epoch = rooms[r].signal_epoch
    BY <1>0 DEF Room
  <2> HIDE DEF next
  <2> QED
    BY <2>1, <2>2, OneQuietRoom
<1>2. CASE Deregister(r, c)
  <2> DEFINE gone == [rooms[r] EXCEPT !.registered = @ \ {c}]
             left == [gone EXCEPT !.pending_leave = [client |-> c, requested |-> FALSE]]
             away == [gone EXCEPT !.deadline[c] = Grace]
  <2>1. rooms' = [rooms EXCEPT ![r] = left] \/ rooms' = [rooms EXCEPT ![r] = away]
    BY <1>2 DEF Deregister
  <2>2. ASSUME NEW next \in {left, away}
        PROVE  /\ next.mode = rooms[r].mode /\ next.members = rooms[r].members
               /\ next.upgrade = rooms[r].upgrade
               /\ next.pending_join = rooms[r].pending_join
               /\ next.downgrade_deadline = rooms[r].downgrade_deadline
               /\ next.signal_epoch = rooms[r].signal_epoch
    BY <1>0 DEF Room
  <2> HIDE DEF left, away
  <2> QED
    BY <2>1, <2>2, OneQuietRoom
<1>3. CASE SendSfu(r, c)
  BY <1>3, NoRoom DEF SendSfu
<1>4. CASE SendQueued(r, c)
  <2> DEFINE next(peer) == [rooms[r] EXCEPT !.queued[c] =
                              Append(@, [epoch |-> rooms[r].signal_epoch, peer |-> peer])]
  <2>1. PICK peer : rooms' = [rooms EXCEPT ![r] = next(peer)]
    BY <1>4 DEF SendQueued, TypeOK
  <2>2. /\ next(peer).mode = rooms[r].mode /\ next(peer).members = rooms[r].members
        /\ next(peer).upgrade = rooms[r].upgrade
        /\ next(peer).pending_join = rooms[r].pending_join
        /\ next(peer).downgrade_deadline = rooms[r].downgrade_deadline
        /\ next(peer).signal_epoch = rooms[r].signal_epoch
    BY <1>0 DEF Room
  <2> HIDE DEF next
  <2> QED
    BY <2>1, <2>2, OneQuietRoom
<1>5. CASE RemoveNow(r, c)
  <2>1. Good(rooms[r], ReapIfEmpty(promote_survivor(DropMembers(rooms[r], {c}))))
    BY <1>0, DropStep
  <2> QED
    BY <1>5, <2>1, OneRoom DEF RemoveNow
<1>6. CASE RemoveSfu(r, c)
  <2> DEFINE next == [rooms[r] EXCEPT !.pending_leave = [client |-> c, requested |-> TRUE]]
  <2>1. rooms' = [rooms EXCEPT ![r] = next]
    BY <1>6 DEF RemoveSfu, TypeOK
  <2>2. /\ next.mode = rooms[r].mode /\ next.members = rooms[r].members
        /\ next.upgrade = rooms[r].upgrade /\ next.pending_join = rooms[r].pending_join
        /\ next.downgrade_deadline = rooms[r].downgrade_deadline
        /\ next.signal_epoch = rooms[r].signal_epoch
    BY <1>0 DEF Room
  <2> HIDE DEF next
  <2> QED
    BY <2>1, <2>2, OneQuietRoom
<1> QED
  BY <1>1, <1>2, <1>3, <1>4, <1>5, <1>6

\* The results of the barrier's joins.
LEMMA BarrierRooms ==
  ASSUME TypeOK, RoomsOK, NEW p,
         UpgradeJoinMore(p) \/ UpgradeJoinLast(p) \/ UpgradeJoinErr(p)
  PROVE  RoomsStep
<1>0. p \in Command
  BY DEF UpgradeJoinMore, UpgradeJoinLast, UpgradeJoinErr, SettleAndIssue, TypeOK
<1>a. p.room \in Rooms
  BY <1>0 DEF Command
<1>b. rooms[p.room] \in Room /\ RoomOK(rooms[p.room])
  BY <1>a DEF TypeOK, RoomsOK
<1>1. CASE UpgradeJoinMore(p)
  <2>1. Good(rooms[p.room], Stepped(p))
    BY <1>0, <1>1, <1>b, SteppedStep DEF UpgradeJoinMore
  <2> QED
    BY <1>1, <1>a, <2>1, OneRoom DEF UpgradeJoinMore
<1>2. CASE UpgradeJoinLast(p)
  <2>1. Good(rooms[p.room], commit_upgrade(rooms[p.room]))
    BY <1>2, <1>b, CommitUpgradeStep DEF UpgradeJoinLast
  <2> QED
    BY <1>2, <1>a, <2>1, OneRoom DEF UpgradeJoinLast
<1>3. CASE UpgradeJoinErr(p)
  <2>1. Good(rooms[p.room], Aborted(rooms[p.room]))
    BY <1>3, <1>b, AbortedStep DEF UpgradeJoinErr
  <2> QED
    BY <1>3, <1>a, <2>1, OneRoom DEF UpgradeJoinErr
<1> QED
  BY <1>1, <1>2, <1>3

\* The results of joins and leaves in an SFU room, awaited or not.
LEMMA SfuResultRooms ==
  ASSUME TypeOK, RoomsOK, NEW p,
         SfuJoinOk(p) \/ SfuJoinErr(p) \/ SfuLeaveOk(p) \/ SfuLeaveErr(p) \/ SettleOnly(p)
  PROVE  RoomsStep
<1> DEFINE r == p.room
<1>0. p \in Command
  BY DEF SfuJoinOk, SfuJoinErr, SfuLeaveOk, SfuLeaveErr, SettleOnly, SettleAndIssue, TypeOK
<1>a. r \in Rooms
  BY <1>0 DEF Command
<1>b. rooms[r] \in Room /\ RoomOK(rooms[r])
  BY <1>a DEF TypeOK, RoomsOK
<1>1. CASE SfuJoinOk(p)
  <2> DEFINE next == [rooms[r] EXCEPT !.pending_join = None]
  <2>1. rooms' = [rooms EXCEPT ![r] = next]
    BY <1>1, <1>a DEF SfuJoinOk, TypeOK
  <2>2. /\ next.mode = rooms[r].mode /\ next.members = rooms[r].members
        /\ next.upgrade = rooms[r].upgrade /\ next.pending_join = None
        /\ next.downgrade_deadline = rooms[r].downgrade_deadline
        /\ next.signal_epoch = rooms[r].signal_epoch
    BY <1>b DEF Room
  <2> HIDE DEF next
  <2> QED
    BY <1>a, <2>1, <2>2, OneQuietRoom
<1>2. CASE SfuJoinErr(p)
  <2> DEFINE rest == DropMembers(rooms[r], {rooms[r].pending_join})
             next == [rest EXCEPT !.pending_join = None]
  <2>1. rooms' = [rooms EXCEPT ![r] = next]
    BY <1>2 DEF SfuJoinErr
  <2>2. rest \in Room
    BY <1>b, DropMembersType
  <2>3. /\ next.mode = rooms[r].mode /\ next.members \subseteq rooms[r].members
        /\ next.upgrade = rooms[r].upgrade /\ next.pending_join = None
        /\ next.downgrade_deadline = rooms[r].downgrade_deadline
        /\ next.signal_epoch = rooms[r].signal_epoch
    BY <1>b, <2>2 DEF Room, DropMembers
  <2> HIDE DEF next
  <2> QED
    BY <1>a, <2>1, <2>3, OneQuietRoom
<1>3. CASE SfuLeaveOk(p)
  <2> DEFINE next == ReapIfEmpty(arm_downgrade(
                [DropMembers(rooms[r], {p.client}) EXCEPT !.pending_leave = NoLeave]))
  <2>1. rooms' = [rooms EXCEPT ![r] = next]
    BY <1>3 DEF SfuLeaveOk
  <2>2. Good(rooms[r], next)
    BY <1>b, LeaveStep
  <2> HIDE DEF next
  <2> QED
    BY <1>a, <2>1, <2>2, OneRoom
<1>4. CASE SfuLeaveErr(p)
  <2> DEFINE next == [rooms[r] EXCEPT !.pending_leave = NoLeave]
  <2>1. rooms' = [rooms EXCEPT ![r] = next]
    BY <1>4, <1>a DEF SfuLeaveErr, TypeOK
  <2>2. /\ next.mode = rooms[r].mode /\ next.members = rooms[r].members
        /\ next.upgrade = rooms[r].upgrade /\ next.pending_join = rooms[r].pending_join
        /\ next.downgrade_deadline = rooms[r].downgrade_deadline
        /\ next.signal_epoch = rooms[r].signal_epoch
    BY <1>b DEF Room
  <2> HIDE DEF next
  <2> QED
    BY <1>a, <2>1, <2>2, OneQuietRoom
<1>5. CASE SettleOnly(p)
  BY <1>5, NoRoom DEF SettleOnly
<1> QED
  BY <1>1, <1>2, <1>3, <1>4, <1>5

\* fail_room only sets the mode.
LEMMA FailRooms ==
  ASSUME TypeOK, RoomsOK, NEW r \in Rooms, rooms' = fail_room(r)
  PROVE  RoomsStep
<1> DEFINE next == [rooms[r] EXCEPT !.mode = "Failed"]
<1>0. rooms[r] \in Room
  BY DEF TypeOK
<1>1. rooms' = rooms \/ rooms' = [rooms EXCEPT ![r] = next]
  BY DEF fail_room, TypeOK
<1>2. /\ next.mode = "Failed" /\ next.members = rooms[r].members
      /\ next.upgrade = rooms[r].upgrade /\ next.pending_join = rooms[r].pending_join
      /\ next.downgrade_deadline = rooms[r].downgrade_deadline
      /\ next.signal_epoch = rooms[r].signal_epoch
  BY <1>0 DEF Room
<1> HIDE DEF next
<1> QED
  BY <1>1, <1>2, NoRoom, OneQuietRoom

\* What arrives from the workers, outside of the results above.
LEMMA WorkerRooms ==
  ASSUME TypeOK, RoomsOK,
         WorkerStream \/ \E s \in syncs : SyncOk(s) \/ SyncErr(s)
  PROVE  RoomsStep
<1>1. ASSUME NEW s \in syncs, SyncErr(s)
      PROVE  RoomsStep
  <2>1. s.room \in Rooms
    BY DEF TypeOK, SyncRoom
  <2> QED
    BY <1>1, <2>1, FailRooms DEF SyncErr
<1>2. ASSUME NEW s \in syncs, SyncOk(s)
      PROVE  RoomsStep
  BY <1>2, NoRoom DEF SyncOk
<1>3. ASSUME NEW w \in Workers, NEW r \in Rooms, WorkerFailure(w, r)
      PROVE  RoomsStep
  BY <1>3, FailRooms DEF WorkerFailure
<1>4. ASSUME NEW w \in Workers, NEW k, NEW x, NEW y,
             register_worker(w, k, x) \/ WorkerDisconnected(w, k) \/ WorkerHealth(w, x, y)
      PROVE  RoomsStep
  BY <1>4, NoRoom DEF register_worker, WorkerDisconnected, WorkerHealth
<1> QED
  BY <1>1, <1>2, <1>3, <1>4 DEF WorkerStream

\* Time passes; no deadline is armed by it.
LEMMA TickRooms ==
  ASSUME TypeOK, RoomsOK, Tick
  PROVE  RoomsStep
<1> SUFFICES ASSUME NEW r \in Rooms PROVE Good(rooms[r], rooms'[r])
  BY DEF RoomsStep
<1> DEFINE next == rooms'[r]
<1>1. rooms[r] \in Room /\ RoomOK(rooms[r])
  BY DEF TypeOK, RoomsOK
<1>2. next = [rooms[r] EXCEPT !.downgrade_deadline = Elapsed(@),
                              !.deadline = [c \in Clients |-> Elapsed(@[c])]]
  BY DEF Tick
<1> HIDE DEF next
<1>3. /\ next.mode = rooms[r].mode /\ next.members = rooms[r].members
      /\ next.upgrade = rooms[r].upgrade /\ next.pending_join = rooms[r].pending_join
      /\ next.downgrade_deadline = Elapsed(rooms[r].downgrade_deadline)
      /\ next.signal_epoch = rooms[r].signal_epoch
  BY <1>1, <1>2 DEF Room
<1>4. next.downgrade_deadline # None => rooms[r].downgrade_deadline # None
  BY <1>3 DEF Elapsed, None
<1>5. Good(rooms[r], next)
  BY <1>1, <1>3, <1>4, QuietStep
<1> QED
  BY <1>5 DEF next

\* The loss of a worker gives upgrades up and fails the other rooms.
LEMMA ExpireRooms ==
  ASSUME TypeOK, RoomsOK, NEW w \in Workers, expire_worker(w)
  PROVE  RoomsStep
<1> SUFFICES ASSUME NEW r \in Rooms PROVE Good(rooms[r], rooms'[r])
  BY DEF RoomsStep
<1>1. rooms[r] \in Room /\ RoomOK(rooms[r])
  BY DEF TypeOK, RoomsOK
<1>2. \/ rooms[r].mode = "Upgrading" /\ rooms'[r] = Aborted(rooms[r])
      \/ rooms'[r] = Expired(rooms[r])
      \/ rooms'[r] = rooms[r]
  BY DEF expire_worker
<1>3. rooms[r].mode = "Upgrading" => Good(rooms[r], Aborted(rooms[r]))
  BY <1>1, AbortedStep DEF RoomOK, BarrierShape
<1>4. Good(rooms[r], Expired(rooms[r]))
  <2> DEFINE rest == DropMembers(rooms[r], {rooms[r].pending_join})
             next == Expired(rooms[r])
  <2>1. rest \in Room
    BY <1>1, DropMembersType
  <2>2. /\ next.mode = "Failed" /\ next.members \subseteq rooms[r].members
        /\ next.upgrade = rooms[r].upgrade /\ next.pending_join = None
        /\ next.downgrade_deadline = rooms[r].downgrade_deadline
        /\ next.signal_epoch = rooms[r].signal_epoch
    BY <1>1, <2>1 DEF Room, DropMembers, Expired
  <2> HIDE DEF next
  <2>3. Good(rooms[r], next)
    BY <1>1, <2>2, QuietStep
  <2> QED
    BY <2>3 DEF next
<1> QED
  BY <1>1, <1>2, <1>3, <1>4, SameStep

\* The sweep of one room: a dwell that is over, a leave, or expired members.
LEMMA SweepRooms ==
  ASSUME TypeOK, RoomsOK, NEW r \in Rooms, SweepRoom(r)
  PROVE  RoomsStep
<1>0. rooms[r] \in Room /\ RoomOK(rooms[r])
  BY DEF TypeOK, RoomsOK
<1>1. CASE SweepDowngrade(r)
  <2>1. CASE is_downgrade_eligible(rooms[r])
    <3>1. Good(rooms[r], commit_downgrade(rooms[r]))
      BY <1>0, <2>1, CommitDowngradeStep
    <3> QED
      BY <1>1, <2>1, <3>1, OneRoom DEF SweepDowngrade
  <2>2. CASE ~is_downgrade_eligible(rooms[r])
    <3> DEFINE next == [rooms[r] EXCEPT !.downgrade_deadline = None]
    <3>1. rooms' = [rooms EXCEPT ![r] = next]
      BY <1>1, <2>2 DEF SweepDowngrade, TypeOK
    <3>2. /\ next.mode = rooms[r].mode /\ next.members = rooms[r].members
          /\ next.upgrade = rooms[r].upgrade /\ next.pending_join = rooms[r].pending_join
          /\ next.downgrade_deadline = None
          /\ next.signal_epoch = rooms[r].signal_epoch
      BY <1>0 DEF Room
    <3> HIDE DEF next
    <3> QED
      BY <3>1, <3>2, OneQuietRoom
  <2> QED
    BY <2>1, <2>2
<1>2. CASE SweepSfu(r)
  <2> DEFINE left(c) == [rooms[r] EXCEPT !.pending_leave = [client |-> c, requested |-> FALSE]]
             again(c) == [rooms[r] EXCEPT !.deadline[c] = Grace]
  <2>1. PICK c : rooms' = [rooms EXCEPT ![r] = left(c)] \/ rooms' = [rooms EXCEPT ![r] = again(c)]
    BY <1>2 DEF SweepSfu, TypeOK
  <2>2. ASSUME NEW next \in {left(c), again(c)}
        PROVE  /\ next.mode = rooms[r].mode /\ next.members = rooms[r].members
               /\ next.upgrade = rooms[r].upgrade
               /\ next.pending_join = rooms[r].pending_join
               /\ next.downgrade_deadline = rooms[r].downgrade_deadline
               /\ next.signal_epoch = rooms[r].signal_epoch
    BY <1>0 DEF Room
  <2> HIDE DEF left, again
  <2> QED
    BY <2>1, <2>2, OneQuietRoom
<1>3. CASE SweepP2p(r)
  <2> DEFINE rest == DropMembers(rooms[r], ExpiredMembers(rooms[r]))
             next == IF rooms[r].mode # "P2p" THEN rooms[r]
                     ELSE IF rest = rooms[r] THEN ReapIfEmpty(rooms[r])
                     ELSE ReapIfEmpty(promote_survivor(rest))
  <2>1. rooms' = [rooms EXCEPT ![r] = next]
    BY <1>3 DEF SweepP2p
  <2>2. Good(rooms[r], ReapIfEmpty(promote_survivor(rest)))
    BY <1>0, DropStep
  <2>3. Good(rooms[r], ReapIfEmpty(rooms[r])) /\ Good(rooms[r], rooms[r])
    BY <1>0, SameStep, ReapStep DEF ReapIfEmpty
  <2>4. Good(rooms[r], next)
    BY <2>2, <2>3
  <2> HIDE DEF next
  <2> QED
    BY <2>1, <2>4, OneRoom
<1> QED
  BY <1>1, <1>2, <1>3 DEF SweepRoom

\* Every step of the table.
LEMMA RoomsAlways ==
  ASSUME TypeOK, RoomsOK, [Next]_vars
  PROVE  RoomsStep
<1>1. CASE UNCHANGED vars
  BY <1>1, NoRoom DEF vars
<1>2. CASE Browser \/ WebServer
  BY <1>2, AdmitRooms, ClientRooms DEF Browser, WebServer
<1>3. CASE WorkerAnswer
  BY <1>3, BarrierRooms, SfuResultRooms, WorkerRooms DEF WorkerAnswer, Result
<1>4. CASE clear
  BY <1>4, ReapStep DEF clear, RoomsStep
<1>5. CASE HandleTimeout
  <2>1. ASSUME NEW w \in due, expire_worker(w)
        PROVE  RoomsStep
    BY <2>1, ExpireRooms DEF TypeOK
  <2>2. ASSUME NEW r \in unswept, SweepRoom(r)
        PROVE  RoomsStep
    BY <2>2, SweepRooms DEF TypeOK
  <2>3. StartSweep => RoomsStep
    BY NoRoom DEF StartSweep
  <2> QED
    BY <1>5, <2>1, <2>2, <2>3 DEF HandleTimeout
<1> QED
  BY <1>1, <1>2, <1>3, <1>4, <1>5, WorkerRooms, TickRooms DEF Next, Operation

\* The invariant holds at the start and is kept.
LEMMA RoomsInductive ==
  /\ Init => RoomsOK
  /\ TypeOK /\ RoomsOK /\ [Next]_vars => RoomsOK'
<1>1. Init => RoomsOK
  BY AbsentOK DEF Init, RoomsOK
<1>2. TypeOK /\ RoomsOK /\ [Next]_vars => RoomsOK'
  BY RoomsAlways DEF RoomsOK, RoomsStep, Good
<1> QED
  BY <1>1, <1>2

\* The inductive invariant of the rooms' transitions.
THEOREM RoomsSafe == Spec => []RoomsOK
<1>1. Spec => []TypeOK
  BY TypeCorrect
<1> QED
  BY <1>1, RoomsInductive, PTL DEF Spec

\* No P2P room ever has more than two members, however admissions, given-up
\* upgrades, failures and downgrades interleave.
THEOREM P2pRoomsSmall == Spec => []P2pCapacity
<1>1. RoomsOK => P2pCapacity
  BY DEF RoomsOK, RoomOK, P2pCapacity
<1> QED
  BY <1>1, RoomsSafe, PTL

\* An open barrier can always be given up into a P2P room.
THEOREM BarriersRevocable == Spec => []BarrierRevocable
<1>1. RoomsOK => BarrierRevocable
  BY DEF RoomsOK, RoomOK, BarrierRevocable
<1> QED
  BY <1>1, RoomsSafe, PTL

\* A dwell runs only in a room small enough for P2P with no join awaited.
THEOREM DwellSafe == Spec => []DwellOnlyWhileSmall
<1>1. RoomsOK => DwellOnlyWhileSmall
  BY DEF RoomsOK, RoomOK, DwellOnlyWhileSmall
<1> QED
  BY <1>1, RoomsSafe, PTL

\* The signal epoch of a live room advances exactly with commit_upgrade and
\* commit_downgrade, by one.
THEOREM EpochsSafe == Spec => EpochPerCommit
<1>1. TypeOK /\ RoomsOK /\ [Next]_vars => [\A r \in Rooms : EpochStep(rooms[r], rooms'[r])]_vars
  BY RoomsAlways DEF RoomsStep, Good
<1> QED
  BY <1>1, TypeCorrect, RoomsSafe, PTL DEF Spec, EpochPerCommit

-----------------------------------------------------------------------------
(***************************************************************************)
(* The connections of the workers: CurrentStreamKept.                      *)
(***************************************************************************)

\* No grace runs against a worker that is connected.
StreamsOK == \A w \in Workers : workers[w].conn # None => workers[w].deadline = None

\* Of the loss of its connection a step makes the start of the grace, and of
\* its coming the end.
StreamStep(w) ==
  \/ workers'[w].conn # None /\ workers'[w].deadline = None
  \/ workers'[w].conn = None /\ workers[w].conn \notin streams'[w]
  \/ /\ workers'[w].conn = workers[w].conn
     /\ workers'[w].deadline \in {workers[w].deadline, Elapsed(workers[w].deadline), None}

\* A worker whose books change, or nothing does.
LEMMA BookedStreams ==
  ASSUME TypeOK, NEW v \in Workers,
         \/ workers' = workers
         \/ \E w, S, n : workers' = [workers EXCEPT ![w].rooms = S, ![w].clients = n]
         \/ \E w, S, n : workers' = [workers EXCEPT ![w].clients = n, ![w].rooms = S]
         \/ \E w, n : workers' = [workers EXCEPT ![w].clients = n]
  PROVE  StreamStep(v)
<1>1. workers \in [Workers -> Worker]
  BY DEF TypeOK
<1> DEFINE Same == workers'[v].conn = workers[v].conn /\ workers'[v].deadline = workers[v].deadline
<1>2. ASSUME NEW w, NEW S, NEW n, workers' = [workers EXCEPT ![w].rooms = S, ![w].clients = n]
      PROVE  Same
  BY <1>1, <1>2 DEF Worker
<1>3. ASSUME NEW w, NEW S, NEW n, workers' = [workers EXCEPT ![w].clients = n, ![w].rooms = S]
      PROVE  Same
  BY <1>1, <1>3 DEF Worker
<1>4. ASSUME NEW w, NEW n, workers' = [workers EXCEPT ![w].clients = n]
      PROVE  Same
  BY <1>1, <1>4 DEF Worker
<1> QED
  BY <1>2, <1>3, <1>4 DEF StreamStep

LEMMA ClientStreams ==
  ASSUME TypeOK, Browser \/ WebServer, NEW v \in Workers
  PROVE  StreamStep(v)
<1>1. ASSUME NEW r \in Rooms, NEW c \in Clients,
             \/ Register(r, c) \/ Deregister(r, c) \/ SendSfu(r, c) \/ SendQueued(r, c)
             \/ AdmitFirst(r, c) \/ AdmitP2p(r, c) \/ AdmitSfu(r, c)
             \/ RemoveNow(r, c) \/ RemoveSfu(r, c)
      PROVE  workers' = workers
  BY <1>1 DEF Register, Deregister, SendSfu, SendQueued, AdmitFirst, AdmitP2p, AdmitSfu,
              RemoveNow, RemoveSfu
<1>2. ASSUME NEW r \in Rooms, NEW c \in Clients, AdmitUpgrade(r, c)
      PROVE  StreamStep(v)
  <2>1. PICK w \in Workers :
          workers' = [workers EXCEPT ![w].rooms = @ \cup {r}, ![w].clients = @ + UpgradeClients]
    BY <1>2 DEF AdmitUpgrade
  <2>2. workers \in [Workers -> Worker]
    BY DEF TypeOK
  <2>3. workers'[v].conn = workers[v].conn /\ workers'[v].deadline = workers[v].deadline
    BY <2>1, <2>2 DEF Worker
  <2> QED
    BY <2>3 DEF StreamStep
<1> QED
  BY <1>1, <1>2, BookedStreams DEF Browser, WebServer

LEMMA AnswerStreams ==
  ASSUME TypeOK, WorkerAnswer, NEW v \in Workers
  PROVE  StreamStep(v)
<1>1. ASSUME NEW p \in wire, Result(p)
      PROVE  StreamStep(v)
  <2>1. CASE UpgradeJoinErr(p)
    <3>1. workers' = [workers EXCEPT ![rooms[p.room].assigned].rooms = @ \ {p.room},
                        ![rooms[p.room].assigned].clients = SatSub(@, UpgradeClients)]
      BY <2>1 DEF UpgradeJoinErr
    <3>2. workers \in [Workers -> Worker]
      BY DEF TypeOK
    <3>3. workers'[v].conn = workers[v].conn /\ workers'[v].deadline = workers[v].deadline
      BY <3>1, <3>2 DEF Worker
    <3> QED
      BY <3>3 DEF StreamStep
  <2>2. CASE SfuLeaveOk(p)
    <3>1. \E w, S, n : workers' = [workers EXCEPT ![w].clients = n, ![w].rooms = S]
      BY <2>2 DEF SfuLeaveOk
    <3> QED
      BY <3>1, BookedStreams
  <2>3. CASE SfuJoinOk(p)
    <3>1. \E w, n : workers' = [workers EXCEPT ![w].clients = n]
      BY <2>3 DEF SfuJoinOk
    <3> QED
      BY <3>1, BookedStreams
  <2>4. CASE ~UpgradeJoinErr(p) /\ ~SfuLeaveOk(p) /\ ~SfuJoinOk(p)
    <3>1. workers' = workers
      BY <1>1, <2>4 DEF Result, UpgradeJoinMore, UpgradeJoinLast, SfuJoinErr, SfuLeaveErr, SettleOnly
    <3> QED
      BY <3>1, BookedStreams
  <2> QED
    BY <2>1, <2>2, <2>3, <2>4
<1>2. ASSUME NEW s \in syncs, SyncOk(s) \/ SyncErr(s)
      PROVE  workers' = workers
  BY <1>2 DEF SyncOk, SyncErr
<1> QED
  BY <1>1, <1>2, BookedStreams DEF WorkerAnswer

LEMMA WorkerStreams ==
  ASSUME TypeOK, WorkerStream, NEW v \in Workers
  PROVE  StreamStep(v)
<1>0. workers \in [Workers -> Worker] /\ streams \in [Workers -> SUBSET Streams]
  BY DEF TypeOK
<1>1. ASSUME NEW w \in Workers, NEW k \in Streams, NEW capacity \in Capacities,
             register_worker(w, k, capacity)
      PROVE  StreamStep(v)
  <2>1. workers' = [workers EXCEPT ![w].conn = k, ![w].capacity = capacity,
                                   ![w].health = "None", ![w].deadline = None]
    BY <1>1 DEF register_worker
  <2>2. k # None
    BY IdsAssumption DEF None
  <2>3. /\ v = w => workers'[v].conn = k /\ workers'[v].deadline = None
        /\ v # w => workers'[v] = workers[v]
    BY <1>0, <2>1 DEF Worker
  <2> QED
    BY <2>2, <2>3 DEF StreamStep
<1>2. ASSUME NEW w \in Workers, NEW k \in Streams, WorkerDisconnected(w, k)
      PROVE  StreamStep(v)
  <2>1. CASE k = workers[w].conn /\ v = w
    <3>1. /\ workers' = [workers EXCEPT ![w].conn = None, ![w].health = "None",
                                        ![w].deadline = Grace]
          /\ streams' = [streams EXCEPT ![w] = @ \ {k}]
      BY <1>2, <2>1 DEF WorkerDisconnected
    <3>2. workers'[w].conn = None /\ streams'[w] = streams[w] \ {k}
      BY <1>0, <3>1 DEF Worker
    <3> QED
      BY <2>1, <3>2 DEF StreamStep
  <2>2. CASE k # workers[w].conn \/ v # w
    <3>1. \/ workers' = workers
          \/ v # w /\ workers' = [workers EXCEPT ![w].conn = None, ![w].health = "None",
                                                 ![w].deadline = Grace]
      BY <1>2, <2>2 DEF WorkerDisconnected
    <3>2. workers'[v] = workers[v]
      BY <1>0, <3>1
    <3> QED
      BY <3>2 DEF StreamStep
  <2> QED
    BY <2>1, <2>2
<1>3. ASSUME NEW w \in Workers, NEW x, NEW y, WorkerHealth(w, x, y) \/ WorkerFailure(w, x)
      PROVE  StreamStep(v)
  <2>1. \/ workers' = workers
        \/ workers' = [workers EXCEPT ![w].capacity = y, ![w].health = x]
    BY <1>3 DEF WorkerHealth, WorkerFailure
  <2>2. workers'[v].conn = workers[v].conn /\ workers'[v].deadline = workers[v].deadline
    BY <1>0, <2>1 DEF Worker
  <2> QED
    BY <2>2 DEF StreamStep
<1> QED
  BY <1>1, <1>2, <1>3 DEF WorkerStream

LEMMA TimeStreams ==
  ASSUME TypeOK, Tick \/ clear \/ HandleTimeout, NEW v \in Workers
  PROVE  StreamStep(v)
<1>0. workers \in [Workers -> Worker] /\ streams \in [Workers -> SUBSET Streams]
  BY DEF TypeOK
<1>1. CASE Tick
  <2>1. /\ workers'[v].conn = workers[v].conn
        /\ workers'[v].deadline = Elapsed(workers[v].deadline)
    BY <1>0, <1>1 DEF Tick, Worker
  <2> QED
    BY <2>1 DEF StreamStep
<1>2. CASE clear
  <2>1. workers'[v].conn = None /\ streams'[v] = {}
    BY <1>2 DEF clear, UnknownWorker
  <2> QED
    BY <2>1 DEF StreamStep
<1>3. CASE Idle /\ StartSweep
  BY <1>3, BookedStreams DEF StartSweep
<1>4. ASSUME NEW w \in due, expire_worker(w)
      PROVE  StreamStep(v)
  <2> DEFINE on == {r \in {q \in workers[w].rooms : rooms[q].mode # "Absent"} :
                      rooms[r].mode = "Upgrading"}
             S(x) == workers[x].rooms \ {r \in on : rooms[r].assigned = x}
             n(x) == SatSub(workers[x].clients,
                            UpgradeClients * Cardinality({r \in on : rooms[r].assigned = x}))
  <2>1. workers' = [x \in Workers |->
           IF x = w
             THEN [workers[w] EXCEPT !.deadline = None, !.rooms = {}, !.clients = 0]
             ELSE [workers[x] EXCEPT !.rooms = S(x), !.clients = n(x)]]
    BY <1>4 DEF expire_worker
  <2> HIDE DEF on, S, n
  <2>2. /\ workers'[v].conn = workers[v].conn
        /\ workers'[v].deadline \in {workers[v].deadline, None}
    BY <1>0, <2>1 DEF Worker
  <2> QED
    BY <2>2 DEF StreamStep
<1>5. ASSUME NEW r \in unswept, SweepRoom(r)
      PROVE  StreamStep(v)
  <2>1. CASE SweepDowngrade(r)
    <3>1. \/ workers' = workers
          \/ \E w, S, n : workers' = [workers EXCEPT ![w].rooms = S, ![w].clients = n]
      BY <2>1 DEF SweepDowngrade
    <3> QED
      BY <3>1, BookedStreams
  <2>2. CASE SweepSfu(r) \/ SweepP2p(r)
    <3>1. workers' = workers
      BY <2>2 DEF SweepSfu, SweepP2p
    <3> QED
      BY <3>1, BookedStreams
  <2> QED
    BY <1>5, <2>1, <2>2 DEF SweepRoom
<1> QED
  BY <1>1, <1>2, <1>3, <1>4, <1>5 DEF HandleTimeout

LEMMA StreamsInductive ==
  /\ Init => StreamsOK
  /\ TypeOK /\ TypeOK' /\ StreamsOK /\ [Next]_vars => StreamsOK' /\ \A w \in Workers : StreamStep(w)
<1>1. Init => StreamsOK
  BY DEF Init, StreamsOK, UnknownWorker
<1>2. ASSUME TypeOK, TypeOK', StreamsOK, [Next]_vars, NEW w \in Workers
      PROVE  StreamStep(w) /\ (workers'[w].conn # None => workers'[w].deadline = None)
  <2>1. StreamStep(w)
    <3>1. CASE UNCHANGED vars
      BY <1>2, <3>1, BookedStreams DEF vars
    <3> QED
      BY <1>2, <3>1, ClientStreams, AnswerStreams, WorkerStreams, TimeStreams DEF Next, Operation
  <2>2. workers[w].conn # None => workers[w].deadline = None
    BY <1>2 DEF StreamsOK
  <2>3. Elapsed(None) = None
    BY DEF Elapsed, None
  <2> QED
    BY <2>1, <2>2, <2>3 DEF StreamStep
<1> QED
  BY <1>1, <1>2 DEF StreamsOK

\* No step takes the connection of a worker away, or starts a grace against
\* it, while the stream it registered with last is open.
THEOREM StreamsKept == Spec => CurrentStreamKept
<1>1. TypeOK /\ TypeOK' /\ StreamsOK /\ [Next]_vars =>
        [\A w \in Workers : workers[w].conn \in streams'[w] =>
           workers'[w].conn # None /\ workers'[w].deadline = None]_vars
  <2> SUFFICES ASSUME TypeOK, TypeOK', StreamsOK, [Next]_vars, NEW w \in Workers,
                      workers[w].conn \in streams'[w]
               PROVE  workers'[w].conn # None /\ workers'[w].deadline = None
    OBVIOUS
  <2>1. StreamStep(w) /\ StreamsOK'
    BY StreamsInductive
  <2>2. workers[w].conn # None
    <3>1. streams'[w] \subseteq Streams
      BY DEF TypeOK
    <3> QED
      BY <3>1, IdsAssumption DEF None
  <2>3. workers'[w].conn # None
    BY <2>1, <2>2 DEF StreamStep
  <2> QED
    BY <2>1, <2>3 DEF StreamsOK
<1>2. Spec => []StreamsOK
  BY StreamsInductive, TypeCorrect, PTL DEF Spec
<1> QED
  BY <1>1, <1>2, TypeCorrect, PTL DEF Spec, CurrentStreamKept

=============================================================================
