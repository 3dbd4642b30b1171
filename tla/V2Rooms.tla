------------------------------ MODULE V2Rooms ------------------------------
(***************************************************************************)
(* The V2 room table of the signaling authority (src/src/v2.rs): rooms     *)
(* that start as direct P2P, are upgraded to an SFU worker when a third    *)
(* client is admitted, shrink back to P2P after a dwell, and fail when     *)
(* their worker is lost.                                                   *)
(*                                                                         *)
(* The table is driven through &mut self, so every public operation is one *)
(* atomic step; what interleaves are the operations of browsers, of the    *)
(* web server, of the SFU workers' streams and of the clock.               *)
(*                                                                         *)
(* Abstractions.                                                           *)
(*  - A deadline is the time left until it is due: 0 is due (deadline <=   *)
(*    now), None is not armed, and Tick lets time pass for all of them.    *)
(*  - A command's request id is abstracted to its contents.  The three     *)
(*    maps pending_commands, unacknowledged_commands and command_workers   *)
(*    always have the same keys and are the one set pending; SyncRoom      *)
(*    commands, which alone carry a replay list, are kept apart in syncs.  *)
(*  - A member's lifecycle_id always equals the last value handed out by   *)
(*    next_lifecycle for it: lifecycle is both.                            *)
(*  - Operations that are refused (wrong token, duplicate client, a room   *)
(*    in transition, a stale stream) change nothing and have no step.      *)
(*                                                                         *)
(* A definition X__fault is X with a mistake the code could have made; no  *)
(* other definition uses it.  Each property is seen to fail with one.      *)
(***************************************************************************)
EXTENDS Integers, Sequences, FiniteSets, FiniteSetsExt

CONSTANTS
  Rooms,          \* room ids
  Clients,        \* client ids: u64 in the code, ordered
  Browsers,       \* the clients whose browser ever connects
  Workers,        \* SFU instance ids: ordered, select_worker breaks ties by it
  Streams,        \* connection ids a worker's gRPC stream may have
  Capacities,     \* capacities a worker may announce
  Grace,          \* reconnect_grace, in ticks
  Dwell,          \* downgrade_dwell, in ticks
  MaxQueued,      \* MAX_QUEUED_MESSAGES
  MaxSignals,     \* bound: forwarded signals a worker has not acknowledged
  Failable,       \* the rooms some worker may report as failed
  MaxLifecycles   \* bound: lifecycle ids handed out in one room, all clients

(***************************************************************************)
(* None stands for Option::None of ids and deadlines; ids are natural      *)
(* numbers.                                                                *)
(***************************************************************************)
None == -1

ASSUME IdsAssumption ==
  /\ IsFiniteSet(Rooms) /\ Failable \subseteq Rooms
  /\ IsFiniteSet(Clients) /\ Clients \subseteq Nat /\ Browsers \subseteq Clients
  /\ IsFiniteSet(Workers) /\ Workers \subseteq Nat
  /\ IsFiniteSet(Streams) /\ Streams \subseteq Nat

ASSUME BoundsAssumption ==
  /\ Grace \in Nat \ {0} /\ Dwell \in Nat \ {0}
  /\ MaxQueued \in Nat /\ MaxSignals \in Nat /\ MaxLifecycles \in Nat
  /\ Capacities \subseteq [max_rooms : Nat \ {0}, max_clients : Nat \ {0}]

VARIABLES
  rooms,      \* RoomTable.rooms; an unknown room is Absent
  workers,    \* RoomTable.workers
  lifecycle,  \* RoomTable.lifecycle_ids and every Member.lifecycle_id
  pending,    \* unacknowledged commands other than SyncRoom
  syncs,      \* unacknowledged SyncRoom commands
  due,        \* the sweep of handle_timeout: workers still to expire
  unswept     \* the sweep of handle_timeout: rooms still to visit

(***************************************************************************)
(* The environment: the workers' streams, what travelled on the current    *)
(* one, the legs the workers acknowledged, and the web server's requests   *)
(* that have no answer yet.                                                *)
(***************************************************************************)
VARIABLES
  streams,    \* open streams of each worker
  wire,       \* pending commands sent on the worker's current stream
  legs,       \* memberships a worker confirmed and has not given up
  open        \* admissions and removals still unanswered

\* History: admissions whose member a confirmed leave dropped while they were
\* open.  No action reads it.
VARIABLE overtaken

sweepVars == <<due, unswept>>
vars == <<rooms, workers, lifecycle, pending, syncs, due, unswept,
          streams, wire, legs, open, overtaken>>

-----------------------------------------------------------------------------
(***************************************************************************)
(* Rooms, members, workers and commands.                                   *)
(***************************************************************************)

MAX_P2P_MEMBERS == 2
UpgradeClients == 3     \* the literal 3 of select_worker(3) and its accounting

Modes == {"Absent", "P2p", "Upgrading", "Sfu", "Failed"}

\* A queued frame: the epoch it was sent in and the peer it waits for
\* (None when its sender was alone).
Frame == [epoch : Nat, peer : Clients \cup {None}]

NoQueues == [c \in Clients |-> <<>>]

\* ordered_clients from next_client on is todo: lowest id first, joining last.
Upgrade == [joining : Clients \cup {None},
            todo    : SUBSET Clients,
            joined  : Seq(Clients)]
NoUpgrade == [joining |-> None, todo |-> {}, joined |-> <<>>]

PendingLeave == [client : Clients \cup {None}, requested : BOOLEAN]
NoLeave == [client |-> None, requested |-> FALSE]

Room == [mode               : Modes,
         members            : SUBSET Clients,
         registered         : SUBSET Clients,
         initiators         : SUBSET Clients,
         deadline           : [Clients -> Nat \cup {None}],
         queued             : [Clients -> Seq(Frame)],
         signal_epoch       : Nat,
         assignment_epoch   : Nat,
         assigned           : Workers \cup {None},
         upgrade            : Upgrade,
         pending_join       : Clients \cup {None},
         pending_leave      : PendingLeave,
         downgrade_deadline : Nat \cup {None}]

AbsentRoom == [mode               |-> "Absent",
               members            |-> {},
               registered         |-> {},
               initiators         |-> {},
               deadline           |-> [c \in Clients |-> None],
               queued             |-> NoQueues,
               signal_epoch       |-> 0,
               assignment_epoch   |-> 0,
               assigned           |-> None,
               upgrade            |-> NoUpgrade,
               pending_join       |-> None,
               pending_leave      |-> NoLeave,
               downgrade_deadline |-> None]

\* An instance the table does not know differs from a disconnected one only
\* in the resumed flag of its registration answer.
Worker == [conn     : Streams \cup {None},
           capacity : [max_rooms : Nat, max_clients : Nat],
           health   : {"None", "Ready", "Draining"},
           rooms    : SUBSET Rooms,
           clients  : Nat,
           deadline : Nat \cup {None}]

UnknownWorker == [conn |-> None,
                  capacity |-> [max_rooms |-> 0, max_clients |-> 0], health |-> "None",
                  rooms |-> {}, clients |-> 0, deadline |-> None]

Command == [kind : {"UpgradeJoin", "SfuJoin", "SfuLeave", "Cleanup", "Signal"},
            instance : Workers, room : Rooms, client : Clients,
            lifecycle : Nat, assignment_epoch : Nat]

SyncRoom == [instance : Workers, room : Rooms, assignment_epoch : Nat,
             replay : SUBSET Command]

Leg == [instance : Workers, room : Rooms, client : Clients,
        lifecycle : Nat, assignment_epoch : Nat]

\* The lifecycle tells the requests about one client apart, as the
\* authority's request id does.
Request == [op : {"admit", "remove"}, room : Rooms, client : Clients, lifecycle : Nat]

\* Types of the state; every component keeps to its Rust type.
TypeOK ==
  /\ rooms \in [Rooms -> Room]
  /\ workers \in [Workers -> Worker]
  /\ lifecycle \in [Rooms -> [Clients -> Nat]]
  /\ pending \subseteq Command
  /\ syncs \subseteq SyncRoom
  /\ due \subseteq Workers
  /\ unswept \subseteq Rooms
  /\ streams \in [Workers -> SUBSET Streams]
  /\ wire \subseteq Command
  /\ legs \subseteq Leg
  /\ open \subseteq Request
  /\ overtaken \subseteq {q \in Request : q.op = "admit"}

Init ==
  /\ rooms = [r \in Rooms |-> AbsentRoom]
  /\ workers = [w \in Workers |-> UnknownWorker]
  /\ lifecycle = [r \in Rooms |-> [c \in Clients |-> 0]]
  /\ pending = {} /\ syncs = {} /\ due = {} /\ unswept = {}
  /\ streams = [w \in Workers |-> {}]
  /\ wire = {} /\ legs = {} /\ open = {} /\ overtaken = {}

-----------------------------------------------------------------------------
(***************************************************************************)
(* Helpers shared by the operations.                                       *)
(***************************************************************************)

Idle == due = {} /\ unswept = {}

SatSub__unchecked(a, b) == a - b
SatSub__forgotten(a, b) == a
SatSub(a, b) == IF a >= b THEN a - b ELSE 0

Connected(w) == w # None /\ workers[w].conn # None

\* next_lifecycle for the clients of S, while the bound allows it.
MayStartLifecycle(r, S) ==
  MapThenSumSet(LAMBDA c : lifecycle[r][c], Clients) + Cardinality(S) <= MaxLifecycles
NextLifecycle__newcomers(r, S) ==
  [lifecycle EXCEPT ![r] =
     [c \in Clients |-> IF c \in S /\ @[c] = 0 THEN 1 ELSE @[c]]]
NextLifecycle(r, S) ==
  [lifecycle EXCEPT ![r] =
     [c \in Clients |-> IF c \in S THEN @[c] + 1 ELSE @[c]]]

\* new_member: unregistered, its reconnect grace running, nothing queued.
AddMember(room, c) ==
  [room EXCEPT !.members = @ \cup {c}, !.deadline[c] = Grace]

\* What the clients of S have in f is forgotten.
Reset(f, S, empty) == [c \in Clients |-> IF c \in S THEN empty ELSE f[c]]

\* members.remove: the member's registration, deadline and queue go with it.
DropMembers(room, S) ==
  [room EXCEPT !.members = @ \ S,
               !.registered = @ \ S,
               !.initiators = @ \ S,
               !.deadline = Reset(@, S, None),
               !.queued = Reset(@, S, <<>>)]

\* The room goes when its last member does.
ReapIfEmpty(room) == IF room.members = {} THEN AbsentRoom ELSE room

promote_survivor__missing(room) == room
promote_survivor__keeps_queue(room) ==
  IF Cardinality(room.members) = 1 /\ room.mode = "P2p"
    THEN [room EXCEPT !.initiators = room.members]
    ELSE room

promote_survivor(room) ==
  IF Cardinality(room.members) = 1 /\ room.mode = "P2p"
    THEN [room EXCEPT !.initiators = room.members, !.queued = NoQueues]
    ELSE room

MakeCommand(kind, w, r, c, lc, ae) ==
  [kind |-> kind, instance |-> w, room |-> r, client |-> c,
   lifecycle |-> lc, assignment_epoch |-> ae]

\* queue_command: recorded as unacknowledged and written to the stream.
Issue(cmds) ==
  /\ pending' = pending \cup cmds
  /\ wire' = wire \cup cmds

\* A result for p arrives on the worker's current stream and settles it.
SettleAndIssue(p, cmds) ==
  /\ p \in wire
  /\ Connected(p.instance)
  /\ pending' = (pending \ {p}) \cup cmds
  /\ wire' = (wire \ {p}) \cup cmds

\* The web server's request about the current membership of c.
Answer(op, r, c) ==
  {[op |-> op, room |-> r, client |-> c, lifecycle |-> lifecycle[r][c]]}

\* The worker with the least (assigned_clients, assigned_rooms, instance_id)
\* among the connected, ready ones with room for the upgrade.
Candidates(additional) ==
  {w \in Workers :
     /\ workers[w].conn # None
     /\ workers[w].health = "Ready"
     /\ Cardinality(workers[w].rooms) < workers[w].capacity.max_rooms
     /\ workers[w].clients + additional <= workers[w].capacity.max_clients}

LessLoaded(v, w) ==
  LET a == workers[v].clients
      b == workers[w].clients
      m == Cardinality(workers[v].rooms)
      n == Cardinality(workers[w].rooms)
  IN  \/ a < b
      \/ a = b /\ m < n
      \/ a = b /\ m = n /\ v <= w

select_worker(w, additional) ==
  /\ w \in Candidates(additional)
  /\ \A v \in Candidates(additional) : LessLoaded(w, v)

\* The client whose JoinMember is next: the lowest id, the newcomer last.
NextJoin(todo, joining) ==
  IF todo \ {joining} = {} THEN joining ELSE Min(todo \ {joining})

-----------------------------------------------------------------------------
(***************************************************************************)
(* admit                                                                   *)
(***************************************************************************)

\* The first client of a room creates it, in P2P, as its initiator.
AdmitFirst(r, c) ==
  /\ rooms[r].mode = "Absent"
  /\ MayStartLifecycle(r, {c})
  /\ lifecycle' = NextLifecycle(r, {c})
  /\ rooms' = [rooms EXCEPT ![r] =
       [AddMember(AbsentRoom, c) EXCEPT !.mode = "P2p", !.initiators = {c}]]
  /\ UNCHANGED <<workers, pending, syncs, sweepVars, streams, wire, legs, open, overtaken>>

AdmitP2p(r, c) ==
  /\ rooms[r].mode = "P2p"
  /\ c \notin rooms[r].members
  /\ Cardinality(rooms[r].members) < MAX_P2P_MEMBERS
  /\ MayStartLifecycle(r, {c})
  /\ lifecycle' = NextLifecycle(r, {c})
  /\ rooms' = [rooms EXCEPT ![r] = AddMember(@, c)]
  /\ UNCHANGED <<workers, pending, syncs, sweepVars, streams, wire, legs, open, overtaken>>

\* The third client starts the upgrade barrier: a worker is picked, every
\* member starts a new lifecycle and the first JoinMember goes out.  The
\* answer to the web server waits for the barrier.
AdmitUpgrade(r, c) ==
  LET room == rooms[r]
      all == room.members \cup {c}
      first == NextJoin(all, c)
      ae == room.assignment_epoch + 1
  IN  /\ room.mode = "P2p"
      /\ c \notin room.members
      /\ Cardinality(room.members) >= MAX_P2P_MEMBERS
      /\ MayStartLifecycle(r, all)
      /\ \E w \in Workers :
           /\ select_worker(w, UpgradeClients)
           /\ lifecycle' = NextLifecycle(r, all)
           /\ rooms' = [rooms EXCEPT ![r] =
                [AddMember(room, c) EXCEPT
                   !.mode = "Upgrading",
                   !.assignment_epoch = ae,
                   !.assigned = w,
                   !.upgrade = [joining |-> c, todo |-> all, joined |-> <<>>]]]
           /\ workers' = [workers EXCEPT ![w].rooms = @ \cup {r},
                                         ![w].clients = @ + UpgradeClients]
           /\ Issue({MakeCommand("UpgradeJoin", w, r, first,
                                 lifecycle'[r][first], ae)})
      /\ open' = open \cup Answer("admit", r, c)'
      /\ UNCHANGED <<syncs, sweepVars, streams, legs, overtaken>>

\* A further client of an SFU room joins its worker directly.
AdmitSfu(r, c) ==
  LET room == rooms[r]
      w == room.assigned
  IN  /\ room.mode = "Sfu"
      /\ c \notin room.members
      /\ room.pending_join = None
      /\ room.pending_leave = NoLeave
      /\ Connected(w)
      /\ MayStartLifecycle(r, {c})
      /\ lifecycle' = NextLifecycle(r, {c})
      /\ rooms' = [rooms EXCEPT ![r] =
           [AddMember(room, c) EXCEPT !.pending_join = c,
                                      !.downgrade_deadline = None]]
      /\ Issue({MakeCommand("SfuJoin", w, r, c, lifecycle'[r][c],
                            room.assignment_epoch)})
      /\ open' = open \cup Answer("admit", r, c)'
      /\ UNCHANGED <<workers, syncs, sweepVars, streams, legs, overtaken>>

-----------------------------------------------------------------------------
(***************************************************************************)
(* register, deregister, send, remove                                      *)
(***************************************************************************)

\* The web server hands the admission token out with its answer: a member
\* whose admission waits for the worker cannot present it yet.
HoldsToken(r, c) ==
  /\ c \in Browsers \cap rooms[r].members
  /\ c \notin {rooms[r].upgrade.joining, rooms[r].pending_join}

\* A browser registers; in P2P it is handed what its peer queued for it.
Register(r, c) ==
  LET room == rooms[r]
  IN  /\ room.mode # "Upgrading"
      /\ HoldsToken(r, c)
      /\ c \notin room.registered
      /\ rooms' = [rooms EXCEPT ![r] =
           [room EXCEPT
              !.registered = @ \cup {c},
              !.deadline[c] = None,
              !.queued = IF room.mode = "P2p" THEN [NoQueues EXCEPT ![c] = room.queued[c]]
                                              ELSE @]]
      /\ UNCHANGED <<workers, lifecycle, pending, syncs, sweepVars,
                     streams, wire, legs, open, overtaken>>

\* issue_sfu_leave: possible only with no leave in flight and a live stream.
CanIssueLeave(r, c) ==
  /\ rooms[r].mode = "Sfu"
  /\ rooms[r].pending_leave = NoLeave
  /\ c \in rooms[r].members
  /\ Connected(rooms[r].assigned)

LeaveCommand(r, c) ==
  MakeCommand("SfuLeave", rooms[r].assigned, r, c, lifecycle[r][c],
              rooms[r].assignment_epoch)

\* A browser's socket drops.  In SFU mode the worker is told at once; where
\* that is impossible, and in every other mode, the reconnect grace starts.
Deregister(r, c) ==
  LET gone == [rooms[r] EXCEPT !.registered = @ \ {c}]
  IN  /\ c \in rooms[r].registered
      /\ IF CanIssueLeave(r, c)
           THEN /\ rooms' = [rooms EXCEPT ![r] =
                     [gone EXCEPT !.pending_leave =
                        [client |-> c, requested |-> FALSE]]]
                /\ Issue({LeaveCommand(r, c)})
           ELSE /\ rooms' = [rooms EXCEPT ![r] = [gone EXCEPT !.deadline[c] = Grace]]
                /\ UNCHANGED <<pending, wire>>
      /\ UNCHANGED <<workers, lifecycle, syncs, sweepVars, streams, legs, open, overtaken>>

\* A frame of the current epoch in an SFU room goes to the worker.
SendSfu(r, c) ==
  /\ rooms[r].mode = "Sfu"
  /\ c \in Browsers \cap rooms[r].members
  /\ Connected(rooms[r].assigned)
  /\ Cardinality({p \in pending : p.kind = "Signal"}) < MaxSignals
  /\ Issue({MakeCommand("Signal", rooms[r].assigned, r, c, lifecycle[r][c],
                        rooms[r].assignment_epoch)})
  /\ UNCHANGED <<rooms, workers, lifecycle, syncs, sweepVars, streams, legs, open, overtaken>>

\* In any other settled mode it is queued on its sender when the peer (any
\* other member, the map's order decides) is not registered; a registered
\* peer is written to at once, which leaves the table as it is.
SendQueued(r, c) ==
  LET room == rooms[r]
      others == room.members \ {c}
  IN  /\ room.mode \in {"P2p", "Failed"}
      /\ c \in Browsers \cap room.members
      /\ Len(room.queued[c]) < MaxQueued
      /\ \E peer \in IF others = {} THEN {None} ELSE others \ room.registered :
           rooms' = [rooms EXCEPT ![r].queued[c] =
             Append(@, [epoch |-> room.signal_epoch, peer |-> peer])]
      /\ UNCHANGED <<workers, lifecycle, pending, syncs, sweepVars,
                     streams, wire, legs, open, overtaken>>

Settled(room) ==
  room.mode # "Upgrading" /\ room.pending_join = None /\ room.pending_leave = NoLeave

\* The web server removes a client from a P2P or a failed room.
RemoveNow(r, c) ==
  LET rest == DropMembers(rooms[r], {c})
  IN  /\ rooms[r].mode \in {"P2p", "Failed"}
      /\ c \in rooms[r].members
      /\ Settled(rooms[r])
      /\ rooms' = [rooms EXCEPT ![r] = ReapIfEmpty(promote_survivor(rest))]
      /\ UNCHANGED <<workers, lifecycle, pending, syncs, sweepVars,
                     streams, wire, legs, open, overtaken>>

\* From an SFU room it is removed once the worker confirms the leave.
RemoveSfu(r, c) ==
  /\ rooms[r].mode = "Sfu"
  /\ c \in rooms[r].members
  /\ Settled(rooms[r])
  /\ Connected(rooms[r].assigned)
  /\ rooms' = [rooms EXCEPT ![r].pending_leave = [client |-> c, requested |-> TRUE]]
  /\ Issue({LeaveCommand(r, c)})
  /\ open' = open \cup Answer("remove", r, c)
  /\ UNCHANGED <<workers, lifecycle, syncs, sweepVars, streams, legs, overtaken>>


-----------------------------------------------------------------------------
(***************************************************************************)
(* handle_command_result.  A result is a success (Ok) or anything else     *)
(* (Err): an error, or a success that names another room, client,          *)
(* lifecycle or epoch.                                                     *)
(***************************************************************************)

LegOf(p) == {[instance |-> p.instance, room |-> p.room, client |-> p.client,
              lifecycle |-> p.lifecycle, assignment_epoch |-> p.assignment_epoch]}

\* The join barrier of p's room after one more MemberJoined; the code counts
\* results and does not compare the client with the one it waits for.
Todo__one_early(p) ==
  LET up == rooms[p.room].upgrade
  IN  up.todo \ {NextJoin(up.todo, up.joining), up.joining}

Todo(p) ==
  LET up == rooms[p.room].upgrade
  IN  up.todo \ {NextJoin(up.todo, up.joining)}

Stepped(p) ==
  [rooms[p.room] EXCEPT !.upgrade.todo = Todo(p),
                        !.upgrade.joined = Append(@, p.client)]

\* issue_next_upgrade_join: an error (member or stream gone) issues nothing.
NextUpgradeJoin(p) ==
  LET room == rooms[p.room]
      c == NextJoin(Todo(p), room.upgrade.joining)
  IN  IF c \in room.members /\ Connected(room.assigned)
        THEN {MakeCommand("UpgradeJoin", room.assigned, p.room, c,
                          lifecycle[p.room][c], room.assignment_epoch)}
        ELSE {}

commit_upgrade__keeps_mode(room) ==
  [room EXCEPT !.signal_epoch = @ + 1,
               !.upgrade = NoUpgrade,
               !.initiators = {},
               !.queued = NoQueues]

commit_upgrade__keeps_barrier(room) ==
  [room EXCEPT !.mode = "Sfu", !.signal_epoch = @ + 1, !.initiators = {}, !.queued = NoQueues]

commit_upgrade(room) ==
  [room EXCEPT !.mode = "Sfu",
               !.signal_epoch = @ + 1,
               !.upgrade = NoUpgrade,
               !.initiators = {},
               !.queued = NoQueues]

UpgradeJoinMore(p) ==
  /\ p.kind = "UpgradeJoin"
  /\ rooms[p.room].upgrade # NoUpgrade
  /\ Todo(p) # {}
  /\ SettleAndIssue(p, NextUpgradeJoin(p))
  /\ rooms' = [rooms EXCEPT ![p.room] = Stepped(p)]
  /\ legs' = legs \cup LegOf(p)
  /\ UNCHANGED <<workers, lifecycle, syncs, sweepVars, streams, open, overtaken>>

\* The last MemberJoined commits the SFU mode and answers the admission.
UpgradeJoinLast(p) ==
  LET room == rooms[p.room]
      joining == room.upgrade.joining
  IN  /\ p.kind = "UpgradeJoin"
      /\ room.upgrade # NoUpgrade
      /\ Todo(p) = {}
      /\ SettleAndIssue(p, {})
      /\ rooms' = [rooms EXCEPT ![p.room] = commit_upgrade(room)]
      /\ legs' = legs \cup LegOf(p)
      /\ open' = IF joining \in room.members
                   THEN open \ Answer("admit", p.room, joining) ELSE open
      /\ UNCHANGED <<workers, lifecycle, syncs, sweepVars, streams, overtaken>>

Aborted__keeps_newcomer(room) ==
  [room EXCEPT !.mode = "P2p", !.upgrade = NoUpgrade, !.assigned = None]
Aborted__keeps_mode(room) ==
  [DropMembers(room, {room.upgrade.joining}) EXCEPT
     !.upgrade = NoUpgrade, !.assigned = None]

\* abort_upgrade: the newcomer is dropped and the room is P2P again.
Aborted(room) ==
  [DropMembers(room, {room.upgrade.joining}) EXCEPT
     !.mode = "P2p", !.upgrade = NoUpgrade, !.assigned = None]

\* The members already joined are told to leave, up to the first one that is
\* no longer a member: there the code gives up, the admission unanswered.
Present(room, i) ==
  \A j \in 1..i : room.upgrade.joined[j] \in Aborted(room).members

AbortLeaves(r) ==
  LET room == rooms[r]
      joined == room.upgrade.joined
  IN  IF Connected(room.assigned)
        THEN {MakeCommand("Cleanup", room.assigned, r, joined[i],
                          lifecycle[r][joined[i]], room.assignment_epoch) :
                i \in {j \in DOMAIN joined : Present(room, j)}}
        ELSE {}

AbortAnswer(r) ==
  LET room == rooms[r]
  IN  IF /\ room.assigned # None
         /\ ~Connected(room.assigned) \/ Present(room, Len(room.upgrade.joined))
        THEN Answer("admit", r, room.upgrade.joining) ELSE {}

UpgradeJoinErr(p) ==
  LET r == p.room
      w == rooms[r].assigned
  IN  /\ p.kind = "UpgradeJoin"
      /\ rooms[r].upgrade # NoUpgrade
      /\ SettleAndIssue(p, AbortLeaves(r))
      /\ rooms' = [rooms EXCEPT ![r] = Aborted(@)]
      /\ workers' = [workers EXCEPT ![w].rooms = @ \ {r},
                                    ![w].clients = SatSub(@, UpgradeClients)]
      /\ open' = open \ AbortAnswer(r)
      /\ UNCHANGED <<lifecycle, syncs, sweepVars, streams, legs, overtaken>>

SfuJoinOk(p) ==
  LET room == rooms[p.room]
  IN  /\ p.kind = "SfuJoin"
      /\ room.pending_join # None
      /\ SettleAndIssue(p, {})
      /\ rooms' = [rooms EXCEPT ![p.room].pending_join = None]
      /\ workers' = [workers EXCEPT ![p.instance].clients = @ + 1]
      /\ legs' = legs \cup LegOf(p)
      /\ open' = IF p.client \in room.members
                   THEN open \ Answer("admit", p.room, room.pending_join) ELSE open
      /\ UNCHANGED <<lifecycle, syncs, sweepVars, streams, overtaken>>

SfuJoinErr(p) ==
  LET room == rooms[p.room]
  IN  /\ p.kind = "SfuJoin"
      /\ room.pending_join # None
      /\ SettleAndIssue(p, {})
      /\ rooms' = [rooms EXCEPT ![p.room] =
           [DropMembers(room, {room.pending_join}) EXCEPT !.pending_join = None]]
      /\ open' = open \ Answer("admit", p.room, room.pending_join)
      /\ UNCHANGED <<workers, lifecycle, syncs, sweepVars, streams, legs, overtaken>>

is_downgrade_eligible(room) ==
  /\ room.mode = "Sfu"
  /\ room.members # {}
  /\ Cardinality(room.members) <= MAX_P2P_MEMBERS
  /\ room.upgrade = NoUpgrade
  /\ room.pending_join = None
  /\ room.pending_leave = NoLeave

arm_downgrade__always(room) ==
  [room EXCEPT !.downgrade_deadline = IF @ = None THEN Dwell ELSE @]

\* The dwell starts once and is not pushed out by further churn.
arm_downgrade(room) ==
  [room EXCEPT !.downgrade_deadline =
     IF ~is_downgrade_eligible(room) THEN None ELSE IF @ = None THEN Dwell ELSE @]

LeaveAnswer(r) ==
  IF rooms[r].pending_leave.requested
    THEN Answer("remove", r, rooms[r].pending_leave.client) ELSE {}

SfuLeaveOk(p) ==
  LET r == p.room
      rest == [DropMembers(rooms[r], {p.client}) EXCEPT !.pending_leave = NoLeave]
  IN  /\ p.kind = "SfuLeave"
      /\ rooms[r].pending_leave # NoLeave
      /\ SettleAndIssue(p, {})
      /\ rooms' = [rooms EXCEPT ![r] = ReapIfEmpty(arm_downgrade(rest))]
      /\ workers' = [workers EXCEPT
           ![p.instance].clients = SatSub(@, 1),
           ![p.instance].rooms = IF rest.members = {} THEN @ \ {r} ELSE @]
      /\ legs' = legs \ LegOf(p)
      /\ open' = open \ LeaveAnswer(r)
      /\ overtaken' = overtaken \cup (open \cap Answer("admit", r, p.client))
      /\ UNCHANGED <<lifecycle, syncs, sweepVars, streams>>

\* A refused leave is only answered: no deadline is armed again.
SfuLeaveErr(p) ==
  /\ p.kind = "SfuLeave"
  /\ rooms[p.room].pending_leave # NoLeave
  /\ SettleAndIssue(p, {})
  /\ rooms' = [rooms EXCEPT ![p.room].pending_leave = NoLeave]
  /\ open' = open \ LeaveAnswer(p.room)
  /\ UNCHANGED <<workers, lifecycle, syncs, sweepVars, streams, legs, overtaken>>

\* A result nobody waits for any more only settles its command, as does the
\* result of a Signal or a Cleanup; a success still begins or ends the leg.
Unawaited(p) ==
  \/ p.kind \in {"Signal", "Cleanup"}
  \/ p.kind = "SfuJoin" /\ rooms[p.room].pending_join = None
  \/ p.kind = "SfuLeave" /\ rooms[p.room].pending_leave = NoLeave
  \/ p.kind = "UpgradeJoin" /\ rooms[p.room].upgrade = NoUpgrade

SettleOnly(p) ==
  /\ Unawaited(p)
  /\ SettleAndIssue(p, {})
  /\ \/ legs' = legs
     \/ p.kind \in {"Cleanup", "SfuLeave"} /\ legs' = legs \ LegOf(p)
     \/ p.kind \in {"SfuJoin", "UpgradeJoin"} /\ legs' = legs \cup LegOf(p)
  /\ UNCHANGED <<rooms, workers, lifecycle, syncs, sweepVars, streams, open, overtaken>>

fail_room(r) ==
  IF rooms[r].mode = "Absent" THEN rooms ELSE [rooms EXCEPT ![r].mode = "Failed"]

SyncOk__no_replay(s) ==
  /\ s \in syncs
  /\ Connected(s.instance)
  /\ syncs' = syncs \ {s}
  /\ UNCHANGED <<rooms, workers, lifecycle, pending, sweepVars, streams, wire, legs, open, overtaken>>

\* RoomSynced: the commands unacknowledged at registration are sent again.
SyncOk(s) ==
  /\ s \in syncs
  /\ Connected(s.instance)
  /\ syncs' = syncs \ {s}
  /\ wire' = wire \cup (s.replay \cap pending)
  /\ UNCHANGED <<rooms, workers, lifecycle, pending, sweepVars, streams, legs, open, overtaken>>

SyncErr(s) ==
  /\ s \in syncs
  /\ Connected(s.instance)
  /\ s.room \in Failable
  /\ syncs' = syncs \ {s}
  /\ rooms' = fail_room(s.room)
  /\ UNCHANGED <<workers, lifecycle, pending, sweepVars, streams, wire, legs, open, overtaken>>

-----------------------------------------------------------------------------
(***************************************************************************)
(* handle_sfu_input: registration, health, failure and loss of a worker.   *)
(***************************************************************************)

OfWorker__none(w, cmds) == {}

OfWorker(w, cmds) == {p \in cmds : p.instance = w}

\* A new stream announces the worker and supersedes an older one.  Each room
\* on the worker's books is synced, and its unacknowledged commands wait for
\* that answer before they are sent again.
register_worker(w, k, capacity) ==
  LET replay(r) == {p \in OfWorker(w, pending) : p.room = r}
  IN  /\ k \notin streams[w]
      /\ streams' = [streams EXCEPT ![w] = @ \cup {k}]
      /\ workers' = [workers EXCEPT ![w].conn = k,
                                    ![w].capacity = capacity,
                                    ![w].health = "None",
                                    ![w].deadline = None]
      /\ syncs' = (syncs \ OfWorker(w, syncs)) \cup
           {[instance |-> w, room |-> r,
             assignment_epoch |-> rooms[r].assignment_epoch, replay |-> replay(r)] :
               r \in {q \in workers[w].rooms : rooms[q].mode # "Absent"}}
      /\ wire' = wire \ OfWorker(w, wire)
      /\ UNCHANGED <<rooms, lifecycle, pending, sweepVars, legs, open, overtaken>>

WorkerHealth(w, state, capacity) ==
  /\ Connected(w)
  /\ workers' = [workers EXCEPT ![w].capacity = capacity, ![w].health = state]
  /\ UNCHANGED <<rooms, lifecycle, pending, syncs, sweepVars, streams, wire, legs, open, overtaken>>

\* The worker reports a room as failed; whether the room is, or ever was,
\* assigned to it is not compared.
WorkerFailure(w, r) ==
  /\ Connected(w)
  /\ r \in Failable
  /\ rooms' = fail_room(r)
  /\ UNCHANGED <<workers, lifecycle, pending, syncs, sweepVars, streams, wire, legs, open, overtaken>>

WorkerDisconnected__any_stream(w, k) ==
  /\ k \in streams[w]
  /\ streams' = [streams EXCEPT ![w] = @ \ {k}]
  /\ workers' = [workers EXCEPT ![w].conn = None,
                                ![w].health = "None",
                                ![w].deadline = Grace]
  /\ wire' = wire \ OfWorker(w, wire)
  /\ UNCHANGED <<rooms, lifecycle, pending, syncs, sweepVars, legs, open, overtaken>>

\* Only the loss of the current stream starts the worker's grace.
WorkerDisconnected(w, k) ==
  /\ k \in streams[w]
  /\ streams' = [streams EXCEPT ![w] = @ \ {k}]
  /\ IF k = workers[w].conn
       THEN /\ workers' = [workers EXCEPT ![w].conn = None,
                                          ![w].health = "None",
                                          ![w].deadline = Grace]
            /\ wire' = wire \ OfWorker(w, wire)
       ELSE UNCHANGED <<workers, wire>>
  /\ UNCHANGED <<rooms, lifecycle, pending, syncs, sweepVars, legs, open, overtaken>>

-----------------------------------------------------------------------------
(***************************************************************************)
(* Time, poll_timeout and handle_timeout.                                  *)
(***************************************************************************)

Elapsed(t) == IF t > 0 THEN t - 1 ELSE t

\* One tick passes for every deadline; one that is due stays due.
Tick ==
  /\ \/ \E w \in Workers : workers[w].deadline > 0
     \/ \E r \in Rooms : rooms[r].downgrade_deadline > 0
     \/ \E r \in Rooms, c \in Clients : rooms[r].deadline[c] > 0
  /\ workers' = [w \in Workers |-> [workers[w] EXCEPT !.deadline = Elapsed(@)]]
  /\ rooms' = [r \in Rooms |->
       [rooms[r] EXCEPT !.downgrade_deadline = Elapsed(@),
                        !.deadline = [c \in Clients |-> Elapsed(@[c])]]]
  /\ UNCHANGED <<lifecycle, pending, syncs, sweepVars, streams, wire, legs, open, overtaken>>

PollDue__workers_only == \E w \in Workers : workers[w].deadline = 0
PollDue__ignores_leave ==
  \/ \E w \in Workers : workers[w].deadline = 0
  \/ \E r \in Rooms :
       \/ rooms[r].downgrade_deadline = 0
       \/ /\ rooms[r].mode \in {"P2p", "Sfu"}
          /\ \E c \in Clients : rooms[r].deadline[c] = 0

\* poll_timeout has passed: what the driver arms its timer with.
PollDue ==
  \/ \E w \in Workers : workers[w].deadline = 0
  \/ \E r \in Rooms :
       \/ rooms[r].downgrade_deadline = 0
       \/ /\ \/ rooms[r].mode = "P2p"
             \/ rooms[r].mode = "Sfu" /\ rooms[r].pending_leave = NoLeave
          /\ \E c \in Clients : rooms[r].deadline[c] = 0

\* handle_timeout is one call; its loops, whose order is that of a hash map,
\* are steps here, and nothing else runs before they are through.  The V1
\* table's timeouts call it too: with nothing due it only reaps a P2P room
\* that was left empty.
StartSweep ==
  /\ PollDue \/ \E r \in Rooms : rooms[r].mode = "P2p" /\ rooms[r].members = {}
  /\ due' = {w \in Workers : workers[w].deadline = 0}
  /\ unswept' = {r \in Rooms : rooms[r].mode # "Absent"}
  /\ UNCHANGED <<rooms, workers, lifecycle, pending, syncs, streams, wire, legs, open, overtaken>>

Expired__keeps_mode(room) ==
  [DropMembers(room, {room.pending_join}) EXCEPT
     !.pending_join = None, !.pending_leave = NoLeave]

\* A room of an expired worker that is not upgrading: what it waited for is
\* answered with an error and the room fails.
Expired(room) ==
  [DropMembers(room, {room.pending_join}) EXCEPT
     !.mode = "Failed", !.pending_join = None, !.pending_leave = NoLeave]

ExpiredAnswer__leave_only(r) == LeaveAnswer(r)

ExpiredAnswer(r) ==
  LeaveAnswer(r) \cup
  IF rooms[r].pending_join # None THEN Answer("admit", r, rooms[r].pending_join) ELSE {}

expire_worker(w) ==
  LET mine == {r \in workers[w].rooms : rooms[r].mode # "Absent"}
      aborted == {r \in mine : rooms[r].mode = "Upgrading"}
      on(v) == {r \in aborted : rooms[r].assigned = v}
      leaves == UNION {AbortLeaves(r) : r \in aborted}
      answers == UNION ({AbortAnswer(r) : r \in aborted} \cup
                        {ExpiredAnswer(r) : r \in mine \ aborted})
  IN  /\ w \in due
      /\ due' = due \ {w}
      /\ rooms' = [r \in Rooms |-> CASE r \in aborted -> Aborted(rooms[r])
                                     [] r \in mine \ aborted -> Expired(rooms[r])
                                     [] OTHER -> rooms[r]]
      /\ workers' = [v \in Workers |->
           IF v = w
             THEN [workers[w] EXCEPT !.deadline = None, !.rooms = {}, !.clients = 0]
             ELSE [workers[v] EXCEPT
                     !.rooms = @ \ on(v),
                     !.clients = SatSub(@, UpgradeClients * Cardinality(on(v)))]]
      /\ pending' = (pending \cup leaves) \ OfWorker(w, pending \cup leaves)
      /\ wire' = (wire \cup leaves) \ OfWorker(w, wire \cup leaves)
      /\ syncs' = syncs \ OfWorker(w, syncs)
      /\ legs' = legs \ OfWorker(w, legs)
      /\ open' = open \ answers
      /\ UNCHANGED <<lifecycle, unswept, streams, overtaken>>

commit_downgrade__same_epoch(room) ==
  [room EXCEPT !.mode = "P2p",
               !.downgrade_deadline = None,
               !.assigned = None,
               !.initiators = {Min(room.members)},
               !.queued = NoQueues]

\* commit_downgrade: P2P under a new epoch, the lowest client id offers.
commit_downgrade(room) ==
  [room EXCEPT !.mode = "P2p",
               !.signal_epoch = @ + 1,
               !.downgrade_deadline = None,
               !.assigned = None,
               !.initiators = {Min(room.members)},
               !.queued = NoQueues]

DowngradeLeaves(r) ==
  LET room == rooms[r]
  IN  IF Connected(room.assigned)
        THEN {MakeCommand("Cleanup", room.assigned, r, c, lifecycle[r][c],
                          room.assignment_epoch) : c \in room.members}
        ELSE {}

\* The dwell is over: eligibility is looked at again before P2P is committed.
SweepDowngrade(r) ==
  LET room == rooms[r]
      w == room.assigned
  IN  /\ room.downgrade_deadline = 0
      /\ IF is_downgrade_eligible(room)
           THEN /\ rooms' = [rooms EXCEPT ![r] = commit_downgrade(@)]
                /\ workers' = [workers EXCEPT
                     ![w].rooms = @ \ {r},
                     ![w].clients = SatSub(@, Cardinality(room.members))]
                /\ Issue(DowngradeLeaves(r))
           ELSE /\ rooms' = [rooms EXCEPT ![r].downgrade_deadline = None]
                /\ UNCHANGED <<workers, pending, wire>>

ExpiredMembers(room) == {c \in room.members : room.deadline[c] = 0}

AwaitsLeave(room) ==
  room.mode = "Sfu" /\ room.pending_leave = NoLeave /\ ExpiredMembers(room) # {}

\* An SFU member whose grace ran out leaves, one of them at a time; while the
\* worker cannot be told the grace starts over.
SweepSfu(r) ==
  /\ rooms[r].downgrade_deadline # 0
  /\ AwaitsLeave(rooms[r])
  /\ \E c \in ExpiredMembers(rooms[r]) :
       IF CanIssueLeave(r, c)
         THEN /\ rooms' = [rooms EXCEPT ![r].pending_leave =
                             [client |-> c, requested |-> FALSE]]
              /\ Issue({LeaveCommand(r, c)})
         ELSE /\ rooms' = [rooms EXCEPT ![r].deadline[c] = Grace]
              /\ UNCHANGED <<pending, wire>>
  /\ UNCHANGED workers

\* In P2P every expired member goes at once and a lone survivor is promoted.
SweepP2p(r) ==
  LET room == rooms[r]
      rest == DropMembers(room, ExpiredMembers(room))
  IN  /\ room.downgrade_deadline # 0
      /\ ~AwaitsLeave(room)
      /\ rooms' = [rooms EXCEPT ![r] =
           IF room.mode # "P2p" THEN @
           ELSE IF rest = room THEN ReapIfEmpty(room)
           ELSE ReapIfEmpty(promote_survivor(rest))]
      /\ UNCHANGED <<workers, pending, wire>>

SweepRoom(r) ==
  /\ due = {}
  /\ r \in unswept
  /\ unswept' = unswept \ {r}
  /\ SweepDowngrade(r) \/ SweepSfu(r) \/ SweepP2p(r)
  /\ UNCHANGED <<lifecycle, syncs, due, streams, legs, open, overtaken>>

-----------------------------------------------------------------------------
\* clear: the shutdown of the collider forgets all but the lifecycle ids.
clear ==
  /\ rooms' = [r \in Rooms |-> AbsentRoom]
  /\ workers' = [w \in Workers |-> UnknownWorker]
  /\ pending' = {} /\ syncs' = {}
  /\ streams' = [w \in Workers |-> {}]
  /\ wire' = {} /\ legs' = {} /\ open' = {} /\ overtaken' = {}
  /\ UNCHANGED <<lifecycle, sweepVars>>

Browser ==
  \E r \in Rooms, c \in Clients :
    Register(r, c) \/ Deregister(r, c) \/ SendSfu(r, c) \/ SendQueued(r, c)

WebServer ==
  \E r \in Rooms, c \in Clients :
    \/ AdmitFirst(r, c) \/ AdmitP2p(r, c) \/ AdmitUpgrade(r, c) \/ AdmitSfu(r, c)
    \/ RemoveNow(r, c) \/ RemoveSfu(r, c)

Result(p) ==
  \/ UpgradeJoinMore(p) \/ UpgradeJoinLast(p) \/ UpgradeJoinErr(p)
  \/ SfuJoinOk(p) \/ SfuJoinErr(p) \/ SfuLeaveOk(p) \/ SfuLeaveErr(p)
  \/ SettleOnly(p)

WorkerAnswer ==
  \/ \E p \in wire : Result(p)
  \/ \E s \in syncs : SyncOk(s) \/ SyncErr(s)

WorkerStream ==
  \E w \in Workers :
    \/ \E k \in Streams, capacity \in Capacities : register_worker(w, k, capacity)
    \/ \E k \in Streams : WorkerDisconnected(w, k)
    \/ \E state \in {"Ready", "Draining"}, capacity \in Capacities :
         WorkerHealth(w, state, capacity)
    \/ \E r \in Rooms : WorkerFailure(w, r)

HandleTimeout ==
  \/ Idle /\ StartSweep
  \/ \E w \in due : expire_worker(w)
  \/ \E r \in unswept : SweepRoom(r)

Operation == Browser \/ WebServer \/ WorkerAnswer \/ WorkerStream \/ Tick \/ clear

Next == (Idle /\ Operation) \/ HandleTimeout

Spec == Init /\ [][Next]_vars

-----------------------------------------------------------------------------
(***************************************************************************)
(* Fairness.  The driver sleeps until poll_timeout and hands the time back *)
(* (Tick, HandleTimeout).  A worker that keeps coming back answers what it *)
(* is asked: a SyncRoom or the join of an upgrade that is put to it again  *)
(* and again is answered in the end, with a success or an error.  Nothing  *)
(* is assumed of browsers, of the web server or of the streams.            *)
(***************************************************************************)
Fairness ==
  /\ WF_vars(Idle /\ Tick)
  /\ WF_vars(HandleTimeout)
  /\ \A r \in Rooms :
       /\ SF_vars(Idle /\ \E p \in wire :
                    p.room = r /\ p.kind = "UpgradeJoin" /\ Result(p))
       /\ SF_vars(Idle /\ \E s \in syncs : s.room = r /\ (SyncOk(s) \/ SyncErr(s)))

FairSpec == Spec /\ Fairness

-----------------------------------------------------------------------------
(***************************************************************************)
(* Safety.  fail_room sets the mode and leaves the barrier, the pending    *)
(* results and the worker's books as they are; what it invalidates is      *)
(* claimed for the rooms that no worker reports as failed, and the runs    *)
(* with a failable room check the rest.                                    *)
(***************************************************************************)

P2pSmall(room) == room.mode = "P2p" => Cardinality(room.members) <= MAX_P2P_MEMBERS

\* A P2P room holds at most two members, however it became P2P: by admission,
\* by an upgrade that was given up (even in a room that failed meanwhile) or
\* by a downgrade, which looks at the size again when the dwell is over.
P2pCapacity == \A r \in Rooms : P2pSmall(rooms[r])

\* Exactly one member of a P2P room offers, through departures, promotions,
\* aborted upgrades and downgrades; in SFU mode none does.
SoleInitiator ==
  \A r \in Rooms \ Failable :
    /\ rooms[r].mode \in {"P2p", "Upgrading"} => Cardinality(rooms[r].initiators) = 1
    /\ rooms[r].mode = "Sfu" => rooms[r].initiators = {}
    /\ rooms[r].initiators \subseteq rooms[r].members

\* q is the admission the barrier or the pending join of its room will answer.
Awaited(q) ==
  /\ q.lifecycle = lifecycle[q.room][q.client]
  /\ q.client \in {rooms[q.room].upgrade.joining, rooms[q.room].pending_join}

\* The membership q is about has ended.
Ended(q) ==
  q.client \notin rooms[q.room].members \/ q.lifecycle # lifecycle[q.room][q.client]

\* An admission of room r that nobody will answer because a leave overtook it:
\* the newcomer's grace was over, and its leave answered, before its join was
\* (the violated AdmissionsAwaited).  If the room went with it, its join is left
\* behind, and the answer is taken for that of a later newcomer of the room.
Outlived(r) ==
  \E q \in open \cap overtaken : q.room = r /\ Ended(q) /\ ~Awaited(q)

\* The membership of c that the table believes its worker has.
LegFor(r, c) ==
  [instance |-> rooms[r].assigned, room |-> r, client |-> c,
   lifecycle |-> lifecycle[r][c], assignment_epoch |-> rooms[r].assignment_epoch]

\* The barrier: SFU is committed only when every member is joined on the
\* assigned worker, under its current lifecycle and assignment epoch; later
\* members have joined too, but for the one whose join is outstanding.
SfuMembersJoined ==
  \A r \in Rooms \ Failable :
    rooms[r].mode = "Sfu" /\ ~Outlived(r) =>
      \A c \in rooms[r].members \ {rooms[r].pending_join} : LegFor(r, c) \in legs

\* A lifecycle id is joined under one assignment only: a worker can tell the
\* commands of an earlier upgrade from those of the current one.
LifecycleFresh ==
  \A l, m \in legs \cup UNION {LegOf(p) : p \in pending} :
    l.room = m.room /\ l.client = m.client /\ l.lifecycle = m.lifecycle => l = m

\* A worker's books hold exactly the rooms that run on it: its loss fails all
\* of them and no other, and a released room frees its place.
WorkerBooks ==
  \A r \in Rooms \ Failable, w \in Workers :
    r \in workers[w].rooms <=>
      rooms[r].assigned = w /\ rooms[r].mode \in {"Upgrading", "Sfu"}

\* An upgrading room is on the books of its worker even when rooms fail: the
\* worker's expiry gives the upgrade up and answers the admission.
UpgradeOnBooks ==
  \A r \in Rooms :
    rooms[r].mode = "Upgrading" =>
      /\ rooms[r].assigned # None
      /\ r \in workers[rooms[r].assigned].rooms

\* The clients a room brings to its worker: three for an upgrade in progress.
Load(r) == IF rooms[r].mode = "Upgrading" THEN UpgradeClients
                                          ELSE Cardinality(rooms[r].members)

\* A place for every client that the rooms of S bring, load[r] of them for r.
Places(S, load) == UNION {{r} \X (1..load[r]) : r \in S}

\* assigned_clients never exceeds the clients of the worker's rooms (three
\* for an upgrade in progress): a load that is not there would keep
\* select_worker away from the worker for good.
LoadNotOvercounted ==
  Failable = {} /\ ~(\E r \in Rooms : Outlived(r)) =>
    \A w \in Workers :
      workers[w].clients <=
        Cardinality(Places(workers[w].rooms, [r \in Rooms |-> Load(r)]))

\* The web server's open requests have someone who will answer them: a
\* removal the pending leave, an admission the barrier or the pending join.
\* An admission is lost only to a leave that overtook the join of its member,
\* there or in an earlier admission of the room; one whose member goes with a
\* refused join, an upgrade given up or an expired worker is answered.
RequestsAwaited ==
  \A q \in open : q.room \notin Failable =>
    /\ q.op = "remove" =>
         rooms[q.room].pending_leave = [client |-> q.client, requested |-> TRUE]
    /\ q.op = "admit" /\ ~Outlived(q.room) => Awaited(q)

\* p is unacknowledged and will reach its worker.
Travelling(p) ==
  /\ p \in pending
  /\ Connected(p.instance) => p \in wire \/ \E s \in syncs : p \in s.replay

\* The command a transition waits for is unacknowledged and, while its worker
\* is connected, on the stream or behind the SyncRoom that replays it: no
\* disconnect, reconnect or superseded stream leaves a room waiting for an
\* answer nobody was asked for.
GateInFlight ==
  \A r \in Rooms \ Failable :
    LET room == rooms[r]
        cmd(kind, c) == MakeCommand(kind, room.assigned, r, c, lifecycle[r][c],
                                    room.assignment_epoch)
    IN  /\ room.mode = "Upgrading" =>
             Travelling(cmd("UpgradeJoin",
                            NextJoin(room.upgrade.todo, room.upgrade.joining)))
        /\ room.pending_join # None => Travelling(cmd("SfuJoin", room.pending_join))
        /\ room.pending_leave # NoLeave =>
             Travelling(cmd("SfuLeave", room.pending_leave.client))

\* A result can only advance the barrier that asked for it: the code counts
\* MemberJoined results without comparing the client.
BarrierCommand ==
  \A p \in pending : p.kind = "UpgradeJoin" /\ p.room \notin Failable =>
    LET room == rooms[p.room]
    IN  /\ room.mode = "Upgrading"
        /\ p.client = NextJoin(room.upgrade.todo, room.upgrade.joining)
        /\ p.assignment_epoch = room.assignment_epoch

\* Frames wait in a P2P room only for a peer that is away, and carry the
\* current epoch: a registered peer has been handed all of them, and none is
\* left over for whoever takes a departed peer's place.
QueuedForAbsentPeer ==
  \A r \in Rooms \ Failable : rooms[r].mode = "P2p" =>
    \A c \in rooms[r].members :
      LET q == rooms[r].queued[c]
      IN  q # <<>> =>
            /\ rooms[r].registered \subseteq {c}
            /\ \A i \in DOMAIN q : /\ q[i].epoch = rooms[r].signal_epoch
                                   /\ q[i].peer \in {None} \cup rooms[r].members

DwellIdle(room) ==
  room.downgrade_deadline # None =>
    /\ room.mode \in {"Sfu", "Failed"}
    /\ Cardinality(room.members) <= MAX_P2P_MEMBERS
    /\ room.pending_join = None

\* A running downgrade dwell has been stopped by every admission and by the
\* downgrade itself: it runs only in an SFU room of at most two members that
\* awaits no join.  That the room failed meanwhile, or that a leave is in
\* flight, does not stop it (the violated DwellStable).
DwellOnlyWhileSmall == \A r \in Rooms : DwellIdle(rooms[r])

BarrierShape(room) ==
  /\ room.mode = "Upgrading" => room.upgrade # NoUpgrade
  /\ room.upgrade # NoUpgrade =>
       /\ room.mode \in {"Upgrading", "Failed"}
       /\ Cardinality(room.members \ {room.upgrade.joining}) <= MAX_P2P_MEMBERS
       /\ room.downgrade_deadline = None

\* A barrier is open in every upgrading room, and otherwise only in a room
\* that failed meanwhile.  No dwell runs then, and its newcomer is the only
\* member too many: giving the upgrade up leaves a P2P room.
BarrierRevocable == \A r \in Rooms : BarrierShape(rooms[r])

\* The branches of handle_timeout's loop that change the room.
SweepHasWork(r) ==
  \/ rooms[r].downgrade_deadline = 0
  \/ AwaitsLeave(rooms[r])
  \/ rooms[r].mode = "P2p" /\ ExpiredMembers(rooms[r]) # {}

\* poll_timeout asks for the sweep exactly when a deadline of handle_timeout's
\* is due: none is slept over and none keeps the driver spinning.  (A P2P room
\* left empty has no deadline; the next sweep, whoever asked for it, reaps it.)
PollExact ==
  PollDue <=> \/ \E w \in Workers : workers[w].deadline = 0
              \/ \E r \in Rooms : SweepHasWork(r)

-----------------------------------------------------------------------------
(***************************************************************************)
(* Action properties.                                                      *)
(***************************************************************************)

Commits(room, next) ==
  \/ next.mode = "Sfu" /\ room.mode # "Sfu"
  \/ next.mode = "P2p" /\ room.mode = "Sfu"

EpochStep(room, next) ==
  room.mode # "Absent" /\ next.mode # "Absent" =>
    next.signal_epoch = room.signal_epoch + (IF Commits(room, next) THEN 1 ELSE 0)

\* The signal epoch of a live room advances by one when SFU or, from SFU,
\* P2P is committed, and at no other step: frames of the retired mode are
\* told apart, frames of the current one are not dropped.
EpochPerCommit == [][\A r \in Rooms : EpochStep(rooms[r], rooms'[r])]_vars

\* An admission the web server waits for is completed, and its client stays,
\* only in a committed mode.
AdmissionInCommittedMode ==
  [][\A q \in open \ open' :
       q.op = "admit" /\ q.room \notin Failable /\ q.client \in rooms'[q.room].members =>
         rooms'[q.room].mode \in {"P2p", "Sfu"}]_vars

\* While the stream a worker registered with last is open, no step takes its
\* connection away or lets a grace run against it: not the end of a superseded
\* stream, which may come late, nor the grace of an earlier loss.
CurrentStreamKept ==
  [][\A w \in Workers :
       workers[w].conn \in streams'[w] =>
         workers'[w].conn # None /\ workers'[w].deadline = None]_vars

-----------------------------------------------------------------------------
(***************************************************************************)
(* Liveness.                                                               *)
(***************************************************************************)

\* Every upgrade ends, committed or given up, however its worker's stream
\* comes and goes.
UpgradeResolves ==
  \A r \in Rooms :
    rooms[r].mode = "Upgrading" ~> rooms[r].mode # "Upgrading"

\* The reconnect grace of a P2P member ends: the member is back or gone.
GraceEnds ==
  \A r \in Rooms, c \in Clients :
    (rooms[r].mode = "P2p" /\ rooms[r].deadline[c] # None) ~>
      (rooms[r].mode # "P2p" \/ rooms[r].deadline[c] = None)

-----------------------------------------------------------------------------
(***************************************************************************)
(* Statements of the repository that the code does not keep.               *)
(***************************************************************************)

\* README: "A room that sits at no more than two members for the downgrade
\* dwell commits `P2P` again": a room that may be downgraded has its dwell
\* running.
DwellArmed ==
  \A r \in Rooms :
    is_downgrade_eligible(rooms[r]) => rooms[r].downgrade_deadline # None

\* v2.rs: the dwell's deadline is "cleared whenever the room stops being a
\* stable <=2-member SFU room (a third joins, or a transition starts)".
DwellStable ==
  \A r \in Rooms :
    rooms[r].downgrade_deadline # None => is_downgrade_eligible(rooms[r])

\* README: a reconnected worker is sent the "unacknowledged commands after a
\* `SyncRoom`": every one is on its stream or behind a SyncRoom.
UnacknowledgedReplayed == \A p \in pending : Travelling(p)

\* README: "Results of AuthorityCommands come back here": an open admission
\* has someone who will answer it.
AdmissionsAwaited == \A q \in open : q.op = "admit" => Awaited(q)
=============================================================================
