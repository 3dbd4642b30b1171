# A verification project for the WebRTC signaling authority

The crate under `src/` is the signaling authority of a WebRTC service: a sans-I/O state machine that brings two
browsers of a room together directly (P2P), and moves a room to an SFU worker when a third one arrives. This directory
holds TLA+ specifications of it, the TLC instances that check them, and TLAPS proofs.

## 1. The system

| Component | Source | State | Operations |
|---|---|---|---|
| V2 room table | `src/src/v2.rs` | `rooms` (mode, members, epochs, assignment, open barrier, pending join and leave, dwell), `workers` (stream, capacity, health, books, grace), lifecycle ids, pending/unacknowledged commands | `admit`, `register`, `deregister`, `send`, `remove`, `handle_sfu_input` (register, result, health, failure, signal, disconnect), `poll_timeout`, `handle_timeout`, `clear` |
| Event de-duplication | `src/src/v2.rs:854-929` | per worker: the last 4096 event ids, as a set and a queue | record, forget the oldest |
| Room token codec | `src/src/v2.rs:28-74` | none | `new_room_id`, `parse_room_token`, `format_room_token` |
| SFU sessions | `src/src/sfu.rs` | none: the vocabulary between the authority and a worker | commands, results, events |
| Collider | `src/src/collider.rs` | browser sessions, connection maps, output and response queues | browser text/connect/disconnect, authority commands, worker input, timeouts, `clear` |
| V1 room table | `src/src/room_table.rs`, `room.rs`, `client.rs` | rooms of at most two clients, registration, initiator, queued messages, timers | join, leave, register, deregister, send, timeout |
| Browser messages | `src/src/messages.rs` | none | (de)serialisation |
| Protocol contract | `src/signaling-proto/` | none | gRPC schema and generated code |
| Driver | not in the repository | sockets, streams, clock | feeds inputs, drains outputs, sleeps until `poll_timeout` |

**How they interact.** Browsers and the web server (which admits and removes clients over gRPC) reach the tables through
the collider; workers reach the V2 table through `handle_sfu_input`. Every input is handled to the end under
`&mut self`; what an input causes (a frame, a worker command, a response) is queued and drained by the driver. Nothing
inside the crate runs concurrently. All that is hard is in *the order of inputs*: a worker's answer arrives many inputs
after the command that asked for it, and in between browsers leave, graces run out, streams drop and come back, a room
may fail, vanish and be created again under the same id.

**What is hard**, and so what the properties are for (the list with line numbers is `hazards` in `PROJECT.json`):

* the upgrade barrier: joins are issued one at a time, results are counted, and the barrier can be given up at any point;
* commands that outlive a stream: unacknowledged ones wait behind a `SyncRoom` on the next stream, which may itself be
  superseded;
* time: five kinds of deadlines, and a `poll_timeout` that must agree with what `handle_timeout` acts on;
* stale answers: lifecycle ids and assignment epochs are all that tells an earlier assignment from the current one;
* books: `assigned_rooms` and `assigned_clients` are adjusted in six places and reset in one;
* partial failure: a refused join or leave, a room that fails in the middle of a transition, a worker that expires.

**What makes each component correct.** *V2 table*: a P2P room is small and has one initiator; SFU is committed only when
everyone is on the worker; epochs change exactly with committed modes; every transition is waited for by a command that
is in flight; every worker's books are right; everything that waits comes to an end. *Event de-duplication*: an event is
applied once while its id is remembered. *Token codec*: one spelling per room id. *Collider*: only the current
connection of a client speaks for it, and a session that lost its membership has its socket closed. *V1 table*: at most
two clients, at most one initiator, an unregistered client has its timer running, queued messages are handed over once and in order.

## 2. The modules

| Module | What it is |
|---|---|
| `V2Rooms` | the V2 room table, the workers' streams and answers, the clock, and the properties |
| `RoomModes` | an abstract V2 table: what is visible of a room, whatever its workers do |
| `V2Refinement` | the mapping under which `V2Rooms` implements `RoomModes` |
| `MCV2Rooms` | what the TLC instances of both need (`MCV2Rooms_*.cfg`): worker capacities, constraints and views |
| `V1Rooms`, `MCV1Rooms` | the V1 room table, its properties and its instance |
| `Collider`, `MCCollider` | the browsers' sessions over `V1Rooms` and `RoomModes`, and their instance |
| `EventDedup` | the de-duplication window of one worker, with the worker and its stream |
| `RoomToken`, `CanonicalId` | the codecs of the two ids a V2 registration spells, as operators |
| `WireIds`, `MCWireIds` | every spelling of these ids, read by the codecs |
| `V2Rooms_proofs` | type correctness of the V2 table; the inductive invariant of a room's modes and what follows from it |
| `V2RoomsMembers_proofs` | what a step makes of a room; who is in it, who offers, what is queued, what is on the wire |
| `V2RoomsCommands_proofs` | the commands in flight, the memberships a worker holds, the workers' books, who has joined and who will be answered |
| `V2Refinement_proofs` | `V2Rooms` implements `RoomModes` |
| `V1Rooms_proofs` | type correctness and safety of the V1 table |
| `Collider_proofs` | the sessions agree with both tables; the tables run under the collider as on their own |
| `EventDedup_proofs` | the window is exact, and how wide it must be for an event to be applied once |

The composition goes `Collider` = sessions + `V1Rooms` + `RoomModes`, and `RoomModes` is implemented by `V2Rooms`:
what is checked of the sessions against the small abstract table holds for the one with workers and commands.

### `V2Rooms`: state

| `V2Rooms` | Code |
|---|---|
| `rooms[r]` | `RoomTable.rooms`; `members`, `registered`, `initiators`, `deadline`, `queued` are the fields of `Member` turned into sets and functions over the room's clients; `mode = "Absent"` is a room that is not in the map |
| `workers[w]` | `RoomTable.workers`: `Worker` with its current connection, capacity, health, `assigned_rooms`, `assigned_clients`, `grace_deadline` |
| `lifecycle` | `lifecycle_ids`, which also is every member's `lifecycle_id` |
| `pending` | `pending_commands`, `unacknowledged_commands` and `command_workers`: three maps with the same keys |
| `syncs` | the same maps for `SyncRoom` commands, each with its replay list |
| `due`, `unswept` | the loop variables of `handle_timeout` |
| `streams`, `wire` | environment: a worker's open streams, and which pending commands travelled on the current one |
| `legs` | environment: memberships a worker confirmed and has not been told to end |
| `open` | environment: authority requests without a response |
| `overtaken` | history: admissions that were open when a leave of the same member was answered |

### `V2Rooms`: actions

One action per operation, per branch where the branches have little in common: `AdmitFirst`, `AdmitP2p`,
`AdmitUpgrade`, `AdmitSfu` (`admit`, `start_upgrade`, `admit_to_sfu`); `Register`; `Deregister`; `SendSfu`,
`SendQueued` (`send`); `RemoveNow`, `RemoveSfu` (`remove`); `UpgradeJoinMore/Last/Err`, `SfuJoinOk/Err`,
`SfuLeaveOk/Err`, `SettleOnly`, `SyncOk/Err` (`handle_command_result` and what it calls: `issue_next_upgrade_join`,
`commit_upgrade`, `abort_upgrade`, `arm_downgrade`); `register_worker`, `WorkerHealth`, `WorkerFailure`,
`WorkerDisconnected` (`handle_sfu_input`); `StartSweep`, `expire_worker`, `SweepRoom` (`handle_timeout`, whose loops run
over hash maps and so are steps taken in any order, with nothing else in between); `Tick` (the clock); `clear`.

### `V2Rooms`: what is abstracted

* **Deadlines** are the time left. A deadline that is due stays due until the sweep.
* **Request ids** are abstracted to the contents of their command. Two commands with the same contents are
  told apart in the code by their ids only; the one case is a `Signal`, whose payload is left out as well.
* **Refusals** (a wrong token, a client twice, a room in transition, a result from a superseded stream) change nothing
  and have no step. Tokens are modelled by who can have one: a member whose admission was answered (`HoldsToken`).
* **Responses and frames** are left out but for the answers to admissions and removals (`open`). Frames that are queued
  in a room are state and are there, with the epoch they were sent in and the peer they wait for.
* **A sender** is any member with a browser: the session of a client can outlive its registration in the table.
* **A worker's answer** to a command comes on the stream the command was sent on, as a success or as anything else. A
  success that does not match its command is treated as an error, as in the code.
* **An instance the table has forgotten** differs from a disconnected one only in the `resumed` flag of its
  registration answer.

### `RoomModes` and `V2Refinement`

`table[r]` is what an observer outside of the table can tell of a room: mode, members, the members whose admission is not
answered (`entering`), registrations, whether the web server waits for a removal, the epoch. `leaving[r]` are the clients
whose leave a worker was told of. An action is a *kind of change* (`AdmitLater`, `Commit`, `Abandon`, `Left`, ...); it
allows what several operations of the code may do, and more: an admission of a member may be answered at any time, a room
may fail at any time. What it does not allow is the point: a registered member to go without a removal or a leave, an epoch
to move without a committed mode, a registration before the admission is answered, a P2P room of three.
`V2Refinement` gives the mapping: `entering` are the members waited for by the barrier or the pending join, `leaving` the
clients of `SfuLeave` commands.

### `Collider`

`sessions`, `connections`, `v2_connections` are the maps of the same name (`NoSession` and `None` are absence); `sockets`
are the driver's open sockets and `closing` those with a `Close` among the outputs. `stale` is a history variable: the
sessions whose V2 membership ended under them. An action is one input handled to its end, with the calls into the tables:
`Connect`, `RegisterV1/V2`, `SendV1`, `Refuse` (every text that ends in `fail_connection`), `Disconnect`; `AdmitV1`,
`Inject`, `RemoveV1`, `RemoveV2`; `MemberLeft` (the one answer of a worker that touches sessions), `V2Only` and `V1Only`
(everything that does not), `Shutdown` (`close`). Texts, answers to the web server and the counters of the status page
change nothing here and are left out; V2 frames are in `V2Rooms`.

### `V1Rooms`

`rooms[r]` is a room with its clients, their registrations, initiators, timeouts and queues; `present` are the keys of the
room map. `sent` and `handed` are history: the messages of a client, which are their numbers, as accepted and as handed to
a peer. `Join` (with the loopback peer), `Register`, `Send` (`save_or_send`, which also serves an injected message),
`Deregister`, `Leave`, `remove_if_unregistered`, `handle_timeout`, `Tick`, `Close` are the operations of `room_table.rs`
with what they call in `room.rs` and `client.rs`.

### `EventDedup`

`seen` and `order` are `seen_events` and `seen_event_order` of one worker. The worker is external: it numbers its events,
keeps the unanswered ones and sends them again, in order, on a new stream or when no answer comes; a stream that breaks
loses what is on it. `Accept`, `Refuse` and `Duplicate` are the branches of `handle_worker_event`; whether an event is about
a room of the worker is a choice. What the events do to a room is in `V2Rooms`.

### `RoomToken`, `CanonicalId`, `WireIds`

A room id is its bits; the number of bits, the bits of a character and the stamped version and variant are parameters (128,
6, and six fixed bits in the code). The base64 decoder is external and is modelled by what it rejects. A number is a
string of digits, how many numbers the type has a parameter (2^64 in the code). `WireIds` spells strings character by
character; the numeral of a number, with which `AcceptsNumerals` compares `canonical_u64`, is written there from its last
digit, while the code reads from the first.

## 3. Runs

The instances of `V2Rooms` have one room, three clients and grace and dwell of one tick. One room is enough for
what is claimed of a room: rooms meet only in a worker's books, and `select_worker` is exercised by two workers.
Three clients are what an upgrade needs, and let a room be in every mode with every number of members below, at
and above the P2P capacity. A tick of one distinguishes "not yet due" from "due". `MaxLifecycles` bounds the run as a
whole: each admission hands out a lifecycle id and each upgrade three, so that two admissions and an upgrade take five,
a second upgrade of the same room eight, and one of a room that emptied and was created again ten.

| Run | Instance | Checks |
|---|---|---|
| `core` | two of three clients have browsers, one frame queued, one signal outstanding, 6 lifecycles | `TypeOK`, `SoleInitiator`, `QueuedForAbsentPeer`, `AdmissionInCommittedMode` |
| `failing` | two workers, 10 lifecycles; the room may be reported failed, or its sync refused, at any moment, so that a room that failed on one worker is upgraded again on the other while the first still has it on its books and expires | `P2pCapacity`, `BarrierRevocable`, `UpgradeOnBooks`, `DwellOnlyWhileSmall`, `PollExact`, `EpochPerCommit`; `Implements`: the refinement of `RoomModes` |
| `reassign` | no browsers, two workers, 8 lifecycles: two upgrades of the same room, on the same worker or on two | `LifecycleFresh`, `SfuMembersJoined`, `RequestsAwaited`, `BarrierCommand`, `WorkerBooks`, `LoadNotOvercounted` |
| `liveness` | two streams per worker, so that they overlap; 5 lifecycles; `FairSpec` | `UpgradeResolves`, `GraceEnds`, `GateInFlight`, `CurrentStreamKept` |
| `v1` | one V1 room, two clients and the loopback peer, a queue of two and three messages a client, so that the queue fills; `FairSpec` | `TypeOK`, `Capacity`, `TimeoutIffUnregistered`, `OneInitiator`, `QueuedWhileAlone`, `InOrderOnce`, `ReturnsOrGoes` |
| `sessions` | two sockets, a V1 room of two clients and a V2 room of three, up to the second epoch (an upgrade and the downgrade after it) | `TypeOK`, `V1Exact`, `V2Reachable`, `LiveSessionsRegistered`, `SocketsAccounted` |
| `dedup` | a window of three, two unanswered events at most, four events, each of which may be refused; `FairSpec` | `TypeOK`, `WindowExact`, `AppliedOnce`, `Answered` |
| `wire_ids` | room ids of seven bits, three to a character; numbers of seven bits; strings up to one character too long | `RoundTrip`, `OneSpelling`, `AcceptsNumerals` |

`reassign` and `failing` each join an instance with one worker, free up to the first upgrade and an admission after it, and
a longer one with a second worker, cut by a constraint of `MCV2Rooms`. `ReassignBound` leaves both workers free up to the
first upgrade too, but that the second drains; beyond it the second stays ready, clients come in the order of their ids
(with one worker as well), and at most two commands are unacknowledged. Under `FailingBound` nobody registers while there are two workers, and one command at a time is
unacknowledged. What is kept is what needs a second worker: a room that moves to it, after a downgrade, an upgrade given
up or a failure, and the loss, the return and the expiry of the first worker at every moment of that; a second worker that
drains or drops in the middle of a second upgrade is left to the proofs. A constraint loses behaviours and makes up none.
The views of both runs drop variables that no action reads, and that no property of the run tells apart: `TableOnly` the
history and the environment's memberships and requests, `OpenOnly` the overtaken admissions that were answered after all.

With 5 lifecycles no member joins a room that is SFU already in `liveness`: there `GateInFlight` is checked of barriers, and
for a pending join it is proved (`GatesInFlight`).

Two sockets are enough for what is claimed of sessions: a socket and the one that replaces it, or those of two clients.
`OneTableBusy` (in `MCCollider`) cuts `sessions` where both tables are in the middle of something, for they share no state
but the sessions: while a V1 room exists, the V2 room is a P2P room of one client. Connection ids are only compared for
equality and are a symmetry set. In `dedup` events outnumber the window, so that ids are forgotten while others wait; the
window is as wide as `AppliedOnce` needs, 2 * 2 - 1 places (below). Seven bits leave one bit of the room id to the last
character and two that must be zero, as 128 bits leave two and four.

Every action and every branch of `Next` is taken by these runs together. Each property is also seen to fail when one
definition of the model is replaced by a plausible mistake (`X__fault` beside `X`; `mutants` in `PROJECT.json`).

**Deadlock** is checked in every run: tables that have nothing to wait for can still be cleared, admit or accept a
stream.

**Properties restricted to `Rooms \ Failable`.** `fail_room` sets the mode and nothing else: an open barrier, pending
results and the worker's books stay. What this breaks is claimed only for rooms no worker reports as failed; what
survives it (`P2pCapacity`, `BarrierRevocable`, `UpgradeOnBooks`, `DwellOnlyWhileSmall`, `PollExact`, `EpochPerCommit`,
`Implements`) is claimed for all rooms and is what `failing` checks.

### Where the code and its documentation disagree

Four runs end in a counterexample to a sentence of the repository's README or of a comment; `findings` quotes each line.

| Run | Property | The shortest story |
|---|---|---|
| `dwell_lost` | `DwellArmed` | a small SFU room's dwell runs; a third client is admitted, which stops the dwell; the worker refuses it; the room is small again and no dwell is ever started |
| `dwell_runs_on` | `DwellStable` | a small SFU room's dwell runs; a leave of one of its members is issued, a transition that the comment on `downgrade_deadline` says clears it; the dwell runs on (as it does in a room that fails), and is looked at again only when it fires |
| `cleanup_lost` | `UnacknowledgedReplayed` | an upgrade is given up, the joined members are told to leave, the stream drops: the leaves belong to a room on nobody's books and are not replayed |
| `admission_lost` | `AdmissionsAwaited` | a joining member's grace runs out before its join is answered, its leave is answered first: the join's result finds no member and the web server never hears of its admission |

The positive runs state what does hold next to these: `RequestsAwaited` for admissions that no leave has overtaken,
`GateInFlight` for the commands a transition waits for, `DwellOnlyWhileSmall` for what every admission and the downgrade
itself do clear.

Where else a property is stated more narrowly than one might expect, the reason is in the code:

* a room that failed during its upgrade, emptied and was created and upgraded again on the same worker counts the late
  result of the earlier join in the new barrier (`SfuMembersJoined` and `BarrierCommand` exclude rooms that fail);
* the story of `admission_lost` has a sequel: if the member that left was the last, its room is removed with the join
  outstanding; when the room is created and upgraded again on that worker, the late answer takes the `pending_join` it
  finds there, of a newcomer it does not name, who is then a member of the SFU without being joined or a member nobody
  answers. `Outlived` is a room with such an unanswered admission, and only with one that a leave overtook: the history
  variable `overtaken` holds the admissions that were open when a leave of their member was answered. An admission that
  is dropped in any other way (a refused join, an upgrade given up, a worker's expiry) must be answered there and then,
  or `RequestsAwaited` is violated. `SfuMembersJoined`, `RequestsAwaited` and `LoadNotOvercounted` leave an outlived room
  out, as long as the admission is open;
* a failed room whose members were removed stays on its worker's books until the worker expires (`WorkerBooks`,
  `LoadNotOvercounted`), and an upgrade given up in it promotes nobody (`SoleInitiator`);
* the refused leave of a disconnected SFU member leaves it unregistered and without a deadline, so that after a downgrade
  nobody reaps it (`GraceEnds` speaks of running graces);
* a browser that registers again while the leave of its earlier session is in flight loses its membership to that leave,
  and keeps its session (`stale` in `Collider`; `LiveSessionsRegistered` excludes it);
* the de-duplication window holds a fixed number of ids, and events that are recorded and settled while the oldest one
  waits take places of it too, so `AppliedOnce` needs `2 * MaxOutstanding - 1 <= Window` (a window of four and three
  unanswered events can still apply one twice); a refused event is acknowledged, without effect, when it is sent again.

### Fairness

`FairSpec` assumes what the driver and a live worker do. The driver sleeps until `poll_timeout` and hands the time back
(README of the crate): weak fairness of `Tick` and `HandleTimeout`. A worker answers the join of an upgrade or a
`SyncRoom` if it is put to it again and again, with a success or an error, streams dropping in between as they like:
strong fairness of those answers. Nothing is assumed of browsers, of the web server, of the streams' coming and going,
or of the answers to ordinary joins, leaves and signals. `V1Rooms` needs the driver's timer only. In `EventDedup` streams
come back (weak fairness of `Reconnect`), a worker sends again what stays unanswered (`Retransmit`), and what is put on
streams again and again is delivered some time, breaks in between (strong fairness of `HandleEvent` and `Acknowledged`);
whether an event is accepted stays a free choice.

## 4. Proofs

TLC's runs are for one room and three clients; the theorems hold for all finite sets of rooms, clients, workers and
streams, all capacities and deadlines and all bounds. What is assumed of the constants is named in the modules and
evaluated by TLC in every run:

| Module | Assumptions |
|---|---|
| `V2Rooms` | `IdsAssumption`: the sets are finite and, but for the rooms, consist of natural numbers (ids are `u64` and ordered); `BoundsAssumption`: deadlines and capacities are positive |
| `V1Rooms` | `V1Assumption`: finitely many clients, of whom the loopback peer is one; a timeout and a queue that are not zero |
| `Collider` | `ConnsAssumption`: no connection is the sentinel for none; `TableAssumption`: `V1Assumption`, for the constants it hands on |
| `EventDedup` | `DedupAssumption`: the bounds are natural numbers, the positive ones positive |
| `RoomToken`, `CanonicalId` | `TokenAssumption`: ids and characters have bits, and the fixed bits are bits of an id; `LimitAssumption`: a type has numbers |

### `V2Rooms`

The proofs are built up in layers, each module using the invariants of the earlier ones.

* **Types** (`V2Rooms_proofs`). `TypeCorrect`: `Spec => []TypeOK`. One lemma per action, grouped as `Next` groups them. It
  is not quite by inspection: `SatSub` must not go below zero, a downgrade takes the minimum of a set that is not empty,
  and a barrier's next client must be a client.
* **Modes** (`V2Rooms_proofs`). `P2pCapacity` alone is not inductive: an upgrade that is given up makes a room of
  three members P2P by dropping the newcomer, so what is needed is that an open barrier's members but its newcomer are
  at most two (`BarrierShape`), *also in a room that failed meanwhile*, whose late error result still gives the barrier
  up. To keep that, no client may enter a room with an open barrier, and no dwell may run beside it, for its end would
  commit P2P under the barrier. `BarrierShape` in turn needs the dwell's condition (`DwellIdle`). The three together are
  `RoomOK`; `RoomsSafe` says they are invariant, and `P2pRoomsSmall`, `BarriersRevocable` and `DwellSafe` follow.
  `EpochsSafe` is the action property `EpochPerCommit`: that a `commit_upgrade` starts from a room that is not yet SFU is
  a fact about its open barrier. `StreamsKept` is the action property `CurrentStreamKept`, by the invariant
  that no grace runs against a connected worker (`StreamsOK`): a stream's end takes the connection only if it is the
  current one, and an expiry finds only workers without one. It needs nothing of the rooms.
* **Members** (`V2RoomsMembers_proofs`). `RoomStep` lists the kinds of change one step may make of one room;
  `RoomStepsAlways` says that every step of `Next` is such a change of every room. Against it are proved `MembersOK` (who is
  registered, whose grace runs, who may be waited for: `MembersSafe`), from which `PollIsExact` follows, and, for rooms
  that do not fail, `RolesOK` (who offers) and `QueuesOK` (in a P2P room only a member that is alone with its registration
  has frames queued, all of this epoch and for a peer that may come: `RolesSafe`). `SoleInitiator` is inductive only with
  the pending join and leave confined to the SFU, and a barrier's older members known to include the initiator;
  `OffererIsSole` and `QueuesSafe` follow.
* **Commands** (`V2RoomsCommands_proofs`). `AdmissionsSafe` is an action property that follows from who is waited for in
  which mode. `UpgradesOnBooks` is inductive with the modes, for failing rooms too. `LegsSafe` bounds what a worker may
  know of a room: every membership, confirmed, asked for or asked to end, is of a lifecycle handed out already, the last lifecycle
  of a member is under the room's assignment, and each lifecycle under one only; `LifecyclesFresh` follows.
  `DutiesSafe` is the main one, for a room that does not fail: its worker's books name it exactly while it is hosted
  (`OnBooks`), an outstanding leave or join of an upgrade is the very one the room waits for (`LeaveExact`,
  `UpgradeExact`), those still to join are members with the newcomer last (`TodoOK`), and the command a room waits for
  travels, on the stream or behind the `SyncRoom` that replays it (`Gated`). None of these can do without the others: a
  result settles the barrier only because no second one is out (`UpgradeExact`); a stream that drops loses nothing only
  because the room is on its books, so that it is replayed (`OnBooks`); an expiry finds every room it answers for.
  `BooksExact`, `BarriersCommanded` and `GatesInFlight` follow. A room in which a step changes none of this is disposed of
  by one lemma (`StillDuty`), which also covers every other room of a step (`OnlyStill`).
  `LegDutiesSafe` rests on `DutiesSafe` and says who has joined and who will be answered, again for a room that does not
  fail: while the barrier is open, everyone with nothing left to do holds its membership (`BarrierLegs`), in an SFU room
  everyone but the pending join (`SfuLegs`); the commands of an abandoned assignment name no current membership
  (`CleanupStale`); an outstanding `SfuJoin` and an open admission are the awaited ones (`JoinExact`, `AdmissionOpen`,
  `AdmitAwaited`), an open removal is the pending leave's (`RemoveExact`). Here a room in which an admission was lost with
  its member is exempt, however it was lost (`Forsaken`); it stays so, because the admission nobody will answer remains
  open and lifecycles only grow (`ForsakenStays`, `OpenBound`).
  `AccountsSafe` then says how an admission can be lost: one that is open though its membership has ended was overtaken
  by a leave, or is of a room where an earlier one was (`AccountedOK`). Step by step: whoever drops a member whose
  admission is awaited, by a refused join, an abort or an expiry, answers that admission in the same step, and only an
  answered leave does not (`LeftOnly`). An abort drops the newcomer and never one who has joined already, which is what
  `JoinedIn` is for. So a forsaken room is an outlived one (`LostToALeave`), and `MembersJoined` and `RequestsAnswerable` follow
  with the exemption of the finding `admission_lost` and no other.
  `LoadsSafe` is about `assigned_clients`. The bound of `LoadNotOvercounted` is not inductive: an answered join adds a
  client to the load and none to the room. What is, is the bound by what each room has brought so far (`Held`): three for
  an upgrade in progress, and else its members but the pending join. A sum over a worker's rooms has no theory in the
  library; it is the cardinality of a set of places, one for each client of each room (`Places`), and a step that changes
  one room changes the places of that room only (`Loaded`). An upgrade adds three, whatever the room has
  (`UpgradeClients`), so a barrier that commits must have three members (`Full`); an answered join adds one, so it must be
  the one the room waits for (`DutiesSafe`, `LegDutiesSafe`). `LoadsNotOvercounted` follows.
* **Refinement** (`V2Refinement_proofs`). `TableImplementsModes`: every step of `V2Rooms` is, under the mapping, a step of
  `RoomModes` or a stutter; each `RoomStep` is matched with one action of the abstract table, from the modes, the members
  and what is on the wire (a worker answers only commands the table still knows, `WireSafe`).

### `V1Rooms`

`V1TypeCorrect` and `V1Capacity` (a fact about every call that can put a client into a room, the loopback join adding two at
once); `V1EntriesUsed` (a room in the map has a client), `V1TimeoutsExact` and `V1InitiatorSole`, which are inductive together: a removal promotes who is left
over, which is one initiator only because the room had two clients; `V1QueueAlone` and `V1InOrderOnce`: a relay may overtake
nothing because the queue of a sender with a connected peer is empty, so these are inductive together too.

### `Collider`

The five invariants of the sessions are inductive together with the types of both tables (`CInv`): `ColliderTypeCorrect`,
`V1SessionsExact`, `V2MembersReachable`, `LiveSessionsKept`, `SocketsClosed`. `V1TableDriven` and `V2TableDriven` say that
under the collider each table goes through behaviours of its own specification only, so that what is proved of
`V1Rooms`, and of `RoomModes`, holds in the composition.

### `EventDedup`

`DedupTypeCorrect` and `WindowIsExact` (the set and the queue hold the same ids, the queue each once, and never more than the
window). `EventsAppliedOnce` states how wide the window must be: an event is applied once if `2 * MaxOutstanding - 1 <=
Window`, `MaxOutstanding` being the events a worker keeps unanswered. While an event is outstanding, younger ones that
are recorded after it are outstanding too (a stream carries acknowledgements and events in order), and older ones were
outstanding when it was recorded: fewer than `2 * MaxOutstanding - 1` ids can push it out.

### `WireIds`

`IdsSafe` says which ids are minted and which strings arrive. `RoundTripSafe` and `OneSpellingSafe`, for any number of
bits, rest on a bit of an id and its character and place in the token determining each other (`BitHasPlace`,
`PlaceHasBit`: division with remainder); the bits of the last character that belong to none must be zero.
`AcceptsNumeralsSafe`, for strings of any length and any limit, rests on reading and writing being inverse: the numeral of
a number is digits without a leading zero that read as this number (`NumeralRead`), and such digits are the numeral of
what they read as (`NumberWritten`). Both are inductions, over the number and over the length. `Number` and `Numeral` are
recursive functions, of which the prover knows only that they satisfy their recursion if anything does; that something
does, and for `Number` one thing only, is proved by induction too (`ReadingExists`, `ReadingUnique`, `NumeralIs`). Every
induction is on a set of numbers (`Induction`), for the library's theorems take an operator that no prover here can
instantiate.

### Only model-checked

* Liveness: `UpgradeResolves`, `GraceEnds`, `ReturnsOrGoes`, `Answered`. Fairness and `ENABLED` are beyond the prover.
* `DwellArmed`, `DwellStable`, `UnacknowledgedReplayed`, `AdmissionsAwaited`: sentences of the documentation that do not hold; a
  counterexample is all there is to say of them.

## 5. Not modelled

* Outputs of the collider other than `Close` and the counters of its status page: they are computed from the state that is
  modelled and read by nobody inside the crate.
* `src/src/messages.rs` and `src/signaling-proto/`: records and a schema, without behaviour.
* The driver and the workers are not in the repository; what the code relies on of them is in the environment's steps.
* The order of the commands replayed behind a `SyncRoom`: the table keeps none (the replay is in the order of a hash map).
* Overflow of `u64` epochs, lifecycle ids and request ids, which take 2^64 transitions to reach.

## 6. Plan

The plan is carried out: every safety property and every action property that a run checks has a theorem. What remains
follows the code:

1. Were a worker's answer told from that to an earlier assignment (`admission_lost`), `Outlived` goes, and with it the
   conditions of `SfuMembersJoined`, `RequestsAwaited` and `LoadNotOvercounted`.
2. Did `fail_room` close the barrier and clear the worker's books, `Failable` goes, and every theorem is one about all rooms.
