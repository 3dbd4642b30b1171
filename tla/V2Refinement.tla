---------------------------- MODULE V2Refinement ----------------------------
(***************************************************************************)
(* V2Rooms implements RoomModes.                                           *)
(***************************************************************************)
EXTENDS V2Rooms

\* The members whose admission waits for the worker.
Entering(room) == room.members \cap {room.upgrade.joining, room.pending_join}

Visible(room) ==
  [mode       |-> room.mode,
   members    |-> room.members,
   entering   |-> Entering(room),
   registered |-> room.registered,
   removal    |-> room.pending_leave.requested,
   epoch      |-> room.signal_epoch]

Table == [r \in Rooms |-> Visible(rooms[r])]

Leaving ==
  [r \in Rooms |-> {p.client : p \in {q \in pending : q.room = r /\ q.kind = "SfuLeave"}}]

Abstract == INSTANCE RoomModes WITH table <- Table, leaving <- Leaving

\* Every step of the table, with its workers, commands and deadlines, does to
\* a room what RoomModes lets a step do, or nothing: no registered member is
\* dropped that nobody asked to leave, no epoch advances without a commit, no
\* client registers before it is in.
Implements == Abstract!Spec
=============================================================================
