----------------------------- MODULE RoomModes -----------------------------
(***************************************************************************)
(* What the V2 room table promises, without workers, commands, barriers or *)
(* deadlines: who is in a room, in which mode and epoch, whose browser may *)
(* register, and who can be gone after a step.                             *)
(*                                                                         *)
(*  - A client of a P2P room is in at once.  One that makes it an SFU      *)
(*    room, or comes to one, is entering: it may be dropped again without  *)
(*    notice, and it cannot register before it has entered.                *)
(*  - A registered member goes only after somebody asked for it: the web   *)
(*    server in P2P, a leave the worker was told of in SFU.                *)
(*  - The epoch advances with every committed change of mode, and only     *)
(*    then.                                                                *)
(*                                                                         *)
(* V2Refinement shows that V2Rooms implements this module, and Collider    *)
(* composes it with the sessions of the browsers.                          *)
(***************************************************************************)
EXTENDS Integers, FiniteSets

CONSTANTS
  Rooms,   \* room ids
  Clients  \* client ids

VARIABLES
  table,   \* what is visible of each room
  leaving  \* the clients of a room whose leave a worker was told of

vars == <<table, leaving>>

MAX_P2P_MEMBERS == 2

Room == [mode       : {"Absent", "P2p", "Upgrading", "Sfu", "Failed"},
         members    : SUBSET Clients,
         entering   : SUBSET Clients,   \* admitted, the answer still out
         registered : SUBSET Clients,
         removal    : BOOLEAN,          \* the web server waits for a removal
         epoch      : Nat]

Absent == [mode |-> "Absent", members |-> {}, entering |-> {}, registered |-> {},
           removal |-> FALSE, epoch |-> 0]

Init ==
  /\ table = [r \in Rooms |-> Absent]
  /\ leaving = [r \in Rooms |-> {}]

-----------------------------------------------------------------------------
Small(S) == Cardinality(S) <= MAX_P2P_MEMBERS

Without(room, S) ==
  [room EXCEPT !.members = @ \ S, !.entering = @ \ S, !.registered = @ \ S]

\* A room goes with its last member.
Reaped(room) == IF room.members = {} THEN Absent ELSE room

\* Room r becomes room; no leave is asked for or answered.
Becomes(r, room) ==
  /\ table' = [table EXCEPT ![r] = room]
  /\ UNCHANGED leaving

(***************************************************************************)
(* Requests of the web server and the browsers.                            *)
(***************************************************************************)
AdmitAtOnce(r, c) ==
  LET all == table[r].members \cup {c}
  IN  /\ table[r].mode \in {"Absent", "P2p"}
      /\ c \notin table[r].members
      /\ Small(all)
      /\ Becomes(r, [table[r] EXCEPT !.mode = "P2p", !.members = all])

AdmitLater(r, c) ==
  LET room == table[r]
  IN  /\ room.mode \in {"P2p", "Sfu"}
      /\ c \notin room.members
      /\ room.entering = {}
      /\ room.mode = "P2p" => ~Small(room.members \cup {c})
      /\ Becomes(r, [room EXCEPT !.mode = IF @ = "P2p" THEN "Upgrading" ELSE @,
                                 !.members = @ \cup {c},
                                 !.entering = {c}])

Register(r, c) ==
  /\ table[r].mode # "Upgrading"
  /\ c \in table[r].members \ (table[r].entering \cup table[r].registered)
  /\ Becomes(r, [table[r] EXCEPT !.registered = @ \cup {c}])

Deregister(r, c) ==
  /\ c \in table[r].registered
  /\ Becomes(r, [table[r] EXCEPT !.registered = @ \ {c}])

\* A leave is asked for: the grace of a client without a browser is over, or
\* the web server wants it removed.
AskLeave(r, c, removal) ==
  /\ table[r].mode = "Sfu"
  /\ ~table[r].removal
  /\ c \in table[r].members
  /\ removal \/ c \notin table[r].registered
  /\ leaving' = [leaving EXCEPT ![r] = @ \cup {c}]
  /\ table' = [table EXCEPT ![r].removal = removal]

\* The browser is gone and its leave is asked for at once.
DeregisterLeave(r, c) ==
  /\ table[r].mode = "Sfu"
  /\ ~table[r].removal
  /\ c \in table[r].registered
  /\ leaving' = [leaving EXCEPT ![r] = @ \cup {c}]
  /\ table' = [table EXCEPT ![r].registered = @ \ {c}]

RemoveNow(r, c) ==
  /\ table[r].mode \in {"P2p", "Failed"}
  /\ c \in table[r].members
  /\ Becomes(r, Reaped(Without(table[r], {c})))

(***************************************************************************)
(* Answers of the workers.                                                 *)
(***************************************************************************)

\* The room's barrier is complete, even if it was said to have failed.
Commit(r) ==
  /\ table[r].mode \in {"Upgrading", "Failed"}
  /\ Becomes(r, [table[r] EXCEPT !.mode = "Sfu", !.epoch = @ + 1, !.entering = {}])

\* The upgrade is given up: who was entering is dropped.
Abandoned(room) == [Without(room, room.entering) EXCEPT !.mode = "P2p"]

MayAbandon(room) ==
  /\ room.mode \in {"Upgrading", "Failed"}
  /\ Small(room.members \ room.entering)

Abandon(r) ==
  /\ MayAbandon(table[r])
  /\ Becomes(r, Abandoned(table[r]))

Entered(r) == Becomes(r, [table[r] EXCEPT !.entering = {}])

Refused(r) ==
  /\ table[r].mode # "Upgrading"
  /\ Becomes(r, Without(table[r], table[r].entering))

\* A leave is answered.  The member goes, whether or not its browser is back.
Settled(r, c) ==
  \E S \in {leaving[r], leaving[r] \ {c}} : leaving' = [leaving EXCEPT ![r] = S]

Left(r, c) ==
  /\ c \in leaving[r]
  /\ Settled(r, c)
  /\ table' = [table EXCEPT ![r] = Reaped([Without(@, {c}) EXCEPT !.removal = FALSE])]

Stayed(r, c) ==
  /\ c \in leaving[r]
  /\ Settled(r, c)
  /\ table' \in {table, [table EXCEPT ![r].removal = FALSE]}

Fail(r) ==
  /\ table[r].mode # "Absent"
  /\ Becomes(r, [table[r] EXCEPT !.mode = "Failed"])

(***************************************************************************)
(* Time.                                                                   *)
(***************************************************************************)

\* Members without a browser go from a P2P room, or nobody does and it was
\* empty.
Reap(r) ==
  /\ table[r].mode = "P2p"
  /\ \E S \in SUBSET (table[r].members \ table[r].registered) :
       Becomes(r, Reaped(Without(table[r], S)))

Downgrade(r) ==
  /\ table[r].mode = "Sfu"
  /\ table[r].entering = {}
  /\ table[r].members # {} /\ Small(table[r].members)
  /\ Becomes(r, [table[r] EXCEPT !.mode = "P2p", !.epoch = @ + 1])

\* What the loss of its worker makes of a room; a barrier may stay open, its
\* newcomer entering, in a room that had failed before.
Lost(room, dropped) ==
  IF room.mode = "Upgrading"
    THEN Abandoned(room)
    ELSE [Without(room, dropped) EXCEPT !.mode = "Failed", !.removal = FALSE]

\* A worker is lost, and with it the rooms of S and the leaves it was told of.
LoseWorker ==
  \E S \in SUBSET {r \in Rooms : table[r].mode # "Absent"} :
    \E D \in SUBSET S :
      /\ table' = [r \in Rooms |->
           IF r \in S THEN Lost(table[r], IF r \in D THEN table[r].entering ELSE {})
                      ELSE table[r]]
      /\ \A r \in S : table[r].mode = "Upgrading" => MayAbandon(table[r])
      /\ leaving' \in [Rooms -> SUBSET Clients]
      /\ \A r \in Rooms : leaving'[r] \subseteq leaving[r]

Clear ==
  /\ table' = [r \in Rooms |-> Absent]
  /\ leaving' = [r \in Rooms |-> {}]

Request(r, c) ==
  \/ AdmitAtOnce(r, c)
  \/ AdmitLater(r, c)
  \/ Register(r, c)
  \/ Deregister(r, c)
  \/ \E removal \in BOOLEAN : AskLeave(r, c, removal)
  \/ DeregisterLeave(r, c)
  \/ RemoveNow(r, c)

Answer(r) ==
  \/ Entered(r)
  \/ Refused(r)
  \/ Commit(r)
  \/ Abandon(r)
  \/ \E c \in Clients : Left(r, c) \/ Stayed(r, c)
  \/ Fail(r)

Next ==
  \/ \E r \in Rooms : Answer(r) \/ Reap(r) \/ Downgrade(r)
  \/ \E r \in Rooms, c \in Clients : Request(r, c)
  \/ LoseWorker
  \/ Clear

Spec == Init /\ [][Next]_vars
============================================================================
