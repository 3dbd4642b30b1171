----------------------------- MODULE MCV2Rooms -----------------------------
(***************************************************************************)
(* Model-checking instances of V2Rooms: what a .cfg cannot write down.     *)
(*                                                                         *)
(* Two runs, reassign and failing, join an instance with one worker and a  *)
(* longer one with a second worker.  The longer one is cut by the          *)
(* constraints below: it is about rooms that move from one worker to the   *)
(* other, and two workers in every state, times clients in every order,    *)
(* would not end.                                                          *)
(***************************************************************************)
EXTENDS V2Refinement

\* A worker that takes one room of four clients.
SmallWorker == {[max_rooms |-> 1, max_clients |-> 4]}

HandedOut(r) == MapThenSumSet(LAMBDA c : lifecycle[r][c], Clients)

\* Only the first worker has been heard of since the last shutdown.
FirstWorkerOnly == \A w \in Workers \ {1} : workers[w] = UnknownWorker

\* While there are clients the second worker is ready for rooms; the first may
\* come and go.
SecondReady ==
  (\E r \in Rooms : HandedOut(r) > 0) =>
    workers[2].health = "Ready" /\ workers[1].health # "Draining"

\* Clients come in the order of their ids, the third by upgrades only.
InTurn(r) ==
  /\ lifecycle[r][1] - lifecycle[r][2] \in {0, 1}
  /\ lifecycle[r][2] - lifecycle[r][3] \in IF lifecycle[r][3] = 0 THEN {0, 1} ELSE {1, 2}

\* reassign: with one worker, anything up to one upgrade and one admission, and
\* clients in turn beyond; with two, anything up to one upgrade, but that the
\* second drains; and beyond that, two commands unacknowledged.
ReassignBound ==
  \A r \in Rooms :
    \/ FirstWorkerOnly /\ (HandedOut(r) <= 6 \/ InTurn(r))
    \/ HandedOut(r) <= 5 /\ workers[2].health # "Draining"
    \/ SecondReady /\ InTurn(r) /\ Cardinality(pending) <= 2

\* failing: anything with one worker and at most one upgrade; with two, nobody
\* registers and one command at a time is unacknowledged.
FailingBound ==
  \A r \in Rooms :
    \/ FirstWorkerOnly /\ HandedOut(r) <= 6
    \/ /\ SecondReady /\ InTurn(r)
       /\ rooms[r].registered = {} /\ Cardinality(pending) <= 1

\* The state without what no action reads (and no property of failing).
TableOnly ==
  <<rooms, workers, lifecycle, pending, syncs, due, unswept, streams, wire>>
\* The state without overtaken requests that were answered after all.
OpenOnly ==
  <<rooms, workers, lifecycle, pending, syncs, due, unswept, streams, wire, legs, open,
    overtaken \cap open>>
=============================================================================
