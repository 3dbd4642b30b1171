----------------------------- MODULE EventDedup -----------------------------
(***************************************************************************)
(* handle_worker_event (src/src/v2.rs): the events of one SFU instance and *)
(* the window of request ids that tells a retransmitted event from a new   *)
(* one.                                                                    *)
(*                                                                         *)
(* The worker is external: it numbers its events, keeps them until they    *)
(* are acknowledged, and sends those it still keeps again, on a new stream *)
(* oldest first.  A stream delivers in order and loses what is on it when  *)
(* it breaks.  Whether an event is accepted depends on the room it is      *)
(* about; here it is a choice.                                             *)
(***************************************************************************)
EXTENDS Integers, Sequences, FiniteSets, SequencesExt

CONSTANTS
  Window,          \* EVENT_DEDUP_CAPACITY
  MaxOutstanding,  \* events a worker keeps before it waits for an answer
  Refusable,       \* events that may be about a room that is not theirs
  MaxEvents        \* bound: events of one instance

ASSUME DedupAssumption ==
  /\ Window \in Nat \ {0} /\ MaxOutstanding \in Nat \ {0}
  /\ MaxEvents \in Nat /\ Refusable \subseteq 1..MaxEvents

VARIABLES
  seen,         \* Worker.seen_events
  order,        \* Worker.seen_event_order
  applied,      \* history: how often each event was acted upon
  last,         \* the last request id the worker has used
  outstanding,  \* events without an acknowledgement
  up,           \* the worker's stream is registered
  events,       \* events on the stream
  acks          \* acknowledgements on the stream

vars == <<seen, order, applied, last, outstanding, up, events, acks>>

Ids == 1..MaxEvents

\* Types of the state.
TypeOK ==
  /\ seen \subseteq Ids
  /\ order \in Seq(Ids)
  /\ applied \in [Ids -> Nat]
  /\ last \in 0..MaxEvents
  /\ outstanding \subseteq Ids
  /\ up \in BOOLEAN
  /\ events \in Seq(Ids) /\ acks \in Seq(Ids)

Init ==
  /\ seen = {} /\ order = <<>> /\ applied = [i \in Ids |-> 0]
  /\ last = 0 /\ outstanding = {}
  /\ up = FALSE /\ events = <<>> /\ acks = <<>>

-----------------------------------------------------------------------------
(***************************************************************************)
(* The worker and its stream.                                              *)
(***************************************************************************)

OldestFirst(S) ==
  {s \in [1..Cardinality(S) -> S] :
     ToSet(s) = S /\ \A m, n \in DOMAIN s : m < n => s[m] < s[n]}

\* A new stream, on which everything unanswered is sent again.
Reconnect ==
  /\ ~up
  /\ up' = TRUE
  /\ events' \in OldestFirst(outstanding)
  /\ UNCHANGED <<seen, order, applied, last, outstanding, acks>>

\* The stream breaks.  The instance and what was seen of it stay, also when
\* its grace is over: expire_worker takes only its rooms.
Break ==
  /\ up
  /\ up' = FALSE
  /\ events' = <<>> /\ acks' = <<>>
  /\ UNCHANGED <<seen, order, applied, last, outstanding>>

Emit ==
  /\ up
  /\ last < MaxEvents
  /\ Cardinality(outstanding) < MaxOutstanding
  /\ last' = last + 1
  /\ outstanding' = outstanding \cup {last + 1}
  /\ events' = Append(events, last + 1)
  /\ UNCHANGED <<seen, order, applied, up, acks>>

\* No answer came on a stream that is up: what is unanswered is sent again.
Retransmit ==
  /\ up
  /\ events = <<>> /\ acks = <<>>
  /\ outstanding # {}
  /\ events' \in OldestFirst(outstanding)
  /\ UNCHANGED <<seen, order, applied, last, outstanding, up, acks>>

Acknowledged ==
  /\ acks # <<>>
  /\ acks' = Tail(acks)
  /\ outstanding' = outstanding \ {Head(acks)}
  /\ UNCHANGED <<seen, order, applied, last, up, events>>

-----------------------------------------------------------------------------
(***************************************************************************)
(* handle_worker_event.                                                    *)
(***************************************************************************)

Arrives(i) ==
  /\ events # <<>> /\ i = Head(events)
  /\ events' = Tail(events)
  /\ UNCHANGED <<last, outstanding, up>>

Full__one_early(s) == Len(s) >= Window
Full(s) == Len(s) > Window

Record__keeps_id(i) ==
  LET longer == Append(order, i)
  IN  /\ order' = IF Full(longer) THEN Tail(longer) ELSE longer
      /\ seen' = seen \cup {i}

\* The id is recorded and the oldest one forgotten when there are too many.
Record(i) ==
  LET longer == Append(order, i)
  IN  IF Full(longer)
        THEN /\ order' = Tail(longer)
             /\ seen' = (seen \cup {i}) \ {Head(longer)}
        ELSE /\ order' = longer
             /\ seen' = seen \cup {i}

EventAck__unnumbered(i) == acks' = Append(acks, 0)
EventAck(i) == acks' = Append(acks, i)

\* A duplicate is only acknowledged.
Duplicate(i) ==
  /\ Arrives(i)
  /\ i \in seen
  /\ EventAck(i)
  /\ UNCHANGED <<seen, order, applied>>

Accept(i) ==
  /\ Arrives(i)
  /\ i \notin seen
  /\ Record(i)
  /\ applied' = [applied EXCEPT ![i] = @ + 1]
  /\ EventAck(i)

Refuse__unrecorded(i) ==
  /\ Arrives(i)
  /\ i \notin seen
  /\ i \in Refusable
  /\ UNCHANGED <<seen, order, applied, acks>>

\* An event about a room that is gone, or is not the worker's, is an error:
\* its id is recorded and the worker is told nothing.
Refuse(i) ==
  /\ Arrives(i)
  /\ i \notin seen
  /\ i \in Refusable
  /\ Record(i)
  /\ UNCHANGED <<applied, acks>>

HandleEvent == \E i \in Ids : Duplicate(i) \/ Accept(i) \/ Refuse(i)

Next == Reconnect \/ Break \/ Emit \/ Retransmit \/ Acknowledged \/ HandleEvent

Spec == Init /\ [][Next]_vars

\* Streams come back and do not break for ever while an answer is awaited,
\* the driver hands over what arrives, and the worker sends again.
FairSpec ==
  /\ Spec
  /\ WF_vars(Reconnect) /\ WF_vars(Retransmit)
  /\ SF_vars(HandleEvent) /\ SF_vars(Acknowledged)

-----------------------------------------------------------------------------
(***************************************************************************)
(* Properties.                                                             *)
(***************************************************************************)

\* The set and the queue hold the same ids, each once and at most Window of
\* them: no id is remembered for ever or forgotten early.
WindowExact ==
  /\ seen = ToSet(order)
  /\ IsInjective(order)
  /\ Len(order) <= Window

\* An event is acted upon once, however often its stream breaks.
AppliedOnce == \A i \in Ids : applied[i] <= 1

\* Every event is answered in the end, one that was refused as well: the
\* worker does not keep it for ever.
Answered == \A i \in Ids : i \in outstanding ~> i \notin outstanding
=============================================================================
