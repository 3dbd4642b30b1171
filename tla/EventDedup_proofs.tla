-------------------------- MODULE EventDedup_proofs --------------------------
(***************************************************************************)
(* Theorems about the events of an SFU instance: the window is exact, and  *)
(* an event is acted upon once if the window is wide enough for what the   *)
(* instance keeps unacknowledged.                                          *)
(*                                                                         *)
(* A stream carries the acknowledgements and the events that are still to  *)
(* come in ascending order, so what is recorded after an event and is      *)
(* younger cannot be acknowledged before it; what is older was outstanding *)
(* when it was recorded.  Fewer than 2 * MaxOutstanding - 1 ids are        *)
(* recorded after an event that is still outstanding.                      *)
(***************************************************************************)
EXTENDS EventDedup, FiniteSetTheorems, SequenceTheorems, TLAPS

Ascending(s) == \A m, n \in 1..Len(s) : m < n => s[m] < s[n]

\* What travels is outstanding and in order.
StreamOK ==
  /\ Ascending(acks) /\ Ascending(events)
  /\ \A m \in 1..Len(acks), n \in 1..Len(events) : acks[m] < events[n]
  /\ \A m \in 1..Len(acks) : acks[m] \in outstanding
  /\ \A n \in 1..Len(events) : events[n] \in outstanding
  /\ ~up => events = <<>> /\ acks = <<>>

Travels(i) ==
  \/ \E m \in 1..Len(acks) : acks[m] = i
  \/ \E n \in 1..Len(events) : events[n] = i

\* What was acted upon and is outstanding travels while the stream is up.
AppliedTravels ==
  up => \A i \in outstanding : applied[i] > 0 => Travels(i)

\* The worker numbers its events and keeps MaxOutstanding of them at most.
NumbersOK ==
  /\ outstanding \subseteq 1..last
  /\ Cardinality(outstanding) <= MaxOutstanding
  /\ \A i \in Ids : applied[i] > 0 => i <= last

Older(i) == {a \in outstanding : a < i}

\* The ids recorded after position p.
After(p) == {order[q] : q \in p + 1 .. Len(order)}

\* Event i is in the window with few after it: the younger ones are
\* outstanding, the older ones count with those that still are.
Remembered(i) ==
  \E p \in 1..Len(order) :
    /\ order[p] = i
    /\ \A a \in After(p) : a > i => a \in outstanding
    /\ Cardinality(Older(i) \cup {a \in After(p) : a < i}) <= MaxOutstanding - 1

AllRemembered == \A i \in outstanding : applied[i] > 0 => Remembered(i)

\* What holds whatever the width of the window.
BaseOK == TypeOK /\ WindowExact /\ StreamOK /\ NumbersOK

\* What holds if it is wide enough.
DedupOK == BaseOK /\ AppliedTravels /\ AllRemembered /\ AppliedOnce

-----------------------------------------------------------------------------
(***************************************************************************)
(* The window.                                                             *)
(***************************************************************************)

\* Record appends the id and takes cut ids off the front.
Recorded(i, cut) ==
  /\ Len(order') = Len(order) + 1 - cut
  /\ \A q \in 1..Len(order') :
       order'[q] = IF q + cut <= Len(order) THEN order[q + cut] ELSE i
  /\ cut = 0 => Len(order) < Window
  /\ cut = 1 => Len(order) = Window

\* What Record does to the queue and to the set.
LEMMA RecordSteps ==
  ASSUME TypeOK, WindowExact, NEW i \in Ids, i \notin seen, Record(i)
  PROVE  /\ order' \in Seq(Ids) /\ WindowExact'
         /\ \E cut \in {0, 1} : Recorded(i, cut)
<1> DEFINE longer == Append(order, i)
<1>1. /\ order \in Seq(Ids) /\ Len(order) \in Nat /\ DOMAIN order = 1..Len(order)
      /\ Window \in Nat \ {0} /\ Len(order) <= Window
  BY DedupAssumption DEF TypeOK, WindowExact
<1>2. /\ longer \in Seq(Ids) /\ longer # <<>> /\ Len(longer) = Len(order) + 1
      /\ \A q \in 1..Len(order) : longer[q] = order[q]
      /\ longer[Len(order) + 1] = i
  BY <1>1, AppendProperties
<1>3. seen = {order[q] : q \in 1..Len(order)}
  BY <1>1 DEF WindowExact, ToSet
<1>4. \A a, b \in 1..Len(order) : order[a] = order[b] => a = b
  BY <1>1 DEF WindowExact, IsInjective
<1>5. \A a \in 1..Len(order) : order[a] # i
  BY <1>3
<1> HIDE DEF longer
<1>6. CASE Full(longer)
  <2>1. order' = Tail(longer) /\ seen' = (seen \cup {i}) \ {Head(longer)}
    BY <1>6 DEF Record, longer
  <2>2. Len(order) = Window /\ longer # <<>>
    <3>1. Len(longer) > Window
      BY <1>6 DEF Full
    <3>2. Len(order) + 1 > Window /\ Len(order) <= Window
      BY <1>1, <1>2, <3>1
    <3>3. Len(order) = Window
      <4>1. Len(order) \in Int /\ Window \in Int
        BY <1>1
      <4> QED
        BY <3>2, <4>1
    <3> QED
      BY <1>2, <3>3
  <2>3. /\ order' \in Seq(Ids) /\ Len(order') = Len(order)
        /\ \A q \in 1..Len(order') : order'[q] = longer[q + 1]
    BY <1>1, <1>2, <2>1, <2>2, HeadTailProperties
  <2>4. DOMAIN order' = 1..Len(order)
    BY <2>3
  <2>5. \A q \in 1..Len(order) :
          order'[q] = IF q + 1 <= Len(order) THEN order[q + 1] ELSE i
    BY <1>1, <1>2, <2>3
  <2>6. Recorded(i, 1)
    BY <2>2, <2>3, <2>5 DEF Recorded
  <2>7. Head(longer) = order[1]
    BY <1>1, <1>2, <2>2
  <2>8. seen' = ToSet(order')
    <3>1. ToSet(order') = {order'[q] : q \in 1..Len(order)}
      BY <2>4 DEF ToSet
    <3>2. ASSUME NEW x \in seen' PROVE x \in ToSet(order')
      <4>1. x = i \/ \E q \in 1..Len(order) : x = order[q] /\ q # 1
        BY <1>3, <2>1, <2>7, <3>2
      <4>2. CASE x = i
        <5>1. Len(order) \in 1..Len(order) /\ order'[Len(order)] = i
          BY <1>1, <2>2, <2>5
        <5> QED
          BY <3>1, <4>2, <5>1
      <4>3. CASE \E q \in 1..Len(order) : x = order[q] /\ q # 1
        <5>1. PICK q \in 1..Len(order) : x = order[q] /\ q # 1
          BY <4>3
        <5>2. q - 1 \in 1..Len(order) /\ order'[q - 1] = x
          BY <1>1, <2>5, <5>1
        <5> QED
          BY <3>1, <5>2
      <4> QED
        BY <4>1, <4>2, <4>3
    <3>3. ASSUME NEW q \in 1..Len(order) PROVE order'[q] \in seen'
      <4>1. CASE q + 1 <= Len(order)
        <5>1. q + 1 \in 1..Len(order) /\ 1 \in 1..Len(order) /\ q + 1 # 1
          BY <1>1, <4>1
        <5>2. order'[q] = order[q + 1] /\ order[q + 1] # order[1]
          BY <1>4, <2>5, <4>1, <5>1
        <5> QED
          BY <1>3, <2>1, <2>7, <5>1, <5>2
      <4>2. CASE ~(q + 1 <= Len(order))
        <5>1. order'[q] = i /\ 1 \in 1..Len(order)
          BY <1>1, <2>5, <4>2
        <5> QED
          BY <1>5, <2>1, <2>7, <5>1
      <4> QED
        BY <4>1, <4>2
    <3> QED
      BY <3>1, <3>2, <3>3
  <2>9. IsInjective(order')
    <3>1. ASSUME NEW a \in 1..Len(order), NEW b \in 1..Len(order), order'[a] = order'[b]
          PROVE  a = b
      BY <1>1, <1>4, <1>5, <2>5, <3>1
    <3> QED
      BY <2>4, <3>1 DEF IsInjective
  <2> QED
    BY <1>1, <2>3, <2>6, <2>8, <2>9 DEF WindowExact
<1>7. CASE ~Full(longer)
  <2>1. order' = longer /\ seen' = seen \cup {i}
    BY <1>7 DEF Record, longer
  <2>2. Len(order) < Window
    BY <1>1, <1>2, <1>7 DEF Full
  <2>3. /\ order' \in Seq(Ids) /\ Len(order') = Len(order) + 1
        /\ DOMAIN order' = 1..Len(order) + 1
    BY <1>1, <1>2, <2>1
  <2>4. \A q \in 1..Len(order) + 1 :
          order'[q] = IF q + 0 <= Len(order) THEN order[q] ELSE i
    BY <1>1, <1>2, <2>1
  <2>5. Recorded(i, 0)
    BY <1>1, <2>2, <2>3, <2>4 DEF Recorded
  <2>6. seen' = ToSet(order')
    BY <1>1, <1>3, <2>1, <2>3, <2>4 DEF ToSet
  <2>7. IsInjective(order')
    <3>1. ASSUME NEW a \in 1..Len(order) + 1, NEW b \in 1..Len(order) + 1,
                 order'[a] = order'[b]
          PROVE  a = b
      BY <1>1, <1>4, <1>5, <2>4, <3>1
    <3> QED
      BY <2>3, <3>1 DEF IsInjective
  <2> QED
    BY <1>1, <2>2, <2>3, <2>5, <2>6, <2>7 DEF WindowExact
<1> QED
  BY <1>6, <1>7

-----------------------------------------------------------------------------
(***************************************************************************)
(* What is outstanding stays in the window.                                *)
(***************************************************************************)

\* The worker keeps finitely many events.
LEMMA OutstandingFinite ==
  ASSUME TypeOK
  PROVE  IsFiniteSet(outstanding) /\ Cardinality(outstanding) \in Nat
<1>1. IsFiniteSet(Ids)
  BY DedupAssumption, FS_Interval DEF Ids
<1> QED
  BY <1>1, FS_Subset, FS_CardinalityType DEF TypeOK

\* As many ids are after a position as there are places.
LEMMA AfterSize ==
  ASSUME TypeOK, WindowExact, NEW p \in 1..Len(order)
  PROVE  IsFiniteSet(After(p)) /\ Cardinality(After(p)) = Len(order) - p
<1> DEFINE S == p + 1 .. Len(order)
           f == [q \in S |-> order[q]]
<1>1. Len(order) \in Nat /\ DOMAIN order = 1..Len(order)
  BY DEF TypeOK
<1>2. IsFiniteSet(S) /\ Cardinality(S) = Len(order) - p
  <2>0. p + 1 \in Int /\ Len(order) \in Int
    BY <1>1
  <2>1. Cardinality(S) = IF p + 1 > Len(order) THEN 0 ELSE Len(order) - (p + 1) + 1
    BY <2>0, FS_Interval
  <2>2. IsFiniteSet(S)
    BY <2>0, FS_Interval
  <2> QED
    BY <1>1, <2>1, <2>2
<1>3. f \in Surjection(S, After(p))
  BY DEF Surjection, After
<1>4. f \in Injection(S, After(p))
  <2>1. \A a, b \in S : f[a] = f[b] => a = b
    BY <1>1 DEF WindowExact, IsInjective
  <2> QED
    BY <2>1 DEF Injection, IsInjective, After
<1> HIDE DEF f, S
<1> QED
  BY <1>2, <1>3, <1>4, FS_Surjection

\* The oldest id in a full window that no longer remembers it for a new event
\* is not one that is outstanding and was acted upon.
LEMMA OldestGoes ==
  ASSUME TypeOK, WindowExact, NumbersOK, 2 * MaxOutstanding - 1 <= Window,
         NEW i \in outstanding, NEW j \in outstanding, j \notin seen,
         Len(order) = Window, order[1] = i,
         \A a \in After(1) : a > i => a \in outstanding,
         Cardinality(Older(i) \cup {a \in After(1) : a < i}) <= MaxOutstanding - 1
  PROVE  FALSE
<1> DEFINE B == Older(i) \cup {a \in After(1) : a < i}
           Y == outstanding \ {i}
           A == After(1)
<1>0. /\ i \in Ids /\ j \in Ids /\ MaxOutstanding \in Nat \ {0}
      /\ Window \in Nat \ {0} /\ 1 \in 1..Len(order) /\ Len(order) \in Nat
      /\ DOMAIN order = 1..Len(order) /\ \A q \in 1..Len(order) : order[q] \in Ids
  BY DedupAssumption DEF TypeOK
<1>1. IsFiniteSet(A) /\ Cardinality(A) = Window - 1
  BY <1>0, AfterSize
<1>2. j \notin A /\ j # i /\ i \notin A
  <2>1. \A q \in 1..Len(order) : order[q] \in seen
    BY <1>0 DEF WindowExact, ToSet
  <2>2. j \notin A /\ j # i
    BY <1>0, <2>1 DEF After
  <2>3. i \notin A
    BY <1>0 DEF After, WindowExact, IsInjective
  <2> QED
    BY <2>2, <2>3
<1>3. IsFiniteSet(Y) /\ Cardinality(Y) <= MaxOutstanding - 1 /\ Cardinality(Y) \in Nat
  <2>1. IsFiniteSet(outstanding) /\ Cardinality(outstanding) \in Nat
    BY OutstandingFinite
  <2>2. IsFiniteSet(Y) /\ Cardinality(Y) = Cardinality(outstanding) - 1
    BY <2>1, FS_RemoveElement
  <2> QED
    BY <1>0, <2>1, <2>2, FS_CardinalityType DEF NumbersOK
<1>4. IsFiniteSet(B) /\ Cardinality(B) \in Nat
  <2>1. IsFiniteSet(Older(i)) /\ IsFiniteSet({a \in A : a < i})
    BY <1>1, OutstandingFinite, FS_Subset DEF Older
  <2> QED
    BY <2>1, FS_Union, FS_CardinalityType
<1>5. A \cup {j} \subseteq Y \cup B
  <2>1. \A a \in A : a \in Ids
    BY <1>0 DEF After
  <2>2. \A a \in A : a < i \/ a > i
    BY <1>0, <1>2, <2>1 DEF Ids
  <2> QED
    BY <1>2, <2>2
<1>6. IsFiniteSet(Y \cup B) /\ Cardinality(Y \cup B) <= 2 * MaxOutstanding - 2
      /\ Cardinality(Y \cup B) \in Nat
  <2>1. IsFiniteSet(Y \cup B)
        /\ Cardinality(Y \cup B) = Cardinality(Y) + Cardinality(B) - Cardinality(Y \cap B)
    BY <1>3, <1>4, FS_Union
  <2>2. Cardinality(Y \cap B) \in Nat
    BY <1>3, FS_Intersection, FS_CardinalityType
  <2>3. Cardinality(B) <= MaxOutstanding - 1
    OBVIOUS
  <2> HIDE DEF Y, B
  <2>4. Cardinality(Y \cup B) \in Nat
    BY <2>1, FS_CardinalityType
  <2>5. Cardinality(Y \cup B) <= 2 * MaxOutstanding - 2
    BY <1>0, <1>3, <1>4, <2>1, <2>2, <2>3
  <2> QED
    BY <2>1, <2>4, <2>5
<1>7. Cardinality(A \cup {j}) = Window
  <2> HIDE DEF A
  <2>1. Cardinality(A \cup {j}) = Cardinality(A) + 1
    BY <1>1, <1>2, FS_AddElement
  <2> QED
    BY <1>0, <1>1, <2>1
<1>8. Cardinality(A \cup {j}) <= Cardinality(Y \cup B)
  <2> HIDE DEF A, B, Y
  <2> QED
    BY <1>5, <1>6, FS_Subset
<1> HIDE DEF A, B, Y
<1> QED
  BY <1>0, <1>6, <1>7, <1>8

\* Recording another event that is outstanding keeps event i remembered.
LEMMA RecordRemembers ==
  ASSUME TypeOK, WindowExact, NumbersOK, 2 * MaxOutstanding - 1 <= Window,
         NEW i \in outstanding, Remembered(i),
         NEW j \in outstanding, j \notin seen, outstanding' = outstanding,
         NEW cut \in {0, 1}, Recorded(j, cut), order' \in Seq(Ids)
  PROVE  Remembered(i)'
<1>0. /\ i \in Ids /\ j \in Ids /\ Len(order) \in Nat /\ DOMAIN order = 1..Len(order)
      /\ Len(order') = Len(order) + 1 - cut
  BY DEF TypeOK, Recorded
<1>1. PICK p \in 1..Len(order) :
        /\ order[p] = i
        /\ \A a \in After(p) : a > i => a \in outstanding
        /\ Cardinality(Older(i) \cup {a \in After(p) : a < i}) <= MaxOutstanding - 1
  BY DEF Remembered
<1>2. cut < p
  <2> SUFFICES ASSUME ~(cut < p) PROVE FALSE
    OBVIOUS
  <2>1. cut = 1 /\ p = 1 /\ Len(order) = Window
    BY <1>0 DEF Recorded
  <2> QED
    BY <1>1, <2>1, OldestGoes
<1> DEFINE k == p - cut
<1>3. k \in 1..Len(order') /\ order'[k] = i
  BY <1>0, <1>1, <1>2 DEF Recorded
<1>4. After(k)' = {order'[q] : q \in k + 1 .. Len(order')}
  BY DEF After
<1>5. After(k)' \subseteq After(p) \cup {j}
  <2> SUFFICES ASSUME NEW q \in k + 1 .. Len(order')
               PROVE  order'[q] \in After(p) \cup {j}
    BY <1>4
  <2>1. q \in 1..Len(order')
    BY <1>0, <1>2
  <2>2. CASE q + cut <= Len(order)
    <3>1. order'[q] = order[q + cut] /\ q + cut \in p + 1 .. Len(order)
      BY <1>0, <2>1, <2>2 DEF Recorded
    <3> QED
      BY <3>1 DEF After
  <2>3. CASE ~(q + cut <= Len(order))
    BY <1>0, <2>1, <2>3 DEF Recorded
  <2> QED
    BY <2>2, <2>3
<1>6. \A a \in After(k)' : a > i => a \in outstanding'
  BY <1>1, <1>5
<1>7. Cardinality(Older(i)' \cup {a \in After(k)' : a < i}) <= MaxOutstanding - 1
  <2> DEFINE B == Older(i) \cup {a \in After(p) : a < i}
             C == Older(i)' \cup {a \in After(k)' : a < i}
  <2>1. C \subseteq B
    BY <1>5 DEF Older
  <2>2. IsFiniteSet(B)
    <3>1. IsFiniteSet(Older(i)) /\ IsFiniteSet({a \in After(p) : a < i})
      BY AfterSize, OutstandingFinite, FS_Subset DEF Older
    <3> QED
      BY <3>1, FS_Union
  <2>3. Cardinality(B) \in Nat /\ Cardinality(C) \in Nat /\ Cardinality(C) <= Cardinality(B)
    BY <2>1, <2>2, FS_Subset, FS_CardinalityType
  <2> QED
    BY <1>1, <2>3, DedupAssumption
<1> QED
  BY <1>3, <1>6, <1>7 DEF Remembered

\* An event stays remembered while the window does and no older event comes.
LEMMA KeptRemembered ==
  ASSUME TypeOK, NEW i \in Ids, Remembered(i), order' = order,
         Older(i)' \subseteq Older(i), WindowExact,
         \A a \in outstanding : a > i => a \in outstanding'
  PROVE  Remembered(i)'
<1>1. PICK p \in 1..Len(order) :
        /\ order[p] = i
        /\ \A a \in After(p) : a > i => a \in outstanding
        /\ Cardinality(Older(i) \cup {a \in After(p) : a < i}) <= MaxOutstanding - 1
  BY DEF Remembered
<1>2. After(p)' = After(p)
  BY DEF After
<1> DEFINE B == Older(i) \cup {a \in After(p) : a < i}
           C == Older(i)' \cup {a \in After(p)' : a < i}
<1>3. IsFiniteSet(B)
  <2>1. IsFiniteSet(Older(i)) /\ IsFiniteSet({a \in After(p) : a < i})
    BY AfterSize, OutstandingFinite, FS_Subset DEF Older
  <2> QED
    BY <2>1, FS_Union
<1>4. C \subseteq B
  BY <1>2
<1>5. Cardinality(B) \in Nat /\ Cardinality(C) \in Nat /\ Cardinality(C) <= Cardinality(B)
  BY <1>3, <1>4, FS_Subset, FS_CardinalityType
<1>6. Cardinality(C) <= MaxOutstanding - 1
  BY <1>1, <1>5, DedupAssumption
<1> QED
  BY <1>1, <1>2, <1>6 DEF Remembered

-----------------------------------------------------------------------------
(***************************************************************************)
(* The worker and its stream.                                              *)
(***************************************************************************)

\* What is sent again is all that is outstanding, in order.
LEMMA OldestFirstOrder ==
  ASSUME TypeOK, NEW s \in OldestFirst(outstanding)
  PROVE  /\ s \in Seq(Ids) /\ Ascending(s)
         /\ \A n \in 1..Len(s) : s[n] \in outstanding
         /\ \A i \in outstanding : \E n \in 1..Len(s) : s[n] = i
<1>1. Cardinality(outstanding) \in Nat /\ outstanding \subseteq Ids
  BY OutstandingFinite DEF TypeOK
<1>2. /\ s \in [1..Cardinality(outstanding) -> outstanding] /\ ToSet(s) = outstanding
      /\ \A m, n \in DOMAIN s : m < n => s[m] < s[n]
  BY DEF OldestFirst
<1>3. s \in Seq(outstanding) /\ Len(s) = Cardinality(outstanding)
  BY <1>1, <1>2
<1>4. s \in Seq(Ids) /\ DOMAIN s = 1..Len(s)
  BY <1>1, <1>3, SeqMonotonic
<1> QED
  BY <1>2, <1>3, <1>4 DEF Ascending, ToSet

\* Nothing of the window changes: what is remembered stays so.
LEMMA WindowKept ==
  ASSUME BaseOK, AllRemembered, UNCHANGED <<order, applied, outstanding>>
  PROVE  AllRemembered'
<1> SUFFICES ASSUME NEW i \in outstanding', applied'[i] > 0 PROVE Remembered(i)'
  BY DEF AllRemembered
<1>1. i \in outstanding /\ i \in Ids /\ Remembered(i)
  BY DEF AllRemembered, BaseOK, TypeOK
<1>2. Older(i)' \subseteq Older(i) /\ order' = order
  BY DEF Older
<1>3. \A a \in outstanding : a > i => a \in outstanding'
  OBVIOUS
<1> QED
  BY <1>1, <1>2, <1>3, KeptRemembered DEF BaseOK

\* A stream that is new, or silent, carries all that is outstanding again.
LEMMA ResendStep ==
  ASSUME BaseOK, Reconnect \/ Retransmit
  PROVE  BaseOK' /\ (AllRemembered /\ AppliedOnce => DedupOK')
<1> USE DEF BaseOK
<1>1. /\ events' \in OldestFirst(outstanding) /\ acks = <<>> /\ acks' = <<>> /\ up' = TRUE
      /\ UNCHANGED <<seen, order, applied, last, outstanding>>
  BY DEF Reconnect, Retransmit, StreamOK, TypeOK
<1>2. /\ events' \in Seq(Ids) /\ Ascending(events')
      /\ \A n \in 1..Len(events') : events'[n] \in outstanding
      /\ \A i \in outstanding : \E n \in 1..Len(events') : events'[n] = i
  BY <1>1, OldestFirstOrder
<1>3. TypeOK'
  BY <1>1, <1>2 DEF TypeOK
<1>4. StreamOK'
  BY <1>1, <1>2 DEF StreamOK, Ascending
<1>5. WindowExact' /\ NumbersOK'
  BY <1>1 DEF WindowExact, NumbersOK
<1>6. AppliedTravels' /\ (AppliedOnce => AppliedOnce')
  BY <1>1, <1>2 DEF AppliedTravels, Travels, AppliedOnce
<1>7. AllRemembered => AllRemembered'
  BY <1>1, WindowKept
<1> QED
  BY <1>3, <1>4, <1>5, <1>6, <1>7 DEF DedupOK

\* A stream that breaks loses what it carries, and nothing else.
LEMMA BreakStep ==
  ASSUME BaseOK, Break
  PROVE  BaseOK' /\ (DedupOK => DedupOK')
<1> USE DEF BaseOK
<1>1. /\ events' = <<>> /\ acks' = <<>> /\ up' = FALSE
      /\ UNCHANGED <<seen, order, applied, last, outstanding>>
  BY DEF Break
<1>2. TypeOK'
  <2>1. events' \in Seq(Ids) /\ acks' \in Seq(Ids)
    BY <1>1
  <2> QED
    BY <1>1, <2>1 DEF TypeOK
<1>3. StreamOK'
  BY <1>1 DEF StreamOK, Ascending
<1>4. WindowExact' /\ NumbersOK'
  BY <1>1 DEF WindowExact, NumbersOK
<1>5. AppliedTravels' /\ (AppliedOnce => AppliedOnce')
  BY <1>1 DEF AppliedTravels, AppliedOnce
<1>6. AllRemembered => AllRemembered'
  BY <1>1, WindowKept
<1> QED
  BY <1>2, <1>3, <1>4, <1>5, <1>6 DEF DedupOK

\* A new event is younger than every other.
LEMMA EmitStep ==
  ASSUME BaseOK, Emit
  PROVE  BaseOK' /\ (DedupOK => DedupOK')
<1> USE DEF BaseOK
<1> DEFINE k == last + 1
<1>1. /\ last \in Nat /\ k \in Ids /\ k \notin outstanding
      /\ outstanding \subseteq 1..last /\ applied[k] = 0
  BY DedupAssumption DEF TypeOK, Emit, NumbersOK, Ids
<1>2. /\ events \in Seq(Ids) /\ Len(events) \in Nat /\ events' = Append(events, k)
      /\ events' \in Seq(Ids) /\ Len(events') = Len(events) + 1
      /\ \A n \in 1..Len(events) : events'[n] = events[n]
      /\ events'[Len(events) + 1] = k
  BY <1>1, AppendProperties DEF TypeOK, Emit
<1>3. /\ outstanding' = outstanding \cup {k} /\ last' = k /\ up
      /\ UNCHANGED <<seen, order, applied, up, acks>>
  BY DEF Emit
<1>4. TypeOK'
  BY <1>1, <1>2, <1>3 DEF TypeOK, Ids
<1> HIDE DEF k
<1>5. StreamOK'
  <2>0. \A a \in outstanding : a < k
    <3>1. \A a \in 1..last : a < last + 1
      BY <1>1
    <3> QED
      BY <1>1, <3>1 DEF k
  <2>1. \A m \in 1..Len(events) : events[m] < k
    BY <2>0 DEF StreamOK
  <2>2. \A m \in 1..Len(acks) : acks[m] < k
    BY <2>0 DEF StreamOK
  <2>3. Ascending(events')
    BY <1>2, <2>1 DEF StreamOK, Ascending
  <2>4. \A m \in 1..Len(acks), n \in 1..Len(events') : acks[m] < events'[n]
    BY <1>2, <2>2 DEF StreamOK
  <2>5. \A n \in 1..Len(events') : events'[n] \in outstanding'
    BY <1>2, <1>3 DEF StreamOK
  <2> QED
    BY <1>3, <2>3, <2>4, <2>5 DEF StreamOK, Ascending
<1>6. NumbersOK'
  <2>1. Cardinality(outstanding') = Cardinality(outstanding) + 1
    BY <1>1, <1>3, OutstandingFinite, FS_AddElement
  <2>2. Cardinality(outstanding') <= MaxOutstanding
    BY <2>1, OutstandingFinite, DedupAssumption DEF Emit
  <2>3. \A i \in Ids : applied'[i] > 0 => i <= last'
    BY <1>1, <1>3 DEF NumbersOK, Ids, k
  <2>4. outstanding' \subseteq 1..last'
    BY <1>1, <1>3 DEF k
  <2> QED
    BY <2>2, <2>3, <2>4 DEF NumbersOK
<1>7. ASSUME AppliedTravels PROVE AppliedTravels'
  <2> SUFFICES ASSUME NEW i \in outstanding', applied'[i] > 0 PROVE Travels(i)'
    BY DEF AppliedTravels
  <2>1. i \in outstanding /\ Travels(i)
    BY <1>1, <1>3, <1>7 DEF AppliedTravels
  <2>2. \A n \in 1..Len(events) : n \in 1..Len(events') /\ events'[n] = events[n]
    BY <1>2
  <2> QED
    BY <1>3, <2>1, <2>2 DEF Travels
<1>8. ASSUME AllRemembered PROVE AllRemembered'
  <2> SUFFICES ASSUME NEW i \in outstanding', applied'[i] > 0 PROVE Remembered(i)'
    BY DEF AllRemembered
  <2>1. i \in outstanding /\ applied[i] > 0 /\ i \in Ids /\ i < k
    BY <1>1, <1>3 DEF TypeOK, k
  <2>2. Older(i)' \subseteq Older(i)
    BY <1>1, <1>3, <2>1 DEF Older, Ids, k
  <2> QED
    BY <1>3, <1>8, <2>1, <2>2, KeptRemembered DEF AllRemembered
<1>9. WindowExact' /\ (AppliedOnce => AppliedOnce')
  BY <1>3 DEF WindowExact, AppliedOnce
<1> QED
  BY <1>4, <1>5, <1>6, <1>7, <1>8, <1>9 DEF DedupOK

\* An acknowledgement takes the oldest event that is acted upon and
\* outstanding, so what is outstanding and was recorded before it is younger.
LEMMA AcknowledgedStep ==
  ASSUME BaseOK, Acknowledged
  PROVE  BaseOK' /\ (DedupOK => DedupOK')
<1> USE DEF BaseOK
<1> DEFINE h == Head(acks)
<1>1. /\ acks \in Seq(Ids) /\ acks # <<>> /\ Len(acks) \in Nat /\ 1 \in 1..Len(acks)
      /\ acks' \in Seq(Ids) /\ Len(acks') = Len(acks) - 1 /\ h = acks[1]
      /\ \A m \in 1..Len(acks') : m + 1 \in 1..Len(acks) /\ acks'[m] = acks[m + 1]
  BY HeadTailProperties DEF TypeOK, Acknowledged
<1>2. /\ outstanding' = outstanding \ {h} /\ up
      /\ UNCHANGED <<seen, order, applied, last, up, events>>
  BY <1>1 DEF Acknowledged, StreamOK
<1>3. TypeOK'
  BY <1>1, <1>2 DEF TypeOK
<1>4. h \in Ids /\ h \in outstanding /\ Ids \subseteq Int
  <2>1. h \in outstanding
    BY <1>1 DEF StreamOK
  <2>2. Ids \subseteq Int
    BY DEF Ids
  <2> QED
    BY <2>1, <2>2 DEF TypeOK
<1>5. \A m \in 1..Len(acks') : h < acks'[m]
  BY <1>1 DEF StreamOK, Ascending
<1>6. \A n \in 1..Len(events) : h < events[n]
  BY <1>1 DEF StreamOK
<1> HIDE DEF h
<1>7. StreamOK'
  <2>1. Ascending(acks')
    <3> SUFFICES ASSUME NEW m \in 1..Len(acks'), NEW n \in 1..Len(acks'), m < n
                 PROVE  acks'[m] < acks'[n]
      BY DEF Ascending
    <3>1. /\ m + 1 \in 1..Len(acks) /\ n + 1 \in 1..Len(acks) /\ m + 1 < n + 1
          /\ acks'[m] = acks[m + 1] /\ acks'[n] = acks[n + 1]
      BY <1>1
    <3> QED
      BY <3>1 DEF StreamOK, Ascending
  <2>2. ASSUME NEW m \in 1..Len(acks') PROVE acks'[m] \in outstanding'
    <3>1. acks'[m] \in outstanding /\ acks'[m] \in Ids
      BY <1>1 DEF StreamOK, TypeOK
    <3>2. h < acks'[m]
      BY <1>5
    <3> QED
      BY <1>2, <1>4, <3>1, <3>2
  <2>3. ASSUME NEW n \in 1..Len(events') PROVE events'[n] \in outstanding'
    <3>1. events'[n] \in outstanding /\ events'[n] \in Ids /\ h < events[n]
      BY <1>2, <1>6 DEF StreamOK, TypeOK
    <3> QED
      BY <1>2, <1>4, <3>1
  <2>4. \A m \in 1..Len(acks'), n \in 1..Len(events') : acks'[m] < events'[n]
    BY <1>1, <1>2 DEF StreamOK
  <2> QED
    BY <1>2, <2>1, <2>2, <2>3, <2>4 DEF StreamOK, Ascending
<1>8. NumbersOK'
  <2>1. Cardinality(outstanding') <= Cardinality(outstanding)
        /\ Cardinality(outstanding') \in Nat
    BY <1>2, OutstandingFinite, FS_Subset, FS_CardinalityType
  <2>2. Cardinality(outstanding') <= MaxOutstanding
    BY <2>1, OutstandingFinite, DedupAssumption DEF NumbersOK
  <2> QED
    BY <1>2, <2>2 DEF NumbersOK
<1>9. WindowExact' /\ (AppliedOnce => AppliedOnce')
  BY <1>2 DEF WindowExact, AppliedOnce
<1>10. ASSUME AppliedTravels PROVE AppliedTravels'
  <2> SUFFICES ASSUME NEW i \in outstanding', applied'[i] > 0 PROVE Travels(i)'
    BY DEF AppliedTravels
  <2>1. i \in outstanding /\ i # h /\ Travels(i)
    BY <1>2, <1>10 DEF AppliedTravels
  <2>2. CASE \E m \in 1..Len(acks) : acks[m] = i
    <3>1. PICK m \in 1..Len(acks) : acks[m] = i
      BY <2>2
    <3>2. m # 1
      BY <1>1, <2>1, <3>1
    <3>3. m - 1 \in 1..Len(acks') /\ acks'[m - 1] = acks[m]
      <4>1. m - 1 \in 1..Len(acks') /\ (m - 1) + 1 = m
        BY <1>1, <3>1, <3>2
      <4> QED
        BY <1>1, <4>1
    <3> QED
      BY <3>1, <3>3 DEF Travels
  <2> QED
    BY <1>2, <2>1, <2>2 DEF Travels
<1>11. ASSUME AppliedTravels, AllRemembered PROVE AllRemembered'
  <2> SUFFICES ASSUME NEW i \in outstanding', applied'[i] > 0 PROVE Remembered(i)'
    BY DEF AllRemembered
  <2>1. i \in outstanding /\ i # h /\ Travels(i) /\ i \in Ids /\ Remembered(i)
    BY <1>2, <1>11 DEF AppliedTravels, AllRemembered, TypeOK
  <2>2. h < i
    <3>1. CASE \E m \in 1..Len(acks) : acks[m] = i
      <4>1. PICK m \in 1..Len(acks) : acks[m] = i
        BY <3>1
      <4>2. m # 1 /\ 1 < m
        BY <1>1, <2>1, <4>1
      <4> QED
        BY <1>1, <4>1, <4>2 DEF StreamOK, Ascending
    <3>2. CASE \E n \in 1..Len(events) : events[n] = i
      BY <1>6, <3>2
    <3> QED
      BY <2>1, <3>1, <3>2 DEF Travels
  <2>3. \A a \in outstanding : a > i => a \in outstanding'
    BY <1>2, <1>4, <2>1, <2>2
  <2>4. Older(i)' \subseteq Older(i)
    BY <1>2 DEF Older
  <2> QED
    BY <1>2, <2>1, <2>3, <2>4, KeptRemembered
<1> QED
  BY <1>3, <1>7, <1>8, <1>9, <1>10, <1>11 DEF DedupOK

-----------------------------------------------------------------------------
(***************************************************************************)
(* handle_worker_event.                                                    *)
(***************************************************************************)

\* The event that arrives is the oldest on the stream.
LEMMA ArrivesFacts ==
  ASSUME BaseOK, NEW i \in Ids, Arrives(i)
  PROVE  /\ events' \in Seq(Ids) /\ Len(events) \in Nat
         /\ Len(events') = Len(events) - 1
         /\ 1 \in 1..Len(events) /\ events[1] = i /\ i \in outstanding
         /\ \A n \in 1..Len(events') : n + 1 \in 1..Len(events) /\ events'[n] = events[n + 1]
         /\ \A n \in 1..Len(events') : i < events'[n]
         /\ \A n \in 1..Len(events) :
              events[n] = i \/ \E m \in 1..Len(events') : events'[m] = events[n]
         /\ up /\ UNCHANGED <<last, outstanding, up>>
<1> USE DEF BaseOK
<1>1. /\ events \in Seq(Ids) /\ events # <<>> /\ Len(events) \in Nat
      /\ events' = Tail(events) /\ i = Head(events)
  BY DEF TypeOK, Arrives
<1>2. /\ events' \in Seq(Ids) /\ Len(events') = Len(events) - 1
      /\ \A n \in 1..Len(events') : n + 1 \in 1..Len(events) /\ events'[n] = events[n + 1]
  BY <1>1, HeadTailProperties
<1>3. 1 \in 1..Len(events) /\ events[1] = i
  BY <1>1
<1>4. \A n \in 1..Len(events') : i < events'[n]
  BY <1>2, <1>3 DEF StreamOK, Ascending
<1>5. ASSUME NEW n \in 1..Len(events), events[n] # i
      PROVE  \E m \in 1..Len(events') : events'[m] = events[n]
  <2>1. n # 1
    BY <1>3, <1>5
  <2>2. n - 1 \in 1..Len(events') /\ (n - 1) + 1 = n
    BY <1>1, <1>2, <2>1
  <2> QED
    BY <1>2, <2>2
<1> QED
  BY <1>1, <1>2, <1>3, <1>4, <1>5 DEF Arrives, StreamOK

\* The stream carries less, and the answer after those that were under way.
LEMMA ArrivesKeeps ==
  ASSUME BaseOK, NEW i \in Ids, Arrives(i), EventAck(i) \/ acks' = acks
  PROVE  /\ events' \in Seq(Ids) /\ acks' \in Seq(Ids)
         /\ StreamOK'
         /\ \A j \in Ids : j # i /\ Travels(j) => Travels(j)'
         /\ EventAck(i) => Travels(i)'
<1> USE DEF BaseOK
<1>1. /\ events' \in Seq(Ids) /\ Len(events) \in Nat
      /\ Len(events') = Len(events) - 1
      /\ 1 \in 1..Len(events) /\ events[1] = i /\ i \in outstanding
      /\ \A n \in 1..Len(events') : n + 1 \in 1..Len(events) /\ events'[n] = events[n + 1]
      /\ \A n \in 1..Len(events') : i < events'[n]
      /\ \A n \in 1..Len(events) :
           events[n] = i \/ \E m \in 1..Len(events') : events'[m] = events[n]
      /\ up /\ UNCHANGED <<last, outstanding, up>>
  BY ArrivesFacts
<1>2. /\ Ascending(events')
      /\ \A n \in 1..Len(events') : events'[n] \in outstanding'
  <2>1. \A m, n \in 1..Len(events') : m < n => m + 1 < n + 1
    BY <1>1
  <2>2. Ascending(events')
    BY <1>1, <2>1 DEF StreamOK, Ascending
  <2> QED
    BY <1>1, <2>2 DEF StreamOK
<1>3. acks \in Seq(Ids) /\ Len(acks) \in Nat /\ \A m \in 1..Len(acks) : acks[m] < i
  BY <1>1 DEF TypeOK, StreamOK
<1>4. CASE acks' = acks
  <2>1. StreamOK'
    BY <1>1, <1>2, <1>4 DEF StreamOK, Ascending
  <2>2. \A j \in Ids : j # i /\ Travels(j) => Travels(j)'
    BY <1>1, <1>4 DEF Travels
  <2>3. ~EventAck(i)
    <3>1. Len(Append(acks, i)) = Len(acks) + 1
      BY <1>3, AppendProperties
    <3>2. Append(acks, i) # acks
      BY <1>3, <3>1
    <3> QED
      BY <1>4, <3>2 DEF EventAck
  <2> QED
    BY <1>1, <1>3, <1>4, <2>1, <2>2, <2>3
<1>5. CASE EventAck(i)
  <2>1. /\ acks' \in Seq(Ids) /\ Len(acks') = Len(acks) + 1
        /\ \A m \in 1..Len(acks) : acks'[m] = acks[m]
        /\ acks'[Len(acks) + 1] = i
    BY <1>3, <1>5, AppendProperties DEF EventAck
  <2>2. Ascending(acks')
    BY <1>3, <2>1 DEF StreamOK, Ascending
  <2>3. \A m \in 1..Len(acks') : acks'[m] \in outstanding'
    BY <1>1, <1>3, <2>1 DEF StreamOK
  <2>4. ASSUME NEW m \in 1..Len(acks'), NEW n \in 1..Len(events')
        PROVE  acks'[m] < events'[n]
    <3>1. m \in 1..Len(acks) => acks[m] < events'[n]
      BY <1>1 DEF StreamOK
    <3>2. m = Len(acks) + 1 \/ m \in 1..Len(acks)
      BY <1>3, <2>1
    <3> QED
      BY <1>1, <1>3, <2>1, <3>1, <3>2
  <2>5. StreamOK'
    BY <1>1, <1>2, <2>2, <2>3, <2>4 DEF StreamOK
  <2>6. \A m \in 1..Len(acks) : m \in 1..Len(acks')
    BY <1>3, <2>1
  <2>7. \A j \in Ids : j # i /\ Travels(j) => Travels(j)'
    BY <1>1, <2>1, <2>6 DEF Travels
  <2>8. Len(acks) + 1 \in 1..Len(acks')
    BY <1>3, <2>1
  <2>9. Travels(i)'
    BY <2>1, <2>8 DEF Travels
  <2> QED
    BY <1>1, <2>1, <2>5, <2>7, <2>9
<1> QED
  BY <1>4, <1>5

\* A duplicate is acknowledged and changes nothing else.
LEMMA DuplicateStep ==
  ASSUME BaseOK, NEW i \in Ids, Duplicate(i)
  PROVE  BaseOK' /\ (DedupOK => DedupOK')
<1> USE DEF BaseOK
<1>1. /\ Arrives(i) /\ EventAck(i)
      /\ UNCHANGED <<seen, order, applied, last, outstanding, up>>
  BY DEF Duplicate, Arrives
<1>2. /\ events' \in Seq(Ids) /\ acks' \in Seq(Ids) /\ StreamOK'
      /\ \A j \in Ids : Travels(j) => Travels(j)'
  BY <1>1, ArrivesKeeps
<1>3. TypeOK'
  BY <1>1, <1>2 DEF TypeOK
<1>4. WindowExact' /\ NumbersOK' /\ (AppliedOnce => AppliedOnce')
  BY <1>1 DEF WindowExact, NumbersOK, AppliedOnce
<1>5. AppliedTravels => AppliedTravels'
  <2>1. outstanding \subseteq Ids
    BY DEF TypeOK
  <2> QED
    BY <1>1, <1>2, <2>1 DEF AppliedTravels
<1>6. AllRemembered => AllRemembered'
  BY <1>1, WindowKept
<1> QED
  BY <1>2, <1>3, <1>4, <1>5, <1>6 DEF DedupOK

\* An event that was acted upon and is outstanding is in the window.
LEMMA RememberedSeen ==
  ASSUME BaseOK, NEW i \in Ids, Remembered(i)
  PROVE  i \in seen
<1>1. DOMAIN order = 1..Len(order) /\ seen = ToSet(order)
  BY DEF BaseOK, TypeOK, WindowExact
<1> QED
  BY <1>1 DEF Remembered, ToSet

\* The youngest id in the window is remembered.
LEMMA NewRemembered ==
  ASSUME BaseOK, NEW i \in outstanding, outstanding' = outstanding,
         NEW cut \in {0, 1}, Recorded(i, cut), order' \in Seq(Ids)
  PROVE  Remembered(i)'
<1> USE DEF BaseOK
<1>1. /\ Len(order) \in Nat /\ Window \in Nat \ {0} /\ Len(order') \in Nat
      /\ Len(order') = Len(order) + 1 - cut
  BY DedupAssumption DEF TypeOK, Recorded
<1>2. PICK p \in 1..Len(order') : p = Len(order') /\ ~(p + cut <= Len(order))
  <2>1. Len(order') \in 1..Len(order')
    BY <1>1 DEF Recorded
  <2>2. ~(Len(order') + cut <= Len(order))
    BY <1>1
  <2> QED
    BY <2>1, <2>2
<1>3. order'[p] = i
  BY <1>2 DEF Recorded
<1>4. After(p)' = {}
  <2>1. After(p)' = {order'[q] : q \in p + 1 .. Len(order')}
    BY DEF After
  <2>2. p + 1 .. Len(order') = {}
    BY <1>1, <1>2
  <2> QED
    BY <2>1, <2>2
<1>5. IsFiniteSet(outstanding \ {i}) /\ Cardinality(outstanding \ {i}) <= MaxOutstanding - 1
      /\ Cardinality(outstanding \ {i}) \in Nat
  <2>1. IsFiniteSet(outstanding) /\ Cardinality(outstanding) \in Nat
    BY OutstandingFinite
  <2>2. IsFiniteSet(outstanding \ {i})
        /\ Cardinality(outstanding \ {i}) = Cardinality(outstanding) - 1
    BY <2>1, FS_RemoveElement
  <2>3. Cardinality(outstanding \ {i}) \in Nat
    BY <2>2, FS_CardinalityType
  <2> QED
    BY <2>1, <2>2, <2>3, DedupAssumption DEF NumbersOK
<1>6. Older(i)' \subseteq outstanding \ {i}
  BY DEF Older, TypeOK, Ids
<1>7. Cardinality(Older(i)') <= MaxOutstanding - 1
  <2>1. Cardinality(Older(i)') <= Cardinality(outstanding \ {i})
        /\ Cardinality(Older(i)') \in Nat
    BY <1>5, <1>6, FS_Subset, FS_CardinalityType
  <2> QED
    BY <1>5, <2>1, DedupAssumption
<1>8. Older(i)' \cup {a \in After(p)' : a < i} = Older(i)'
  BY <1>4
<1>9. Cardinality(Older(i)' \cup {a \in After(p)' : a < i}) <= MaxOutstanding - 1
  BY <1>7, <1>8
<1>10. \A a \in After(p)' : a > i => a \in outstanding'
  BY <1>4
<1> QED
  BY <1>2, <1>3, <1>9, <1>10 DEF Remembered

\* A new event is recorded, and acted upon and acknowledged unless it is
\* refused.
LEMMA RecordStep ==
  ASSUME BaseOK, NEW i \in Ids, Accept(i) \/ Refuse(i)
  PROVE  /\ BaseOK'
         /\ (2 * MaxOutstanding - 1 <= Window /\ DedupOK) => DedupOK'
<1> USE DEF BaseOK
<1>1. /\ Arrives(i) /\ i \notin seen /\ Record(i) /\ (EventAck(i) \/ acks' = acks)
      /\ UNCHANGED <<last, outstanding, up>> /\ i \in outstanding
      /\ \/ EventAck(i) /\ applied' = [applied EXCEPT ![i] = @ + 1]
         \/ applied' = applied
  <2>1. Arrives(i)
    BY DEF Accept, Refuse
  <2> QED
    BY <2>1, ArrivesFacts DEF Accept, Refuse
<1>2. /\ events' \in Seq(Ids) /\ acks' \in Seq(Ids) /\ StreamOK'
      /\ \A j \in Ids : j # i /\ Travels(j) => Travels(j)'
      /\ EventAck(i) => Travels(i)'
  BY <1>1, ArrivesKeeps
<1>3. order' \in Seq(Ids) /\ WindowExact' /\ \E cut \in {0, 1} : Recorded(i, cut)
  BY <1>1, RecordSteps
<1>4. seen' \subseteq Ids
  <2>1. seen' \subseteq seen \cup {i}
    BY <1>1 DEF Record
  <2> QED
    BY <2>1 DEF TypeOK
<1>5. /\ applied' \in [Ids -> Nat] /\ \A j \in Ids : j # i => applied'[j] = applied[j]
      /\ (applied'[i] = applied[i] \/ (applied'[i] = applied[i] + 1 /\ EventAck(i)))
  <2>1. CASE applied' = applied
    <3>1. applied' \in [Ids -> Nat]
      BY <2>1 DEF TypeOK
    <3> QED
      BY <2>1, <3>1
  <2>2. CASE EventAck(i) /\ applied' = [applied EXCEPT ![i] = @ + 1]
    <3>1. applied \in [Ids -> Nat] /\ applied[i] + 1 \in Nat
      BY DEF TypeOK
    <3>2. applied' = [applied EXCEPT ![i] = applied[i] + 1]
      BY <2>2
    <3>3. applied' \in [Ids -> Nat]
      BY <3>1, <3>2
    <3>4. applied'[i] = applied[i] + 1
      BY <3>1, <3>2
    <3>5. \A j \in Ids : j # i => applied'[j] = applied[j]
      BY <3>1, <3>2
    <3>6. EventAck(i)
      BY <2>2
    <3> QED
      BY <3>3, <3>4, <3>5, <3>6
  <2> QED
    BY <1>1, <2>1, <2>2
<1>6. TypeOK'
  BY <1>1, <1>2, <1>3, <1>4, <1>5 DEF TypeOK
<1>7. NumbersOK'
  <2>1. i <= last
    <3>1. i \in 1..last
      BY <1>1 DEF NumbersOK
    <3> QED
      BY <3>1
  <2> QED
    BY <1>1, <1>5, <2>1 DEF NumbersOK
<1>8. ASSUME 2 * MaxOutstanding - 1 <= Window, DedupOK PROVE DedupOK'
  <2>1. applied[i] = 0
    <3>1. ~Remembered(i)
      BY <1>1, RememberedSeen
    <3>2. ~(applied[i] > 0)
      BY <1>1, <1>8, <3>1 DEF DedupOK, AllRemembered
    <3> QED
      BY <3>2 DEF TypeOK
  <2>2. AppliedOnce'
    BY <1>5, <1>8, <2>1 DEF DedupOK, AppliedOnce
  <2>3. AppliedTravels'
    <3> SUFFICES ASSUME up', NEW j \in outstanding', applied'[j] > 0 PROVE Travels(j)'
      BY DEF AppliedTravels
    <3>1. j \in Ids /\ j \in outstanding /\ up
      BY <1>1 DEF TypeOK
    <3>2. CASE j = i
      BY <1>2, <1>5, <2>1, <3>2
    <3>3. CASE j # i
      BY <1>2, <1>5, <1>8, <3>1, <3>3 DEF DedupOK, AppliedTravels
    <3> QED
      BY <3>2, <3>3
  <2>4. AllRemembered'
    <3> SUFFICES ASSUME NEW j \in outstanding', applied'[j] > 0 PROVE Remembered(j)'
      BY DEF AllRemembered
    <3>1. j \in Ids /\ j \in outstanding
      BY <1>1 DEF TypeOK
    <3>2. PICK cut \in {0, 1} : Recorded(i, cut)
      BY <1>3
    <3>3. CASE j = i
      BY <1>1, <1>3, <3>2, <3>3, NewRemembered
    <3>4. CASE j # i
      <4>1. Remembered(j)
        BY <1>5, <1>8, <3>1, <3>4 DEF DedupOK, AllRemembered
      <4> QED
        BY <1>1, <1>3, <1>8, <3>1, <3>2, <4>1, RecordRemembers
    <3> QED
      BY <3>3, <3>4
  <2> QED
    BY <1>2, <1>3, <1>6, <1>7, <2>2, <2>3, <2>4 DEF DedupOK
<1> QED
  BY <1>2, <1>3, <1>6, <1>7, <1>8

-----------------------------------------------------------------------------
(***************************************************************************)
(* The theorems.                                                           *)
(***************************************************************************)

\* Initially nothing was sent and nothing is in the window.
LEMMA DedupInit ==
  ASSUME Init
  PROVE  DedupOK
<1> USE DEF Init
<1>1. <<>> \in Seq(Ids) /\ Len(<<>>) = 0 /\ DOMAIN <<>> = {}
  OBVIOUS
<1>2. TypeOK
  <2>1. applied \in [Ids -> Nat] /\ last \in 0..MaxEvents
    BY DedupAssumption
  <2>2. seen \subseteq Ids /\ outstanding \subseteq Ids /\ up \in BOOLEAN
    OBVIOUS
  <2>3. order \in Seq(Ids) /\ events \in Seq(Ids) /\ acks \in Seq(Ids)
    OBVIOUS
  <2> QED
    BY <2>1, <2>2, <2>3 DEF TypeOK
<1>3. WindowExact
  <2>1. ToSet(<<>>) = {} /\ IsInjective(<<>>)
    BY <1>1 DEF ToSet, IsInjective
  <2> QED
    BY <1>1, <2>1, DedupAssumption DEF WindowExact
<1>4. StreamOK /\ AppliedTravels /\ AllRemembered /\ AppliedOnce
  BY <1>1 DEF StreamOK, Ascending, AppliedTravels, AllRemembered, AppliedOnce
<1>5. NumbersOK
  <2>1. Cardinality({}) = 0
    BY FS_EmptySet
  <2> QED
    BY <2>1, DedupAssumption DEF NumbersOK
<1> QED
  BY <1>2, <1>3, <1>4, <1>5 DEF DedupOK, BaseOK

\* A step keeps what holds of every window, and the rest if it is wide enough.
LEMMA DedupStep ==
  ASSUME BaseOK, [Next]_vars
  PROVE  /\ BaseOK'
         /\ 2 * MaxOutstanding - 1 <= Window /\ DedupOK => DedupOK'
<1>1. CASE UNCHANGED vars
  <2>1. UNCHANGED <<seen, order, applied, last, outstanding, up, events, acks>>
    BY <1>1 DEF vars
  <2>2. BaseOK'
    BY <2>1 DEF BaseOK, TypeOK, WindowExact, StreamOK, Ascending, NumbersOK
  <2>3. AllRemembered => AllRemembered'
    BY <2>1, WindowKept
  <2>4. /\ AppliedTravels => AppliedTravels'
        /\ AppliedOnce => AppliedOnce'
    BY <2>1 DEF AppliedTravels, Travels, AppliedOnce
  <2> QED
    BY <2>2, <2>3, <2>4 DEF DedupOK
<1>2. CASE Reconnect \/ Retransmit
  BY <1>2, ResendStep DEF DedupOK
<1>3. CASE Break
  BY <1>3, BreakStep
<1>4. CASE Emit
  BY <1>4, EmitStep
<1>5. CASE Acknowledged
  BY <1>5, AcknowledgedStep
<1>6. CASE HandleEvent
  <2>1. PICK i \in Ids : Duplicate(i) \/ Accept(i) \/ Refuse(i)
    BY <1>6 DEF HandleEvent
  <2>2. CASE Duplicate(i)
    BY <2>2, DuplicateStep
  <2>3. CASE Accept(i) \/ Refuse(i)
    BY <2>3, RecordStep
  <2> QED
    BY <2>1, <2>2, <2>3
<1> QED
  BY <1>1, <1>2, <1>3, <1>4, <1>5, <1>6 DEF Next

\* The state of handle_worker_event and of the stream has its types.
THEOREM DedupTypeCorrect == Spec => []TypeOK
<1>1. Init => BaseOK
  BY DedupInit DEF DedupOK
<1>2. BaseOK /\ [Next]_vars => BaseOK'
  BY DedupStep
<1>3. BaseOK => TypeOK
  BY DEF BaseOK
<1> QED
  BY <1>1, <1>2, <1>3, PTL DEF Spec

\* seen_events and seen_event_order hold the same ids, each once and never
\* more than the capacity, whatever is sent again, refused or lost.
THEOREM WindowIsExact == Spec => []WindowExact
<1>1. Init => BaseOK
  BY DedupInit DEF DedupOK
<1>2. BaseOK /\ [Next]_vars => BaseOK'
  BY DedupStep
<1>3. BaseOK => WindowExact
  BY DEF BaseOK
<1> QED
  BY <1>1, <1>2, <1>3, PTL DEF Spec

\* An instance that keeps at most (EVENT_DEDUP_CAPACITY + 1) / 2 events
\* without an acknowledgement has each of them acted upon once, however often
\* its stream breaks and whatever is refused.
THEOREM EventsAppliedOnce ==
  ASSUME 2 * MaxOutstanding - 1 <= Window
  PROVE  Spec => []AppliedOnce
<1>1. Init => DedupOK
  BY DedupInit
<1>2. DedupOK /\ [Next]_vars => DedupOK'
  BY DedupStep DEF DedupOK
<1>3. DedupOK => AppliedOnce
  BY DEF DedupOK
<1> QED
  BY <1>1, <1>2, <1>3, PTL DEF Spec

=============================================================================
