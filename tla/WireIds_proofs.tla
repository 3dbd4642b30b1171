--------------------------- MODULE WireIds_proofs ---------------------------
(***************************************************************************)
(* The ids of a registration, for every value of the constants: a token    *)
(* that is formatted reads back as its room id, a token that is accepted   *)
(* is the only spelling of the id it is read as, and a number is accepted  *)
(* in its numeral and in no other spelling.                                *)
(*                                                                         *)
(* The tokens rest on one fact of arithmetic: a bit of an id and its       *)
(* character and place determine each other (BitHasPlace, PlaceHasBit).    *)
(* The numbers rest on two inductions, over what is read (NumberWritten)   *)
(* and over what is written (NumeralRead); Number and Numeral are          *)
(* recursive functions, so first they are shown to be what their           *)
(* definitions say (NumberAppend, NumeralIs).                              *)
(***************************************************************************)
EXTENDS WireIds, TLAPS, WellFoundedInduction, SequenceTheorems

-----------------------------------------------------------------------------
(***************************************************************************)
(* Division by the size of a character.                                    *)
(***************************************************************************)

LEMMA Division ==
  ASSUME NEW a \in Nat, NEW d \in Nat \ {0}
  PROVE  /\ a \div d \in Nat /\ a % d \in 0..d - 1
         /\ a = d * (a \div d) + (a % d)
OBVIOUS

LEMMA Monotone ==
  ASSUME NEW d \in Nat, NEW p \in Nat, NEW q \in Nat, p < q
  PROVE  d * p + d <= d * q
<1>1. PICK n \in Nat : q = p + 1 + n
  <2>1. q - p - 1 \in Nat /\ q = p + 1 + (q - p - 1)
    OBVIOUS
  <2> QED
    BY <2>1
<1>2. d * (p + 1 + n) = d * p + d + d * n
  OBVIOUS
<1>3. d * n \in Nat /\ d * p \in Nat
  OBVIOUS
<1> QED
  BY <1>1, <1>2, <1>3

\* Quotient and remainder are determined by the number.
LEMMA DivisionUnique ==
  ASSUME NEW d \in Nat \ {0}, NEW q \in Nat, NEW r \in 0..d - 1
  PROVE  (d * q + r) \div d = q /\ (d * q + r) % d = r
<1> DEFINE a == d * q + r
<1>1. a \in Nat
  OBVIOUS
<1> DEFINE p == a \div d
           s == a % d
<1>2. p \in Nat /\ s \in 0..d - 1 /\ a = d * p + s
  BY <1>1, Division
<1>3. d * p \in Nat /\ d * q \in Nat
  BY <1>2
<1> HIDE DEF p, s
<1>4. ~ p < q
  <2> SUFFICES ASSUME p < q PROVE FALSE
    OBVIOUS
  <2>1. d * p + d <= d * q
    BY <1>2, Monotone
  <2> QED
    BY <1>2, <1>3, <2>1
<1>5. ~ q < p
  <2> SUFFICES ASSUME q < p PROVE FALSE
    OBVIOUS
  <2>1. d * q + d <= d * p
    BY <1>2, Monotone
  <2> QED
    BY <1>2, <1>3, <2>1
<1>6. p = q
  BY <1>2, <1>4, <1>5
<1>7. s = r
  BY <1>2, <1>3, <1>6
<1> QED
  BY <1>6, <1>7 DEF p, s

-----------------------------------------------------------------------------
(***************************************************************************)
(* The bits of an id and the places of a token.                            *)
(***************************************************************************)

LEMMA TokenLength == ROOM_TOKEN_LEN \in Nat \ {0}
<1>1. Bits \in Nat \ {0} /\ Digit \in Nat \ {0} /\ Bits + Digit - 1 \in Nat
  BY TokenAssumption
<1> DEFINE q == (Bits + Digit - 1) \div Digit
           r == (Bits + Digit - 1) % Digit
<1>2. q \in Nat /\ r \in 0..Digit - 1 /\ Bits + Digit - 1 = Digit * q + r
  BY <1>1, Division
<1> HIDE DEF q, r
<1>3. q # 0
  BY <1>1, <1>2
<1> QED
  BY <1>2, <1>3 DEF q, ROOM_TOKEN_LEN

\* Every bit of an id has a character and a place, where it is found again.
LEMMA BitHasPlace ==
  ASSUME NEW k \in 1..Bits
  PROVE  /\ CharOf(k) \in 1..ROOM_TOKEN_LEN /\ PlaceOf(k) \in 1..Digit
         /\ Position(CharOf(k), PlaceOf(k)) = k
<1>1. Bits \in Nat \ {0} /\ Digit \in Nat \ {0} /\ Bits + Digit - 1 \in Nat /\ k - 1 \in Nat
  BY TokenAssumption
<1> DEFINE q == (Bits + Digit - 1) \div Digit
           r == (Bits + Digit - 1) % Digit
           p == (k - 1) \div Digit
           s == (k - 1) % Digit
<1>2. q \in Nat /\ r \in 0..Digit - 1 /\ Bits + Digit - 1 = Digit * q + r
  BY <1>1, Division
<1>3. p \in Nat /\ s \in 0..Digit - 1 /\ k - 1 = Digit * p + s
  BY <1>1, Division
<1>4. ROOM_TOKEN_LEN = q /\ CharOf(k) = p + 1 /\ PlaceOf(k) = s + 1
  BY DEF ROOM_TOKEN_LEN, CharOf, PlaceOf
<1> HIDE DEF q, r, p, s
<1>5. p < q
  <2> SUFFICES ASSUME q <= p PROVE FALSE
    BY <1>2, <1>3
  <2>1. Digit * q <= Digit * p
    <3>1. CASE q = p
      BY <1>1, <1>2, <1>3, <3>1
    <3>2. CASE q < p
      <4>1. Digit * q + Digit <= Digit * p
        BY <1>1, <1>2, <1>3, <3>2, Monotone
      <4>2. Digit * q \in Nat /\ Digit * p \in Nat
        BY <1>1, <1>2, <1>3
      <4> QED
        BY <1>1, <4>1, <4>2
    <3> QED
      BY <1>2, <1>3, <3>1, <3>2
  <2>2. Digit * q \in Nat /\ Digit * p \in Nat
    BY <1>1, <1>2, <1>3
  <2> QED
    BY <1>1, <1>2, <1>3, <2>1, <2>2
<1>6. CharOf(k) \in 1..ROOM_TOKEN_LEN /\ PlaceOf(k) \in 1..Digit
  BY <1>1, <1>2, <1>3, <1>4, <1>5
<1>7. Position(CharOf(k), PlaceOf(k)) = p * Digit + s + 1
  BY <1>1, <1>3, <1>4 DEF Position
<1>8. p * Digit = Digit * p /\ Digit * p \in Nat
  BY <1>1, <1>3
<1> QED
  BY <1>1, <1>3, <1>6, <1>7, <1>8

\* Every place of a token is where the bit found there belongs.
LEMMA PlaceHasBit ==
  ASSUME NEW i \in 1..ROOM_TOKEN_LEN, NEW j \in 1..Digit
  PROVE  /\ Position(i, j) \in Nat \ {0}
         /\ CharOf(Position(i, j)) = i /\ PlaceOf(Position(i, j)) = j
<1>1. Digit \in Nat \ {0} /\ i - 1 \in Nat /\ j - 1 \in 0..Digit - 1
  BY TokenAssumption, TokenLength
<1>2. Position(i, j) - 1 = Digit * (i - 1) + (j - 1)
  BY <1>1 DEF Position
<1>3. Digit * (i - 1) \in Nat
  BY <1>1
<1>4. Position(i, j) \in Nat \ {0}
  <2>1. Position(i, j) = (i - 1) * Digit + j /\ (i - 1) * Digit = Digit * (i - 1)
    BY <1>1 DEF Position
  <2> QED
    BY <1>1, <1>3, <2>1
<1>5. /\ (Digit * (i - 1) + (j - 1)) \div Digit = i - 1
      /\ (Digit * (i - 1) + (j - 1)) % Digit = j - 1
  BY <1>1, DivisionUnique
<1>6. CharOf(Position(i, j)) = (i - 1) + 1 /\ PlaceOf(Position(i, j)) = (j - 1) + 1
  BY <1>2, <1>5 DEF CharOf, PlaceOf
<1> QED
  BY <1>1, <1>4, <1>6, TokenLength

-----------------------------------------------------------------------------
(***************************************************************************)
(* The codec.                                                              *)
(***************************************************************************)

\* An id that is minted has the version and variant.
LEMMA MintedIsRoomUuid ==
  ASSUME NEW random \in RoomId
  PROVE  new_room_id(random) \in RoomId /\ is_room_uuid(new_room_id(random))
<1>1. \A k \in 1..Bits : random[k] \in {0, 1}
  BY DEF RoomId
<1> QED
  BY <1>1, TokenAssumption DEF new_room_id, is_room_uuid, RoomId

LEMMA FormatType ==
  ASSUME NEW id \in RoomId
  PROVE  format_room_token(id) \in [1..ROOM_TOKEN_LEN -> Char]
<1>1. ASSUME NEW i \in 1..ROOM_TOKEN_LEN, NEW j \in 1..Digit, Position(i, j) <= Bits
      PROVE  id[Position(i, j)] \in {0, 1}
  <2>1. Position(i, j) \in 1..Bits
    BY <1>1, PlaceHasBit, TokenAssumption
  <2> QED
    BY <2>1 DEF RoomId
<1> QED
  BY <1>1 DEF format_room_token, Char

\* A character of the alphabet is not the character outside of it.
LEMMA CharIsNotNoChar == NoChar \notin Char
<1>1. ASSUME NEW c \in Char PROVE c # NoChar
  <2>1. 1 \in DOMAIN c
    BY TokenAssumption DEF Char
  <2>2. DOMAIN NoChar = {}
    BY DEF NoChar
  <2> QED
    BY <2>1, <2>2
<1> QED
  BY <1>1

LEMMA FormatDecodes ==
  ASSUME NEW id \in RoomId
  PROVE  /\ Len(format_room_token(id)) = ROOM_TOKEN_LEN
         /\ Decodes(format_room_token(id))
         /\ decode(format_room_token(id)) = id
<1> DEFINE t == format_room_token(id)
<1>1. t \in [1..ROOM_TOKEN_LEN -> Char] /\ DOMAIN t = 1..ROOM_TOKEN_LEN
  BY FormatType
<1>2. Len(t) = ROOM_TOKEN_LEN
  <2>1. t \in Seq(Char)
    BY <1>1, TokenLength
  <2> QED
    BY <1>1, <2>1, TokenLength
<1>3. \A i \in 1..ROOM_TOKEN_LEN, j \in 1..Digit :
        t[i][j] = IF Position(i, j) <= Bits THEN id[Position(i, j)] ELSE 0
  BY DEF format_room_token
<1>4. Decodes(t)
  <2>1. \A i \in DOMAIN t : t[i] # NoChar
    BY <1>1, CharIsNotNoChar
  <2>2. ASSUME NEW i \in DOMAIN t, NEW j \in 1..Digit, Position(i, j) > Bits
        PROVE  t[i][j] = 0
    <3>1. i \in 1..ROOM_TOKEN_LEN
      BY <1>1
    <3>2. Position(i, j) \in Nat /\ Bits \in Nat
      BY <3>1, PlaceHasBit, TokenAssumption
    <3>3. ~ Position(i, j) <= Bits
      BY <2>2, <3>2
    <3> QED
      BY <1>3, <3>1, <3>3
  <2> QED
    BY <2>1, <2>2 DEF Decodes
<1>5. decode(t) = id
  <2>1. ASSUME NEW k \in 1..Bits PROVE t[CharOf(k)][PlaceOf(k)] = id[k]
    <3>1. /\ CharOf(k) \in 1..ROOM_TOKEN_LEN /\ PlaceOf(k) \in 1..Digit
          /\ Position(CharOf(k), PlaceOf(k)) = k
      BY BitHasPlace
    <3>2. k <= Bits
      BY TokenAssumption
    <3> QED
      BY <1>3, <3>1, <3>2
  <2>2. id = [k \in 1..Bits |-> id[k]]
    BY DEF RoomId
  <2> QED
    BY <2>1, <2>2 DEF decode
<1> QED
  BY <1>2, <1>4, <1>5

\* A token that decodes is the one the id is formatted as.
LEMMA DecodesFormats ==
  ASSUME NEW t \in Seq(Char \cup {NoChar}), Len(t) = ROOM_TOKEN_LEN, Decodes(t)
  PROVE  decode(t) \in RoomId /\ format_room_token(decode(t)) = t
<1>1. /\ DOMAIN t = 1..ROOM_TOKEN_LEN
      /\ \A i \in 1..ROOM_TOKEN_LEN : t[i] \in Char
  BY DEF Decodes
<1>2. ASSUME NEW i \in 1..ROOM_TOKEN_LEN
      PROVE  t[i] = [j \in 1..Digit |-> t[i][j]] /\ \A j \in 1..Digit : t[i][j] \in {0, 1}
  BY <1>1 DEF Char
<1>3. decode(t) \in RoomId
  <2>1. \A k \in 1..Bits : t[CharOf(k)][PlaceOf(k)] \in {0, 1}
    BY <1>2, BitHasPlace
  <2> QED
    BY <2>1 DEF decode, RoomId
<1>4. ASSUME NEW i \in 1..ROOM_TOKEN_LEN, NEW j \in 1..Digit
      PROVE  (IF Position(i, j) <= Bits THEN decode(t)[Position(i, j)] ELSE 0) = t[i][j]
  <2>1. /\ Position(i, j) \in Nat \ {0} /\ Bits \in Nat
        /\ CharOf(Position(i, j)) = i /\ PlaceOf(Position(i, j)) = j
    BY PlaceHasBit, TokenAssumption
  <2>2. CASE Position(i, j) <= Bits
    <3>1. Position(i, j) \in 1..Bits
      BY <2>1, <2>2
    <3> QED
      BY <2>1, <2>2, <3>1 DEF decode
  <2>3. CASE ~ Position(i, j) <= Bits
    <3>1. Position(i, j) > Bits
      BY <2>1, <2>3
    <3> QED
      BY <1>1, <2>3, <3>1 DEF Decodes
  <2> QED
    BY <2>2, <2>3
<1>5. \A i \in 1..ROOM_TOKEN_LEN : format_room_token(decode(t))[i] = t[i]
  BY <1>2, <1>4 DEF format_room_token
<1>6. t = [i \in 1..ROOM_TOKEN_LEN |-> t[i]]
  BY <1>1
<1>7. format_room_token(decode(t)) = [i \in 1..ROOM_TOKEN_LEN |-> format_room_token(decode(t))[i]]
  BY DEF format_room_token
<1> QED
  BY <1>3, <1>5, <1>6, <1>7

-----------------------------------------------------------------------------
(***************************************************************************)
(* Induction over the numbers, for a set of them: the recursive functions  *)
(* of the codec are shown to exist, and to have one value, by hand.        *)
(***************************************************************************)

LEMMA LeastNumber ==
  ASSUME NEW T, T \subseteq Nat, T # {}
  PROVE  \E x \in T : \A y \in T : x <= y
<1>1. IsWellFoundedOn(OpToRel(<, Nat), Nat)
  BY NatLessThanWellFounded
<1>2. PICK x \in T : \A y \in T : ~ (<<y, x>> \in OpToRel(<, Nat))
  BY <1>1, WFMin
<1>3. \A y \in T : ~ (y < x)
  BY <1>2 DEF OpToRel
<1> QED
  BY <1>3

\* A set that holds a number whenever it holds the smaller ones holds all.
LEMMA Induction ==
  ASSUME NEW T,
         ASSUME NEW n \in Nat, \A m \in Nat : m < n => m \in T
         PROVE  n \in T
  PROVE  \A n \in Nat : n \in T
<1> SUFFICES ASSUME Nat \ T # {} PROVE FALSE
  OBVIOUS
<1>1. PICK n \in Nat \ T : \A y \in Nat \ T : n <= y
  BY LeastNumber
<1>2. \A m \in Nat : m < n => m \in T
  BY <1>1
<1>3. n \in T
  BY <1>1, <1>2
<1> QED
  BY <1>1, <1>3

-----------------------------------------------------------------------------
(***************************************************************************)
(* Number: what str::parse reads.                                          *)
(***************************************************************************)

ReadsUpTo(s, f) ==
  f = [i \in 0..Len(s) |-> IF i = 0 THEN 0 ELSE 10 * f[i - 1] + s[i]]

LEMMA ReadingExists ==
  ASSUME NEW s \in Seq(Nat)
  PROVE  \E f : ReadsUpTo(s, f)
<1> DEFINE Upto(n, f) == f = [i \in 0..n |-> IF i = 0 THEN 0 ELSE 10 * f[i - 1] + s[i]]
           T == {n \in Nat : \E f : Upto(n, f)}
<1>1. ASSUME NEW n \in Nat, \A m \in Nat : m < n => m \in T
      PROVE  n \in T
  <2>1. CASE n = 0
    <3> DEFINE f == [i \in 0..0 |-> 0]
    <3>1. Upto(0, f)
      OBVIOUS
    <3> HIDE DEF f
    <3> QED
      BY <2>1, <3>1
  <2>2. CASE n # 0
    <3>1. n - 1 \in Nat /\ n - 1 < n
      BY <2>2
    <3>2. PICK f : Upto(n - 1, f)
      BY <1>1, <3>1
    <3> DEFINE g == [i \in 0..n |-> IF i = n THEN 10 * f[n - 1] + s[n] ELSE f[i]]
    <3>3. \A i \in 0..n - 1 : g[i] = f[i]
      OBVIOUS
    <3>4. ASSUME NEW i \in 0..n
          PROVE  g[i] = IF i = 0 THEN 0 ELSE 10 * g[i - 1] + s[i]
      <4>1. CASE i = n
        BY <2>2, <3>1, <3>3, <4>1
      <4>2. CASE i # n
        <5>1. i \in 0..n - 1 /\ (i # 0 => i - 1 \in 0..n - 1)
          BY <4>2
        <5>2. f[i] = IF i = 0 THEN 0 ELSE 10 * f[i - 1] + s[i]
          BY <3>2, <5>1
        <5> QED
          BY <3>3, <5>1, <5>2
      <4> QED
        BY <4>1, <4>2
    <3>5. Upto(n, g)
      <4>1. g = [i \in 0..n |-> g[i]]
        OBVIOUS
      <4> HIDE DEF g
      <4> QED
        BY <3>4, <4>1
    <3> HIDE DEF g, Upto
    <3> QED
      BY <3>5
  <2> QED
    BY <2>1, <2>2
<1> HIDE DEF T
<1>2. Len(s) \in T
  <2>1. \A n \in Nat : n \in T
    BY <1>1, Induction
  <2> QED
    BY <2>1
<1> QED
  BY <1>2 DEF T, ReadsUpTo

LEMMA ReadingUnique ==
  ASSUME NEW s \in Seq(Nat), NEW f, NEW g, ReadsUpTo(s, f), ReadsUpTo(s, g)
  PROVE  f = g
<1> DEFINE T == {i \in Nat : i \in 0..Len(s) => f[i] = g[i]}
<1>1. ASSUME NEW n \in Nat, \A m \in Nat : m < n => m \in T
      PROVE  n \in T
  <2> SUFFICES ASSUME n \in 0..Len(s) PROVE f[n] = g[n]
    OBVIOUS
  <2>1. /\ f[n] = IF n = 0 THEN 0 ELSE 10 * f[n - 1] + s[n]
        /\ g[n] = IF n = 0 THEN 0 ELSE 10 * g[n - 1] + s[n]
    BY DEF ReadsUpTo
  <2>2. n # 0 => f[n - 1] = g[n - 1]
    <3> SUFFICES ASSUME n # 0 PROVE f[n - 1] = g[n - 1]
      OBVIOUS
    <3>1. n - 1 \in Nat /\ n - 1 < n /\ n - 1 \in 0..Len(s)
      OBVIOUS
    <3> QED
      BY <1>1, <3>1
  <2> QED
    BY <2>1, <2>2
<1>2. \A n \in Nat : n \in T
  <2> HIDE DEF T
  <2> QED
    BY <1>1, Induction
<1>3. \A i \in 0..Len(s) : f[i] = g[i]
  BY <1>2
<1>4. f = [i \in 0..Len(s) |-> f[i]] /\ g = [i \in 0..Len(s) |-> g[i]]
  BY DEF ReadsUpTo
<1> QED
  BY <1>3, <1>4

LEMMA NumberReads ==
  ASSUME NEW s \in Seq(Nat), NEW f, ReadsUpTo(s, f)
  PROVE  Number(s) = f[Len(s)]
<1> DEFINE g == CHOOSE h : ReadsUpTo(s, h)
<1>1. ReadsUpTo(s, g)
  BY ReadingExists
<1>2. g = f
  BY <1>1, ReadingUnique
<1>3. Number(s) = g[Len(s)]
  BY DEF Number, ReadsUpTo
<1> QED
  BY <1>2, <1>3

LEMMA NumberEmpty == Number(<<>>) = 0
<1> DEFINE e == <<>>
<1>1. e \in Seq(Nat) /\ Len(e) = 0
  OBVIOUS
<1> HIDE DEF e
<1>2. PICK f : ReadsUpTo(e, f)
  BY <1>1, ReadingExists
<1>3. Number(e) = f[0]
  BY <1>1, <1>2, NumberReads
<1>4. f[0] = 0
  BY <1>1, <1>2 DEF ReadsUpTo
<1> QED
  BY <1>3, <1>4 DEF e

\* One more digit.
LEMMA NumberAppend ==
  ASSUME NEW s \in Seq(Nat), NEW d \in Nat
  PROVE  Number(Append(s, d)) = 10 * Number(s) + d
<1> DEFINE t == Append(s, d)
           n == Len(s)
<1>2. /\ t \in Seq(Nat) /\ n \in Nat /\ Len(t) = n + 1 /\ t[n + 1] = d
      /\ \A i \in 1..n : t[i] = s[i]
  OBVIOUS
<1> HIDE DEF t
<1>3. PICK g : ReadsUpTo(t, g)
  BY <1>2, ReadingExists
<1> DEFINE f == [i \in 0..n |-> g[i]]
<1>4. ASSUME NEW i \in 0..n
      PROVE  f[i] = IF i = 0 THEN 0 ELSE 10 * f[i - 1] + s[i]
  <2>1. g[i] = IF i = 0 THEN 0 ELSE 10 * g[i - 1] + t[i]
    <3>1. i \in 0..Len(t)
      BY <1>2
    <3>2. g = [k \in 0..Len(t) |-> IF k = 0 THEN 0 ELSE 10 * g[k - 1] + t[k]]
      BY <1>3 DEF ReadsUpTo
    <3> QED
      BY <3>1, <3>2
  <2>2. i # 0 => i - 1 \in 0..n /\ t[i] = s[i]
    BY <1>2
  <2> QED
    BY <2>1, <2>2
<1>5. f = [i \in 0..n |-> f[i]] /\ f[n] = g[n]
  OBVIOUS
<1> HIDE DEF f
<1>6. ReadsUpTo(s, f)
  BY <1>4, <1>5 DEF ReadsUpTo
<1>7. Number(s) = g[n]
  BY <1>5, <1>6, NumberReads
<1>8. Number(t) = g[n + 1]
  BY <1>2, <1>3, NumberReads
<1>9. g[n + 1] = 10 * g[n] + d
  BY <1>2, <1>3 DEF ReadsUpTo
<1> QED
  BY <1>7, <1>8, <1>9 DEF t

\* A sequence that is not empty is another one with an element appended.
LEMMA LastAppended ==
  ASSUME NEW S, NEW s \in Seq(S), s # <<>>
  PROVE  LET front == SubSeq(s, 1, Len(s) - 1)
         IN  /\ front \in Seq(S) /\ s[Len(s)] \in S
             /\ Len(front) = Len(s) - 1 /\ Len(front) < Len(s)
             /\ s = Append(front, s[Len(s)])
             /\ front # <<>> => front[1] = s[1]
<1> DEFINE n == Len(s)
           front == SubSeq(s, 1, n - 1)
<1>1. n \in Nat \ {0} /\ s \in [1..n -> S]
  OBVIOUS
<1>2. /\ front \in Seq(S) /\ Len(front) = n - 1
      /\ \A i \in 1..n - 1 : front[i] = s[i]
  BY <1>1
<1>3. s[n] \in S
  BY <1>1
<1> HIDE DEF front, n
<1>4. /\ Append(front, s[n]) \in Seq(S) /\ Len(Append(front, s[n])) = n
      /\ \A i \in 1..n : Append(front, s[n])[i] = s[i]
  BY <1>1, <1>2, <1>3
<1>5. s = Append(front, s[n])
  <2>1. s = [i \in 1..n |-> s[i]]
    BY <1>1
  <2>2. Append(front, s[n]) = [i \in 1..n |-> Append(front, s[n])[i]]
    BY <1>4
  <2> QED
    BY <1>4, <2>1, <2>2
<1>6. front # <<>> => front[1] = s[1]
  BY <1>1, <1>2
<1> QED
  BY <1>1, <1>2, <1>3, <1>5, <1>6 DEF front, n

LEMMA NumberType ==
  ASSUME NEW s \in Seq(Nat)
  PROVE  Number(s) \in Nat
<1> DEFINE T == {n \in Nat : \A t \in Seq(Nat) : Len(t) = n => Number(t) \in Nat}
<1>1. ASSUME NEW n \in Nat, \A m \in Nat : m < n => m \in T
      PROVE  n \in T
  <2> SUFFICES ASSUME NEW t \in Seq(Nat), Len(t) = n PROVE Number(t) \in Nat
    OBVIOUS
  <2>1. CASE t = <<>>
    BY <2>1, NumberEmpty
  <2>2. CASE t # <<>>
    <3> DEFINE front == SubSeq(t, 1, Len(t) - 1)
               d == t[Len(t)]
    <3>1. /\ front \in Seq(Nat) /\ d \in Nat /\ Len(front) < n /\ t = Append(front, d)
      BY <2>2, LastAppended
    <3> HIDE DEF front, d
    <3>2. Number(front) \in Nat
      BY <1>1, <3>1
    <3>3. Number(t) = 10 * Number(front) + d
      BY <3>1, NumberAppend
    <3> QED
      BY <3>1, <3>2, <3>3
  <2> QED
    BY <2>1, <2>2
<1>2. \A n \in Nat : n \in T
  <2> HIDE DEF T
  <2> QED
    BY <1>1, Induction
<1> QED
  BY <1>2

-----------------------------------------------------------------------------
(***************************************************************************)
(* Numeral: how a number is written.                                       *)
(***************************************************************************)

WritesUpTo(n, f) ==
  f = [m \in 0..n |-> IF m < 10 THEN <<m>> ELSE Append(f[m \div 10], m % 10)]

LEMMA Tenth ==
  ASSUME NEW n \in Nat, ~ n < 10
  PROVE  n \div 10 \in Nat \ {0} /\ n \div 10 < n /\ n % 10 \in 0..9
         /\ n = 10 * (n \div 10) + (n % 10)
<1>1. n \div 10 \in Nat /\ n % 10 \in 0..9 /\ n = 10 * (n \div 10) + (n % 10)
  OBVIOUS
<1> QED
  BY <1>1

LEMMA WritingExists ==
  ASSUME NEW n \in Nat
  PROVE  \E f : WritesUpTo(n, f)
<1> DEFINE T == {k \in Nat : \E f : WritesUpTo(k, f)}
<1>1. ASSUME NEW k \in Nat, \A m \in Nat : m < k => m \in T
      PROVE  k \in T
  <2>1. CASE k = 0
    <3> DEFINE f == [m \in 0..0 |-> <<m>>]
    <3>1. f = [m \in 0..0 |-> IF m < 10 THEN <<m>> ELSE Append(f[m \div 10], m % 10)]
      OBVIOUS
    <3> HIDE DEF f
    <3>2. WritesUpTo(0, f)
      BY <3>1 DEF WritesUpTo
    <3> QED
      BY <2>1, <3>2
  <2>2. CASE k # 0
    <3>1. k - 1 \in Nat /\ k - 1 < k
      BY <2>2
    <3>2. PICK f : WritesUpTo(k - 1, f)
      BY <1>1, <3>1
    <3> DEFINE last == IF k < 10 THEN <<k>> ELSE Append(f[k \div 10], k % 10)
               g == [m \in 0..k |-> IF m = k THEN last ELSE f[m]]
    <3>3. g[k] = last /\ \A m \in 0..k - 1 : g[m] = f[m]
      OBVIOUS
    <3>4. g = [m \in 0..k |-> g[m]]
      OBVIOUS
    <3> HIDE DEF g
    <3>5. ASSUME NEW m \in 0..k
          PROVE  g[m] = IF m < 10 THEN <<m>> ELSE Append(g[m \div 10], m % 10)
      <4>1. ~ m < 10 => m \div 10 \in 0..k - 1 /\ (m # k => m \div 10 \in 0..m)
        BY Tenth
      <4>2. CASE m = k
        BY <3>3, <4>1, <4>2
      <4>3. CASE m # k
        <5>1. m \in 0..k - 1
          BY <4>3
        <5>2. f[m] = IF m < 10 THEN <<m>> ELSE Append(f[m \div 10], m % 10)
          BY <3>2, <5>1 DEF WritesUpTo
        <5> QED
          BY <3>3, <4>1, <5>1, <5>2
      <4> QED
        BY <4>2, <4>3
    <3>6. WritesUpTo(k, g)
      BY <3>4, <3>5 DEF WritesUpTo
    <3> QED
      BY <3>6
  <2> QED
    BY <2>1, <2>2
<1> HIDE DEF T
<1>2. n \in T
  <2>1. \A k \in Nat : k \in T
    BY <1>1, Induction
  <2> QED
    BY <2>1
<1> QED
  BY <1>2 DEF T

LEMMA WritingsAgree ==
  ASSUME NEW n \in Nat, NEW m \in Nat, NEW f, NEW g,
         WritesUpTo(n, f), WritesUpTo(m, g)
  PROVE  \A k \in Nat : k <= n /\ k <= m => f[k] = g[k]
<1> DEFINE T == {k \in Nat : k <= n /\ k <= m => f[k] = g[k]}
<1>1. ASSUME NEW k \in Nat, \A j \in Nat : j < k => j \in T
      PROVE  k \in T
  <2> SUFFICES ASSUME k <= n, k <= m PROVE f[k] = g[k]
    OBVIOUS
  <2>1. k \in 0..n /\ k \in 0..m
    OBVIOUS
  <2>2. /\ f[k] = IF k < 10 THEN <<k>> ELSE Append(f[k \div 10], k % 10)
        /\ g[k] = IF k < 10 THEN <<k>> ELSE Append(g[k \div 10], k % 10)
    BY <2>1 DEF WritesUpTo
  <2>3. ~ k < 10 => f[k \div 10] = g[k \div 10]
    <3> SUFFICES ASSUME ~ k < 10 PROVE f[k \div 10] = g[k \div 10]
      OBVIOUS
    <3>1. k \div 10 \in Nat /\ k \div 10 < k
      BY Tenth
    <3> QED
      BY <1>1, <3>1
  <2> QED
    BY <2>2, <2>3
<1>2. \A k \in Nat : k \in T
  <2> HIDE DEF T
  <2> QED
    BY <1>1, Induction
<1> QED
  BY <1>2

\* Numeral is what its definition says, for every number.
LEMMA NumeralIs ==
  ASSUME NEW n \in Nat
  PROVE  Numeral[n] = IF n < 10 THEN <<n>> ELSE Append(Numeral[n \div 10], n % 10)
<1> DEFINE w(k) == CHOOSE f : WritesUpTo(k, f)
           F == [k \in Nat |-> w(k)[k]]
           Writes(f) == f = [k \in Nat |-> IF k < 10 THEN <<k>> ELSE Append(f[k \div 10], k % 10)]
<1>1. ASSUME NEW k \in Nat PROVE WritesUpTo(k, w(k))
  BY WritingExists
<1>2. ASSUME NEW k \in Nat
      PROVE  F[k] = IF k < 10 THEN <<k>> ELSE Append(F[k \div 10], k % 10)
  <2> DEFINE f == w(k)
  <2>1. WritesUpTo(k, f)
    BY <1>1
  <2>2. F[k] = f[k]
    OBVIOUS
  <2>3. f[k] = IF k < 10 THEN <<k>> ELSE Append(f[k \div 10], k % 10)
    <3> HIDE DEF f
    <3>1. k \in 0..k
      OBVIOUS
    <3> QED
      BY <2>1, <3>1 DEF WritesUpTo
  <2>4. ASSUME ~ k < 10 PROVE f[k \div 10] = F[k \div 10]
    <3> DEFINE j == k \div 10
               g == w(j)
    <3>1. j \in Nat /\ j <= k
      BY <2>4, Tenth
    <3> HIDE DEF j
    <3>2. WritesUpTo(j, g)
      BY <1>1, <3>1
    <3>3. F[j] = g[j]
      BY <3>1
    <3>4. f[j] = g[j]
      <4> HIDE DEF f, g
      <4> QED
        BY <2>1, <3>1, <3>2, WritingsAgree
    <3> QED
      BY <3>3, <3>4 DEF j
  <2> HIDE DEF f, F
  <2> QED
    BY <2>2, <2>3, <2>4
<1>3. F = [k \in Nat |-> F[k]]
  OBVIOUS
<1> HIDE DEF F
<1>4. Writes(F)
  BY <1>2, <1>3
<1> DEFINE N == CHOOSE f : Writes(f)
<1>5. Writes(N)
  <2> HIDE DEF Writes
  <2> QED
    BY <1>4
<1>6. Numeral = N
  BY DEF Numeral
<1> HIDE DEF N
<1> QED
  BY <1>5, <1>6

LEMMA NumeralShort ==
  ASSUME NEW n \in Nat, n < 10
  PROVE  Numeral[n] = <<n>>
<1> DEFINE long == Append(Numeral[n \div 10], n % 10)
<1>1. Numeral[n] = IF n < 10 THEN <<n>> ELSE long
  BY NumeralIs
<1> HIDE DEF long
<1> QED
  BY <1>1

LEMMA NumeralLong ==
  ASSUME NEW n \in Nat, ~ n < 10
  PROVE  Numeral[n] = Append(Numeral[n \div 10], n % 10)
BY NumeralIs

-----------------------------------------------------------------------------
(***************************************************************************)
(* Reading and writing numbers are inverse to each other.                  *)
(***************************************************************************)

\* A numeral is digits without a leading zero, and is read as its number.
LEMMA NumeralRead ==
  ASSUME NEW n \in Nat
  PROVE  /\ Numeral[n] \in Seq(0..9) /\ Numeral[n] # <<>>
         /\ Number(Numeral[n]) = n
         /\ n # 0 => Numeral[n][1] # 0
<1> DEFINE OK(k) ==
             /\ Numeral[k] \in Seq(0..9) /\ Numeral[k] # <<>>
             /\ Number(Numeral[k]) = k
             /\ k # 0 => Numeral[k][1] # 0
           T == {k \in Nat : OK(k)}
<1>1. ASSUME NEW k \in Nat, \A m \in Nat : m < k => m \in T
      PROVE  k \in T
  <2>1. CASE k < 10
    <3>1. Numeral[k] = <<k>> /\ k \in 0..9
      BY <2>1, NumeralShort
    <3>2. Number(<<k>>) = k
      <4> DEFINE e == <<>>
      <4>1. e \in Seq(Nat) /\ Append(e, k) = <<k>>
        OBVIOUS
      <4>2. Number(e) = 0
        BY NumberEmpty
      <4> HIDE DEF e
      <4>3. Number(Append(e, k)) = 10 * 0 + k
        BY <4>1, <4>2, NumberAppend
      <4> QED
        BY <4>1, <4>3
    <3> DEFINE s == <<k>>
    <3>3. s \in Seq(0..9) /\ s # <<>> /\ s[1] = k
      BY <3>1
    <3> HIDE DEF s, OK
    <3>4. Numeral[k] = s /\ Number(s) = k
      BY <3>1, <3>2 DEF s
    <3>5. OK(k)
      BY <3>3, <3>4 DEF OK
    <3> QED
      BY <3>5
  <2>2. CASE ~ k < 10
    <3> DEFINE q == k \div 10
               r == k % 10
    <3>1. q \in Nat \ {0} /\ q < k /\ r \in 0..9 /\ k = 10 * q + r
      BY <2>2, Tenth
    <3>2. Numeral[k] = Append(Numeral[q], r)
      BY <2>2, NumeralLong
    <3> HIDE DEF q, r
    <3>3. OK(q)
      BY <1>1, <3>1
    <3> DEFINE s == Numeral[q]
    <3>4. s \in Seq(0..9) /\ s # <<>> /\ s \in Seq(Nat) /\ Number(s) = q /\ s[1] # 0
      <4>1. s \in Seq(0..9) /\ s # <<>> /\ Number(s) = q /\ s[1] # 0
        BY <3>1, <3>3
      <4> HIDE DEF s
      <4> QED
        BY <4>1
    <3> HIDE DEF s, OK
    <3>5. Numeral[k] = Append(s, r)
      BY <3>2 DEF s
    <3>6. Number(Append(s, r)) = 10 * q + r
      <4>1. r \in Nat
        BY <3>1
      <4> QED
        BY <3>4, <4>1, NumberAppend
    <3>7. Append(s, r) \in Seq(0..9) /\ Append(s, r) # <<>> /\ Append(s, r)[1] = s[1]
      BY <3>1, <3>4
    <3>8. OK(k)
      BY <3>1, <3>4, <3>5, <3>6, <3>7 DEF OK
    <3> QED
      BY <3>8
  <2> QED
    BY <2>1, <2>2
<1>2. \A k \in Nat : k \in T
  <2> HIDE DEF T
  <2> QED
    BY <1>1, Induction
<1> QED
  BY <1>2

\* Digits without a leading zero are the numeral of what is read.
LEMMA NumberWritten ==
  ASSUME NEW s \in Seq(0..9), s # <<>>, s[1] # 0
  PROVE  Number(s) \in Nat \ {0} /\ Numeral[Number(s)] = s
<1> DEFINE OK(t) == Number(t) \in Nat \ {0} /\ Numeral[Number(t)] = t
           T == {n \in Nat : \A t \in Seq(0..9) : Len(t) = n /\ t # <<>> /\ t[1] # 0 => OK(t)}
<1>1. ASSUME NEW n \in Nat, \A m \in Nat : m < n => m \in T
      PROVE  n \in T
  <2> SUFFICES ASSUME NEW t \in Seq(0..9), Len(t) = n, t # <<>>, t[1] # 0
               PROVE  OK(t)
    OBVIOUS
  <2> DEFINE front == SubSeq(t, 1, Len(t) - 1)
             d == t[Len(t)]
  <2>1. /\ front \in Seq(0..9) /\ d \in 0..9 /\ Len(front) < n /\ t = Append(front, d)
        /\ front # <<>> => front[1] = t[1]
    BY LastAppended
  <2> HIDE DEF front, d
  <2>2. front \in Seq(Nat) /\ Len(front) \in Nat
    BY <2>1
  <2>3. Number(t) = 10 * Number(front) + d
    BY <2>1, <2>2, NumberAppend
  <2>4. CASE front = <<>>
    <3>1. Number(front) = 0
      BY <2>4, NumberEmpty
    <3>2. t = <<d>> /\ d # 0
      BY <2>1, <2>4
    <3>3. Number(t) = d
      BY <2>1, <2>3, <3>1
    <3>4. Numeral[d] = <<d>>
      BY <2>1, NumeralShort
    <3> QED
      BY <2>1, <3>2, <3>3, <3>4
  <2>5. CASE front # <<>>
    <3> DEFINE q == Number(front)
    <3>1. q \in Nat \ {0} /\ Numeral[q] = front
      BY <1>1, <2>1, <2>2, <2>5
    <3> HIDE DEF q
    <3>2. Number(t) = 10 * q + d
      BY <2>3 DEF q
    <3>3. (10 * q + d) \div 10 = q /\ (10 * q + d) % 10 = d
      <4>1. 10 \in Nat \ {0} /\ q \in Nat /\ d \in 0..10 - 1
        BY <2>1, <3>1
      <4> QED
        BY <4>1, DivisionUnique
    <3>4. 10 * q + d \in Nat /\ ~ 10 * q + d < 10
      BY <2>1, <3>1
    <3>5. Numeral[10 * q + d] = Append(Numeral[q], d)
      BY <3>3, <3>4, NumeralLong
    <3> QED
      BY <2>1, <3>1, <3>2, <3>4, <3>5
  <2> QED
    BY <2>4, <2>5
<1>2. \A n \in Nat : n \in T
  <2> HIDE DEF T
  <2> QED
    BY <1>1, Induction
<1>3. Len(s) \in Nat
  OBVIOUS
<1> QED
  BY <1>2, <1>3

LEMMA CanonicalExact ==
  ASSUME NEW s \in Seq(0..Other)
  PROVE  IF \E n \in 0..Limit - 1 : s = Numeral[n]
           THEN canonical_u64(s) \in 0..Limit - 1 /\ s = Numeral[canonical_u64(s)]
           ELSE canonical_u64(s) = None
<1>0. Limit \in Nat \ {0}
  BY LimitAssumption
<1>a. Numeral[0] = <<0>>
  BY NumeralShort
<1>1. ASSUME NEW n \in 0..Limit - 1, s = Numeral[n]
      PROVE  canonical_u64(s) = n
  <2>0. n \in Nat /\ n < Limit
    BY <1>0
  <2>1. CASE n = 0
    BY <1>1, <1>a, <2>1 DEF canonical_u64
  <2>2. CASE n # 0
    <3>1. s \in Seq(0..9) /\ s # <<>> /\ Number(s) = n /\ s[1] # 0
      BY <1>1, <2>0, <2>2, NumeralRead
    <3>2. s # <<0>> /\ ~ LeadingZero(s)
      BY <3>1 DEF LeadingZero
    <3>3. \A i \in DOMAIN s : s[i] # Other
      BY <3>1 DEF Other
    <3>4. ~ Overflows(Number(s))
      BY <1>0, <2>0, <3>1 DEF Overflows
    <3> QED
      BY <3>1, <3>2, <3>3, <3>4 DEF canonical_u64, Parse
  <2> QED
    BY <2>1, <2>2
<1>2. ASSUME \A n \in 0..Limit - 1 : s # Numeral[n]
      PROVE  canonical_u64(s) = None
  <2>1. s # <<0>>
    BY <1>0, <1>a, <1>2
  <2>2. CASE s = <<>> \/ LeadingZero(s) \/ \E i \in DOMAIN s : s[i] = Other
    BY <2>1, <2>2 DEF canonical_u64
  <2>3. CASE ~ (s = <<>> \/ LeadingZero(s) \/ \E i \in DOMAIN s : s[i] = Other)
    <3>1. s # <<>> /\ s[1] # 0
      BY <2>3 DEF LeadingZero
    <3>2. s \in Seq(0..9)
      <4>1. s \in [1..Len(s) -> 0..Other] /\ DOMAIN s = 1..Len(s) /\ Len(s) \in Nat
        BY LenProperties
      <4>2. \A i \in 1..Len(s) : s[i] \in 0..9
        BY <2>3, <4>1 DEF Other
      <4>3. s \in [1..Len(s) -> 0..9]
        BY <4>1, <4>2
      <4> QED
        BY <4>1, <4>3
    <3>3. Number(s) \in Nat /\ Numeral[Number(s)] = s
      BY <3>1, <3>2, NumberWritten
    <3>4. Number(s) \notin 0..Limit - 1
      BY <1>2, <3>3
    <3>5. Overflows(Number(s))
      BY <1>0, <3>3, <3>4 DEF Overflows
    <3> QED
      BY <2>1, <2>3, <3>5 DEF canonical_u64, Parse
  <2> QED
    BY <2>2, <2>3
<1> QED
  BY <1>1, <1>2

-----------------------------------------------------------------------------
(***************************************************************************)
(* The ids of a registration.                                              *)
(***************************************************************************)

\* Which ids are minted, which tokens and which numbers are spelled.
IdsOK ==
  /\ room_id \in RoomId /\ is_room_uuid(room_id)
  /\ token \in Seq(Char \cup {NoChar})
  /\ value \in Seq(0..Other)

\* new_room_id stamps what it mints, and a token or a number is any string
\* of characters.
THEOREM IdsSafe == Spec => []IdsOK
<1>1. Init => IdsOK
  <2> SUFFICES ASSUME Init PROVE IdsOK
    OBVIOUS
  <2>1. room_id \in RoomId /\ is_room_uuid(room_id)
    BY MintedIsRoomUuid DEF Init
  <2>2. token \in [1..ROOM_TOKEN_LEN -> Char]
    BY <2>1, FormatType DEF Init
  <2>3. token \in [1..ROOM_TOKEN_LEN -> Char \cup {NoChar}]
    BY <2>2
  <2>4. token \in Seq(Char \cup {NoChar})
    BY <2>3, TokenLength
  <2>5. value \in Seq(0..Other)
    BY DEF Init
  <2> QED
    BY <2>1, <2>4, <2>5 DEF IdsOK
<1>2. IdsOK /\ [Next]_vars => IdsOK'
  <2> SUFFICES ASSUME IdsOK, [Next]_vars PROVE IdsOK'
    OBVIOUS
  <2>1. CASE SpellToken
    <3>1. room_id' = room_id /\ value' = value
      BY <2>1 DEF SpellToken
    <3>2. token' \in Seq(Char \cup {NoChar})
      <4>1. CASE token' = <<>>
        BY <4>1
      <4>2. ASSUME NEW c \in Char \cup {NoChar}, token' = Append(token, c)
            PROVE  token' \in Seq(Char \cup {NoChar})
        <5> HIDE DEF NoChar
        <5> QED
          BY <4>2 DEF IdsOK
      <4> QED
        BY <2>1, <4>1, <4>2 DEF SpellToken
    <3> QED
      BY <3>1, <3>2 DEF IdsOK, is_room_uuid
  <2>2. CASE SpellNumber
    <3>1. room_id' = room_id /\ token' = token
      BY <2>2 DEF SpellNumber
    <3>2. value' \in Seq(0..Other)
      <4>1. CASE value' = <<>>
        BY <4>1
      <4>2. ASSUME NEW d \in 0..Other, value' = Append(value, d)
            PROVE  value' \in Seq(0..Other)
        BY <4>2, AppendProperties DEF IdsOK
      <4> QED
        BY <2>2, <4>1, <4>2 DEF SpellNumber
    <3> QED
      BY <3>1, <3>2 DEF IdsOK, is_room_uuid
  <2>3. CASE UNCHANGED vars
    BY <2>3 DEF vars, IdsOK, is_room_uuid
  <2> QED
    BY <2>1, <2>2, <2>3 DEF Next
<1> QED
  BY <1>1, <1>2, PTL DEF Spec

\* A room that was minted can be reached by its link (new_room_id,
\* format_room_token, parse_room_token).
THEOREM RoundTripSafe == Spec => []RoundTrip
<1>1. IdsOK => RoundTrip
  BY FormatDecodes DEF IdsOK, RoundTrip, parse_room_token
<1> QED
  BY <1>1, IdsSafe, PTL

\* parse_room_token: no two strings reach one room, and what is accepted is
\* an id this service mints.
THEOREM OneSpellingSafe == Spec => []OneSpelling
<1>1. IdsOK => OneSpelling
  <2> SUFFICES ASSUME IdsOK, parse_room_token(token) # NoRoomId
               PROVE  LET id == parse_room_token(token)
                      IN  id \in RoomId /\ is_room_uuid(id) /\ format_room_token(id) = token
    BY DEF OneSpelling
  <2>1. /\ Len(token) = ROOM_TOKEN_LEN /\ Decodes(token) /\ is_room_uuid(decode(token))
        /\ parse_room_token(token) = decode(token)
    BY DEF parse_room_token
  <2>2. decode(token) \in RoomId /\ format_room_token(decode(token)) = token
    BY <2>1, DecodesFormats DEF IdsOK
  <2> QED
    BY <2>1, <2>2
<1> QED
  BY <1>1, IdsSafe, PTL

\* canonical_u64 accepts the numerals of the numbers of its type and nothing
\* else, and reads them as these numbers.
THEOREM AcceptsNumeralsSafe == Spec => []AcceptsNumerals
<1>1. IdsOK => AcceptsNumerals
  BY CanonicalExact DEF IdsOK, AcceptsNumerals
<1> QED
  BY <1>1, IdsSafe, PTL
=============================================================================
