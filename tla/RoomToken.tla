----------------------------- MODULE RoomToken -----------------------------
(***************************************************************************)
(* The room token codec (src/src/v2.rs): the one spelling of a room id.    *)
(*                                                                         *)
(* A room id is its bits, a token a sequence of characters; a base64url    *)
(* character stands for a group of bits, any other character for none.     *)
(* The code has 128 bits, 6 to a character, and the version and variant    *)
(* fixed; here these are parameters.                                       *)
(***************************************************************************)
EXTENDS Integers, Sequences

CONSTANTS
  Bits,   \* bits of a room id
  Digit,  \* bits of a character
  Fixed   \* the version and variant bits: a function from their positions

ASSUME TokenAssumption ==
  /\ Bits \in Nat \ {0} /\ Digit \in Nat \ {0}
  /\ DOMAIN Fixed \subseteq 1..Bits
  /\ \A k \in DOMAIN Fixed : Fixed[k] \in {0, 1}

RoomId == [1..Bits -> {0, 1}]
Char == [1..Digit -> {0, 1}]
NoChar == <<>>     \* padding, white space, anything outside of the alphabet
NoRoomId == <<>>   \* Option::None

ROOM_TOKEN_LEN == (Bits + Digit - 1) \div Digit

-----------------------------------------------------------------------------
\* new_room_id: the version and variant are stamped over random bits.
new_room_id__unstamped(random) == random
new_room_id(random) ==
  [k \in 1..Bits |-> IF k \in DOMAIN Fixed THEN Fixed[k] ELSE random[k]]

is_room_uuid(id) == \A k \in DOMAIN Fixed : id[k] = Fixed[k]

\* The bit at place j of character i, and the character and place of a bit.
Position(i, j) == (i - 1) * Digit + j
CharOf(k) == ((k - 1) \div Digit) + 1
PlaceOf(k) == ((k - 1) % Digit) + 1

\* format_room_token: the last character is filled up with zeros.
format_room_token(id) ==
  [i \in 1..ROOM_TOKEN_LEN |-> [j \in 1..Digit |->
     IF Position(i, j) <= Bits THEN id[Position(i, j)] ELSE 0]]

\* URL_SAFE_NO_PAD.decode accepts characters of the alphabet only, and no
\* bits beyond the last whole byte.
Decodes__any_tail(t) == \A i \in DOMAIN t : t[i] # NoChar
Decodes(t) ==
  /\ \A i \in DOMAIN t : t[i] # NoChar
  /\ \A i \in DOMAIN t, j \in 1..Digit : Position(i, j) > Bits => t[i][j] = 0

decode(t) == [k \in 1..Bits |-> t[CharOf(k)][PlaceOf(k)]]

parse_room_token(t) ==
  IF Len(t) = ROOM_TOKEN_LEN /\ Decodes(t) /\ is_room_uuid(decode(t))
    THEN decode(t) ELSE NoRoomId
============================================================================
