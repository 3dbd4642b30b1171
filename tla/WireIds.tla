------------------------------ MODULE WireIds ------------------------------
(***************************************************************************)
(* The two ids of a V2 registration as a browser may spell them: the token *)
(* of a room (RoomToken) and the number of a client (CanonicalId).  Every  *)
(* string is spelled, character by character, and read by the code.        *)
(***************************************************************************)
EXTENDS RoomToken, CanonicalId

CONSTANT MaxLen  \* bound: characters of a number

VARIABLES
  room_id,  \* a room id that was minted
  token,    \* a room token as it arrives
  value     \* a client id as it arrives

vars == <<room_id, token, value>>

Init ==
  /\ \E random \in RoomId : room_id = new_room_id(random)
  /\ token = format_room_token(room_id)
  /\ value = <<>>

SpellToken ==
  /\ value = <<>>
  /\ \/ token' = <<>>
     \/ Len(token) <= ROOM_TOKEN_LEN /\ \E c \in Char \cup {NoChar} : token' = Append(token, c)
  /\ UNCHANGED <<room_id, value>>

SpellNumber ==
  /\ token = format_room_token(room_id)
  /\ \/ value' = <<>>
     \/ Len(value) < MaxLen /\ \E d \in 0..Other : value' = Append(value, d)
  /\ UNCHANGED <<room_id, token>>

Next == SpellToken \/ SpellNumber

Spec == Init /\ [][Next]_vars

-----------------------------------------------------------------------------
(***************************************************************************)
(* Properties.                                                             *)
(***************************************************************************)

\* A room that was minted can be reached by its link.
RoundTrip == parse_room_token(format_room_token(room_id)) = room_id

\* parse_room_token: whatever is accepted is the spelling of the room id it
\* is read as, and an id this service mints: no two strings reach one room.
OneSpelling ==
  LET id == parse_room_token(token)
  IN  id # NoRoomId => id \in RoomId /\ is_room_uuid(id) /\ format_room_token(id) = token

\* The decimal numeral of n, written from its last digit, without reference
\* to the code.
Numeral[n \in Nat] == IF n < 10 THEN <<n>> ELSE Append(Numeral[n \div 10], n % 10)

\* canonical_u64 accepts a string exactly when it is the numeral of a number
\* of the type, and reads it as that number: not with a leading zero, a
\* sign or a blank, and not as what is left of it after an overflow.
AcceptsNumerals ==
  IF \E n \in 0..Limit - 1 : value = Numeral[n]
    THEN canonical_u64(value) \in 0..Limit - 1 /\ value = Numeral[canonical_u64(value)]
    ELSE canonical_u64(value) = None
============================================================================
