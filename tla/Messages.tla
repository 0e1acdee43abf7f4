------------------------------ MODULE Messages ------------------------------
(***************************************************************************)
(* The encodings of the messages (src/src/messages.c).                     *)
(*                                                                         *)
(* What goes over the network is a sequence of bytes.  Most of it is words *)
(* of 16 bits, high byte first (htons).  Every message starts with a word  *)
(* that holds, from its low bits up, a team (1 bit), a player (2 bits) and *)
(* the code of the request: the code named below in SOLO mode (or for a    *)
(* message to everyone), the next one in TEAM mode (or to the team).       *)
(*                                                                         *)
(* A serialize_ function returns NULL for a message it refuses, and a      *)
(* deserialize_ function for bytes that are not a message of its kind.     *)
(***************************************************************************)
EXTENDS Integers, Sequences

CONSTANT NULL

Byte == {n \in Nat : n < 256}
Word == {n \in Nat : n < 65536}

Mode == {"SOLO", "TEAM"}
MessageType == {"GLOBAL_M", "TEAM_M"}

\* The null pointer is no bytes, no mode and none of the messages.
ASSUME NullAssumption ==
  /\ NULL \notin Mode /\ NULL \notin Seq(Byte)
  /\ NULL \notin [game_mode : Mode, id : Nat, eq : Nat]
  /\ NULL \notin [num : Word, height : Byte, width : Byte, board : Seq(Byte)]
  /\ NULL \notin [type : MessageType, id : Nat, eq : Nat, message_length : Nat,
                  message : Seq(Byte)]

INITIAL_CODE == 1
READY_CODE == 3
ACTION_CODE == 5
CLIENT_CHAT_CODE == 7
INFORMATION_CODE == 9
BOARD_CODE == 11
UPDATE_CODE == 12
SERVER_CHAT_CODE == 13
GAME_END_CODE == 15

Second(x) == x \in {"TEAM", "TEAM_M"}
Code(base, x) == IF Second(x) THEN base + 1 ELSE base

-----------------------------------------------------------------------------
(* Words and their bytes. *)

\* htons of each word.
Words(words) ==
  [i \in 1..2 * Len(words) |->
     LET w == words[(i + 1) \div 2] IN IF i % 2 = 1 THEN w \div 256 ELSE w % 256]

\* ntohs of the k-th word.
WordAt(bytes, k) == 256 * bytes[2 * k - 1] + bytes[2 * k]

\* Plausible mistake: the player gets one bit.
HeaderWithOneBit(code, id, eq) == ((eq % 2) + 2 * (id % 2) + 8 * code) % 65536

connection_header_value(code, id, eq) == ((eq % 2) + 2 * (id % 4) + 8 * code) % 65536

code_bits(header) == header \div 8
id_bits(header) == (header \div 2) % 4
eq_bits(header) == header % 2

CodeOf(bytes) == code_bits(WordAt(bytes, 1))
IdOf(bytes) == id_bits(WordAt(bytes, 1))
EqOf(bytes) == eq_bits(WordAt(bytes, 1))

ValidId(id) == id \in 0..3
ValidEq(eq) == eq \in 0..1

-----------------------------------------------------------------------------
(* The three messages of the start of a match. *)

serialize_initial_connection(mode) ==
  Words(<<connection_header_value(Code(INITIAL_CODE, mode), 0, 0)>>)

deserialize_initial_connection(bytes) ==
  IF \E m \in Mode : CodeOf(bytes) = Code(INITIAL_CODE, m)
  THEN CHOOSE m \in Mode : CodeOf(bytes) = Code(INITIAL_CODE, m)
  ELSE NULL

serialize_ready_connection(h) ==
  IF ValidId(h.id) /\ (h.game_mode = "TEAM" => ValidEq(h.eq))
  THEN Words(<<connection_header_value(Code(READY_CODE, h.game_mode), h.id, h.eq)>>)
  ELSE NULL

\* The mode, player and team of a message of the kind of base.
Header(base, bytes) ==
  [game_mode |-> CHOOSE m \in Mode : CodeOf(bytes) = Code(base, m),
   id |-> IdOf(bytes), eq |-> EqOf(bytes)]

OfKind(base, bytes) == \E m \in Mode : CodeOf(bytes) = Code(base, m)

deserialize_ready_connection(bytes) ==
  IF OfKind(READY_CODE, bytes) THEN Header(READY_CODE, bytes) ELSE NULL

\* The sequence adrmdiff has 8 words.
serialize_connection_information(info) ==
  IF ValidId(info.id) /\ ValidEq(info.eq)
  THEN Words(<<connection_header_value(Code(INFORMATION_CODE, info.game_mode), info.id, info.eq),
               info.portudp % 65536, info.portmdiff % 65536>> \o info.adrmdiff)
  ELSE NULL

deserialize_connection_information(bytes) ==
  IF OfKind(INFORMATION_CODE, bytes)
  THEN [game_mode |-> Header(INFORMATION_CODE, bytes).game_mode,
        id |-> IdOf(bytes), eq |-> EqOf(bytes),
        portudp |-> WordAt(bytes, 2), portmdiff |-> WordAt(bytes, 3),
        adrmdiff |-> [i \in 1..8 |-> WordAt(bytes, 3 + i)]]
  ELSE NULL

-----------------------------------------------------------------------------
(* Actions: a number of 13 bits and one of the six actions in 3 bits. *)

game_action_value(num, action) == (8 * num + (action % 8)) % 65536
number_bits(value) == value \div 8
action_bits(value) == value % 8

serialize_game_action(a) ==
  IF /\ ValidId(a.id)
     /\ a.game_mode = "TEAM" => ValidEq(a.eq)
     /\ 0 <= a.message_number /\ a.message_number < 8192
     /\ a.action \in 0..5
  THEN Words(<<connection_header_value(Code(ACTION_CODE, a.game_mode), a.id, a.eq),
               game_action_value(a.message_number, a.action)>>)
  ELSE NULL

\* 6 and 7 are not refused here.
deserialize_game_action(bytes) ==
  IF OfKind(ACTION_CODE, bytes)
  THEN [game_mode |-> Header(ACTION_CODE, bytes).game_mode,
        id |-> IdOf(bytes), eq |-> EqOf(bytes),
        message_number |-> number_bits(WordAt(bytes, 2)),
        action |-> action_bits(WordAt(bytes, 2))]
  ELSE NULL

-----------------------------------------------------------------------------
(* Boards and differences. *)

Tile == 0..8   \* what may be sent of enum TILE

serialize_game_board(info) ==
  IF \A i \in DOMAIN info.board : info.board[i] \in Tile
  THEN Words(<<connection_header_value(BOARD_CODE, 0, 0), info.num>>)
         \o <<info.height, info.width>> \o info.board
  ELSE NULL

deserialize_game_board(bytes) ==
  IF CodeOf(bytes) = BOARD_CODE /\ IdOf(bytes) = 0 /\ EqOf(bytes) = 0
  THEN [num |-> WordAt(bytes, 2), height |-> bytes[5], width |-> bytes[6],
        board |-> [i \in 1..bytes[5] * bytes[6] |-> bytes[6 + i]]]
  ELSE NULL

\* nb differences of 3 bytes.
serialize_game_board_update(update) ==
  IF \A i \in 1..update.nb : update.diff[i].tile \in Tile
  THEN Words(<<connection_header_value(UPDATE_CODE, 0, 0), update.num>>) \o <<update.nb>>
         \o [k \in 1..3 * update.nb |->
               LET d == update.diff[(k + 2) \div 3]
               IN  CASE k % 3 = 1 -> d.x [] k % 3 = 2 -> d.y [] k % 3 = 0 -> d.tile]
  ELSE NULL

\* Only the low bit of the player is looked at.
deserialize_game_board_update(bytes) ==
  IF CodeOf(bytes) = UPDATE_CODE /\ IdOf(bytes) % 2 = 0 /\ EqOf(bytes) = 0
  THEN [num |-> WordAt(bytes, 2), nb |-> bytes[5],
        diff |-> [i \in 1..bytes[5] |->
                    [x |-> bytes[3 + 3 * i], y |-> bytes[4 + 3 * i], tile |-> bytes[5 + 3 * i]]]]
  ELSE NULL

-----------------------------------------------------------------------------
(* Chat and the end of the game. *)

\* strncpy, which stops at the end of the text and fills up with zeros.
strncpy(text, n) == [i \in 1..n |-> IF i <= Len(text) THEN text[i] ELSE 0]

serialize_chat_message(message, base) ==
  IF ValidId(message.id) /\ (message.type = "TEAM_M" => ValidEq(message.eq))
  THEN Words(<<connection_header_value(Code(base, message.type), message.id, message.eq)>>)
         \o <<message.message_length>> \o strncpy(message.message, message.message_length)
  ELSE NULL

\* The text ends at the first zero.
Text(bytes) ==
  SubSeq(bytes, 1, CHOOSE n \in 0..Len(bytes) :
                     /\ \A i \in 1..n : bytes[i] # 0
                     /\ n = Len(bytes) \/ bytes[n + 1] = 0)

deserialize_chat_message(bytes, base) ==
  IF \E t \in MessageType : CodeOf(bytes) = Code(base, t)
  THEN [type |-> CHOOSE t \in MessageType : CodeOf(bytes) = Code(base, t),
        id |-> IdOf(bytes), eq |-> EqOf(bytes), message_length |-> bytes[3],
        message |-> Text([i \in 1..bytes[3] |-> bytes[3 + i]])]
  ELSE NULL

serialize_game_end(end) ==
  IF IF end.game_mode = "SOLO" THEN ValidId(end.id) ELSE ValidEq(end.eq)
  THEN Words(<<connection_header_value(Code(GAME_END_CODE, end.game_mode), end.id, end.eq)>>)
  ELSE NULL

deserialize_game_end(bytes) ==
  IF OfKind(GAME_END_CODE, bytes) THEN Header(GAME_END_CODE, bytes) ELSE NULL
=============================================================================
