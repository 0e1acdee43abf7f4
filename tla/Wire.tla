-------------------------------- MODULE Wire --------------------------------
(***************************************************************************)
(* One client's TCP connection, byte by byte, from the request to play to  *)
(* the end of the game: src/src/communication_server.c,                    *)
(* communication_client.c and the loops that call them.                    *)
(*                                                                         *)
(* TCP delivers the bytes in order, but a recv returns any part of what    *)
(* was sent.  recv_tcp gathers a field, and says the same at the end of    *)
(* the file as when it is done: what is missing is then whatever memory    *)
(* held.  The loops that read a header or the information about the match  *)
(* write a second part at the wrong place, and spin at the end of the file.*)
(***************************************************************************)
EXTENDS Messages, SequencesExt

CONSTANTS
  Seats,     \* <<mode, id, eq, winner>>: who the client is, and who wins, -1 for nobody
  Junk,      \* the values memory that was not written may hold
  Parts,     \* bound: how many bytes a recv returns that does not return all
  Texts,     \* the texts typed
  MaxSaid,   \* bound: messages the client sends
  MaxTold    \* bound: messages of others the client is sent

ASSUME JunkAssumption == Junk \subseteq Byte /\ Junk # {}
ASSUME PartsAssumption == Parts \subseteq Nat
ASSUME SeatsAssumption ==
  /\ Seats \subseteq [mode : Mode, id : 0..3, eq : 0..1, winner : -1..3]
  /\ \A s \in Seats : s.mode = "TEAM" => s.winner <= 1
\* send_tcp counts what it sends in a byte, the three bytes before the text
\* included.  The client lets no more than TEXT_SIZE, 60, be typed.
ASSUME TextsAssumption == \A t \in Texts : t \in Seq(1..255) /\ Len(t) \in 1..252
ASSUME BoundsAssumption == MaxSaid \in Nat /\ MaxTold \in Nat

VARIABLES
  me,        \* the seat, as the server has it
  up, down,  \* the bytes on their way to the server and to the client
  upEnd, downEnd,   \* the end of the file follows them
  srv,       \* the server's thread for the client
  cli,       \* the client
  sbuf, cbuf,   \* what each has gathered of the message it is reading
  scount, ccount,   \* what the loops that do not use recv_tcp count as read
  split,     \* such a loop was given its message in two parts
  mode,      \* the mode the server took the client to ask for
  seat,      \* what the client was told of the match
  said, forwarded,   \* the client's messages, typed and passed on
  told, heard,       \* the others' messages, sent and added to the history
  ended,     \* the end of the game was sent, if it has a winner
  lost,      \* bytes were lost by a reset
  winner     \* the winner the client has found

sides == <<srv, sbuf, scount>>
clientSide == <<cli, cbuf, ccount, seat, heard, winner, said>>
stream == <<up, down, upEnd, downEnd, lost>>
vars == <<me, stream, sides, clientSide, split, mode, forwarded, told, ended>>

Udp == 4242
Mult == 1024
Group == [i \in 1..8 |-> 256 * i]

\* The fields a client learns of the match.
Learnt(info) == <<info.id, info.eq, info.portudp, info.portmdiff, info.adrmdiff>>

\* The first request is on its way.
Init ==
  /\ me \in Seats
  /\ up = serialize_initial_connection(me.mode) /\ down = <<>>
  /\ upEnd = FALSE /\ downEnd = FALSE /\ lost = FALSE
  /\ srv = "initial" /\ sbuf = <<>> /\ scount = 0
  /\ cli = "info" /\ cbuf = <<>> /\ ccount = 0
  /\ split = FALSE /\ mode = NULL /\ seat = NULL
  /\ said = <<>> /\ forwarded = <<>> /\ told = <<>> /\ heard = <<>>
  /\ ended = FALSE /\ winner = NULL

-----------------------------------------------------------------------------
(* Reading. *)

After(bytes, n) == SubSeq(bytes, n + 1, Len(bytes))

\* A recv of at most n bytes: all there are, or a part.
Received(bytes, n) ==
  LET all == IF Len(bytes) < n THEN Len(bytes) ELSE n
  IN  {SubSeq(bytes, 1, k) : k \in (Parts \cup {all}) \cap 1..all}

\* head + received counts in whole structures: what follows the first part is
\* not written where it belongs.
AtWrongPlace(buf, count, part, size) ==
  IF count = 0
  THEN IF Len(part) = size THEN {part} ELSE {part \o [i \in 1..size - Len(part) |-> j] : j \in Junk}
  ELSE {buf}

\* Plausible mistake: every recv asks for the whole.
ServerGathersTooMuch(size) ==
  \E part \in Received(up, size) :
     /\ sbuf' \in AtWrongPlace(sbuf, scount, part, size)
     /\ scount' = scount + Len(part)
     /\ up' = After(up, Len(part))
     /\ split' = (split \/ scount' < size)

ServerGathers(size) ==
  \E part \in Received(up, size - scount) :
     /\ sbuf' \in AtWrongPlace(sbuf, scount, part, size)
     /\ scount' = scount + Len(part)
     /\ up' = After(up, Len(part))
     /\ split' = (split \/ scount' < size)

ClientGathers(size) ==
  \E part \in Received(down, size - ccount) :
     /\ cbuf' \in AtWrongPlace(cbuf, ccount, part, size)
     /\ ccount' = ccount + Len(part)
     /\ down' = After(down, Len(part))
     /\ split' = (split \/ ccount' < size)

\* What is missing of the field of a chat message that is being read: the
\* header, the length, the text.
Field(buf) ==
  CASE Len(buf) < 2 -> 2 - Len(buf)
    [] Len(buf) = 2 -> 1
    [] Len(buf) > 2 -> 3 + buf[3] - Len(buf)

\* Memory that was not written: a long text is taken to hold one value only.
Unwritten(n) == IF n <= 2 THEN [1..n -> Junk] ELSE {[i \in 1..n |-> j] : j \in Junk}

\* recv_tcp: a part of the field, or at the end of the file all of it, unwritten.
recv_tcp(bytes, end, n, buf) ==
  {buf \o part : part \in Received(bytes, n)}
    \cup (IF bytes = <<>> /\ end THEN {buf \o part : part \in Unwritten(n)} ELSE {})

ServerReads(size) ==
  /\ sbuf' \in recv_tcp(up, upEnd, size, sbuf)
  /\ up' = After(up, Len(sbuf') - Len(sbuf))

ClientReads(size) ==
  /\ cbuf' \in recv_tcp(down, downEnd, size, cbuf)
  /\ down' = After(down, Len(cbuf') - Len(cbuf))

Complete(buf) == Len(buf) > 2 /\ Len(buf) = 3 + buf[3]

-----------------------------------------------------------------------------
(* The start of the match. *)

recv_connexion_header_raw(at) ==
  /\ srv = at /\ scount < 2
  /\ ServerGathers(2)
  /\ UNCHANGED <<me, down, upEnd, downEnd, lost, srv, clientSide, mode, forwarded, told, ended>>

\* A header that is none crashes the server; else, once the match is full, the
\* client is told about it, always in mode SOLO.
send_connexion_information ==
  /\ srv = "initial" /\ scount = 2
  /\ sbuf' = <<>> /\ scount' = 0
  /\ LET m == deserialize_initial_connection(sbuf)
     IN  IF m = NULL
         THEN srv' = "crashed" /\ downEnd' = TRUE /\ UNCHANGED <<down, mode>>
         ELSE /\ srv' = "ready" /\ mode' = m
              /\ down' = down \o serialize_connection_information(
                           [game_mode |-> "SOLO", id |-> me.id, eq |-> me.eq,
                            portudp |-> Udp, portmdiff |-> Mult, adrmdiff |-> Group])
              /\ UNCHANGED downEnd
  /\ UNCHANGED <<me, up, upEnd, lost, clientSide, split, forwarded, told, ended>>

recv_connexion_information_raw ==
  /\ cli = "info" /\ ccount < 22
  /\ ClientGathers(22)
  /\ UNCHANGED <<me, up, upEnd, downEnd, lost, sides, cli, seat, heard, winner, said, mode,
                 forwarded, told, ended>>

\* The client says it is ready, and its threads start.
send_ready_connexion_information ==
  /\ cli = "info" /\ ccount = 22
  /\ cbuf' = <<>> /\ ccount' = 0
  /\ LET info == deserialize_connection_information(cbuf)
     IN  IF info = NULL
         THEN cli' = "left" /\ upEnd' = TRUE /\ UNCHANGED <<up, seat>>
         ELSE /\ cli' = "play" /\ seat' = info
              /\ up' = up \o serialize_ready_connection(
                               [game_mode |-> me.mode, id |-> info.id, eq |-> info.eq])
              /\ UNCHANGED upEnd
  /\ UNCHANGED <<me, down, downEnd, lost, sides, heard, winner, said, split, mode, forwarded,
                 told, ended>>

\* The content of the header is not looked at.
ServerIsReady ==
  /\ srv = "ready" /\ scount = 2
  /\ srv' = "chat" /\ sbuf' = <<>> /\ scount' = 0
  /\ UNCHANGED <<me, stream, clientSide, split, mode, forwarded, told, ended>>

-----------------------------------------------------------------------------
(* Ending.  A close with bytes left to read resets the connection, and what *)
(* was on its way may be lost.                                              *)

ServerCloses(to) ==
  /\ srv' = to /\ downEnd' = TRUE
  /\ down' \in IF up = <<>> THEN {down} ELSE Prefixes(down)
  /\ lost' = (lost \/ down' # down)
  /\ up' = <<>>

\* No header within a minute.
ReadyTimeout ==
  /\ srv = "ready" /\ up = <<>> /\ ~upEnd /\ scount = 0
  /\ ServerCloses("closed")
  /\ UNCHANGED <<me, upEnd, sbuf, scount, clientSide, split, mode, forwarded, told, ended>>

\* A winner that is none of the players, or teams, is refused: nothing is sent.
game_end ==
  serialize_game_end(IF mode = "SOLO" THEN [game_mode |-> mode, id |-> me.winner, eq |-> 0]
                                      ELSE [game_mode |-> mode, id |-> 0, eq |-> me.winner])

\* No chat is sent any more: every thread of the match has left its loop.
send_game_over ==
  /\ srv = "done" /\ ~ended
  /\ ended' = TRUE
  /\ down' = IF downEnd \/ game_end = NULL THEN down ELSE down \o game_end
  /\ UNCHANGED <<me, up, upEnd, downEnd, lost, sides, clientSide, split, mode, forwarded, told>>

CloseSockets ==
  /\ srv = "done" /\ ended
  /\ ServerCloses("closed")
  /\ UNCHANGED <<me, upEnd, sbuf, scount, clientSide, split, mode, forwarded, told, ended>>

\* The user quits, or the process dies.
ClientLeaves ==
  /\ cli \in {"info", "play", "recv"}
  /\ cli' = "left" /\ upEnd' = TRUE
  /\ up' \in IF down = <<>> THEN {up} ELSE Prefixes(up)
  /\ down' = <<>>
  /\ lost' = (lost \/ up' # up)
  /\ UNCHANGED <<me, downEnd, sides, cbuf, ccount, seat, heard, winner, said, split, mode,
                 forwarded, told, ended>>

-----------------------------------------------------------------------------
(* The chat. *)

\* The size is a uint8_t.
send_tcp(bytes) == SubSeq(bytes, 1, Len(bytes) % 256)

\* The user sends a line.
client_send_chat_message ==
  /\ cli \in {"play", "recv"} /\ Len(said) < MaxSaid /\ ~downEnd
  /\ \E type \in MessageType, text \in Texts :
       LET msg == [type |-> type, id |-> seat.id, eq |-> seat.eq,
                   message_length |-> Len(text), message |-> text]
       IN  /\ said' = Append(said, msg)
           /\ up' = up \o send_tcp(serialize_chat_message(msg, CLIENT_CHAT_CODE))
  /\ UNCHANGED <<me, down, upEnd, downEnd, lost, sides, cli, cbuf, ccount, seat, heard, winner,
                 split, mode, forwarded, told, ended>>

\* Someone else's line is passed on.
send_chat_message ==
  /\ srv \in {"chat", "select", "done"} /\ ~ended /\ Len(told) < MaxTold
  /\ \E type \in MessageType, text \in Texts :
       LET msg == [type |-> type, id |-> (me.id + 1) % 4, eq |-> me.eq,
                   message_length |-> Len(text), message |-> text]
       IN  /\ told' = Append(told, msg)
           /\ down' = IF cli = "left" THEN down
                      ELSE down \o send_tcp(serialize_chat_message(msg, SERVER_CHAT_CODE))
  /\ UNCHANGED <<me, up, upEnd, downEnd, lost, sides, clientSide, split, mode, forwarded, ended>>

\* Plausible mistake: the end of the file is not looked for.
TopWithoutPeek ==
  /\ srv = "chat" /\ srv' = "select"
  /\ UNCHANGED <<me, stream, sbuf, scount, clientSide, split, mode, forwarded, told, ended>>

\* The head of the loop of handle_tcp_communication: the finished flag may have
\* been set, and a look tells the end of the file.
handle_tcp_communication ==
  /\ srv = "chat"
  /\ srv' \in {"done", IF up = <<>> /\ upEnd THEN "done" ELSE "select"}
  /\ UNCHANGED <<me, stream, sbuf, scount, clientSide, split, mode, forwarded, told, ended>>

SelectTimeout ==
  /\ srv = "select" /\ sbuf = <<>>
  /\ srv' = "chat"
  /\ UNCHANGED <<me, stream, sbuf, scount, clientSide, split, mode, forwarded, told, ended>>

recv_chat_message ==
  /\ srv = "select" /\ ~Complete(sbuf)
  /\ ServerReads(Field(sbuf))
  /\ UNCHANGED <<me, down, upEnd, downEnd, lost, srv, scount, clientSide, split, mode, forwarded,
                 told, ended>>

handle_chat_message ==
  /\ srv = "select" /\ Complete(sbuf)
  /\ sbuf' = <<>>
  /\ LET msg == deserialize_chat_message(sbuf, CLIENT_CHAT_CODE)
     IN  IF msg = NULL THEN srv' = "done" /\ UNCHANGED forwarded
                       ELSE srv' = "chat" /\ forwarded' = Append(forwarded, msg)
  /\ UNCHANGED <<me, stream, scount, clientSide, split, mode, told, ended>>

\* Plausible mistake: the client does not look for the end of the game.
EndIsIgnored(buf) == FALSE

\* A header of the client's mode that says the game is over.
IsGameEnd(buf) ==
  /\ Len(buf) = 2
  /\ deserialize_game_end(buf) # NULL
  /\ deserialize_game_end(buf).game_mode = me.mode

\* The head of the loop of chat_message_thread_function.
ClientLooks ==
  /\ cli = "play"
  /\ cli' = IF down = <<>> /\ downEnd THEN "over" ELSE "recv"
  /\ UNCHANGED <<me, stream, sides, cbuf, ccount, seat, heard, winner, said, split, mode,
                 forwarded, told, ended>>

recv_chat_message_from_server ==
  /\ cli = "recv" /\ ~IsGameEnd(cbuf) /\ ~Complete(cbuf)
  /\ ClientReads(Field(cbuf))
  /\ UNCHANGED <<me, up, upEnd, downEnd, lost, sides, cli, ccount, seat, heard, winner, said,
                 split, mode, forwarded, told, ended>>

ChatIsShown ==
  /\ cli = "recv" /\ ~IsGameEnd(cbuf) /\ Complete(cbuf)
  /\ cli' = "play" /\ cbuf' = <<>>
  /\ LET msg == deserialize_chat_message(cbuf, SERVER_CHAT_CODE)
     IN  heard' = IF msg = NULL THEN heard ELSE Append(heard, msg)
  /\ UNCHANGED <<me, stream, sides, ccount, seat, winner, said, split, mode, forwarded, told,
                 ended>>

GameIsOver ==
  /\ cli = "recv" /\ IsGameEnd(cbuf)
  /\ LET end == deserialize_game_end(cbuf)
     IN  winner' = IF me.mode = "SOLO" THEN end.id ELSE end.eq
  /\ cli' = "over" /\ cbuf' = <<>>
  /\ UNCHANGED <<me, stream, sides, ccount, seat, heard, said, split, mode, forwarded, told, ended>>

-----------------------------------------------------------------------------

ServerNext ==
  \/ \E at \in {"initial", "ready"} : recv_connexion_header_raw(at)
  \/ send_connexion_information \/ ServerIsReady \/ ReadyTimeout
  \/ handle_tcp_communication \/ SelectTimeout \/ recv_chat_message \/ handle_chat_message
  \/ send_chat_message \/ send_game_over \/ CloseSockets

ChatThread == ClientLooks \/ recv_chat_message_from_server \/ ChatIsShown \/ GameIsOver

ClientNext ==
  \/ recv_connexion_information_raw \/ send_ready_connexion_information
  \/ client_send_chat_message \/ ClientLeaves \/ ChatThread

Next == ServerNext \/ ClientNext

Spec == Init /\ [][Next]_vars

\* A recv returns when there is something to read, and the client's thread runs.
FairSpec == Spec /\ WF_vars(ChatThread)

-----------------------------------------------------------------------------
(* Properties. *)

TypeOK ==
  /\ up \in Seq(Byte) /\ down \in Seq(Byte) /\ sbuf \in Seq(Byte) /\ cbuf \in Seq(Byte)
  /\ srv \in {"initial", "ready", "chat", "select", "done", "closed", "crashed"}
  /\ cli \in {"info", "play", "recv", "over", "left"}
  /\ scount \in 0..2 /\ ccount \in 0..22
  /\ mode \in Mode \cup {NULL}

\* What is passed on is what was said, in order and unchanged, up to at most one
\* message that nobody said, when the connection has ended; and the same holds
\* of what the client shows of the others' messages.
FaithfulUntil(end, received, sent) ==
  \/ IsPrefix(received, sent)
  \/ end /\ IsPrefix(Front(received), sent)

ChatsInOrder ==
  /\ FaithfulUntil(upEnd, forwarded, said)
  /\ FaithfulUntil(downEnd, heard, told)

\* Unless a message of the start came in two parts, the two sides agree about
\* the mode, the seat, the ports and the group.
SeatAgreed ==
  ~split =>
    /\ mode \in {me.mode, NULL}
    /\ seat # NULL =>
         Learnt(seat) = <<me.id, me.eq, Udp, Mult, Group>>

\* The winner the client prints is the one of the match, unless the connection
\* ended before that was sent or while it was lost, or the match has none.
WinnerIsTrue ==
  winner # NULL /\ ~split =>
    winner = me.winner \/ (downEnd /\ (~ended \/ lost \/ me.winner = -1))

\* The end of the game, once sent, is heard by a client that stays, whatever was
\* said before it, unless the server closed with something unread.  A client of a
\* match without a winner hears only that the server closed.
EndHeard ==
  ended ~> (winner = me.winner \/ cli = "left" \/ lost \/ split \/ me.winner = -1)
=============================================================================
