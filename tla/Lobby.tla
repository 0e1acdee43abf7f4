------------------------------- MODULE Lobby -------------------------------
(***************************************************************************)
(* connect_players_to_game of src/src/network_server.c: one thread polls   *)
(* the listening socket and the clients whose header it awaits, places     *)
(* each client in the match of its mode that is filling, and makes the     *)
(* games of the table (GamesTable).  The matches that are full are played  *)
(* by their own threads, seen here as they touch the table: Sec removes a  *)
(* game, a TCP thread looks up the mode of a game to route a chat message. *)
(***************************************************************************)
EXTENDS GamesTable, Sequences

CONSTANTS
  PLAYER_NUM,   \* clients in a match, 4
  Client,       \* the clients, and the sockets the server has for them
  PollSize,     \* INITIAL_POLL_FD_SIZE
  LISTEN,       \* sock_tcp, the listening socket
  JUNK          \* a slot of the polled array that was never written

ASSUME PlayerNumAssumption == PLAYER_NUM \in Nat \ {0} /\ PollSize \in Nat \ {0}
ASSUME SocketAssumption == LISTEN # JUNK /\ LISTEN \notin Client /\ JUNK \notin Client

Mode == {"SOLO", "TEAM"}

VARIABLES
  client,      \* "away", "calling" (not accepted yet), "waiting", "placed"
  header,      \* what a client has sent: "none", its mode, or "eof" if it left
  port_given,  \* the server was started with -p
  listening,   \* sock_tcp is open
  polls,       \* the polled array from its second slot, nbfds - 1 long
  size,        \* the slots of the array
  revents,     \* the slots the last poll found readable, 0 for the first
  next,        \* the slot the loop is at, 0 when the thread is in poll
  connected,   \* connected_solo_players, connected_team_players
  matches,     \* the matches made, the last one of a mode is the one filling
  server,      \* "running", or how it stopped
  overlapped,  \* ghost: a game was made while another was live
  leaked       \* ghost: a whisper was sent to the other team

lobby == <<client, header, listening, polls, size, revents, next, connected, matches>>
vars == <<table, lobby, port_given, server, overlapped, leaked>>

Init ==
  /\ TableInit
  /\ client = [c \in Client |-> "away"]
  /\ header = [c \in Client |-> "none"]
  /\ port_given \in BOOLEAN
  /\ listening = TRUE
  /\ polls = <<>> /\ size = PollSize
  /\ revents = {} /\ next = 0
  /\ connected = [m \in Mode |-> 0]
  /\ matches = <<>>
  /\ server = "running"
  /\ overlapped = FALSE /\ leaked = FALSE

-----------------------------------------------------------------------------
(* The clients. *)

Connect(c) ==
  /\ client[c] = "away" /\ listening
  /\ client' = [client EXCEPT ![c] = "calling"]
  /\ UNCHANGED <<table, header, port_given, listening, polls, size, revents, next,
                 connected, matches, server, overlapped, leaked>>

\* The header of a client arrives, or the client leaves without sending one;
\* before the client is accepted nobody could tell.
SendHeader(c) ==
  /\ client[c] = "waiting" /\ header[c] = "none"
  /\ \E h \in Mode \cup {"eof"} : header' = [header EXCEPT ![c] = h]
  /\ UNCHANGED <<table, client, port_given, listening, polls, size, revents, next,
                 connected, matches, server, overlapped, leaked>>

-----------------------------------------------------------------------------
(* One client is placed. *)

Stop(how) ==
  /\ server' = how
  /\ UNCHANGED <<table, client, listening, polls, next, connected, matches, overlapped>>

\* The id the threads of a match are given, in place of the one made for it.
HandedOn(m, id) == IF m = "SOLO" THEN id ELSE IF id \in {0, 3} THEN 0 ELSE 1

eq(m, id) == IF m = "SOLO" \/ id \in {0, 3} THEN 0 ELSE 1

\* Plausible mistake: any match that is filling will do.
FillingOfAny(m) == CHOOSE k \in DOMAIN matches : Len(matches[k].sock) < PLAYER_NUM

\* The match of mode m that is filling.
FillingOf(m) ==
  CHOOSE k \in DOMAIN matches : matches[k].mode = m /\ Len(matches[k].sock) < PLAYER_NUM

\* bind fails on a socket that is bound, as sock_tcp is by init_socket_tcp.
try_to_bind_port_on_socket(bound) == ~bound
init_server_network == port_given => try_to_bind_port_on_socket(TRUE)

\* What the threads of a match are given, whose first player is c.
init_tcp_threads_data(c, m, id, g) ==
  [mode |-> m, game |-> g, made |-> id, game_id |-> HandedOn(m, id),
   sock |-> <<c>>, eq |-> <<eq(m, 0)>>, over |-> FALSE]

\* The address of a game is fresh, so that games are told apart.
IsNew(g) ==
  /\ \A i \in DOMAIN games : games[i] # g
  /\ \A k \in DOMAIN matches : matches[k].game # g
NewGame == CHOOSE g \in Game : IsNew(g)

\* The first client of a match: its game is made, then its sockets.  When the
\* sockets fail all are closed, the listening one included, and the game stays.
OpenMatch(c, m) ==
  /\ \E g \in Game : IsNew(g)
  /\ add_game(NewGame)
  /\ overlapped' = (overlapped \/ LiveIds # {})
  /\ IF game_id' # -1 /\ init_server_network
       THEN /\ matches' = Append(matches, init_tcp_threads_data(c, m, game_id', NewGame))
            /\ connected' = [connected EXCEPT ![m] = 1 % PLAYER_NUM]
            /\ client' = [client EXCEPT ![c] = "placed"]
            /\ UNCHANGED listening
       ELSE /\ listening' = (listening /\ game_id' = -1)
            /\ UNCHANGED <<client, connected, matches>>
  /\ UNCHANGED server

JoinMatch(c, m) ==
  /\ matches' = [matches EXCEPT ![FillingOf(m)].sock = Append(@, c),
                                ![FillingOf(m)].eq = Append(@, eq(m, connected[m]))]
  /\ connected' = [connected EXCEPT ![m] = (@ + 1) % PLAYER_NUM]
  /\ client' = [client EXCEPT ![c] = "placed"]
  /\ UNCHANGED <<table, listening, server, overlapped>>

connect_one_player_to_game(c) ==
  IF connected[header[c]] = 0 THEN OpenMatch(c, header[c]) ELSE JoinMatch(c, header[c])

-----------------------------------------------------------------------------
(* The loop of connect_players_to_game. *)

Readable(f) ==
  \/ f = LISTEN /\ listening /\ \E c \in Client : client[c] = "calling"
  \/ f \in Client /\ header[f] # "none"

Poll ==
  /\ server = "running" /\ next = 0
  /\ revents' = {i \in 1..Len(polls) : Readable(polls[i])}
                  \cup (IF Readable(LISTEN) THEN {0} ELSE {})
  /\ revents' # {}
  /\ next' = 1
  /\ UNCHANGED <<table, client, header, port_given, listening, polls, size,
                 connected, matches, server, overlapped, leaked>>

\* Plausible mistake: the loop stops a slot early.
ToHandleShort == {i \in revents : next <= i /\ i < Len(polls)}

\* The slots the loop has yet to handle: it stops at nbfds, which shrinks.
ToHandle == {i \in revents : next <= i /\ i <= Len(polls)}

\* Plausible mistake: the last slot goes, whichever was handled.
RemoveLast(i) == polls' = SubSeq(polls, 1, Len(polls) - 1)

\* The freed slot gets the descriptor of the first one, and the last slot goes.
remove_polls_to_poll(i) == polls' = SubSeq([polls EXCEPT ![i] = LISTEN], 1, Len(polls) - 1)

\* recv fails on the listening socket, and the null header is read; at the
\* end of file recv returns 0 for ever.
Handle ==
  /\ server = "running" /\ next > 0
  /\ \E i \in ToHandle :
        /\ \A j \in ToHandle : i <= j
        /\ \/ polls[i] = LISTEN /\ Stop("crashed")
           \/ polls[i] \in Client /\ header[polls[i]] = "eof" /\ Stop("spinning")
           \/ /\ polls[i] \in Client /\ header[polls[i]] \in Mode
              /\ connect_one_player_to_game(polls[i])
              /\ remove_polls_to_poll(i)
              /\ next' = i + 1
  /\ UNCHANGED <<header, port_given, size, revents, leaked>>

\* Plausible mistake: the array is never made longer.
AddWithoutRoom(c) == polls' = Append(polls, c) /\ UNCHANGED <<size, server>>

\* When the array is full it is made longer, but the slot is not written: what
\* it holds is either nothing that is ever readable, or followed no further.
add_polls_to_poll(c) ==
  IF Len(polls) + 1 = size
    THEN /\ polls' = Append(polls, JUNK) /\ size' = 4 * size
         /\ server' \in {server, "undefined"}
    ELSE polls' = Append(polls, c) /\ UNCHANGED <<size, server>>

Accept ==
  /\ server = "running" /\ next > 0 /\ ToHandle = {}
  /\ next' = 0
  /\ IF 0 \in revents /\ listening
       THEN \E c \in Client :
              /\ client[c] = "calling"
              /\ client' = [client EXCEPT ![c] = "waiting"]
              /\ add_polls_to_poll(c)
       ELSE UNCHANGED <<client, polls, size, server>>
  /\ revents' = {}
  /\ UNCHANGED <<table, header, port_given, listening, connected, matches,
                 overlapped, leaked>>

-----------------------------------------------------------------------------
(* The threads of the matches that are full, where they touch the table. *)

Full(k) == Len(matches[k].sock) = PLAYER_NUM
Playing(k) == Full(k) /\ ~matches[k].over

\* Sec at the end of a match: it removes the game of the id it was given, if
\* another match has not done so.
EndMatch(k) ==
  /\ server # "crashed" /\ Playing(k)
  /\ matches' = [matches EXCEPT ![k].over = TRUE]
  /\ remove_game(matches[k].game_id)
  /\ UNCHANGED <<client, header, port_given, listening, polls, size, revents, next,
                 connected, server, overlapped, leaked>>

\* A player of any match writes, a player of a team whispers; the server looks at
\* the mode of game 0 (TMP_GAME_ID).
handle_chat_message(k) ==
  /\ server # "crashed" /\ Playing(k)
  /\ IF games[0] = NULL
       THEN server' = "crashed" /\ UNCHANGED leaked
       ELSE \E j \in DOMAIN matches :
              /\ matches[j].game = games[0]
              /\ leaked' = (leaked \/ (matches[k].mode = "TEAM" /\ matches[j].mode = "SOLO"))
              /\ UNCHANGED server
  /\ UNCHANGED <<table, lobby, port_given, overlapped>>

Next ==
  \/ \E c \in Client : Connect(c) \/ SendHeader(c)
  \/ Poll \/ Handle \/ Accept
  \/ \E k \in DOMAIN matches : EndMatch(k) \/ handle_chat_message(k)

Spec == Init /\ [][Next]_vars

\* The main thread does nothing but serve.
FairSpec == Spec /\ WF_vars(Poll) /\ WF_vars(Handle) /\ WF_vars(Accept)

-----------------------------------------------------------------------------
Fd == Client \cup {LISTEN, JUNK}

Match == [mode : Mode, game : Game, made : Nat, game_id : Nat, over : BOOLEAN,
          sock : Seq(Client), eq : Seq({0, 1})]

(* The lobby keeps its types; the scan stays within the array.             *)
TypeOK ==
  /\ client \in [Client -> {"away", "calling", "waiting", "placed"}]
  /\ header \in [Client -> Mode \cup {"none", "eof"}]
  /\ {port_given, listening, overlapped, leaked} \subseteq BOOLEAN
  /\ polls \in Seq(Fd) /\ size \in Nat /\ Len(polls) < size
  /\ revents \subseteq 0..size - 1 /\ next \in 0..size
  /\ connected \in [Mode -> 0..PLAYER_NUM - 1]
  /\ matches \in Seq(Match)
  /\ server \in {"running", "crashed", "spinning", "undefined"}

(* Two lobbies fill at once, one counter each that wraps at PLAYER_NUM:    *)
(* every client placed sits once, in a match of the mode it asked for, in  *)
(* the order of arrival, and only the last match of a mode is not full     *)
(* (network_server.c:1356-1418).                                           *)
Filling(m) == {k \in DOMAIN matches : matches[k].mode = m /\ ~Full(k)}
SeatsRight ==
  /\ \A k \in DOMAIN matches : \A i \in DOMAIN matches[k].sock :
        /\ client[matches[k].sock[i]] = "placed"
        /\ header[matches[k].sock[i]] = matches[k].mode
        /\ matches[k].eq[i] = 1 <=> matches[k].mode = "TEAM" /\ i \notin {1, 4}
  /\ \A c \in Client : client[c] = "placed" =>
        Cardinality({seat \in (DOMAIN matches) \X (1..PLAYER_NUM) :
                       /\ seat[2] <= Len(matches[seat[1]].sock)
                       /\ matches[seat[1]].sock[seat[2]] = c}) = 1
  /\ \A m \in Mode :
        IF connected[m] = 0 THEN Filling(m) = {}
        ELSE \E k \in Filling(m) :
               Filling(m) = {k} /\ Len(matches[k].sock) = connected[m]

(* An accepted client is in the polled set until it is handled, as long as *)
(* remove_polls_to_poll never put the listening socket in its place and    *)
(* the array was never full: these are the only ways to lose a client      *)
(* (network_server.c:662-682).                                             *)
WaitingPolled ==
  (server = "running" /\ ~port_given /\ \A i \in DOMAIN polls : polls[i] \in Client) =>
    \A c \in Client : client[c] = "waiting" <=>
       Cardinality({i \in DOMAIN polls : polls[i] = c}) = 1

(* As long as no TEAM lobby was given an id beyond 1, a match that is not  *)
(* over has the game that was made for it, and nobody else removes it      *)
(* (network_server.c:1389-1393, model.c:42-102).                           *)
OwnGames ==
  (\A k \in DOMAIN matches : matches[k].made = matches[k].game_id) =>
    \A k \in DOMAIN matches : matches[k].over \/ games[matches[k].made] = matches[k].game

(* A server whose matches never overlap serves each of them right: the     *)
(* match has game 0, so the id TEAM threads are given is right, and so is  *)
(* the mode chat is routed by (network_server.c:608, 1389).                *)
ServedOneByOne ==
  ~overlapped =>
    /\ \A k \in DOMAIN matches : matches[k].game_id = 0
    /\ ~leaked
    /\ server = "crashed" => LISTEN \in {polls[i] : i \in DOMAIN polls}

(* A client that has sent its mode is placed in the end, unless the thread *)
(* has stopped or the client was lost from the polled set.                 *)
Polled(c) == \E i \in DOMAIN polls : polls[i] = c
EveryoneSeated ==
  \A c \in Client :
    (client[c] = "waiting" /\ header[c] \in Mode)
      ~> (client[c] = "placed" \/ server # "running" \/ port_given \/ ~Polled(c))

(* The subject (src/sujet.pdf): the server must be able to run several     *)
(* matches in parallel.  Matches that are not over use games of their own. *)
ParallelMatches ==
  \A j, k \in DOMAIN matches :
    ~matches[j].over /\ ~matches[k].over /\ j # k => matches[j].game_id # matches[k].game_id
=============================================================================
