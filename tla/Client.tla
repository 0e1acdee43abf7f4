------------------------------- MODULE Client -------------------------------
(***************************************************************************)
(* The three threads of a client in a match (src/src/controller.c):        *)
(*   "board"  receives boards and differences, and paints;                 *)
(*   "chat"   receives the others' messages and the end of the game, adds  *)
(*            to the history, and paints;                                  *)
(*   "view"   reads the keyboard, edits the line, sends it, adds it to the *)
(*            history, and quits.                                          *)
(* Each ends when it finds is_game_end set at the head of its loop; the    *)
(* client ends when the three have ended.  Any of them may close the       *)
(* sockets.  close does not wake a thread that is waiting in recv, and     *)
(* leaves it the connection; shutdown, which is only called on the UDP     *)
(* sockets, does.                                                          *)
(*                                                                         *)
(* chat_mutex is taken by the chat thread alone, so that nothing keeps a   *)
(* change of the history apart from another, or from the painting.         *)
(***************************************************************************)
EXTENDS ChatModel

CONSTANTS
  MaxChat    \* bound: messages the server sends

ASSUME ClientAssumption == MaxChat \in Nat

Thread == {"board", "chat", "view"}

VARIABLES
  pc,           \* where each thread is
  is_game_end,
  tcp, diff,    \* whether sock_tcp and sock_diff are open, or -1
  incoming,     \* what is to be read on the connection
  sentChats,    \* what the bound counts
  serverClosed,
  adding,       \* the message a thread is about to link into the history
  view_mutex,   \* the thread that paints
  raced         \* the history was changed while it was changed or painted

net == <<tcp, diff, incoming, sentChats, serverClosed>>
vars == <<chat, net, pc, is_game_end, adding, view_mutex, raced>>

FromServer == create_chat_node("other", 1)
NoMessage == create_chat_node("nobody", 0)

Init ==
  /\ create_chat
  /\ pc = [t \in Thread |-> "top"]
  /\ is_game_end = FALSE
  /\ tcp = TRUE /\ diff = TRUE
  /\ incoming = <<>> /\ sentChats = 0 /\ serverClosed = FALSE
  /\ adding = [t \in {"chat", "view"} |-> NoMessage]
  /\ view_mutex = "none"
  /\ raced = FALSE

Goto(t, to) == pc' = [pc EXCEPT ![t] = to]

CloseSockets == tcp' = FALSE /\ diff' = FALSE /\ UNCHANGED <<incoming, sentChats, serverClosed>>

-----------------------------------------------------------------------------
(* The server, as the client knows it. *)

ServerSends ==
  /\ ~serverClosed
  /\ \/ /\ sentChats < MaxChat /\ sentChats' = sentChats + 1
        /\ incoming' = Append(incoming, "chat")
     \/ /\ \A i \in DOMAIN incoming : incoming[i] # "end"
        /\ incoming' = Append(incoming, "end") /\ UNCHANGED sentChats
  /\ UNCHANGED <<chat, tcp, diff, serverClosed, pc, is_game_end, adding, view_mutex, raced>>

ServerCloses ==
  /\ ~serverClosed /\ serverClosed' = TRUE
  /\ UNCHANGED <<chat, tcp, diff, incoming, sentChats, pc, is_game_end, adding, view_mutex, raced>>

-----------------------------------------------------------------------------
(* What the board thread and the chat thread do alike. *)

\* The head of a loop.  The chat thread closes the sockets when it leaves.
Top(t) ==
  /\ pc[t] = "top"
  /\ IF is_game_end THEN Goto(t, "done") ELSE Goto(t, IF t = "view" THEN "control" ELSE "look")
  /\ IF is_game_end /\ t = "chat" THEN CloseSockets ELSE UNCHANGED net
  /\ UNCHANGED <<chat, is_game_end, adding, view_mutex, raced>>

\* Nothing to read, and the end of the file; a closed descriptor tells nothing.
has_server_disconnected_tcp == tcp /\ incoming = <<>> /\ serverClosed

Look(t) ==
  /\ pc[t] = "look"
  /\ IF has_server_disconnected_tcp THEN Goto(t, "flag") /\ CloseSockets
                                    ELSE Goto(t, "recv") /\ UNCHANGED net
  /\ UNCHANGED <<chat, is_game_end, adding, view_mutex, raced>>

Flag(t) ==
  /\ pc[t] = "flag"
  /\ is_game_end' = TRUE
  /\ Goto(t, "done")
  /\ UNCHANGED <<chat, net, adding, view_mutex, raced>>

\* A change of the history that runs into another, or into the painting.  What the
\* history holds from then on is anything: the model keeps it empty.
Race(hit) ==
  IF hit THEN raced' = TRUE /\ head' = NoNode /\ next' = <<>> /\ node' = <<>> /\ count' = 0 /\ newest' = <<>>
         ELSE UNCHANGED <<raced, history>>

\* refresh_game reads the history from the time it has the mutex until it gives
\* it back.
StartPainting(t) ==
  /\ pc[t] = "refresh" /\ view_mutex = "none"
  /\ view_mutex' = t
  /\ Race(\E u \in Thread \ {t} : pc[u] = "adding")
  /\ Goto(t, "painting")
  /\ UNCHANGED <<lineVars, net, is_game_end, adding>>

StopPainting(t) ==
  /\ pc[t] = "painting"
  /\ view_mutex' = "none"
  /\ Goto(t, "top")
  /\ UNCHANGED <<chat, net, is_game_end, adding, raced>>

\* The message is linked into the history.
Add(t) ==
  /\ pc[t] = "adding"
  /\ IF raced THEN UNCHANGED history ELSE add_message(adding[t])
  /\ adding' = [adding EXCEPT ![t] = NoMessage]
  /\ IF t = "view" THEN cursor' = 0 /\ UNCHANGED on_focus /\ Goto(t, "top")
                   ELSE UNCHANGED lineVars /\ Goto(t, "refresh")
  /\ UNCHANGED <<net, is_game_end, view_mutex, raced>>

StartAdding(t, entry) ==
  /\ adding' = [adding EXCEPT ![t] = entry]
  /\ Race(\E u \in Thread \ {t} : pc[u] \in {"adding", "painting"})
  /\ Goto(t, "adding")

-----------------------------------------------------------------------------
(* The board thread. *)

\* recv_game_message: on a closed descriptor it fails at once.
BoardRecv ==
  /\ pc["board"] = "recv"
  /\ Goto("board", IF diff THEN "blocked" ELSE "top")
  /\ UNCHANGED <<chat, net, is_game_end, adding, view_mutex, raced>>

\* A datagram: the board is changed and painted.
BoardReceives ==
  /\ pc["board"] = "blocked"
  /\ Goto("board", "refresh")
  /\ UNCHANGED <<chat, net, is_game_end, adding, view_mutex, raced>>

\* Plausible mistake: the UDP socket is closed without a shutdown.
StaysBlocked == pc["board"] = "blocked" /\ FALSE /\ UNCHANGED vars

\* close_socket_diff shuts the socket down, which ends the wait.
BoardWakes ==
  /\ pc["board"] = "blocked" /\ ~diff
  /\ Goto("board", "top")
  /\ UNCHANGED <<chat, net, is_game_end, adding, view_mutex, raced>>

-----------------------------------------------------------------------------
(* The chat thread. *)

\* What was not read is whatever the memory held: the end of the game, a
\* message, or nothing that can be decoded.
MadeUp ==
  \/ Goto("chat", "ended") /\ UNCHANGED <<adding, raced, history>>
  \/ StartAdding("chat", FromServer)
  \/ Goto("chat", "refresh") /\ UNCHANGED <<adding, raced, history>>

ChatRecv ==
  /\ pc["chat"] = "recv"
  /\ IF tcp THEN Goto("chat", "blocked") /\ UNCHANGED <<adding, raced, history>> ELSE MadeUp
  /\ UNCHANGED <<lineVars, net, is_game_end, view_mutex>>

\* Plausible mistake: only what is read wakes the thread, not the end of the file.
ReceivesOnly ==
  /\ pc["chat"] = "blocked" /\ incoming # <<>>
  /\ incoming' = Tail(incoming)
  /\ IF Head(incoming) = "end" THEN Goto("chat", "ended") /\ UNCHANGED <<adding, raced, history>>
     ELSE StartAdding("chat", FromServer)
  /\ UNCHANGED <<lineVars, tcp, diff, sentChats, serverClosed, is_game_end, view_mutex>>

\* The wait in recv ends with what is read or with the end of the file, and with
\* nothing else: it does not notice that the descriptor was closed.
ChatReceives ==
  /\ pc["chat"] = "blocked"
  /\ \/ /\ incoming # <<>>
        /\ incoming' = Tail(incoming)
        /\ IF Head(incoming) = "end" THEN Goto("chat", "ended") /\ UNCHANGED <<adding, raced, history>>
           ELSE StartAdding("chat", FromServer)
     \/ incoming = <<>> /\ serverClosed /\ MadeUp /\ UNCHANGED incoming
  /\ UNCHANGED <<lineVars, tcp, diff, sentChats, serverClosed, is_game_end, view_mutex>>

\* The flag first, then the sockets.
ChatEnds ==
  /\ \/ pc["chat"] = "ended" /\ is_game_end' = TRUE /\ Goto("chat", "close") /\ UNCHANGED net
     \/ pc["chat"] = "close" /\ CloseSockets /\ Goto("chat", "done") /\ UNCHANGED is_game_end
  /\ UNCHANGED <<chat, adding, view_mutex, raced>>

-----------------------------------------------------------------------------
(* The view thread: one key. *)

Control(act) ==
  /\ pc["view"] = "control" /\ view_mutex = "none"
  /\ act
  /\ UNCHANGED <<view_mutex, raced>>

NoKey == Goto("view", "top") /\ UNCHANGED <<chat, net, is_game_end, adding>>

Edit ==
  /\ on_focus
  /\ \/ add_to_line \/ decrement_line \/ clear_line \/ set_chat_focus(FALSE)
  /\ Goto("view", "top")
  /\ UNCHANGED <<net, is_game_end, adding>>

StartChat ==
  /\ ~on_focus /\ set_chat_focus(TRUE)
  /\ Goto("view", "top")
  /\ UNCHANGED <<net, is_game_end, adding>>

\* GAME_QUIT flags and closes under game_end_mutex, CHAT_GAME_QUIT flags first.
Quit ==
  /\ is_game_end' = TRUE
  /\ IF on_focus THEN Goto("view", "close") /\ UNCHANGED net ELSE Goto("view", "top") /\ CloseSockets
  /\ UNCHANGED <<chat, adding>>

perform_action == Control(NoKey \/ Edit \/ StartChat \/ Quit)

CHAT_SEND ==
  /\ pc["view"] = "control" /\ view_mutex = "none"
  /\ on_focus /\ cursor > 0
  /\ StartAdding("view", create_chat_node("me", cursor))
  /\ UNCHANGED <<lineVars, net, is_game_end, view_mutex>>

\* The message in the history is then sent, which on a connection that the
\* server has reset raises SIGPIPE and ends the client.
SIGPIPE ==
  /\ pc["view"] = "adding" /\ tcp /\ serverClosed
  /\ pc' = [t \in Thread |-> "done"]
  /\ UNCHANGED <<chat, net, is_game_end, adding, view_mutex, raced>>

ViewCloses ==
  /\ pc["view"] = "close"
  /\ CloseSockets
  /\ Goto("view", "top")
  /\ UNCHANGED <<chat, is_game_end, adding, view_mutex, raced>>

-----------------------------------------------------------------------------

Painter(t) == Look(t) \/ Flag(t) \/ StartPainting(t) \/ StopPainting(t)

BoardThread == Top("board") \/ Painter("board") \/ BoardRecv \/ BoardWakes
ChatThread ==
  Top("chat") \/ Painter("chat") \/ Add("chat") \/ ChatRecv \/ ChatReceives \/ ChatEnds
ViewThread == Top("view") \/ perform_action \/ CHAT_SEND \/ Add("view") \/ SIGPIPE \/ ViewCloses

Next ==
  \/ BoardThread \/ BoardReceives \/ ChatThread \/ ViewThread
  \/ ServerSends \/ ServerCloses

Spec == Init /\ [][Next]_vars

\* The threads run, and no thread waits for ever for a mutex others give back.
\* Nobody owes the client a datagram, a message or the end of the connection.
FairSpec ==
  Spec /\ \A t \in {"board", "chat"} : SF_vars(StartPainting(t))
       /\ WF_vars(BoardThread) /\ WF_vars(ChatThread) /\ SF_vars(ViewThread)

-----------------------------------------------------------------------------
(* Properties. *)

\* The history holds the newest messages in order, its list closed and no node
\* lost, for as long as no change of it ran into another or into the painting,
\* which no mutex prevents.
HistoryIsRecent == ~raced => HoldsTheNewest

Done(t) == pc[t] = "done"

\* When the server closes the connection the client ends, whichever thread
\* notices, wherever the others wait, and whatever is made of the end of the file.
EndsWithServer == serverClosed ~> \A t \in Thread : Done(t)

\* A client that is told to quit, or that the game is over, ends, except that
\* the chat thread may still wait on a connection where nothing comes: its
\* descriptor was closed, and that does not wake it.
Waits == pc["chat"] = "blocked" /\ incoming = <<>> /\ ~serverClosed
QuitEnds == is_game_end ~> Done("board") /\ Done("view") /\ (Done("chat") \/ Waits)
=============================================================================
