----------------------------- MODULE ChatModel -----------------------------
(***************************************************************************)
(* The client's chat (src/src/chat_model.c): the line being typed and the  *)
(* history, a circular list of at most MAX_CHAT_HISTORY_LEN nodes whose    *)
(* oldest makes room for the newest.                                       *)
(*                                                                         *)
(* A text is known by its length, and whispered like any other.  A node    *)
(* keeps one character less than a line can hold, for the zero at its end. *)
(***************************************************************************)
EXTENDS Integers, Sequences, FiniteSets

CONSTANTS
  TEXT_SIZE,              \* characters of a line
  MAX_CHAT_HISTORY_LEN    \* nodes of the history

ASSUME ChatAssumption == TEXT_SIZE \in Nat \ {0, 1} /\ MAX_CHAT_HISTORY_LEN \in Nat \ {0, 1}

VARIABLES
  head, next, node, count,   \* the history
  cursor, on_focus,
  newest                     \* what the history should hold

history == <<head, next, node, count, newest>>
lineVars == <<cursor, on_focus>>
chat == <<history, lineVars>>

NoNode == 0
Nodes == 1..MAX_CHAT_HISTORY_LEN + 1   \* the new one is made before the oldest is freed

create_chat ==
  /\ head = NoNode /\ next = <<>> /\ node = <<>> /\ count = 0 /\ newest = <<>>
  /\ cursor = 0 /\ on_focus = FALSE

-----------------------------------------------------------------------------
(* The line. *)

add_to_line ==
  /\ cursor' = IF cursor < TEXT_SIZE THEN cursor + 1 ELSE cursor
  /\ UNCHANGED <<history, on_focus>>

decrement_line ==
  /\ cursor' = IF cursor > 0 THEN cursor - 1 ELSE cursor
  /\ UNCHANGED <<history, on_focus>>

clear_line == cursor' = 0 /\ UNCHANGED <<history, on_focus>>

set_chat_focus(focus) == on_focus' = focus /\ UNCHANGED <<history, cursor>>

-----------------------------------------------------------------------------
(* The history. *)

create_chat_node(sender, length) ==
  [sender |-> sender,
   length |-> IF length < TEXT_SIZE THEN length ELSE TEXT_SIZE - 1]

\* The node found by following the list until it comes back to the head.
Last == CHOOSE n \in DOMAIN next : next[n] = head

Without(f, n) == [x \in DOMAIN f \ {n} |-> f[x]]
With(f, n, value) == [x \in DOMAIN f \cup {n} |-> IF x = n THEN value ELSE f[x]]

\* Plausible mistake: the head stays where it was.
AddToFullKeepingHead(new, entry) ==
  /\ head' = head
  /\ next' = With(With(next, Last, new), new, next[head])
  /\ node' = With(node, new, entry)
  /\ UNCHANGED count

\* The oldest node goes, the next one is the head, and the new one is the last.
AddToFull(new, entry) ==
  /\ head' = next[head]
  /\ next' = With(With(Without(next, head), Last, new), new, next[head])
  /\ node' = With(Without(node, head), new, entry)
  /\ UNCHANGED count

AddToRest(new, entry) ==
  /\ IF head = NoNode THEN head' = new /\ next' = With(next, new, new)
     ELSE head' = head /\ next' = With(With(next, Last, new), new, head)
  /\ node' = With(node, new, entry)
  /\ count' = count + 1

LastOf(entries) == IF Len(entries) > MAX_CHAT_HISTORY_LEN THEN Tail(entries) ELSE entries

\* add_message_from_server and add_message_from_client; an empty text is refused.
add_message(entry) ==
  IF entry.length = 0 THEN UNCHANGED history
  ELSE /\ LET new == CHOOSE n \in Nodes : n \notin DOMAIN next
          IN  IF count = MAX_CHAT_HISTORY_LEN THEN AddToFull(new, entry) ELSE AddToRest(new, entry)
       /\ newest' = LastOf(Append(newest, entry))

-----------------------------------------------------------------------------

\* The node found in i steps from the head, and what the list holds in order.
At[i \in 1..count + 1] == IF i = 1 THEN head ELSE next[At[i - 1]]
Shown == [i \in 1..count |-> node[At[i]]]

\* The list comes back to its head after count nodes, and holds the newest
\* messages, in the order they were added.
HoldsTheNewest ==
  /\ count = Len(newest)
  /\ Cardinality(DOMAIN next) = count /\ DOMAIN node = DOMAIN next
  /\ count > 0 => At[count + 1] = head
  /\ Shown = newest
=============================================================================
