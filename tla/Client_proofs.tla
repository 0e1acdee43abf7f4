---------------------------- MODULE Client_proofs ----------------------------
(***************************************************************************)
(* Proofs about what a client keeps, for a history of any length and a     *)
(* line of any size: as long as no two threads are in the history at once, *)
(* it holds the newest messages in their order.  And about what a client   *)
(* sends, for any limits, any number of players and messages: its moves    *)
(* reach the board in their order, and a fresh one makes it advance.       *)
(*                                                                         *)
(* The argument for the history.  The nodes of the list are those of a     *)
(* sequence without repetition (Chain), in the order of the messages.      *)
(* Adding to a list that has room makes the sequence longer; adding to a   *)
(* full one drops its first node.  What is found by following the links    *)
(* from the head is that sequence, by induction on the number of links.    *)
(*                                                                         *)
(* The argument for the actions.  No message in the pool or in a round is  *)
(* more than Delay behind the newest move passed (NotTooLate).  The number *)
(* of such a message, if it is old, falls in the part of the circle that   *)
(* the window leaves out (OldIsNotNext); if it is fresh it falls in the    *)
(* window (FreshIsNext).  The last number is that of the newest move, or   *)
(* of the one just chosen (LastKnown), so what is chosen is newer than all *)
(* that was passed (Chosen).  The sort only exchanges messages, so each of *)
(* the round is examined, and when it has been either its player has a     *)
(* move or it was not fresh (Examined).                                    *)
(***************************************************************************)
EXTENDS Client, ActionIntake, FiniteSetTheorems, SequenceTheorems, TLAPS

Sender == {"me", "other", "nobody"}
Entry == [sender : Sender, length : Nat]

\* The nodes in their order: each is followed by the next, the last by the first.
Chain(s) ==
  /\ s \in [1..count -> Nodes]
  /\ \A i, j \in 1..count : s[i] = s[j] => i = j
  /\ DOMAIN next = {s[i] : i \in 1..count} /\ DOMAIN node = DOMAIN next
  /\ head = IF count = 0 THEN NoNode ELSE s[1]
  /\ \A i \in 1..count :
        /\ next[s[i]] = IF i = count THEN s[1] ELSE s[i + 1]
        /\ node[s[i]] = newest[i]

HistoryInv ==
  /\ count \in 0..MAX_CHAT_HISTORY_LEN
  /\ newest \in Seq(Entry) /\ Len(newest) = count
  /\ \E s : Chain(s)

ClientInv ==
  /\ HistoryInv
  /\ cursor \in Nat
  /\ adding \in [{"chat", "view"} -> Entry]

-----------------------------------------------------------------------------
(* Induction, and what following the links finds. *)

\* A set that has 1 and, with each number up to n, the next one has them all:
\* else the numbers below the first that is missing could be counted one less.
LEMMA StepByStep ==
  ASSUME NEW S, NEW n \in Nat, 1 \in S, \A i \in 1..n : i \in S => i + 1 \in S
  PROVE  1..n + 1 \subseteq S
<1> SUFFICES ASSUME NEW m \in 1..n + 1, m \notin S PROVE FALSE
  OBVIOUS
<1> DEFINE A == S \cap (1..m)
           f == [i \in A |-> i + 1]
<1>1. IsFiniteSet(A)
  <2>1. IsFiniteSet(1..m) /\ A \in SUBSET (1..m)
    BY FS_Interval
  <2> HIDE DEF A
  <2> QED  BY <2>1, FS_Subset
<1>2. 1 \in A
  OBVIOUS
<1>3. \A i \in A : i + 1 \in A \ {1}
  OBVIOUS
<1>4. \A i, j \in A : i + 1 = j + 1 => i = j
  OBVIOUS
<1>5. f \in Injection(A, A \ {1})
  <2> HIDE DEF A
  <2>1. f \in [A -> A \ {1}]
    BY <1>3
  <2>2. \A i, j \in A : f[i] = f[j] => i = j
    BY <1>4
  <2> QED  BY <2>1, <2>2 DEF Injection, IsInjective
<1> HIDE DEF A, f
<1>6. IsFiniteSet(A \ {1}) /\ Cardinality(A \ {1}) = Cardinality(A) - 1
  BY <1>1, <1>2, FS_RemoveElement
<1>7. Cardinality(A) <= Cardinality(A \ {1})
  BY <1>5, <1>6, FS_Injection
<1>8. Cardinality(A) \in Nat
  BY <1>1, FS_CardinalityType
<1> QED  BY <1>6, <1>7, <1>8

LEMMA AtIsDefined ==
  ASSUME NEW s, Chain(s), count \in Nat
  PROVE  /\ At[1] = head
         /\ \A i \in 1..count : At[i + 1] = next[At[i]]
<1> DEFINE F(f) == [i \in 1..count + 1 |-> IF i = 1 THEN head ELSE next[f[i - 1]]]
           g == [i \in 1..count + 1 |->
                   IF i = 1 THEN head ELSE IF i = count + 1 THEN s[1] ELSE s[i]]
<1>1. g = F(g)
  <2>1. ASSUME NEW i \in 1..count + 1, i # 1 PROVE g[i] = next[g[i - 1]]
    <3>1. i - 1 \in 1..count /\ i - 1 # count + 1 /\ g[i - 1] = s[i - 1]
      BY <2>1 DEF Chain
    <3> QED  BY <2>1, <3>1 DEF Chain
  <2> QED  BY <2>1
<1>2. At = CHOOSE f : f = F(f)
  BY DEF At
<1>3. At = F(At)
  <2> HIDE DEF F, g
  <2> QED  BY <1>1, <1>2
<1> QED  BY <1>3

\* Following the links finds the chain, and comes back to the head after it.
LEMMA AtFollowsTheChain ==
  ASSUME NEW s, Chain(s), count \in Nat
  PROVE  /\ \A i \in 1..count : At[i] = s[i]
         /\ At[count + 1] = head
<1>1. CASE count = 0
  BY <1>1, AtIsDefined
<1>2. CASE count # 0
  <2> DEFINE S == {i \in 1..count + 1 : At[i] = IF i = count + 1 THEN s[1] ELSE s[i]}
  <2>1. 1 \in S
    BY <1>2, AtIsDefined DEF Chain
  <2>2. ASSUME NEW i \in 1..count, i \in S PROVE i + 1 \in S
    <3>1. At[i] = s[i] /\ At[i + 1] = next[At[i]]
      BY <2>2, AtIsDefined
    <3> QED  BY <3>1 DEF Chain
  <2>3. 1..count + 1 \subseteq S
    <3> HIDE DEF S
    <3> QED  BY <2>1, <2>2, StepByStep
  <2>4. head = s[1]
    BY <1>2 DEF Chain
  <2> QED  BY <2>3, <2>4
<1> QED  BY <1>1, <1>2

LEMMA ChainHoldsTheNewest ==
  ASSUME HistoryInv
  PROVE  HoldsTheNewest
<1>1. PICK s : Chain(s)
  BY DEF HistoryInv
<1>2. count \in Nat /\ count = Len(newest)
  BY DEF HistoryInv
<1>3. (\A i \in 1..count : At[i] = s[i]) /\ At[count + 1] = head
  BY <1>1, <1>2, AtFollowsTheChain
<1>4. Cardinality(DOMAIN next) = count /\ DOMAIN node = DOMAIN next
  <2>1. s \in Bijection(1..count, DOMAIN next)
    BY <1>1 DEF Chain, Bijection, Injection, Surjection, IsInjective
  <2> QED  BY <1>1, <1>2, <2>1, FS_CountingElements DEF Chain, ExistsBijection
<1>5. Shown = newest
  <2>1. newest = [i \in 1..count |-> newest[i]]
    BY <1>2 DEF HistoryInv
  <2>2. \A i \in 1..count : node[At[i]] = newest[i]
    BY <1>1, <1>3 DEF Chain
  <2> QED  BY <2>1, <2>2 DEF Shown
<1> QED  BY <1>2, <1>3, <1>4, <1>5 DEF HoldsTheNewest

-----------------------------------------------------------------------------
(* The history after each operation. *)

\* There is a node for the new message, and following the links finds the last one.
LEMMA NodesAtHand ==
  ASSUME HistoryInv, NEW s, Chain(s)
  PROVE  /\ \E n \in Nodes : n \notin DOMAIN next
         /\ NoNode \notin DOMAIN next
         /\ count # 0 => Last = s[count] /\ Last \in DOMAIN next
<1>1. count \in Nat /\ count <= MAX_CHAT_HISTORY_LEN
  BY ChatAssumption DEF HistoryInv
<1>2. Cardinality(DOMAIN next) = count
  BY ChainHoldsTheNewest DEF HoldsTheNewest
<1>3. Cardinality(Nodes) = MAX_CHAT_HISTORY_LEN + 1
  BY ChatAssumption, FS_Interval DEF Nodes
<1>4. DOMAIN next \subseteq Nodes /\ Nodes # DOMAIN next
  <2>1. DOMAIN next \subseteq Nodes
    BY DEF Chain
  <2> QED  BY <1>1, <1>2, <1>3, <2>1, ChatAssumption
<1>5. NoNode \notin Nodes
  BY ChatAssumption DEF NoNode, Nodes
<1>6. ASSUME count # 0 PROVE Last = s[count] /\ Last \in DOMAIN next
  <2>1. count \in 1..count /\ s[count] \in DOMAIN next /\ next[s[count]] = head
    BY <1>1, <1>6 DEF Chain
  <2>2. ASSUME NEW n \in DOMAIN next, next[n] = head PROVE n = s[count]
    <3>1. PICK i \in 1..count : n = s[i]
      BY DEF Chain
    <3>2. CASE i # count
      <4>1. s[i + 1] = s[1] /\ i + 1 \in 1..count /\ 1 \in 1..count
        BY <1>1, <1>6, <2>2, <3>1, <3>2 DEF Chain
      <4> QED  BY <1>1, <4>1 DEF Chain
    <3> QED  BY <3>1, <3>2
  <2> QED  BY <2>1, <2>2 DEF Last
<1> QED  BY <1>4, <1>5, <1>6

LEMMA AppendKeeps ==
  ASSUME NEW q \in Seq(Entry), NEW e \in Entry
  PROVE  /\ Append(q, e) \in Seq(Entry) /\ Len(Append(q, e)) = Len(q) + 1
         /\ \A i \in 1..Len(q) + 1 : Append(q, e)[i] = IF i = Len(q) + 1 THEN e ELSE q[i]
         /\ Tail(Append(q, e)) \in Seq(Entry) /\ Len(Tail(Append(q, e))) = Len(q)
         /\ \A i \in 1..Len(q) : Tail(Append(q, e))[i] = IF i = Len(q) THEN e ELSE q[i + 1]
<1>1. /\ Append(q, e) \in Seq(Entry) /\ Len(Append(q, e)) = Len(q) + 1
      /\ \A i \in 1..Len(q) + 1 : Append(q, e)[i] = IF i = Len(q) + 1 THEN e ELSE q[i]
  OBVIOUS
<1> DEFINE a == Append(q, e)
<1> HIDE DEF a
<1>2. a \in Seq(Entry) /\ a # << >>
  BY <1>1 DEF a
<1>3. /\ Tail(a) \in Seq(Entry) /\ Len(Tail(a)) = Len(a) - 1
      /\ \A i \in 1..Len(a) - 1 : Tail(a)[i] = a[i + 1]
  BY <1>2
<1>4. Len(q) \in Nat
  OBVIOUS
<1>5. \A i \in 1..Len(q) : Tail(a)[i] = IF i = Len(q) THEN e ELSE q[i + 1]
  BY <1>1, <1>3, <1>4 DEF a
<1> QED  BY <1>1, <1>3, <1>4, <1>5 DEF a

LEMMA AddToFullKeeps ==
  ASSUME HistoryInv, NEW e \in Entry, NEW new \in Nodes \ DOMAIN next,
         count = MAX_CHAT_HISTORY_LEN, AddToFull(new, e), newest' = LastOf(Append(newest, e))
  PROVE  HistoryInv'
<1>1. PICK s : Chain(s)
  BY DEF HistoryInv
<1>2. count \in Nat /\ count >= 2 /\ count' = count
  BY ChatAssumption DEF HistoryInv, AddToFull
<1>3. Last = s[count] /\ Last \in DOMAIN next /\ head = s[1] /\ head \in DOMAIN next
      /\ next[head] = s[2] /\ Last # head
  BY <1>1, <1>2, NodesAtHand DEF Chain
<1>4. /\ newest' \in Seq(Entry) /\ Len(newest') = count
      /\ \A i \in 1..count : newest'[i] = IF i = count THEN e ELSE newest[i + 1]
  <2>1. newest' = Tail(Append(newest, e))
    BY AppendKeeps, ChatAssumption DEF LastOf, HistoryInv
  <2> QED  BY <2>1, AppendKeeps DEF HistoryInv
<1>t. PICK t : t = [i \in 1..count |-> IF i = count THEN new ELSE s[i + 1]]
  OBVIOUS
<1>5. /\ DOMAIN next' = (DOMAIN next \ {head}) \cup {new}
      /\ DOMAIN node' = (DOMAIN node \ {head}) \cup {new}
      /\ next'[new] = next[head] /\ next'[Last] = new
      /\ \A n \in DOMAIN next \ {head, Last} : next'[n] = next[n]
      /\ node'[new] = e /\ \A n \in DOMAIN node \ {head} : node'[n] = node[n]
  BY <1>1, <1>3 DEF AddToFull, With, Without, Chain
<1>6. Chain(t)'
  <2>1. t \in [1..count -> Nodes] /\ (\A i, j \in 1..count : t[i] = t[j] => i = j)
    <3>1. /\ s \in [1..count -> Nodes] /\ \A i, j \in 1..count : s[i] = s[j] => i = j
          /\ \A i \in 1..count : s[i] \in DOMAIN next
      BY <1>1 DEF Chain
    <3>2. t \in [1..count -> Nodes]
      BY <1>t, <1>2, <3>1
    <3>3. ASSUME NEW i \in 1..count, NEW j \in 1..count, t[i] = t[j], i # count, j # count
          PROVE  i = j
      <4>1. /\ t[i] = s[i + 1] /\ t[j] = s[j + 1]
            /\ i + 1 \in 1..count /\ j + 1 \in 1..count
        BY <1>t, <1>2, <3>3
      <4>2. i + 1 = j + 1
        BY <3>1, <3>3, <4>1
      <4> QED  BY <1>2, <4>2
    <3>4. \A i \in 1..count : i # count => t[i] # new
      BY <1>t, <1>2, <3>1
    <3>5. t[count] = new
      BY <1>t, <1>2
    <3> QED  BY <3>2, <3>3, <3>4, <3>5
  <2>2. {t[i] : i \in 1..count} = ({s[i] : i \in 1..count} \ {s[1]}) \cup {new}
    <3>1. ASSUME NEW i \in 1..count PROVE t[i] \in ({s[j] : j \in 1..count} \ {s[1]}) \cup {new}
      BY <1>t, <1>1, <1>2 DEF Chain
    <3>2. ASSUME NEW j \in 1..count, j # 1 PROVE \E i \in 1..count : t[i] = s[j]
      <4>1. j - 1 \in 1..count /\ j - 1 # count /\ t[j - 1] = s[j]
        BY <1>t, <1>2, <3>2
      <4> QED  BY <4>1
    <3>3. t[count] = new /\ count \in 1..count
      BY <1>t, <1>2
    <3> QED  BY <3>1, <3>2, <3>3
  <2>3. DOMAIN next' = {t[i] : i \in 1..count} /\ DOMAIN node' = DOMAIN next'
    BY <1>1, <1>3, <1>5, <2>2 DEF Chain
  <2>4. head' = t[1]
    BY <1>t, <1>2, <1>3 DEF AddToFull
  <2>5. ASSUME NEW i \in 1..count
        PROVE  /\ next'[t[i]] = IF i = count THEN t[1] ELSE t[i + 1]
               /\ node'[t[i]] = newest'[i]
    <3>1. CASE i = count
      BY <1>t, <1>2, <1>3, <1>4, <1>5, <3>1
    <3>2. CASE i # count
      <4>1. /\ t[i] = s[i + 1] /\ i + 1 \in 1..count /\ i + 1 # 1
            /\ t[i] \in DOMAIN next \ {head} /\ t[i] \in DOMAIN node
            /\ node[t[i]] = newest[i + 1]
            /\ i + 1 # count => next[t[i]] = s[i + 2] /\ t[i] # Last
        BY <1>t, <1>1, <1>2, <1>3, <3>2 DEF Chain
      <4>2. node'[t[i]] = newest'[i]
        BY <1>4, <1>5, <3>2, <4>1
      <4>3. CASE i + 1 = count
        <5>1. t[i] = Last /\ t[i + 1] = new
          BY <1>t, <1>3, <4>1, <4>3
        <5> QED  BY <1>5, <3>2, <4>2, <5>1
      <4>4. CASE i + 1 # count
        <5>1. i + 1 \in 1..count /\ t[i + 1] = s[i + 2]
          BY <1>t, <1>2, <4>1, <4>4
        <5> QED  BY <1>5, <3>2, <4>1, <4>2, <4>4, <5>1
      <4> QED  BY <4>3, <4>4
    <3> QED  BY <3>1, <3>2
  <2> QED  BY <1>2, <2>1, <2>3, <2>4, <2>5 DEF Chain
<1>7. \E s1 : Chain(s1)'
  <2> QED  BY <1>6
<1> QED  BY <1>2, <1>4, <1>7 DEF HistoryInv

LEMMA AddToRestKeeps ==
  ASSUME HistoryInv, NEW e \in Entry, NEW new \in Nodes \ DOMAIN next,
         count # MAX_CHAT_HISTORY_LEN, AddToRest(new, e), newest' = LastOf(Append(newest, e))
  PROVE  HistoryInv'
<1>1. PICK s : Chain(s)
  BY DEF HistoryInv
<1>2. count \in Nat /\ count' = count + 1 /\ count' \in 1..MAX_CHAT_HISTORY_LEN
  BY ChatAssumption DEF HistoryInv, AddToRest
<1>3. /\ newest' \in Seq(Entry) /\ Len(newest') = count'
      /\ \A i \in 1..count' : newest'[i] = IF i = count' THEN e ELSE newest[i]
  <2>1. newest' = Append(newest, e)
    <3>1. Len(Append(newest, e)) = count' /\ ~(count' > MAX_CHAT_HISTORY_LEN)
      BY <1>2, AppendKeeps, ChatAssumption DEF HistoryInv
    <3> QED  BY <3>1 DEF LastOf
  <2> QED  BY <1>2, <2>1, AppendKeeps DEF HistoryInv
<1>4. PICK t : t = [i \in 1..count' |-> IF i = count' THEN new ELSE s[i]]
  OBVIOUS
<1>5. t \in [1..count' -> Nodes] /\ (\A i, j \in 1..count' : t[i] = t[j] => i = j)
  BY <1>1, <1>2, <1>4 DEF Chain
<1>6. {t[i] : i \in 1..count'} = {s[i] : i \in 1..count} \cup {new}
  <2>1. ASSUME NEW i \in 1..count' PROVE t[i] \in {s[j] : j \in 1..count} \cup {new}
    BY <1>2, <1>4
  <2>2. ASSUME NEW j \in 1..count PROVE j \in 1..count' /\ t[j] = s[j]
    BY <1>2, <1>4
  <2>3. count' \in 1..count' /\ t[count'] = new
    BY <1>2, <1>4
  <2> QED  BY <2>1, <2>2, <2>3
<1>7. node' = With(node, new, e)
  BY DEF AddToRest
<1>8. ASSUME NEW i \in 1..count' PROVE node'[t[i]] = newest'[i]
  <2>1. CASE i = count'
    BY <1>2, <1>3, <1>4, <1>7, <2>1 DEF With
  <2>2. CASE i # count'
    <3>1. /\ i \in 1..count /\ t[i] = s[i] /\ newest'[i] = newest[i]
          /\ s[i] \in DOMAIN node /\ s[i] # new /\ node[s[i]] = newest[i]
      BY <1>1, <1>2, <1>3, <1>4, <2>2 DEF Chain
    <3> QED  BY <1>7, <3>1 DEF With
  <2> QED  BY <2>1, <2>2
<1>9. CASE count = 0
  <2>1. head' = new /\ next' = With(next, new, new)
    BY <1>1, <1>9 DEF AddToRest, Chain
  <2>2. DOMAIN next' = {new} /\ DOMAIN node' = {new} /\ next'[new] = new
    BY <1>1, <1>7, <1>9, <2>1 DEF Chain, With
  <2>3. Chain(t)'
    <3>1. count' = 1 /\ t[1] = new
      BY <1>2, <1>4, <1>9
    <3>2. {t[i] : i \in 1..count'} = {new}
      BY <3>1
    <3> QED  BY <1>5, <1>8, <2>1, <2>2, <3>1, <3>2 DEF Chain
  <2> QED  BY <1>2, <1>3, <2>3 DEF HistoryInv
<1>10. CASE count # 0
  <2>1. Last = s[count] /\ head = s[1] /\ head # NoNode
    BY <1>1, <1>2, <1>10, NodesAtHand DEF Chain
  <2>2. head' = head /\ next' = With(With(next, Last, new), new, head)
    BY <2>1 DEF AddToRest
  <2>3. DOMAIN next' = DOMAIN next \cup {new} /\ DOMAIN node' = DOMAIN node \cup {new}
    BY <1>1, <1>7, <1>10, <2>1, <2>2, NodesAtHand DEF With
  <2>4. \A i \in 1..count' : next'[t[i]] = IF i = count' THEN t[1] ELSE t[i + 1]
    <3>1. ASSUME NEW i \in 1..count' PROVE next'[t[i]] = IF i = count' THEN t[1] ELSE t[i + 1]
      <4>1. CASE i = count'
        BY <1>2, <1>4, <1>10, <2>1, <2>2, <4>1 DEF With
      <4>2. CASE i = count
        <5>1. t[i] = Last /\ Last # new /\ Last \in DOMAIN next /\ t[i + 1] = new /\ i # count'
          BY <1>1, <1>2, <1>4, <1>10, <2>1, <4>2, NodesAtHand
        <5> QED  BY <2>2, <5>1 DEF With
      <4>3. CASE i # count' /\ i # count
        <5>1. i \in 1..count /\ t[i] = s[i] /\ t[i + 1] = s[i + 1] /\ s[i] \in DOMAIN next
              /\ s[i] # new /\ s[i] # Last /\ next[s[i]] = s[i + 1]
          <6>1. /\ i \in 1..count /\ i + 1 \in 1..count' /\ i + 1 # count'
                /\ count \in 1..count
            BY <1>2, <1>10, <4>3
          <6>2. t[i] = s[i] /\ t[i + 1] = s[i + 1]
            BY <1>4, <4>3, <6>1
          <6> QED  BY <1>1, <2>1, <4>3, <6>1, <6>2 DEF Chain
        <5> QED  BY <2>2, <4>3, <5>1 DEF With
      <4> QED  BY <4>1, <4>2, <4>3
    <3> QED  BY <3>1
  <2>5. head' = IF count' = 0 THEN NoNode ELSE t[1]
    BY <1>2, <1>4, <1>10, <2>1, <2>2
  <2>6. Chain(t)'
    BY <1>1, <1>5, <1>6, <1>8, <2>3, <2>4, <2>5 DEF Chain
  <2> QED  BY <1>2, <1>3, <2>6 DEF HistoryInv
<1> QED  BY <1>9, <1>10

LEMMA AddKeeps ==
  ASSUME HistoryInv, NEW e \in Entry, add_message(e)
  PROVE  HistoryInv'
<1>1. CASE e.length = 0
  BY <1>1 DEF add_message, history, HistoryInv, Chain
<1>2. CASE e.length # 0
  <2> DEFINE new == CHOOSE n \in Nodes : n \notin DOMAIN next
  <2>1. /\ IF count = MAX_CHAT_HISTORY_LEN THEN AddToFull(new, e) ELSE AddToRest(new, e)
        /\ newest' = LastOf(Append(newest, e))
    BY <1>2 DEF add_message
  <2>2. new \in Nodes \ DOMAIN next
    BY NodesAtHand DEF HistoryInv
  <2> HIDE DEF new
  <2> QED  BY <2>1, <2>2, AddToFullKeeps, AddToRestKeeps
<1> QED  BY <1>1, <1>2

-----------------------------------------------------------------------------
(* The client. *)

Emptied == head = NoNode /\ next = <<>> /\ node = <<>> /\ count = 0 /\ newest = <<>>

LEMMA EmptyIsRight == Emptied => HistoryInv
<1> SUFFICES ASSUME Emptied PROVE HistoryInv
  OBVIOUS
<1>1. DOMAIN next = {} /\ DOMAIN node = {} /\ newest \in Seq(Entry) /\ Len(newest) = 0
  BY DEF Emptied
<1>2. Chain([i \in 1..0 |-> 1])
  BY <1>1 DEF Emptied, Chain
<1> QED  BY <1>1, <1>2, ChatAssumption DEF HistoryInv, Emptied

\* Every step leaves the history alone, or adds the message of a thread to it,
\* or gives up on it because two threads are in it.
LEMMA HistoryStep ==
  ASSUME Next
  PROVE  \/ UNCHANGED history
         \/ Emptied'
         \/ \E t \in {"chat", "view"} : add_message(adding[t])
<1> USE DEF chat, Race, Emptied
<1>1. CASE BoardThread \/ BoardReceives \/ ServerSends \/ ServerCloses
  BY <1>1 DEF BoardThread, BoardReceives, ServerSends, ServerCloses, Top, Painter, Look, Flag,
     StartPainting, StopPainting, BoardRecv, BoardWakes
<1>2. CASE ChatThread
  BY <1>2 DEF ChatThread, Top, Painter, Look, Flag, StartPainting, StopPainting, Add, ChatRecv,
     ChatReceives, ChatEnds, MadeUp, StartAdding
<1>3. CASE ViewThread
  BY <1>3 DEF ViewThread, Top, Add, perform_action, Control, NoKey, Edit, StartChat, Quit,
     add_to_line, decrement_line, clear_line, set_chat_focus, CHAT_SEND, SIGPIPE, ViewCloses, StartAdding
<1> QED  BY <1>1, <1>2, <1>3 DEF Next

LEMMA NodeType ==
  /\ FromServer \in Entry /\ NoMessage \in Entry
  /\ \A n \in Nat : create_chat_node("me", n) \in Entry
<1>1. ASSUME NEW who \in Sender, NEW n \in Nat PROVE create_chat_node(who, n) \in Entry
  <2>1. (IF n < TEXT_SIZE THEN n ELSE TEXT_SIZE - 1) \in Nat
    BY ChatAssumption
  <2> QED  BY <2>1 DEF create_chat_node, Entry
<1>2. "other" \in Sender /\ "nobody" \in Sender /\ "me" \in Sender /\ 0 \in Nat /\ 1 \in Nat
  BY DEF Sender
<1> QED  BY <1>1, <1>2 DEF FromServer, NoMessage

\* What is typed and what is to be added keep their types.
LEMMA LineStep ==
  ASSUME ClientInv, Next
  PROVE  cursor' \in Nat /\ adding' \in [{"chat", "view"} -> Entry]
<1>1. FromServer \in Entry /\ NoMessage \in Entry /\ \A n \in Nat : create_chat_node("me", n) \in Entry
  BY NodeType DEF FromServer, NoMessage
<1>2. cursor \in Nat /\ adding \in [{"chat", "view"} -> Entry]
  BY DEF ClientInv
<1>3. cursor' \in Nat
  <2>1. cursor' \in {cursor, 0, cursor + 1} \/ (cursor > 0 /\ cursor' = cursor - 1)
    BY DEF Next, BoardThread, BoardReceives, ServerSends, ServerCloses, Top, Painter, Look, Flag,
     StartPainting, StopPainting, BoardRecv, BoardWakes, ChatThread, Add, ChatRecv,
     ChatReceives, ChatEnds, ViewThread, perform_action, Control, NoKey, Edit, StartChat, Quit,
     add_to_line, decrement_line, clear_line, set_chat_focus, CHAT_SEND, SIGPIPE, ViewCloses, StartAdding,
     chat, lineVars
  <2> QED  BY <1>2, <2>1
<1>4. \/ adding' = adding
      \/ \E t \in {"chat", "view"}, e \in Entry : adding' = [adding EXCEPT ![t] = e]
  <2>1. CASE BoardThread \/ BoardReceives \/ ServerSends \/ ServerCloses
    BY <2>1 DEF BoardThread, BoardReceives, ServerSends, ServerCloses, Top, Painter, Look, Flag,
       StartPainting, StopPainting, BoardRecv, BoardWakes
  <2>2. CASE ChatThread
    BY <2>2, <1>1 DEF ChatThread, Top, Painter, Look, Flag, StartPainting, StopPainting, Add, ChatRecv,
       ChatReceives, ChatEnds, MadeUp, StartAdding
  <2>3. CASE ViewThread
    BY <2>3, <1>1, <1>2 DEF ViewThread, Top, Add, perform_action, Control, NoKey, Edit, StartChat, Quit,
       add_to_line, decrement_line, clear_line, set_chat_focus, CHAT_SEND, SIGPIPE, ViewCloses, StartAdding
  <2> QED  BY <2>1, <2>2, <2>3 DEF Next
<1> QED  BY <1>2, <1>3, <1>4

THEOREM ClientInvariant == Spec => []ClientInv
<1>1. Init => ClientInv
  <2> SUFFICES ASSUME Init PROVE ClientInv
    OBVIOUS
  <2>1. HistoryInv
    BY EmptyIsRight DEF Init, create_chat, Emptied
  <2>2. cursor \in Nat /\ adding \in [{"chat", "view"} -> Entry]
    <3>1. NoMessage \in Entry
      BY NodeType DEF NoMessage
    <3> QED  BY <3>1 DEF Init, create_chat
  <2> QED  BY <2>1, <2>2 DEF ClientInv
<1>2. ClientInv /\ [Next]_vars => ClientInv'
  <2> SUFFICES ASSUME ClientInv, [Next]_vars PROVE ClientInv'
    OBVIOUS
  <2>1. ASSUME UNCHANGED history PROVE HistoryInv'
    <3>1. UNCHANGED <<head, next, node, count, newest>>
      BY <2>1 DEF history
    <3>2. PICK s : Chain(s)
      BY DEF ClientInv, HistoryInv
    <3>3. Chain(s)'
      BY <3>1, <3>2 DEF Chain
    <3>4. HistoryInv
      BY DEF ClientInv
    <3> HIDE DEF Chain
    <3> QED  BY <3>1, <3>3, <3>4 DEF HistoryInv
  <2>2. Emptied' => HistoryInv'
    BY EmptyIsRight, PTL
  <2>3. ASSUME NEW t \in {"chat", "view"}, add_message(adding[t]) PROVE HistoryInv'
    BY <2>3, AddKeeps DEF ClientInv
  <2>4. CASE Next
    BY <2>1, <2>2, <2>3, <2>4, HistoryStep, LineStep DEF ClientInv
  <2>5. CASE UNCHANGED vars
    <3>1. UNCHANGED history /\ UNCHANGED <<cursor, adding>>
      BY <2>5 DEF vars, chat, lineVars
    <3> QED  BY <2>1, <3>1 DEF ClientInv
  <2> QED  BY <2>4, <2>5
<1> QED  BY <1>1, <1>2, PTL DEF Spec

\* The history holds the newest messages in order, and no node is lost, until
\* two threads are in it at once (chat_model.c:131-216, controller.c:427-440).
THEOREM NewestInOrder == Spec => []HistoryIsRecent
<1>1. ClientInv => HistoryIsRecent
  BY ChainHoldsTheNewest DEF ClientInv, HistoryIsRecent
<1> QED  BY <1>1, ClientInvariant, PTL

\* A message on its way, in the pool or in the round was sent; those of a player
\* who places no bomb are moves.
AllSent ==
  \A m \in network \cup Range(pool) \cup due :
     /\ m.serial < sent[m.id]
     /\ m.id \notin BombSenders => m.action = "MOVE"
PassedSent == \A p \in Player : passed[p] < sent[p]

\* Nothing waits that is more than Delay behind what may be passed before it.
NotTooLate ==
  /\ \A m \in network : sent[m.id] <= m.serial + Delay + 1
  /\ \A m \in Range(pool) \cup due : passed[m.id] <= m.serial + Delay
  /\ \A m \in Range(pool) : \A n \in due : n.id = m.id => n.serial <= m.serial + Delay

\* The number of the newest move passed.
LastNumber(p) == IF passed[p] = -1 THEN ServerLimit - 1 ELSE passed[p] % ClientLimit

\* For a player who places no bomb the last number is that of the move chosen in
\* the round, else of the newest one passed.
LastKnown ==
  \A p \in Player \ BombSenders :
     ~(round = "select" /\ Has(out.moves, p)) => last[p] = LastNumber(p)

Chosen ==
  round = "select" =>
    /\ \A m \in Range(out.moves) :
         /\ m \in due /\ m.action = "MOVE"
         /\ m.id \notin BombSenders => m.serial > passed[m.id] /\ last[m.id] = message_number(m)
    /\ \A m \in Range(out.bombs) : m \in due /\ m.action = "PLACE_BOMB"

\* What FreshRequestTaken asks, for the messages already examined.
Answered(m) ==
  /\ m.id \notin BombSenders /\ Fresh(m) => Has(out.moves, m.id)
  /\ m.action = "PLACE_BOMB" /\ OnlyBombs => Has(out.bombs, m.id) \/ ~IsNext(m)
Examined == round = "select" => \A i \in left + 1..Len(taken) : Answered(taken[i])

RoundInv ==
  /\ round # "idle" => Range(taken) = due
  /\ round # "select" => todo = <<>> /\ left = 0
  /\ round = "copied" => out = Nothing
  /\ todo # <<>> => left = Len(taken)

IntakeInv ==
  /\ TypeOK /\ RoundInv
  /\ AllSent /\ PassedSent /\ NotTooLate
  /\ LastKnown /\ Chosen /\ Examined

-----------------------------------------------------------------------------
(* The window of is_next_message. *)

\* The numbers on the wire, some messages later.
LEMMA NumberLater ==
  ASSUME NEW n \in Nat, NEW d \in 0..ClientLimit
  PROVE  LET l == n % ClientLimit
         IN  /\ l \in 0..ClientLimit - 1
             /\ (n + d) % ClientLimit = IF l + d < ClientLimit THEN l + d ELSE l + d - ClientLimit
<1> DEFINE C == ClientLimit
           q == n \div C
           l == n % C
           r == (n + d) % C
           e == (n + d) \div C
<1>0. C \in Nat \ {0}
  BY LimitAssumption
<1>1. q \in Int /\ l \in 0..C - 1 /\ n = C * q + l
  BY <1>0
<1>2. e \in Int /\ r \in 0..C - 1 /\ n + d = C * e + r
  BY <1>0
<1>d. d \in 0..C
  OBVIOUS
<1> HIDE DEF q, l, r, e, C
<1>3. C * (e - q) = l + d - r
  <2>1. C * (e - q) = C * e - C * q
    BY <1>0, <1>1, <1>2
  <2> QED  BY <2>1, <1>0, <1>1, <1>2, <1>d
<1>4. PICK k \in Int : k = e - q
  BY <1>1, <1>2
<1>5. C * k = l + d - r
  BY <1>3, <1>4
<1>6. k = 0 \/ k = 1
  <2>1. l + d - r > -C /\ l + d - r < 2 * C
    BY <1>0, <1>1, <1>2, <1>d
  <2>2. k >= 2 => C * k >= 2 * C
    BY <1>0
  <2>3. k <= -1 => C * k <= -C
    BY <1>0
  <2> QED  BY <2>1, <2>2, <2>3, <1>0, <1>1, <1>2, <1>5, <1>d
<1>7. r = l + d \/ r = l + d - C
  BY <1>5, <1>6, <1>0, <1>1, <1>2, <1>d
<1>8. r = IF l + d < C THEN l + d ELSE l + d - C
  BY <1>7, <1>0, <1>1, <1>2, <1>d
<1> QED  BY <1>1, <1>8 DEF C, l, r

\* The modulus of a number that is less than twice the limit.
LEMMA Wrap ==
  ASSUME NEW a \in 0..2 * ServerLimit - 1
  PROVE  a % ServerLimit = IF a < ServerLimit THEN a ELSE a - ServerLimit
<1> DEFINE L == ServerLimit
           q == a \div L
           r == a % L
<1>0. L \in Nat \ {0} /\ a \in 0..2 * L - 1
  BY LimitAssumption
<1>1. q \in Int /\ r \in 0..L - 1 /\ a = L * q + r
  BY <1>0
<1> HIDE DEF q, r, L
<1>2. q >= 2 => L * q >= 2 * L
  BY <1>0, <1>1
<1>3. q <= -1 => L * q <= -L
  BY <1>0, <1>1
<1>4. q = 0 \/ q = 1
  BY <1>0, <1>1, <1>2, <1>3
<1>5. r = IF a < L THEN a ELSE a - L
  BY <1>0, <1>1, <1>4
<1> QED  BY <1>5 DEF r, L

\* The window, case by case.
LEMMA Window ==
  ASSUME NEW l \in 0..ServerLimit - 1, NEW x \in Nat, NEW h, h = ServerLimit \div 2
  PROVE  /\ h \in 1..ServerLimit - 1
         /\ is_next_message(l, x) <=>
              IF l = ServerLimit - 1 THEN x < h
              ELSE IF l + 1 + h < ServerLimit THEN l < x /\ x <= l + h
              ELSE x \in l + 1..ServerLimit - 1 \/ x <= l + 1 + h - ServerLimit
<1>0. ServerLimit \in Nat /\ ServerLimit >= 2
  BY LimitAssumption, DelayAssumption, NetworkAssumption
<1>1. h \in 1..ServerLimit - 1
  BY <1>0
<1>2. (l + 1) % ServerLimit = IF l + 1 < ServerLimit THEN l + 1 ELSE 0
  BY Wrap, <1>0
<1>3. (l + 1 + h) % ServerLimit = IF l + 1 + h < ServerLimit THEN l + 1 + h ELSE l + 1 + h - ServerLimit
  <2>1. PICK a \in 0..2 * ServerLimit - 1 : a = l + 1 + h
    BY <1>0, <1>1
  <2>2. a % ServerLimit = IF a < ServerLimit THEN a ELSE a - ServerLimit
    BY Wrap
  <2> QED  BY <2>1, <2>2, <1>0, <1>1
<1> DEFINE first == (l + 1) % ServerLimit
           limit == (l + 1 + h) % ServerLimit
<1>4. is_next_message(l, x) <=>
        IF first < limit THEN x \in first..limit - 1 ELSE x \in first..ServerLimit - 1 \/ x <= limit
  BY DEF is_next_message
<1>5. first = IF l + 1 < ServerLimit THEN l + 1 ELSE 0
  BY <1>2
<1>6. limit = IF l + 1 + h < ServerLimit THEN l + 1 + h ELSE l + 1 + h - ServerLimit
  BY <1>3
<1> HIDE DEF first, limit
<1> QED  BY <1>0, <1>1, <1>4, <1>5, <1>6

\* Only numbers the server knows are next.
LEMMA NextIsKnown ==
  ASSUME NEW l \in 0..ServerLimit - 1, NEW x \in Nat, is_next_message(l, x)
  PROVE  x \in 0..ServerLimit - 1
<1>1. PICK h : h = ServerLimit \div 2
  OBVIOUS
<1> QED  BY <1>1, Window, LimitAssumption

\* An old message is known to be old: of two serials, the earlier behind by at
\* most Delay, the number of the earlier is not next after that of the later,
\* wherever the two counters have wrapped (src/src/network_server.c:857-866).
THEOREM OldIsNotNext ==
  ASSUME NEW n \in Nat, NEW s \in Nat, s <= n, n <= s + Delay, n % ClientLimit < ServerLimit
  PROVE  ~is_next_message(n % ClientLimit, s % ClientLimit)
<1> DEFINE x == s % ClientLimit
           l == n % ClientLimit
<1>1. PICK h : h = ServerLimit \div 2
  OBVIOUS
<1>2. PICK d \in 0..Delay : n = s + d
  BY NetworkAssumption
<1>3. d \in 0..ClientLimit
  BY LimitAssumption, DelayAssumption, NetworkAssumption
<1>4. /\ x \in 0..ClientLimit - 1
      /\ l = IF x + d < ClientLimit THEN x + d ELSE x + d - ClientLimit
  BY <1>2, <1>3, NumberLater
<1>5. l \in 0..ServerLimit - 1
  BY <1>3, <1>4, LimitAssumption
<1>6. /\ Delay \in Nat /\ ServerLimit \in Nat /\ ClientLimit \in Nat
      /\ Delay + h + 2 <= ServerLimit /\ Delay + ServerLimit <= ClientLimit
  BY <1>1, LimitAssumption, DelayAssumption, NetworkAssumption
<1> HIDE DEF x, l
<1>7. /\ h \in 1..ServerLimit - 1
      /\ is_next_message(l, x) <=>
           IF l = ServerLimit - 1 THEN x < h
           ELSE IF l + 1 + h < ServerLimit THEN l < x /\ x <= l + h
           ELSE x \in l + 1..ServerLimit - 1 \/ x <= l + 1 + h - ServerLimit
  BY <1>1, <1>4, <1>5, Window
<1>8. (l \in x..x + Delay) \/ x >= ServerLimit
  BY <1>2, <1>4, <1>5, <1>6
<1>9. ~is_next_message(l, x)
  BY <1>4, <1>5, <1>6, <1>7, <1>8
<1> QED  BY <1>9 DEF x, l

\* A fresh message is known to be fresh: a serial ahead by at most half the
\* circle is next, when the server knows its number, wherever the counters have
\* wrapped (src/src/network_server.c:857-866).
THEOREM FreshIsNext ==
  ASSUME NEW n \in Nat, NEW s \in Nat, s - n \in 1..ServerLimit \div 2,
         n % ClientLimit < ServerLimit, s % ClientLimit < ServerLimit
  PROVE  is_next_message(n % ClientLimit, s % ClientLimit)
<1> DEFINE x == s % ClientLimit
           l == n % ClientLimit
<1>1. PICK h : h = ServerLimit \div 2
  OBVIOUS
<1>2. /\ ServerLimit \in Nat /\ ClientLimit \in Nat /\ ServerLimit <= ClientLimit
      /\ h \in 0..ServerLimit
  BY <1>1, LimitAssumption, DelayAssumption, NetworkAssumption
<1>3. PICK d \in 1..h : s = n + d
  BY <1>1
<1>4. d \in 0..ClientLimit
  BY <1>2
<1>5. /\ l \in 0..ClientLimit - 1
      /\ x = IF l + d < ClientLimit THEN l + d ELSE l + d - ClientLimit
  BY <1>3, <1>4, NumberLater
<1>6. l \in 0..ServerLimit - 1 /\ x \in 0..ServerLimit - 1
  BY <1>2, <1>4, <1>5
<1> HIDE DEF x, l
<1>7. /\ h \in 1..ServerLimit - 1
      /\ is_next_message(l, x) <=>
           IF l = ServerLimit - 1 THEN x < h
           ELSE IF l + 1 + h < ServerLimit THEN l < x /\ x <= l + h
           ELSE x \in l + 1..ServerLimit - 1 \/ x <= l + 1 + h - ServerLimit
  BY <1>1, <1>6, Window
<1>8. is_next_message(l, x)
  BY <1>2, <1>5, <1>6, <1>7
<1> QED  BY <1>8 DEF x, l

\* So does the first message, when it is among the first.
LEMMA FirstIsNext ==
  ASSUME NEW s \in Nat, s < ServerLimit \div 2
  PROVE  is_next_message(ServerLimit - 1, s % ClientLimit)
<1>1. PICK h : h = ServerLimit \div 2
  OBVIOUS
<1>2. /\ ServerLimit \in Nat \ {0} /\ ClientLimit \in Nat \ {0} /\ ServerLimit <= ClientLimit
      /\ h \in 0..ServerLimit
  BY <1>1, LimitAssumption, DelayAssumption, NetworkAssumption
<1>3. s % ClientLimit = s
  <2>1. 0 \in Nat /\ s \in 0..ClientLimit
    BY <1>1, <1>2
  <2>2. 0 % ClientLimit = 0
    BY <1>2
  <2>3. (0 + s) % ClientLimit = IF 0 + s < ClientLimit THEN 0 + s ELSE 0 + s - ClientLimit
    BY <2>1, <2>2, NumberLater
  <2> QED  BY <2>1, <2>3, <1>1, <1>2
<1>4. ServerLimit - 1 \in 0..ServerLimit - 1
  BY <1>2
<1>5. is_next_message(ServerLimit - 1, s)
  BY <1>1, <1>4, Window
<1> QED  BY <1>3, <1>5

-----------------------------------------------------------------------------
(* Sequences of messages and of ranges. *)

LEMMA ElementsOf ==
  ASSUME NEW S, NEW s \in Seq(S)
  PROVE  Range(s) = {s[i] : i \in 1..Len(s)} /\ Range(s) \subseteq S
<1>1. DOMAIN s = 1..Len(s) /\ \A i \in 1..Len(s) : s[i] \in S
  OBVIOUS
<1>2. Range(s) = {s[i] : i \in 1..Len(s)}
  BY <1>1 DEF Range
<1> QED  BY <1>1, <1>2

LEMMA RangeOfAppend ==
  ASSUME NEW S, NEW s \in Seq(S), NEW e \in S
  PROVE  /\ Append(s, e) \in Seq(S) /\ Len(Append(s, e)) = Len(s) + 1
         /\ Range(Append(s, e)) = Range(s) \cup {e}
<1>1. /\ Append(s, e) \in Seq(S) /\ Len(Append(s, e)) = Len(s) + 1
      /\ \A i \in 1..Len(s) : Append(s, e)[i] = s[i]
      /\ Append(s, e)[Len(s) + 1] = e
  OBVIOUS
<1> DEFINE t == Append(s, e)
           n == Len(s)
<1>2. Range(t) = {t[i] : i \in 1..n + 1} /\ Range(s) = {s[i] : i \in 1..n} /\ n \in Nat
  <2>1. Range(t) = {t[i] : i \in 1..Len(t)} /\ Range(s) = {s[i] : i \in 1..Len(s)}
    BY <1>1, ElementsOf
  <2>2. Len(t) = n + 1 /\ n \in Nat
    BY <1>1
  <2> HIDE DEF t
  <2> QED  BY <2>1, <2>2
<1>3. (\A i \in 1..n : t[i] = s[i]) /\ t[n + 1] = e
  BY <1>1
<1> HIDE DEF t, n
<1>4. Range(t) = Range(s) \cup {e}
  BY <1>2, <1>3
<1> QED  BY <1>1, <1>4 DEF t

\* To exchange two elements loses none.
LEMMA SwapKeeps ==
  ASSUME NEW S, NEW s \in Seq(S), NEW i \in 1..Len(s), NEW j \in 1..Len(s)
  PROVE  /\ Swap(s, i, j) \in Seq(S) /\ Len(Swap(s, i, j)) = Len(s)
         /\ Range(Swap(s, i, j)) = Range(s)
<1> DEFINE t == Swap(s, i, j)
           n == Len(s)
<1>1. t \in Seq(S) /\ Len(t) = n
  BY DEF Swap
<1>2. \A k \in 1..n : t[k] = IF k = j THEN s[i] ELSE IF k = i THEN s[j] ELSE s[k]
  BY DEF Swap
<1>3. Range(t) = {t[k] : k \in 1..n} /\ Range(s) = {s[k] : k \in 1..n}
  <2>1. Range(t) = {t[k] : k \in 1..Len(t)} /\ Range(s) = {s[k] : k \in 1..Len(s)}
    BY <1>1, ElementsOf
  <2> HIDE DEF t
  <2> QED  BY <2>1, <1>1
<1>4. i \in 1..n /\ j \in 1..n
  OBVIOUS
<1> HIDE DEF t, n
<1>5. t[i] = s[j] /\ t[j] = s[i]
  BY <1>2, <1>4
<1>6. \A k \in 1..n : \E l \in 1..n : t[k] = s[l]
  BY <1>2, <1>4
<1>7. \A k \in 1..n : \E l \in 1..n : s[k] = t[l]
  BY <1>2, <1>4, <1>5
<1>8. Range(t) = Range(s)
  BY <1>3, <1>6, <1>7
<1> QED  BY <1>1, <1>8 DEF t, n

LEMMA HasOne ==
  ASSUME NEW s \in Seq(Message), NEW p
  PROVE  Has(s, p) <=> \E m \in Range(s) : m.id = p
<1>1. Range(s) = {s[i] : i \in 1..Len(s)} /\ DOMAIN s = 1..Len(s)
  BY ElementsOf
<1> QED  BY <1>1, Zenon DEF Has

\* The ranges of an array of n.
ToSortRange == [start : Nat, end : Nat, i : Nat, j : Nat]
Within(r, n) == 1 <= r.start /\ r.start <= r.j /\ r.j <= r.i /\ r.i < r.end /\ r.end <= n
SubRange(n) == {r \in ToSortRange : Within(r, n)}

LEMMA RangesType ==
  ASSUME NEW n \in Nat, NEW s
  PROVE  s \in Seq(SubRange(n)) <=>
           s \in Seq(ToSortRange) /\ \A k \in DOMAIN s : Within(s[k], n)
<1>1. ASSUME s \in Seq(SubRange(n))
      PROVE  s \in Seq(ToSortRange) /\ \A k \in DOMAIN s : Within(s[k], n)
  <2>1. SubRange(n) \subseteq ToSortRange
    BY DEF SubRange
  <2>2. \A k \in DOMAIN s : s[k] \in SubRange(n)
    BY <1>1
  <2>3. s \in Seq(ToSortRange)
    BY <1>1, <2>1, SeqMonotonic
  <2> QED  BY <2>2, <2>3 DEF SubRange
<1>2. ASSUME s \in Seq(ToSortRange), \A k \in DOMAIN s : Within(s[k], n)
      PROVE  s \in Seq(SubRange(n))
  <2>1. \A k \in DOMAIN s : s[k] \in ToSortRange
    BY <1>2
  <2>2. \A k \in DOMAIN s : s[k] \in SubRange(n)
    BY <1>2, <2>1 DEF SubRange
  <2>3. DOMAIN s = 1..Len(s) /\ Len(s) \in Nat /\ s = [k \in 1..Len(s) |-> s[k]]
    BY <1>2
  <2> HIDE DEF SubRange
  <2>4. s \in [1..Len(s) -> SubRange(n)]
    BY <2>2, <2>3
  <2> QED  BY <2>3, <2>4
<1> QED  BY <1>1, <1>2

LEMMA ToSortType ==
  ASSUME NEW n \in Nat, NEW a \in Nat \ {0}, NEW b \in Int, b <= n
  PROVE  ToSort(a, b) \in Seq(SubRange(n))
<1>1. CASE a < b
  <2> DEFINE r == [start |-> a, end |-> b, i |-> a, j |-> a]
  <2>1. r \in SubRange(n)
    BY <1>1 DEF SubRange, ToSortRange, Within
  <2>2. ToSort(a, b) = <<r>>
    BY <1>1 DEF ToSort
  <2> HIDE DEF r
  <2> QED  BY <2>1, <2>2
<1>2. CASE ~(a < b)
  BY <1>2 DEF ToSort
<1> QED  BY <1>1, <1>2

\* The range being partitioned, and the others.
LEMMA FirstRange ==
  ASSUME NEW n \in Nat, NEW s \in Seq(SubRange(n)), s # <<>>
  PROVE  /\ Head(s) \in ToSortRange /\ Within(Head(s), n)
         /\ Tail(s) \in Seq(SubRange(n))
BY HeadTailProperties DEF SubRange

LEMMA MaxOfOne == ASSUME NEW a \in Int PROVE Max({a}) = a
BY DEF Max

LEMMA MaxOfTwo ==
  ASSUME NEW a \in Int, NEW b \in Int
  PROVE  Max({a} \cup {b}) = IF a >= b THEN a ELSE b
<1>1. \E x \in {a} \cup {b} : \A y \in {a} \cup {b} : x >= y
  OBVIOUS
<1>2. /\ Max({a} \cup {b}) \in {a} \cup {b}
      /\ \A y \in {a} \cup {b} : Max({a} \cup {b}) >= y
  BY <1>1 DEF Max
<1> QED  BY <1>2

-----------------------------------------------------------------------------
(* Type correctness of the intake. *)

Outs == [moves : Seq(Message), bombs : Seq(Message), garbage : Nat]
Distinct(s) == \A i, j \in DOMAIN s : s[i].id = s[j].id => i = j

LEMMA DistinctAppend ==
  ASSUME NEW s \in Seq(Message), Distinct(s), NEW m \in Message, ~Has(s, m.id)
  PROVE  Distinct(Append(s, m))
<1> DEFINE t == Append(s, m)
           n == Len(s)
<1>1. /\ n \in Nat /\ DOMAIN s = 1..n /\ DOMAIN t = 1..n + 1
      /\ \A i \in 1..n : t[i] = s[i]
      /\ t[n + 1] = m
  OBVIOUS
<1> HIDE DEF t, n
<1>2. \A i \in 1..n : s[i].id # m.id
  BY <1>1 DEF Has
<1>3. \A i, j \in 1..n : s[i].id = s[j].id => i = j
  BY <1>1 DEF Distinct
<1>4. ASSUME NEW i \in 1..n + 1, NEW j \in 1..n + 1, t[i].id = t[j].id
      PROVE  i = j
  <2>1. CASE i \in 1..n /\ j \in 1..n
    BY <2>1, <1>1, <1>3, <1>4
  <2>2. CASE i = n + 1 /\ j \in 1..n
    BY <2>2, <1>1, <1>2, <1>4
  <2>3. CASE i \in 1..n /\ j = n + 1
    BY <2>3, <1>1, <1>2, <1>4
  <2>4. CASE i = n + 1 /\ j = n + 1
    BY <2>4
  <2> QED  BY <1>1, <2>1, <2>2, <2>3, <2>4
<1>5. Distinct(t)
  BY <1>1, <1>4 DEF Distinct
<1> QED  BY <1>5 DEF t

\* The types that matter to the round, under names.
LEMMA RoundTypes ==
  ASSUME TypeOK
  PROVE  /\ out \in Outs /\ Distinct(out.moves) /\ Distinct(out.bombs)
         /\ out.moves \in Seq(Message) /\ out.bombs \in Seq(Message) /\ out.garbage \in Nat
         /\ taken \in Seq(Message) /\ Len(taken) \in Nat
         /\ todo \in Seq(SubRange(Len(taken)))
         /\ last \in [Player -> 0..ServerLimit - 1]
<1>1. out \in Outs
  BY DEF TypeOK, Outs
<1>2. Distinct(out.moves) /\ Distinct(out.bombs)
  BY DEF TypeOK, Distinct
<1>3. taken \in Seq(Message) /\ Len(taken) \in Nat /\ last \in [Player -> 0..ServerLimit - 1]
  BY DEF TypeOK
<1>4. todo \in Seq(ToSortRange) /\ \A k \in DOMAIN todo : Within(todo[k], Len(taken))
  BY DEF TypeOK, ToSortRange, Within
<1>5. todo \in Seq(SubRange(Len(taken)))
  BY <1>3, <1>4, RangesType
<1> QED  BY <1>1, <1>2, <1>3, <1>5 DEF Outs

RoundTyped ==
  /\ sent \in [Player -> Nat] /\ network \subseteq Message /\ pool \in Seq(Message)
  /\ round \in {"idle", "copied", "select"} /\ due \subseteq Message /\ taken \in Seq(Message)
  /\ left \in 0..Len(taken) /\ todo \in Seq(SubRange(Len(taken)))
  /\ last \in [Player -> 0..ServerLimit - 1]
  /\ out \in Outs /\ Distinct(out.moves) /\ Distinct(out.bombs)
  /\ passed \in [Player -> Nat \cup {-1}] /\ killed \in BOOLEAN

LEMMA TypesOfRound == RoundTyped => TypeOK
<1> SUFFICES ASSUME RoundTyped PROVE TypeOK
  OBVIOUS
<1> USE DEF RoundTyped
<1>1. todo \in Seq(ToSortRange) /\ \A k \in DOMAIN todo : Within(todo[k], Len(taken))
  <2>1. Len(taken) \in Nat
    OBVIOUS
  <2> QED  BY <2>1, RangesType
<1>2. \A k \in DOMAIN todo : LET r == todo[k]
                             IN  /\ 1 <= r.start /\ r.start <= r.j /\ r.j <= r.i
                                 /\ r.i < r.end /\ r.end <= Len(taken)
  BY <1>1 DEF Within
<1>3. \A chosen \in {out.moves, out.bombs} : \A i, j \in DOMAIN chosen :
        chosen[i].id = chosen[j].id => i = j
  BY DEF Distinct
<1> QED  BY <1>1, <1>2, <1>3 DEF TypeOK, ToSortRange, Outs

\* What a message examined may do.
LEMMA ConsiderCases ==
  ASSUME TypeOK, NEW m \in Message, Consider(m)
  PROVE  \/ /\ IsNext(m) /\ m.action = "MOVE" /\ ~Has(out.moves, m.id)
            /\ out' \in Outs /\ out'.moves = Append(out.moves, m) /\ out'.bombs = out.bombs
            /\ last' = [last EXCEPT ![m.id] = IF Has(out.bombs, m.id) THEN @ ELSE message_number(m)]
         \/ /\ IsNext(m) /\ m.action = "PLACE_BOMB" /\ ~Has(out.bombs, m.id)
            /\ out' \in Outs /\ out'.moves = out.moves /\ out'.bombs = Append(out.bombs, m)
            /\ last' = [last EXCEPT ![m.id] = IF Has(out.moves, m.id) THEN @ ELSE message_number(m)]
         \/ /\ ~(IsNext(m) /\ m.action = "MOVE" /\ ~Has(out.moves, m.id))
            /\ ~(IsNext(m) /\ m.action = "PLACE_BOMB" /\ ~Has(out.bombs, m.id))
            /\ out' = out /\ last' = last
<1>1. out \in Outs /\ out.moves \in Seq(Message) /\ out.bombs \in Seq(Message) /\ out.garbage \in Nat
  BY RoundTypes
<1>2. ASSUME TakeMove(m)
      PROVE  /\ out' \in Outs /\ out'.moves = Append(out.moves, m) /\ out'.bombs = out.bombs
             /\ last' = [last EXCEPT ![m.id] = IF Has(out.bombs, m.id) THEN @ ELSE message_number(m)]
  <2>1. Append(out.moves, m) \in Seq(Message)
    BY <1>1
  <2> QED  BY <1>1, <1>2, <2>1 DEF TakeMove, Outs
<1>3. ASSUME TakeBomb(m)
      PROVE  /\ out' \in Outs /\ out'.moves = out.moves /\ out'.bombs = Append(out.bombs, m)
             /\ last' = [last EXCEPT ![m.id] = IF Has(out.moves, m.id) THEN @ ELSE message_number(m)]
  <2>1. Append(out.bombs, m) \in Seq(Message)
    BY <1>1
  <2> QED  BY <1>1, <1>3, <2>1 DEF TakeBomb, Outs
<1>4. CASE IsNext(m) /\ m.action = "MOVE" /\ ~Has(out.moves, m.id)
  BY <1>2, <1>4 DEF Consider
<1>5. CASE /\ ~(IsNext(m) /\ m.action = "MOVE" /\ ~Has(out.moves, m.id))
           /\ IsNext(m) /\ m.action = "PLACE_BOMB" /\ ~Has(out.bombs, m.id)
  BY <1>3, <1>5 DEF Consider
<1>6. CASE /\ ~(IsNext(m) /\ m.action = "MOVE" /\ ~Has(out.moves, m.id))
           /\ ~(IsNext(m) /\ m.action = "PLACE_BOMB" /\ ~Has(out.bombs, m.id))
  BY <1>6 DEF Consider
<1> QED  BY <1>4, <1>5, <1>6

LEMMA NumberOfNext ==
  ASSUME TypeOK, NEW m \in Message, IsNext(m)
  PROVE  message_number(m) \in 0..ServerLimit - 1
<1>1. last[m.id] \in 0..ServerLimit - 1
  BY RoundTypes DEF Message
<1>2. message_number(m) \in Nat
  BY LimitAssumption DEF Message, message_number
<1> QED  BY <1>1, <1>2, NextIsKnown DEF IsNext

\* The moves a player has in the round: one at most.
LEMMA PassedOne ==
  ASSUME TypeOK, NEW p \in Player
  PROVE  LET serials == {m.serial : m \in {n \in Range(out.moves) : n.id = p}}
         IN  \/ ~Has(out.moves, p) /\ Max({passed[p]} \cup serials) = passed[p]
             \/ \E m \in Range(out.moves) :
                   /\ m.id = p /\ m \in Message
                   /\ Max({passed[p]} \cup serials) = IF passed[p] >= m.serial THEN passed[p] ELSE m.serial
<1> DEFINE moves == {n \in Range(out.moves) : n.id = p}
           serials == {m.serial : m \in moves}
<1>1. passed[p] \in Int
  BY DEF TypeOK
<1>2. out.moves \in Seq(Message) /\ Distinct(out.moves)
  BY RoundTypes
<1>3. CASE ~Has(out.moves, p)
  <2>1. moves = {}
    BY <1>2, <1>3, HasOne
  <2>2. {passed[p]} \cup serials = {passed[p]}
    BY <2>1
  <2> HIDE DEF serials
  <2> QED  BY <1>1, <1>3, <2>2, MaxOfOne DEF serials
<1>4. CASE Has(out.moves, p)
  <2>1. PICK m \in Range(out.moves) : m.id = p
    BY <1>2, <1>4, HasOne
  <2>2. Range(out.moves) = {out.moves[i] : i \in 1..Len(out.moves)} /\ m \in Message
    BY <1>2, ElementsOf
  <2>3. \A n \in Range(out.moves) : n.id = p => n = m
    BY <1>2, <2>1, <2>2 DEF Distinct
  <2>4. moves = {m}
    BY <2>1, <2>3
  <2>5. serials = {m.serial}
    BY <2>4
  <2>6. m.serial \in Int
    BY <2>2 DEF Message
  <2>7. Max({passed[p]} \cup {m.serial}) = IF passed[p] >= m.serial THEN passed[p] ELSE m.serial
    BY <1>1, <2>6, MaxOfTwo
  <2> HIDE DEF serials
  <2>8. Max({passed[p]} \cup serials) = IF passed[p] >= m.serial THEN passed[p] ELSE m.serial
    BY <2>5, <2>7
  <2> QED  BY <2>1, <2>2, <2>8 DEF serials
<1> QED  BY <1>3, <1>4

LEMMA IntakeInitially == IntakeInit => IntakeInv
<1> SUFFICES ASSUME IntakeInit PROVE IntakeInv
  OBVIOUS
<1>1. /\ sent = begun /\ begun \in [Player -> Starts] /\ network = {} /\ pool = <<>>
      /\ round = "idle" /\ due = {} /\ taken = <<>> /\ todo = <<>> /\ left = 0
      /\ last = [p \in Player |-> ServerLimit - 1] /\ out = Nothing
      /\ passed = [p \in Player |-> -1] /\ killed = FALSE
  BY DEF IntakeInit
<1>2. sent \in [Player -> Nat]
  BY <1>1, NetworkAssumption
<1>3. Range(pool) = {} /\ Range(taken) = {}
  BY <1>1 DEF Range
<1>4. TypeOK
  <2>1. todo \in Seq(SubRange(Len(taken))) /\ left \in 0..Len(taken)
    <3>1. <<>> \in Seq(SubRange(Len(taken))) /\ Len(taken) = 0
      BY <1>1, EmptySeq
    <3> QED  BY <1>1, <3>1
  <2>2. last \in [Player -> 0..ServerLimit - 1] /\ passed \in [Player -> Nat \cup {-1}]
    BY <1>1, LimitAssumption
  <2>3. out \in Outs /\ Distinct(out.moves) /\ Distinct(out.bombs)
    BY <1>1 DEF Nothing, Outs, Distinct
  <2>4. /\ network \subseteq Message /\ pool \in Seq(Message) /\ round \in {"idle", "copied", "select"}
        /\ due \subseteq Message /\ taken \in Seq(Message) /\ killed \in BOOLEAN
    <3>1. <<>> \in Seq(Message)
      BY EmptySeq
    <3>2. pool \in Seq(Message) /\ taken \in Seq(Message)
      BY <1>1, <3>1
    <3>3. network \subseteq Message /\ due \subseteq Message
      BY <1>1
    <3>4. round \in {"idle", "copied", "select"} /\ killed \in BOOLEAN
      BY <1>1
    <3> QED  BY <3>2, <3>3, <3>4
  <2> QED  BY <1>2, <2>1, <2>2, <2>3, <2>4, TypesOfRound DEF RoundTyped
<1>5. AllSent /\ NotTooLate
  BY <1>1, <1>3 DEF AllSent, NotTooLate
<1>6. RoundInv /\ Chosen /\ Examined
  BY <1>1 DEF RoundInv, Chosen, Examined
<1>7. PassedSent
  BY <1>1, <1>2 DEF PassedSent
<1>8. LastKnown
  BY <1>1 DEF LastKnown, LastNumber
<1> QED  BY <1>4, <1>5, <1>6, <1>7, <1>8 DEF IntakeInv

LEMMA SentType ==
  ASSUME TypeOK, NEW p \in Player, Send(p)
  PROVE  /\ sent' \in [Player -> Nat] /\ network' \subseteq Message
         /\ sent' = [sent EXCEPT ![p] = @ + 1]
         /\ \A m \in network' :
              \/ m \in network /\ (m.id = p => ~Behind(m))
              \/ m.id = p /\ m.serial = sent[p] /\ m.action \in Action(p)
<1>1. PICK a \in Action(p) :
        network' = {m \in network : m.id = p => ~Behind(m)}
                     \cup {[id |-> p, serial |-> sent[p], action |-> a]}
  BY DEF Send
<1>2. sent' = [sent EXCEPT ![p] = @ + 1] /\ sent \in [Player -> Nat] /\ network \subseteq Message
  BY DEF Send, TypeOK
<1>3. a \in {"MOVE", "PLACE_BOMB"}
  BY DEF Action
<1>4. [id |-> p, serial |-> sent[p], action |-> a] \in Message
  BY <1>2, <1>3 DEF Message
<1> QED  BY <1>1, <1>2, <1>4

\* The sort keeps the messages, and stays within the copy.
LEMMA SortStep ==
  ASSUME TypeOK, RoundInv, game_action_partition \/ game_action_quick_sort
  PROVE  /\ taken' \in Seq(Message) /\ Len(taken') = Len(taken) /\ Range(taken') = Range(taken)
         /\ todo' \in Seq(SubRange(Len(taken')))
         /\ round = "select" /\ left = Len(taken)
         /\ UNCHANGED <<clients, pool, round, due, left, last, out, passed, killed>>
<1> DEFINE r == Head(todo)
           n == Len(taken)
<1>1. taken \in Seq(Message) /\ n \in Nat /\ todo \in Seq(SubRange(n))
  BY RoundTypes
<1>2. todo # <<>> /\ round = "select"
  BY DEF game_action_partition, game_action_quick_sort
<1>3. r \in ToSortRange /\ Within(r, n) /\ Tail(todo) \in Seq(SubRange(n))
  BY <1>1, <1>2, FirstRange
<1>4. left = n
  BY <1>2 DEF RoundInv
<1>5. r.start \in Nat /\ r.end \in Nat /\ r.i \in Nat /\ r.j \in Nat
  BY <1>3 DEF ToSortRange
<1>6. r.i \in 1..n /\ r.j \in 1..n /\ r.end \in 1..n /\ r.j < r.end
  BY <1>1, <1>3, <1>5 DEF Within
<1>7. CASE game_action_partition
  <2>1. r.i < r.end - 1
    BY <1>7 DEF game_action_partition
  <2>2. \/ todo' = <<[r EXCEPT !.i = @ + 1]>> \o Tail(todo) /\ taken' = taken
        \/ /\ todo' = <<[r EXCEPT !.i = @ + 1, !.j = @ + 1]>> \o Tail(todo)
           /\ taken' = Swap(taken, r.i, r.j)
    BY <1>7 DEF game_action_partition
  <2>3. ASSUME NEW q, q = [r EXCEPT !.i = @ + 1] \/ q = [r EXCEPT !.i = @ + 1, !.j = @ + 1]
        PROVE  <<q>> \o Tail(todo) \in Seq(SubRange(n))
    <3>r. r \in [start : Nat, end : Nat, i : Nat, j : Nat]
      BY <1>3 DEF ToSortRange
    <3> HIDE DEF r
    <3>b. PICK d \in 0..1 : q = [start |-> r.start, end |-> r.end, i |-> r.i + 1, j |-> r.j + d]
      <4>1. CASE q = [r EXCEPT !.i = @ + 1]
        <5>1. q = [start |-> r.start, end |-> r.end, i |-> r.i + 1, j |-> r.j]
          BY <3>r, <4>1
        <5>2. r.j = r.j + 0
          BY <1>5
        <5> QED  BY <5>1, <5>2
      <4>2. CASE q = [r EXCEPT !.i = @ + 1, !.j = @ + 1]
        <5>1. q = [start |-> r.start, end |-> r.end, i |-> r.i + 1, j |-> r.j + 1]
          BY <3>r, <4>2
        <5> QED  BY <5>1
      <4> QED  BY <2>3, <4>1, <4>2 DEF r
    <3>1. q \in ToSortRange
      BY <1>5, <3>b DEF ToSortRange
    <3>2. /\ q.start = r.start /\ q.end = r.end /\ q.i = r.i + 1
          /\ (q.j = r.j \/ q.j = r.j + 1)
      BY <1>5, <3>b
    <3>3. Within(q, n)
      BY <1>1, <1>3, <1>5, <2>1, <3>2 DEF Within
    <3>4. q \in SubRange(n)
      BY <3>1, <3>3 DEF SubRange
    <3>5. <<q>> \in Seq(SubRange(n))
      BY <3>4
    <3> QED  BY <1>3, <3>5, ConcatProperties
  <2>4. todo' \in Seq(SubRange(n))
    BY <2>2, <2>3
  <2>5. taken' \in Seq(Message) /\ Len(taken') = n /\ Range(taken') = Range(taken)
    BY <2>2, <1>1, <1>6, SwapKeeps
  <2> QED  BY <1>2, <1>4, <1>7, <2>4, <2>5 DEF game_action_partition
<1>8. CASE game_action_quick_sort
  <2>1. /\ taken' = Swap(taken, r.j, r.end)
        /\ todo' = ToSort(r.start, r.j - 1) \o ToSort(r.j + 1, r.end) \o Tail(todo)
    BY <1>8 DEF game_action_quick_sort
  <2>2. taken' \in Seq(Message) /\ Len(taken') = n /\ Range(taken') = Range(taken)
    BY <2>1, <1>1, <1>6, SwapKeeps
  <2>3. ToSort(r.start, r.j - 1) \in Seq(SubRange(n))
    <3>1. r.start \in Nat \ {0} /\ r.j - 1 \in Int /\ r.j - 1 <= n
      BY <1>1, <1>3, <1>5, <1>6 DEF Within
    <3> QED  BY <1>1, <3>1, ToSortType
  <2>4. ToSort(r.j + 1, r.end) \in Seq(SubRange(n))
    <3>1. r.j + 1 \in Nat \ {0} /\ r.end \in Int /\ r.end <= n
      BY <1>1, <1>5, <1>6
    <3> QED  BY <1>1, <3>1, ToSortType
  <2>5. todo' \in Seq(SubRange(n))
    BY <1>3, <2>1, <2>3, <2>4, ConcatProperties
  <2> QED  BY <1>2, <1>4, <1>8, <2>2, <2>5 DEF game_action_quick_sort
<1> QED  BY <1>7, <1>8

\* The message get_player_actions examines, and what it does of it.
LEMMA ExamineStep ==
  ASSUME TypeOK, RoundInv, get_player_actions
  PROVE  /\ round = "select" /\ todo = <<>> /\ left \in 1..Len(taken) /\ left' = left - 1
         /\ taken[left] \in Message /\ taken[left] \in due
         /\ Consider(taken[left])
         /\ UNCHANGED <<clients, pool, round, due, taken, todo, passed, killed>>
<1>1. /\ round = "select" /\ todo = <<>> /\ left > 0 /\ left' = left - 1
      /\ Consider(taken[left])
      /\ UNCHANGED <<clients, pool, round, due, taken, todo, passed, killed>>
  BY DEF get_player_actions
<1>2. left \in 1..Len(taken)
  BY <1>1 DEF TypeOK
<1>3. taken[left] \in Message
  BY <1>2, RoundTypes
<1>4. Range(taken) = {taken[i] : i \in 1..Len(taken)} /\ Range(taken) = due
  BY <1>1, RoundTypes, ElementsOf DEF RoundInv
<1> QED  BY <1>1, <1>2, <1>3, <1>4

\* What a round passes.
LEMMA PassStep ==
  ASSUME TypeOK, Pass
  PROVE  /\ round = "select" /\ todo = <<>> /\ left = 0 /\ round' = "idle"
         /\ taken' = <<>> /\ due' = {}
         /\ out'.moves = out.moves /\ out' \in Outs
         /\ out'.bombs = out.bombs \/ (out.moves # <<>> /\ out'.bombs = <<>>)
         /\ passed' = [p \in Player |->
              Max({passed[p]} \cup {m.serial : m \in {n \in Range(out.moves) : n.id = p}})]
         /\ killed' \in BOOLEAN
         /\ UNCHANGED <<clients, pool, todo, left, last>>
<1>1. out \in Outs /\ out.bombs \in Seq(Message) /\ killed \in BOOLEAN
  BY RoundTypes DEF TypeOK
<1>2. /\ out'.moves = out.moves /\ out' \in Outs /\ killed' \in BOOLEAN
      /\ out'.bombs = out.bombs \/ (out.moves # <<>> /\ out'.bombs = <<>>)
  <2>1. CASE UNCHANGED <<out, killed>>
    <3>1. out' = out /\ killed' = killed
      BY <2>1
    <3> QED  BY <1>1, <3>1
  <2>2. CASE /\ out.moves # <<>> /\ killed' \in BOOLEAN
             /\ out' = [out EXCEPT !.bombs = <<>>, !.garbage = Len(out.bombs)]
    <3> DEFINE n == Len(out.bombs)
    <3>1. n \in Nat
      BY <1>1
    <3>2. out' = [out EXCEPT !.bombs = <<>>, !.garbage = n]
      BY <2>2
    <3>3. <<>> \in Seq(Message)
      BY EmptySeq
    <3> HIDE DEF n
    <3>4. out' = [moves |-> out.moves, bombs |-> <<>>, garbage |-> n]
      BY <1>1, <3>2 DEF Outs
    <3>5. out' \in Outs
      BY <1>1, <3>1, <3>3, <3>4 DEF Outs
    <3> QED  BY <2>2, <3>4, <3>5
  <2> QED  BY <2>1, <2>2 DEF Pass, merge_player_moves_and_place_bomb
<1> QED  BY <1>2 DEF Pass

LEMMA IntakeTypeStep == IntakeInv /\ [IntakeNext]_intakeVars => TypeOK'
<1> SUFFICES ASSUME IntakeInv, [IntakeNext]_intakeVars PROVE TypeOK'
  OBVIOUS
<1> USE DEF clients, roundVars
<1>t. /\ sent \in [Player -> Nat] /\ network \subseteq Message /\ pool \in Seq(Message)
      /\ round \in {"idle", "copied", "select"} /\ due \subseteq Message /\ left \in 0..Len(taken)
      /\ passed \in [Player -> Nat \cup {-1}] /\ killed \in BOOLEAN
  BY DEF IntakeInv, TypeOK
<1>r. /\ out \in Outs /\ Distinct(out.moves) /\ Distinct(out.bombs)
      /\ out.moves \in Seq(Message) /\ out.bombs \in Seq(Message)
      /\ taken \in Seq(Message) /\ Len(taken) \in Nat /\ todo \in Seq(SubRange(Len(taken)))
      /\ last \in [Player -> 0..ServerLimit - 1]
  BY RoundTypes DEF IntakeInv
<1>i. TypeOK /\ RoundInv
  BY DEF IntakeInv
<1>p. RoundTyped' => TypeOK'
  BY TypesOfRound, PTL
<1>0. ASSUME UNCHANGED <<due, taken, todo, left, last, out, round>>,
             sent' \in [Player -> Nat], network' \subseteq Message, pool' \in Seq(Message),
             passed' = passed, killed' = killed
      PROVE  TypeOK'
  BY <1>0, <1>t, <1>r, <1>p DEF RoundTyped
<1>1. ASSUME NEW p \in Player, Send(p) PROVE TypeOK'
  BY <1>1, <1>i, <1>t, <1>0, SentType DEF Send
<1>2. ASSUME NEW m \in network, Lose(m) PROVE TypeOK'
  BY <1>2, <1>t, <1>0 DEF Lose
<1>3. ASSUME NEW m \in network, Receive(m) PROVE TypeOK'
  BY <1>3, <1>t, <1>0 DEF Receive
<1>4. CASE Copy
  <2>1. /\ taken' = pool /\ due' = Range(pool) /\ pool' = <<>> /\ round' = "copied" /\ out' = Nothing
        /\ UNCHANGED <<sent, network, last, passed, killed>>
    BY <1>4 DEF Copy
  <2>2. todo' = <<>> /\ left' = 0
    BY <1>4, <1>i DEF Copy, RoundInv
  <2>3. Range(pool) \subseteq Message /\ Len(pool) \in Nat
    BY <1>t, ElementsOf
  <2>4. todo' \in Seq(SubRange(Len(taken'))) /\ left' \in 0..Len(taken')
    BY <2>1, <2>2, <2>3, EmptySeq
  <2>5. out' \in Outs /\ Distinct(out'.moves) /\ Distinct(out'.bombs)
    BY <2>1, EmptySeq DEF Nothing, Outs, Distinct
  <2>6. pool' \in Seq(Message) /\ taken' \in Seq(Message)
    BY <2>1, <1>t, EmptySeq
  <2> QED  BY <1>t, <1>r, <2>1, <2>3, <2>4, <2>5, <2>6, <1>p DEF RoundTyped
<1>5. CASE game_actions_sort
  <2>1. UNCHANGED <<sent, network, pool, due, taken, last, out, passed>>
    BY <1>5 DEF game_actions_sort
  <2>2. CASE killed' = TRUE /\ UNCHANGED <<round, todo, left>>
    BY <1>t, <1>r, <2>1, <2>2, <1>p DEF RoundTyped
  <2>3. CASE /\ Len(pool) <= Len(taken) /\ round' = "select" /\ left' = Len(taken)
             /\ todo' = ToSort(1, Len(pool)) /\ UNCHANGED killed
    <3>1. todo' \in Seq(SubRange(Len(taken)))
      <4>1. 1 \in Nat \ {0} /\ Len(pool) \in Int /\ Len(pool) <= Len(taken) /\ Len(taken) \in Nat
        BY <1>t, <1>r, <2>3
      <4> QED  BY <2>3, <4>1, ToSortType
    <3>2. left' \in 0..Len(taken')
      BY <1>r, <2>1, <2>3
    <3> QED  BY <1>t, <1>r, <2>1, <2>3, <3>1, <3>2, <1>p DEF RoundTyped
  <2> QED
    <3>1. Len(pool) \in Nat
      BY <1>t
    <3>2. CASE Len(pool) > Len(taken)
      BY <1>5, <2>2, <3>2 DEF game_actions_sort
    <3>3. CASE Len(pool) <= Len(taken)
      <4>1. ~(Len(pool) > Len(taken))
        BY <1>r, <3>1, <3>3
      <4> QED  BY <1>5, <2>3, <3>3, <4>1 DEF game_actions_sort
    <3> QED  BY <1>r, <3>1, <3>2, <3>3
<1>6. CASE game_action_partition \/ game_action_quick_sort
  <2>1. /\ taken' \in Seq(Message) /\ Len(taken') = Len(taken)
        /\ todo' \in Seq(SubRange(Len(taken')))
        /\ UNCHANGED <<sent, network, pool, round, due, left, last, out, passed, killed>>
    BY <1>6, <1>i, SortStep
  <2> QED  BY <1>t, <1>r, <2>1, <1>p DEF RoundTyped
<1>7. CASE get_player_actions
  <2> DEFINE m == taken[left]
  <2>1. /\ left \in 1..Len(taken) /\ left' = left - 1 /\ m \in Message /\ Consider(m)
        /\ UNCHANGED <<sent, network, pool, round, due, taken, todo, passed, killed>>
    BY <1>7, <1>i, ExamineStep
  <2> HIDE DEF m
  <2>2. left' \in 0..Len(taken')
    BY <2>1, <1>r
  <2>3. m.id \in Player
    BY <2>1 DEF Message
  <2>4. out' \in Outs /\ Distinct(out'.moves) /\ Distinct(out'.bombs) /\ last' \in [Player -> 0..ServerLimit - 1]
    <3>1. CASE /\ IsNext(m) /\ m.action = "MOVE" /\ ~Has(out.moves, m.id)
               /\ out' \in Outs /\ out'.moves = Append(out.moves, m) /\ out'.bombs = out.bombs
               /\ last' = [last EXCEPT ![m.id] = IF Has(out.bombs, m.id) THEN @ ELSE message_number(m)]
      <4>1. message_number(m) \in 0..ServerLimit - 1
        BY <3>1, <1>i, <2>1, NumberOfNext
      <4>2. last' \in [Player -> 0..ServerLimit - 1]
        BY <3>1, <4>1, <1>r, <2>3
      <4>3. Distinct(out'.moves)
        BY <3>1, <1>r, <2>1, DistinctAppend
      <4> QED  BY <3>1, <4>2, <4>3, <1>r
    <3>2. CASE /\ IsNext(m) /\ m.action = "PLACE_BOMB" /\ ~Has(out.bombs, m.id)
               /\ out' \in Outs /\ out'.moves = out.moves /\ out'.bombs = Append(out.bombs, m)
               /\ last' = [last EXCEPT ![m.id] = IF Has(out.moves, m.id) THEN @ ELSE message_number(m)]
      <4>1. message_number(m) \in 0..ServerLimit - 1
        BY <3>2, <1>i, <2>1, NumberOfNext
      <4>2. last' \in [Player -> 0..ServerLimit - 1]
        BY <3>2, <4>1, <1>r, <2>3
      <4>3. Distinct(out'.bombs)
        BY <3>2, <1>r, <2>1, DistinctAppend
      <4> QED  BY <3>2, <4>2, <4>3, <1>r
    <3>3. CASE out' = out /\ last' = last
      BY <3>3, <1>r
    <3> QED  BY <1>i, <2>1, <3>1, <3>2, <3>3, ConsiderCases
  <2> QED  BY <1>t, <1>r, <2>1, <2>2, <2>4, <1>p DEF RoundTyped
<1>8. CASE Pass
  <2>1. /\ todo = <<>> /\ left = 0 /\ round' = "idle" /\ taken' = <<>> /\ due' = {}
        /\ out'.moves = out.moves /\ out' \in Outs /\ killed' \in BOOLEAN
        /\ out'.bombs = out.bombs \/ (out.moves # <<>> /\ out'.bombs = <<>>)
        /\ UNCHANGED <<sent, network, pool, todo, left, last>>
    BY <1>8, <1>i, PassStep
  <2>2. passed' \in [Player -> Nat \cup {-1}]
    <3> DEFINE New(p) == Max({passed[p]} \cup {m.serial : m \in {n \in Range(out.moves) : n.id = p}})
    <3>1. passed' = [p \in Player |-> New(p)]
      BY <1>8, <1>i, PassStep
    <3>2. ASSUME NEW p \in Player PROVE New(p) \in Nat \cup {-1}
      <4>1. \/ New(p) = passed[p]
            \/ \E m \in Message : New(p) = IF passed[p] >= m.serial THEN passed[p] ELSE m.serial
        BY <1>i, PassedOne
      <4> HIDE DEF New
      <4> QED  BY <4>1, <1>t DEF Message
    <3> HIDE DEF New
    <3> QED  BY <3>1, <3>2
  <2>3. todo' \in Seq(SubRange(Len(taken'))) /\ left' \in 0..Len(taken') /\ taken' \in Seq(Message)
    <3>1. <<>> \in Seq(SubRange(0)) /\ <<>> \in Seq(Message) /\ Len(<<>>) = 0
      BY EmptySeq
    <3> QED  BY <2>1, <3>1
  <2>4. Distinct(out'.moves) /\ Distinct(out'.bombs)
    BY <2>1, <1>r DEF Distinct
  <2>5. due' \subseteq Message /\ round' \in {"idle", "copied", "select"}
    BY <2>1
  <2> QED  BY <1>t, <1>r, <2>1, <2>2, <2>3, <2>4, <2>5, <1>p DEF RoundTyped
<1>9. CASE UNCHANGED intakeVars
  BY <1>9, <1>0, <1>t DEF intakeVars
<1> QED
  BY <1>1, <1>2, <1>3, <1>4, <1>5, <1>6, <1>7, <1>8, <1>9 DEF IntakeNext

-----------------------------------------------------------------------------
(* The messages on their way. *)

LEMMA RoundInvStep == IntakeInv /\ [IntakeNext]_intakeVars => RoundInv'
<1> SUFFICES ASSUME IntakeInv, [IntakeNext]_intakeVars PROVE RoundInv'
  OBVIOUS
<1>i. TypeOK /\ RoundInv
  BY DEF IntakeInv
<1>0. ASSUME UNCHANGED roundVars, round' = round PROVE RoundInv'
  BY <1>0, <1>i DEF roundVars, RoundInv
<1>1. ASSUME NEW p \in Player, Send(p) PROVE RoundInv'
  BY <1>0, <1>1 DEF Send
<1>2. ASSUME NEW m \in network, Lose(m) \/ Receive(m) PROVE RoundInv'
  BY <1>0, <1>2 DEF Lose, Receive
<1>3. CASE Copy
  <2>1. /\ taken' = pool /\ due' = Range(pool) /\ round = "idle" /\ round' = "copied" /\ out' = Nothing
        /\ todo' = todo /\ left' = left
    BY <1>3 DEF Copy
  <2> QED  BY <2>1, <1>i DEF RoundInv
<1>4. CASE game_actions_sort
  <2>1. CASE UNCHANGED <<round, todo, left>>
    BY <1>0, <1>4, <2>1 DEF game_actions_sort, roundVars
  <2>2. CASE round' = "select" /\ left' = Len(taken)
    <3>1. round = "copied" /\ UNCHANGED <<due, taken>>
      BY <1>4 DEF game_actions_sort
    <3> QED  BY <2>2, <3>1, <1>i DEF RoundInv
  <2> QED  BY <1>4, <2>1, <2>2 DEF game_actions_sort
<1>5. CASE game_action_partition \/ game_action_quick_sort
  <2>1. /\ Range(taken') = Range(taken) /\ Len(taken') = Len(taken) /\ round = "select"
        /\ left = Len(taken) /\ UNCHANGED <<round, due, left, out>>
    BY <1>5, <1>i, SortStep
  <2> QED  BY <2>1, <1>i DEF RoundInv
<1>6. CASE get_player_actions
  <2>1. round = "select" /\ todo = <<>> /\ UNCHANGED <<round, due, taken, todo>>
    BY <1>6, <1>i, ExamineStep
  <2> QED  BY <2>1, <1>i DEF RoundInv
<1>7. CASE Pass
  <2>1. todo = <<>> /\ left = 0 /\ round' = "idle" /\ UNCHANGED <<todo, left>>
    BY <1>7, <1>i, PassStep
  <2> QED  BY <2>1 DEF RoundInv
<1>8. CASE UNCHANGED intakeVars
  BY <1>0, <1>8 DEF intakeVars
<1> QED
  BY <1>1, <1>2, <1>3, <1>4, <1>5, <1>6, <1>7, <1>8 DEF IntakeNext

\* What was sent is late by Delay at most when it is received, or is forgotten.
LEMMA DeliveryStep ==
  IntakeInv /\ [IntakeNext]_intakeVars => (AllSent /\ PassedSent /\ NotTooLate)'
<1> SUFFICES ASSUME IntakeInv, [IntakeNext]_intakeVars PROVE (AllSent /\ PassedSent /\ NotTooLate)'
  OBVIOUS
<1>i. TypeOK /\ RoundInv /\ AllSent /\ PassedSent /\ NotTooLate /\ Chosen
  BY DEF IntakeInv
<1>t. /\ sent \in [Player -> Nat] /\ network \subseteq Message /\ pool \in Seq(Message)
      /\ due \subseteq Message /\ passed \in [Player -> Nat \cup {-1}] /\ Delay \in Nat
  BY <1>i, NetworkAssumption DEF TypeOK
<1>m. /\ Range(pool) \subseteq Message
      /\ \A m \in Message : m.id \in Player /\ m.serial \in Nat
  BY <1>t, ElementsOf DEF Message
<1>0. ASSUME UNCHANGED <<sent, pool, due, passed>>, network' \subseteq network
      PROVE  (AllSent /\ PassedSent /\ NotTooLate)'
  <2>1. Range(pool') = Range(pool)
    BY <1>0
  <2> QED  BY <1>0, <1>i, <2>1 DEF AllSent, PassedSent, NotTooLate
<1>1. ASSUME NEW p \in Player, Send(p) PROVE (AllSent /\ PassedSent /\ NotTooLate)'
  <2>1. /\ sent' = [sent EXCEPT ![p] = @ + 1]
        /\ \A m \in network' :
             \/ m \in network /\ (m.id = p => ~Behind(m))
             \/ m.id = p /\ m.serial = sent[p] /\ m.action \in Action(p)
    BY <1>1, <1>i, SentType
  <2>2. UNCHANGED <<pool, due, passed>> /\ Range(pool') = Range(pool)
    BY <1>1 DEF Send, roundVars
  <2>3. \A q \in Player : sent'[q] \in Nat /\ sent'[q] = IF q = p THEN sent[p] + 1 ELSE sent[q]
    BY <1>t, <2>1
  <2>4. ASSUME NEW m \in network' \cup Range(pool') \cup due'
        PROVE  m.serial < sent'[m.id] /\ (m.id \notin BombSenders => m.action = "MOVE")
    <3>1. CASE m \in network \cup Range(pool) \cup due
      <4>1. m.serial < sent[m.id] /\ (m.id \notin BombSenders => m.action = "MOVE")
        BY <3>1, <1>i DEF AllSent
      <4>2. m.id \in Player /\ m.serial \in Nat
        BY <3>1, <1>t, <1>m
      <4>3. sent[m.id] <= sent'[m.id] /\ sent[m.id] \in Nat
        BY <4>2, <1>t, <2>3
      <4> QED  BY <4>1, <4>2, <4>3, <2>3
    <3>2. CASE m.id = p /\ m.serial = sent[p] /\ m.action \in Action(p)
      BY <3>2, <1>t, <2>3 DEF Action
    <3> QED  BY <2>1, <2>2, <2>4, <3>1, <3>2
  <2>5. ASSUME NEW m \in network' PROVE sent'[m.id] <= m.serial + Delay + 1
    <3>1. CASE m \in network /\ (m.id = p => ~Behind(m))
      <4>1. m.id \in Player /\ m.serial \in Nat /\ sent[m.id] <= m.serial + Delay + 1
        BY <3>1, <1>t, <1>m, <1>i DEF NotTooLate
      <4>2. CASE m.id = p
        BY <3>1, <4>1, <4>2, <1>t, <2>3 DEF Behind
      <4>3. CASE m.id # p
        BY <4>1, <4>3, <2>3
      <4> QED  BY <4>2, <4>3
    <3>2. CASE m.id = p /\ m.serial = sent[p]
      BY <3>2, <1>t, <2>3
    <3> QED  BY <2>1, <3>1, <3>2
  <2>6. AllSent'
    BY <2>4 DEF AllSent
  <2>7. PassedSent'
    BY <1>i, <1>t, <2>2, <2>3 DEF PassedSent
  <2>8. NotTooLate'
    BY <1>i, <2>2, <2>5 DEF NotTooLate
  <2> QED  BY <2>6, <2>7, <2>8
<1>2. ASSUME NEW m \in network, Lose(m) PROVE (AllSent /\ PassedSent /\ NotTooLate)'
  BY <1>0, <1>2 DEF Lose, roundVars
<1>3. ASSUME NEW m \in network, Receive(m) PROVE (AllSent /\ PassedSent /\ NotTooLate)'
  <2>1. /\ UNCHANGED <<sent, due, passed>> /\ pool' = Append(pool, m)
        /\ network' \subseteq network
    BY <1>3 DEF Receive, roundVars
  <2>2. m \in Message
    BY <1>t
  <2>3. Range(pool') = Range(pool) \cup {m}
    BY <1>t, <2>1, <2>2, RangeOfAppend
  <2>4. AllSent' /\ PassedSent'
    BY <1>i, <2>1, <2>3 DEF AllSent, PassedSent
  <2>5. /\ passed[m.id] <= m.serial + Delay
        /\ \A n \in due : n.id = m.id => n.serial <= m.serial + Delay
    <3>1. m.id \in Player /\ m.serial \in Nat /\ sent[m.id] \in Nat /\ passed[m.id] \in Int
      BY <2>2, <1>t, <1>m
    <3>2. sent[m.id] <= m.serial + Delay + 1 /\ passed[m.id] < sent[m.id]
      BY <3>1, <1>i DEF NotTooLate, PassedSent
    <3>3. \A n \in due : n.serial \in Nat /\ (n.id = m.id => n.serial < sent[m.id])
      BY <1>i, <1>t, <1>m DEF AllSent
    <3> QED  BY <3>1, <3>2, <3>3, <1>t
  <2>6. NotTooLate'
    BY <1>i, <2>1, <2>3, <2>5 DEF NotTooLate
  <2> QED  BY <2>4, <2>6
<1>4. CASE Copy
  <2>1. UNCHANGED <<sent, network, passed>> /\ due' = Range(pool) /\ pool' = <<>>
    BY <1>4 DEF Copy, clients
  <2>2. Range(pool') = {}
    BY <2>1 DEF Range
  <2> QED  BY <1>i, <2>1, <2>2 DEF AllSent, PassedSent, NotTooLate
<1>5. CASE game_actions_sort
  BY <1>0, <1>5 DEF game_actions_sort, clients
<1>6. CASE game_action_partition \/ game_action_quick_sort
  BY <1>0, <1>6 DEF game_action_partition, game_action_quick_sort, clients
<1>7. CASE get_player_actions
  BY <1>0, <1>7 DEF get_player_actions, clients
<1>8. CASE Pass
  <2>1. UNCHANGED <<sent, network, pool>> /\ due' = {} /\ round = "select" /\ Range(pool') = Range(pool)
    BY <1>8, <1>i, PassStep DEF clients
  <2>2. ASSUME NEW p \in Player
        PROVE  \/ passed'[p] = passed[p]
               \/ \E n \in due : n.id = p /\ passed'[p] = n.serial
    <3> DEFINE New(q) == Max({passed[q]} \cup {m.serial : m \in {n \in Range(out.moves) : n.id = q}})
    <3>1. passed' = [q \in Player |-> New(q)]
      BY <1>8, <1>i, PassStep
    <3>2. \/ New(p) = passed[p]
          \/ \E m \in Range(out.moves) :
               m.id = p /\ New(p) = IF passed[p] >= m.serial THEN passed[p] ELSE m.serial
      BY <1>i, PassedOne
    <3>3. Range(out.moves) \subseteq due
      BY <1>i, <2>1 DEF Chosen
    <3>4. passed'[p] = New(p)
      BY <3>1
    <3> HIDE DEF New
    <3> QED  BY <3>2, <3>3, <3>4
  <2>3. PassedSent'
    BY <1>i, <2>1, <2>2 DEF PassedSent, AllSent
  <2>4. AllSent'
    BY <1>i, <2>1 DEF AllSent
  <2>5. ASSUME NEW m \in Range(pool) PROVE passed'[m.id] <= m.serial + Delay
    BY <1>i, <1>m, <2>2 DEF NotTooLate
  <2>6. NotTooLate'
    BY <1>i, <2>1, <2>5 DEF NotTooLate
  <2> QED  BY <2>3, <2>4, <2>6
<1>9. CASE UNCHANGED intakeVars
  BY <1>0, <1>9 DEF intakeVars, clients, roundVars
<1> QED
  BY <1>1, <1>2, <1>3, <1>4, <1>5, <1>6, <1>7, <1>8, <1>9 DEF IntakeNext

-----------------------------------------------------------------------------
(* What a round chooses. *)

\* What is next after the newest move passed is newer.
LEMMA NextIsNewer ==
  ASSUME IntakeInv, NEW m \in due, m.id \notin BombSenders,
         last[m.id] = LastNumber(m.id), IsNext(m)
  PROVE  m.serial > passed[m.id]
<1>1. /\ m.id \in Player /\ m.serial \in Nat /\ passed[m.id] \in Nat \cup {-1}
      /\ last[m.id] \in 0..ServerLimit - 1
  BY DEF IntakeInv, TypeOK, Message
<1>2. passed[m.id] <= m.serial + Delay
  BY DEF IntakeInv, NotTooLate
<1>3. CASE passed[m.id] = -1
  BY <1>1, <1>3
<1>4. CASE passed[m.id] # -1
  <2>1. passed[m.id] \in Nat /\ last[m.id] = passed[m.id] % ClientLimit
    BY <1>1, <1>4 DEF LastNumber
  <2>2. passed[m.id] % ClientLimit < ServerLimit
    BY <1>1, <2>1, LimitAssumption
  <2>3. ASSUME m.serial <= passed[m.id] PROVE FALSE
    <3>1. ~is_next_message(passed[m.id] % ClientLimit, m.serial % ClientLimit)
      BY <1>1, <1>2, <2>1, <2>2, <2>3, OldIsNotNext
    <3> QED  BY <2>1, <3>1 DEF IsNext, message_number
  <2> QED  BY <1>1, <2>3
<1> QED  BY <1>3, <1>4

\* What is fresh is next.
LEMMA FreshMoveIsNext ==
  ASSUME IntakeInv, NEW m \in due, last[m.id] = LastNumber(m.id), Fresh(m)
  PROVE  IsNext(m)
<1>1. /\ m.id \in Player /\ m.serial \in Nat /\ passed[m.id] \in Nat \cup {-1}
      /\ last[m.id] \in 0..ServerLimit - 1
  BY DEF IntakeInv, TypeOK, Message
<1>2. m.serial - passed[m.id] \in 1..ServerLimit \div 2 /\ m.serial % ClientLimit < ServerLimit
  BY DEF Fresh, message_number
<1>3. CASE passed[m.id] = -1
  <2>1. m.serial < ServerLimit \div 2
    <3>1. PICK h \in Int : h = ServerLimit \div 2
      BY LimitAssumption
    <3>2. m.serial - (-1) <= h
      BY <1>2, <1>3, <3>1
    <3> QED  BY <1>1, <3>1, <3>2
  <2>2. is_next_message(ServerLimit - 1, m.serial % ClientLimit)
    BY <1>1, <2>1, FirstIsNext
  <2> QED  BY <1>3, <2>2 DEF IsNext, message_number, LastNumber
<1>4. CASE passed[m.id] # -1
  <2>1. passed[m.id] \in Nat /\ last[m.id] = passed[m.id] % ClientLimit
    BY <1>1, <1>4 DEF LastNumber
  <2>2. passed[m.id] % ClientLimit < ServerLimit
    BY <1>1, <2>1, LimitAssumption
  <2>3. is_next_message(passed[m.id] % ClientLimit, m.serial % ClientLimit)
    BY <1>1, <1>2, <2>1, <2>2, FreshIsNext
  <2> QED  BY <2>1, <2>3 DEF IsNext, message_number
<1> QED  BY <1>3, <1>4

\* The number of the move passed is the last number.
LEMMA LastStep ==
  ASSUME IntakeInv, Pass, NEW p \in Player \ BombSenders
  PROVE  last[p] = LastNumber(p)' /\ (Has(out.moves, p) => passed'[p] > passed[p])
<1> DEFINE New(q) == Max({passed[q]} \cup {m.serial : m \in {n \in Range(out.moves) : n.id = q}})
<1>1. /\ TypeOK /\ passed[p] \in Nat \cup {-1} /\ round = "select"
      /\ out.moves \in Seq(Message) /\ Range(out.moves) \subseteq Message
  BY PassStep, RoundTypes, ElementsOf DEF IntakeInv, TypeOK
<1>2. passed'[p] = New(p)
  BY <1>1, PassStep
<1>3. \/ ~Has(out.moves, p) /\ New(p) = passed[p]
      \/ \E m \in Range(out.moves) :
            m.id = p /\ New(p) = IF passed[p] >= m.serial THEN passed[p] ELSE m.serial
  BY <1>1, PassedOne
<1> HIDE DEF New
<1>4. CASE ~Has(out.moves, p) /\ New(p) = passed[p]
  <2>1. last[p] = LastNumber(p)
    BY <1>1, <1>4 DEF IntakeInv, LastKnown
  <2> QED  BY <1>2, <1>4, <2>1 DEF LastNumber
<1>5. ASSUME NEW m \in Range(out.moves), m.id = p,
             New(p) = IF passed[p] >= m.serial THEN passed[p] ELSE m.serial
      PROVE  last[p] = LastNumber(p)' /\ passed'[p] > passed[p]
  <2>1. m.serial \in Nat /\ m.serial > passed[p] /\ last[p] = m.serial % ClientLimit
    BY <1>1, <1>5 DEF IntakeInv, Chosen, Message, message_number
  <2>2. passed'[p] = m.serial
    BY <1>1, <1>2, <1>5, <2>1
  <2> QED  BY <2>1, <2>2 DEF LastNumber
<1> QED  BY <1>3, <1>4, <1>5

\* One message examined.
LEMMA ExaminedOne ==
  ASSUME IntakeInv, get_player_actions
  PROVE  (LastKnown /\ Chosen /\ Examined)'
<1>0. /\ round = "select" /\ left \in 1..Len(taken) /\ left' = left - 1
      /\ taken[left] \in Message /\ taken[left] \in due /\ Consider(taken[left])
      /\ UNCHANGED <<round, due, taken, passed>>
  BY ExamineStep DEF IntakeInv
<1> PICK m \in Message : m = taken[left]
  BY <1>0
<1>1. /\ round = "select" /\ left \in 1..Len(taken) /\ left' = left - 1
      /\ m = taken[left] /\ m \in Message /\ m \in due /\ Consider(m)
      /\ UNCHANGED <<round, due, taken, passed>>
  BY <1>0
<1>2. /\ TypeOK /\ LastKnown /\ Chosen /\ Examined
      /\ out.moves \in Seq(Message) /\ out.bombs \in Seq(Message) /\ Len(taken) \in Nat
      /\ last \in [Player -> 0..ServerLimit - 1]
  BY RoundTypes DEF IntakeInv
<1>3. \A i \in left' + 1..Len(taken') : taken'[i] = m \/ (i \in left + 1..Len(taken) /\ taken'[i] = taken[i])
  BY <1>1, <1>2
<1>4. /\ m.id \in Player
      /\ \A n \in due : n \in Message /\ (n.id \notin BombSenders => n.action = "MOVE")
  BY <1>1 DEF IntakeInv, TypeOK, AllSent, Message
<1>5. \A i \in left + 1..Len(taken) : taken[i] \in due
  <2>1. Range(taken) = due /\ Range(taken) = {taken[i] : i \in 1..Len(taken)}
    BY <1>1, RoundTypes, ElementsOf DEF IntakeInv, RoundInv
  <2> QED  BY <1>1, <2>1
<1>6. /\ \A n : (n \in due)' <=> n \in due
      /\ \A n : Fresh(n)' <=> Fresh(n)
      /\ OnlyBombs' <=> OnlyBombs
  BY <1>1 DEF Fresh, OnlyBombs
<1>x. ASSUME \A n \in Message : n = m \/ Answered(n) => Answered(n)'
      PROVE  Examined'
  <2> SUFFICES ASSUME NEW i \in left' + 1..Len(taken') PROVE Answered(taken[i])'
    BY DEF Examined
  <2>1. taken'[i] = m \/ (i \in left + 1..Len(taken) /\ taken'[i] = taken[i])
    BY <1>3
  <2>2. taken'[i] \in Message
    BY <1>1, <1>4, <1>5, <2>1
  <2> PICK n \in Message : n = taken'[i]
    BY <2>2
  <2>3. n = m \/ Answered(n)
    BY <1>1, <1>2, <2>1 DEF Examined
  <2>4. Answered(n)'
    BY <1>x, <2>3
  <2> QED  BY <2>4 DEF Answered, Fresh, OnlyBombs, IsNext, message_number
<1>7. CASE /\ IsNext(m) /\ m.action = "MOVE" /\ ~Has(out.moves, m.id)
           /\ out'.moves = Append(out.moves, m) /\ out'.bombs = out.bombs
           /\ last' = [last EXCEPT ![m.id] = IF Has(out.bombs, m.id) THEN @ ELSE message_number(m)]
  <2>1. Range(out'.moves) = Range(out.moves) \cup {m} /\ out'.moves \in Seq(Message)
    BY <1>1, <1>2, <1>7, RangeOfAppend
  <2>2. \A q : Has(out'.moves, q) <=> Has(out.moves, q) \/ q = m.id
    BY <1>2, <2>1, HasOne
  <2>3. \A q \in Player : q # m.id => last'[q] = last[q]
    BY <1>2, <1>7
  <2>4. \A n \in Range(out.moves) : n.id # m.id /\ n.id \in Player
    <3>1. Range(out.moves) \subseteq Message
      BY <1>2, ElementsOf
    <3>2. \A n \in Range(out.moves) : n.id # m.id
      BY <1>2, <1>7, HasOne
    <3> QED  BY <3>1, <3>2 DEF Message
  <2>5. ASSUME m.id \notin BombSenders
        PROVE  m.serial > passed[m.id] /\ last'[m.id] = message_number(m)
    <3>1. last[m.id] = LastNumber(m.id)
      BY <1>2, <1>4, <1>7, <2>5 DEF LastKnown
    <3>2. m.serial > passed[m.id]
      BY <1>1, <1>7, <2>5, <3>1, NextIsNewer
    <3>3. ~Has(out.bombs, m.id)
      <4>1. \A n \in Range(out.bombs) : n \in due /\ n.action = "PLACE_BOMB"
        BY <1>1, <1>2 DEF Chosen
      <4> QED  BY <1>2, <1>4, <2>5, <4>1, HasOne
    <3> QED  BY <1>2, <1>4, <1>7, <3>2, <3>3
  <2>6. LastKnown'
    BY <1>1, <1>2, <2>2, <2>3 DEF LastKnown, LastNumber
  <2>7. Chosen'
    BY <1>1, <1>2, <1>7, <2>1, <2>3, <2>4, <2>5 DEF Chosen, message_number
  <2>8. ~OnlyBombs
    BY <1>1, <1>7 DEF OnlyBombs
  <2>9. \A n : Answered(n) => Answered(n)'
    BY <1>6, <2>2, <2>8 DEF Answered
  <2>10. Answered(m)'
    BY <1>6, <2>2, <2>8 DEF Answered
  <2>11. Examined'
    BY <1>x, <2>9, <2>10
  <2> QED  BY <2>6, <2>7, <2>11
<1>8. CASE /\ IsNext(m) /\ m.action = "PLACE_BOMB" /\ ~Has(out.bombs, m.id)
           /\ out'.moves = out.moves /\ out'.bombs = Append(out.bombs, m)
           /\ last' = [last EXCEPT ![m.id] = IF Has(out.moves, m.id) THEN @ ELSE message_number(m)]
  <2>1. Range(out'.bombs) = Range(out.bombs) \cup {m} /\ out'.bombs \in Seq(Message)
    BY <1>1, <1>2, <1>8, RangeOfAppend
  <2>2. \A q : Has(out'.bombs, q) <=> Has(out.bombs, q) \/ q = m.id
    BY <1>2, <2>1, HasOne
  <2>3. \A q \in Player : q # m.id => last'[q] = last[q]
    BY <1>2, <1>8
  <2>4. m.id \in BombSenders
    BY <1>1, <1>4, <1>8
  <2>5. LastKnown'
    BY <1>1, <1>2, <1>8, <2>3, <2>4 DEF LastKnown, LastNumber
  <2>6. Chosen'
    <3>1. \A n \in Range(out.moves) : n.id \in Player
      <4>1. Range(out.moves) \subseteq Message
        BY <1>2, ElementsOf
      <4> QED  BY <4>1 DEF Message
    <3> QED  BY <1>1, <1>2, <1>8, <2>1, <2>3, <2>4, <3>1 DEF Chosen, message_number
  <2>7. ASSUME NEW n \in Message, Answered(n) \/ n = m PROVE Answered(n)'
    <3>1. CASE n.id = m.id
      BY <1>6, <1>8, <2>2, <2>4, <3>1 DEF Answered
    <3>2. CASE n.id # m.id
      <4>1. last'[n.id] = last[n.id]
        BY <2>3, <3>2 DEF Message
      <4>2. IsNext(n)' <=> IsNext(n)
        BY <4>1 DEF IsNext, message_number
      <4> QED  BY <1>6, <1>8, <2>2, <2>7, <3>2, <4>2 DEF Answered
    <3> QED  BY <3>1, <3>2
  <2>8. Examined'
    <3>1. \A n \in Message : n = m \/ Answered(n) => Answered(n)'
      BY <2>7
    <3> QED  BY <3>1, <1>x
  <2> QED  BY <2>5, <2>6, <2>8
<1>9. CASE /\ ~(IsNext(m) /\ m.action = "MOVE" /\ ~Has(out.moves, m.id))
           /\ ~(IsNext(m) /\ m.action = "PLACE_BOMB" /\ ~Has(out.bombs, m.id))
           /\ out' = out /\ last' = last
  <2>1. LastKnown' /\ Chosen'
    BY <1>1, <1>2, <1>9 DEF LastKnown, LastNumber, Chosen, message_number
  <2>2. \A n : Answered(n) => Answered(n)'
    BY <1>6, <1>9 DEF Answered, IsNext, message_number
  <2>3. ASSUME m.id \notin BombSenders, Fresh(m) PROVE Has(out.moves, m.id)
    <3>1. SUFFICES ASSUME ~Has(out.moves, m.id) PROVE FALSE
      OBVIOUS
    <3>2. last[m.id] = LastNumber(m.id)
      BY <1>2, <1>4, <2>3, <3>1 DEF LastKnown
    <3>3. IsNext(m)
      BY <1>1, <2>3, <3>2, FreshMoveIsNext
    <3>4. m.action = "MOVE"
      BY <1>1, <1>4, <2>3
    <3> QED  BY <1>9, <3>1, <3>3, <3>4
  <2>4. Answered(m)
    BY <1>9, <2>3 DEF Answered
  <2>5. Examined'
    BY <1>x, <2>2, <2>4
  <2> QED  BY <2>1, <2>5
<1> QED  BY <1>1, <1>2, <1>7, <1>8, <1>9, ConsiderCases

LEMMA ChoiceStep ==
  IntakeInv /\ [IntakeNext]_intakeVars => (LastKnown /\ Chosen /\ Examined)'
<1> SUFFICES ASSUME IntakeInv, [IntakeNext]_intakeVars PROVE (LastKnown /\ Chosen /\ Examined)'
  OBVIOUS
<1>i. TypeOK /\ RoundInv /\ LastKnown /\ Chosen /\ Examined
  BY DEF IntakeInv
<1>0. ASSUME UNCHANGED roundVars, round' = round, passed' = passed
      PROVE  (LastKnown /\ Chosen /\ Examined)'
  BY <1>0, <1>i
  DEF roundVars, LastKnown, LastNumber, Chosen, Examined, Answered, Fresh, OnlyBombs, IsNext, message_number
<1>1. ASSUME NEW p \in Player, Send(p) PROVE (LastKnown /\ Chosen /\ Examined)'
  BY <1>0, <1>1 DEF Send
<1>2. ASSUME NEW m \in network, Lose(m) \/ Receive(m) PROVE (LastKnown /\ Chosen /\ Examined)'
  BY <1>0, <1>2 DEF Lose, Receive
<1>3. CASE Copy
  <2>1. round = "idle" /\ round' = "copied" /\ UNCHANGED <<last, passed>>
    BY <1>3 DEF Copy
  <2> QED  BY <1>i, <2>1 DEF LastKnown, LastNumber, Chosen, Examined
<1>4. CASE game_actions_sort
  <2>1. CASE UNCHANGED <<round, todo, left>>
    BY <1>0, <1>4, <2>1 DEF game_actions_sort, roundVars
  <2>2. CASE round' = "select" /\ left' = Len(taken)
    <3>1. round = "copied" /\ UNCHANGED <<due, taken, last, out, passed>>
      BY <1>4 DEF game_actions_sort
    <3>2. out = Nothing
      BY <1>i, <3>1 DEF RoundInv
    <3>3. Range(out'.moves) = {} /\ Range(out'.bombs) = {}
      BY <3>1, <3>2 DEF Nothing, Range
    <3>4. LastKnown' /\ Chosen'
      BY <1>i, <3>1, <3>3 DEF LastKnown, LastNumber, Chosen
    <3>5. Len(taken) \in Nat
      BY <1>i, RoundTypes
    <3>6. Examined'
      BY <2>2, <3>1, <3>5 DEF Examined
    <3> QED  BY <3>4, <3>6
  <2> QED  BY <1>4, <2>1, <2>2 DEF game_actions_sort
<1>5. CASE game_action_partition \/ game_action_quick_sort
  <2>1. /\ Len(taken') = Len(taken) /\ left = Len(taken) /\ Len(taken) \in Nat
        /\ UNCHANGED <<round, due, left, last, out, passed>>
    BY <1>5, <1>i, SortStep, RoundTypes
  <2>2. LastKnown' /\ Chosen'
    BY <1>i, <2>1 DEF LastKnown, LastNumber, Chosen, message_number
  <2>3. Examined'
    BY <2>1 DEF Examined
  <2> QED  BY <2>2, <2>3
<1>6. CASE get_player_actions
  BY <1>6, ExaminedOne
<1>7. CASE Pass
  <2>1. round' = "idle" /\ last' = last
    BY <1>7, <1>i, PassStep
  <2>2. Chosen' /\ Examined'
    BY <2>1 DEF Chosen, Examined
  <2>3. LastKnown'
    <3>1. \A p \in Player \ BombSenders : last'[p] = LastNumber(p)'
      BY <1>7, <2>1, LastStep
    <3> QED  BY <3>1 DEF LastKnown
  <2> QED  BY <2>2, <2>3
<1>8. CASE UNCHANGED intakeVars
  BY <1>0, <1>8 DEF intakeVars
<1> QED
  BY <1>1, <1>2, <1>3, <1>4, <1>5, <1>6, <1>7, <1>8 DEF IntakeNext

-----------------------------------------------------------------------------
(* The theorems about the intake. *)

LEMMA IntakeInvariant == IntakeSpec => []IntakeInv
<1>1. IntakeInv /\ [IntakeNext]_intakeVars => IntakeInv'
  BY IntakeTypeStep, RoundInvStep, DeliveryStep, ChoiceStep DEF IntakeInv
<1> QED  BY <1>1, IntakeInitially, PTL DEF IntakeSpec

\* Only Pass ends a round.
LEMMA OnlyPass ==
  ASSUME [IntakeNext]_intakeVars, Passes
  PROVE  Pass
<1>1. round = "select" /\ round' = "idle"
  BY DEF Passes
<1> QED
  BY <1>1
  DEF IntakeNext, intakeVars, Send, Lose, Receive, Copy, game_actions_sort, game_action_partition,
      game_action_quick_sort, get_player_actions

\* Every variable of the intake keeps its type: the partition stays within the
\* copy, and each player is once at most in the arrays of moves and of bombs
\* (src/src/network_server.c:874-1007).
THEOREM IntakeTypeCorrect == IntakeSpec => []TypeOK
<1>1. IntakeInv => TypeOK
  BY DEF IntakeInv
<1> QED  BY <1>1, IntakeInvariant, PTL

\* The moves of a player who places no bomb reach update_game_board in the
\* order they were sent and each at most once, for all limits and any number of
\* messages, however often the numbers wrap.
THEOREM MovesInOrder == IntakeSpec => MovesGoForward
<1>1. ASSUME IntakeInv, [IntakeNext]_intakeVars, Passes, NEW m \in Range(out'.moves), m.id \notin BombSenders
      PROVE  m.serial > passed[m.id]
  <2>1. Pass
    BY <1>1, OnlyPass
  <2>2. out'.moves = out.moves /\ round = "select"
    BY <1>1, <2>1, PassStep DEF IntakeInv
  <2> QED  BY <1>1, <2>2 DEF IntakeInv, Chosen
<1>2. IntakeInv /\ [IntakeNext]_intakeVars =>
        [Passes => \A m \in Range(out'.moves) :
           m.id \notin BombSenders => m.serial > passed[m.id]]_intakeVars
  BY <1>1
<1> QED  BY <1>2, IntakeInvariant, PTL DEF IntakeSpec, MovesGoForward

\* A round with a fresh move of a player who places no bomb makes the player
\* advance, and one with no move takes a bomb of each player who has one next.
THEOREM FreshIsTaken == IntakeSpec => FreshRequestTaken
<1>1. ASSUME IntakeInv, [IntakeNext]_intakeVars, Passes, NEW m \in due
      PROVE  /\ m.id \notin BombSenders /\ Fresh(m) => passed'[m.id] > passed[m.id]
             /\ m.action = "PLACE_BOMB" /\ OnlyBombs => Has(out'.bombs, m.id) \/ ~IsNext(m)
  <2>1. Pass
    BY <1>1, OnlyPass
  <2>2. /\ round = "select" /\ left = 0
        /\ out'.bombs = out.bombs \/ (out.moves # <<>> /\ out'.bombs = <<>>)
    BY <1>1, <2>1, PassStep DEF IntakeInv
  <2>3. Answered(m)
    <3>1. taken \in Seq(Message) /\ Range(taken) = due
      BY <1>1, <2>2, RoundTypes DEF IntakeInv, RoundInv
    <3>2. PICK i \in 1..Len(taken) : taken[i] = m
      BY <3>1, ElementsOf
    <3> QED  BY <1>1, <2>2, <3>2 DEF IntakeInv, Examined
  <2>4. m.id \in Player
    BY <1>1 DEF IntakeInv, TypeOK, Message
  <2>5. m.id \notin BombSenders /\ Fresh(m) => passed'[m.id] > passed[m.id]
    BY <1>1, <2>1, <2>3, <2>4, LastStep DEF Answered
  <2>6. ASSUME OnlyBombs PROVE out'.bombs = out.bombs
    <3>1. Range(out.moves) = {}
      BY <1>1, <2>2, <2>6 DEF IntakeInv, Chosen, OnlyBombs
    <3>2. out.moves = <<>>
      <4>1. out.moves \in Seq(Message)
        BY <1>1, RoundTypes DEF IntakeInv
      <4>2. Range(out.moves) = {out.moves[i] : i \in 1..Len(out.moves)}
        BY <4>1, ElementsOf
      <4>3. \A i \in 1..Len(out.moves) : out.moves[i] \in {out.moves[j] : j \in 1..Len(out.moves)}
        OBVIOUS
      <4>4. ~(1 \in 1..Len(out.moves))
        BY <3>1, <4>2, <4>3
      <4>5. PICK n \in Nat : n = Len(out.moves)
        BY <4>1, LenProperties
      <4> QED  BY <4>1, <4>4, <4>5, EmptySeq
    <3> QED  BY <2>2, <3>2
  <2> QED  BY <2>3, <2>5, <2>6 DEF Answered
<1>2. IntakeInv /\ [IntakeNext]_intakeVars =>
        [Passes => \A m \in due :
           /\ m.id \notin BombSenders /\ Fresh(m) => passed'[m.id] > passed[m.id]
           /\ m.action = "PLACE_BOMB" /\ OnlyBombs => Has(out'.bombs, m.id) \/ ~IsNext(m)]_intakeVars
  BY <1>1
<1> QED  BY <1>2, IntakeInvariant, PTL DEF IntakeSpec, FreshRequestTaken

=============================================================================
