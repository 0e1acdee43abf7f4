------------------------ MODULE BoardBroadcast_proofs ------------------------
(***************************************************************************)
(* Proofs about BoardBroadcast, for boards of any dimensions that a byte   *)
(* holds and any tiles that may be sent.                                   *)
(*                                                                         *)
(* The argument.  The k-th difference is about the k-th position that      *)
(* changed, so that each change is sent once, and the position a client    *)
(* computes from the two bytes of a difference is the one it is about.     *)
(* Then every tile that is copied, sent or shown is one its position has   *)
(* had.  As long as nothing disturbs the messages, what is on its way and  *)
(* what is about to be sent make the board of the game out of the last     *)
(* board that was sent.                                                    *)
(***************************************************************************)
EXTENDS BoardBroadcast, Messages_proofs, FiniteSetTheorems, WellFoundedInduction

\* A client's board that shows g, and a board with differences applied.
Full(g) == [dim |-> Dim, grid |-> g]
With(b, diff) == update_tile_diff(b, [nb |-> Len(diff), diff |-> diff])

Update(diff) ==
  serialize_game_board_update([num |-> 0, nb |-> Len(diff) % NbLimit, diff |-> diff])

Diff == [x : 0..Width - 1, y : 0..Height - 1, tile : Tiles]
PositionOf(d) == coord_to_int_dim(d.x, d.y, Dim)

-----------------------------------------------------------------------------
(* Positions. *)

\* The dimensions and the tiles fit in bytes.
LEMMA Sizes ==
  /\ Width \in Nat \ {0} /\ Height \in Nat \ {0} /\ Width < 256 /\ Height < 256
  /\ Width * Height \in Nat /\ Cells \subseteq Nat \ {0}
<1>1. /\ Width \in Nat \ {0} /\ Height \in Nat \ {0} /\ Width < 256 /\ Height < 256
  BY DimAssumption DEF Byte
<1> QED  BY <1>1 DEF Cells

\* A quotient and a remainder give the number back, and stay within bounds.
LEMMA Division ==
  ASSUME NEW w \in Nat \ {0}, NEW h \in Nat \ {0}, NEW n \in Nat, n < w * h
  PROVE  /\ n \div w \in 0..h - 1 /\ n % w \in 0..w - 1
         /\ (n \div w) * w + (n % w) = n
<1>1. n \div w \in Int /\ n % w \in 0..w - 1 /\ w * (n \div w) + (n % w) = n
  OBVIOUS
<1> DEFINE q == n \div w
           r == n % w
<1>2. q \in Int /\ r \in 0..w - 1 /\ w * q + r = n
  BY <1>1
<1> HIDE DEF q, r
<1>3. 0 <= q
  <2>1. q <= -1 => w * q <= w * (-1)
    BY <1>2
  <2> QED  BY <1>2, <2>1
<1>4. q <= h - 1
  <2>1. q >= h => w * q >= w * h
    BY <1>2
  <2> QED  BY <1>2, <2>1
<1>5. q \in 0..h - 1 /\ r \in 0..w - 1 /\ q * w + r = n
  BY <1>2, <1>3, <1>4
<1> QED  BY <1>5 DEF q, r

\* The two coordinates of a position lead back to it.
LEMMA PositionBack ==
  ASSUME NEW i \in Cells, NEW tiles \in [Cells -> Tiles]
  PROVE  tile_diff(i, tiles) \in Diff /\ PositionOf(tile_diff(i, tiles)) = i
<1> DEFINE n == i - 1
<1>1. n \in Nat /\ n < Width * Height
  BY Sizes DEF Cells
<1>2. /\ n \div Width \in 0..Height - 1 /\ n % Width \in 0..Width - 1
      /\ (n \div Width) * Width + (n % Width) = n
  <2> HIDE DEF n
  <2> QED  BY <1>1, Sizes, Division
<1>3. tile_diff(i, tiles) = [x |-> n % Width, y |-> n \div Width, tile |-> tiles[i]]
  BY DEF tile_diff, int_to_coord
<1>4. (n \div Width) * Width + (n % Width) + 1 = i
  <2>1. i \in Nat
    BY Sizes
  <2> DEFINE m == (n \div Width) * Width + (n % Width)
  <2>2. m = n
    BY <1>2
  <2> HIDE DEF m
  <2>3. m + 1 = i
    BY <2>1, <2>2
  <2> QED  BY <2>3 DEF m
<1>5. tiles[i] \in Tiles
  OBVIOUS
<1> HIDE DEF n
<1>6. tile_diff(i, tiles) \in Diff
  BY <1>2, <1>3, <1>5 DEF Diff
<1>7. PositionOf(tile_diff(i, tiles)) = (n \div Width) * Width + (n % Width) + 1
  BY <1>3 DEF PositionOf, coord_to_int_dim, Dim
<1> QED  BY <1>4, <1>6, <1>7

\* A nonempty set of numbers up to n has a greatest one: the numbers of the set
\* from i on are fewest for it.
LEMMA GreatestNumber ==
  ASSUME NEW n \in Nat, NEW S \in SUBSET (1..n), S # {}
  PROVE  \E k \in S : \A j \in S : j <= k
<1> DEFINE Above == {{j \in S : j >= i} : i \in S}
<1>1. IsFiniteSet(S)
  <2>1. IsFiniteSet(1..n)
    BY FS_Interval
  <2> QED  BY <2>1, FS_Subset
<1>2. Above \subseteq FiniteSubsetsOf(S)
  <2> SUFFICES ASSUME NEW i \in S PROVE {j \in S : j >= i} \in FiniteSubsetsOf(S)
    OBVIOUS
  <2>1. {j \in S : j >= i} \in SUBSET S
    OBVIOUS
  <2> QED  BY <1>1, <2>1, FS_Subset DEF FiniteSubsetsOf
<1>3. PICK A \in Above : \A B \in Above : ~ (<<B, A>> \in StrictSubsetOrdering(S))
  <2>1. Above # {}
    OBVIOUS
  <2> HIDE DEF Above
  <2> QED  BY <1>2, <2>1, WFMin, FS_StrictSubsetOrderingWellFounded
<1>4. PICK k \in S : A = {j \in S : j >= k}
  OBVIOUS
<1>5. ASSUME NEW j \in S PROVE j <= k
  <2> SUFFICES ASSUME j > k PROVE FALSE
    OBVIOUS
  <2> DEFINE B == {i \in S : i >= j}
  <2>1. B \in SUBSET A /\ k \in A /\ k \notin B
    <3>1. j \in Nat /\ k \in Nat /\ \A i \in S : i \in Nat
      OBVIOUS
    <3>2. \A i \in S : i >= j => i >= k
      BY <3>1
    <3>3. k >= k /\ ~(k >= j)
      BY <3>1
    <3> QED  BY <1>4, <3>2, <3>3
  <2>3. B \in Above
    OBVIOUS
  <2>2. <<B, A>> \in StrictSubsetOrdering(S)
    BY <1>4, <2>1 DEF StrictSubsetOrdering
  <2> HIDE DEF B, Above
  <2> QED  BY <1>3, <2>2, <2>3
<1> QED  BY <1>5

Rank(S, i) == Cardinality({j \in S : j <= i})

\* The rank is a numbering of a set of positions, so that Nth finds each.
LEMMA NthIsANumbering ==
  ASSUME NEW S \in SUBSET Cells
  PROVE  /\ Cardinality(S) \in Nat
         /\ \A k \in 1..Cardinality(S) : Nth(S, k) \in S /\ Rank(S, Nth(S, k)) = k
         /\ \A i \in S : Rank(S, i) \in 1..Cardinality(S) /\ Nth(S, Rank(S, i)) = i
<1> DEFINE n == Cardinality(S)
           r == [i \in S |-> Rank(S, i)]
           Upto(i) == {j \in S : j <= i}
<1>1. IsFiniteSet(S) /\ n \in Nat
  <2>1. IsFiniteSet(Cells)
    BY Sizes, FS_Interval DEF Cells
  <2>2. IsFiniteSet(S)
    BY <2>1, FS_Subset
  <2> QED  BY <2>2, FS_CardinalityType
<1>2. S \subseteq Nat
  BY Sizes
<1>3. ASSUME NEW i \in S PROVE IsFiniteSet(Upto(i)) /\ Rank(S, i) \in 1..n
  <2>1. Upto(i) \in SUBSET S /\ i \in Upto(i)
    BY <1>2
  <2> HIDE DEF Upto
  <2>2. IsFiniteSet(Upto(i)) /\ Cardinality(Upto(i)) <= n
    BY <1>1, <2>1, FS_Subset
  <2>3. Cardinality(Upto(i)) \in Nat
    BY <2>2, FS_CardinalityType
  <2>4. Cardinality(Upto(i)) # 0
    BY <2>1, <2>2, FS_EmptySet
  <2>5. Rank(S, i) = Cardinality(Upto(i))
    BY DEF Rank, Upto
  <2> HIDE DEF n
  <2> QED  BY <1>1, <2>2, <2>3, <2>4, <2>5
<1>4. ASSUME NEW i \in S, NEW j \in S, i < j PROVE Rank(S, i) # Rank(S, j)
  <2>1. Upto(i) \in SUBSET Upto(j) /\ j \in Upto(j) /\ j \notin Upto(i)
    <3>1. i \in Nat /\ j \in Nat /\ \A k \in S : k \in Nat
      BY <1>2
    <3>2. \A k \in S : k <= i => k <= j
      BY <1>4, <3>1
    <3>3. Upto(i) \in SUBSET Upto(j)
      BY <3>2
    <3>4. j <= j /\ ~(j <= i)
      BY <1>4, <3>1
    <3> QED  BY <3>3, <3>4
  <2>2. IsFiniteSet(Upto(j))
    BY <1>3
  <2> HIDE DEF Upto
  <2>3. Cardinality(Upto(j)) # Cardinality(Upto(i))
    BY <2>1, <2>2, FS_Subset
  <2> QED  BY <2>3 DEF Rank, Upto
<1>5. ASSUME NEW i \in S, NEW j \in S, Rank(S, i) = Rank(S, j) PROVE i = j
  BY <1>2, <1>4, <1>5
<1>6. r \in Surjection(S, 1..n)
  <2>1. r \in Injection(S, 1..n)
    <3>1. r \in [S -> 1..n]
      BY <1>3
    <3>2. \A i, j \in S : r[i] = r[j] => i = j
      BY <1>5
    <3> HIDE DEF r
    <3> QED  BY <3>1, <3>2 DEF Injection, IsInjective
  <2>2. IsFiniteSet(1..n) /\ Cardinality(1..n) = n
    <3> HIDE DEF n
    <3> QED  BY <1>1, FS_Interval
  <2> HIDE DEF r
  <2> QED  BY <2>1, <2>2, FS_Injection
<1>7. \A k \in 1..n : \E i \in S : Rank(S, i) = k
  BY <1>6 DEF Surjection
<1>8. ASSUME NEW k \in 1..n PROVE Nth(S, k) \in S /\ Rank(S, Nth(S, k)) = k
  BY <1>7 DEF Nth, Rank
<1>9. ASSUME NEW i \in S PROVE Rank(S, i) \in 1..n /\ Nth(S, Rank(S, i)) = i
  BY <1>3, <1>5, <1>8
<1> QED  BY <1>1, <1>8, <1>9

-----------------------------------------------------------------------------
(* Differences. *)

\* One difference for each position that changed.
LEMMA DiffTyped ==
  ASSUME NEW g \in [Cells -> Tiles], NEW after \in [Cells -> Tiles]
  PROVE  LET diff == get_diff_with_board(g, after)
         IN  /\ diff \in Seq(Diff)
             /\ Len(diff) = Cardinality(Changed(g, after))
             /\ \A k \in 1..Len(diff) :
                  /\ PositionOf(diff[k]) = Nth(Changed(g, after), k)
                  /\ diff[k].tile = after[PositionOf(diff[k])]
                  /\ PositionOf(diff[k]) \in Cells
<1> DEFINE S == Changed(g, after)
           n == Cardinality(S)
           diff == [k \in 1..n |-> tile_diff(Nth(S, k), after)]
<1>1. S \in SUBSET Cells
  BY DEF Changed
<1> HIDE DEF S
<1>2. n \in Nat /\ \A k \in 1..n : Nth(S, k) \in Cells
  BY <1>1, NthIsANumbering
<1>3. \A k \in 1..n : /\ tile_diff(Nth(S, k), after) \in Diff
                      /\ PositionOf(tile_diff(Nth(S, k), after)) = Nth(S, k)
                      /\ tile_diff(Nth(S, k), after).tile = after[Nth(S, k)]
  <2>1. \A i : tile_diff(i, after).tile = after[i]
    BY DEF tile_diff
  <2> QED  BY <1>2, <2>1, PositionBack
<1> HIDE DEF n
<1>4. diff \in Seq(Diff) /\ Len(diff) = n
  BY <1>2, <1>3
<1>5. \A k \in 1..n : diff[k] = tile_diff(Nth(S, k), after)
  OBVIOUS
<1>6. get_diff_with_board(g, after) = diff
  BY DEF get_diff_with_board, n, S
<1> HIDE DEF diff
<1> QED  BY <1>2, <1>3, <1>4, <1>5, <1>6 DEF n, S

\* Applied to the board they were made from, the differences make the other.
LEMMA DiffMakesBoard ==
  ASSUME NEW g \in [Cells -> Tiles], NEW after \in [Cells -> Tiles]
  PROVE  With(Full(g), get_diff_with_board(g, after)) = Full(after)
<1> DEFINE S == Changed(g, after)
           diff == get_diff_with_board(g, after)
           Here(i) == {k \in 1..Len(diff) : PositionOf(diff[k]) = i}
           last(ks) == CHOOSE k \in ks : \A j \in ks : j <= k
           tile(i) == IF Here(i) = {} THEN g[i] ELSE diff[last(Here(i))].tile
<1>1. /\ Len(diff) = Cardinality(S)
      /\ \A k \in 1..Len(diff) : /\ PositionOf(diff[k]) = Nth(S, k)
                                 /\ diff[k].tile = after[PositionOf(diff[k])]
  BY DiffTyped
<1>2. S \in SUBSET Cells
  BY DEF Changed
<1>3. With(Full(g), diff) = Full([i \in Cells |-> tile(i)])
  <2> DEFINE b == Full(g)
             u == [nb |-> Len(diff), diff |-> diff]
             here(i) == {k \in 1..u.nb : coord_to_int_dim(u.diff[k].x, u.diff[k].y, b.dim) = i}
             patched == [i \in DOMAIN b.grid |->
                IF here(i) = {} THEN b.grid[i] ELSE u.diff[last(here(i))].tile]
  <2>1. /\ DOMAIN b.grid = Cells /\ b.grid = g /\ b.dim = Dim
        /\ u.nb = Len(diff) /\ u.diff = diff
    BY DEF Full
  <2>2. With(b, diff) = [b EXCEPT !.grid = patched]
    BY DEF With, update_tile_diff
  <2> HIDE DEF diff, b, u
  <2>3. ASSUME NEW i PROVE here(i) = Here(i)
    BY <2>1 DEF PositionOf
  <2> HIDE DEF here, Here, last
  <2>4. patched = [i \in Cells |-> tile(i)]
    BY <2>1, <2>3
  <2>5. With(b, diff) = [b EXCEPT !.grid = [i \in Cells |-> tile(i)]]
    BY <2>2, <2>4
  <2> HIDE DEF tile
  <2> QED  BY <2>5 DEF Full, b
<1>4. ASSUME NEW i \in Cells PROVE tile(i) = after[i]
  <2> HIDE DEF diff, S
  <2>1. CASE i \in S
    <3> DEFINE k == Rank(S, i)
    <3>1. k \in 1..Len(diff) /\ PositionOf(diff[k]) = i
      BY <1>1, <1>2, <2>1, NthIsANumbering
    <3>2. \A j \in 1..Len(diff) : PositionOf(diff[j]) = i => j = k
      BY <1>1, <1>2, <2>1, NthIsANumbering
    <3> HIDE DEF k
    <3>3. Here(i) = {k} /\ k <= k
      BY <3>1, <3>2
    <3>4. last(Here(i)) = k
      BY <3>3
    <3> HIDE DEF Here, last
    <3> QED  BY <1>1, <3>1, <3>3, <3>4
  <2>2. CASE i \notin S
    <3>1. g[i] = after[i]
      BY <2>2 DEF S, Changed
    <3>2. Here(i) = {}
      BY <1>1, <1>2, <2>2, NthIsANumbering
    <3> QED  BY <3>1, <3>2
  <2> QED  BY <2>1, <2>2
<1>5. [i \in Cells |-> tile(i)] = after
  <2> HIDE DEF tile
  <2> QED  BY <1>4
<1> HIDE DEF tile, diff
<1> QED  BY <1>3, <1>5 DEF diff

-----------------------------------------------------------------------------
(* What a message does to the board of a client. *)

\* A board replaces the one the client has.
LEMMA BoardApplied ==
  ASSUME NEW g \in [Cells -> Tiles], NEW b
  PROVE  Applied(b, BoardMessage(g)) = Full(g)
<1> DEFINE info == [num |-> 0, height |-> Height, width |-> Width, board |-> g]
<1>1. 0 \in Word /\ Height \in Byte /\ Width \in Byte
  BY Sizes DEF Word, Byte
<1>2. Height * Width = Width * Height
  BY Sizes
<1>3. g \in [1..Height * Width -> Tile]
  BY <1>2, TilesAssumption DEF Cells
<1>4. deserialize_game_board(BoardMessage(g)) = info
  <2> HIDE DEF info
  <2>1. info = [num |-> 0, height |-> Height, width |-> Width, board |-> g]
    BY DEF info
  <2>2. deserialize_game_board(serialize_game_board(info)) = info
    BY <1>1, <1>3, <2>1, BoardRoundTrip
  <2> QED  BY <2>1, <2>2 DEF BoardMessage
<1>5. info # NULL
  <2>1. \A t \in Tile : t \in Byte
    BY DEF Tile, Byte
  <2>2. g \in Seq(Byte)
    BY <1>2, <1>3, <2>1, Sizes
  <2> QED  BY <1>1, <2>2, NullAssumption
<1>6. Applied(b, BoardMessage(g)) = update_board(b, info)
  <2> HIDE DEF info
  <2> QED  BY <1>4, <1>5 DEF Applied
<1> QED  BY <1>6 DEF update_board, Full, Dim

\* As many differences as are sent.
LEMMA SentOf ==
  ASSUME NEW n \in Nat
  PROVE  n % NbLimit \in Byte /\ n % NbLimit \in 0..n
BY BoundsAssumption DEF Byte

\* Differences are applied, those that were sent.
LEMMA UpdateApplied ==
  ASSUME NEW diff \in Seq(Diff), NEW b
  PROVE  LET nb == Len(diff) % NbLimit
         IN  Applied(b, Update(diff))
               = update_tile_diff(b, [num |-> 0, nb |-> nb, diff |-> [k \in 1..nb |-> diff[k]]])
<1> DEFINE nb == Len(diff) % NbLimit
           u == [num |-> 0, nb |-> nb, diff |-> diff]
<1>1. nb \in Byte /\ nb \in 0..Len(diff) /\ 0 \in Word
  BY SentOf DEF Word
<1>2. \A d \in Diff : d \in [x : Byte, y : Byte, tile : Tile]
  BY Sizes, TilesAssumption DEF Diff, Byte
<1>3. \A k \in 1..nb : diff[k] \in [x : Byte, y : Byte, tile : Tile]
  BY <1>1, <1>2
<1> HIDE DEF nb
<1>4. /\ deserialize_game_board(serialize_game_board_update(u)) = NULL
      /\ deserialize_game_board_update(serialize_game_board_update(u))
           = [num |-> 0, nb |-> nb, diff |-> [k \in 1..nb |-> diff[k]]]
  BY <1>1, <1>3, UpdateRoundTrip
<1>5. Update(diff) = serialize_game_board_update(u)
  BY DEF Update, nb
<1> HIDE DEF u
<1> QED  BY <1>4, <1>5 DEF Applied, nb

\* When the number of the differences was not cut, all of them.
LEMMA AllApplied ==
  ASSUME NEW diff \in Seq(Diff), NEW b, Len(diff) % NbLimit >= Len(diff)
  PROVE  Applied(b, Update(diff)) = With(b, diff)
<1> DEFINE nb == Len(diff) % NbLimit
           u == [num |-> 0, nb |-> nb, diff |-> [k \in 1..nb |-> diff[k]]]
           v == [nb |-> Len(diff), diff |-> diff]
<1>1. nb = Len(diff)
  BY SentOf
<1> HIDE DEF nb
<1>2. Applied(b, Update(diff)) = update_tile_diff(b, u)
  BY UpdateApplied DEF nb
<1>3. [k \in 1..nb |-> diff[k]] = diff
  BY <1>1
<1>4. u.nb = v.nb /\ u.diff = v.diff
  BY <1>1, <1>3
<1> HIDE DEF u, v
<1>5. update_tile_diff(b, u) = update_tile_diff(b, v)
  <2> DEFINE here(w, i) ==
               {k \in 1..w.nb : coord_to_int_dim(w.diff[k].x, w.diff[k].y, b.dim) = i}
             last(ks) == CHOOSE k \in ks : \A j \in ks : j <= k
             tile(w, i) == IF here(w, i) = {} THEN b.grid[i] ELSE w.diff[last(here(w, i))].tile
  <2>1. \A w : update_tile_diff(b, w) = [b EXCEPT !.grid = [i \in DOMAIN b.grid |-> tile(w, i)]]
    BY DEF update_tile_diff
  <2>2. ASSUME NEW i PROVE here(u, i) = here(v, i)
    BY <1>4
  <2> HIDE DEF here, last
  <2>3. ASSUME NEW i PROVE tile(u, i) = tile(v, i)
    BY <1>4, <2>2
  <2> HIDE DEF tile
  <2>4. [i \in DOMAIN b.grid |-> tile(u, i)] = [i \in DOMAIN b.grid |-> tile(v, i)]
    BY <2>3
  <2> QED  BY <2>1, <2>4
<1> QED  BY <1>2, <1>5 DEF With, v

-----------------------------------------------------------------------------
(* What is shown is past. *)

GoodBoards == {g \in [Cells -> Tiles] : \A i \in Cells : g[i] \in past[i]}

GoodDiffs ==
  {diff \in Seq(Diff) :
     \A k \in 1..Len(diff) : /\ PositionOf(diff[k]) \in Cells
                             /\ diff[k].tile \in past[PositionOf(diff[k])]}

GoodMessages == {BoardMessage(g) : g \in GoodBoards} \cup {Update(diff) : diff \in GoodDiffs}

Grids == UNION {[1..n -> Tile] : n \in Nat}
Boards == [dim : [width : Nat, height : Nat], grid : Grids]
GoodShown == {b \in Boards : b.dim = Dim => b.grid \in GoodBoards}

ServerInv ==
  /\ past \in [Cells -> SUBSET Tiles] /\ grid \in GoodBoards
  /\ sec \in [at : {"sleep", "bombs", "send"}, copy : GoodBoards \cup {<<>>}]
  /\ sec.at = "send" => sec.copy \in GoodBoards
  /\ freq \in [at : {"wait", "send"}, diff : GoodDiffs]

ClientInv ==
  /\ board \in GoodShown
  /\ painter \in [{"board", "chat"} -> GoodShown \cup {NULL}]
  /\ screen \in GoodShown \cup {NULL}

PastInv == ServerInv /\ flight \in Seq(GoodMessages) /\ ClientInv

\* The past only grows, and what was good stays so.
LEMMA GoodStaysGood ==
  ASSUME \A i \in Cells : past[i] \subseteq past'[i]
  PROVE  /\ GoodBoards \subseteq GoodBoards' /\ GoodDiffs \subseteq GoodDiffs'
         /\ GoodMessages \subseteq GoodMessages' /\ GoodShown \subseteq GoodShown'
<1>1. GoodBoards \subseteq GoodBoards'
  BY DEF GoodBoards
<1>2. GoodDiffs \subseteq GoodDiffs'
  BY DEF GoodDiffs
<1>3. GoodShown \subseteq GoodShown'
  BY <1>1 DEF GoodShown
<1>4. GoodMessages \subseteq GoodMessages'
  BY <1>1, <1>2 DEF GoodMessages
<1> QED  BY <1>1, <1>2, <1>3, <1>4

\* A message shows nothing that was not there.
LEMMA AppliedIsGood ==
  ASSUME NEW b \in GoodShown, NEW m \in GoodMessages
  PROVE  Applied(b, m) \in GoodShown
<1>1. CASE \E g \in GoodBoards : m = BoardMessage(g)
  <2>1. PICK g \in GoodBoards : m = BoardMessage(g)
    BY <1>1
  <2>2. Applied(b, m) = Full(g)
    BY <2>1, BoardApplied DEF GoodBoards
  <2>3. g \in Grids
    BY <2>1, Sizes, TilesAssumption DEF GoodBoards, Grids, Cells
  <2>4. Dim \in [width : Nat, height : Nat]
    BY Sizes DEF Dim
  <2> QED  BY <2>1, <2>2, <2>3, <2>4 DEF GoodShown, Boards, Full
<1>2. CASE \E diff \in GoodDiffs : m = Update(diff)
  <2>1. PICK diff \in GoodDiffs : m = Update(diff)
    BY <1>2
  <2> DEFINE nb == Len(diff) % NbLimit
             u == [num |-> 0, nb |-> nb, diff |-> [k \in 1..nb |-> diff[k]]]
             here(i) == {k \in 1..u.nb : coord_to_int_dim(u.diff[k].x, u.diff[k].y, b.dim) = i}
             last(ks) == CHOOSE k \in ks : \A j \in ks : j <= k
             tile(i) == IF here(i) = {} THEN b.grid[i] ELSE u.diff[last(here(i))].tile
             patched == [i \in DOMAIN b.grid |-> tile(i)]
  <2>2. diff \in Seq(Diff) /\ nb \in 0..Len(diff)
    BY SentOf DEF GoodDiffs
  <2>3. Applied(b, m) = [b EXCEPT !.grid = patched]
    <3>1. Applied(b, m) = update_tile_diff(b, u)
      BY <2>1, <2>2, UpdateApplied
    <3> HIDE DEF u
    <3> QED  BY <3>1 DEF update_tile_diff
  <2>4. u.nb = nb /\ \A k \in 1..nb : u.diff[k] = diff[k]
    OBVIOUS
  <2> HIDE DEF u, nb
  \* Among the differences about a cell the last one counts.
  <2>5. ASSUME NEW i, here(i) # {}
        PROVE  /\ last(here(i)) \in 1..nb
               /\ coord_to_int_dim(diff[last(here(i))].x, diff[last(here(i))].y, b.dim) = i
    <3>1. here(i) \in SUBSET (1..nb) /\ IsFiniteSet(1..nb) /\ nb \in Nat
      BY <2>2, <2>4, FS_Interval
    <3>2. \E k \in here(i) : \A j \in here(i) : j <= k
      <4> HIDE DEF here
      <4> QED  BY <2>5, <3>1, GreatestNumber
    <3>3. last(here(i)) \in here(i)
      <4> HIDE DEF here
      <4> QED  BY <3>2
    <3> HIDE DEF last
    <3> QED  BY <2>4, <3>3
  <2> HIDE DEF last, here
  <2>6. b \in Boards /\ b.grid \in Grids
    BY DEF GoodShown, Boards
  <2>7. patched \in Grids
    <3>1. PICK n \in Nat : b.grid \in [1..n -> Tile]
      BY <2>6 DEF Grids
    <3>2. ASSUME NEW i \in 1..n PROVE tile(i) \in Tile
      <4>1. CASE here(i) = {}
        BY <3>1, <4>1
      <4>2. CASE here(i) # {}
        <5> DEFINE k == last(here(i))
        <5>1. k \in 1..nb
          BY <2>5, <4>2
        <5> HIDE DEF k
        <5>2. diff[k] \in Diff
          BY <2>2, <5>1
        <5>3. diff[k].tile \in Tile
          BY <5>2, TilesAssumption DEF Diff
        <5>4. tile(i) = diff[k].tile
          BY <2>4, <4>2, <5>1 DEF k
        <5> QED  BY <5>3, <5>4
      <4> QED  BY <4>1, <4>2
    <3> HIDE DEF tile
    <3>3. patched \in [1..n -> Tile]
      BY <3>1, <3>2
    <3> QED  BY <3>3 DEF Grids
  <2>8. ASSUME b.dim = Dim PROVE patched \in GoodBoards
    <3>1. b.grid \in [Cells -> Tiles] /\ \A i \in Cells : b.grid[i] \in past[i]
      BY <2>8 DEF GoodShown, GoodBoards
    <3>2. ASSUME NEW i \in Cells PROVE tile(i) \in Tiles /\ tile(i) \in past[i]
      <4>1. CASE here(i) = {}
        BY <3>1, <4>1
      <4>2. CASE here(i) # {}
        <5> DEFINE k == last(here(i))
        <5>1. k \in 1..nb /\ PositionOf(diff[k]) = i
          BY <2>5, <2>8, <4>2 DEF PositionOf
        <5>2. k \in 1..Len(diff)
          BY <2>2, <5>1
        <5>3. diff[k] \in Diff /\ diff[k].tile \in past[i]
          BY <2>2, <5>1, <5>2 DEF GoodDiffs
        <5> QED  BY <2>4, <4>2, <5>1, <5>3 DEF Diff
      <4> QED  BY <4>1, <4>2
    <3> HIDE DEF tile
    <3> QED  BY <3>1, <3>2 DEF GoodBoards
  <2> HIDE DEF patched
  <2>9. /\ Applied(b, m) \in Boards
        /\ Applied(b, m).dim = b.dim /\ Applied(b, m).grid = patched
    BY <2>3, <2>6, <2>7 DEF Boards
  <2> QED  BY <2>8, <2>9 DEF GoodShown
<1> QED  BY <1>1, <1>2 DEF GoodMessages
LEMMA NoDiffs == <<>> \in GoodDiffs /\ (<<>> \in GoodDiffs)'
<1>1. <<>> \in Seq(Diff) /\ Len(<<>>) = 0
  OBVIOUS
<1>2. \A k \in 1..Len(<<>>) : FALSE
  BY <1>1
<1> QED  BY <1>1, <1>2 DEF GoodDiffs

\* A round adds its board to the past.
LEMMA ChangeIsGood ==
  ASSUME ServerInv, ChangeBoard
  PROVE  /\ past' \in [Cells -> SUBSET Tiles] /\ grid' \in [Cells -> Tiles]
         /\ grid' \in GoodBoards'
         /\ \A i \in Cells : past[i] \subseteq past'[i] /\ grid'[i] \in past'[i]
<1>1. past \in [Cells -> SUBSET Tiles] /\ grid \in [Cells -> Tiles]
  BY DEF ServerInv, GoodBoards
<1>2. grid' \in [Cells -> Tiles]
  BY <1>1 DEF ChangeBoard
<1>3. past' = [i \in Cells |-> past[i] \cup {grid'[i]}]
  BY DEF ChangeBoard
<1>4. \A i \in Cells : past'[i] = past[i] \cup {grid'[i]}
  BY <1>3
<1>5. \A i \in Cells : past[i] \cup {grid'[i]} \in SUBSET Tiles
  BY <1>1, <1>2
<1>6. past' \in [Cells -> SUBSET Tiles]
  BY <1>3, <1>5
<1> QED  BY <1>2, <1>4, <1>6 DEF GoodBoards

LEMMA PastStart == Init => PastInv
<1> SUFFICES ASSUME Init PROVE PastInv
  OBVIOUS
<1>1. /\ past \in [Cells -> SUBSET Tiles] /\ grid \in GoodBoards
  <2>1. grid \in [Cells -> Tiles] /\ past = [i \in Cells |-> {grid[i]}]
    BY DEF Init
  <2>2. \A i \in Cells : {grid[i]} \in SUBSET Tiles
    BY <2>1
  <2> QED  BY <2>1, <2>2 DEF GoodBoards
<1>2. ServerInv
  BY <1>1, NoDiffs DEF Init, ServerInv
<1>3. flight \in Seq(GoodMessages)
  <2>1. BoardMessage(grid) \in GoodMessages
    BY <1>1 DEF GoodMessages
  <2> QED  BY <2>1 DEF Init
<1>4. board \in GoodShown
  <2> DEFINE n == StartWidth * StartHeight
             start == [i \in 1..n |-> 0]
  <2>1. n \in Nat /\ StartWidth \in Nat /\ StartHeight \in Nat
    BY DimAssumption
  <2> HIDE DEF n
  <2>2. start \in [1..n -> Tile]
    BY DEF Tile
  <2>3. start \in Grids
    BY <2>1, <2>2 DEF Grids
  <2> HIDE DEF start
  <2>4. board = [dim |-> [width |-> StartWidth, height |-> StartHeight], grid |-> start]
    BY DEF Init, start, n
  <2>5. board \in Boards
    BY <2>1, <2>3, <2>4 DEF Boards
  <2>6. board.dim # Dim
    BY <2>4, DimAssumption DEF Dim
  <2> QED  BY <2>5, <2>6 DEF GoodShown
<1>5. painter \in [{"board", "chat"} -> GoodShown \cup {NULL}]
  BY DEF Init
<1> QED  BY <1>2, <1>3, <1>4, <1>5 DEF PastInv, ClientInv, Init

\* Without a datagram of them, the messages stay good.
LEMMA DropTyped ==
  ASSUME NEW S, NEW s \in Seq(S), NEW k \in 1..Len(s)
  PROVE  /\ Drop(s, k) \in Seq(S) /\ Len(Drop(s, k)) = Len(s) - 1
         /\ Drop(s, 1) = Tail(s)
<1>1. SubSeq(s, 1, k - 1) \in Seq(S) /\ SubSeq(s, k + 1, Len(s)) \in Seq(S)
  OBVIOUS
<1>2. Len(SubSeq(s, 1, k - 1)) = k - 1 /\ Len(SubSeq(s, k + 1, Len(s))) = Len(s) - k
  OBVIOUS
<1>3. Drop(s, 1) = Tail(s)
  <2>1. SubSeq(s, 1, 0) = <<>> /\ s # <<>>
    OBVIOUS
  <2>2. SubSeq(s, 2, Len(s)) = Tail(s)
    BY <2>1
  <2> QED  BY <2>1, <2>2 DEF Drop
<1>4. /\ Drop(s, k) \in Seq(S)
      /\ Len(Drop(s, k)) = Len(SubSeq(s, 1, k - 1)) + Len(SubSeq(s, k + 1, Len(s)))
  <2> DEFINE before == SubSeq(s, 1, k - 1)
             after == SubSeq(s, k + 1, Len(s))
  <2>1. before \in Seq(S) /\ after \in Seq(S)
    BY <1>1
  <2> HIDE DEF before, after
  <2>2. before \o after \in Seq(S) /\ Len(before \o after) = Len(before) + Len(after)
    BY <2>1
  <2> QED  BY <2>2 DEF Drop, before, after
<1>5. (k - 1) + (Len(s) - k) = Len(s) - 1
  OBVIOUS
<1> QED  BY <1>2, <1>3, <1>4, <1>5

LEMMA PastStep == PastInv /\ [Next]_vars => PastInv'
<1> SUFFICES ASSUME PastInv, [Next]_vars PROVE PastInv'
  OBVIOUS
<1> USE DEF server, client
<1>0. ServerInv /\ flight \in Seq(GoodMessages) /\ ClientInv
  BY DEF PastInv
<1> DEFINE SameServer == UNCHANGED <<grid, sec, freq, past>>
           SameClient == UNCHANGED <<board, painter, screen>>
<1>1. ASSUME UNCHANGED past PROVE /\ GoodBoards' = GoodBoards /\ GoodDiffs' = GoodDiffs
                                  /\ GoodMessages' = GoodMessages /\ GoodShown' = GoodShown
  BY <1>1 DEF GoodBoards, GoodDiffs, GoodMessages, GoodShown
<1>2. ASSUME UNCHANGED past, SameServer PROVE ServerInv'
  BY <1>0, <1>1, <1>2 DEF ServerInv
<1>3. ASSUME UNCHANGED past, UNCHANGED flight PROVE (flight \in Seq(GoodMessages))'
  BY <1>0, <1>1, <1>3
<1>4. ASSUME UNCHANGED past, SameClient PROVE ClientInv'
  BY <1>0, <1>1, <1>4 DEF ClientInv
\* When the board changes, what was sent and shown stays good.
<1>5. ASSUME ChangeBoard, UNCHANGED flight, SameClient
      PROVE  (flight \in Seq(GoodMessages))' /\ ClientInv'
  <2>1. GoodMessages \subseteq GoodMessages' /\ GoodShown \subseteq GoodShown'
    BY <1>0, <1>5, ChangeIsGood, GoodStaysGood
  <2>2. (flight \in Seq(GoodMessages))'
    <3>1. flight' \in Seq(GoodMessages) /\ \A k \in 1..Len(flight') : flight'[k] \in GoodMessages'
      BY <1>0, <1>5, <2>1
    <3> QED  BY <3>1
  <2>3. ClientInv'
    BY <1>0, <1>5, <2>1 DEF ClientInv
  <2> QED  BY <2>2, <2>3
<1>6. CASE SecBombs
  <2>1. ChangeBoard /\ UNCHANGED flight /\ SameClient
    BY <1>6 DEF SecBombs
  <2>2. ServerInv'
    <3>1. GoodBoards \subseteq GoodBoards' /\ GoodDiffs \subseteq GoodDiffs'
      BY <1>0, <2>1, ChangeIsGood, GoodStaysGood
    <3>2. past' \in [Cells -> SUBSET Tiles] /\ grid' \in GoodBoards'
      BY <1>0, <2>1, ChangeIsGood
    <3>3. sec' = [sec EXCEPT !.at = "bombs"] /\ freq' = freq
      BY <1>6 DEF SecBombs
    <3> QED  BY <1>0, <3>1, <3>2, <3>3 DEF ServerInv
  <2> QED  BY <1>5, <2>1, <2>2 DEF PastInv
<1>7. CASE SecCopies
  <2>1. UNCHANGED past /\ UNCHANGED flight /\ SameClient
    BY <1>7 DEF SecCopies
  <2>2. ServerInv'
    <3>1. UNCHANGED <<grid, freq, past>> /\ sec' = [at |-> "send", copy |-> grid]
      BY <1>7 DEF SecCopies
    <3> QED  BY <1>0, <1>1, <2>1, <3>1 DEF ServerInv
  <2> QED  BY <1>3, <1>4, <2>1, <2>2 DEF PastInv
<1>8. ASSUME NEW m, NEW harmed, Send(m, harmed), m \in GoodMessages, UNCHANGED past
      PROVE  (flight \in Seq(GoodMessages))'
  BY <1>0, <1>1, <1>8 DEF Send
<1>9. CASE send_game_board
  <2>1. /\ UNCHANGED past /\ SameClient /\ UNCHANGED <<grid, freq>>
        /\ sec.at = "send" /\ sec' = [at |-> "sleep", copy |-> <<>>]
        /\ Send(BoardMessage(sec.copy), Overtakes("sec"))
    BY <1>9 DEF send_game_board
  <2>2. ServerInv'
    BY <1>0, <1>1, <2>1 DEF ServerInv
  <2>3. BoardMessage(sec.copy) \in GoodMessages
    BY <1>0, <2>1 DEF ServerInv, GoodMessages
  <2>4. (flight \in Seq(GoodMessages))'
    BY <1>8, <2>1, <2>3
  <2> QED  BY <1>4, <2>1, <2>2, <2>4 DEF PastInv
<1>10. CASE update_game_board
  <2>1. ChangeBoard /\ UNCHANGED flight /\ SameClient /\ UNCHANGED sec
    BY <1>10 DEF update_game_board
  <2>2. ServerInv'
    <3>1. GoodBoards \subseteq GoodBoards'
      BY <1>0, <2>1, ChangeIsGood, GoodStaysGood
    <3>2. /\ past' \in [Cells -> SUBSET Tiles] /\ grid' \in GoodBoards'
          /\ grid' \in [Cells -> Tiles] /\ \A i \in Cells : grid'[i] \in past'[i]
      BY <1>0, <2>1, ChangeIsGood
    <3>3. freq' = [at |-> "send", diff |-> get_diff_with_board(grid, grid')]
      BY <1>10 DEF update_game_board
    <3>4. get_diff_with_board(grid, grid') \in GoodDiffs'
      <4>1. grid \in [Cells -> Tiles]
        BY <1>0 DEF ServerInv, GoodBoards
      <4>2. LET diff == get_diff_with_board(grid, grid')
            IN  /\ diff \in Seq(Diff)
                /\ \A k \in 1..Len(diff) : /\ diff[k].tile = grid'[PositionOf(diff[k])]
                                           /\ PositionOf(diff[k]) \in Cells
        BY <3>2, <4>1, DiffTyped
      <4> HIDE DEF get_diff_with_board
      <4> QED  BY <3>2, <4>2 DEF GoodDiffs
    <3> QED  BY <1>0, <2>1, <3>1, <3>2, <3>3, <3>4 DEF ServerInv
  <2> QED  BY <1>5, <2>1, <2>2 DEF PastInv
<1>11. CASE send_game_update
  <2>1. /\ UNCHANGED past /\ SameClient /\ UNCHANGED <<grid, sec>>
        /\ freq' = [at |-> "wait", diff |-> <<>>]
    BY <1>11 DEF send_game_update
  <2>2. \E harmed : Send(Update(freq.diff), harmed)
    BY <1>11 DEF send_game_update, Update
  <2>3. ServerInv'
    BY <1>0, <1>1, <2>1, NoDiffs DEF ServerInv
  <2>4. Update(freq.diff) \in GoodMessages
    BY <1>0 DEF ServerInv, GoodMessages
  <2>5. (flight \in Seq(GoodMessages))'
    BY <1>8, <2>1, <2>2, <2>4
  <2> QED  BY <1>4, <2>1, <2>3, <2>5 DEF PastInv
<1>12. ASSUME NEW k \in 1..Len(flight), Receive(k) PROVE PastInv'
  <2>1. /\ SameServer /\ UNCHANGED <<past, screen>>
        /\ board' = Applied(board, flight[k]) /\ flight' = Drop(flight, k)
        /\ painter' = [painter EXCEPT !.board = board']
    BY <1>12 DEF Receive
  <2>2. (flight \in Seq(GoodMessages))'
    BY <1>0, <1>1, <2>1, DropTyped
  <2>3. flight[k] \in GoodMessages
    BY <1>0
  <2>4. board' \in GoodShown
    BY <1>0, <2>1, <2>3, AppliedIsGood DEF ClientInv
  <2>5. ClientInv'
    BY <1>0, <1>1, <2>1, <2>4 DEF ClientInv
  <2> QED  BY <1>2, <2>1, <2>2, <2>5 DEF PastInv
<1>13. ASSUME NEW k \in 1..Len(flight), Lose(k) PROVE PastInv'
  <2>1. SameServer /\ UNCHANGED past /\ SameClient /\ flight' = Drop(flight, k)
    BY <1>13 DEF Lose
  <2>2. (flight \in Seq(GoodMessages))'
    BY <1>0, <1>1, <2>1, DropTyped
  <2> QED  BY <1>2, <1>4, <2>1, <2>2 DEF PastInv
<1>14. CASE ChatCopies
  <2>1. /\ SameServer /\ UNCHANGED <<past, flight, board, screen>>
        /\ painter' = [painter EXCEPT !.chat = board]
    BY <1>14 DEF ChatCopies
  <2>2. ClientInv'
    BY <1>0, <1>1, <2>1 DEF ClientInv
  <2> QED  BY <1>2, <1>3, <2>1, <2>2 DEF PastInv
<1>15. ASSUME NEW thread \in {"board", "chat"}, refresh_game(thread) PROVE PastInv'
  <2>1. /\ SameServer /\ UNCHANGED <<past, flight, board>>
        /\ screen' = painter[thread] /\ painter' = [painter EXCEPT ![thread] = NULL]
    BY <1>15 DEF refresh_game
  <2>2. ClientInv'
    BY <1>0, <1>1, <2>1 DEF ClientInv
  <2> QED  BY <1>2, <1>3, <2>1, <2>2 DEF PastInv
<1>16. CASE UNCHANGED vars
  BY <1>2, <1>3, <1>4, <1>16 DEF PastInv, vars
<1>17. CASE BoardThread
  <2>1. CASE flight # <<>> /\ Receive(1)
    <3>1. 1 \in 1..Len(flight)
      BY <1>0, <2>1
    <3> QED  BY <1>12, <2>1, <3>1
  <2> QED  BY <1>15, <1>17, <2>1 DEF BoardThread
<1> QED
  BY <1>6, <1>7, <1>9, <1>10, <1>11, <1>12, <1>13, <1>14, <1>15, <1>16, <1>17
  DEF Next, Sec, Freq, ChatThread

LEMMA PastInvariant == Spec => []PastInv
BY PastStart, PastStep, PTL DEF Spec

\* A cell on the screen shows what that cell of the game has been, whatever was
\* lost, cut or overtaken, and whichever thread painted.
THEOREM NothingElseIsShown == Spec => []ShownIsPast
<1>1. PastInv => ShownIsPast
  BY DEF PastInv, ClientInv, GoodShown, GoodBoards, ShownIsPast
<1> QED  BY <1>1, PastInvariant, PTL
-----------------------------------------------------------------------------
(* When it is quiet the client's board is the game's. *)

\* A client whose board is b comes to z as it applies the messages one by one,
\* from b or from one of the messages that is a whole board: h[n] is its board
\* after n of them.
Leads(b, messages, z) ==
  \E p, h :
    /\ p \in 0..Len(messages)
    /\ IF p = 0 THEN h[0] = b
       ELSE \E g \in [Cells -> Tiles] : messages[p] = BoardMessage(g) /\ h[p] = Full(g)
    /\ \A n \in p + 1..Len(messages) : h[n] = Applied(h[n - 1], messages[n])
    /\ h[Len(messages)] = z

\* From z what waits to be sent makes the board of the game.
Ready(z) == IF freq.at = "send" THEN With(z, freq.diff) = Full(grid) ELSE z = Full(grid)

\* The thread that prepared its message first.
Turns ==
  /\ sec.at = "send" /\ freq.at = "wait" => first = "sec"
  /\ sec.at # "send" /\ freq.at = "send" => first = "freq"
  /\ sec.at = "send" /\ freq.at = "send" => first \in {"sec", "freq"}

\* The board that was copied has in it what was prepared before, and lacks what
\* was prepared after.
HasCopied ==
  ~disturbed /\ sec.at = "send" =>
     IF freq.at = "send" /\ first = "freq" THEN sec.copy = grid ELSE Ready(Full(sec.copy))

\* What is on its way leads to a board that lacks only what waits to be sent.
HasSent == ~disturbed /\ sec.at = "sleep" => \E z : Leads(board, flight, z) /\ Ready(z)

QuietInv == disturbed \in BOOLEAN /\ Turns /\ HasCopied /\ HasSent

LEMMA LeadsToBoard ==
  ASSUME NEW b, NEW S, NEW messages \in Seq(S), NEW g \in [Cells -> Tiles]
  PROVE  Leads(b, Append(messages, BoardMessage(g)), Full(g))
<1> DEFINE p == Len(messages) + 1
           h == [n \in {p} |-> Full(g)]
           more == Append(messages, BoardMessage(g))
<1>1. Len(more) = p /\ p \in Nat /\ p # 0 /\ more[p] = BoardMessage(g)
  OBVIOUS
<1>2. h[p] = Full(g)
  OBVIOUS
<1> HIDE DEF p, h, more
<1>3. \A n \in p + 1..Len(more) : FALSE
  BY <1>1
<1>4. p \in 0..Len(more)
  BY <1>1
<1>5. Leads(b, more, Full(g))
  BY <1>1, <1>2, <1>3, <1>4 DEF Leads
<1> QED  BY <1>5 DEF more

LEMMA LeadsFurther ==
  ASSUME NEW b, NEW S, NEW messages \in Seq(S), NEW z, NEW m, Leads(b, messages, z)
  PROVE  Leads(b, Append(messages, m), Applied(z, m))
<1> DEFINE len == Len(messages)
           more == Append(messages, m)
<1>1. PICK p, h :
        /\ p \in 0..len
        /\ IF p = 0 THEN h[0] = b
           ELSE \E g \in [Cells -> Tiles] : messages[p] = BoardMessage(g) /\ h[p] = Full(g)
        /\ \A n \in p + 1..len : h[n] = Applied(h[n - 1], messages[n])
        /\ h[len] = z
  BY DEF Leads
<1>2. len \in Nat
  OBVIOUS
<1>3. Len(more) = len + 1 /\ more[len + 1] = m /\ \A n \in 1..len : more[n] = messages[n]
  OBVIOUS
<1> DEFINE k == [n \in 0..len + 1 |-> IF n <= len THEN h[n] ELSE Applied(z, m)]
<1> HIDE DEF len, more
<1>4. k[len + 1] = Applied(z, m) /\ \A n \in 0..len : k[n] = h[n]
  BY <1>2
<1> HIDE DEF k
<1>5. IF p = 0 THEN k[0] = b
      ELSE \E g \in [Cells -> Tiles] : more[p] = BoardMessage(g) /\ k[p] = Full(g)
  <2>1. CASE p = 0
    BY <1>1, <1>2, <1>4, <2>1
  <2>2. CASE p # 0
    <3>1. p \in 1..len
      BY <1>1, <1>2, <2>2
    <3> QED  BY <1>1, <1>2, <1>3, <1>4, <2>2, <3>1
  <2> QED  BY <2>1, <2>2
<1>6. ASSUME NEW n \in p + 1..len + 1 PROVE k[n] = Applied(k[n - 1], more[n])
  <2>1. CASE n = len + 1
    <3>1. n - 1 = len /\ len \in 0..len
      BY <1>2, <2>1
    <3> QED  BY <1>1, <1>3, <1>4, <2>1, <3>1
  <2>2. CASE n # len + 1
    <3>1. n \in p + 1..len /\ n \in 1..len /\ n \in 0..len /\ n - 1 \in 0..len
      BY <1>1, <1>2, <2>2
    <3>2. h[n] = Applied(h[n - 1], messages[n])
      BY <1>1, <3>1
    <3>3. k[n] = h[n] /\ k[n - 1] = h[n - 1] /\ more[n] = messages[n]
      BY <1>3, <1>4, <3>1
    <3> QED  BY <3>2, <3>3
  <2> QED  BY <2>1, <2>2
<1>7. p \in 0..len + 1
  BY <1>1, <1>2
<1>8. Leads(b, more, Applied(z, m))
  BY <1>3, <1>4, <1>5, <1>6, <1>7 DEF Leads
<1> QED  BY <1>8 DEF more

LEMMA LeadsOn ==
  ASSUME NEW b, NEW S, NEW messages \in Seq(S), messages # <<>>, NEW z,
         Leads(b, messages, z)
  PROVE  Leads(Applied(b, messages[1]), Tail(messages), z)
<1> DEFINE len == Len(messages)
           rest == Tail(messages)
           c == Applied(b, messages[1])
<1>1. PICK p, h :
        /\ p \in 0..len
        /\ IF p = 0 THEN h[0] = b
           ELSE \E g \in [Cells -> Tiles] : messages[p] = BoardMessage(g) /\ h[p] = Full(g)
        /\ \A n \in p + 1..len : h[n] = Applied(h[n - 1], messages[n])
        /\ h[len] = z
  BY DEF Leads
<1>2. len \in Nat \ {0}
  OBVIOUS
<1>3. Len(rest) = len - 1 /\ \A n \in 1..len - 1 : rest[n] = messages[n + 1]
  OBVIOUS
<1> DEFINE q == IF p = 0 THEN 0 ELSE p - 1
           k == [n \in 0..len - 1 |-> h[n + 1]]
<1> HIDE DEF len, rest
<1>4. \A n \in 0..len - 1 : k[n] = h[n + 1]
  OBVIOUS
<1> HIDE DEF k
<1>5. q \in 0..len - 1 /\ (p # 0 => p = q + 1) /\ (p = 0 => q = 0)
  BY <1>1, <1>2
<1> HIDE DEF q
<1>6. IF q = 0 THEN k[0] = c
      ELSE \E g \in [Cells -> Tiles] : rest[q] = BoardMessage(g) /\ k[q] = Full(g)
  <2>1. CASE p = 0
    <3>1. 1 \in p + 1..len /\ h[1 - 1] = b
      BY <1>1, <1>2, <2>1
    <3>2. h[1] = c
      BY <1>1, <3>1
    <3> QED  BY <1>2, <1>4, <1>5, <2>1, <3>2
  <2>2. CASE p # 0
    <3>1. PICK g \in [Cells -> Tiles] : messages[p] = BoardMessage(g) /\ h[p] = Full(g)
      BY <1>1, <2>2
    <3>2. CASE p = 1
      <4>1. c = Full(g)
        BY <3>1, <3>2, BoardApplied
      <4> QED  BY <1>2, <1>4, <1>5, <2>2, <3>1, <3>2, <4>1
    <3>3. CASE p # 1
      <4>1. q \in 1..len - 1 /\ q # 0 /\ q + 1 = p /\ q \in 0..len - 1
        BY <1>2, <1>5, <2>2, <3>3
      <4> QED  BY <1>3, <1>4, <3>1, <4>1
    <3> QED  BY <3>2, <3>3
  <2> QED  BY <2>1, <2>2
<1>7. ASSUME NEW n \in q + 1..len - 1 PROVE k[n] = Applied(k[n - 1], rest[n])
  <2>1. /\ n \in 1..len - 1 /\ n \in 0..len - 1 /\ n - 1 \in 0..len - 1
        /\ n + 1 \in p + 1..len /\ (n - 1) + 1 = n /\ (n + 1) - 1 = n
    BY <1>1, <1>2, <1>5
  <2>2. h[n + 1] = Applied(h[n], messages[n + 1])
    BY <1>1, <2>1
  <2>3. k[n] = h[n + 1] /\ k[n - 1] = h[n] /\ rest[n] = messages[n + 1]
    BY <1>3, <1>4, <2>1
  <2> QED  BY <2>2, <2>3
<1>8. k[len - 1] = z
  <2>1. len - 1 \in 0..len - 1 /\ (len - 1) + 1 = len
    BY <1>2
  <2> QED  BY <1>1, <1>4, <2>1
<1> HIDE DEF c
<1>9. Leads(c, rest, z)
  BY <1>3, <1>5, <1>6, <1>7, <1>8 DEF Leads
<1> QED  BY <1>9 DEF c, rest

LEMMA LeadsNowhere ==
  ASSUME NEW b, NEW z, Leads(b, <<>>, z)
  PROVE  z = b
BY DEF Leads

LEMMA QuietStart == Init => QuietInv
<1> SUFFICES ASSUME Init PROVE QuietInv
  OBVIOUS
<1>1. grid \in [Cells -> Tiles] /\ flight = Append(<<>>, BoardMessage(grid))
  BY DEF Init
<1>2. Leads(board, flight, Full(grid))
  <2>1. <<>> \in Seq({})
    OBVIOUS
  <2> QED  BY <1>1, <2>1, LeadsToBoard
<1>3. Ready(Full(grid))
  BY DEF Init, Ready
<1> QED  BY <1>2, <1>3 DEF Init, QuietInv, Turns, HasCopied, HasSent

\* The messages that are sent undisturbed join those on their way.
LEMMA Undisturbed ==
  ASSUME disturbed \in BOOLEAN, NEW m, NEW harmed \in BOOLEAN, Send(m, harmed), ~disturbed'
  PROVE  ~disturbed /\ ~harmed /\ flight' = Append(flight, m)
BY DEF Send

LEMMA SendTyped ==
  ASSUME disturbed \in BOOLEAN, NEW m, NEW harmed \in BOOLEAN, Send(m, harmed)
  PROVE  disturbed' \in BOOLEAN
BY DEF Send
\* What waits and what the board is unchanged, a board stays ready.
LEMMA ReadyStays ==
  ASSUME NEW z, UNCHANGED <<freq, grid>>, Ready(z)
  PROVE  Ready(z)'
BY DEF Ready

LEMMA QuietStep == PastInv /\ QuietInv /\ [Next]_vars => QuietInv'
<1> SUFFICES ASSUME PastInv, QuietInv, [Next]_vars PROVE QuietInv'
  OBVIOUS
<1> USE DEF server, client
<1>0. /\ grid \in [Cells -> Tiles] /\ flight \in Seq(GoodMessages)
      /\ sec \in [at : {"sleep", "bombs", "send"}, copy : GoodBoards \cup {<<>>}]
      /\ sec.at = "send" => sec.copy \in [Cells -> Tiles]
      /\ freq \in [at : {"wait", "send"}, diff : GoodDiffs] /\ freq.diff \in Seq(Diff)
      /\ disturbed \in BOOLEAN /\ Turns /\ HasCopied /\ HasSent
  BY DEF PastInv, ServerInv, GoodBoards, GoodDiffs, QuietInv
\* A step of neither thread of the server, nor of its messages.
<1>1. ASSUME UNCHANGED <<grid, sec, freq, first, flight, board, disturbed>> PROVE QuietInv'
  BY <1>0, <1>1 DEF QuietInv, Turns, HasCopied, HasSent, Ready
<1>2. CASE SecBombs
  <2>1. /\ sec.at = "sleep" /\ sec'.at = "bombs"
        /\ UNCHANGED <<freq, first, disturbed>>
    BY <1>0, <1>2 DEF SecBombs
  <2> QED  BY <1>0, <2>1 DEF QuietInv, Turns, HasCopied, HasSent
<1>3. CASE SecCopies
  <2>1. /\ sec.at = "bombs" /\ sec' = [at |-> "send", copy |-> grid]
        /\ UNCHANGED <<grid, freq>>
        /\ IF freq.at = "wait" THEN first' = "sec" /\ disturbed' = FALSE
                               ELSE UNCHANGED <<first, disturbed>>
    BY <1>3 DEF SecCopies
  <2>2. CASE freq.at = "wait"
    BY <2>1, <2>2 DEF QuietInv, Turns, HasCopied, HasSent, Ready
  <2>3. CASE freq.at = "send"
    <3>1. first = "freq" /\ first' = "freq" /\ disturbed' \in BOOLEAN
      BY <1>0, <2>1, <2>3 DEF Turns
    <3> QED  BY <2>1, <2>3, <3>1 DEF QuietInv, Turns, HasCopied, HasSent
  <2> QED  BY <1>0, <2>2, <2>3
<1>4. CASE send_game_board
  <2> DEFINE m == BoardMessage(sec.copy)
             harmed == Overtakes("sec")
  <2>1. /\ sec.at = "send" /\ sec' = [at |-> "sleep", copy |-> <<>>] /\ UNCHANGED <<grid, freq>>
        /\ Send(m, harmed) /\ first' = IF freq.at = "send" THEN "freq" ELSE "none"
    BY <1>4 DEF send_game_board
  <2>2. harmed \in BOOLEAN
    BY DEF Overtakes
  <2>3. disturbed' \in BOOLEAN
    <3> HIDE DEF m, harmed
    <3> QED  BY <1>0, <2>1, <2>2, SendTyped
  <2>4. Turns' /\ HasCopied'
    BY <1>0, <2>1 DEF Turns, HasCopied
  <2>5. HasSent'
    <3> SUFFICES ASSUME ~disturbed' PROVE \E z : Leads(board', flight', z) /\ Ready(z)'
      BY DEF HasSent
    <3>1. ~disturbed /\ ~harmed /\ flight' = Append(flight, m)
      <4> HIDE DEF m, harmed
      <4> QED  BY <1>0, <2>1, <2>2, Undisturbed
    <3>2. Leads(board', flight', Full(sec.copy))
      BY <1>0, <2>1, <3>1, LeadsToBoard
    <3>3. ~(freq.at = "send" /\ first = "freq")
      BY <3>1 DEF Overtakes
    <3>4. Ready(Full(sec.copy))
      BY <1>0, <2>1, <3>1, <3>3 DEF HasCopied
    <3>5. PICK z : z = Full(sec.copy)
      OBVIOUS
    <3>6. Ready(z)'
      BY <2>1, <3>4, <3>5, ReadyStays
    <3> QED  BY <3>2, <3>5, <3>6
  <2> QED  BY <2>3, <2>4, <2>5 DEF QuietInv
<1>5. CASE update_game_board
  <2> DEFINE diff == get_diff_with_board(grid, grid')
  <2>1. /\ freq.at = "wait" /\ freq' = [at |-> "send", diff |-> diff]
        /\ first' = IF sec.at = "send" THEN "sec" ELSE "freq"
        /\ UNCHANGED <<sec, flight, board, disturbed>>
    BY <1>5 DEF update_game_board
  <2>2. grid' \in [Cells -> Tiles]
    <3>1. ChangeBoard
      BY <1>5 DEF update_game_board
    <3> QED  BY <1>0, <3>1 DEF ChangeBoard
  <2>3. Turns'
    BY <2>1 DEF Turns
  \* The board that was the game's becomes so with the differences.
  <2>4. With(Full(grid), diff) = Full(grid')
    BY <1>0, <2>2, DiffMakesBoard
  <2> HIDE DEF diff
  <2>5. ASSUME NEW z, Ready(z) PROVE With(z, freq'.diff) = Full(grid')
    BY <2>1, <2>4, <2>5 DEF Ready
  <2>6. HasCopied'
    <3> SUFFICES ASSUME ~disturbed', sec'.at = "send" PROVE Ready(Full(sec.copy))'
      BY <2>1 DEF HasCopied
    <3>1. Ready(Full(sec.copy))
      BY <1>0, <2>1 DEF HasCopied
    <3>2. With(Full(sec.copy), freq'.diff) = Full(grid')
      BY <2>5, <3>1
    <3> QED  BY <2>1, <3>2 DEF Ready, Full
  <2>7. HasSent'
    <3> SUFFICES ASSUME ~disturbed', sec'.at = "sleep"
                 PROVE  \E z : Leads(board', flight', z) /\ Ready(z)'
      BY DEF HasSent
    <3>1. PICK z : Leads(board, flight, z) /\ Ready(z)
      BY <1>0, <2>1 DEF HasSent
    <3>2. With(z, freq'.diff) = Full(grid')
      BY <2>5, <3>1
    <3>3. Ready(z)'
      BY <2>1, <3>2 DEF Ready
    <3> QED  BY <2>1, <3>1, <3>3
  <2> QED  BY <1>0, <2>1, <2>3, <2>6, <2>7 DEF QuietInv
<1>6. CASE send_game_update
  <2> DEFINE nb == Len(freq.diff) % NbLimit
             m == Update(freq.diff)
             harmed == Overtakes("freq") \/ nb < Len(freq.diff)
  <2>1. /\ freq.at = "send" /\ freq' = [at |-> "wait", diff |-> <<>>]
        /\ Send(m, harmed) /\ first' = IF sec.at = "send" THEN "sec" ELSE "none"
        /\ UNCHANGED <<grid, sec, board>>
    BY <1>6 DEF send_game_update, Update
  <2>2. harmed \in BOOLEAN
    BY DEF Overtakes
  <2>3. disturbed' \in BOOLEAN
    <3> HIDE DEF m, harmed
    <3> QED  BY <1>0, <2>1, <2>2, SendTyped
  <2>4. ASSUME ~disturbed' PROVE ~disturbed /\ ~harmed /\ flight' = Append(flight, m)
    <3> HIDE DEF m, harmed
    <3> QED  BY <1>0, <2>1, <2>2, <2>4, Undisturbed
  <2>5. Turns'
    BY <1>0, <2>1 DEF Turns
  <2>6. HasCopied'
    <3> SUFFICES ASSUME ~disturbed', sec'.at = "send" PROVE Full(sec.copy) = Full(grid)
      BY <2>1 DEF HasCopied, Ready, Full
    <3>1. first = "freq"
      BY <1>0, <2>1, <2>4 DEF Turns, Overtakes
    <3> QED  BY <1>0, <2>1, <2>4, <3>1 DEF HasCopied
  <2>7. HasSent'
    <3> SUFFICES ASSUME ~disturbed', sec'.at = "sleep"
                 PROVE  \E z : Leads(board', flight', z) /\ Ready(z)'
      BY DEF HasSent
    <3>1. PICK z : Leads(board, flight, z) /\ Ready(z)
      BY <1>0, <2>1, <2>4 DEF HasSent
    <3>2. Leads(board', flight', Applied(z, m))
      <4>1. flight' = Append(flight, m) /\ board' = board
        BY <2>1, <2>4
      <4> HIDE DEF m, harmed
      <4> QED  BY <1>0, <3>1, <4>1, LeadsFurther
    <3>3. Applied(z, m) = With(z, freq.diff)
      <4>1. nb >= Len(freq.diff)
        <5>1. Len(freq.diff) \in Nat
          BY <1>0
        <5>2. nb \in Nat
          BY <5>1, SentOf
        <5> HIDE DEF nb
        <5> QED  BY <2>4, <5>1, <5>2
      <4> QED  BY <1>0, <4>1, AllApplied
    <3>4. With(z, freq.diff) = Full(grid)
      BY <2>1, <3>1 DEF Ready
    <3>5. PICK y : y = Applied(z, m)
      OBVIOUS
    <3> HIDE DEF m
    <3>6. Ready(y)'
      BY <2>1, <3>3, <3>4, <3>5 DEF Ready, Full
    <3> QED  BY <3>2, <3>5, <3>6
  <2> QED  BY <2>3, <2>5, <2>6, <2>7 DEF QuietInv
\* A message lost, or received before an earlier one, disturbs.
<1>7. ASSUME UNCHANGED <<grid, sec, freq, first>>, disturbed' = TRUE PROVE QuietInv'
  BY <1>0, <1>7 DEF QuietInv, Turns, HasCopied, HasSent
<1>8. ASSUME NEW k \in 1..Len(flight), Receive(k) PROVE QuietInv'
  <2>1. /\ UNCHANGED <<grid, sec, freq, first>>
        /\ board' = Applied(board, flight[k]) /\ flight' = Drop(flight, k)
        /\ disturbed' = (disturbed \/ k > 1)
    BY <1>8 DEF Receive
  <2>2. CASE k > 1
    BY <1>7, <2>1, <2>2
  <2>3. CASE k = 1
    <3>1. flight # <<>> /\ flight' = Tail(flight) /\ board' = Applied(board, flight[1])
      <4>1. flight # <<>> /\ 1 \in 1..Len(flight)
        BY <1>0, <2>3
      <4>2. Drop(flight, 1) = Tail(flight)
        BY <1>0, <4>1, DropTyped
      <4> QED  BY <2>1, <2>3, <4>1, <4>2
    <3>2. disturbed' = disturbed
      BY <1>0, <2>1, <2>3
    <3>3. HasSent'
      <4> SUFFICES ASSUME ~disturbed', sec'.at = "sleep"
                   PROVE  \E z : Leads(board', flight', z) /\ Ready(z)'
        BY DEF HasSent
      <4>1. PICK z : Leads(board, flight, z) /\ Ready(z)
        BY <1>0, <2>1, <3>2 DEF HasSent
      <4>2. Leads(board', flight', z)
        BY <1>0, <3>1, <4>1, LeadsOn
      <4> QED  BY <2>1, <4>1, <4>2, ReadyStays
    <3>4. Turns' /\ HasCopied'
      BY <1>0, <2>1, <3>2 DEF Turns, HasCopied, Ready, Full
    <3> QED  BY <1>0, <3>2, <3>3, <3>4 DEF QuietInv
  <2> QED  BY <2>2, <2>3
<1>9. ASSUME NEW k \in 1..Len(flight), Lose(k) PROVE QuietInv'
  BY <1>7, <1>9 DEF Lose
<1>10. CASE ChatCopies
  BY <1>1, <1>10 DEF ChatCopies
<1>11. ASSUME NEW thread, refresh_game(thread) PROVE QuietInv'
  BY <1>1, <1>11 DEF refresh_game
<1>12. CASE UNCHANGED vars
  BY <1>1, <1>12 DEF vars
<1>13. CASE BoardThread
  <2>1. CASE flight # <<>> /\ Receive(1)
    <3>1. 1 \in 1..Len(flight)
      BY <1>0, <2>1
    <3> QED  BY <1>8, <2>1, <3>1
  <2> QED  BY <1>11, <1>13, <2>1 DEF BoardThread
<1> QED
  BY <1>2, <1>3, <1>4, <1>5, <1>6, <1>8, <1>9, <1>10, <1>11, <1>12, <1>13
  DEF Next, Sec, Freq, ChatThread

\* Between them the boards and the differences carry every change: when nothing
\* is on its way and nothing disturbed it, the client has the board of the game.
THEOREM QuietBoardIsTheGames == Spec => []QuietIsRight
<1>1. PastInv /\ QuietInv => QuietIsRight
  <2> SUFFICES ASSUME QuietInv, flight = <<>>, sec.at = "sleep", freq.at = "wait", ~disturbed
               PROVE  Shows(board)
    BY DEF QuietIsRight
  <2>1. PICK z : Leads(board, flight, z) /\ Ready(z)
    BY DEF QuietInv, HasSent
  <2>2. z = board
    BY <2>1, LeadsNowhere
  <2>3. z = Full(grid)
    BY <2>1 DEF Ready
  <2> QED  BY <2>2, <2>3 DEF Shows, Full
<1>2. Spec => [](PastInv /\ QuietInv)
  BY PastStart, PastStep, QuietStart, QuietStep, PTL DEF Spec
<1> QED  BY <1>1, <1>2, PTL
==============================================================================
