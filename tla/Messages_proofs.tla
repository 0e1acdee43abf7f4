-------------------------- MODULE Messages_proofs --------------------------
(***************************************************************************)
(* What is decoded is what was encoded, for every message a serialize_     *)
(* function accepts, and no message is taken for one of another kind.      *)
(***************************************************************************)
EXTENDS Messages, SequenceTheorems, TLAPS

-----------------------------------------------------------------------------
(* Sequences. *)

LEMMA FunctionIsSequence ==
  ASSUME NEW S, NEW n \in Nat, NEW f \in [1..n -> S]
  PROVE  f \in Seq(S) /\ Len(f) = n
OBVIOUS

LEMMA TwoAndMore ==
  ASSUME NEW S, NEW a \in S, NEW b \in S, NEW t \in Seq(S), NEW u, u = <<a, b>> \o t
  PROVE  /\ u \in Seq(S) /\ Len(u) = 2 + Len(t)
         /\ u[1] = a /\ u[2] = b
         /\ \A i \in 1..Len(t) : u[2 + i] = t[i]
OBVIOUS

\* A sequence in two parts, index by index.
LEMMA TwoParts ==
  ASSUME NEW u, NEW s, NEW t, NEW m \in Nat, NEW n \in Nat,
         \A j \in 1..m + n : u[j] = IF j <= m THEN s[j] ELSE t[j - m]
  PROVE  /\ \A j \in 1..m : u[j] = s[j]
         /\ \A i \in 1..n : u[m + i] = t[i]
<1>1. ASSUME NEW j \in 1..m PROVE u[j] = s[j]
  <2>1. j \in 1..m + n /\ j <= m
    OBVIOUS
  <2> QED
    BY <2>1
<1>2. ASSUME NEW i \in 1..n PROVE u[m + i] = t[i]
  <2>1. m + i \in 1..m + n /\ ~(m + i <= m) /\ m + i - m = i
    OBVIOUS
  <2> QED
    BY <2>1
<1> QED
  BY <1>1, <1>2

LEMMA PartsOfConcat ==
  ASSUME NEW S, NEW s \in Seq(S), NEW t \in Seq(S), NEW m, m = Len(s), NEW n, n = Len(t)
  PROVE  /\ s \o t \in Seq(S) /\ Len(s \o t) = m + n
         /\ \A j \in 1..m : (s \o t)[j] = s[j]
         /\ \A i \in 1..n : (s \o t)[m + i] = t[i]
<1> DEFINE u == s \o t
<1>1. /\ u \in Seq(S) /\ Len(u) = Len(s) + Len(t)
      /\ \A j \in 1..Len(s) + Len(t) : u[j] = IF j <= Len(s) THEN s[j] ELSE t[j - Len(s)]
  BY ConcatProperties
<1>2. m \in Nat /\ n \in Nat
  OBVIOUS
<1> HIDE DEF u
<1>3. \A j \in 1..m + n : u[j] = IF j <= m THEN s[j] ELSE t[j - m]
  BY <1>1
<1>4. /\ \A j \in 1..m : u[j] = s[j]
      /\ \A i \in 1..n : u[m + i] = t[i]
  BY <1>2, <1>3, TwoParts
<1> QED
  BY <1>1, <1>4 DEF u

LEMMA AfterFour ==
  ASSUME NEW s \in Seq(Byte), 4 = Len(s), NEW t \in Seq(Byte), NEW i \in 1..Len(t)
  PROVE  (s \o t)[4 + i] = t[i]
<1> DEFINE m == Len(s)
           n == Len(t)
           u == s \o t
<1>1. \A k \in 1..n : u[m + k] = t[k]
  BY PartsOfConcat
<1>2. m = 4 /\ i \in 1..n
  OBVIOUS
<1> HIDE DEF m, n, u
<1>3. u[m + i] = t[i]
  BY <1>1, <1>2
<1>4. u[4 + i] = t[i]
  BY <1>2, <1>3
<1> QED
  BY <1>4 DEF u

LEMMA Three ==
  ASSUME NEW a \in Word, NEW b \in Word, NEW c \in Word, NEW s, s = <<a, b, c>>
  PROVE  s \in Seq(Word) /\ 3 = Len(s) /\ s[1] = a /\ s[2] = b /\ s[3] = c
OBVIOUS

LEMMA AfterThree ==
  ASSUME NEW s \in Seq(Word), 3 = Len(s), NEW t \in Seq(Word), 8 = Len(t)
  PROVE  /\ s \o t \in Seq(Word) /\ Len(s \o t) = 3 + 8
         /\ \A j \in 1..3 : (s \o t)[j] = s[j]
         /\ \A i \in 1..8 : (s \o t)[3 + i] = t[i]
<1> DEFINE m == Len(s)
           n == Len(t)
           u == s \o t
<1>1. /\ u \in Seq(Word) /\ Len(u) = m + n
      /\ \A j \in 1..m : u[j] = s[j]
      /\ \A i \in 1..n : u[m + i] = t[i]
  BY PartsOfConcat
<1>2. m = 3 /\ n = 8
  OBVIOUS
<1> HIDE DEF m, n, u
<1>3. /\ u \in Seq(Word) /\ Len(u) = 3 + 8
      /\ \A j \in 1..3 : u[j] = s[j]
      /\ \A i \in 1..8 : u[3 + i] = t[i]
  BY <1>1, <1>2
<1> QED
  BY <1>3 DEF u

-----------------------------------------------------------------------------
(* Words. *)

LEMMA InWord ==
  ASSUME NEW w \in Int, 0 <= w, w <= 65535
  PROVE  w \in Word
BY DEF Word

LEMMA BytesOfWord ==
  ASSUME NEW w \in Word
  PROVE  /\ w \div 256 \in Byte /\ w % 256 \in Byte
         /\ 256 * (w \div 256) + (w % 256) = w
<1>1. w \in Int /\ 0 <= w /\ w <= 65535
  BY DEF Word
<1>2. w \div 256 \in Int /\ w % 256 \in Int
  BY <1>1
<1>3. 0 <= w \div 256 /\ w \div 256 <= 255
  BY <1>1
<1>4. 0 <= w % 256 /\ w % 256 <= 255
  BY <1>1
<1>5. 256 * (w \div 256) + (w % 256) = w
  BY <1>1
<1> QED
  BY <1>2, <1>3, <1>4, <1>5 DEF Byte

LEMMA WordsBytes ==
  ASSUME NEW words \in Seq(Word)
  PROVE  Words(words) \in Seq(Byte) /\ Len(Words(words)) = 2 * Len(words)
<1> DEFINE n == 2 * Len(words)
           W(i) == words[(i + 1) \div 2]
           B(i) == IF i % 2 = 1 THEN W(i) \div 256 ELSE W(i) % 256
<1>1. n \in Nat
  OBVIOUS
<1>2. ASSUME NEW i \in 1..n PROVE B(i) \in Byte
  <2>1. (i + 1) \div 2 \in 1..Len(words)
    BY <1>2
  <2>2. W(i) \in Word
    BY <2>1
  <2> QED
    BY <2>2, BytesOfWord
<1>3. Words(words) = [i \in 1..n |-> B(i)]
  BY DEF Words
<1> QED
  BY <1>1, <1>2, <1>3

LEMMA FourBytes ==
  ASSUME NEW words \in Seq(Word), Len(words) = 2
  PROVE  Words(words) \in Seq(Byte) /\ Len(Words(words)) = 4
<1>1. Words(words) \in Seq(Byte) /\ Len(Words(words)) = 2 * Len(words)
  BY WordsBytes
<1>2. 2 * 2 = 4
  OBVIOUS
<1> QED
  BY <1>1, <1>2

LEMMA WordBack ==
  ASSUME NEW words \in Seq(Word), NEW k \in 1..Len(words)
  PROVE  WordAt(Words(words), k) = words[k]
<1> DEFINE w == words[k]
<1>1. w \in Word
  OBVIOUS
<1>2. 2 * k - 1 \in 1..2 * Len(words) /\ 2 * k \in 1..2 * Len(words)
  OBVIOUS
<1>3. (2 * k - 1 + 1) \div 2 = k /\ (2 * k + 1) \div 2 = k
  OBVIOUS
<1>4. (2 * k - 1) % 2 = 1 /\ (2 * k) % 2 = 0
  OBVIOUS
<1>5. Words(words)[2 * k - 1] = w \div 256
  BY <1>2, <1>3, <1>4 DEF Words
<1>6. Words(words)[2 * k] = w % 256
  BY <1>2, <1>3, <1>4 DEF Words
<1> QED
  BY <1>1, <1>5, <1>6, BytesOfWord DEF WordAt

LEMMA WordKept ==
  ASSUME NEW words \in Seq(Word), NEW k \in 1..Len(words), NEW rest \in Seq(Byte)
  PROVE  WordAt(Words(words) \o rest, k) = WordAt(Words(words), k)
<1>1. 2 * k - 1 \in 1..2 * Len(words) /\ 2 * k \in 1..2 * Len(words)
  OBVIOUS
<1> QED
  BY <1>1, WordsBytes DEF WordAt

LEMMA FieldsOfSum ==
  ASSUME NEW code \in Int, 0 <= code, code <= 16, NEW id \in Int, 0 <= id, id <= 3,
         NEW eq \in Int, 0 <= eq, eq <= 1, NEW h, h = connection_header_value(code, id, eq)
  PROVE  /\ h \in Int /\ 0 <= h /\ h <= 65535
         /\ h \div 8 = code /\ (h \div 2) % 4 = id /\ h % 2 = eq
<1>1. eq % 2 = eq /\ id % 4 = id
  OBVIOUS
<1>2. h = eq + 2 * id + 8 * code
  <2> DEFINE s == eq + 2 * id + 8 * code
  <2>1. s \in Int /\ 0 <= s /\ s < 65536
    OBVIOUS
  <2>2. s % 65536 = s
    BY <2>1
  <2> QED
    BY <1>1, <2>2 DEF connection_header_value
<1>3. h \in Int /\ 0 <= h /\ h <= 65535
  BY <1>2
<1>4. h \div 8 = code
  BY <1>2
<1>5. h \div 2 = id + 4 * code
  BY <1>2
<1>6. (id + 4 * code) % 4 = id
  OBVIOUS
<1>7. h % 2 = eq
  BY <1>2
<1> QED
  BY <1>3, <1>4, <1>5, <1>6, <1>7

\* A header is a word, and each field is found again.
LEMMA HeaderFields ==
  ASSUME NEW code \in 0..16, NEW id \in 0..3, NEW eq \in 0..1
  PROVE  /\ connection_header_value(code, id, eq) \in Word
         /\ code_bits(connection_header_value(code, id, eq)) = code
         /\ id_bits(connection_header_value(code, id, eq)) = id
         /\ eq_bits(connection_header_value(code, id, eq)) = eq
<1>1. /\ code \in Int /\ 0 <= code /\ code <= 16
      /\ id \in Int /\ 0 <= id /\ id <= 3
      /\ eq \in Int /\ 0 <= eq /\ eq <= 1
  OBVIOUS
<1> DEFINE h == connection_header_value(code, id, eq)
<1>2. /\ h \in Int /\ 0 <= h /\ h <= 65535
      /\ h \div 8 = code /\ (h \div 2) % 4 = id /\ h % 2 = eq
  BY <1>1, FieldsOfSum
<1> HIDE DEF h
<1>3. h \in Word
  BY <1>2, InWord
<1> QED
  BY <1>2, <1>3 DEF h, code_bits, id_bits, eq_bits

\* The header of a message, alone or before other words and bytes.
LEMMA HeaderBack ==
  ASSUME NEW code \in 0..16, NEW id \in 0..3, NEW eq \in 0..1, NEW words \in Seq(Word),
         Len(words) >= 1, words[1] = connection_header_value(code, id, eq)
  PROVE  CodeOf(Words(words)) = code /\ IdOf(Words(words)) = id /\ EqOf(Words(words)) = eq
<1> DEFINE h == connection_header_value(code, id, eq)
<1>1. 1 \in 1..Len(words) /\ <<>> \in Seq(Byte)
  OBVIOUS
<1>2. WordAt(Words(words), 1) = h
  BY <1>1, WordBack
<1>3. code_bits(h) = code /\ id_bits(h) = id /\ eq_bits(h) = eq
  BY HeaderFields
<1> HIDE DEF h
<1> QED
  BY <1>2, <1>3 DEF CodeOf, IdOf, EqOf

LEMMA HeaderKept ==
  ASSUME NEW words \in Seq(Word), Len(words) >= 1, NEW rest \in Seq(Byte)
  PROVE  /\ CodeOf(Words(words) \o rest) = CodeOf(Words(words))
         /\ IdOf(Words(words) \o rest) = IdOf(Words(words))
         /\ EqOf(Words(words) \o rest) = EqOf(Words(words))
<1>1. 1 \in 1..Len(words)
  OBVIOUS
<1>2. WordAt(Words(words) \o rest, 1) = WordAt(Words(words), 1)
  BY <1>1, WordKept
<1> QED
  BY <1>2 DEF CodeOf, IdOf, EqOf

LEMMA ModeBack ==
  ASSUME NEW base \in Int, NEW m \in Mode
  PROVE  /\ \E x \in Mode : Code(base, m) = Code(base, x)
         /\ (CHOOSE x \in Mode : Code(base, m) = Code(base, x)) = m
<1>1. \A x \in Mode : Code(base, m) = Code(base, x) => x = m
  BY DEF Mode, Code, Second
<1> QED
  BY <1>1

LEMMA TypeBack ==
  ASSUME NEW base \in Int, NEW t \in MessageType
  PROVE  /\ \E x \in MessageType : Code(base, t) = Code(base, x)
         /\ (CHOOSE x \in MessageType : Code(base, t) = Code(base, x)) = t
<1>1. \A x \in MessageType : Code(base, t) = Code(base, x) => x = t
  BY DEF MessageType, Code, Second
<1> QED
  BY <1>1

LEMMA CodeRange ==
  ASSUME NEW base \in 1..15, NEW x
  PROVE  Code(base, x) \in 0..16
BY DEF Code

-----------------------------------------------------------------------------
(* The messages of the start of a match. *)

\* A message of one word: what the messages of the start have in common.
LEMMA OneWord ==
  ASSUME NEW code \in 0..16, NEW id \in 0..3, NEW eq \in 0..1
  PROVE  LET bytes == Words(<<connection_header_value(code, id, eq)>>)
         IN  CodeOf(bytes) = code /\ IdOf(bytes) = id /\ EqOf(bytes) = eq
<1> DEFINE words == <<connection_header_value(code, id, eq)>>
<1>1. connection_header_value(code, id, eq) \in Word
  BY HeaderFields
<1>2. words \in Seq(Word) /\ Len(words) >= 1 /\ words[1] = connection_header_value(code, id, eq)
  BY <1>1
<1> HIDE DEF words
<1>3. CodeOf(Words(words)) = code /\ IdOf(Words(words)) = id /\ EqOf(Words(words)) = eq
  BY <1>2, HeaderBack
<1> QED
  BY <1>3 DEF words

LEMMA ShortHeader ==
  ASSUME NEW base \in 1..15, NEW x, NEW id \in 0..3, NEW eq \in 0..1
  PROVE  LET bytes == Words(<<connection_header_value(Code(base, x), id, eq)>>)
         IN  CodeOf(bytes) = Code(base, x) /\ IdOf(bytes) = id /\ EqOf(bytes) = eq
BY CodeRange, OneWord

\* The server learns the mode the client asked for.
THEOREM InitialRoundTrip ==
  ASSUME NEW mode \in Mode
  PROVE  deserialize_initial_connection(serialize_initial_connection(mode)) = mode
<1> DEFINE bytes == serialize_initial_connection(mode)
<1>1. INITIAL_CODE \in 1..15 /\ INITIAL_CODE \in Int /\ 0 \in 0..3 /\ 0 \in 0..1
  BY DEF INITIAL_CODE
<1>2. CodeOf(bytes) = Code(INITIAL_CODE, mode)
  BY <1>1, ShortHeader DEF serialize_initial_connection
<1> HIDE DEF bytes
<1> QED
  BY <1>1, <1>2, ModeBack DEF deserialize_initial_connection, bytes

Seat(mode, id, eq) == [game_mode |-> mode, id |-> id, eq |-> eq]

\* Whatever carries the header of a seat is of its kind and says its mode.
LEMMA SeatBack ==
  ASSUME NEW base \in 1..15, NEW mode \in Mode, NEW id, NEW eq, NEW bytes,
         CodeOf(bytes) = Code(base, mode), IdOf(bytes) = id, EqOf(bytes) = eq
  PROVE  OfKind(base, bytes) /\ Header(base, bytes) = Seat(mode, id, eq)
<1>1. base \in Int
  OBVIOUS
<1>2. /\ \E x \in Mode : CodeOf(bytes) = Code(base, x)
      /\ (CHOOSE x \in Mode : CodeOf(bytes) = Code(base, x)) = mode
  BY <1>1, ModeBack
<1> QED
  BY <1>2 DEF OfKind, Header, Seat

LEMMA SeatAlone ==
  ASSUME NEW base \in 1..15, NEW mode \in Mode, NEW id \in 0..3, NEW eq \in 0..1
  PROVE  LET bytes == Words(<<connection_header_value(Code(base, mode), id, eq)>>)
         IN  OfKind(base, bytes) /\ Header(base, bytes) = Seat(mode, id, eq)
<1> DEFINE bytes == Words(<<connection_header_value(Code(base, mode), id, eq)>>)
<1>1. CodeOf(bytes) = Code(base, mode) /\ IdOf(bytes) = id /\ EqOf(bytes) = eq
  BY ShortHeader
<1> HIDE DEF bytes
<1>2. OfKind(base, bytes) /\ Header(base, bytes) = Seat(mode, id, eq)
  BY <1>1, SeatBack
<1> QED
  BY <1>2 DEF bytes

LEMMA CodedHeader ==
  ASSUME NEW base \in 1..15, NEW mode, NEW id \in 0..3, NEW eq \in 0..1,
         NEW words \in Seq(Word), Len(words) >= 1,
         words[1] = connection_header_value(Code(base, mode), id, eq)
  PROVE  /\ CodeOf(Words(words)) = Code(base, mode)
         /\ IdOf(Words(words)) = id /\ EqOf(Words(words)) = eq
<1>1. \A code \in 0..16 :
        words[1] = connection_header_value(code, id, eq) =>
          CodeOf(Words(words)) = code /\ IdOf(Words(words)) = id /\ EqOf(Words(words)) = eq
  BY HeaderBack
<1>2. Code(base, mode) \in 0..16
  BY CodeRange
<1> QED
  BY <1>1, <1>2

\* The player and team a client is told are the ones it says it is ready as.
THEOREM ReadyRoundTrip ==
  ASSUME NEW mode \in Mode, NEW id \in 0..3, NEW eq \in 0..1,
         NEW h, h = Seat(mode, id, eq)
  PROVE  deserialize_ready_connection(serialize_ready_connection(h)) = h
<1>1. READY_CODE \in 1..15
  BY DEF READY_CODE
<1>2. serialize_ready_connection(h)
        = Words(<<connection_header_value(Code(READY_CODE, mode), id, eq)>>)
  BY DEF serialize_ready_connection, ValidId, ValidEq, Seat
<1> QED
  BY <1>1, <1>2, SeatAlone DEF deserialize_ready_connection

\* The winner the server announces is the one the clients hear of.
THEOREM GameEndRoundTrip ==
  ASSUME NEW mode \in Mode, NEW id \in 0..3, NEW eq \in 0..1,
         NEW h, h = Seat(mode, id, eq)
  PROVE  deserialize_game_end(serialize_game_end(h)) = h
<1>1. GAME_END_CODE \in 1..15
  BY DEF GAME_END_CODE
<1>2. serialize_game_end(h)
        = Words(<<connection_header_value(Code(GAME_END_CODE, mode), id, eq)>>)
  BY DEF serialize_game_end, ValidId, ValidEq, Seat
<1> QED
  BY <1>1, <1>2, SeatAlone DEF deserialize_game_end

\* The client's chat thread looks for the end of the game first: no message it
\* takes for the end could have been a chat message (controller.c).
THEOREM EndIsNoChat ==
  ASSUME NEW bytes, deserialize_game_end(bytes) # NULL
  PROVE  deserialize_chat_message(bytes, SERVER_CHAT_CODE) = NULL
<1>1. OfKind(GAME_END_CODE, bytes)
  BY DEF deserialize_game_end
<1>2. CodeOf(bytes) = 15 \/ CodeOf(bytes) = 16
  BY <1>1 DEF OfKind, GAME_END_CODE, Code
<1>3. \A t \in MessageType : CodeOf(bytes) # Code(SERVER_CHAT_CODE, t)
  BY <1>2 DEF Code, SERVER_CHAT_CODE
<1> QED
  BY <1>3 DEF deserialize_chat_message

-----------------------------------------------------------------------------
(* Messages of several words. *)

LEMMA ActionFields ==
  ASSUME NEW num \in Int, 0 <= num, num < 8192, NEW a \in Int, 0 <= a, a <= 5,
         NEW v, v = game_action_value(num, a)
  PROVE  v \in Word /\ number_bits(v) = num /\ action_bits(v) = a
<1>1. a % 8 = a
  OBVIOUS
<1>2. v = 8 * num + a
  <2> DEFINE s == 8 * num + a
  <2>1. s \in Int /\ 0 <= s /\ s < 65536
    OBVIOUS
  <2>2. s % 65536 = s
    BY <2>1
  <2> QED
    BY <1>1, <2>2 DEF game_action_value
<1>3. v \in Int /\ 0 <= v /\ v <= 65535
  BY <1>2
<1>4. v \in Word
  BY <1>3, InWord
<1>5. v \div 8 = num
  BY <1>2
<1>6. v % 8 = a
  BY <1>2
<1> QED
  BY <1>4, <1>5, <1>6 DEF number_bits, action_bits

\* A client's message number and action arrive as they were sent.
THEOREM ActionRoundTrip ==
  ASSUME NEW mode \in Mode, NEW id \in 0..3, NEW eq \in 0..1,
         NEW num \in Int, 0 <= num, num < 8192, NEW action \in 0..5,
         NEW a, a = [game_mode |-> mode, id |-> id, eq |-> eq,
                     message_number |-> num, action |-> action]
  PROVE  deserialize_game_action(serialize_game_action(a)) = a
<1> DEFINE h == connection_header_value(Code(ACTION_CODE, mode), id, eq)
           v == game_action_value(num, action)
           words == <<h, v>>
<1>1. ACTION_CODE \in 1..15
  BY DEF ACTION_CODE
<1>2. h \in Word
  <2>1. \A code \in 0..16 : connection_header_value(code, id, eq) \in Word
    BY HeaderFields
  <2> QED
    BY <1>1, <2>1, CodeRange
<1>3. v \in Word /\ number_bits(v) = num /\ action_bits(v) = action
  <2>1. action \in Int /\ 0 <= action /\ action <= 5
    OBVIOUS
  <2> QED
    BY <2>1, ActionFields
<1>4. serialize_game_action(a) = Words(words)
  BY DEF serialize_game_action, ValidId, ValidEq
<1> HIDE DEF h, v
<1>5. words \in Seq(Word) /\ Len(words) = 2 /\ words[1] = h /\ words[2] = v
  BY <1>2, <1>3
<1> HIDE DEF words
<1>6. WordAt(Words(words), 2) = v
  <2>1. 2 \in 1..Len(words)
    BY <1>5
  <2> QED
    BY <1>5, <2>1, WordBack
<1>7. /\ CodeOf(Words(words)) = Code(ACTION_CODE, mode)
      /\ IdOf(Words(words)) = id /\ EqOf(Words(words)) = eq
  BY <1>1, <1>5, CodedHeader DEF h
<1> DEFINE bytes == Words(words)
<1> HIDE DEF bytes
<1>8. OfKind(ACTION_CODE, bytes) /\ Header(ACTION_CODE, bytes) = Seat(mode, id, eq)
  BY <1>1, <1>7, SeatBack DEF bytes
<1>9. Header(ACTION_CODE, bytes).game_mode = mode
  BY <1>8 DEF Seat
<1> QED
  BY <1>3, <1>4, <1>6, <1>7, <1>8, <1>9 DEF deserialize_game_action, bytes

\* The ports and the group a client is told to use are the server's.
THEOREM InformationRoundTrip ==
  ASSUME NEW mode \in Mode, NEW id \in 0..3, NEW eq \in 0..1,
         NEW udp \in Word, NEW mdiff \in Word, NEW adr \in [1..8 -> Word],
         NEW info, info = [game_mode |-> mode, id |-> id, eq |-> eq,
                           portudp |-> udp, portmdiff |-> mdiff, adrmdiff |-> adr]
  PROVE  deserialize_connection_information(serialize_connection_information(info)) = info
<1> DEFINE h == connection_header_value(Code(INFORMATION_CODE, mode), id, eq)
           three == <<h, udp, mdiff>>
           words == three \o adr
           bytes == Words(words)
<1>1. INFORMATION_CODE \in 1..15
  BY DEF INFORMATION_CODE
<1>2. h \in Word
  <2>1. \A code \in 0..16 : connection_header_value(code, id, eq) \in Word
    BY HeaderFields
  <2> QED
    BY <1>1, <2>1, CodeRange
<1>3. udp % 65536 = udp /\ mdiff % 65536 = mdiff
  <2>1. udp \in Int /\ 0 <= udp /\ udp < 65536 /\ mdiff \in Int /\ 0 <= mdiff /\ mdiff < 65536
    BY DEF Word
  <2> QED
    BY <2>1
<1>4. serialize_connection_information(info) = bytes
  BY <1>3 DEF serialize_connection_information, ValidId, ValidEq
<1> HIDE DEF h
<1>5. adr \in Seq(Word) /\ Len(adr) = 8
  <2>1. 8 \in Nat
    OBVIOUS
  <2> QED
    BY <2>1, FunctionIsSequence
<1>6. /\ words \in Seq(Word) /\ Len(words) = 11
      /\ words[1] = h /\ words[2] = udp /\ words[3] = mdiff
      /\ \A i \in 1..8 : words[3 + i] = adr[i]
  <2>1. three \in Seq(Word) /\ 3 = Len(three)
        /\ three[1] = h /\ three[2] = udp /\ three[3] = mdiff
    BY <1>2, Three
  <2>2. 8 = Len(adr)
    BY <1>5
  <2> HIDE DEF three
  <2>3. /\ words \in Seq(Word) /\ Len(words) = 3 + 8
        /\ \A j \in 1..3 : words[j] = three[j]
        /\ \A i \in 1..8 : words[3 + i] = adr[i]
    BY <1>5, <2>1, <2>2, AfterThree
  <2> HIDE DEF words
  <2>4. 3 + 8 = 11 /\ 1 \in 1..3 /\ 2 \in 1..3 /\ 3 \in 1..3
    OBVIOUS
  <2> QED
    BY <2>1, <2>3, <2>4
<1> HIDE DEF words
<1>7. WordAt(bytes, 2) = udp /\ WordAt(bytes, 3) = mdiff
  <2>1. 2 \in 1..Len(words) /\ 3 \in 1..Len(words)
    BY <1>6
  <2> QED
    BY <1>6, <2>1, WordBack
<1>8. [i \in 1..8 |-> WordAt(bytes, 3 + i)] = adr
  <2>1. ASSUME NEW i \in 1..8 PROVE WordAt(bytes, 3 + i) = adr[i]
    <3>1. 3 + i \in 1..Len(words)
      BY <1>6
    <3> QED
      BY <1>6, <3>1, WordBack
  <2> QED
    BY <2>1
<1>9. CodeOf(bytes) = Code(INFORMATION_CODE, mode) /\ IdOf(bytes) = id /\ EqOf(bytes) = eq
  <2>1. Len(words) >= 1 /\ words[1] = connection_header_value(Code(INFORMATION_CODE, mode), id, eq)
    BY <1>6 DEF h
  <2> QED
    BY <1>1, <1>6, <2>1, CodedHeader
<1> HIDE DEF bytes
<1>10. OfKind(INFORMATION_CODE, bytes) /\ Header(INFORMATION_CODE, bytes) = Seat(mode, id, eq)
  BY <1>1, <1>9, SeatBack
<1>11. Header(INFORMATION_CODE, bytes).game_mode = mode
  BY <1>10 DEF Seat
<1> QED
  BY <1>4, <1>7, <1>8, <1>9, <1>10, <1>11 DEF deserialize_connection_information

-----------------------------------------------------------------------------
(* Boards and differences. *)

\* The two words in front of a board or a difference.
LEMMA TwoWords ==
  ASSUME NEW code \in 0..16, NEW num \in Word,
         NEW words, words = <<connection_header_value(code, 0, 0), num>>
  PROVE  /\ words \in Seq(Word) /\ Len(words) = 2 /\ Len(words) >= 1
         /\ words[1] = connection_header_value(code, 0, 0) /\ words[2] = num
<1>1. 0 \in 0..3 /\ 0 \in 0..1
  OBVIOUS
<1>2. connection_header_value(code, 0, 0) \in Word
  BY <1>1, HeaderFields
<1> QED
  BY <1>2

LEMMA BoardHeader ==
  ASSUME NEW code \in 0..16, NEW num \in Word, NEW rest \in Seq(Byte)
  PROVE  LET bytes == Words(<<connection_header_value(code, 0, 0), num>>) \o rest
         IN  /\ CodeOf(bytes) = code /\ IdOf(bytes) = 0 /\ EqOf(bytes) = 0
             /\ WordAt(bytes, 2) = num
<1> DEFINE words == <<connection_header_value(code, 0, 0), num>>
<1>1. 0 \in 0..3 /\ 0 \in 0..1
  OBVIOUS
<1>2. /\ words \in Seq(Word) /\ Len(words) = 2 /\ Len(words) >= 1
      /\ words[1] = connection_header_value(code, 0, 0) /\ words[2] = num
  BY TwoWords
<1> HIDE DEF words
<1>3. CodeOf(Words(words)) = code /\ IdOf(Words(words)) = 0 /\ EqOf(Words(words)) = 0
  BY <1>1, <1>2, HeaderBack
<1>4. /\ CodeOf(Words(words) \o rest) = code
      /\ IdOf(Words(words) \o rest) = 0 /\ EqOf(Words(words) \o rest) = 0
  BY <1>2, <1>3, HeaderKept
<1>5. WordAt(Words(words) \o rest, 2) = num
  <2>1. 2 \in 1..Len(words)
    BY <1>2
  <2> QED
    BY <1>2, <2>1, WordBack, WordKept
<1> QED
  BY <1>4, <1>5 DEF words

LEMMA BoardBody ==
  ASSUME NEW code \in 0..16, NEW num \in Word, NEW rest \in Seq(Byte), NEW i \in 1..Len(rest)
  PROVE  (Words(<<connection_header_value(code, 0, 0), num>>) \o rest)[4 + i] = rest[i]
<1> DEFINE words == <<connection_header_value(code, 0, 0), num>>
           head == Words(words)
<1>1. words \in Seq(Word) /\ Len(words) = 2
  BY TwoWords
<1> HIDE DEF words
<1>2. head \in Seq(Byte) /\ 4 = Len(head)
  BY <1>1, FourBytes
<1> HIDE DEF head
<1>3. (head \o rest)[4 + i] = rest[i]
  BY <1>2, AfterFour
<1> QED
  BY <1>3 DEF head, words

\* The board a client decodes is the server's, line after line.
THEOREM BoardRoundTrip ==
  ASSUME NEW num \in Word, NEW height \in Byte, NEW width \in Byte,
         NEW board \in [1..height * width -> Tile],
         NEW info, info = [num |-> num, height |-> height, width |-> width, board |-> board]
  PROVE  deserialize_game_board(serialize_game_board(info)) = info
<1> DEFINE n == height * width
           rest == <<height, width>> \o board
           bytes == Words(<<connection_header_value(BOARD_CODE, 0, 0), num>>) \o rest
<1>1. n \in Nat
  BY DEF Byte
<1>2. board \in [1..n -> Tile]
  OBVIOUS
<1> HIDE DEF n
<1>3. \A t \in Tile : t \in Byte
  BY DEF Tile, Byte
<1>4. board \in Seq(Byte) /\ Len(board) = n
  BY <1>1, <1>2, <1>3
<1>5. /\ rest \in Seq(Byte) /\ Len(rest) = n + 2
      /\ rest[1] = height /\ rest[2] = width
      /\ \A i \in 1..n : rest[2 + i] = board[i]
  BY <1>1, <1>4, TwoAndMore
<1>6. serialize_game_board(info) = bytes
  <2>1. \A i \in DOMAIN board : board[i] \in Tile
    BY <1>2
  <2>2. /\ info.board = board /\ info.num = num
        /\ info.height = height /\ info.width = width
    OBVIOUS
  <2> QED
    BY <2>1, <2>2 DEF serialize_game_board
<1> HIDE DEF rest
<1>7. BOARD_CODE \in 0..16
  BY DEF BOARD_CODE
<1>8. /\ CodeOf(bytes) = BOARD_CODE /\ IdOf(bytes) = 0 /\ EqOf(bytes) = 0
      /\ WordAt(bytes, 2) = num
  BY <1>5, <1>7, BoardHeader
<1>12. \A i \in 1..Len(rest) : bytes[4 + i] = rest[i]
  BY <1>5, <1>7, BoardBody
<1> HIDE DEF bytes
<1>9. bytes[5] = height /\ bytes[6] = width
  <2>1. 1 \in 1..Len(rest) /\ 2 \in 1..Len(rest)
    BY <1>1, <1>5
  <2>2. bytes[4 + 1] = height /\ bytes[4 + 2] = width
    BY <1>5, <1>12, <2>1
  <2> QED
    BY <2>2
<1>10. ASSUME NEW i \in 1..n PROVE bytes[6 + i] = board[i]
  <2>1. 2 + i \in 1..Len(rest)
    BY <1>1, <1>5
  <2>2. bytes[4 + (2 + i)] = board[i]
    BY <1>5, <1>12, <2>1
  <2>3. 4 + (2 + i) = 6 + i
    OBVIOUS
  <2> QED
    BY <2>2, <2>3
<1>11. [i \in 1..bytes[5] * bytes[6] |-> bytes[6 + i]] = board
  <2>1. bytes[5] * bytes[6] = n
    BY <1>9 DEF n
  <2>2. board = [i \in 1..n |-> board[i]]
    BY <1>2
  <2> QED
    BY <1>10, <2>1, <2>2
<1> QED
  BY <1>6, <1>8, <1>9, <1>11 DEF deserialize_game_board

\* The number of a difference and the field of it that byte k holds.
LEMMA ThirdsOf ==
  ASSUME NEW i \in Nat \ {0}
  PROVE  /\ (3 * i - 2 + 2) \div 3 = i /\ (3 * i - 2) % 3 = 1
         /\ (3 * i - 1 + 2) \div 3 = i /\ (3 * i - 1) % 3 = 2
         /\ (3 * i + 2) \div 3 = i /\ (3 * i) % 3 = 0
OBVIOUS

\* The differences a client decodes are the first nb of the server's, and they
\* are not taken for a board.
THEOREM UpdateRoundTrip ==
  ASSUME NEW num \in Word, NEW nb \in Byte, NEW diff,
         \A i \in 1..nb : diff[i] \in [x : Byte, y : Byte, tile : Tile],
         NEW update, update = [num |-> num, nb |-> nb, diff |-> diff]
  PROVE  LET bytes == serialize_game_board_update(update)
         IN  /\ deserialize_game_board(bytes) = NULL
             /\ deserialize_game_board_update(bytes)
                  = [num |-> num, nb |-> nb, diff |-> [i \in 1..nb |-> diff[i]]]
<1> DEFINE field(k) == LET d == diff[(k + 2) \div 3]
                       IN  CASE k % 3 = 1 -> d.x [] k % 3 = 2 -> d.y [] k % 3 = 0 -> d.tile
           tail == [k \in 1..3 * nb |-> field(k)]
           rest == <<nb>> \o tail
           bytes == Words(<<connection_header_value(UPDATE_CODE, 0, 0), num>>) \o rest
<1>1. /\ nb \in Nat /\ 3 * nb \in Nat
      /\ \A i \in 1..nb : diff[i].x \in Byte /\ diff[i].y \in Byte /\ diff[i].tile \in Tile
  BY DEF Byte
<1>2. ASSUME NEW k \in 1..3 * nb PROVE field(k) \in Byte
  <2>1. (k + 2) \div 3 \in 1..nb /\ (k % 3 = 0 \/ k % 3 = 1 \/ k % 3 = 2)
    BY <1>1
  <2> QED  BY <1>1, <2>1 DEF Tile, Byte
<1>3. tail \in Seq(Byte) /\ Len(tail) = 3 * nb
  <2> HIDE DEF field
  <2> QED  BY <1>1, <1>2
<1>4. ASSUME NEW i \in 1..nb
      PROVE  /\ tail[3 * i - 2] = diff[i].x /\ tail[3 * i - 1] = diff[i].y
             /\ tail[3 * i] = diff[i].tile
  <2>1. 3 * i - 2 \in 1..3 * nb /\ 3 * i - 1 \in 1..3 * nb /\ 3 * i \in 1..3 * nb
    BY <1>1
  <2>2. field(3 * i - 2) = diff[i].x /\ field(3 * i - 1) = diff[i].y
        /\ field(3 * i) = diff[i].tile
    <3>1. /\ (3 * i - 2 + 2) \div 3 = i /\ (3 * i - 2) % 3 = 1
          /\ (3 * i - 1 + 2) \div 3 = i /\ (3 * i - 1) % 3 = 2
          /\ (3 * i + 2) \div 3 = i /\ (3 * i) % 3 = 0
      BY <1>1, ThirdsOf
    <3>2. ASSUME NEW k, (k + 2) \div 3 = i
          PROVE  /\ k % 3 = 1 => field(k) = diff[i].x
                 /\ k % 3 = 2 => field(k) = diff[i].y
                 /\ k % 3 = 0 => field(k) = diff[i].tile
      BY <3>2
    <3> HIDE DEF field
    <3> QED  BY <3>1, <3>2
  <2> HIDE DEF field
  <2> QED  BY <2>1, <2>2
<1>5. serialize_game_board_update(update) = bytes
  <2>1. /\ update.nb = nb /\ update.num = num /\ update.diff = diff
        /\ \A i \in 1..nb : diff[i].tile \in Tile
    BY <1>1
  <2> DEFINE w == Words(<<connection_header_value(UPDATE_CODE, 0, 0), num>>)
  <2>2. serialize_game_board_update(update) = w \o <<nb>> \o tail
    <3>1. [k \in 1..3 * update.nb |->
             LET d == update.diff[(k + 2) \div 3]
             IN  CASE k % 3 = 1 -> d.x [] k % 3 = 2 -> d.y [] k % 3 = 0 -> d.tile] = tail
      BY <2>1
    <3> HIDE DEF tail
    <3>2. \A i \in 1..update.nb : update.diff[i].tile \in Tile
      BY <2>1
    <3>3. w = Words(<<connection_header_value(UPDATE_CODE, 0, 0), update.num>>)
      BY <2>1
    <3> HIDE DEF w
    <3> QED  BY <2>1, <3>1, <3>2, <3>3, Zenon DEF serialize_game_board_update
  <2>3. w \in Seq(Byte) /\ <<nb>> \in Seq(Byte)
    <3>1. UPDATE_CODE \in 0..16
      BY DEF UPDATE_CODE
    <3> QED  BY <3>1, TwoWords, FourBytes
  <2> HIDE DEF w, tail
  <2>4. (w \o <<nb>>) \o tail = w \o (<<nb>> \o tail)
    BY <1>3, <2>3
  <2> QED  BY <2>2, <2>4 DEF w
<1> HIDE DEF tail
<1>6. /\ rest \in Seq(Byte) /\ Len(rest) = 3 * nb + 1
      /\ rest[1] = nb
      /\ \A k \in 1..3 * nb : rest[k + 1] = tail[k]
  BY <1>1, <1>3
<1> HIDE DEF rest
<1>7. UPDATE_CODE \in 0..16 /\ UPDATE_CODE # BOARD_CODE
  BY DEF UPDATE_CODE, BOARD_CODE
<1>8. /\ CodeOf(bytes) = UPDATE_CODE /\ IdOf(bytes) = 0 /\ EqOf(bytes) = 0
      /\ WordAt(bytes, 2) = num
  BY <1>6, <1>7, BoardHeader
<1>9. \A i \in 1..Len(rest) : bytes[4 + i] = rest[i]
  BY <1>6, <1>7, BoardBody
<1> HIDE DEF bytes
<1>10. bytes[5] = nb
  <2>1. 1 \in 1..Len(rest)
    BY <1>1, <1>6
  <2>2. bytes[4 + 1] = nb
    BY <1>6, <1>9, <2>1
  <2> QED  BY <2>2
<1>11. ASSUME NEW k \in 1..3 * nb PROVE bytes[5 + k] = tail[k]
  <2>1. k + 1 \in 1..Len(rest)
    BY <1>1, <1>6
  <2>2. bytes[4 + (k + 1)] = tail[k]
    BY <1>6, <1>9, <2>1
  <2>3. 4 + (k + 1) = 5 + k
    OBVIOUS
  <2> QED  BY <2>2, <2>3
<1>12. ASSUME NEW i \in 1..nb
       PROVE  [x |-> bytes[3 + 3 * i], y |-> bytes[4 + 3 * i], tile |-> bytes[5 + 3 * i]] = diff[i]
  <2>1. 3 * i - 2 \in 1..3 * nb /\ 3 * i - 1 \in 1..3 * nb /\ 3 * i \in 1..3 * nb
    BY <1>1
  <2>2. /\ bytes[5 + (3 * i - 2)] = diff[i].x /\ bytes[5 + (3 * i - 1)] = diff[i].y
        /\ bytes[5 + 3 * i] = diff[i].tile
    BY <1>4, <1>11, <2>1
  <2>3. 5 + (3 * i - 2) = 3 + 3 * i /\ 5 + (3 * i - 1) = 4 + 3 * i
    BY <1>1
  <2>4. diff[i] = [x |-> diff[i].x, y |-> diff[i].y, tile |-> diff[i].tile]
    OBVIOUS
  <2> QED  BY <2>2, <2>3, <2>4
<1>13. [i \in 1..bytes[5] |-> [x |-> bytes[3 + 3 * i], y |-> bytes[4 + 3 * i], tile |-> bytes[5 + 3 * i]]]
         = [i \in 1..nb |-> diff[i]]
  BY <1>10, <1>12
<1>14. deserialize_game_board(bytes) = NULL
  BY <1>7, <1>8 DEF deserialize_game_board
<1>15. deserialize_game_board_update(bytes)
         = [num |-> num, nb |-> nb, diff |-> [i \in 1..nb |-> diff[i]]]
  <2>1. 0 % 2 = 0
    OBVIOUS
  <2> QED  BY <1>8, <1>10, <1>13, <2>1, Zenon DEF deserialize_game_board_update
<1> QED  BY <1>5, <1>14, <1>15

-----------------------------------------------------------------------------
(* Chat. *)

\* The two bytes every message starts with.
LEMMA HeaderBytes ==
  ASSUME NEW base \in 1..15, NEW x, NEW id \in 0..3, NEW eq \in 0..1
  PROVE  LET head == Words(<<connection_header_value(Code(base, x), id, eq)>>)
         IN  /\ head \in Seq(Byte) /\ 2 = Len(head)
             /\ CodeOf(head) = Code(base, x) /\ IdOf(head) = id /\ EqOf(head) = eq
<1> DEFINE h == connection_header_value(Code(base, x), id, eq)
<1>1. h \in Word
  <2>1. \A code \in 0..16 : connection_header_value(code, id, eq) \in Word
    BY HeaderFields
  <2> QED  BY <2>1, CodeRange
<1> HIDE DEF h
<1>2. <<h>> \in Seq(Word) /\ Len(<<h>>) = 1
  BY <1>1
<1>3. Words(<<h>>) \in Seq(Byte) /\ Len(Words(<<h>>)) = 2 * 1
  BY <1>2, WordsBytes
<1> DEFINE bytes == Words(<<h>>)
<1>4. CodeOf(bytes) = Code(base, x) /\ IdOf(bytes) = id /\ EqOf(bytes) = eq
  BY ShortHeader DEF h
<1> HIDE DEF bytes
<1>5. bytes \in Seq(Byte) /\ Len(bytes) = 2 * 1
  BY <1>3 DEF bytes
<1>6. bytes \in Seq(Byte) /\ 2 = Len(bytes)
  BY <1>5
<1> QED  BY <1>4, <1>6 DEF bytes, h

\* The messages of one word have two bytes, the information about a match 22.
LEMMA ShortMessages ==
  ASSUME NEW mode \in Mode, NEW id \in 0..3, NEW eq \in 0..1, NEW h, h = Seat(mode, id, eq)
  PROVE  /\ serialize_initial_connection(mode) \in Seq(Byte)
         /\ Len(serialize_initial_connection(mode)) = 2
         /\ serialize_ready_connection(h) \in Seq(Byte)
         /\ Len(serialize_ready_connection(h)) = 2
         /\ serialize_game_end(h) \in Seq(Byte)
         /\ Len(serialize_game_end(h)) = 2
<1>1. ASSUME NEW base \in 1..15, NEW i \in 0..3, NEW e \in 0..1
      PROVE  LET head == Words(<<connection_header_value(Code(base, mode), i, e)>>)
             IN  head \in Seq(Byte) /\ Len(head) = 2
  BY HeaderBytes
<1>2. INITIAL_CODE \in 1..15 /\ READY_CODE \in 1..15 /\ GAME_END_CODE \in 1..15
  BY DEF INITIAL_CODE, READY_CODE, GAME_END_CODE
<1>3. 0 \in 0..3 /\ 0 \in 0..1
  OBVIOUS
<1>4. ValidId(id) /\ ValidEq(eq) /\ h.id = id /\ h.eq = eq /\ h.game_mode = mode
  BY DEF ValidId, ValidEq, Seat
<1>5. /\ serialize_initial_connection(mode) \in Seq(Byte)
      /\ Len(serialize_initial_connection(mode)) = 2
  BY <1>1, <1>2, <1>3 DEF serialize_initial_connection
<1>6. serialize_ready_connection(h)
        = Words(<<connection_header_value(Code(READY_CODE, mode), id, eq)>>)
  BY <1>4, Zenon DEF serialize_ready_connection
<1>7. serialize_game_end(h)
        = Words(<<connection_header_value(Code(GAME_END_CODE, mode), id, eq)>>)
  BY <1>4, Zenon DEF serialize_game_end
<1> QED  BY <1>1, <1>2, <1>5, <1>6, <1>7

LEMMA LongMessage ==
  ASSUME NEW mode \in Mode, NEW id \in 0..3, NEW eq \in 0..1,
         NEW udp \in Word, NEW mdiff \in Word, NEW adr \in [1..8 -> Word],
         NEW info, info = [game_mode |-> mode, id |-> id, eq |-> eq,
                           portudp |-> udp, portmdiff |-> mdiff, adrmdiff |-> adr]
  PROVE  /\ serialize_connection_information(info) \in Seq(Byte)
         /\ Len(serialize_connection_information(info)) = 22
<1> DEFINE h == connection_header_value(Code(INFORMATION_CODE, mode), id, eq)
           three == <<h, udp, mdiff>>
           words == three \o adr
<1>1. h \in Word
  <2>1. \A code \in 0..16 : connection_header_value(code, id, eq) \in Word
    BY HeaderFields
  <2>2. INFORMATION_CODE \in 1..15
    BY DEF INFORMATION_CODE
  <2> QED  BY <2>1, <2>2, CodeRange
<1>2. udp % 65536 = udp /\ mdiff % 65536 = mdiff
  <2>1. udp \in Int /\ 0 <= udp /\ udp < 65536 /\ mdiff \in Int /\ 0 <= mdiff /\ mdiff < 65536
    BY DEF Word
  <2> QED  BY <2>1
<1>3. serialize_connection_information(info) = Words(words)
  BY <1>2 DEF serialize_connection_information, ValidId, ValidEq
<1> HIDE DEF h
<1>4. adr \in Seq(Word) /\ Len(adr) = 8
  <2>1. 8 \in Nat
    OBVIOUS
  <2> QED  BY <2>1, FunctionIsSequence
<1>5. words \in Seq(Word) /\ Len(words) = 11
  <2>1. three \in Seq(Word) /\ 3 = Len(three)
    BY <1>1, Three
  <2>2. 8 = Len(adr)
    BY <1>4
  <2> HIDE DEF three
  <2>3. words \in Seq(Word) /\ Len(words) = 3 + 8
    BY <1>4, <2>1, <2>2, AfterThree
  <2> HIDE DEF words
  <2> QED  BY <2>3
<1> HIDE DEF words
<1>6. Words(words) \in Seq(Byte) /\ Len(Words(words)) = 2 * 11
  BY <1>5, WordsBytes
<1> QED  BY <1>3, <1>6

\* The characters of a text: strings end at a zero.
Char == 1..255

LEMMA CharIsByte == Char \subseteq Byte
BY DEF Char, Byte

\* A text without a zero is all of what is decoded.
LEMMA WholeText ==
  ASSUME NEW text \in Seq(Char)
  PROVE  Text(text) = text
<1> DEFINE IsEnd(n) == /\ \A i \in 1..n : text[i] # 0
                       /\ n = Len(text) \/ text[n + 1] = 0
<1>0. Len(text) \in Nat /\ \A i \in 1..Len(text) : text[i] \in Char /\ text[i] # 0
  <2>1. Len(text) \in Nat /\ \A i \in 1..Len(text) : text[i] \in Char
    OBVIOUS
  <2>2. \A c \in Char : c # 0
    BY DEF Char
  <2> QED  BY <2>1, <2>2
<1>1. Len(text) \in 0..Len(text) /\ IsEnd(Len(text))
  BY <1>0
<1>2. ASSUME NEW n \in 0..Len(text), IsEnd(n) PROVE n = Len(text)
  <2>1. n + 1 \in 1..Len(text) \/ n = Len(text)
    BY <1>0
  <2> QED  BY <1>0, <1>2, <2>1
<1>3. (CHOOSE n \in 0..Len(text) : IsEnd(n)) = Len(text)
  <2> HIDE DEF IsEnd
  <2> QED  BY <1>1, <1>2
<1>4. SubSeq(text, 1, Len(text)) = text
  OBVIOUS
<1> QED  BY <1>3, <1>4 DEF Text

\* A text behind its length, and both behind a header.
LEMMA CountedText ==
  ASSUME NEW one \in Seq(Byte), 1 = Len(one), NEW text \in Seq(Byte)
  PROVE  /\ one \o text \in Seq(Byte) /\ Len(one \o text) = 1 + Len(text)
         /\ (one \o text)[1] = one[1]
         /\ \A k \in 1..Len(text) : (one \o text)[k + 1] = text[k]
<1> DEFINE m == Len(one)
           n == Len(text)
           u == one \o text
<1>1. n \in Nat
  OBVIOUS
<1>2. /\ u \in Seq(Byte) /\ Len(u) = m + n
      /\ \A j \in 1..m : u[j] = one[j]
      /\ \A k \in 1..n : u[m + k] = text[k]
  BY PartsOfConcat
<1>3. m = 1
  OBVIOUS
<1> HIDE DEF m, n, u
<1>4. u \in Seq(Byte) /\ Len(u) = 1 + n
  BY <1>2, <1>3
<1>5. u[1] = one[1]
  <2>1. 1 \in 1..m
    BY <1>3
  <2> QED  BY <1>2, <2>1
<1>6. ASSUME NEW k \in 1..n PROVE u[k + 1] = text[k]
  <2>1. u[m + k] = text[k]
    BY <1>2
  <2>2. m + k = k + 1
    BY <1>1, <1>3
  <2> QED  BY <2>1, <2>2
<1> QED  BY <1>4, <1>5, <1>6 DEF n, u

LEMMA ChatBytes ==
  ASSUME NEW head \in Seq(Byte), 2 = Len(head), NEW one \in Seq(Byte), 1 = Len(one),
         NEW text \in Seq(Byte)
  PROVE  LET bytes == (head \o one) \o text
         IN  /\ bytes \in Seq(Byte) /\ Len(bytes) = 3 + Len(text)
             /\ bytes[1] = head[1] /\ bytes[2] = head[2] /\ bytes[3] = one[1]
             /\ \A k \in 1..Len(text) : bytes[3 + k] = text[k]
<1> DEFINE rest == one \o text
           bytes == (head \o one) \o text
           n == Len(text)
           l == Len(rest)
           m == Len(head)
           u == head \o rest
<1>1. n \in Nat
  OBVIOUS
<1>2. bytes = u
  BY ConcatAssociative
<1>3. /\ rest \in Seq(Byte) /\ l = 1 + n
      /\ rest[1] = one[1] /\ \A k \in 1..n : rest[k + 1] = text[k]
  BY CountedText
<1> HIDE DEF rest
<1>4. /\ u \in Seq(Byte) /\ Len(u) = m + l
      /\ \A i \in 1..m : u[i] = head[i]
      /\ \A i \in 1..l : u[m + i] = rest[i]
  <2>1. rest \in Seq(Byte)
    BY <1>3
  <2> QED  BY <2>1, PartsOfConcat
<1>5. m = 2
  OBVIOUS
<1> HIDE DEF u, bytes, n, l, m
<1>6. /\ bytes \in Seq(Byte) /\ Len(bytes) = 2 + l
      /\ \A i \in 1..2 : bytes[i] = head[i]
      /\ \A i \in 1..l : bytes[2 + i] = rest[i]
  BY <1>2, <1>4, <1>5
<1>7. bytes[1] = head[1] /\ bytes[2] = head[2]
  <2>1. 1 \in 1..2 /\ 2 \in 1..2
    OBVIOUS
  <2> QED  BY <1>6, <2>1
<1>8. bytes[3] = one[1]
  <2>1. 1 \in 1..l
    BY <1>1, <1>3
  <2>2. bytes[2 + 1] = rest[1]
    BY <1>6, <2>1
  <2>3. 2 + 1 = 3
    OBVIOUS
  <2> QED  BY <1>3, <2>2, <2>3
<1>9. ASSUME NEW k \in 1..n PROVE bytes[3 + k] = text[k]
  <2>1. k + 1 \in 1..l
    BY <1>1, <1>3
  <2>2. bytes[2 + (k + 1)] = rest[k + 1]
    BY <1>6, <2>1
  <2>3. 2 + (k + 1) = 3 + k
    BY <1>1
  <2>4. rest[k + 1] = text[k]
    BY <1>3
  <2> QED  BY <2>2, <2>3, <2>4
<1>10. Len(bytes) = 3 + n
  <2>1. 2 + l = 3 + n
    BY <1>1, <1>3
  <2> QED  BY <1>6, <2>1
<1> QED  BY <1>6, <1>7, <1>8, <1>9, <1>10 DEF bytes, n

\* The code and the seat are those of the first two bytes.
LEMMA SameHeader ==
  ASSUME NEW a, NEW b, a[1] = b[1], a[2] = b[2]
  PROVE  CodeOf(a) = CodeOf(b) /\ IdOf(a) = IdOf(b) /\ EqOf(a) = EqOf(b)
<1>1. WordAt(a, 1) = WordAt(b, 1)
  <2>1. 2 * 1 - 1 = 1 /\ 2 * 1 = 2
    OBVIOUS
  <2> QED  BY <2>1 DEF WordAt
<1> QED  BY <1>1 DEF CodeOf, IdOf, EqOf

\* What is decoded of such bytes.
LEMMA ChatDecoded ==
  ASSUME NEW base \in Int, NEW type \in MessageType, NEW text \in Seq(Char),
         NEW bytes, bytes[3] = Len(text), \A k \in 1..Len(text) : bytes[3 + k] = text[k],
         CodeOf(bytes) = Code(base, type)
  PROVE  deserialize_chat_message(bytes, base)
           = [type |-> type, id |-> IdOf(bytes), eq |-> EqOf(bytes),
              message_length |-> Len(text), message |-> text]
<1>1. [i \in 1..bytes[3] |-> bytes[3 + i]] = text
  <2>1. text = [i \in 1..Len(text) |-> text[i]]
    OBVIOUS
  <2> QED  BY <2>1
<1>2. Text([i \in 1..bytes[3] |-> bytes[3 + i]]) = text
  BY <1>1, WholeText
<1>3. /\ \E t \in MessageType : CodeOf(bytes) = Code(base, t)
      /\ (CHOOSE t \in MessageType : CodeOf(bytes) = Code(base, t)) = type
  BY TypeBack
<1> QED  BY <1>2, <1>3, Zenon DEF deserialize_chat_message

Chat(type, id, eq, text) ==
  [type |-> type, id |-> id, eq |-> eq, message_length |-> Len(text), message |-> text]

\* A chat message is read as it was typed, in either direction, and its third
\* byte tells where it ends: serialize_chat_message, deserialize_chat_message.
THEOREM ChatRoundTrip ==
  ASSUME NEW base \in 1..15, NEW type \in MessageType, NEW id \in 0..3, NEW eq \in 0..1,
         NEW text \in Seq(Char), Len(text) \in Byte
  PROVE  LET bytes == serialize_chat_message(Chat(type, id, eq, text), base)
         IN  /\ bytes \in Seq(Byte) /\ Len(bytes) = 3 + Len(text) /\ bytes[3] = Len(text)
             /\ CodeOf(bytes) = Code(base, type)
             /\ deserialize_chat_message(bytes, base) = Chat(type, id, eq, text)
<1> DEFINE n == Len(text)
           head == Words(<<connection_header_value(Code(base, type), id, eq)>>)
           one == <<n>>
           bytes == (head \o one) \o text
<1>1. n \in Byte /\ n = Len(text) /\ text \in Seq(Byte) /\ base \in Int
  <2>1. text \in Seq(Byte)
    BY CharIsByte, SeqMonotonic
  <2> QED  BY <2>1
<1>2. /\ head \in Seq(Byte) /\ 2 = Len(head)
      /\ CodeOf(head) = Code(base, type) /\ IdOf(head) = id /\ EqOf(head) = eq
  BY HeaderBytes
<1>3. strncpy(text, n) = text
  <2>1. text = [i \in 1..n |-> text[i]]
    OBVIOUS
  <2> QED  BY <2>1, <1>1 DEF strncpy
<1> HIDE DEF n
<1>4. one \in Seq(Byte) /\ 1 = Len(one) /\ one[1] = n
  BY <1>1
<1>5. serialize_chat_message(Chat(type, id, eq, text), base) = bytes
  <2>1. ValidId(id) /\ ValidEq(eq)
    BY DEF ValidId, ValidEq
  <2>2. LET m == Chat(type, id, eq, text)
        IN  /\ m.type = type /\ m.id = id /\ m.eq = eq
            /\ m.message_length = n /\ m.message = text
    BY DEF Chat, n
  <2> QED  BY <1>3, <2>1, <2>2, Zenon DEF serialize_chat_message
<1> HIDE DEF head, one
<1>6. /\ bytes \in Seq(Byte) /\ Len(bytes) = 3 + n /\ bytes[3] = n
      /\ \A k \in 1..n : bytes[3 + k] = text[k]
      /\ bytes[1] = head[1] /\ bytes[2] = head[2]
  <2>1. /\ bytes \in Seq(Byte) /\ Len(bytes) = 3 + Len(text)
        /\ bytes[1] = head[1] /\ bytes[2] = head[2] /\ bytes[3] = one[1]
        /\ \A k \in 1..Len(text) : bytes[3 + k] = text[k]
    BY <1>1, <1>2, <1>4, ChatBytes
  <2> HIDE DEF bytes
  <2> QED  BY <1>1, <1>4, <2>1
<1> HIDE DEF bytes
<1>7. CodeOf(bytes) = Code(base, type) /\ IdOf(bytes) = id /\ EqOf(bytes) = eq
  BY <1>2, <1>6, SameHeader
<1>8. deserialize_chat_message(bytes, base)
        = [type |-> type, id |-> id, eq |-> eq, message_length |-> n, message |-> text]
  <2>1. bytes[3] = Len(text) /\ \A k \in 1..Len(text) : bytes[3 + k] = text[k]
    BY <1>1, <1>6
  <2> QED  BY <1>1, <1>7, <2>1, ChatDecoded
<1>9. deserialize_chat_message(bytes, base) = Chat(type, id, eq, text)
  BY <1>8 DEF Chat, n
<1> QED  BY <1>5, <1>6, <1>7, <1>9 DEF n
=============================================================================
