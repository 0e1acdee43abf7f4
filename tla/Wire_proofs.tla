---------------------------- MODULE Wire_proofs ----------------------------
(***************************************************************************)
(* What the bytes on their way are: the messages sent and not yet taken,   *)
(* up to a cut at the end.  The chat passed on and shown, the seat the two *)
(* sides agree about and the winner the client prints follow from that.    *)
(*                                                                         *)
(* The argument.  Each direction is a numbered list of messages, given by  *)
(* what was said, told or decided (UpMsg, DownMsg), of which the reader    *)
(* has taken some (UpTaken, DownTaken).  What the reader has gathered,     *)
(* followed by what is on its way, is the rest of the list, and only a     *)
(* close that loses bytes makes it shorter (Carries): no lost byte is      *)
(* followed by one that arrives.  A message of the right header and length *)
(* is then the next one, and it decodes to what was encoded, by the round  *)
(* trips of Messages.  Once a field was completed at the end of the file   *)
(* nothing more arrives (UpTainted, DownTainted), so that one message at   *)
(* most is made up.                                                        *)
(***************************************************************************)
EXTENDS Wire, Messages_proofs

-----------------------------------------------------------------------------
(* Prefixes, element by element. *)

LEMMA PrefixElements ==
  ASSUME NEW S, NEW T, NEW p \in Seq(S), NEW s \in Seq(T)
  PROVE  IsPrefix(p, s) <=> Len(p) <= Len(s) /\ \A i \in 1..Len(p) : p[i] = s[i]
<1>1. Len(p) \in Nat /\ Len(s) \in Nat
  OBVIOUS
<1>2. SubSeq(p, 1, Len(p)) = p
  BY SubSeqFull
<1>3. ASSUME Len(p) <= Len(s)
      PROVE  SubSeq(p, 1, Len(p)) = SubSeq(s, 1, Len(p)) <=> \A i \in 1..Len(p) : p[i] = s[i]
  <2> DEFINE q == SubSeq(s, 1, Len(p))
  <2>1. /\ q \in Seq(T) /\ Len(q) = Len(p)
        /\ \A i \in 1..Len(p) : q[i] = s[i]
    BY <1>1, <1>3
  <2> HIDE DEF q
  <2>2. p \in Seq(S \cup T) /\ q \in Seq(S \cup T)
    BY <2>1, SeqMonotonic
  <2>3. (\A i \in 1..Len(p) : p[i] = q[i]) => p = q
    BY <2>1, <2>2, SeqEqual
  <2>4. SubSeq(p, 1, Len(p)) = q <=> \A i \in 1..Len(p) : p[i] = s[i]
    BY <1>2, <2>1, <2>3
  <2> QED  BY <2>4 DEF q
<1> QED  BY <1>1, <1>3 DEF IsPrefix

\* What is a prefix stays one when more is sent.
LEMMA PrefixOfMore ==
  ASSUME NEW S, NEW T, NEW p \in Seq(S), NEW s \in Seq(T), NEW e \in T, IsPrefix(p, s)
  PROVE  IsPrefix(p, Append(s, e))
<1> DEFINE t == Append(s, e)
<1>1. t \in Seq(T) /\ Len(t) = Len(s) + 1 /\ \A i \in 1..Len(s) : t[i] = s[i]
  OBVIOUS
<1>2. Len(p) \in Nat /\ Len(s) \in Nat /\ Len(p) <= Len(s) /\ \A i \in 1..Len(p) : p[i] = s[i]
  BY PrefixElements
<1> HIDE DEF t
<1>3. Len(p) <= Len(t) /\ \A i \in 1..Len(p) : p[i] = t[i]
  BY <1>1, <1>2
<1>4. IsPrefix(p, t)
  BY <1>1, <1>3, PrefixElements
<1> QED  BY <1>4 DEF t

\* The next of what was sent makes a longer prefix.
LEMMA LongerPrefix ==
  ASSUME NEW S, NEW T, NEW p \in Seq(S), NEW s \in Seq(T), IsPrefix(p, s),
         NEW e \in S, Len(p) < Len(s), e = s[Len(p) + 1]
  PROVE  IsPrefix(Append(p, e), s)
<1> DEFINE q == Append(p, e)
<1>1. /\ q \in Seq(S) /\ Len(q) = Len(p) + 1 /\ q[Len(p) + 1] = e
      /\ \A i \in 1..Len(p) : q[i] = p[i]
  OBVIOUS
<1>2. Len(p) \in Nat /\ Len(s) \in Nat /\ \A i \in 1..Len(p) : p[i] = s[i]
  BY PrefixElements
<1> HIDE DEF q
<1>3. Len(q) <= Len(s)
  BY <1>1, <1>2
<1>4. ASSUME NEW i \in 1..Len(q) PROVE q[i] = s[i]
  <2>1. i \in 1..Len(p) \/ i = Len(p) + 1
    BY <1>1, <1>2
  <2> QED  BY <1>1, <1>2, <2>1
<1>5. IsPrefix(q, s)
  BY <1>1, <1>3, <1>4, PrefixElements
<1> QED  BY <1>5 DEF q

LEMMA FrontOfMore ==
  ASSUME NEW S, NEW p \in Seq(S), NEW e \in S
  PROVE  Front(Append(p, e)) = p
<1> DEFINE q == Append(p, e)
           f == SubSeq(q, 1, Len(p))
<1>1. q \in Seq(S) /\ Len(q) = Len(p) + 1 /\ \A i \in 1..Len(p) : q[i] = p[i]
  OBVIOUS
<1>2. Len(p) \in Nat
  OBVIOUS
<1> HIDE DEF q
<1>3. f \in Seq(S) /\ Len(f) = Len(p) /\ \A i \in 1..Len(p) : f[i] = q[i]
  BY <1>1, <1>2
<1>4. Front(q) = f
  <2>1. Len(q) - 1 = Len(p)
    BY <1>1, <1>2
  <2> QED  BY <2>1 DEF Front
<1> HIDE DEF f
<1>5. f = p
  BY <1>1, <1>3, SeqEqual
<1> QED  BY <1>4, <1>5 DEF q

LEMMA FrontType ==
  ASSUME NEW S, NEW p \in Seq(S)
  PROVE  Front(p) \in Seq(S)
BY DEF Front

-----------------------------------------------------------------------------
(* Streams of messages. *)

\* c[i] is where message i ends, counted from the start of the connection.
Cuts(c, n, M) ==
  /\ c \in [Nat -> Nat]
  /\ \A i \in 1..n : c[i] = c[i - 1] + Len(M[i])
  /\ \A i, j \in 0..n : i <= j => c[i] <= c[j]

\* bytes are those of the messages after the first from of the n of M: to the
\* last byte when they are whole, else they may break off anywhere.
Bytes(c, bytes, n, M, from, whole) ==
  /\ from \in 0..n
  /\ Len(bytes) <= c[n] - c[from]
  /\ whole => Len(bytes) = c[n] - c[from]
  /\ \A i \in from + 1..n : \A j \in 1..Len(M[i]) :
       (c[i - 1] - c[from]) + j <= Len(bytes) => bytes[(c[i - 1] - c[from]) + j] = M[i][j]

Carries(bytes, n, M, from, whole) ==
  \E c : Cuts(c, n, M) /\ Bytes(c, bytes, n, M, from, whole)

AreMessages(n, M) == \A i \in 1..n : M[i] \in Seq(Byte)

LEMMA CarriesNothing ==
  ASSUME NEW M
  PROVE  Carries(<<>>, 0, M, 0, TRUE)
<1> DEFINE c == [i \in Nat |-> 0]
           none == <<>>
<1>1. Len(none) = 0
  OBVIOUS
<1>2. c \in [Nat -> Nat] /\ c[0] = 0 /\ 0..0 = {0} /\ 1..0 = {} /\ 0 + 1..0 = {}
  OBVIOUS
<1> HIDE DEF c, none
<1>3. Cuts(c, 0, M)
  BY <1>2 DEF Cuts
<1>4. Bytes(c, none, 0, M, 0, TRUE)
  BY <1>1, <1>2 DEF Bytes
<1> QED  BY <1>3, <1>4 DEF Carries, none

\* Another message is sent.
LEMMA CarriesMore ==
  ASSUME NEW bytes \in Seq(Byte), NEW n \in Nat, NEW M, AreMessages(n, M), NEW from,
         Carries(bytes, n, M, from, TRUE),
         NEW N, \A i \in 1..n : N[i] = M[i], N[n + 1] \in Seq(Byte)
  PROVE  Carries(bytes \o N[n + 1], n + 1, N, from, TRUE)
<1> DEFINE m == N[n + 1]
           more == bytes \o m
           l == Len(bytes)
           k == Len(m)
<1>1. l \in Nat /\ k \in Nat /\ m \in Seq(Byte)
  OBVIOUS
<1>2. /\ more \in Seq(Byte) /\ Len(more) = l + k
      /\ \A j \in 1..l : more[j] = bytes[j]
      /\ \A i \in 1..k : more[l + i] = m[i]
  <2> HIDE DEF m
  <2>1. l = Len(bytes) /\ k = Len(m) /\ m \in Seq(Byte)
    BY <1>1
  <2> HIDE DEF l, k
  <2> QED  BY <2>1, PartsOfConcat
<1>3. PICK c : Cuts(c, n, M) /\ Bytes(c, bytes, n, M, from, TRUE)
  BY DEF Carries
<1> DEFINE d == [c EXCEPT ![n + 1] = c[n] + k]
<1>4. c \in [Nat -> Nat] /\ n + 1 \in Nat
  <2>1. c \in [Nat -> Nat]
    BY <1>3, Zenon DEF Cuts
  <2>2. n + 1 \in Nat
    OBVIOUS
  <2> QED  BY <2>1, <2>2, Zenon
<1>5. /\ d \in [Nat -> Nat] /\ d[n + 1] = c[n] + k
      /\ \A i \in 0..n : d[i] = c[i]
  <2>1. c[n] \in Nat
    BY <1>4
  <2> HIDE DEF k
  <2>2. c[n] + k \in Nat
    BY <1>1, <2>1
  <2>3. \A i \in 0..n : i \in Nat /\ i # n + 1
    OBVIOUS
  <2> QED  BY <1>4, <2>2, <2>3
<1> HIDE DEF d
<1>6. \A i \in 0..n : c[i] \in Nat /\ c[i] <= c[n]
  <2> SUFFICES ASSUME NEW i \in 0..n PROVE c[i] \in Nat /\ c[i] <= c[n]
    OBVIOUS
  <2>1. i \in Nat /\ n \in 0..n /\ i <= n
    OBVIOUS
  <2>2. c[i] \in Nat
    BY <1>4, <2>1
  <2>3. c[i] <= c[n]
    BY <1>3, <2>1 DEF Cuts
  <2> QED  BY <2>2, <2>3
<1>7. Cuts(d, n + 1, N)
  <2>1. ASSUME NEW i \in 1..n + 1 PROVE d[i] = d[i - 1] + Len(N[i])
    <3>1. CASE i = n + 1
      <4>1. i - 1 = n /\ n \in 0..n /\ Len(N[i]) = k
        BY <3>1
      <4> QED  BY <1>5, <3>1, <4>1
    <3>2. CASE i # n + 1
      <4>1. i \in 1..n /\ i \in 0..n /\ i - 1 \in 0..n
        BY <3>2
      <4>2. c[i] = c[i - 1] + Len(M[i]) /\ N[i] = M[i]
        BY <1>3, <4>1 DEF Cuts
      <4> QED  BY <1>5, <4>1, <4>2
    <3> QED  BY <3>1, <3>2
  <2>2. ASSUME NEW i \in 0..n + 1, NEW j \in 0..n + 1, i <= j PROVE d[i] <= d[j]
    <3>1. CASE j = n + 1 /\ i # n + 1
      <4>1. i \in 0..n /\ n \in 0..n
        BY <3>1
      <4>2. c[i] \in Nat /\ c[n] \in Nat /\ c[i] <= c[n] /\ d[i] = c[i] /\ d[j] = c[n] + k
        BY <1>5, <1>6, <3>1, <4>1
      <4> HIDE DEF k
      <4> QED  BY <1>1, <4>2
    <3>2. CASE i = n + 1
      <4>1. j = i
        BY <2>2, <3>2
      <4>2. d[i] \in Nat
        <5>1. i \in Nat
          OBVIOUS
        <5> QED  BY <1>5, <5>1
      <4> QED  BY <4>1, <4>2
    <3>3. CASE j # n + 1
      <4>1. i \in 0..n /\ j \in 0..n
        BY <2>2, <3>3
      <4>2. c[i] <= c[j]
        BY <1>3, <2>2, <4>1 DEF Cuts
      <4> QED  BY <1>5, <4>1, <4>2
    <3> QED  BY <3>1, <3>2, <3>3
  <2> QED  BY <1>5, <2>1, <2>2 DEF Cuts
<1>8. Bytes(d, more, n + 1, N, from, TRUE)
  <2>1. from \in 0..n /\ from \in 0..n + 1 /\ n \in 0..n /\ n + 1 \in 0..n + 1
    BY <1>3 DEF Bytes
  <2>2. l = c[n] - c[from] /\ c[n] \in Nat /\ c[from] \in Nat
    BY <1>3, <1>6, <2>1 DEF Bytes
  <2>3. d[from] = c[from] /\ d[n + 1] = c[n] + k
    BY <1>5, <2>1
  <2> HIDE DEF l, k
  <2>4. Len(more) = d[n + 1] - d[from]
    BY <1>1, <1>2, <2>2, <2>3
  <2>5. ASSUME NEW i \in from + 1..n + 1, NEW j \in 1..Len(N[i]),
               (d[i - 1] - d[from]) + j <= Len(more)
        PROVE  more[(d[i - 1] - d[from]) + j] = N[i][j]
    <3>1. CASE i = n + 1
      <4>1. N[i] = m /\ i - 1 = n
        BY <3>1
      <4>2. j \in 1..k
        BY <4>1 DEF k
      <4>3. d[i - 1] = c[n] /\ d[from] = c[from]
        BY <1>5, <2>1, <4>1
      <4>4. d[i - 1] - d[from] = l
        BY <2>2, <4>3
      <4> HIDE DEF m, more
      <4> QED  BY <1>2, <4>1, <4>2, <4>4
    <3>2. CASE i # n + 1
      <4>1. i \in 1..n /\ i \in from + 1..n /\ i \in 0..n /\ i - 1 \in 0..n
        BY <2>1, <3>2
      <4>2. N[i] = M[i] /\ d[i - 1] = c[i - 1] /\ c[i] = c[i - 1] + Len(M[i])
        BY <1>3, <1>5, <4>1 DEF Cuts
      <4>3. /\ c[i] \in Nat /\ c[i - 1] \in Nat /\ c[i] <= c[n] /\ c[from] <= c[i - 1]
            /\ Len(M[i]) \in Nat
        <5>1. from <= i - 1
          BY <2>1, <4>1
        <5>2. c[from] <= c[i - 1]
          BY <1>3, <2>1, <4>1, <5>1 DEF Cuts
        <5>3. M[i] \in Seq(Byte)
          BY <4>1 DEF AreMessages
        <5> QED  BY <1>6, <4>1, <5>2, <5>3
      <4> DEFINE at == (c[i - 1] - c[from]) + j
      <4>4. at \in 1..l /\ j \in 1..Len(M[i])
        <5>1. j \in 1..Len(M[i])
          BY <4>2
        <5> DEFINE ci == c[i]
                   cp == c[i - 1]
                   cf == c[from]
                   cn == c[n]
                   len == Len(M[i])
        <5>2. j \in Int /\ 1 <= j /\ j <= len
          BY <4>3, <5>1
        <5>3. /\ ci \in Nat /\ cp \in Nat /\ cf \in Nat /\ cn \in Nat /\ len \in Nat
              /\ ci = cp + len /\ ci <= cn /\ cf <= cp /\ l = cn - cf
          BY <2>2, <4>2, <4>3
        <5> HIDE DEF ci, cp, cf, cn, len
        <5>4. (cp - cf) + j \in 1..l
          BY <5>2, <5>3
        <5> QED  BY <5>1, <5>4 DEF cp, cf
      <4>5. (d[i - 1] - d[from]) + j = at
        BY <2>3, <4>2
      <4> HIDE DEF at
      <4>6. more[at] = bytes[at] /\ at <= l
        <5> HIDE DEF more
        <5> QED  BY <1>1, <1>2, <4>4
      <4>7. bytes[at] = M[i][j]
        BY <1>3, <4>1, <4>4, <4>6 DEF Bytes, at, l
      <4> QED  BY <4>2, <4>5, <4>6, <4>7
    <3> QED  BY <3>1, <3>2
  <2>6. Len(more) <= d[n + 1] - d[from]
    BY <1>1, <1>2, <2>4
  <2> HIDE DEF more
  <2> QED  BY <2>1, <2>4, <2>5, <2>6 DEF Bytes
<1> QED  BY <1>7, <1>8 DEF Carries

\* A message of which something has arrived is the first that is due.
LEMMA CarriesFirst ==
  ASSUME NEW bytes \in Seq(Byte), NEW n \in Nat, NEW M, AreMessages(n, M), NEW from \in Nat,
         NEW whole, Carries(bytes, n, M, from, whole)
  PROVE  /\ from <= n
         /\ from = n => Len(bytes) = 0
         /\ from = n - 1 => Len(bytes) <= Len(M[from + 1])
         /\ from < n /\ whole => Len(M[from + 1]) <= Len(bytes)
         /\ from < n => \A j \in 1..Len(M[from + 1]) : j <= Len(bytes) => bytes[j] = M[from + 1][j]
<1>1. PICK c : Cuts(c, n, M) /\ Bytes(c, bytes, n, M, from, whole)
  BY DEF Carries
<1>2. c \in [Nat -> Nat]
  BY <1>1, Zenon DEF Cuts
<1>3. /\ from <= n /\ from \in 0..n /\ n \in 0..n
      /\ Len(bytes) \in Nat /\ c[from] \in Nat /\ c[n] \in Nat
      /\ Len(bytes) <= c[n] - c[from] /\ (whole => Len(bytes) = c[n] - c[from])
  <2>1. from \in 0..n /\ Len(bytes) <= c[n] - c[from] /\ (whole => Len(bytes) = c[n] - c[from])
    BY <1>1 DEF Bytes
  <2> QED  BY <1>2, <2>1
<1>4. ASSUME from < n
      PROVE  /\ c[from + 1] = c[from] + Len(M[from + 1]) /\ c[from + 1] <= c[n]
             /\ Len(M[from + 1]) \in Nat /\ c[from + 1] \in Nat
             /\ (c[(from + 1) - 1] - c[from]) = 0 /\ from + 1 \in from + 1..n
  <2>1. from + 1 \in 1..n /\ from + 1 \in 0..n /\ (from + 1) - 1 = from /\ from + 1 <= n
    BY <1>3, <1>4
  <2>2. c[from + 1] = c[(from + 1) - 1] + Len(M[from + 1])
    BY <1>1, <2>1 DEF Cuts
  <2>3. c[from + 1] <= c[n]
    BY <1>1, <1>3, <2>1 DEF Cuts
  <2>4. M[from + 1] \in Seq(Byte)
    BY <2>1 DEF AreMessages
  <2>5. c[(from + 1) - 1] = c[from] /\ c[from] - c[from] = 0
    BY <1>3, <2>1
  <2>6. Len(M[from + 1]) \in Nat
    BY <2>4
  <2>7. from + 1 \in Nat
    OBVIOUS
  <2>8. c[from + 1] \in Nat
    BY <1>2, <2>7
  <2>9. c[from + 1] = c[from] + Len(M[from + 1])
    BY <2>2, <2>5
  <2>10. c[(from + 1) - 1] - c[from] = 0
    BY <2>5
  <2>11. from + 1 \in from + 1..n
    BY <2>1
  <2> QED  BY <2>3, <2>6, <2>8, <2>9, <2>10, <2>11
<1>5. from = n => Len(bytes) = 0
  BY <1>3
<1>6. from = n - 1 => Len(bytes) <= Len(M[from + 1])
  <2> SUFFICES ASSUME from = n - 1 PROVE Len(bytes) <= Len(M[from + 1])
    OBVIOUS
  <2>1. from < n /\ from + 1 = n
    OBVIOUS
  <2>2. c[n] = c[from] + Len(M[from + 1]) /\ Len(M[from + 1]) \in Nat
    BY <1>4, <2>1
  <2> QED  BY <1>3, <2>2
<1>7. from < n /\ whole => Len(M[from + 1]) <= Len(bytes)
  BY <1>3, <1>4
<1>8. ASSUME from < n, NEW j \in 1..Len(M[from + 1]), j <= Len(bytes)
      PROVE  bytes[j] = M[from + 1][j]
  <2>1. (c[(from + 1) - 1] - c[from]) + j = j /\ from + 1 \in from + 1..n
    BY <1>4, <1>8
  <2>2. (c[(from + 1) - 1] - c[from]) + j <= Len(bytes)
    BY <1>8, <2>1
  <2>3. bytes[(c[(from + 1) - 1] - c[from]) + j] = M[from + 1][j]
    BY <1>1, <1>8, <2>1, <2>2 DEF Bytes
  <2> QED  BY <2>1, <2>3
<1> QED  BY <1>3, <1>5, <1>6, <1>7, <1>8

LEMMA AfterBytes ==
  ASSUME NEW bytes \in Seq(Byte), NEW k \in 0..Len(bytes)
  PROVE  /\ After(bytes, k) \in Seq(Byte) /\ Len(After(bytes, k)) = Len(bytes) - k
         /\ \A j \in 1..Len(bytes) - k : After(bytes, k)[j] = bytes[k + j]
<1>1. Len(bytes) \in Nat /\ k \in Nat /\ k <= Len(bytes)
  OBVIOUS
<1> QED  BY <1>1 DEF After

\* The first message due is taken.
LEMMA CarriesLess ==
  ASSUME NEW bytes \in Seq(Byte), NEW n \in Nat, NEW M, AreMessages(n, M), NEW from \in Nat,
         NEW whole, Carries(bytes, n, M, from, whole),
         from < n, Len(M[from + 1]) <= Len(bytes)
  PROVE  Carries(After(bytes, Len(M[from + 1])), n, M, from + 1, whole)
<1> DEFINE k == Len(M[from + 1])
           l == Len(bytes)
           rest == After(bytes, k)
           f == from + 1
<1>1. PICK c : Cuts(c, n, M) /\ Bytes(c, bytes, n, M, from, whole)
  BY DEF Carries
<1>2. c \in [Nat -> Nat]
  BY <1>1, Zenon DEF Cuts
<1>3. f \in 1..n /\ f \in 0..n /\ from \in 0..n /\ f - 1 = from /\ l \in Nat
  OBVIOUS
<1>4. k \in Nat /\ k \in 0..l
  <2>1. M[f] \in Seq(Byte)
    BY <1>3 DEF AreMessages
  <2>2. k \in Nat
    BY <2>1
  <2>3. k <= l
    OBVIOUS
  <2> HIDE DEF k, l
  <2> QED  BY <1>3, <2>2, <2>3
<1>5. rest \in Seq(Byte) /\ Len(rest) = l - k /\ \A j \in 1..l - k : rest[j] = bytes[k + j]
  <2>1. \A i \in 0..Len(bytes) :
          /\ After(bytes, i) \in Seq(Byte) /\ Len(After(bytes, i)) = Len(bytes) - i
          /\ \A j \in 1..Len(bytes) - i : After(bytes, i)[j] = bytes[i + j]
    BY AfterBytes
  <2> HIDE DEF k
  <2> QED  BY <1>4, <2>1
<1>6. c[f] = c[from] + k
  <2>1. c[f] = c[f - 1] + Len(M[f])
    BY <1>1, <1>3 DEF Cuts
  <2> QED  BY <1>3, <2>1
<1> HIDE DEF k, l, rest, f
<1>7. c[from] \in Nat /\ c[f] \in Nat /\ c[n] \in Nat
  <2>1. f \in Nat
    BY <1>3
  <2>2. \A i \in Nat : c[i] \in Nat
    BY <1>2
  <2> QED  BY <2>1, <2>2
<1>8. l <= c[n] - c[from] /\ (whole => l = c[n] - c[from])
  BY <1>1 DEF Bytes, l
<1>9. Len(rest) <= c[n] - c[f] /\ (whole => Len(rest) = c[n] - c[f])
  <2> DEFINE cn == c[n]
             cf == c[f]
             cm == c[from]
             left == Len(rest)
  <2>1. cn \in Nat /\ cf \in Nat /\ cm \in Nat /\ cf = cm + k /\ left = l - k
    BY <1>5, <1>6, <1>7
  <2>2. l <= cn - cm /\ (whole => l = cn - cm)
    BY <1>8
  <2> HIDE DEF cn, cf, cm, left
  <2>3. left <= cn - cf
    BY <1>3, <1>4, <2>1, <2>2
  <2>4. whole => left = cn - cf
    BY <1>3, <1>4, <2>1, <2>2
  <2> QED  BY <2>3, <2>4 DEF cn, cf, left
<1>10. ASSUME NEW i \in f + 1..n, NEW j \in 1..Len(M[i]), (c[i - 1] - c[f]) + j <= Len(rest)
       PROVE  rest[(c[i - 1] - c[f]) + j] = M[i][j]
  <2>1. /\ i \in from + 1..n /\ i - 1 \in 0..n /\ i - 1 \in Nat /\ f <= i - 1 /\ j \in Int
        /\ 1 <= j
    BY <1>3 DEF f
  <2>2. c[i - 1] \in Nat /\ c[f] <= c[i - 1]
    BY <1>1, <1>2, <1>3, <2>1 DEF Cuts
  <2> DEFINE at == (c[i - 1] - c[f]) + j
             cp == c[i - 1]
             cf == c[f]
             cm == c[from]
  <2>3. at \in 1..l - k /\ (c[i - 1] - c[from]) + j = k + at /\ k + at <= l
    <3>1. /\ cp \in Nat /\ cf \in Nat /\ cm \in Nat /\ cf = cm + k /\ cf <= cp
          /\ at = (cp - cf) + j /\ at <= l - k
      BY <1>5, <1>6, <1>7, <1>10, <2>2
    <3> HIDE DEF cp, cf, cm, at
    <3>2. at \in 1..l - k /\ (cp - cm) + j = k + at /\ k + at <= l
      BY <1>3, <1>4, <2>1, <3>1
    <3> QED  BY <3>2 DEF cp, cm
  <2> HIDE DEF at
  <2>4. rest[at] = bytes[k + at]
    BY <1>5, <2>3
  <2>5. (c[i - 1] - c[from]) + j <= Len(bytes)
    BY <2>3 DEF l
  <2>6. bytes[(c[i - 1] - c[from]) + j] = M[i][j]
    BY <1>1, <2>1, <2>5 DEF Bytes
  <2>7. rest[at] = M[i][j]
    BY <2>3, <2>4, <2>6
  <2> QED  BY <2>7 DEF at
<1>11. Bytes(c, rest, n, M, f, whole)
  BY <1>3, <1>9, <1>10 DEF Bytes
<1>12. Carries(rest, n, M, f, whole)
  BY <1>1, <1>11 DEF Carries
<1> QED  BY <1>12 DEF rest, k, f

\* Bytes are lost at the end.
LEMMA CarriesPrefix ==
  ASSUME NEW bytes \in Seq(Byte), NEW n \in Nat, NEW M, NEW from, NEW whole,
         Carries(bytes, n, M, from, whole), NEW cut \in Seq(Byte), Len(cut) <= Len(bytes),
         \A i \in 1..Len(cut) : cut[i] = bytes[i]
  PROVE  Carries(cut, n, M, from, FALSE)
<1>1. PICK c : Cuts(c, n, M) /\ Bytes(c, bytes, n, M, from, whole)
  BY DEF Carries
<1>2. c \in [Nat -> Nat]
  BY <1>1, Zenon DEF Cuts
<1>3. from \in 0..n /\ Len(bytes) <= c[n] - c[from]
  BY <1>1 DEF Bytes
<1>4. Len(cut) \in Nat /\ Len(bytes) \in Nat /\ c[n] \in Nat /\ c[from] \in Nat
  <2>1. from \in Nat
    BY <1>3
  <2>2. \A i \in Nat : c[i] \in Nat
    BY <1>2
  <2>3. Len(cut) \in Nat /\ Len(bytes) \in Nat
    OBVIOUS
  <2> QED  BY <2>1, <2>2, <2>3
<1>5. Len(cut) <= c[n] - c[from]
  BY <1>3, <1>4
<1>6. ASSUME NEW i \in from + 1..n, NEW j \in 1..Len(M[i]),
             (c[i - 1] - c[from]) + j <= Len(cut)
      PROVE  cut[(c[i - 1] - c[from]) + j] = M[i][j]
  <2> DEFINE at == (c[i - 1] - c[from]) + j
  <2>1. from <= i - 1 /\ i - 1 \in 0..n /\ i - 1 \in Nat /\ j \in Int /\ 1 <= j
    BY <1>3
  <2>2. c[i - 1] \in Nat /\ c[from] <= c[i - 1]
    BY <1>1, <1>2, <1>3, <2>1 DEF Cuts
  <2>3. at \in 1..Len(cut) /\ at <= Len(bytes)
    BY <1>4, <1>6, <2>1, <2>2
  <2>4. bytes[at] = M[i][j]
    BY <1>1, <2>3 DEF Bytes
  <2> HIDE DEF at
  <2>5. cut[at] = M[i][j]
    BY <2>3, <2>4
  <2> QED  BY <2>5 DEF at
<1>7. Bytes(c, cut, n, M, from, FALSE)
  BY <1>3, <1>5, <1>6 DEF Bytes
<1> QED  BY <1>1, <1>7 DEF Carries

-----------------------------------------------------------------------------
(* Reading. *)

\* A recv takes some of the bytes that are there, from the first on.
LEMMA ReceivedBytes ==
  ASSUME NEW bytes \in Seq(Byte), NEW n \in Nat, NEW part \in Received(bytes, n)
  PROVE  /\ part \in Seq(Byte) /\ Len(part) \in 1..n
         /\ After(bytes, Len(part)) \in Seq(Byte)
         /\ part \o After(bytes, Len(part)) = bytes
<1> DEFINE l == Len(bytes)
           all == IF l < n THEN l ELSE n
<1>1. l \in Nat /\ all \in Nat /\ all <= n /\ all <= l
  OBVIOUS
<1>2. PICK k \in 1..all : part = SubSeq(bytes, 1, k)
  BY PartsAssumption DEF Received
<1> HIDE DEF all, l
<1>3. k \in Int /\ 1 <= k /\ k <= n /\ k <= l
  BY <1>1, <1>2
<1>4. part \in Seq(Byte) /\ Len(part) = k
  BY <1>2, <1>3 DEF l
<1>5. After(bytes, k) \in Seq(Byte)
  BY <1>3 DEF l, After
<1>6. SubSeq(bytes, 1, k) \o SubSeq(bytes, k + 1, l) = bytes
  <2>1. 1 \in 1..l + 1 /\ k \in 1 - 1..l /\ l \in k..l
    BY <1>1, <1>3
  <2>2. SubSeq(bytes, 1, k) \o SubSeq(bytes, k + 1, l) = SubSeq(bytes, 1, l)
    BY <2>1, ConcatAdjacentSubSeq DEF l
  <2>3. SubSeq(bytes, 1, l) = bytes
    BY SubSeqFull DEF l
  <2> QED  BY <2>2, <2>3
<1>7. part \o After(bytes, k) = bytes
  BY <1>2, <1>6 DEF After, l
<1> QED  BY <1>3, <1>4, <1>5, <1>7

LEMMA NothingReceived ==
  ASSUME NEW n \in Nat
  PROVE  Received(<<>>, n) = {}
<1> DEFINE none == <<>>
<1>1. Len(none) = 0
  OBVIOUS
<1> HIDE DEF none
<1>2. Received(none, n) = {}
  BY <1>1 DEF Received
<1> QED  BY <1>2 DEF none

\* What was gathered and what is to come stay the same bytes.
LEMMA Gathered ==
  ASSUME NEW got \in Seq(Byte), NEW bytes \in Seq(Byte), NEW n \in Nat,
         NEW part \in Received(bytes, n)
  PROVE  /\ got \o part \in Seq(Byte) /\ Len(got \o part) = Len(got) + Len(part)
         /\ (got \o part) \o After(bytes, Len(part)) = got \o bytes
<1> DEFINE rest == After(bytes, Len(part))
<1>1. part \in Seq(Byte) /\ rest \in Seq(Byte) /\ part \o rest = bytes
  BY ReceivedBytes
<1> HIDE DEF rest
<1>2. (got \o part) \o rest = got \o (part \o rest)
  <2>1. part \in Seq(Byte) /\ rest \in Seq(Byte)
    BY <1>1
  <2> QED  BY <2>1, ConcatAssociative
<1>3. got \o part \in Seq(Byte) /\ Len(got \o part) = Len(got) + Len(part)
  BY <1>1
<1> QED  BY <1>1, <1>2, <1>3 DEF rest

\* recv_tcp takes bytes as they come, or makes some up at the end of the file.
ReadOf(bytes, end, n, buf, more) ==
  LET rest == After(bytes, Len(more) - Len(buf))
  IN  /\ more \in Seq(Byte) /\ rest \in Seq(Byte)
      /\ Len(more) \in Len(buf) + 1..Len(buf) + n
      /\ \A i \in 1..Len(buf) : more[i] = buf[i]
      /\ \/ more \o rest = buf \o bytes
         \/ bytes = <<>> /\ rest = <<>> /\ end /\ Len(more) = Len(buf) + n

LEMMA RecvTcp ==
  ASSUME NEW bytes \in Seq(Byte), NEW n \in Nat, n # 0, NEW end, NEW buf \in Seq(Byte),
         NEW more \in recv_tcp(bytes, end, n, buf)
  PROVE  ReadOf(bytes, end, n, buf, more)
<1> DEFINE l == Len(buf)
<1>0. l \in Nat
  OBVIOUS
<1>1. CASE \E part \in Received(bytes, n) : more = buf \o part
  <2>1. PICK part \in Received(bytes, n) : more = buf \o part
    BY <1>1
  <2>2. /\ part \in Seq(Byte) /\ Len(part) \in 1..n
        /\ After(bytes, Len(part)) \in Seq(Byte)
    BY ReceivedBytes
  <2>3. more \o After(bytes, Len(part)) = buf \o bytes
    BY <2>1, Gathered
  <2> DEFINE k == Len(part)
  <2>4. /\ more \in Seq(Byte) /\ Len(more) = l + k
        /\ \A i \in 1..l : more[i] = buf[i]
    BY <2>1, <2>2, PartsOfConcat
  <2> HIDE DEF k, l
  <2>5. k \in 1..n
    BY <2>2 DEF k
  <2>6. Len(more) - l = k /\ Len(more) \in l + 1..l + n
    BY <1>0, <2>4, <2>5
  <2> QED  BY <2>2, <2>3, <2>4, <2>6 DEF k, l, ReadOf
<1>2. CASE bytes = <<>> /\ end /\ \E part \in Unwritten(n) : more = buf \o part
  <2>1. PICK part \in Unwritten(n) : more = buf \o part
    BY <1>2
  <2>2. part \in [1..n -> Byte]
    BY JunkAssumption DEF Unwritten
  <2>3. part \in Seq(Byte) /\ n = Len(part)
    BY <2>2, FunctionIsSequence
  <2>4. /\ more \in Seq(Byte) /\ Len(more) = l + n
        /\ \A i \in 1..l : more[i] = buf[i]
    BY <2>1, <2>3, PartsOfConcat
  <2> HIDE DEF l
  <2>5. Len(more) - l = n /\ Len(more) \in l + 1..l + n
    BY <1>0, <2>4
  <2>6. After(bytes, n) = <<>>
    BY <1>2 DEF After
  <2> QED  BY <1>2, <2>4, <2>5, <2>6 DEF l, ReadOf
<1> QED  BY <1>1, <1>2 DEF recv_tcp

\* What the loops leave in the buffer has the size of the message.
LEMMA GatheredBuffer ==
  ASSUME NEW buf \in Seq(Byte), NEW count \in Nat, NEW part \in Seq(Byte), NEW size \in Nat,
         Len(part) <= size, NEW new \in AtWrongPlace(buf, count, part, size)
  PROVE  /\ new \in Seq(Byte)
         /\ count = 0 /\ Len(part) = size => new = part
         /\ count = 0 => Len(new) = size
         /\ count # 0 => new = buf
<1>1. CASE count # 0 \/ Len(part) = size
  BY <1>1 DEF AtWrongPlace
<1>2. CASE count = 0 /\ Len(part) # size
  <2> DEFINE m == size - Len(part)
  <2>1. m \in Nat
    OBVIOUS
  <2>2. PICK j \in Junk : new = part \o [i \in 1..m |-> j]
    BY <1>2 DEF AtWrongPlace
  <2>3. j \in Byte
    BY JunkAssumption
  <2> HIDE DEF m
  <2> DEFINE pad == [i \in 1..m |-> j]
  <2>4. pad \in [1..m -> Byte]
    BY <2>3
  <2>5. pad \in Seq(Byte)
    BY <2>1, <2>4, FunctionIsSequence
  <2> HIDE DEF pad
  <2>6. new = part \o pad
    BY <2>2 DEF pad
  <2>7. Len(pad) = m
    BY <2>1, <2>4, FunctionIsSequence
  <2>8. new \in Seq(Byte) /\ Len(new) = Len(part) + m
    <3>1. part \o pad \in Seq(Byte) /\ Len(part \o pad) = Len(part) + Len(pad)
      BY <2>5
    <3> QED  BY <2>6, <2>7, <3>1
  <2>9. Len(part) + m = size
    BY DEF m
  <2> QED  BY <1>2, <2>8, <2>9
<1> QED  BY <1>1, <1>2

-----------------------------------------------------------------------------
(* The messages of a connection. *)

Lines == {text \in Seq(Char) : Len(text) \in Byte}
Chats == {Chat(type, id, eq, text) : type \in MessageType, id \in 0..3, eq \in 0..1, text \in Lines}

\* With the one that may be decoded from bytes nobody sent.
AnyChat(base) == Chats \cup {deserialize_chat_message(bytes, base) : bytes \in Seq(Byte)}

LEMMA ChatBack ==
  ASSUME NEW m \in Chats, NEW base \in {CLIENT_CHAT_CODE, SERVER_CHAT_CODE},
         NEW bytes, bytes = serialize_chat_message(m, base)
  PROVE  /\ bytes \in Seq(Byte) /\ bytes[3] \in Nat /\ Len(bytes) = 3 + bytes[3]
         /\ CodeOf(bytes) \in {base, base + 1}
         /\ deserialize_chat_message(bytes, base) = m
<1>1. PICK type \in MessageType, id \in 0..3, eq \in 0..1, text \in Lines :
        m = Chat(type, id, eq, text)
  BY DEF Chats
<1>2. base \in 1..15
  BY DEF CLIENT_CHAT_CODE, SERVER_CHAT_CODE
<1>3. text \in Seq(Char) /\ Len(text) \in Byte
  BY DEF Lines
<1> DEFINE b == serialize_chat_message(Chat(type, id, eq, text), base)
<1>4. /\ b \in Seq(Byte) /\ Len(b) = 3 + Len(text) /\ b[3] = Len(text)
      /\ CodeOf(b) = Code(base, type)
      /\ deserialize_chat_message(b, base) = Chat(type, id, eq, text)
  BY <1>2, <1>3, ChatRoundTrip
<1>5. b = bytes
  BY <1>1
<1> HIDE DEF b
<1>6. CodeOf(bytes) \in {base, base + 1}
  BY <1>4, <1>5 DEF Code
<1>7. bytes \in Seq(Byte) /\ deserialize_chat_message(bytes, base) = m
  BY <1>1, <1>4, <1>5
<1>8. bytes[3] \in Nat /\ Len(bytes) = 3 + bytes[3]
  BY <1>3, <1>4, <1>5
<1> QED  BY <1>6, <1>7, <1>8

LEMMA ChatIsNotNull ==
  ASSUME NEW m \in Chats
  PROVE  m # NULL
<1>1. PICK type \in MessageType, id \in 0..3, eq \in 0..1, text \in Lines :
        m = Chat(type, id, eq, text)
  BY DEF Chats
<1>2. text \in Seq(Byte) /\ Len(text) \in Nat
  <2>1. text \in Seq(Char)
    BY DEF Lines
  <2> QED  BY <2>1, CharIsByte, SeqMonotonic
<1>3. m \in [type : MessageType, id : Nat, eq : Nat, message_length : Nat, message : Seq(Byte)]
  BY <1>1, <1>2 DEF Chat
<1> QED  BY <1>3, NullAssumption

\* What is typed.
LEMMA TypedIsChat ==
  ASSUME NEW type \in MessageType, NEW id \in 0..3, NEW eq \in 0..1, NEW text \in Texts
  PROVE  [type |-> type, id |-> id, eq |-> eq, message_length |-> Len(text), message |-> text]
           \in Chats
<1>1. text \in Seq(1..255) /\ Len(text) \in 1..252
  BY TextsAssumption
<1>2. text \in Seq(Char)
  BY <1>1 DEF Char
<1>3. Len(text) \in Byte
  <2> DEFINE n == Len(text)
  <2>1. n \in 1..252
    BY <1>1
  <2> HIDE DEF n
  <2>2. n \in Byte
    BY <2>1 DEF Byte
  <2> QED  BY <2>2 DEF n
<1>4. text \in Lines
  BY <1>2, <1>3 DEF Lines
<1>5. Chat(type, id, eq, text) \in Chats
  BY <1>4 DEF Chats
<1> QED  BY <1>5 DEF Chat

\* The byte that counts what is sent is wide enough for what is typed.
LEMMA TypedIsSentWhole ==
  ASSUME NEW type \in MessageType, NEW id \in 0..3, NEW eq \in 0..1, NEW text \in Texts,
         NEW base \in {CLIENT_CHAT_CODE, SERVER_CHAT_CODE},
         NEW msg, msg = [type |-> type, id |-> id, eq |-> eq,
                         message_length |-> Len(text), message |-> text]
  PROVE  send_tcp(serialize_chat_message(msg, base)) = serialize_chat_message(msg, base)
<1> DEFINE b == serialize_chat_message(msg, base)
           n == Len(text)
<1>1. text \in Seq(Char) /\ n \in 1..252
  BY TextsAssumption DEF Char
<1>2. msg = Chat(type, id, eq, text)
  BY DEF Chat
<1>3. base \in 1..15
  BY DEF CLIENT_CHAT_CODE, SERVER_CHAT_CODE
<1> HIDE DEF n
<1>4. n \in Byte
  BY <1>1 DEF Byte
<1> DEFINE c == serialize_chat_message(Chat(type, id, eq, text), base)
<1>5. c \in Seq(Byte) /\ Len(c) = 3 + Len(text)
  BY <1>1, <1>3, <1>4, ChatRoundTrip DEF n
<1>6. b \in Seq(Byte) /\ Len(b) = 3 + n
  <2>1. b = c
    BY <1>2
  <2> HIDE DEF b, c
  <2> QED  BY <1>5, <2>1 DEF n
<1> HIDE DEF b
<1>7. Len(b) % 256 = Len(b)
  <2>1. Len(b) \in 0..255
    BY <1>1, <1>6
  <2>2. ASSUME NEW l \in 0..255 PROVE l % 256 = l
    OBVIOUS
  <2> QED  BY <2>1, <2>2
<1>8. send_tcp(b) = b
  <2>1. SubSeq(b, 1, Len(b)) = b
    BY <1>6, SubSeqFull
  <2> QED  BY <1>7, <2>1, Zenon DEF send_tcp
<1> QED  BY <1>8 DEF b

Information ==
  serialize_connection_information([game_mode |-> "SOLO", id |-> me.id, eq |-> me.eq,
                                    portudp |-> Udp, portmdiff |-> Mult, adrmdiff |-> Group])

LEMMA Me ==
  ASSUME me \in Seats
  PROVE  /\ me.mode \in Mode /\ me.id \in 0..3 /\ me.eq \in 0..1 /\ me.winner \in -1..3
         /\ me.mode = "TEAM" => me.winner <= 1
BY SeatsAssumption

LEMMA InformationBytes ==
  ASSUME me \in Seats
  PROVE  /\ Information \in Seq(Byte) /\ Len(Information) = 22
         /\ deserialize_connection_information(Information) # NULL
              => Learnt(deserialize_connection_information(Information))
                   = <<me.id, me.eq, Udp, Mult, Group>>
<1> DEFINE info == [game_mode |-> "SOLO", id |-> me.id, eq |-> me.eq,
                    portudp |-> Udp, portmdiff |-> Mult, adrmdiff |-> Group]
<1>1. "SOLO" \in Mode /\ me.id \in 0..3 /\ me.eq \in 0..1
  BY Me DEF Mode
<1>2. Udp \in Word /\ Mult \in Word /\ Group \in [1..8 -> Word]
  BY DEF Udp, Mult, Group, Word
<1>3. /\ serialize_connection_information(info) \in Seq(Byte)
      /\ Len(serialize_connection_information(info)) = 22
  BY <1>1, <1>2, LongMessage
<1>4. deserialize_connection_information(serialize_connection_information(info)) = info
  BY <1>1, <1>2, InformationRoundTrip
<1>5. Learnt(info) = <<me.id, me.eq, Udp, Mult, Group>>
  BY DEF Learnt
<1>6. Information = serialize_connection_information(info)
  BY DEF Information
<1> HIDE DEF info
<1> QED  BY <1>3, <1>4, <1>5, <1>6

\* The end of the game, when it has a winner.
LEMMA GameEndBytes ==
  ASSUME me \in Seats, mode \in Mode
  PROVE  /\ game_end # NULL =>
              /\ game_end \in Seq(Byte) /\ Len(game_end) = 2
              /\ mode = me.mode =>
                   LET end == deserialize_game_end(game_end)
                   IN  /\ end # NULL /\ end.game_mode = me.mode
                       /\ (IF me.mode = "SOLO" THEN end.id ELSE end.eq) = me.winner
         /\ mode = me.mode /\ me.winner # -1 => game_end # NULL
<1>1. me.mode \in Mode /\ me.winner \in -1..3 /\ (me.mode = "TEAM" => me.winner <= 1)
  BY Me
<1> DEFINE h == IF mode = "SOLO" THEN Seat(mode, me.winner, 0) ELSE Seat(mode, 0, me.winner)
           valid == IF mode = "SOLO" THEN me.winner \in 0..3 ELSE me.winner \in 0..1
<1>2. game_end = serialize_game_end(h)
  BY DEF game_end, Seat
<1>3. h.game_mode = mode /\ (IF mode = "SOLO" THEN h.id ELSE h.eq) = me.winner
  BY DEF Seat
<1>4. ~valid => game_end = NULL
  BY <1>2, <1>3 DEF serialize_game_end, ValidId, ValidEq
<1>5. ASSUME valid
      PROVE  /\ game_end \in Seq(Byte) /\ Len(game_end) = 2 /\ deserialize_game_end(game_end) = h
             /\ game_end # NULL /\ h # NULL
  <2>1. PICK id \in 0..3, eq \in 0..1 : h = Seat(mode, id, eq)
    BY <1>5
  <2> HIDE DEF h
  <2>2. serialize_game_end(h) \in Seq(Byte) /\ Len(serialize_game_end(h)) = 2
    BY <2>1, ShortMessages
  <2>3. deserialize_game_end(serialize_game_end(h)) = h
    BY <2>1, GameEndRoundTrip
  <2>4. h \in [game_mode : Mode, id : Nat, eq : Nat]
    BY <2>1 DEF Seat
  <2> QED  BY <1>2, <2>2, <2>3, <2>4, NullAssumption
<1>6. mode = me.mode /\ me.winner # -1 => valid
  BY <1>1 DEF Mode
<1> HIDE DEF h, valid
<1> QED  BY <1>3, <1>4, <1>5, <1>6

-----------------------------------------------------------------------------
(* The invariant. *)

MoreTypes ==
  /\ me \in Seats
  /\ upEnd \in BOOLEAN /\ downEnd \in BOOLEAN /\ lost \in BOOLEAN
  /\ split \in BOOLEAN /\ ended \in BOOLEAN
  /\ seat # NULL => seat.id \in 0..3 /\ seat.eq \in 0..1
  /\ said \in Seq(Chats) /\ told \in Seq(Chats)
  /\ forwarded \in Seq(AnyChat(CLIENT_CHAT_CODE)) /\ heard \in Seq(AnyChat(SERVER_CHAT_CODE))

\* A field is never read beyond its end.
Fits(buf) == Len(buf) <= 2 \/ Len(buf) <= 3 + buf[3]

ServerOrder ==
  /\ downEnd => srv \in {"closed", "crashed"}
  /\ srv = "initial" => mode = NULL
  /\ srv \in {"ready", "chat", "select", "done"} => mode # NULL
  /\ mode = NULL => told = <<>> /\ ~ended
  /\ srv \in {"initial", "ready"} => forwarded = <<>>
  /\ ended => srv \in {"done", "closed"}
  /\ ~split /\ srv \in {"initial", "ready"} => scount \in {0, 2}
  /\ srv = "chat" => sbuf = <<>>
  /\ srv = "select" => Fits(sbuf)

ClientOrder ==
  /\ upEnd => cli = "left"
  /\ lost => cli = "left" \/ downEnd
  /\ cli = "info" => seat = NULL /\ heard = <<>>
  /\ cli \in {"play", "recv"} => seat # NULL
  /\ seat = NULL => said = <<>>
  /\ ~split /\ cli = "info" => ccount \in {0, 22}
  /\ cli = "info" /\ ccount # 0 => Len(cbuf) >= 2
  /\ cli = "play" => cbuf = <<>>
  /\ cli = "recv" => Fits(cbuf)

LEMMA PrefixBytes ==
  ASSUME NEW bytes \in Seq(Byte), NEW p \in Prefixes(bytes)
  PROVE  /\ p \in Seq(Byte) /\ Len(p) <= Len(bytes)
         /\ \A i \in 1..Len(p) : p[i] = bytes[i]
<1>1. PICK l \in 0..Len(bytes) : p = SubSeq(bytes, 1, l)
  BY DEF Prefixes
<1>2. l \in Nat /\ l <= Len(bytes) /\ Len(bytes) \in Nat
  BY <1>1
<1> QED  BY <1>1, <1>2

\* What the server reads in its two ways of reading.
LEMMA ServerGathersBytes ==
  ASSUME up \in Seq(Byte), sbuf \in Seq(Byte), scount \in 0..1, ServerGathers(2)
  PROVE  \E part \in Received(up, 2 - scount) :
           /\ part \in Seq(Byte) /\ up' = After(up, Len(part)) /\ up' \in Seq(Byte)
           /\ sbuf' \in Seq(Byte) /\ scount' = scount + Len(part)
           /\ scount' \in 1..2 /\ (split => split') /\ (~split' => scount' = 2)
           /\ split' \in BOOLEAN
           /\ scount' = 2 /\ scount = 0 => sbuf' = part
           /\ IF scount = 0 THEN Len(sbuf') = 2 ELSE sbuf' = sbuf
<1>1. PICK part \in Received(up, 2 - scount) :
        /\ sbuf' \in AtWrongPlace(sbuf, scount, part, 2)
        /\ scount' = scount + Len(part)
        /\ up' = After(up, Len(part))
        /\ split' = (split \/ scount' < 2)
  BY DEF ServerGathers
<1>2. 2 - scount \in Nat /\ 2 \in Nat /\ scount \in Nat
  OBVIOUS
<1>3. part \in Seq(Byte) /\ Len(part) \in 1..2 - scount /\ After(up, Len(part)) \in Seq(Byte)
  BY <1>2, ReceivedBytes
<1>4. Len(part) <= 2 /\ scount' \in 1..2
  <2> DEFINE k == Len(part)
  <2>1. k \in 1..2 - scount /\ scount' = scount + k
    BY <1>1, <1>3
  <2> HIDE DEF k
  <2>2. k <= 2 /\ scount' \in 1..2
    BY <1>2, <2>1
  <2> QED  BY <2>2 DEF k
<1>5. /\ sbuf' \in Seq(Byte) /\ (scount = 0 /\ Len(part) = 2 => sbuf' = part)
      /\ IF scount = 0 THEN Len(sbuf') = 2 ELSE sbuf' = sbuf
  <2>1. ASSUME NEW new \in AtWrongPlace(sbuf, scount, part, 2)
        PROVE  /\ new \in Seq(Byte) /\ (scount = 0 /\ Len(part) = 2 => new = part)
               /\ IF scount = 0 THEN Len(new) = 2 ELSE new = sbuf
    <3> DEFINE size == 2
    <3>1. /\ part \in Seq(Byte) /\ Len(part) <= size /\ scount \in Nat /\ size \in Nat
          /\ new \in AtWrongPlace(sbuf, scount, part, size)
      BY <1>2, <1>3, <1>4
    <3> HIDE DEF size
    <3>2. /\ new \in Seq(Byte) /\ (scount = 0 /\ Len(part) = size => new = part)
          /\ IF scount = 0 THEN Len(new) = size ELSE new = sbuf
      BY <3>1, GatheredBuffer
    <3> QED  BY <3>2 DEF size
  <2> QED  BY <1>1, <2>1
<1>6. scount' = 2 /\ scount = 0 => Len(part) = 2
  BY <1>1, <1>3
<1>7. (split => split') /\ (~split' => scount' = 2) /\ split' \in BOOLEAN
  <2>1. (split => split') /\ (~split' => ~(scount' < 2)) /\ split' \in BOOLEAN
    BY <1>1, Zenon
  <2>2. ~(scount' < 2) => scount' = 2
    BY <1>4
  <2> QED  BY <2>1, <2>2, Zenon
<1> QED  BY <1>1, <1>3, <1>4, <1>5, <1>6, <1>7

LEMMA ClientGathersBytes ==
  ASSUME down \in Seq(Byte), cbuf \in Seq(Byte), ccount \in 0..21, ClientGathers(22)
  PROVE  \E part \in Received(down, 22 - ccount) :
           /\ part \in Seq(Byte) /\ down' = After(down, Len(part)) /\ down' \in Seq(Byte)
           /\ cbuf' \in Seq(Byte) /\ ccount' = ccount + Len(part)
           /\ ccount' \in 1..22 /\ (split => split') /\ (~split' => ccount' = 22)
           /\ split' \in BOOLEAN
           /\ ccount' = 22 /\ ccount = 0 => cbuf' = part
           /\ IF ccount = 0 THEN Len(cbuf') = 22 ELSE cbuf' = cbuf
<1>1. PICK part \in Received(down, 22 - ccount) :
        /\ cbuf' \in AtWrongPlace(cbuf, ccount, part, 22)
        /\ ccount' = ccount + Len(part)
        /\ down' = After(down, Len(part))
        /\ split' = (split \/ ccount' < 22)
  BY DEF ClientGathers
<1>2. 22 - ccount \in Nat /\ 22 \in Nat /\ ccount \in Nat
  OBVIOUS
<1>3. part \in Seq(Byte) /\ Len(part) \in 1..22 - ccount /\ After(down, Len(part)) \in Seq(Byte)
  BY <1>2, ReceivedBytes
<1>4. Len(part) <= 22 /\ ccount' \in 1..22
  <2> DEFINE k == Len(part)
  <2>1. k \in 1..22 - ccount /\ ccount' = ccount + k
    BY <1>1, <1>3
  <2> HIDE DEF k
  <2>2. k <= 22 /\ ccount' \in 1..22
    BY <1>2, <2>1
  <2> QED  BY <2>2 DEF k
<1>5. /\ cbuf' \in Seq(Byte) /\ (ccount = 0 /\ Len(part) = 22 => cbuf' = part)
      /\ IF ccount = 0 THEN Len(cbuf') = 22 ELSE cbuf' = cbuf
  <2>1. ASSUME NEW new \in AtWrongPlace(cbuf, ccount, part, 22)
        PROVE  /\ new \in Seq(Byte) /\ (ccount = 0 /\ Len(part) = 22 => new = part)
               /\ IF ccount = 0 THEN Len(new) = 22 ELSE new = cbuf
    <3> DEFINE size == 22
    <3>1. /\ part \in Seq(Byte) /\ Len(part) <= size /\ ccount \in Nat /\ size \in Nat
          /\ new \in AtWrongPlace(cbuf, ccount, part, size)
      BY <1>2, <1>3, <1>4
    <3> HIDE DEF size
    <3>2. /\ new \in Seq(Byte) /\ (ccount = 0 /\ Len(part) = size => new = part)
          /\ IF ccount = 0 THEN Len(new) = size ELSE new = cbuf
      BY <3>1, GatheredBuffer
    <3> QED  BY <3>2 DEF size
  <2> QED  BY <1>1, <2>1
<1>6. ccount' = 22 /\ ccount = 0 => Len(part) = 22
  BY <1>1, <1>3
<1>7. (split => split') /\ (~split' => ccount' = 22) /\ split' \in BOOLEAN
  <2>1. (split => split') /\ (~split' => ~(ccount' < 22)) /\ split' \in BOOLEAN
    BY <1>1, Zenon
  <2>2. ~(ccount' < 22) => ccount' = 22
    BY <1>4
  <2> QED  BY <2>1, <2>2, Zenon
<1> QED  BY <1>1, <1>3, <1>4, <1>5, <1>6, <1>7

LEMMA FieldSize ==
  ASSUME NEW buf \in Seq(Byte), Fits(buf), ~Complete(buf)
  PROVE  Field(buf) \in Nat /\ Field(buf) # 0
<1>1. Len(buf) \in Nat
  OBVIOUS
<1>2. CASE Len(buf) < 2
  BY <1>1, <1>2 DEF Field
<1>3. CASE Len(buf) = 2
  BY <1>3 DEF Field
<1>4. CASE Len(buf) > 2
  <2>1. buf[3] \in Nat
    <3>1. 3 \in 1..Len(buf)
      BY <1>1, <1>4
    <3>2. buf[3] \in Byte
      BY <3>1
    <3> QED  BY <3>2 DEF Byte
  <2>2. Len(buf) <= 3 + buf[3] /\ Len(buf) # 3 + buf[3]
    BY <1>1, <1>4 DEF Fits, Complete
  <2>3. Field(buf) = 3 + buf[3] - Len(buf)
    BY <1>1, <1>4 DEF Field
  <2> DEFINE b == buf[3]
             l == Len(buf)
  <2> HIDE DEF b, l
  <2>4. 3 + b - l \in Nat /\ 3 + b - l # 0
    BY <1>1, <2>1, <2>2 DEF b, l
  <2> QED  BY <2>3, <2>4 DEF b, l
<1> QED  BY <1>1, <1>2, <1>3, <1>4

\* A buffer with one more field, or a part of it.
LEMMA StillFits ==
  ASSUME NEW buf \in Seq(Byte), Fits(buf), ~Complete(buf), NEW more \in Seq(Byte),
         Len(more) \in Len(buf) + 1..Len(buf) + Field(buf),
         \A i \in 1..Len(buf) : more[i] = buf[i]
  PROVE  Fits(more)
<1>1. Len(buf) \in Nat /\ Len(more) \in Nat /\ Field(buf) \in Nat
  BY FieldSize
<1>2. Len(more) <= Len(buf) + Field(buf) /\ Len(buf) < Len(more)
  BY <1>1
<1>3. CASE Len(buf) < 2
  <2>1. Field(buf) = 2 - Len(buf)
    BY <1>1, <1>3 DEF Field
  <2>2. Len(more) <= 2
    BY <1>1, <1>2, <2>1
  <2> QED  BY <2>2 DEF Fits
<1>4. CASE Len(buf) = 2
  <2>1. Field(buf) = 1
    BY <1>4 DEF Field
  <2>2. Len(more) = 3
    BY <1>1, <1>2, <1>4, <2>1
  <2>3. more[3] \in Nat
    <3>1. 3 \in 1..Len(more)
      BY <2>2
    <3>2. more[3] \in Byte
      BY <3>1
    <3> QED  BY <3>2 DEF Byte
  <2>4. 3 <= 3 + more[3]
    BY <2>3
  <2> QED  BY <2>2, <2>4 DEF Fits
<1>5. CASE Len(buf) > 2
  <2>1. Field(buf) = 3 + buf[3] - Len(buf)
    BY <1>1, <1>5 DEF Field
  <2>2. more[3] = buf[3] /\ buf[3] \in Nat
    <3>1. 3 \in 1..Len(buf)
      BY <1>1, <1>5
    <3>2. buf[3] \in Byte
      BY <3>1
    <3> QED  BY <3>1, <3>2 DEF Byte
  <2> DEFINE b == buf[3]
  <2>3. Len(more) <= Len(buf) + (3 + b - Len(buf)) /\ b \in Nat
    BY <1>2, <2>1, <2>2
  <2> HIDE DEF b
  <2>4. Len(more) <= 3 + b
    BY <1>1, <2>3
  <2>5. Len(more) <= 3 + more[3]
    BY <2>2, <2>4 DEF b
  <2> QED  BY <2>5 DEF Fits
<1>6. Len(buf) < 2 \/ Len(buf) = 2 \/ Len(buf) > 2
  <2> DEFINE l == Len(buf)
  <2>1. l \in Nat
    BY <1>1
  <2> HIDE DEF l
  <2>2. l < 2 \/ l = 2 \/ l > 2
    BY <2>1
  <2> QED  BY <2>2 DEF l
<1> QED  BY <1>3, <1>4, <1>5, <1>6

Inv1 == TypeOK /\ MoreTypes /\ ServerOrder /\ ClientOrder

\* recv_chat_message and recv_chat_message_from_server.
LEMMA ServerReadsBytes ==
  ASSUME up \in Seq(Byte), sbuf \in Seq(Byte), Fits(sbuf), ~Complete(sbuf),
         ServerReads(Field(sbuf))
  PROVE  /\ up' \in Seq(Byte) /\ sbuf' \in Seq(Byte) /\ Fits(sbuf')
         /\ \/ sbuf' \o up' = sbuf \o up
            \/ up = <<>> /\ up' = <<>> /\ upEnd
<1>1. sbuf' \in recv_tcp(up, upEnd, Field(sbuf), sbuf) /\ up' = After(up, Len(sbuf') - Len(sbuf))
  BY DEF ServerReads
<1>2. Field(sbuf) \in Nat /\ Field(sbuf) # 0
  BY FieldSize
<1> DEFINE n == Field(sbuf)
           more == sbuf'
<1>3. n \in Nat /\ n # 0 /\ more \in recv_tcp(up, upEnd, n, sbuf)
  BY <1>1, <1>2
<1> HIDE DEF n, more
<1>4. ReadOf(up, upEnd, n, sbuf, more)
  BY <1>3, RecvTcp
<1>5. Fits(more)
  BY <1>4, StillFits DEF n, ReadOf
<1> QED  BY <1>1, <1>4, <1>5 DEF more, ReadOf

LEMMA ClientReadsBytes ==
  ASSUME down \in Seq(Byte), cbuf \in Seq(Byte), Fits(cbuf), ~Complete(cbuf),
         ClientReads(Field(cbuf))
  PROVE  /\ down' \in Seq(Byte) /\ cbuf' \in Seq(Byte) /\ Fits(cbuf')
         /\ \/ cbuf' \o down' = cbuf \o down
            \/ down = <<>> /\ down' = <<>> /\ downEnd
<1>1. /\ cbuf' \in recv_tcp(down, downEnd, Field(cbuf), cbuf)
      /\ down' = After(down, Len(cbuf') - Len(cbuf))
  BY DEF ClientReads
<1>2. Field(cbuf) \in Nat /\ Field(cbuf) # 0
  BY FieldSize
<1> DEFINE n == Field(cbuf)
           more == cbuf'
<1>3. n \in Nat /\ n # 0 /\ more \in recv_tcp(down, downEnd, n, cbuf)
  BY <1>1, <1>2
<1> HIDE DEF n, more
<1>4. ReadOf(down, downEnd, n, cbuf, more)
  BY <1>3, RecvTcp
<1>5. Fits(more)
  BY <1>4, StillFits DEF n, ReadOf
<1> QED  BY <1>1, <1>4, <1>5 DEF more, ReadOf

LEMMA EmptyFits == Fits(<<>>)
BY DEF Fits

LEMMA InitBasics == Init => Inv1
<1> SUFFICES ASSUME Init PROVE Inv1
  OBVIOUS
<1>1. me \in Seats /\ me.mode \in Mode /\ me.id \in 0..3 /\ me.eq \in 0..1
  BY Me DEF Init
<1>2. serialize_initial_connection(me.mode) \in Seq(Byte)
  <2>1. \A id \in 0..3, eq \in 0..1 : serialize_initial_connection(me.mode) \in Seq(Byte)
    BY <1>1, ShortMessages
  <2> QED  BY <1>1, <2>1
<1>3. TypeOK
  BY <1>2 DEF Init, TypeOK
<1>4. MoreTypes
  <2>1. \A S : <<>> \in Seq(S)
    OBVIOUS
  <2> QED  BY <1>1, <2>1 DEF Init, MoreTypes
<1>5. ServerOrder /\ ClientOrder
  BY DEF Init, ServerOrder, ClientOrder
<1> QED  BY <1>3, <1>4, <1>5 DEF Inv1

\* What each step leaves of the types and the order of events.
Step1 == TypeOK' /\ MoreTypes' /\ ServerOrder' /\ ClientOrder'

LEMMA GatherBasics ==
  ASSUME Inv1, NEW at \in {"initial", "ready"}, recv_connexion_header_raw(at)
  PROVE  Step1
<1>1. /\ srv = at /\ scount < 2 /\ ServerGathers(2)
      /\ UNCHANGED <<me, down, upEnd, downEnd, lost, srv, clientSide, mode, forwarded, told, ended>>
  BY DEF recv_connexion_header_raw
<1>2. up \in Seq(Byte) /\ sbuf \in Seq(Byte) /\ scount \in 0..1
  BY <1>1 DEF Inv1, TypeOK
<1>3. /\ up' \in Seq(Byte) /\ sbuf' \in Seq(Byte) /\ scount' \in 1..2
      /\ split' \in BOOLEAN /\ (split => split') /\ (~split' => scount' = 2)
  BY <1>1, <1>2, ServerGathersBytes
<1>4. TypeOK'
  BY <1>1, <1>3 DEF Inv1, TypeOK, clientSide
<1>5. MoreTypes'
  BY <1>1, <1>3 DEF Inv1, MoreTypes, clientSide
<1>6. ServerOrder'
  <2>1. /\ srv' = srv /\ srv \in {"initial", "ready"}
        /\ UNCHANGED <<downEnd, mode, told, ended, forwarded>>
    BY <1>1
  <2>2. ~split' => scount' = 2
    BY <1>3
  <2> QED  BY <2>1, <2>2 DEF Inv1, ServerOrder
<1>7. ClientOrder'
  BY <1>1, <1>3 DEF Inv1, ClientOrder, MoreTypes, clientSide
<1> QED  BY <1>4, <1>5, <1>6, <1>7 DEF Step1

LEMMA ClientGatherBasics ==
  ASSUME Inv1, recv_connexion_information_raw
  PROVE  Step1
<1>1. /\ cli = "info" /\ ccount < 22 /\ ClientGathers(22)
      /\ UNCHANGED <<me, up, upEnd, downEnd, lost, sides, cli, seat, heard, winner, said, mode,
                     forwarded, told, ended>>
  BY DEF recv_connexion_information_raw
<1>2. down \in Seq(Byte) /\ cbuf \in Seq(Byte) /\ ccount \in 0..21
  BY <1>1 DEF Inv1, TypeOK
<1>3. /\ down' \in Seq(Byte) /\ cbuf' \in Seq(Byte) /\ ccount' \in 1..22
      /\ split' \in BOOLEAN /\ (split => split') /\ (~split' => ccount' = 22)
      /\ IF ccount = 0 THEN Len(cbuf') = 22 ELSE cbuf' = cbuf
  BY <1>1, <1>2, ClientGathersBytes
<1>4. TypeOK'
  BY <1>1, <1>3 DEF Inv1, TypeOK, sides
<1>5. MoreTypes'
  BY <1>1, <1>3 DEF Inv1, MoreTypes, sides
<1>6. ServerOrder'
  BY <1>1, <1>3 DEF Inv1, ServerOrder, MoreTypes, sides
<1>7. ClientOrder'
  <2>1. cli' = cli /\ cli = "info" /\ UNCHANGED <<upEnd, lost, downEnd, seat, heard, said>>
    BY <1>1
  <2>2. ~split' => ccount' = 22
    BY <1>3
  <2>3. Len(cbuf') >= 2
    <3>1. CASE ccount = 0
      <4>1. Len(cbuf') = 22
        BY <1>3, <3>1
      <4> QED  BY <4>1
    <3>2. CASE ccount # 0
      <4>1. cbuf' = cbuf
        BY <1>3, <3>2
      <4>2. Len(cbuf) >= 2
        BY <2>1, <3>2 DEF Inv1, ClientOrder
      <4> QED  BY <4>1, <4>2
    <3> QED  BY <3>1, <3>2
  <2> QED  BY <2>1, <2>2, <2>3 DEF Inv1, ClientOrder
<1> QED  BY <1>4, <1>5, <1>6, <1>7 DEF Step1

\* The seat in the information is one, whatever the bytes.
LEMMA InformationSeat ==
  ASSUME NEW bytes \in Seq(Byte), Len(bytes) >= 2, deserialize_connection_information(bytes) # NULL
  PROVE  /\ deserialize_connection_information(bytes).id \in 0..3
         /\ deserialize_connection_information(bytes).eq \in 0..1
<1> DEFINE w == WordAt(bytes, 1)
<1>1. w \in Nat
  <2>1. 1 \in 1..Len(bytes) /\ 2 \in 1..Len(bytes)
    OBVIOUS
  <2>2. bytes[1] \in Byte /\ bytes[2] \in Byte
    BY <2>1
  <2>3. bytes[1] \in Nat /\ bytes[2] \in Nat
    BY <2>2 DEF Byte
  <2>4. 2 * 1 - 1 = 1 /\ 2 * 1 = 2
    OBVIOUS
  <2> QED  BY <2>3, <2>4 DEF WordAt
<1> HIDE DEF w
<1>2. (w \div 2) % 4 \in 0..3 /\ w % 2 \in 0..1
  BY <1>1
<1>3. IdOf(bytes) \in 0..3 /\ EqOf(bytes) \in 0..1
  BY <1>2 DEF IdOf, EqOf, id_bits, eq_bits, w
<1> QED  BY <1>3 DEF deserialize_connection_information

LEMMA StartBasics ==
  ASSUME Inv1, send_connexion_information \/ send_ready_connexion_information \/ ServerIsReady
  PROVE  Step1
<1>0. me \in Seats /\ me.mode \in Mode /\ me.id \in 0..3 /\ me.eq \in 0..1
  BY Me DEF Inv1, MoreTypes
<1>e. <<>> \in Seq(Byte)
  OBVIOUS
<1>1. CASE send_connexion_information
  <2>1. TypeOK'
    <3>1. down' = down \/ down' = down \o Information
      BY <1>1 DEF send_connexion_information, Information
    <3>2. Information \in Seq(Byte)
      BY <1>0, InformationBytes
    <3>3. down' \in Seq(Byte)
      <4>1. down \in Seq(Byte)
        BY DEF Inv1, TypeOK
      <4>2. down \o Information \in Seq(Byte)
        BY <3>2, <4>1
      <4> QED  BY <3>1, <4>1, <4>2
    <3>4. mode' \in Mode \cup {NULL}
      BY <1>1 DEF send_connexion_information, deserialize_initial_connection, Inv1, TypeOK
    <3>5. srv' \in {"crashed", "ready"} /\ sbuf' = <<>> /\ scount' = 0
      BY <1>1 DEF send_connexion_information
    <3> QED  BY <1>1, <1>e, <3>3, <3>4, <3>5
             DEF send_connexion_information, Inv1, TypeOK, clientSide
  <2>2. MoreTypes'
    BY <1>1 DEF send_connexion_information, Inv1, MoreTypes, clientSide
  <2>3. ServerOrder'
    BY <1>1 DEF send_connexion_information, Inv1, ServerOrder, clientSide
  <2>4. ClientOrder'
    BY <1>1 DEF send_connexion_information, Inv1, ClientOrder, clientSide
  <2> QED  BY <2>1, <2>2, <2>3, <2>4 DEF Step1
<1>2. CASE send_ready_connexion_information
  <2> DEFINE info == deserialize_connection_information(cbuf)
             h == [game_mode |-> me.mode, id |-> info.id, eq |-> info.eq]
  <2>1. cbuf \in Seq(Byte) /\ up \in Seq(Byte) /\ cli = "info" /\ ccount = 22
    BY <1>2 DEF Inv1, TypeOK, send_ready_connexion_information
  <2>2. info # NULL => info.id \in 0..3 /\ info.eq \in 0..1
    <3>1. Len(cbuf) >= 2
      BY <2>1 DEF Inv1, ClientOrder
    <3> QED  BY <2>1, <3>1, InformationSeat
  <2>3. info # NULL => serialize_ready_connection(h) \in Seq(Byte)
    <3> SUFFICES ASSUME info # NULL PROVE serialize_ready_connection(h) \in Seq(Byte)
      OBVIOUS
    <3> DEFINE i == info.id
               e == info.eq
               m == me.mode
    <3>1. h = Seat(m, i, e)
      BY DEF Seat
    <3>2. m \in Mode /\ i \in 0..3 /\ e \in 0..1
      BY <1>0, <2>2
    <3> HIDE DEF h, i, e, m
    <3> QED  BY <3>1, <3>2, ShortMessages
  <2>4. up' = up \/ (info # NULL /\ up' = up \o serialize_ready_connection(h))
    BY <1>2 DEF send_ready_connexion_information
  <2>5. seat' = seat \/ (info # NULL /\ seat' = info)
    BY <1>2 DEF send_ready_connexion_information
  <2>6. up' \in Seq(Byte)
    <3> DEFINE r == serialize_ready_connection(h)
    <3> HIDE DEF h, r, info
    <3>1. info # NULL => r \in Seq(Byte)
      BY <2>3 DEF r
    <3>2. info # NULL => up \o r \in Seq(Byte)
      BY <2>1, <3>1
    <3> QED  BY <2>1, <2>4, <3>2 DEF r
  <2>7. /\ cli' \in {"left", "play"} /\ cbuf' = <<>> /\ ccount' = 0
        /\ UNCHANGED <<me, down, downEnd, lost, sides, heard, winner, said, split, mode, forwarded,
                       told, ended>>
        /\ cli' = "left" => upEnd' = TRUE /\ seat' = seat
        /\ cli' = "play" => upEnd' = upEnd /\ seat' = info /\ info # NULL
    BY <1>2 DEF send_ready_connexion_information
  <2> HIDE DEF info, h
  <2>8. TypeOK'
    BY <1>e, <2>6, <2>7 DEF Inv1, TypeOK, sides
  <2>9. MoreTypes'
    <3>1. upEnd' \in BOOLEAN
      BY <2>7 DEF Inv1, MoreTypes
    <3>2. seat' # NULL => seat'.id \in 0..3 /\ seat'.eq \in 0..1
      BY <2>2, <2>5 DEF Inv1, MoreTypes
    <3> QED  BY <2>7, <3>1, <3>2 DEF Inv1, MoreTypes, sides
  <2>10. ServerOrder'
    BY <2>7 DEF Inv1, ServerOrder, sides
  <2>11. ClientOrder'
    BY <2>1, <2>7 DEF Inv1, ClientOrder
  <2> QED  BY <2>8, <2>9, <2>10, <2>11 DEF Step1
<1>3. CASE ServerIsReady
  <2>1. TypeOK'
    BY <1>3, <1>e DEF ServerIsReady, Inv1, TypeOK, stream, clientSide
  <2>2. MoreTypes'
    BY <1>3 DEF ServerIsReady, Inv1, MoreTypes, stream, clientSide
  <2>3. ServerOrder'
    BY <1>3 DEF ServerIsReady, Inv1, ServerOrder, stream, clientSide
  <2>4. ClientOrder'
    BY <1>3 DEF ServerIsReady, Inv1, ClientOrder, stream, clientSide
  <2> QED  BY <2>1, <2>2, <2>3, <2>4 DEF Step1
<1> QED  BY <1>1, <1>2, <1>3

LEMMA EndBasics ==
  ASSUME Inv1, ReadyTimeout \/ CloseSockets \/ ClientLeaves \/ send_game_over
  PROVE  Step1
<1>1. CASE ReadyTimeout \/ CloseSockets
  <2>1. /\ srv \in {"ready", "done"} /\ srv' = "closed" /\ downEnd' = TRUE /\ up' = <<>>
        /\ down' \in Prefixes(down) \cup {down}
        /\ lost' = (lost \/ down' # down)
        /\ UNCHANGED <<me, upEnd, sbuf, scount, clientSide, split, mode, forwarded, told, ended>>
    BY <1>1 DEF ReadyTimeout, CloseSockets, ServerCloses
  <2>2. down' \in Seq(Byte)
    BY <2>1, PrefixBytes DEF Inv1, TypeOK
  <2>3. up' \in Seq(Byte)
    BY <2>1
  <2>4. TypeOK'
    BY <2>1, <2>2, <2>3 DEF Inv1, TypeOK, clientSide
  <2>5. MoreTypes'
    <3>1. lost' \in BOOLEAN
      BY <2>1, Zenon
    <3> QED  BY <2>1, <3>1 DEF Inv1, MoreTypes, clientSide
  <2>6. ServerOrder'
    BY <2>1 DEF Inv1, ServerOrder, clientSide
  <2>7. ClientOrder'
    BY <2>1 DEF Inv1, ClientOrder, clientSide
  <2> QED  BY <2>4, <2>5, <2>6, <2>7 DEF Step1
<1>2. CASE ClientLeaves
  <2>1. /\ cli' = "left" /\ upEnd' = TRUE /\ down' = <<>>
        /\ cli \in {"info", "play", "recv"}
        /\ up' \in Prefixes(up) \cup {up}
        /\ lost' = (lost \/ up' # up)
        /\ UNCHANGED <<me, downEnd, sides, cbuf, ccount, seat, heard, winner, said, split, mode,
                       forwarded, told, ended>>
    BY <1>2 DEF ClientLeaves
  <2>2. up' \in Seq(Byte)
    BY <2>1, PrefixBytes DEF Inv1, TypeOK
  <2>3. down' \in Seq(Byte)
    BY <2>1
  <2>4. TypeOK'
    BY <2>1, <2>2, <2>3 DEF Inv1, TypeOK, sides
  <2>5. MoreTypes'
    <3>1. lost' \in BOOLEAN
      BY <2>1, Zenon
    <3> QED  BY <2>1, <3>1 DEF Inv1, MoreTypes, sides
  <2>6. ServerOrder'
    BY <2>1 DEF Inv1, ServerOrder, sides
  <2>7. ClientOrder'
    BY <2>1 DEF Inv1, ClientOrder
  <2> QED  BY <2>4, <2>5, <2>6, <2>7 DEF Step1
<1>3. CASE send_game_over
  <2>1. /\ srv = "done" /\ ~ended /\ ended' = TRUE
        /\ down' = down \/ (game_end # NULL /\ down' = down \o game_end)
        /\ UNCHANGED <<me, up, upEnd, downEnd, lost, sides, clientSide, split, mode, forwarded,
                       told>>
    BY <1>3 DEF send_game_over
  <2>2. mode \in Mode
    BY <2>1 DEF Inv1, TypeOK, ServerOrder
  <2>3. down' \in Seq(Byte)
    <3>1. game_end # NULL => game_end \in Seq(Byte)
      BY <2>2, GameEndBytes DEF Inv1, MoreTypes
    <3>2. down \in Seq(Byte)
      BY DEF Inv1, TypeOK
    <3>3. game_end # NULL => down \o game_end \in Seq(Byte)
      BY <3>1, <3>2
    <3> QED  BY <2>1, <3>2, <3>3
  <2>4. TypeOK'
    BY <2>1, <2>3 DEF Inv1, TypeOK, sides, clientSide
  <2>5. MoreTypes'
    BY <2>1 DEF Inv1, MoreTypes, sides, clientSide
  <2>6. ServerOrder'
    BY <2>1 DEF Inv1, ServerOrder, sides, clientSide
  <2>7. ClientOrder'
    BY <2>1 DEF Inv1, ClientOrder, sides, clientSide
  <2> QED  BY <2>4, <2>5, <2>6, <2>7 DEF Step1
<1> QED  BY <1>1, <1>2, <1>3

\* Messages that are said.
LEMMA SayBasics ==
  ASSUME Inv1, client_send_chat_message \/ send_chat_message
  PROVE  Step1
<1>0. me \in Seats /\ me.id \in 0..3 /\ me.eq \in 0..1 /\ (me.id + 1) % 4 \in 0..3
  BY Me DEF Inv1, MoreTypes
<1>1. CASE client_send_chat_message
  <2>1. PICK type \in MessageType, text \in Texts :
          LET msg == [type |-> type, id |-> seat.id, eq |-> seat.eq,
                      message_length |-> Len(text), message |-> text]
          IN  /\ said' = Append(said, msg)
              /\ up' = up \o send_tcp(serialize_chat_message(msg, CLIENT_CHAT_CODE))
    BY <1>1 DEF client_send_chat_message
  <2> DEFINE msg == [type |-> type, id |-> seat.id, eq |-> seat.eq,
                     message_length |-> Len(text), message |-> text]
             b == serialize_chat_message(msg, CLIENT_CHAT_CODE)
  <2>2. /\ cli \in {"play", "recv"} /\ ~downEnd
        /\ UNCHANGED <<me, down, upEnd, downEnd, lost, sides, cli, cbuf, ccount, seat, heard, winner,
                       split, mode, forwarded, told, ended>>
    BY <1>1 DEF client_send_chat_message
  <2>3. seat # NULL /\ seat.id \in 0..3 /\ seat.eq \in 0..1
    BY <2>2 DEF Inv1, MoreTypes, ClientOrder
  <2>4. msg \in Chats /\ send_tcp(b) = b
    BY <2>3, TypedIsChat, TypedIsSentWhole
  <2>5. said' = Append(said, msg) /\ up' = up \o b
    BY <2>1, <2>4
  <2> HIDE DEF msg
  <2>6. b \in Seq(Byte)
    BY <2>4, ChatBack
  <2> HIDE DEF b
  <2>7. up' \in Seq(Byte)
    BY <2>5, <2>6 DEF Inv1, TypeOK
  <2>8. said' \in Seq(Chats)
    BY <2>4, <2>5 DEF Inv1, MoreTypes
  <2>9. TypeOK'
    BY <2>2, <2>7 DEF Inv1, TypeOK, sides
  <2>10. MoreTypes'
    BY <2>2, <2>8 DEF Inv1, MoreTypes, sides
  <2>11. ServerOrder'
    BY <2>2 DEF Inv1, ServerOrder, sides
  <2>12. ClientOrder'
    BY <2>2, <2>3 DEF Inv1, ClientOrder
  <2> QED  BY <2>9, <2>10, <2>11, <2>12 DEF Step1
<1>2. CASE send_chat_message
  <2>1. PICK type \in MessageType, text \in Texts :
          LET msg == [type |-> type, id |-> (me.id + 1) % 4, eq |-> me.eq,
                      message_length |-> Len(text), message |-> text]
          IN  /\ told' = Append(told, msg)
              /\ down' = IF cli = "left" THEN down
                         ELSE down \o send_tcp(serialize_chat_message(msg, SERVER_CHAT_CODE))
    BY <1>2 DEF send_chat_message
  <2> DEFINE msg == [type |-> type, id |-> (me.id + 1) % 4, eq |-> me.eq,
                     message_length |-> Len(text), message |-> text]
             b == serialize_chat_message(msg, SERVER_CHAT_CODE)
  <2>2. /\ srv \in {"chat", "select", "done"} /\ ~ended
        /\ UNCHANGED <<me, up, upEnd, downEnd, lost, sides, clientSide, split, mode, forwarded,
                       ended>>
    BY <1>2 DEF send_chat_message
  <2>4. msg \in Chats /\ send_tcp(b) = b
    BY <1>0, TypedIsChat, TypedIsSentWhole
  <2>5. told' = Append(told, msg) /\ (down' = down \/ down' = down \o b)
    BY <2>1, <2>4
  <2> HIDE DEF msg
  <2>6. b \in Seq(Byte)
    BY <2>4, ChatBack
  <2> HIDE DEF b
  <2>7. down' \in Seq(Byte)
    <3>1. down \in Seq(Byte)
      BY DEF Inv1, TypeOK
    <3>2. down \o b \in Seq(Byte)
      BY <2>6, <3>1
    <3> QED  BY <2>5, <3>1, <3>2
  <2>8. told' \in Seq(Chats)
    BY <2>4, <2>5 DEF Inv1, MoreTypes
  <2>9. TypeOK'
    BY <2>2, <2>7 DEF Inv1, TypeOK, sides, clientSide
  <2>10. MoreTypes'
    BY <2>2, <2>8 DEF Inv1, MoreTypes, sides, clientSide
  <2>11. ServerOrder'
    BY <2>2 DEF Inv1, ServerOrder, sides, clientSide
  <2>12. ClientOrder'
    BY <2>2 DEF Inv1, ClientOrder, sides, clientSide
  <2> QED  BY <2>9, <2>10, <2>11, <2>12 DEF Step1
<1> QED  BY <1>1, <1>2

\* The server's loop.
LEMMA ServerChatBasics ==
  ASSUME Inv1,
         handle_tcp_communication \/ SelectTimeout \/ recv_chat_message \/ handle_chat_message
  PROVE  Step1
<1>e. <<>> \in Seq(Byte) /\ Fits(<<>>)
  BY EmptyFits
<1>1. CASE handle_tcp_communication \/ SelectTimeout
  <2>1. /\ srv \in {"chat", "select"} /\ srv' \in {"chat", "select", "done"} /\ Fits(sbuf)
        /\ (srv' = "chat" => sbuf = <<>>)
        /\ UNCHANGED <<me, stream, sbuf, scount, clientSide, split, mode, forwarded, told, ended>>
    BY <1>1, <1>e DEF handle_tcp_communication, SelectTimeout, Inv1, ServerOrder
  <2>2. TypeOK'
    BY <2>1 DEF Inv1, TypeOK, stream, clientSide
  <2>3. MoreTypes'
    BY <2>1 DEF Inv1, MoreTypes, stream, clientSide
  <2>4. ServerOrder'
    <3>1. Fits(sbuf')
      BY <2>1
    <3> QED  BY <2>1, <3>1 DEF Inv1, ServerOrder, stream, clientSide
  <2>5. ClientOrder'
    BY <2>1 DEF Inv1, ClientOrder, stream, clientSide
  <2> QED  BY <2>2, <2>3, <2>4, <2>5 DEF Step1
<1>2. CASE recv_chat_message
  <2>1. /\ srv = "select" /\ ~Complete(sbuf) /\ ServerReads(Field(sbuf))
        /\ UNCHANGED <<me, down, upEnd, downEnd, lost, srv, scount, clientSide, split, mode,
                       forwarded, told, ended>>
    BY <1>2 DEF recv_chat_message
  <2>2. up \in Seq(Byte) /\ sbuf \in Seq(Byte) /\ Fits(sbuf)
    BY <2>1 DEF Inv1, TypeOK, ServerOrder
  <2>3. up' \in Seq(Byte) /\ sbuf' \in Seq(Byte) /\ Fits(sbuf')
    BY <2>1, <2>2, ServerReadsBytes
  <2>4. TypeOK'
    BY <2>1, <2>3 DEF Inv1, TypeOK, clientSide
  <2>5. MoreTypes'
    BY <2>1 DEF Inv1, MoreTypes, clientSide
  <2>6. ServerOrder'
    BY <2>1, <2>3 DEF Inv1, ServerOrder, clientSide
  <2>7. ClientOrder'
    BY <2>1 DEF Inv1, ClientOrder, clientSide
  <2> QED  BY <2>4, <2>5, <2>6, <2>7 DEF Step1
<1>3. CASE handle_chat_message
  <2> DEFINE msg == deserialize_chat_message(sbuf, CLIENT_CHAT_CODE)
  <2>1. /\ srv = "select" /\ sbuf' = <<>> /\ srv' \in {"chat", "done"}
        /\ forwarded' = forwarded \/ forwarded' = Append(forwarded, msg)
        /\ UNCHANGED <<me, stream, scount, clientSide, split, mode, told, ended>>
    BY <1>3 DEF handle_chat_message
  <2>2. msg \in AnyChat(CLIENT_CHAT_CODE)
    BY DEF Inv1, TypeOK, AnyChat
  <2> HIDE DEF msg
  <2>3. forwarded' \in Seq(AnyChat(CLIENT_CHAT_CODE))
    <3> DEFINE A == AnyChat(CLIENT_CHAT_CODE)
    <3>1. forwarded \in Seq(A) /\ msg \in A
      BY <2>2 DEF Inv1, MoreTypes
    <3> HIDE DEF A
    <3>2. forwarded' \in Seq(A)
      BY <2>1, <3>1
    <3> QED  BY <3>2 DEF A
  <2>4. TypeOK'
    BY <1>e, <2>1 DEF Inv1, TypeOK, stream, clientSide
  <2>5. MoreTypes'
    BY <2>1, <2>3 DEF Inv1, MoreTypes, stream, clientSide
  <2>6. ServerOrder'
    BY <2>1 DEF Inv1, ServerOrder, stream, clientSide
  <2>7. ClientOrder'
    BY <2>1 DEF Inv1, ClientOrder, stream, clientSide
  <2> QED  BY <2>4, <2>5, <2>6, <2>7 DEF Step1
<1> QED  BY <1>1, <1>2, <1>3

\* The client's loop.
LEMMA ClientChatBasics ==
  ASSUME Inv1, ChatThread
  PROVE  Step1
<1>e. <<>> \in Seq(Byte) /\ Fits(<<>>)
  BY EmptyFits
<1>1. CASE ClientLooks
  <2>1. /\ cli = "play" /\ cbuf = <<>> /\ cli' \in {"over", "recv"}
        /\ UNCHANGED <<me, stream, sides, cbuf, ccount, seat, heard, winner, said, split, mode,
                       forwarded, told, ended>>
    BY <1>1 DEF ClientLooks, Inv1, ClientOrder
  <2>2. TypeOK'
    BY <2>1 DEF Inv1, TypeOK, stream, sides
  <2>3. MoreTypes'
    BY <2>1 DEF Inv1, MoreTypes, stream, sides
  <2>4. ServerOrder'
    BY <2>1 DEF Inv1, ServerOrder, stream, sides
  <2>5. ClientOrder'
    <3>1. Fits(cbuf')
      BY <1>e, <2>1
    <3> QED  BY <2>1, <3>1 DEF Inv1, ClientOrder, stream
  <2> QED  BY <2>2, <2>3, <2>4, <2>5 DEF Step1
<1>2. CASE recv_chat_message_from_server
  <2>1. /\ cli = "recv" /\ ~Complete(cbuf) /\ ClientReads(Field(cbuf))
        /\ UNCHANGED <<me, up, upEnd, downEnd, lost, sides, cli, ccount, seat, heard, winner, said,
                       split, mode, forwarded, told, ended>>
    BY <1>2 DEF recv_chat_message_from_server
  <2>2. down \in Seq(Byte) /\ cbuf \in Seq(Byte) /\ Fits(cbuf)
    BY <2>1 DEF Inv1, TypeOK, ClientOrder
  <2>3. down' \in Seq(Byte) /\ cbuf' \in Seq(Byte) /\ Fits(cbuf')
    BY <2>1, <2>2, ClientReadsBytes
  <2>4. TypeOK'
    BY <2>1, <2>3 DEF Inv1, TypeOK, sides
  <2>5. MoreTypes'
    BY <2>1 DEF Inv1, MoreTypes, sides
  <2>6. ServerOrder'
    BY <2>1 DEF Inv1, ServerOrder, sides
  <2>7. ClientOrder'
    BY <2>1, <2>3 DEF Inv1, ClientOrder
  <2> QED  BY <2>4, <2>5, <2>6, <2>7 DEF Step1
<1>3. CASE ChatIsShown
  <2> DEFINE msg == deserialize_chat_message(cbuf, SERVER_CHAT_CODE)
  <2>1. /\ cli = "recv" /\ cli' = "play" /\ cbuf' = <<>>
        /\ heard' = heard \/ heard' = Append(heard, msg)
        /\ UNCHANGED <<me, stream, sides, ccount, seat, winner, said, split, mode, forwarded, told,
                       ended>>
    BY <1>3 DEF ChatIsShown
  <2>2. msg \in AnyChat(SERVER_CHAT_CODE)
    BY DEF Inv1, TypeOK, AnyChat
  <2> HIDE DEF msg
  <2>3. heard' \in Seq(AnyChat(SERVER_CHAT_CODE))
    <3> DEFINE A == AnyChat(SERVER_CHAT_CODE)
    <3>1. heard \in Seq(A) /\ msg \in A
      BY <2>2 DEF Inv1, MoreTypes
    <3> HIDE DEF A
    <3>2. heard' \in Seq(A)
      BY <2>1, <3>1
    <3> QED  BY <3>2 DEF A
  <2>4. TypeOK'
    BY <1>e, <2>1 DEF Inv1, TypeOK, stream, sides
  <2>5. MoreTypes'
    BY <2>1, <2>3 DEF Inv1, MoreTypes, stream, sides
  <2>6. ServerOrder'
    BY <2>1 DEF Inv1, ServerOrder, stream, sides
  <2>7. ClientOrder'
    BY <2>1 DEF Inv1, ClientOrder, stream
  <2> QED  BY <2>4, <2>5, <2>6, <2>7 DEF Step1
<1>4. CASE GameIsOver
  <2>1. /\ cli = "recv" /\ cli' = "over" /\ cbuf' = <<>>
        /\ UNCHANGED <<me, stream, sides, ccount, seat, heard, said, split, mode, forwarded, told,
                       ended>>
    BY <1>4 DEF GameIsOver
  <2>2. TypeOK'
    BY <1>e, <2>1 DEF Inv1, TypeOK, stream, sides
  <2>3. MoreTypes'
    BY <2>1 DEF Inv1, MoreTypes, stream, sides
  <2>4. ServerOrder'
    BY <2>1 DEF Inv1, ServerOrder, stream, sides
  <2>5. ClientOrder'
    BY <2>1 DEF Inv1, ClientOrder, stream
  <2> QED  BY <2>2, <2>3, <2>4, <2>5 DEF Step1
<1> QED  BY <1>1, <1>2, <1>3, <1>4 DEF ChatThread

LEMMA NextBasics == Inv1 /\ [Next]_vars => Inv1'
<1> SUFFICES ASSUME Inv1, [Next]_vars PROVE Step1
  BY DEF Step1, Inv1
<1>1. CASE Next
  BY <1>1, GatherBasics, StartBasics, EndBasics, SayBasics, ServerChatBasics, ClientGatherBasics,
     ClientChatBasics DEF Next, ServerNext, ClientNext
<1>2. CASE UNCHANGED vars
  <2>1. TypeOK'
    BY <1>2 DEF Inv1, TypeOK, vars, stream, sides, clientSide
  <2>2. MoreTypes'
    BY <1>2 DEF Inv1, MoreTypes, vars, stream, sides, clientSide
  <2>3. ServerOrder'
    BY <1>2 DEF Inv1, ServerOrder, vars, stream, sides, clientSide
  <2>4. ClientOrder'
    BY <1>2 DEF Inv1, ClientOrder, vars, stream, sides, clientSide
  <2> QED  BY <2>1, <2>2, <2>3, <2>4 DEF Step1
<1> QED  BY <1>1, <1>2

\* The bytes on their way and in the buffers are bytes, and the counters of the
\* loops that gather a header stay within it: src/src/communication_server.c.
THEOREM WireTypeCorrect == Spec => []TypeOK
<1>1. Init => Inv1
  BY InitBasics
<1>2. Inv1 /\ [Next]_vars => Inv1'
  BY NextBasics
<1>3. Inv1 => TypeOK
  BY DEF Inv1
<1> QED  BY <1>1, <1>2, <1>3, PTL DEF Spec

-----------------------------------------------------------------------------
(* The streams. *)

\* The messages sent to the server, and how many of them it has taken.
UpCount == IF seat = NULL THEN 1 ELSE 2 + Len(said)

UpMsg ==
  [i \in 1..UpCount |->
     IF i = 1 THEN serialize_initial_connection(me.mode)
     ELSE IF i = 2
     THEN serialize_ready_connection([game_mode |-> me.mode, id |-> seat.id, eq |-> seat.eq])
     ELSE serialize_chat_message(said[i - 2], CLIENT_CHAT_CODE)]

UpTaken ==
  IF srv = "initial" THEN 0 ELSE IF srv = "ready" THEN 1 ELSE 2 + Len(forwarded)

\* The messages sent to the client, and how many of them it has taken.
EndIsSent == ended /\ game_end # NULL

DownCount == IF mode = NULL THEN 0 ELSE 1 + Len(told) + (IF EndIsSent THEN 1 ELSE 0)

DownMsg ==
  [i \in 1..DownCount |->
     IF i = 1 THEN Information
     ELSE IF i <= 1 + Len(told) THEN serialize_chat_message(told[i - 1], SERVER_CHAT_CODE)
     ELSE game_end]

DownTaken == IF cli = "info" THEN 0 ELSE 1 + Len(heard)

\* What was gathered and what is on its way are the messages not yet taken, or
\* the server reads at the end of the file.
UpClean ==
  \E got \in Seq(Byte) :
    /\ srv \in {"initial", "ready"} => Len(got) = scount /\ (~split => got = sbuf)
    /\ srv \in {"chat", "select"} => got = sbuf /\ IsPrefix(forwarded, said)
    /\ Carries(got \o up, UpCount, UpMsg, UpTaken, cli # "left")

UpTainted ==
  /\ srv \in {"chat", "select"} /\ upEnd /\ up = <<>>
  /\ srv = "select" => IsPrefix(forwarded, said)

UpStream == srv \in {"initial", "ready", "chat", "select"} => UpClean \/ UpTainted

DownClean ==
  \E got \in Seq(Byte) :
    /\ cli = "info" => Len(got) = ccount /\ (~split => got = cbuf)
    /\ cli \in {"play", "recv"} => got = cbuf /\ IsPrefix(heard, told)
    /\ Carries(got \o down, DownCount, DownMsg, DownTaken, ~lost)

DownTainted ==
  /\ cli \in {"play", "recv"} /\ downEnd /\ down = <<>>
  /\ ~split => ~ended \/ lost \/ me.winner = -1
  /\ cli = "recv" => IsPrefix(heard, told)

DownStream == cli \in {"info", "play", "recv"} => DownClean \/ DownTainted

Inv2 == UpStream /\ DownStream /\ ChatsInOrder /\ SeatAgreed /\ WinnerIsTrue

LEMMA UpMessages ==
  ASSUME Inv1
  PROVE  /\ UpCount \in Nat /\ AreMessages(UpCount, UpMsg)
         /\ 1 <= UpCount /\ UpMsg[1] = serialize_initial_connection(me.mode) /\ Len(UpMsg[1]) = 2
         /\ seat # NULL => 2 <= UpCount /\ UpCount = 2 + Len(said) /\ Len(UpMsg[2]) = 2
         /\ seat # NULL => \A i \in 1..Len(said) :
              said[i] \in Chats /\ UpMsg[2 + i] = serialize_chat_message(said[i], CLIENT_CHAT_CODE)
<1>1. /\ me.mode \in Mode /\ said \in Seq(Chats) /\ Len(said) \in Nat
      /\ seat # NULL => seat.id \in 0..3 /\ seat.eq \in 0..1
  BY Me DEF Inv1, MoreTypes
<1> DEFINE first == serialize_initial_connection(me.mode)
           h == [game_mode |-> me.mode, id |-> seat.id, eq |-> seat.eq]
           second == serialize_ready_connection(h)
           line(i) == serialize_chat_message(said[i], CLIENT_CHAT_CODE)
<1>2. first \in Seq(Byte) /\ Len(first) = 2
  <2>1. \A id \in 0..3, eq \in 0..1 : first \in Seq(Byte) /\ Len(first) = 2
    BY <1>1, ShortMessages
  <2> QED  BY <2>1
<1>3. seat # NULL => second \in Seq(Byte) /\ Len(second) = 2
  <2> SUFFICES ASSUME seat # NULL PROVE second \in Seq(Byte) /\ Len(second) = 2
    OBVIOUS
  <2> DEFINE i == seat.id
             e == seat.eq
             m == me.mode
  <2>1. h = Seat(m, i, e)
    BY DEF Seat
  <2>2. m \in Mode /\ i \in 0..3 /\ e \in 0..1
    BY <1>1
  <2> HIDE DEF h, i, e, m
  <2> QED  BY <2>1, <2>2, ShortMessages
<1>4. ASSUME NEW i \in 1..Len(said)
      PROVE  said[i] \in Chats /\ line(i) \in Seq(Byte)
  <2>1. said[i] \in Chats
    BY <1>1
  <2> QED  BY <2>1, ChatBack
<1> HIDE DEF first, second, line
<1>5. UpCount \in Nat /\ 1 <= UpCount /\ (seat # NULL => UpCount = 2 + Len(said) /\ 2 <= UpCount)
  BY <1>1 DEF UpCount
<1>6. UpMsg[1] = first
  BY <1>5 DEF UpMsg, first
<1>7. seat # NULL => UpMsg[2] = second
  <2>1. seat # NULL => 2 \in 1..UpCount
    BY <1>5
  <2> QED  BY <2>1 DEF UpMsg, second, h
<1>8. ASSUME seat # NULL, NEW i \in 1..Len(said)
      PROVE  UpMsg[2 + i] = line(i)
  <2>1. i \in Int /\ 2 + i \in 1..UpCount /\ 2 + i # 1 /\ 2 + i # 2 /\ (2 + i) - 2 = i
    BY <1>1, <1>5, <1>8
  <2>2. UpMsg[2 + i] = serialize_chat_message(said[(2 + i) - 2], CLIENT_CHAT_CODE)
    BY <2>1 DEF UpMsg
  <2> QED  BY <2>1, <2>2 DEF line
<1>9. ASSUME NEW i \in 1..UpCount PROVE UpMsg[i] \in Seq(Byte)
  <2>1. CASE i = 1
    BY <1>2, <1>6, <2>1
  <2>2. CASE i # 1
    <3>1. seat # NULL /\ i \in 2..2 + Len(said)
      BY <1>1, <1>5, <2>2 DEF UpCount
    <3>2. CASE i = 2
      BY <1>3, <1>7, <3>1, <3>2
    <3>3. CASE i # 2
      <4>1. i - 2 \in 1..Len(said) /\ 2 + (i - 2) = i
        BY <1>1, <3>1, <3>3
      <4>2. UpMsg[2 + (i - 2)] = line(i - 2) /\ line(i - 2) \in Seq(Byte)
        BY <1>4, <1>8, <3>1, <4>1
      <4> QED  BY <4>1, <4>2
    <3> QED  BY <3>2, <3>3
  <2> QED  BY <2>1, <2>2
<1>10. AreMessages(UpCount, UpMsg)
  BY <1>9 DEF AreMessages
<1>11. seat # NULL => \A i \in 1..Len(said) : said[i] \in Chats /\ UpMsg[2 + i] = line(i)
  BY <1>4, <1>8
<1> QED  BY <1>2, <1>3, <1>5, <1>6, <1>7, <1>10, <1>11 DEF first, second, line

LEMMA DownMessages ==
  ASSUME Inv1
  PROVE  /\ DownCount \in Nat /\ AreMessages(DownCount, DownMsg)
         /\ 1 <= DownCount => mode # NULL /\ DownMsg[1] = Information
         /\ mode # NULL =>
              /\ DownCount = 1 + Len(told) + (IF EndIsSent THEN 1 ELSE 0)
              /\ \A i \in 1..Len(told) :
                   /\ told[i] \in Chats
                   /\ DownMsg[1 + i] = serialize_chat_message(told[i], SERVER_CHAT_CODE)
              /\ EndIsSent => DownMsg[2 + Len(told)] = game_end
<1>1. me \in Seats /\ told \in Seq(Chats) /\ Len(told) \in Nat /\ (mode # NULL => mode \in Mode)
  BY DEF Inv1, MoreTypes, TypeOK
<1> DEFINE line(i) == serialize_chat_message(told[i], SERVER_CHAT_CODE)
           e == IF EndIsSent THEN 1 ELSE 0
<1>2. e \in 0..1 /\ (EndIsSent => e = 1)
  OBVIOUS
<1>3. Information \in Seq(Byte)
  BY <1>1, InformationBytes
<1>4. mode # NULL /\ EndIsSent => game_end \in Seq(Byte)
  BY <1>1, GameEndBytes DEF EndIsSent
<1>5. ASSUME NEW i \in 1..Len(told)
      PROVE  told[i] \in Chats /\ line(i) \in Seq(Byte)
  <2>1. told[i] \in Chats
    BY <1>1
  <2> QED  BY <2>1, ChatBack
<1> HIDE DEF line, e
<1>6. /\ DownCount \in Nat
      /\ IF mode = NULL THEN DownCount = 0 ELSE DownCount = 1 + Len(told) + e /\ 1 <= DownCount
  BY <1>1, <1>2 DEF DownCount, e
<1>7. 1 <= DownCount => mode # NULL /\ DownMsg[1] = Information
  <2> SUFFICES ASSUME 1 <= DownCount PROVE mode # NULL /\ DownMsg[1] = Information
    OBVIOUS
  <2>1. mode # NULL /\ 1 \in 1..DownCount
    BY <1>6
  <2> QED  BY <2>1 DEF DownMsg
<1>8. ASSUME mode # NULL, NEW i \in 1..Len(told)
      PROVE  DownMsg[1 + i] = line(i)
  <2>1. i \in Int /\ 1 + i \in 1..DownCount /\ 1 + i # 1 /\ 1 + i <= 1 + Len(told) /\ (1 + i) - 1 = i
    BY <1>1, <1>2, <1>6, <1>8
  <2>2. DownMsg[1 + i] = serialize_chat_message(told[(1 + i) - 1], SERVER_CHAT_CODE)
    BY <2>1 DEF DownMsg
  <2> QED  BY <2>1, <2>2 DEF line
<1>9. mode # NULL /\ EndIsSent => DownMsg[2 + Len(told)] = game_end
  <2> SUFFICES ASSUME mode # NULL, EndIsSent PROVE DownMsg[2 + Len(told)] = game_end
    OBVIOUS
  <2>1. e = 1 /\ DownCount = 1 + Len(told) + e
    BY <1>2, <1>6
  <2>2. 2 + Len(told) \in 1..DownCount /\ 2 + Len(told) # 1 /\ ~(2 + Len(told) <= 1 + Len(told))
    BY <1>1, <2>1
  <2> QED  BY <2>2 DEF DownMsg
<1>10. ASSUME NEW i \in 1..DownCount PROVE DownMsg[i] \in Seq(Byte)
  <2>0. mode # NULL /\ DownCount = 1 + Len(told) + e /\ i \in Int
    BY <1>6
  <2>1. CASE i = 1
    BY <1>3, <1>7, <2>0, <2>1
  <2>2. CASE i # 1 /\ i <= 1 + Len(told)
    <3>1. i - 1 \in 1..Len(told) /\ 1 + (i - 1) = i
      BY <1>1, <2>2
    <3>2. DownMsg[1 + (i - 1)] = line(i - 1) /\ line(i - 1) \in Seq(Byte)
      BY <1>5, <1>8, <2>0, <3>1
    <3> QED  BY <3>1, <3>2
  <2>3. CASE ~(i <= 1 + Len(told))
    <3>1. i = 2 + Len(told) /\ e = 1
      BY <1>1, <1>2, <2>0, <2>3
    <3>2. EndIsSent
      BY <3>1 DEF e
    <3> QED  BY <1>4, <1>9, <2>0, <3>1, <3>2
  <2> QED  BY <2>1, <2>2, <2>3
<1>11. AreMessages(DownCount, DownMsg)
  BY <1>10 DEF AreMessages
<1> QED  BY <1>5, <1>6, <1>7, <1>8, <1>9, <1>11 DEF line, e

LEMMA NothingMore ==
  ASSUME NEW bytes \in Seq(Byte)
  PROVE  <<>> \o bytes = bytes /\ bytes \o <<>> = bytes /\ <<>> \in Seq(Byte)
<1>1. <<>> \in Seq(Byte)
  OBVIOUS
<1>2. <<>> \o bytes = bytes /\ bytes \o <<>> = bytes
  BY ConcatEmptySeq
<1> QED  BY <1>1, <1>2

\* What is gathered starts the first message due.
LEMMA FirstDue ==
  ASSUME NEW got \in Seq(Byte), NEW rest \in Seq(Byte), NEW n \in Nat, NEW M, AreMessages(n, M),
         NEW from \in Nat, NEW whole, Carries(got \o rest, n, M, from, whole)
  PROVE  /\ from <= n /\ (Len(got) > 0 => from < n)
         /\ from < n => \A j \in 1..Len(got) : j <= Len(M[from + 1]) => got[j] = M[from + 1][j]
         /\ from = n - 1 => Len(got) <= Len(M[from + 1])
         /\ from < n /\ whole /\ Len(rest) = 0 => Len(M[from + 1]) <= Len(got)
<1> DEFINE bytes == got \o rest
           g == Len(got)
           r == Len(rest)
           k == Len(M[from + 1])
<1>1. /\ bytes \in Seq(Byte) /\ Len(bytes) = g + r /\ g \in Nat /\ r \in Nat
      /\ \A j \in 1..g : bytes[j] = got[j]
  BY PartsOfConcat
<1> HIDE DEF bytes
<1>2. Carries(bytes, n, M, from, whole)
  BY DEF bytes
<1>3. /\ from <= n
      /\ from = n => Len(bytes) = 0
      /\ from = n - 1 => Len(bytes) <= k
      /\ from < n /\ whole => k <= Len(bytes)
      /\ from < n => \A j \in 1..k : j <= Len(bytes) => bytes[j] = M[from + 1][j]
  BY <1>1, <1>2, CarriesFirst
<1> HIDE DEF g, r
<1>4. from < n => k \in Nat
  <2> SUFFICES ASSUME from < n PROVE k \in Nat
    OBVIOUS
  <2>1. from + 1 \in 1..n
    OBVIOUS
  <2>2. M[from + 1] \in Seq(Byte)
    BY <2>1 DEF AreMessages
  <2> QED  BY <2>2
<1> HIDE DEF k
<1>5. g > 0 => from < n
  BY <1>1, <1>3
<1>6. ASSUME from < n, NEW j \in 1..g, j <= k
      PROVE  got[j] = M[from + 1][j]
  <2>1. j \in 1..k /\ j <= Len(bytes)
    BY <1>1, <1>4, <1>6
  <2> QED  BY <1>1, <1>3, <1>6, <2>1
<1>7. from = n - 1 => g <= k
  <2> SUFFICES ASSUME from = n - 1 PROVE g <= k
    OBVIOUS
  <2>1. from < n
    OBVIOUS
  <2> QED  BY <1>1, <1>3, <1>4, <2>1
<1>8. from < n /\ whole /\ r = 0 => k <= g
  BY <1>1, <1>3, <1>4
<1> QED  BY <1>3, <1>5, <1>6, <1>7, <1>8 DEF g, r, k

LEMMA AfterGot ==
  ASSUME NEW got \in Seq(Byte), NEW rest \in Seq(Byte)
  PROVE  /\ got \o rest \in Seq(Byte) /\ Len(got) <= Len(got \o rest)
         /\ After(got \o rest, Len(got)) = rest
<1> DEFINE bytes == got \o rest
           g == Len(got)
           r == Len(rest)
<1>1. g = Len(got) /\ r = Len(rest) /\ g \in Nat /\ r \in Nat
  OBVIOUS
<1> HIDE DEF g, r
<1>2. /\ bytes \in Seq(Byte) /\ Len(bytes) = g + r
      /\ \A j \in 1..r : bytes[g + j] = rest[j]
  BY <1>1, PartsOfConcat
<1> HIDE DEF bytes
<1>3. g \in 0..Len(bytes) /\ Len(bytes) - g = r
  BY <1>1, <1>2
<1> DEFINE after == After(bytes, g)
<1>4. /\ after \in Seq(Byte) /\ Len(after) = Len(bytes) - g
      /\ \A j \in 1..Len(bytes) - g : after[j] = bytes[g + j]
  BY <1>2, <1>3, AfterBytes
<1> HIDE DEF after
<1>5. after = rest
  <2>1. Len(after) = Len(rest) /\ \A j \in 1..Len(rest) : after[j] = rest[j]
    BY <1>1, <1>2, <1>3, <1>4
  <2> QED  BY <1>4, <2>1, SeqEqual
<1> QED  BY <1>1, <1>2, <1>3, <1>5 DEF after, bytes

\* A message that has been gathered is taken.
LEMMA MessageTaken ==
  ASSUME NEW got \in Seq(Byte), NEW rest \in Seq(Byte), NEW n \in Nat, NEW M, AreMessages(n, M),
         NEW from \in Nat, NEW whole, Carries(got \o rest, n, M, from, whole),
         from < n, Len(got) = Len(M[from + 1])
  PROVE  got = M[from + 1] /\ Carries(rest, n, M, from + 1, whole)
<1> DEFINE m == M[from + 1]
           bytes == got \o rest
<1>1. m \in Seq(Byte)
  <2>1. from + 1 \in 1..n
    OBVIOUS
  <2> QED  BY <2>1 DEF AreMessages
<1>2. \A j \in 1..Len(got) : j <= Len(m) => got[j] = m[j]
  BY FirstDue
<1>3. got = m
  <2>1. Len(got) = Len(m)
    OBVIOUS
  <2> HIDE DEF m
  <2>2. Len(m) \in Nat
    BY <1>1
  <2>3. \A j \in 1..Len(got) : j <= Len(m)
    BY <2>1, <2>2
  <2>4. \A j \in 1..Len(got) : got[j] = m[j]
    BY <1>2, <2>3
  <2> QED  BY <1>1, <2>1, <2>4, SeqEqual
<1>4. bytes \in Seq(Byte) /\ Len(got) <= Len(bytes) /\ After(bytes, Len(got)) = rest
  BY AfterGot
<1> HIDE DEF bytes
<1>5. Carries(bytes, n, M, from, whole) /\ Len(M[from + 1]) <= Len(bytes)
  BY <1>4 DEF bytes
<1>6. Carries(After(bytes, Len(M[from + 1])), n, M, from + 1, whole)
  BY <1>4, <1>5, CarriesLess
<1> QED  BY <1>3, <1>4, <1>6

\* A buffer that holds a complete chat message, when a chat message is due,
\* holds that one.
LEMMA ChatLength ==
  ASSUME NEW got \in Seq(Byte), NEW m \in Seq(Byte), m[3] \in Nat, Len(m) = 3 + m[3],
         \A j \in 1..Len(got) : j <= Len(m) => got[j] = m[j]
  PROVE  /\ Complete(got) => Len(got) = Len(m)
         /\ Fits(got) /\ Len(m) <= Len(got) => Complete(got)
         /\ 1 <= Len(got) => got[1] = m[1]
         /\ 2 <= Len(got) => got[2] = m[2]
<1> DEFINE g == Len(got)
           k == Len(m)
           b == m[3]
<1>1. g \in Nat /\ k \in Nat /\ b \in Nat /\ k = 3 + b
  OBVIOUS
<1> HIDE DEF g, k, b
<1>2. 3 <= g => got[3] = b
  <2>1. 3 <= g => 3 \in 1..g /\ 3 <= k
    BY <1>1
  <2> QED  BY <2>1 DEF g, k, b
<1>3. Complete(got) => g = k
  <2>1. Complete(got) => g > 2 /\ g = 3 + got[3]
    BY DEF Complete, g
  <2> QED  BY <1>1, <1>2, <2>1
<1>4. Fits(got) /\ k <= g => Complete(got)
  <2>1. Fits(got) => g <= 2 \/ g <= 3 + got[3]
    BY DEF Fits, g
  <2>2. g > 2 /\ g = 3 + got[3] => Complete(got)
    BY DEF Complete, g
  <2> QED  BY <1>1, <1>2, <2>1, <2>2
<1>5. (1 <= g => 1 \in 1..g /\ 1 <= k) /\ (2 <= g => 2 \in 1..g /\ 2 <= k)
  BY <1>1
<1> QED  BY <1>3, <1>4, <1>5 DEF g, k

-----------------------------------------------------------------------------
(* What a step leaves alone. *)

LEMMA UpSame ==
  ASSUME UNCHANGED <<me, seat, said>>
  PROVE  UpCount' = UpCount /\ UpMsg' = UpMsg
<1>1. UpCount' = UpCount
  BY DEF UpCount
<1>2. UpMsg' = UpMsg
  BY <1>1 DEF UpMsg
<1> QED  BY <1>1, <1>2

LEMMA DownSame ==
  ASSUME UNCHANGED <<me, mode, told, ended>>
  PROVE  DownCount' = DownCount /\ DownMsg' = DownMsg
<1>1. game_end' = game_end /\ EndIsSent' = EndIsSent
  BY DEF game_end, EndIsSent
<1>2. DownCount' = DownCount
  BY <1>1 DEF DownCount
<1>3. DownMsg' = DownMsg
  BY <1>1, <1>2 DEF DownMsg, Information
<1> QED  BY <1>2, <1>3

LEMMA UpKept ==
  ASSUME Inv1, UpStream, UNCHANGED <<me, srv, sbuf, scount, forwarded, said, seat, up>>,
         split => split', upEnd => upEnd', cli' # "left" <=> cli # "left"
  PROVE  UpStream'
<1>1. UpCount' = UpCount /\ UpMsg' = UpMsg /\ UpTaken' = UpTaken
  BY UpSame DEF UpTaken
<1>2. (cli # "left")' = (cli # "left")
  OBVIOUS
<1>3. SUFFICES ASSUME srv \in {"initial", "ready", "chat", "select"}, UpClean \/ UpTainted
               PROVE  UpClean' \/ UpTainted'
  BY DEF UpStream
<1>4. CASE UpClean
  <2>1. PICK got \in Seq(Byte) :
          /\ srv \in {"initial", "ready"} => Len(got) = scount /\ (~split => got = sbuf)
          /\ srv \in {"chat", "select"} => got = sbuf /\ IsPrefix(forwarded, said)
          /\ Carries(got \o up, UpCount, UpMsg, UpTaken, cli # "left")
    BY <1>4 DEF UpClean
  <2>2. Carries(got \o up', UpCount', UpMsg', UpTaken', (cli # "left")')
    BY <1>1, <1>2, <2>1
  <2>3. ~split' => ~split
    OBVIOUS
  <2> QED  BY <2>1, <2>2, <2>3 DEF UpClean
<1>5. CASE UpTainted
  BY <1>5 DEF UpTainted
<1> QED  BY <1>3, <1>4, <1>5

LEMMA DownKept ==
  ASSUME Inv1, DownStream,
         UNCHANGED <<me, cli, cbuf, ccount, heard, told, ended, mode, down, lost>>,
         split => split', downEnd => downEnd'
  PROVE  DownStream'
<1>1. DownCount' = DownCount /\ DownMsg' = DownMsg /\ DownTaken' = DownTaken
  BY DownSame DEF DownTaken
<1>2. (~lost)' = (~lost)
  OBVIOUS
<1>3. SUFFICES ASSUME cli \in {"info", "play", "recv"}, DownClean \/ DownTainted
               PROVE  DownClean' \/ DownTainted'
  BY DEF DownStream
<1>4. CASE DownClean
  <2>1. PICK got \in Seq(Byte) :
          /\ cli = "info" => Len(got) = ccount /\ (~split => got = cbuf)
          /\ cli \in {"play", "recv"} => got = cbuf /\ IsPrefix(heard, told)
          /\ Carries(got \o down, DownCount, DownMsg, DownTaken, ~lost)
    BY <1>4 DEF DownClean
  <2>2. Carries(got \o down', DownCount', DownMsg', DownTaken', (~lost)')
    BY <1>1, <1>2, <2>1
  <2>3. ~split' => ~split
    OBVIOUS
  <2> QED  BY <2>1, <2>2, <2>3 DEF DownClean
<1>5. CASE DownTainted
  BY <1>5 DEF DownTainted
<1> QED  BY <1>3, <1>4, <1>5

LEMMA ChatsKept ==
  ASSUME ChatsInOrder, UNCHANGED <<said, forwarded, told, heard>>, upEnd => upEnd',
         downEnd => downEnd'
  PROVE  ChatsInOrder'
BY DEF ChatsInOrder, FaithfulUntil

LEMMA SeatKept ==
  ASSUME SeatAgreed, UNCHANGED <<me, mode, seat>>, split => split'
  PROVE  SeatAgreed'
BY DEF SeatAgreed

LEMMA WinnerKept ==
  ASSUME WinnerIsTrue, UNCHANGED <<me, winner>>, split => split',
         downEnd => downEnd' /\ ended' = ended, lost => lost'
  PROVE  WinnerIsTrue'
BY DEF WinnerIsTrue

-----------------------------------------------------------------------------
(* The steps on the way to the server. *)

UpStart == {"initial", "ready"}

LEMMA UpStarts ==
  ASSUME UpStream, srv \in UpStart
  PROVE  \E got \in Seq(Byte) :
           /\ Len(got) = scount /\ (~split => got = sbuf)
           /\ Carries(got \o up, UpCount, UpMsg, UpTaken, cli # "left")
BY DEF UpStream, UpClean, UpTainted, UpStart

LEMMA UpChats ==
  ASSUME UpStream, srv \in {"chat", "select"}
  PROVE  \/ /\ IsPrefix(forwarded, said)
            /\ Carries(sbuf \o up, UpCount, UpMsg, UpTaken, cli # "left")
         \/ UpTainted
BY DEF UpStream, UpClean

LEMMA UpGathers ==
  ASSUME Inv1, UpStream, NEW at \in UpStart, recv_connexion_header_raw(at)
  PROVE  UpStream'
<1>1. /\ srv = at /\ scount < 2 /\ ServerGathers(2)
      /\ UNCHANGED <<me, down, upEnd, downEnd, lost, srv, clientSide, mode, forwarded, told, ended>>
  BY DEF recv_connexion_header_raw
<1>2. up \in Seq(Byte) /\ sbuf \in Seq(Byte) /\ scount \in 0..1
  BY <1>1 DEF Inv1, TypeOK
<1>3. PICK got \in Seq(Byte) :
        /\ Len(got) = scount /\ (~split => got = sbuf)
        /\ Carries(got \o up, UpCount, UpMsg, UpTaken, cli # "left")
  BY <1>1, UpStarts
<1>4. PICK part \in Received(up, 2 - scount) :
        /\ part \in Seq(Byte) /\ up' = After(up, Len(part)) /\ up' \in Seq(Byte)
        /\ sbuf' \in Seq(Byte) /\ scount' = scount + Len(part)
        /\ scount' \in 1..2 /\ (split => split') /\ (~split' => scount' = 2)
        /\ split' \in BOOLEAN
        /\ scount' = 2 /\ scount = 0 => sbuf' = part
        /\ IF scount = 0 THEN Len(sbuf') = 2 ELSE sbuf' = sbuf
  BY <1>1, <1>2, ServerGathersBytes
<1> DEFINE new == got \o part
           n == 2 - scount
<1>5. n \in Nat /\ part \in Received(up, n)
  BY <1>2, <1>4
<1> HIDE DEF n
<1>6. /\ new \in Seq(Byte) /\ Len(new) = Len(got) + Len(part)
      /\ new \o After(up, Len(part)) = got \o up
  BY <1>2, <1>5, Gathered
<1>7. ~split' => new = sbuf'
  <2> SUFFICES ASSUME ~split' PROVE new = sbuf'
    OBVIOUS
  <2>1. ~split /\ scount' = 2
    BY <1>4
  <2>2. scount = 0
    BY <1>1, <1>2, <2>1 DEF Inv1, ServerOrder, UpStart
  <2>3. got = <<>>
    BY <1>3, <2>2
  <2>4. new = part
    BY <1>4, <2>3, NothingMore
  <2> QED  BY <1>4, <2>1, <2>2, <2>4
<1> HIDE DEF new
<1>8. UpCount' = UpCount /\ UpMsg' = UpMsg /\ UpTaken' = UpTaken
  BY <1>1, UpSame DEF clientSide, UpTaken
<1>9. Len(new) = scount' /\ new \o up' = got \o up
  BY <1>3, <1>4, <1>6
<1>10. Carries(new \o up', UpCount', UpMsg', UpTaken', (cli # "left")')
  BY <1>1, <1>3, <1>8, <1>9 DEF clientSide
<1>11. srv' \in UpStart
  BY <1>1
<1>12. UpClean'
  BY <1>6, <1>7, <1>9, <1>10, <1>11 DEF UpClean, UpStart
<1> QED  BY <1>12 DEF UpStream

\* The server has the whole header.
LEMMA HeaderTaken ==
  ASSUME Inv1, UpStream, srv \in UpStart, scount = 2
  PROVE  /\ UpTaken + 1 <= UpCount
         /\ ~split => sbuf = UpMsg[UpTaken + 1]
         /\ Carries(up, UpCount, UpMsg, UpTaken + 1, cli # "left")
         /\ UpTaken = 0 \/ (UpTaken = 1 /\ seat # NULL)
<1>1. PICK got \in Seq(Byte) :
        /\ Len(got) = scount /\ (~split => got = sbuf)
        /\ Carries(got \o up, UpCount, UpMsg, UpTaken, cli # "left")
  BY UpStarts
<1>2. up \in Seq(Byte)
  BY DEF Inv1, TypeOK
<1>3. /\ UpCount \in Nat /\ AreMessages(UpCount, UpMsg)
      /\ Len(UpMsg[1]) = 2 /\ (seat # NULL => Len(UpMsg[2]) = 2)
  BY UpMessages
<1>4. UpTaken \in {0, 1}
  BY DEF UpTaken, UpStart
<1> DEFINE whole == cli # "left"
           n == UpCount
           M == UpMsg
           from == UpTaken
<1>5. /\ n \in Nat /\ AreMessages(n, M) /\ from \in Nat /\ Len(got) = 2
      /\ Carries(got \o up, n, M, from, whole)
  BY <1>1, <1>3, <1>4
<1>6. from = 1 /\ seat = NULL => n = 1
  BY DEF UpCount
<1> HIDE DEF whole, n, M, from
<1>7. from < n
  <2>1. Len(got) > 0
    BY <1>5
  <2>2. Len(got) > 0 => from < n
    BY <1>2, <1>5, FirstDue
  <2> QED  BY <2>1, <2>2
<1>8. from = 0 \/ (from = 1 /\ seat # NULL)
  BY <1>4, <1>6, <1>7 DEF from
<1>9. Len(M[from + 1]) = Len(got)
  <2>1. from = 0 => M[from + 1] = M[1]
    OBVIOUS
  <2>2. from = 1 => M[from + 1] = M[2]
    OBVIOUS
  <2> QED  BY <1>3, <1>5, <1>8, <2>1, <2>2 DEF M
<1>10. got = M[from + 1] /\ Carries(up, n, M, from + 1, whole)
  BY <1>2, <1>5, <1>7, <1>9, MessageTaken
<1>11. from + 1 <= n
  BY <1>5, <1>7
<1> QED  BY <1>1, <1>8, <1>10, <1>11 DEF whole, n, M, from

LEMMA ThreeParts ==
  ASSUME NEW a \in Seq(Byte), NEW b \in Seq(Byte), NEW c \in Seq(Byte)
  PROVE  a \o (b \o c) = (a \o b) \o c
BY ConcatAssociative

\* A message is added to those on their way to the server.
LEMMA UpMore ==
  ASSUME Inv1, UpStream, cli # "left", UNCHANGED <<srv, sbuf, scount, forwarded, split>>,
         cli' # "left", NEW b \in Seq(Byte), up' = up \o b,
         UpCount' = UpCount + 1, \A i \in 1..UpCount : UpMsg'[i] = UpMsg[i],
         UpMsg'[UpCount + 1] = b, IsPrefix(forwarded, said) => IsPrefix(forwarded, said')
  PROVE  UpStream'
<1>1. SUFFICES ASSUME srv \in {"initial", "ready", "chat", "select"} PROVE UpClean'
  BY DEF UpStream
<1>2. ~UpTainted
  BY DEF UpTainted, Inv1, ClientOrder
<1>3. PICK got \in Seq(Byte) :
        /\ srv \in {"initial", "ready"} => Len(got) = scount /\ (~split => got = sbuf)
        /\ srv \in {"chat", "select"} => got = sbuf /\ IsPrefix(forwarded, said)
        /\ Carries(got \o up, UpCount, UpMsg, UpTaken, cli # "left")
  BY <1>1, <1>2 DEF UpStream, UpClean
<1>4. UpTaken' = UpTaken
  BY DEF UpTaken
<1>5. up \in Seq(Byte) /\ UpCount \in Nat /\ AreMessages(UpCount, UpMsg)
  BY UpMessages DEF Inv1, TypeOK
<1>6. (cli # "left") = TRUE /\ (cli # "left")' = TRUE
  OBVIOUS
<1> DEFINE bytes == got \o up
           n == UpCount
           M == UpMsg
           N == UpMsg'
           from == UpTaken
<1>7. bytes \in Seq(Byte)
  BY <1>5
<1>8. /\ n \in Nat /\ AreMessages(n, M) /\ Carries(bytes, n, M, from, TRUE)
      /\ (\A i \in 1..n : N[i] = M[i]) /\ N[n + 1] \in Seq(Byte) /\ N[n + 1] = b
  BY <1>3, <1>5, <1>6
<1>9. got \o (up \o b) = bytes \o b
  BY <1>5, ThreeParts
<1> HIDE DEF bytes, n, M, N, from
<1>10. Carries(bytes \o b, n + 1, N, from, TRUE)
  BY <1>7, <1>8, CarriesMore
<1>11. Carries(got \o up', UpCount', UpMsg', UpTaken', (cli # "left")')
  BY <1>4, <1>6, <1>9, <1>10 DEF n, N, from
<1> QED  BY <1>3, <1>11 DEF UpClean

LEMMA PrefixConcat ==
  ASSUME NEW got \in Seq(Byte), NEW bytes \in Seq(Byte), NEW cut \in Seq(Byte),
         Len(cut) <= Len(bytes), \A i \in 1..Len(cut) : cut[i] = bytes[i]
  PROVE  /\ got \o cut \in Seq(Byte) /\ got \o bytes \in Seq(Byte)
         /\ Len(got \o cut) <= Len(got \o bytes)
         /\ \A i \in 1..Len(got \o cut) : (got \o cut)[i] = (got \o bytes)[i]
<1> DEFINE g == Len(got)
           k == Len(cut)
           l == Len(bytes)
           p == got \o cut
           q == got \o bytes
<1>1. /\ g = Len(got) /\ k = Len(cut) /\ l = Len(bytes) /\ g \in Nat /\ k \in Nat /\ l \in Nat
      /\ k <= l
  OBVIOUS
<1> HIDE DEF g, k, l
<1>2. /\ p \in Seq(Byte) /\ Len(p) = g + k
      /\ (\A i \in 1..g : p[i] = got[i]) /\ (\A i \in 1..k : p[g + i] = cut[i])
  BY <1>1, PartsOfConcat
<1>3. /\ q \in Seq(Byte) /\ Len(q) = g + l
      /\ (\A i \in 1..g : q[i] = got[i]) /\ (\A i \in 1..l : q[g + i] = bytes[i])
  BY <1>1, PartsOfConcat
<1> HIDE DEF p, q
<1>4. ASSUME NEW i \in 1..Len(p) PROVE p[i] = q[i]
  <2>1. CASE i <= g
    <3>1. i \in 1..g
      BY <1>1, <2>1
    <3> QED  BY <1>2, <1>3, <3>1
  <2>2. CASE ~(i <= g)
    <3>1. i - g \in 1..k /\ i - g \in 1..l /\ g + (i - g) = i
      BY <1>1, <1>2, <2>2
    <3>2. p[g + (i - g)] = cut[i - g] /\ q[g + (i - g)] = bytes[i - g]
      BY <1>2, <1>3, <3>1
    <3>3. cut[i - g] = bytes[i - g]
      BY <1>1, <3>1
    <3> QED  BY <3>1, <3>2, <3>3
  <2> QED  BY <2>1, <2>2
<1>5. Len(p) <= Len(q)
  BY <1>1, <1>2, <1>3
<1> QED  BY <1>2, <1>3, <1>4, <1>5 DEF p, q

\* The client leaves, and some of what it sent is lost.
LEMMA UpCut ==
  ASSUME Inv1, UpStream, cli # "left", UNCHANGED <<me, srv, sbuf, scount, forwarded, said, seat>>,
         split => split', cli' = "left", up' \in Seq(Byte), Len(up') <= Len(up),
         \A i \in 1..Len(up') : up'[i] = up[i]
  PROVE  UpStream'
<1>1. SUFFICES ASSUME srv \in {"initial", "ready", "chat", "select"} PROVE UpClean'
  BY DEF UpStream
<1>2. ~UpTainted
  BY DEF UpTainted, Inv1, ClientOrder
<1>3. PICK got \in Seq(Byte) :
        /\ srv \in {"initial", "ready"} => Len(got) = scount /\ (~split => got = sbuf)
        /\ srv \in {"chat", "select"} => got = sbuf /\ IsPrefix(forwarded, said)
        /\ Carries(got \o up, UpCount, UpMsg, UpTaken, cli # "left")
  BY <1>1, <1>2 DEF UpStream, UpClean
<1>4. UpCount' = UpCount /\ UpMsg' = UpMsg /\ UpTaken' = UpTaken
  BY UpSame DEF UpTaken
<1>5. up \in Seq(Byte) /\ UpCount \in Nat
  BY UpMessages DEF Inv1, TypeOK
<1>6. (cli # "left")' = FALSE
  OBVIOUS
<1> DEFINE bytes == got \o up
           cut == up'
           bcut == got \o cut
           n == UpCount
           M == UpMsg
           from == UpTaken
           whole == cli # "left"
<1>7. /\ cut \in Seq(Byte) /\ Len(cut) <= Len(up) /\ \A i \in 1..Len(cut) : cut[i] = up[i]
  OBVIOUS
<1> HIDE DEF cut
<1>8. /\ bytes \in Seq(Byte) /\ bcut \in Seq(Byte) /\ Len(bcut) <= Len(bytes)
      /\ \A i \in 1..Len(bcut) : bcut[i] = bytes[i]
  BY <1>5, <1>7, PrefixConcat
<1>9. n \in Nat /\ Carries(bytes, n, M, from, whole)
  BY <1>3, <1>5
<1> HIDE DEF bytes, bcut, n, M, from, whole
<1>10. Carries(bcut, n, M, from, FALSE)
  BY <1>8, <1>9, CarriesPrefix
<1>11. Carries(got \o up', UpCount', UpMsg', UpTaken', (cli # "left")')
  BY <1>4, <1>6, <1>10 DEF n, M, from, bcut, cut
<1>12. ~split' => ~split
  OBVIOUS
<1> QED  BY <1>3, <1>11, <1>12 DEF UpClean

LEMMA UpStartKept ==
  ASSUME Inv1, UpStream, send_connexion_information \/ ServerIsReady
  PROVE  UpStream'
<1>1. /\ srv \in UpStart /\ scount = 2 /\ sbuf' = <<>> /\ scount' = 0
      /\ UNCHANGED <<me, up, upEnd, clientSide, split, forwarded>>
      /\ \/ srv = "initial" /\ srv' \in {"crashed", "ready"}
         \/ srv = "ready" /\ srv' = "chat"
  BY DEF send_connexion_information, ServerIsReady, stream, UpStart
<1>2. Carries(up, UpCount, UpMsg, UpTaken + 1, cli # "left")
  BY <1>1, HeaderTaken
<1>3. srv' # "crashed" => UpTaken' = UpTaken + 1
  <2>1. CASE srv = "initial"
    BY <1>1, <2>1 DEF UpTaken
  <2>2. CASE srv = "ready"
    <3>1. forwarded = <<>>
      BY <2>2 DEF Inv1, ServerOrder
    <3> QED  BY <1>1, <2>2, <3>1 DEF UpTaken
  <2> QED  BY <1>1, <2>1, <2>2
<1>4. UpCount' = UpCount /\ UpMsg' = UpMsg /\ (cli # "left")' = (cli # "left") /\ up' = up
  BY <1>1, UpSame DEF clientSide
<1>5. <<>> \in Seq(Byte) /\ <<>> \o up = up
  BY NothingMore DEF Inv1, TypeOK
<1>6. srv' = "chat" => IsPrefix(forwarded', said')
  <2> SUFFICES ASSUME srv' = "chat" PROVE IsPrefix(forwarded, said)
    BY <1>1 DEF clientSide
  <2>1. forwarded = <<>> /\ said \in Seq(Chats)
    BY <1>1 DEF Inv1, ServerOrder, MoreTypes
  <2>2. forwarded \in Seq(Chats) /\ Len(forwarded) = 0
    BY <2>1
  <2>3. Len(forwarded) <= Len(said) /\ \A i \in 1..Len(forwarded) : forwarded[i] = said[i]
    BY <2>1, <2>2
  <2> QED  BY <2>1, <2>2, <2>3, PrefixElements
<1>7. srv' # "crashed" => UpClean'
  <2> SUFFICES ASSUME srv' # "crashed" PROVE UpClean'
    OBVIOUS
  <2> DEFINE none == <<>>
  <2>1. none \in Seq(Byte) /\ Len(none) = 0 /\ none = sbuf' /\ scount' = 0
    BY <1>1
  <2>2. Carries(none \o up', UpCount', UpMsg', UpTaken', (cli # "left")')
    BY <1>2, <1>3, <1>4, <1>5
  <2> HIDE DEF none
  <2>3. srv' \in {"ready", "chat"}
    BY <1>1
  <2> QED  BY <1>6, <2>1, <2>2, <2>3 DEF UpClean
<1> QED  BY <1>1, <1>7 DEF UpStream

LEMMA UpReadySent ==
  ASSUME Inv1, UpStream, send_ready_connexion_information
  PROVE  UpStream'
<1> DEFINE info == deserialize_connection_information(cbuf)
           b == serialize_ready_connection([game_mode |-> me.mode, id |-> info.id, eq |-> info.eq])
<1>1. /\ cli = "info" /\ seat = NULL /\ said = <<>>
      /\ UNCHANGED <<me, srv, sbuf, scount, said, split, forwarded>>
      /\ \/ cli' = "left" /\ seat' = seat /\ up' = up
         \/ cli' = "play" /\ info # NULL /\ seat' = info /\ up' = up \o b
  BY DEF send_ready_connexion_information, Inv1, ClientOrder, sides
<1>2. CASE cli' = "left"
  <2>1. up' = up /\ up \in Seq(Byte) /\ seat' = seat
    BY <1>1, <1>2 DEF Inv1, TypeOK
  <2>2. up' \in Seq(Byte) /\ Len(up') <= Len(up) /\ \A i \in 1..Len(up') : up'[i] = up[i]
    <3>1. Len(up) \in Nat
      BY <2>1
    <3>2. Len(up) <= Len(up)
      BY <3>1
    <3> QED  BY <2>1, <3>2
  <2> QED  BY <1>1, <1>2, <2>1, <2>2, UpCut
<1>3. CASE cli' = "play"
  <2>1. Step1
    BY StartBasics
  <2>2. Inv1'
    BY <2>1 DEF Step1, Inv1
  <2>3. info # NULL /\ seat' = info /\ up' = up \o b
    BY <1>1, <1>3
  <2>4. AreMessages(UpCount, UpMsg)' /\ UpMsg[1] = serialize_initial_connection(me.mode)
    BY <2>2, UpMessages, PTL
  <2>5. UpCount = 1 /\ UpCount' = 2
    BY <1>1, <2>3 DEF UpCount
  <2>6. UpMsg'[1] = UpMsg[1]
    BY <1>1, <2>4, <2>5 DEF UpMsg
  <2>7. UpMsg'[2] = b
    BY <1>1, <2>3, <2>5 DEF UpMsg
  <2>8. b \in Seq(Byte)
    <3>1. \A i \in 1..UpCount' : UpMsg'[i] \in Seq(Byte)
      BY <2>4 DEF AreMessages
    <3> QED  BY <2>5, <2>7, <3>1
  <2> HIDE DEF b, info
  <2>9. /\ UpCount' = UpCount + 1 /\ (\A i \in 1..UpCount : UpMsg'[i] = UpMsg[i])
        /\ UpMsg'[UpCount + 1] = b
    BY <2>5, <2>6, <2>7
  <2> QED  BY <1>1, <1>3, <2>3, <2>8, <2>9, UpMore
<1> QED  BY <1>1, <1>2, <1>3

LEMMA UpSaid ==
  ASSUME Inv1, UpStream, client_send_chat_message
  PROVE  UpStream'
<1>1. PICK type \in MessageType, text \in Texts :
        LET msg == [type |-> type, id |-> seat.id, eq |-> seat.eq,
                    message_length |-> Len(text), message |-> text]
        IN  /\ said' = Append(said, msg)
            /\ up' = up \o send_tcp(serialize_chat_message(msg, CLIENT_CHAT_CODE))
  BY DEF client_send_chat_message
<1> DEFINE msg == [type |-> type, id |-> seat.id, eq |-> seat.eq,
                   message_length |-> Len(text), message |-> text]
           b == serialize_chat_message(msg, CLIENT_CHAT_CODE)
           l == Len(said)
<1>2. /\ cli \in {"play", "recv"}
      /\ UNCHANGED <<me, srv, sbuf, scount, cli, seat, split, forwarded>>
  BY DEF client_send_chat_message, sides
<1>3. seat # NULL /\ seat.id \in 0..3 /\ seat.eq \in 0..1 /\ said \in Seq(Chats)
  BY <1>2 DEF Inv1, MoreTypes, ClientOrder
<1>4. msg \in Chats /\ send_tcp(b) = b
  BY <1>3, TypedIsChat, TypedIsSentWhole
<1>5. said' = Append(said, msg) /\ up' = up \o b
  BY <1>1, <1>4
<1> HIDE DEF msg
<1>6. b \in Seq(Byte)
  BY <1>4, ChatBack
<1>7. /\ l \in Nat /\ Len(said') = l + 1 /\ said'[l + 1] = msg
      /\ \A i \in 1..l : said'[i] = said[i]
  BY <1>3, <1>4, <1>5
<1> HIDE DEF l
<1>8. UpCount = 2 + l /\ UpCount' = 2 + (l + 1)
  BY <1>2, <1>3, <1>7 DEF UpCount, l
<1>9. UpMsg'[UpCount + 1] = b
  <2>1. UpCount + 1 \in 1..UpCount' /\ UpCount + 1 # 1 /\ UpCount + 1 # 2 /\ (UpCount + 1) - 2 = l + 1
    BY <1>7, <1>8
  <2>2. UpMsg'[UpCount + 1] = serialize_chat_message(said'[(UpCount + 1) - 2], CLIENT_CHAT_CODE)
    BY <2>1 DEF UpMsg
  <2> QED  BY <1>7, <2>1, <2>2
<1>10. ASSUME NEW i \in 1..UpCount PROVE UpMsg'[i] = UpMsg[i]
  <2>1. i \in 1..UpCount' /\ i \in Int
    BY <1>7, <1>8
  <2>2. CASE i \in {1, 2}
    BY <1>2, <2>1, <2>2 DEF UpMsg
  <2>3. CASE i \notin {1, 2}
    <3>1. i - 2 \in 1..l
      BY <1>7, <1>8, <2>3
    <3>2. said'[i - 2] = said[i - 2]
      BY <1>7, <3>1
    <3> QED  BY <1>2, <2>1, <2>3, <3>2 DEF UpMsg
  <2> QED  BY <2>2, <2>3
<1>11. UpCount' = UpCount + 1
  BY <1>7, <1>8
<1> HIDE DEF b
<1>12. IsPrefix(forwarded, said) => IsPrefix(forwarded, said')
  BY <1>3, <1>4, <1>5, PrefixOfMore DEF Inv1, MoreTypes
<1> QED  BY <1>2, <1>5, <1>6, <1>9, <1>10, <1>11, <1>12, UpMore

LEMMA UpLoops ==
  ASSUME Inv1, UpStream, handle_tcp_communication \/ SelectTimeout
  PROVE  UpStream'
<1>1. /\ srv \in {"chat", "select"} /\ srv' \in {"chat", "select", "done"}
      /\ UNCHANGED <<me, up, upEnd, sbuf, forwarded, said, seat, cli>>
      /\ UpTainted => srv' # "select"
  BY DEF handle_tcp_communication, SelectTimeout, UpTainted, stream, clientSide
<1>2. SUFFICES ASSUME srv' \in {"chat", "select"} PROVE UpClean' \/ UpTainted'
  BY <1>1 DEF UpStream
<1>3. CASE UpTainted
  BY <1>1, <1>2, <1>3 DEF UpTainted
<1>4. CASE IsPrefix(forwarded, said) /\ Carries(sbuf \o up, UpCount, UpMsg, UpTaken, cli # "left")
  <2>1. UpCount' = UpCount /\ UpMsg' = UpMsg /\ (cli # "left")' = (cli # "left") /\ up' = up
    BY <1>1, UpSame
  <2>2. UpTaken' = UpTaken
    BY <1>1, <1>2 DEF UpTaken
  <2>3. Carries(sbuf' \o up', UpCount', UpMsg', UpTaken', (cli # "left")')
    BY <1>1, <1>4, <2>1, <2>2
  <2>4. sbuf' \in Seq(Byte)
    BY <1>1 DEF Inv1, TypeOK
  <2> QED  BY <1>1, <1>2, <1>4, <2>3, <2>4 DEF UpClean
<1> QED  BY <1>1, <1>3, <1>4, UpChats

LEMMA UpReads ==
  ASSUME Inv1, UpStream, recv_chat_message
  PROVE  UpStream'
<1>1. /\ srv = "select" /\ ~Complete(sbuf) /\ ServerReads(Field(sbuf))
      /\ UNCHANGED <<me, upEnd, srv, scount, forwarded, said, seat, cli>>
  BY DEF recv_chat_message, clientSide
<1>2. up \in Seq(Byte) /\ sbuf \in Seq(Byte) /\ Fits(sbuf)
  BY <1>1 DEF Inv1, TypeOK, ServerOrder
<1>3. /\ up' \in Seq(Byte) /\ sbuf' \in Seq(Byte)
      /\ \/ sbuf' \o up' = sbuf \o up
         \/ up = <<>> /\ up' = <<>> /\ upEnd
  BY <1>1, <1>2, ServerReadsBytes
<1>4. up = <<>> => up' = <<>>
  BY <1>1 DEF ServerReads, After
<1>5. IsPrefix(forwarded, said)
  BY <1>1, UpChats DEF UpTainted
<1>6. CASE upEnd /\ up' = <<>>
  BY <1>1, <1>5, <1>6 DEF UpStream, UpTainted
<1>7. CASE /\ sbuf' \o up' = sbuf \o up
           /\ Carries(sbuf \o up, UpCount, UpMsg, UpTaken, cli # "left")
  <2>1. /\ UpCount' = UpCount /\ UpMsg' = UpMsg /\ (cli # "left")' = (cli # "left")
        /\ UpTaken' = UpTaken
    BY <1>1, UpSame DEF UpTaken
  <2>2. Carries(sbuf' \o up', UpCount', UpMsg', UpTaken', (cli # "left")')
    BY <1>7, <2>1
  <2> QED  BY <1>1, <1>3, <1>5, <2>2 DEF UpStream, UpClean
<1> QED  BY <1>1, <1>3, <1>4, <1>6, <1>7, UpChats DEF UpTainted

\* The message the server has read is the next that was said.
LEMMA NextSaid ==
  ASSUME Inv1, srv = "select", Complete(sbuf), IsPrefix(forwarded, said),
         Carries(sbuf \o up, UpCount, UpMsg, UpTaken, cli # "left")
  PROVE  /\ Len(forwarded) < Len(said)
         /\ deserialize_chat_message(sbuf, CLIENT_CHAT_CODE) = said[Len(forwarded) + 1]
         /\ said[Len(forwarded) + 1] \in Chats
         /\ Carries(up, UpCount, UpMsg, UpTaken + 1, cli # "left")
<1> DEFINE whole == cli # "left"
           n == UpCount
           M == UpMsg
           from == UpTaken
           f == Len(forwarded)
           m == M[from + 1]
<1>1. up \in Seq(Byte) /\ sbuf \in Seq(Byte) /\ f \in Nat /\ said \in Seq(Chats) /\ Len(said) \in Nat
  BY DEF Inv1, TypeOK, MoreTypes
<1>2. from = 2 + f
  BY DEF UpTaken
<1>3. /\ n \in Nat /\ AreMessages(n, M)
      /\ seat # NULL => n = 2 + Len(said)
      /\ seat # NULL => \A i \in 1..Len(said) :
           said[i] \in Chats /\ M[2 + i] = serialize_chat_message(said[i], CLIENT_CHAT_CODE)
  BY UpMessages
<1>4. Carries(sbuf \o up, n, M, from, whole) /\ from \in Nat
  BY <1>1, <1>2
<1>5. seat = NULL => n = 1
  BY DEF UpCount
<1> HIDE DEF whole, n, M, from, f
<1>6. Len(sbuf) > 0
  <2>1. Len(sbuf) > 2
    BY DEF Complete
  <2> QED  BY <1>1, <2>1
<1>7. /\ Len(sbuf) > 0 => from < n
      /\ from < n => \A j \in 1..Len(sbuf) : j <= Len(m) => sbuf[j] = m[j]
  BY <1>1, <1>3, <1>4, FirstDue
<1>8. from < n /\ \A j \in 1..Len(sbuf) : j <= Len(m) => sbuf[j] = m[j]
  BY <1>6, <1>7
<1>9. seat # NULL /\ f + 1 \in 1..Len(said) /\ f < Len(said) /\ from + 1 = 2 + (f + 1)
  BY <1>1, <1>2, <1>3, <1>5, <1>8
<1> DEFINE s == said[f + 1]
<1>10. s \in Chats /\ m = serialize_chat_message(s, CLIENT_CHAT_CODE)
  BY <1>3, <1>9
<1> HIDE DEF s, m
<1>11. /\ m \in Seq(Byte) /\ m[3] \in Nat /\ Len(m) = 3 + m[3]
       /\ deserialize_chat_message(m, CLIENT_CHAT_CODE) = s
  BY <1>10, ChatBack
<1>12. Len(sbuf) = Len(m)
  BY <1>1, <1>8, <1>11, ChatLength
<1>13. sbuf = M[from + 1] /\ Carries(up, n, M, from + 1, whole)
  BY <1>1, <1>3, <1>4, <1>8, <1>12, MessageTaken DEF m
<1>14. deserialize_chat_message(sbuf, CLIENT_CHAT_CODE) = s
  BY <1>11, <1>13 DEF m
<1> QED  BY <1>9, <1>10, <1>13, <1>14 DEF s, f, whole, n, M, from

LEMMA UpHandled ==
  ASSUME Inv1, UpStream, handle_chat_message
  PROVE  UpStream' /\ FaithfulUntil(upEnd, forwarded, said)'
<1> DEFINE msg == deserialize_chat_message(sbuf, CLIENT_CHAT_CODE)
           A == AnyChat(CLIENT_CHAT_CODE)
           f == Len(forwarded)
<1>1. /\ srv = "select" /\ Complete(sbuf) /\ sbuf' = <<>>
      /\ UNCHANGED <<me, up, upEnd, scount, said, seat, cli, split>>
      /\ \/ msg = NULL /\ srv' = "done" /\ forwarded' = forwarded
         \/ msg # NULL /\ srv' = "chat" /\ forwarded' = Append(forwarded, msg)
  BY DEF handle_chat_message, stream, clientSide
<1>2. forwarded \in Seq(A) /\ said \in Seq(Chats) /\ msg \in A /\ up \in Seq(Byte)
  BY DEF Inv1, MoreTypes, TypeOK, AnyChat
<1> HIDE DEF A
<1>3. CASE IsPrefix(forwarded, said) /\ Carries(sbuf \o up, UpCount, UpMsg, UpTaken, cli # "left")
  <2> DEFINE s == said[f + 1]
  <2>1. /\ f < Len(said) /\ msg = s /\ s \in Chats
        /\ Carries(up, UpCount, UpMsg, UpTaken + 1, cli # "left")
    BY <1>1, <1>3, NextSaid
  <2>2. msg # NULL
    BY <2>1, ChatIsNotNull
  <2>3. srv' = "chat" /\ forwarded' = Append(forwarded, msg)
    BY <1>1, <2>2
  <2>4. IsPrefix(Append(forwarded, msg), said)
    <3>1. f < Len(said) /\ msg = said[f + 1]
      BY <2>1
    <3> HIDE DEF msg
    <3> QED  BY <1>2, <1>3, <3>1, LongerPrefix
  <2> HIDE DEF msg, s
  <2>5. IsPrefix(forwarded', said')
    BY <1>1, <2>3, <2>4
  <2>6. UpTaken' = UpTaken + 1
    <3>1. Len(forwarded') = f + 1 /\ f \in Nat
      BY <1>2, <2>3
    <3> HIDE DEF f
    <3>2. UpTaken' = 2 + (f + 1) /\ UpTaken = 2 + f
      BY <1>1, <2>3, <3>1 DEF UpTaken, f
    <3> QED  BY <3>1, <3>2
  <2>7. UpClean'
    <3> DEFINE none == <<>>
    <3>1. none \in Seq(Byte) /\ none = sbuf'
      BY <1>1
    <3>2. UpCount' = UpCount /\ UpMsg' = UpMsg /\ (cli # "left")' = (cli # "left") /\ up' = up
      BY <1>1, UpSame
    <3>3. Carries(none \o up', UpCount', UpMsg', UpTaken', (cli # "left")')
      BY <1>2, <2>1, <2>6, <3>2, NothingMore
    <3> HIDE DEF none
    <3> QED  BY <2>3, <2>5, <3>1, <3>3 DEF UpClean
  <2> QED  BY <2>5, <2>7 DEF UpStream, FaithfulUntil
<1>4. CASE UpTainted
  <2>1. upEnd' /\ up' = <<>> /\ IsPrefix(forwarded, said)
    BY <1>1, <1>4 DEF UpTainted
  <2>2. UpStream'
    BY <1>1, <2>1 DEF UpStream, UpTainted
  <2>3. forwarded' = forwarded \/ Front(forwarded') = forwarded
    <3> HIDE DEF msg
    <3>1. Front(Append(forwarded, msg)) = forwarded
      BY <1>2, FrontOfMore
    <3> QED  BY <1>1, <3>1
  <2> QED  BY <1>1, <2>1, <2>2, <2>3 DEF FaithfulUntil
<1> QED  BY <1>1, <1>3, <1>4, UpChats

LEMMA UpClosed ==
  ASSUME srv' \in {"closed", "crashed", "done"}
  PROVE  UpStream'
BY DEF UpStream

\* Every step, on the way to the server.
LEMMA NextUp ==
  ASSUME Inv1, UpStream, [Next]_vars
  PROVE  UpStream'
<1>1. ASSUME NEW at \in {"initial", "ready"}, recv_connexion_header_raw(at) PROVE UpStream'
  BY <1>1, UpGathers DEF UpStart
<1>2. CASE send_connexion_information \/ ServerIsReady
  BY <1>2, UpStartKept
<1>3. CASE ReadyTimeout \/ CloseSockets
  <2>1. srv' = "closed"
    BY <1>3 DEF ReadyTimeout, CloseSockets, ServerCloses
  <2> QED  BY <2>1, UpClosed
<1>4. CASE handle_tcp_communication \/ SelectTimeout
  BY <1>4, UpLoops
<1>5. CASE recv_chat_message
  BY <1>5, UpReads
<1>6. CASE handle_chat_message
  BY <1>6, UpHandled
<1>7. CASE \/ send_chat_message \/ send_game_over \/ recv_connexion_information_raw \/ ChatThread
           \/ UNCHANGED vars
  <2>1. UNCHANGED <<me, srv, sbuf, scount, forwarded, said, seat, up, upEnd>>
    BY <1>7 DEF send_chat_message, send_game_over, recv_connexion_information_raw, ChatThread,
       ClientLooks, recv_chat_message_from_server, ChatIsShown, GameIsOver, vars, stream, sides,
       clientSide
  <2>2. cli' # "left" <=> cli # "left"
    BY <1>7 DEF send_chat_message, send_game_over, recv_connexion_information_raw, ChatThread,
       ClientLooks, recv_chat_message_from_server, ChatIsShown, GameIsOver, vars, clientSide
  <2>3. split => split'
    <3>1. CASE recv_connexion_information_raw
      <4>1. split => split'
        BY <3>1, Zenon DEF recv_connexion_information_raw, ClientGathers
      <4> QED  BY <4>1
    <3>2. CASE \/ send_chat_message \/ send_game_over \/ ChatThread \/ UNCHANGED vars
      BY <3>2 DEF send_chat_message, send_game_over, ChatThread,
         ClientLooks, recv_chat_message_from_server, ChatIsShown, GameIsOver, vars
    <3> QED  BY <1>7, <3>1, <3>2
  <2> QED  BY <2>1, <2>2, <2>3, UpKept
<1>8. CASE send_ready_connexion_information
  BY <1>8, UpReadySent
<1>9. CASE client_send_chat_message
  BY <1>9, UpSaid
<1>10. CASE ClientLeaves
  <2>1. /\ cli # "left" /\ cli' = "left" /\ up' \in Prefixes(up) \cup {up}
        /\ UNCHANGED <<me, srv, sbuf, scount, forwarded, said, seat, split>>
    BY <1>10 DEF ClientLeaves, sides
  <2>2. up \in Seq(Byte) /\ Len(up) \in Nat
    BY DEF Inv1, TypeOK
  <2>3. up' \in Seq(Byte) /\ Len(up') <= Len(up) /\ \A i \in 1..Len(up') : up'[i] = up[i]
    <3>1. CASE up' = up
      BY <2>2, <3>1
    <3>2. ASSUME NEW p \in Prefixes(up)
          PROVE  p \in Seq(Byte) /\ Len(p) <= Len(up) /\ \A i \in 1..Len(p) : p[i] = up[i]
      BY <2>2, PrefixBytes
    <3> QED  BY <2>1, <3>1, <3>2
  <2> QED  BY <2>1, <2>3, UpCut
<1> QED  BY <1>1, <1>2, <1>3, <1>4, <1>5, <1>6, <1>7, <1>8, <1>9, <1>10
         DEF Next, ServerNext, ClientNext

-----------------------------------------------------------------------------
(* The steps on the way to the client. *)

LEMMA DownStarts ==
  ASSUME DownStream, cli = "info"
  PROVE  \E got \in Seq(Byte) :
           /\ Len(got) = ccount /\ (~split => got = cbuf)
           /\ Carries(got \o down, DownCount, DownMsg, 0, ~lost)
BY DEF DownStream, DownClean, DownTainted, DownTaken

LEMMA DownChats ==
  ASSUME DownStream, cli \in {"play", "recv"}
  PROVE  \/ /\ IsPrefix(heard, told)
            /\ Carries(cbuf \o down, DownCount, DownMsg, DownTaken, ~lost)
         \/ DownTainted
BY DEF DownStream, DownClean

LEMMA DownGathers ==
  ASSUME Inv1, DownStream, recv_connexion_information_raw
  PROVE  DownStream'
<1>1. /\ cli = "info" /\ ccount < 22 /\ ClientGathers(22)
      /\ UNCHANGED <<me, up, upEnd, downEnd, lost, sides, cli, seat, heard, winner, said, mode,
                     forwarded, told, ended>>
  BY DEF recv_connexion_information_raw
<1>2. down \in Seq(Byte) /\ cbuf \in Seq(Byte) /\ ccount \in 0..21
  BY <1>1 DEF Inv1, TypeOK
<1>3. PICK got \in Seq(Byte) :
        /\ Len(got) = ccount /\ (~split => got = cbuf)
        /\ Carries(got \o down, DownCount, DownMsg, 0, ~lost)
  BY <1>1, DownStarts
<1>4. PICK part \in Received(down, 22 - ccount) :
        /\ part \in Seq(Byte) /\ down' = After(down, Len(part)) /\ down' \in Seq(Byte)
        /\ cbuf' \in Seq(Byte) /\ ccount' = ccount + Len(part)
        /\ ccount' \in 1..22 /\ (split => split') /\ (~split' => ccount' = 22)
        /\ split' \in BOOLEAN
        /\ ccount' = 22 /\ ccount = 0 => cbuf' = part
        /\ IF ccount = 0 THEN Len(cbuf') = 22 ELSE cbuf' = cbuf
  BY <1>1, <1>2, ClientGathersBytes
<1> DEFINE new == got \o part
           n == 22 - ccount
<1>5. n \in Nat /\ part \in Received(down, n)
  BY <1>2, <1>4
<1> HIDE DEF n
<1>6. /\ new \in Seq(Byte) /\ Len(new) = Len(got) + Len(part)
      /\ new \o After(down, Len(part)) = got \o down
  BY <1>2, <1>5, Gathered
<1>7. ~split' => new = cbuf'
  <2> SUFFICES ASSUME ~split' PROVE new = cbuf'
    OBVIOUS
  <2>1. ~split /\ ccount' = 22
    BY <1>4
  <2>2. ccount = 0
    BY <1>1, <1>2, <2>1 DEF Inv1, ClientOrder
  <2>3. got = <<>>
    BY <1>3, <2>2
  <2>4. new = part
    BY <1>4, <2>3, NothingMore
  <2> QED  BY <1>4, <2>1, <2>2, <2>4
<1> HIDE DEF new
<1>8. DownCount' = DownCount /\ DownMsg' = DownMsg /\ DownTaken' = 0 /\ (~lost)' = (~lost)
  BY <1>1, DownSame DEF DownTaken
<1>9. Len(new) = ccount' /\ new \o down' = got \o down
  BY <1>3, <1>4, <1>6
<1>10. Carries(new \o down', DownCount', DownMsg', DownTaken', (~lost)')
  BY <1>3, <1>8, <1>9
<1>11. cli' = "info"
  BY <1>1
<1>12. DownClean'
  BY <1>6, <1>7, <1>9, <1>10, <1>11 DEF DownClean
<1> QED  BY <1>12 DEF DownStream

\* The client has all of the information.
LEMMA InformationTaken ==
  ASSUME Inv1, DownStream, cli = "info", ccount = 22
  PROVE  /\ mode # NULL /\ 1 <= DownCount
         /\ ~split => cbuf = Information
         /\ Carries(down, DownCount, DownMsg, 1, ~lost)
<1>1. PICK got \in Seq(Byte) :
        /\ Len(got) = ccount /\ (~split => got = cbuf)
        /\ Carries(got \o down, DownCount, DownMsg, 0, ~lost)
  BY DownStarts
<1> DEFINE whole == ~lost
           n == DownCount
           M == DownMsg
           from == 0
<1>2. /\ n \in Nat /\ AreMessages(n, M) /\ down \in Seq(Byte)
      /\ 1 <= n => mode # NULL /\ M[1] = Information
  BY DownMessages DEF Inv1, TypeOK
<1>3. Len(Information) = 22
  BY InformationBytes DEF Inv1, MoreTypes
<1>4. Carries(got \o down, n, M, from, whole) /\ from \in Nat /\ from + 1 = 1 /\ Len(got) = 22
  BY <1>1
<1>5. Len(got) > 0
  BY <1>4
<1> HIDE DEF whole, n, M, from
<1>6. Len(got) > 0 => from < n
  BY <1>2, <1>4, FirstDue
<1>7. from < n /\ 1 <= n
  BY <1>2, <1>4, <1>5, <1>6
<1>8. Len(got) = Len(M[from + 1]) /\ M[from + 1] = Information
  BY <1>2, <1>3, <1>4, <1>7
<1>9. got = M[from + 1] /\ Carries(down, n, M, from + 1, whole)
  BY <1>2, <1>4, <1>7, <1>8, MessageTaken
<1>10. Carries(down, n, M, 1, whole)
  BY <1>4, <1>9
<1> QED  BY <1>1, <1>2, <1>7, <1>8, <1>9, <1>10 DEF whole, n, M

LEMMA NothingHeard ==
  ASSUME Inv1, heard = <<>>
  PROVE  IsPrefix(heard, told)
<1>1. told \in Seq(Chats) /\ heard \in Seq(Chats) /\ Len(heard) = 0 /\ Len(told) \in Nat
  BY DEF Inv1, MoreTypes
<1>2. Len(heard) <= Len(told) /\ \A i \in 1..Len(heard) : heard[i] = told[i]
  BY <1>1
<1> QED  BY <1>1, <1>2, PrefixElements

LEMMA DownInformed ==
  ASSUME Inv1, DownStream, send_ready_connexion_information
  PROVE  DownStream'
<1>1. /\ cli = "info" /\ ccount = 22 /\ cbuf' = <<>> /\ heard = <<>>
      /\ UNCHANGED <<me, down, downEnd, lost, heard, split, mode, told, ended>>
      /\ cli' \in {"left", "play"}
  BY DEF send_ready_connexion_information, Inv1, ClientOrder
<1>2. Carries(down, DownCount, DownMsg, 1, ~lost)
  BY <1>1, InformationTaken
<1>3. SUFFICES ASSUME cli' = "play" PROVE DownClean'
  BY <1>1 DEF DownStream
<1> DEFINE none == <<>>
<1>4. none \in Seq(Byte) /\ none = cbuf' /\ none \o down = down
  BY <1>1, NothingMore DEF Inv1, TypeOK
<1>5. DownTaken' = 1 /\ DownCount' = DownCount /\ DownMsg' = DownMsg /\ (~lost)' = (~lost)
  BY <1>1, <1>3, DownSame DEF DownTaken
<1>6. Carries(none \o down', DownCount', DownMsg', DownTaken', (~lost)')
  BY <1>1, <1>2, <1>4, <1>5
<1>7. IsPrefix(heard', told')
  BY <1>1, NothingHeard
<1> HIDE DEF none
<1> QED  BY <1>3, <1>4, <1>6, <1>7 DEF DownClean

\* A message is added to those on their way to the client.
LEMMA DownMore ==
  ASSUME Inv1, DownStream, ~downEnd, UNCHANGED <<cli, cbuf, ccount, heard, lost, split>>,
         NEW b \in Seq(Byte), cli # "left" => down' = down \o b,
         DownCount' = DownCount + 1, \A i \in 1..DownCount : DownMsg'[i] = DownMsg[i],
         DownMsg'[DownCount + 1] = b, IsPrefix(heard, told) => IsPrefix(heard, told')
  PROVE  DownStream'
<1>1. SUFFICES ASSUME cli \in {"info", "play", "recv"} PROVE DownClean'
  BY DEF DownStream
<1>2. ~DownTainted /\ ~lost /\ down' = down \o b
  BY <1>1 DEF DownTainted, Inv1, ClientOrder
<1>3. PICK got \in Seq(Byte) :
        /\ cli = "info" => Len(got) = ccount /\ (~split => got = cbuf)
        /\ cli \in {"play", "recv"} => got = cbuf /\ IsPrefix(heard, told)
        /\ Carries(got \o down, DownCount, DownMsg, DownTaken, ~lost)
  BY <1>1, <1>2 DEF DownStream, DownClean
<1>4. DownTaken' = DownTaken
  BY DEF DownTaken
<1>5. down \in Seq(Byte) /\ DownCount \in Nat /\ AreMessages(DownCount, DownMsg)
  BY DownMessages DEF Inv1, TypeOK
<1>6. (~lost) = TRUE /\ (~lost)' = TRUE
  BY <1>2
<1> DEFINE bytes == got \o down
           n == DownCount
           M == DownMsg
           N == DownMsg'
           from == DownTaken
<1>7. bytes \in Seq(Byte)
  BY <1>5
<1>8. /\ n \in Nat /\ AreMessages(n, M) /\ Carries(bytes, n, M, from, TRUE)
      /\ (\A i \in 1..n : N[i] = M[i]) /\ N[n + 1] \in Seq(Byte) /\ N[n + 1] = b
  BY <1>3, <1>5, <1>6
<1>9. got \o (down \o b) = bytes \o b
  BY <1>5, ThreeParts
<1> HIDE DEF bytes, n, M, N, from
<1>10. Carries(bytes \o b, n + 1, N, from, TRUE)
  BY <1>7, <1>8, CarriesMore
<1>11. Carries(got \o down', DownCount', DownMsg', DownTaken', (~lost)')
  BY <1>2, <1>4, <1>6, <1>9, <1>10 DEF n, N, from
<1> QED  BY <1>3, <1>11 DEF DownClean

\* The server closes, and some of what it sent is lost.
LEMMA DownCut ==
  ASSUME Inv1, DownStream, UNCHANGED <<me, cli, cbuf, ccount, heard, told, ended, mode, split>>,
         ~downEnd, lost' = TRUE, down' \in Seq(Byte), Len(down') <= Len(down),
         \A i \in 1..Len(down') : down'[i] = down[i]
  PROVE  DownStream'
<1>1. SUFFICES ASSUME cli \in {"info", "play", "recv"} PROVE DownClean'
  BY DEF DownStream
<1>2. ~DownTainted
  BY DEF DownTainted
<1>3. PICK got \in Seq(Byte) :
        /\ cli = "info" => Len(got) = ccount /\ (~split => got = cbuf)
        /\ cli \in {"play", "recv"} => got = cbuf /\ IsPrefix(heard, told)
        /\ Carries(got \o down, DownCount, DownMsg, DownTaken, ~lost)
  BY <1>1, <1>2 DEF DownStream, DownClean
<1>4. DownCount' = DownCount /\ DownMsg' = DownMsg /\ DownTaken' = DownTaken
  BY DownSame DEF DownTaken
<1>5. down \in Seq(Byte) /\ DownCount \in Nat
  BY DownMessages DEF Inv1, TypeOK
<1>6. (~lost)' = FALSE
  OBVIOUS
<1> DEFINE bytes == got \o down
           cut == down'
           bcut == got \o cut
           n == DownCount
           M == DownMsg
           from == DownTaken
           whole == ~lost
<1>7. /\ cut \in Seq(Byte) /\ Len(cut) <= Len(down) /\ \A i \in 1..Len(cut) : cut[i] = down[i]
  OBVIOUS
<1> HIDE DEF cut
<1>8. /\ bytes \in Seq(Byte) /\ bcut \in Seq(Byte) /\ Len(bcut) <= Len(bytes)
      /\ \A i \in 1..Len(bcut) : bcut[i] = bytes[i]
  BY <1>5, <1>7, PrefixConcat
<1>9. n \in Nat /\ Carries(bytes, n, M, from, whole)
  BY <1>3, <1>5
<1> HIDE DEF bytes, bcut, n, M, from, whole
<1>10. Carries(bcut, n, M, from, FALSE)
  BY <1>8, <1>9, CarriesPrefix
<1>11. Carries(got \o down', DownCount', DownMsg', DownTaken', (~lost)')
  BY <1>4, <1>6, <1>10 DEF n, M, from, bcut, cut
<1> QED  BY <1>3, <1>11 DEF DownClean

LEMMA DownCloses ==
  ASSUME Inv1, DownStream, ReadyTimeout \/ CloseSockets
  PROVE  DownStream'
<1>1. /\ srv \in {"ready", "done"} /\ downEnd' = TRUE /\ down' \in Prefixes(down) \cup {down}
      /\ lost' = (lost \/ down' # down)
      /\ UNCHANGED <<me, cli, cbuf, ccount, heard, told, ended, mode, split>>
  BY DEF ReadyTimeout, CloseSockets, ServerCloses, clientSide
<1>2. ~downEnd /\ down \in Seq(Byte)
  BY <1>1 DEF Inv1, ServerOrder, TypeOK
<1>3. CASE down' = down
  <2>1. lost' = lost
    BY <1>1, <1>3 DEF Inv1, MoreTypes
  <2> QED  BY <1>1, <1>2, <1>3, <2>1, DownKept
<1>4. CASE down' # down
  <2>1. ASSUME NEW p \in Prefixes(down)
        PROVE  p \in Seq(Byte) /\ Len(p) <= Len(down) /\ \A i \in 1..Len(p) : p[i] = down[i]
    BY <1>2, PrefixBytes
  <2>2. /\ down' \in Seq(Byte) /\ Len(down') <= Len(down)
        /\ \A i \in 1..Len(down') : down'[i] = down[i]
    BY <1>1, <1>4, <2>1
  <2>3. lost' = TRUE
    BY <1>1, <1>4, Zenon
  <2> QED  BY <1>1, <1>2, <2>2, <2>3, DownCut
<1> QED  BY <1>3, <1>4

LEMMA DownAnswered ==
  ASSUME Inv1, DownStream, send_connexion_information
  PROVE  DownStream'
<1> DEFINE b == Information
<1>1. /\ srv = "initial" /\ UNCHANGED <<me, cli, cbuf, ccount, heard, told, ended, lost, split>>
      /\ \/ downEnd' = TRUE /\ UNCHANGED <<down, mode>>
         \/ mode' # NULL /\ down' = down \o b /\ UNCHANGED downEnd
  BY DEF send_connexion_information, clientSide, Information
<1>2. mode = NULL /\ ~downEnd /\ told = <<>> /\ ~ended /\ told \in Seq(Chats)
  BY <1>1 DEF Inv1, ServerOrder, MoreTypes
<1>3. CASE downEnd' = TRUE /\ UNCHANGED <<down, mode>>
  BY <1>1, <1>3, DownKept
<1>4. CASE mode' # NULL /\ down' = down \o b /\ UNCHANGED downEnd
  <2>1. Step1
    BY StartBasics
  <2>2. Inv1'
    BY <2>1 DEF Step1, Inv1
  <2>3. b \in Seq(Byte) /\ b' = b
    BY <1>1, InformationBytes DEF Inv1, MoreTypes, Information
  <2>4. DownCount = 0 /\ DownCount' = 1
    <3>1. ~EndIsSent' /\ Len(told') = 0
      BY <1>1, <1>2 DEF EndIsSent
    <3> QED  BY <1>2, <1>4, <3>1 DEF DownCount
  <2>5. DownMsg'[1] = b
    <3>1. (1 <= DownCount => mode # NULL /\ DownMsg[1] = Information)'
      BY <2>2, DownMessages, PTL
    <3> QED  BY <2>3, <2>4, <3>1
  <2> HIDE DEF b
  <2>6. /\ DownCount' = DownCount + 1 /\ (\A i \in 1..DownCount : DownMsg'[i] = DownMsg[i])
        /\ DownMsg'[DownCount + 1] = b
    BY <2>4, <2>5
  <2> QED  BY <1>1, <1>2, <1>4, <2>3, <2>6, DownMore
<1> QED  BY <1>1, <1>3, <1>4

LEMMA DownTold ==
  ASSUME Inv1, DownStream, send_chat_message
  PROVE  DownStream'
<1>1. PICK type \in MessageType, text \in Texts :
        LET msg == [type |-> type, id |-> (me.id + 1) % 4, eq |-> me.eq,
                    message_length |-> Len(text), message |-> text]
        IN  /\ told' = Append(told, msg)
            /\ down' = IF cli = "left" THEN down
                       ELSE down \o send_tcp(serialize_chat_message(msg, SERVER_CHAT_CODE))
  BY DEF send_chat_message
<1> DEFINE msg == [type |-> type, id |-> (me.id + 1) % 4, eq |-> me.eq,
                   message_length |-> Len(text), message |-> text]
           b == serialize_chat_message(msg, SERVER_CHAT_CODE)
           l == Len(told)
<1>2. /\ srv \in {"chat", "select", "done"} /\ ~ended
      /\ UNCHANGED <<me, downEnd, lost, cli, cbuf, ccount, heard, split, mode, ended>>
  BY DEF send_chat_message, clientSide
<1>3. me.id \in 0..3 /\ me.eq \in 0..1 /\ (me.id + 1) % 4 \in 0..3 /\ told \in Seq(Chats)
  BY Me DEF Inv1, MoreTypes
<1>4. msg \in Chats /\ send_tcp(b) = b
  BY <1>3, TypedIsChat, TypedIsSentWhole
<1>5. told' = Append(told, msg) /\ (cli # "left" => down' = down \o b)
  BY <1>1, <1>4
<1> HIDE DEF msg
<1>6. b \in Seq(Byte)
  BY <1>4, ChatBack
<1>7. /\ l \in Nat /\ Len(told') = l + 1 /\ told'[l + 1] = msg
      /\ \A i \in 1..l : told'[i] = told[i]
  BY <1>3, <1>4, <1>5
<1> HIDE DEF l
<1>8. mode # NULL /\ ~downEnd /\ ~EndIsSent /\ ~EndIsSent'
  BY <1>2 DEF Inv1, ServerOrder, EndIsSent
<1>9. DownCount = 1 + l /\ DownCount' = 1 + (l + 1)
  BY <1>2, <1>7, <1>8 DEF DownCount, l
<1>10. DownMsg'[DownCount + 1] = b
  <2>1. /\ DownCount + 1 \in 1..DownCount' /\ DownCount + 1 # 1 /\ (DownCount + 1) - 1 = l + 1
        /\ DownCount + 1 <= 1 + Len(told')
    BY <1>7, <1>9
  <2>2. DownMsg'[DownCount + 1]
          = serialize_chat_message(told'[(DownCount + 1) - 1], SERVER_CHAT_CODE)
    BY <2>1 DEF DownMsg
  <2> QED  BY <1>7, <2>1, <2>2
<1>11. ASSUME NEW i \in 1..DownCount PROVE DownMsg'[i] = DownMsg[i]
  <2>1. i \in 1..DownCount' /\ i \in Int /\ i <= 1 + Len(told) /\ i <= 1 + Len(told')
    BY <1>7, <1>9 DEF l
  <2>2. CASE i = 1
    BY <1>2, <2>1, <2>2 DEF DownMsg, Information
  <2>3. CASE i # 1
    <3>1. i - 1 \in 1..l
      BY <1>7, <1>9, <2>3
    <3>2. told'[i - 1] = told[i - 1]
      BY <1>7, <3>1
    <3> QED  BY <2>1, <2>3, <3>2 DEF DownMsg
  <2> QED  BY <2>2, <2>3
<1>12. DownCount' = DownCount + 1
  BY <1>7, <1>9
<1> HIDE DEF b
<1>13. IsPrefix(heard, told) => IsPrefix(heard, told')
  BY <1>3, <1>4, <1>5, PrefixOfMore DEF Inv1, MoreTypes
<1> QED  BY <1>2, <1>5, <1>6, <1>8, <1>10, <1>11, <1>12, <1>13, DownMore

LEMMA DownEnded ==
  ASSUME Inv1, DownStream, send_game_over
  PROVE  DownStream'
<1> DEFINE l == Len(told)
           b == game_end
<1>1. /\ srv = "done" /\ ~ended /\ ended' = TRUE
      /\ down' = IF downEnd \/ b = NULL THEN down ELSE down \o b
      /\ UNCHANGED <<me, downEnd, lost, cli, cbuf, ccount, heard, split, mode, told>>
  BY DEF send_game_over, clientSide
<1>2. mode # NULL /\ mode \in Mode /\ ~downEnd /\ l \in Nat /\ me \in Seats
  BY <1>1 DEF Inv1, ServerOrder, TypeOK, MoreTypes
<1>3. b' = b /\ ~EndIsSent /\ EndIsSent' = (b # NULL)
  BY <1>1 DEF EndIsSent, game_end
<1> HIDE DEF l
<1>4. DownCount = 1 + l
  BY <1>2, <1>3 DEF DownCount, l
<1>5. CASE b = NULL
  <2>1. DownCount' = DownCount
    BY <1>1, <1>2, <1>3, <1>4, <1>5 DEF DownCount, l
  <2>2. DownMsg' = DownMsg
    BY <1>1, <1>3, <2>1 DEF DownMsg, Information
  <2>3. DownTaken' = DownTaken /\ down' = down
    BY <1>1, <1>5 DEF DownTaken
  <2>4. SUFFICES ASSUME cli \in {"info", "play", "recv"} PROVE DownClean'
    BY <1>1 DEF DownStream
  <2>5. PICK got \in Seq(Byte) :
          /\ cli = "info" => Len(got) = ccount /\ (~split => got = cbuf)
          /\ cli \in {"play", "recv"} => got = cbuf /\ IsPrefix(heard, told)
          /\ Carries(got \o down, DownCount, DownMsg, DownTaken, ~lost)
    BY <1>2, <2>4 DEF DownStream, DownClean, DownTainted
  <2>6. (~lost)' = (~lost)
    BY <1>1
  <2>7. Carries(got \o down', DownCount', DownMsg', DownTaken', (~lost)')
    BY <2>1, <2>2, <2>3, <2>5, <2>6
  <2> QED  BY <1>1, <2>5, <2>7 DEF DownClean
<1>6. CASE b # NULL
  <2>1. b \in Seq(Byte) /\ down' = down \o b
    BY <1>1, <1>2, <1>6, GameEndBytes
  <2>2. DownCount' = 2 + l
    <3>1. (IF EndIsSent THEN 1 ELSE 0)' = 1 /\ mode' # NULL /\ Len(told') = l
      BY <1>1, <1>2, <1>3, <1>6 DEF l
    <3>2. DownCount' = 1 + l + 1
      BY <3>1 DEF DownCount
    <3> QED  BY <1>2, <3>2
  <2>3. DownMsg'[DownCount + 1] = b
    <3>1. DownCount + 1 \in 1..DownCount' /\ DownCount + 1 # 1 /\ ~(DownCount + 1 <= 1 + Len(told'))
      BY <1>1, <1>2, <1>4, <2>2 DEF l
    <3>2. DownMsg'[DownCount + 1] = b'
      BY <3>1 DEF DownMsg
    <3> QED  BY <1>3, <3>2
  <2>4. ASSUME NEW i \in 1..DownCount PROVE DownMsg'[i] = DownMsg[i]
    <3>1. i \in 1..DownCount' /\ i \in Int /\ i <= 1 + Len(told) /\ i <= 1 + Len(told')
      BY <1>1, <1>2, <1>4, <2>2 DEF l
    <3>2. CASE i = 1
      BY <1>1, <3>1, <3>2 DEF DownMsg, Information
    <3>3. CASE i # 1
      BY <1>1, <3>1, <3>3 DEF DownMsg
    <3> QED  BY <3>2, <3>3
  <2>5. DownCount' = DownCount + 1
    BY <1>2, <1>4, <2>2
  <2> HIDE DEF b
  <2> QED  BY <1>1, <1>2, <2>1, <2>3, <2>4, <2>5, DownMore
<1> QED  BY <1>5, <1>6

\* What the client is to read next: a line of the chat, or the end of the game.
LEMMA NextDue ==
  ASSUME Inv1, cli = "recv", DownTaken < DownCount
  PROVE  /\ mode # NULL
         /\ \/ /\ Len(heard) < Len(told) /\ told[Len(heard) + 1] \in Chats
               /\ DownMsg[DownTaken + 1]
                    = serialize_chat_message(told[Len(heard) + 1], SERVER_CHAT_CODE)
            \/ /\ EndIsSent /\ DownTaken = DownCount - 1 /\ DownMsg[DownTaken + 1] = game_end
<1> DEFINE l == Len(told)
           h == Len(heard)
           n == DownCount
           M == DownMsg
           from == DownTaken
           e == IF EndIsSent THEN 1 ELSE 0
<1>1. l \in Nat /\ h \in Nat /\ e \in 0..1 /\ (e = 1 => EndIsSent)
  BY DEF Inv1, MoreTypes
<1>2. from = 1 + h
  BY DEF DownTaken
<1>3. /\ n \in Nat
      /\ 1 <= n => mode # NULL
      /\ mode # NULL =>
           /\ n = 1 + l + e
           /\ \A i \in 1..l :
                /\ told[i] \in Chats
                /\ M[1 + i] = serialize_chat_message(told[i], SERVER_CHAT_CODE)
           /\ EndIsSent => M[2 + l] = game_end
  BY DownMessages
<1> HIDE DEF l, h, n, M, from, e
<1>4. from < n
  BY DEF from, n
<1>5. mode # NULL /\ n = 1 + l + e
  BY <1>1, <1>2, <1>3, <1>4
<1>6. CASE h < l
  <2>1. h + 1 \in 1..l /\ from + 1 = 1 + (h + 1)
    BY <1>1, <1>2, <1>6
  <2>2. told[h + 1] \in Chats /\ M[from + 1] = serialize_chat_message(told[h + 1], SERVER_CHAT_CODE)
    BY <1>3, <1>5, <2>1
  <2> QED  BY <1>5, <1>6, <2>2 DEF l, h, M, from
<1>7. CASE ~(h < l)
  <2>1. e = 1 /\ from + 1 = 2 + l /\ from = n - 1
    BY <1>1, <1>2, <1>4, <1>5, <1>7
  <2>2. EndIsSent /\ M[from + 1] = game_end
    BY <1>1, <1>3, <1>5, <2>1
  <2> QED  BY <1>5, <2>1, <2>2 DEF n, M, from
<1> QED  BY <1>6, <1>7

\* The message the client has read is the next it was sent.
LEMMA NextTold ==
  ASSUME Inv1, cli = "recv", Complete(cbuf),
         Carries(cbuf \o down, DownCount, DownMsg, DownTaken, ~lost)
  PROVE  /\ Len(heard) < Len(told)
         /\ deserialize_chat_message(cbuf, SERVER_CHAT_CODE) = told[Len(heard) + 1]
         /\ told[Len(heard) + 1] \in Chats
         /\ Carries(down, DownCount, DownMsg, DownTaken + 1, ~lost)
<1> DEFINE whole == ~lost
           n == DownCount
           M == DownMsg
           from == DownTaken
           m == M[from + 1]
           s == told[Len(heard) + 1]
<1>1. down \in Seq(Byte) /\ cbuf \in Seq(Byte) /\ me \in Seats
  BY DEF Inv1, TypeOK, MoreTypes
<1>2. from \in Nat
  <2>1. Len(heard) \in Nat
    BY DEF Inv1, MoreTypes
  <2> QED  BY <2>1 DEF DownTaken
<1>3. n \in Nat /\ AreMessages(n, M)
  BY DownMessages
<1>4. Carries(cbuf \o down, n, M, from, whole)
  OBVIOUS
<1>5. /\ from < n => mode # NULL
      /\ from < n => \/ /\ Len(heard) < Len(told) /\ s \in Chats
                        /\ m = serialize_chat_message(s, SERVER_CHAT_CODE)
                     \/ EndIsSent /\ from = n - 1 /\ m = game_end
  BY NextDue
<1> HIDE DEF whole, n, M, from, m, s
<1>6. Len(cbuf) > 2 /\ Len(cbuf) > 0 /\ Len(cbuf) \in Nat
  <2>1. Len(cbuf) > 2 /\ Len(cbuf) \in Nat
    BY <1>1 DEF Complete
  <2> QED  BY <2>1
<1>7. /\ Len(cbuf) > 0 => from < n
      /\ from < n => \A j \in 1..Len(cbuf) : j <= Len(m) => cbuf[j] = m[j]
      /\ from = n - 1 => Len(cbuf) <= Len(m)
  BY <1>1, <1>2, <1>3, <1>4, FirstDue DEF m
<1>8. ~(EndIsSent /\ from = n - 1 /\ m = game_end)
  <2> SUFFICES ASSUME EndIsSent, from = n - 1, m = game_end PROVE FALSE
    OBVIOUS
  <2>1. mode \in Mode
    BY <1>5, <1>6, <1>7 DEF Inv1, TypeOK
  <2>2. Len(m) = 2
    BY <1>1, <2>1, GameEndBytes DEF EndIsSent
  <2> QED  BY <1>6, <1>7, <2>2
<1>9. /\ Len(heard) < Len(told) /\ s \in Chats /\ m = serialize_chat_message(s, SERVER_CHAT_CODE)
      /\ from < n /\ \A j \in 1..Len(cbuf) : j <= Len(m) => cbuf[j] = m[j]
  BY <1>5, <1>6, <1>7, <1>8
<1>10. /\ m \in Seq(Byte) /\ m[3] \in Nat /\ Len(m) = 3 + m[3]
       /\ deserialize_chat_message(m, SERVER_CHAT_CODE) = s
  BY <1>9, ChatBack
<1>11. Len(cbuf) = Len(m)
  BY <1>1, <1>9, <1>10, ChatLength
<1>12. cbuf = M[from + 1] /\ Carries(down, n, M, from + 1, whole)
  BY <1>1, <1>2, <1>3, <1>4, <1>9, <1>11, MessageTaken DEF m
<1>13. deserialize_chat_message(cbuf, SERVER_CHAT_CODE) = s
  BY <1>10, <1>12 DEF m
<1> QED  BY <1>9, <1>12, <1>13 DEF s, whole, n, M, from

\* A line of the chat is not taken for the end of the game.
LEMMA ChatIsNoEnd ==
  ASSUME NEW m \in Chats, NEW buf,
         LET bytes == serialize_chat_message(m, SERVER_CHAT_CODE)
         IN  buf[1] = bytes[1] /\ buf[2] = bytes[2]
  PROVE  ~IsGameEnd(buf)
<1> DEFINE bytes == serialize_chat_message(m, SERVER_CHAT_CODE)
<1>1. CodeOf(bytes) \in {SERVER_CHAT_CODE, SERVER_CHAT_CODE + 1}
  BY ChatBack
<1>2. buf[1] = bytes[1] /\ buf[2] = bytes[2]
  OBVIOUS
<1> HIDE DEF bytes
<1>3. CodeOf(buf) = CodeOf(bytes)
  BY <1>2, SameHeader
<1>4. CodeOf(buf) \in {13, 14}
  BY <1>1, <1>3 DEF SERVER_CHAT_CODE
<1>5. ~OfKind(GAME_END_CODE, buf)
  <2>1. \A mm \in Mode : Code(GAME_END_CODE, mm) \in {15, 16}
    BY DEF Code, GAME_END_CODE
  <2> QED  BY <1>4, <2>1 DEF OfKind
<1> QED  BY <1>5 DEF IsGameEnd, deserialize_game_end

\* Unless a header was split, the server has the client's mode.
LEMMA SameMode ==
  ASSUME SeatAgreed, ~split, mode # NULL
  PROVE  mode = me.mode
BY DEF SeatAgreed

\* The end of the game that is heard is the one sent.
LEMMA EndIsTrue ==
  ASSUME Inv1, SeatAgreed, ~split, cli = "recv", IsGameEnd(cbuf),
         Carries(cbuf \o down, DownCount, DownMsg, DownTaken, ~lost)
  PROVE  LET end == deserialize_game_end(cbuf)
         IN  (IF me.mode = "SOLO" THEN end.id ELSE end.eq) = me.winner
<1> DEFINE whole == ~lost
           n == DownCount
           M == DownMsg
           from == DownTaken
           m == M[from + 1]
           s == told[Len(heard) + 1]
<1>1. down \in Seq(Byte) /\ cbuf \in Seq(Byte) /\ me \in Seats
  BY DEF Inv1, TypeOK, MoreTypes
<1>2. from \in Nat
  <2>1. Len(heard) \in Nat
    BY DEF Inv1, MoreTypes
  <2> QED  BY <2>1 DEF DownTaken
<1>3. n \in Nat /\ AreMessages(n, M)
  BY DownMessages
<1>4. Carries(cbuf \o down, n, M, from, whole)
  OBVIOUS
<1>5. /\ from < n => mode # NULL
      /\ from < n => \/ s \in Chats /\ m = serialize_chat_message(s, SERVER_CHAT_CODE)
                     \/ EndIsSent /\ from = n - 1 /\ m = game_end
  BY NextDue
<1> HIDE DEF whole, n, M, from, m, s
<1>6. Len(cbuf) = 2
  BY DEF IsGameEnd
<1>7. Len(cbuf) > 0
  BY <1>6
<1>8. /\ Len(cbuf) > 0 => from < n
      /\ from < n => \A j \in 1..Len(cbuf) : j <= Len(m) => cbuf[j] = m[j]
  BY <1>1, <1>2, <1>3, <1>4, FirstDue DEF m
<1>9. /\ from < n /\ mode # NULL /\ mode \in Mode
      /\ \A j \in 1..Len(cbuf) : j <= Len(m) => cbuf[j] = m[j]
  BY <1>5, <1>7, <1>8 DEF Inv1, TypeOK
<1>10. CASE s \in Chats /\ m = serialize_chat_message(s, SERVER_CHAT_CODE)
  <2>1. m \in Seq(Byte) /\ m[3] \in Nat /\ Len(m) = 3 + m[3]
    BY <1>10, ChatBack
  <2>2. cbuf[1] = m[1] /\ cbuf[2] = m[2]
    <3>1. 1 <= Len(cbuf) /\ 2 <= Len(cbuf)
      BY <1>6
    <3> QED  BY <1>1, <1>9, <2>1, <3>1, ChatLength
  <2>3. ~IsGameEnd(cbuf)
    BY <1>10, <2>2, ChatIsNoEnd
  <2> QED  BY <2>3
<1>11. CASE EndIsSent /\ from = n - 1 /\ m = game_end
  <2>1. mode = me.mode
    BY <1>9, SameMode
  <2>2. /\ m \in Seq(Byte) /\ Len(m) = 2
        /\ LET end == deserialize_game_end(m)
           IN  (IF me.mode = "SOLO" THEN end.id ELSE end.eq) = me.winner
    BY <1>1, <1>9, <1>11, <2>1, GameEndBytes DEF EndIsSent
  <2>3. cbuf = m
    <3>1. \A j \in 1..Len(cbuf) : j <= Len(m)
      BY <1>6, <2>2
    <3>2. Len(cbuf) = Len(m) /\ \A j \in 1..Len(cbuf) : cbuf[j] = m[j]
      BY <1>6, <1>9, <2>2, <3>1
    <3> QED  BY <1>1, <2>2, <3>2, SeqEqual
  <2> QED  BY <2>2, <2>3
<1> QED  BY <1>5, <1>9, <1>10, <1>11

\* At the end of the file, the client misses nothing it had to be told.
LEMMA NothingIsDue ==
  ASSUME Inv1, SeatAgreed, ~split, cli = "recv", ~IsGameEnd(cbuf), ~Complete(cbuf),
         IsPrefix(heard, told), Carries(cbuf \o down, DownCount, DownMsg, DownTaken, ~lost),
         down = <<>>
  PROVE  ~ended \/ lost \/ me.winner = -1
<1> SUFFICES ASSUME ended, ~lost, me.winner # -1 PROVE FALSE
  OBVIOUS
<1> DEFINE whole == ~lost
           n == DownCount
           M == DownMsg
           from == DownTaken
           m == M[from + 1]
           s == told[Len(heard) + 1]
<1>1. down \in Seq(Byte) /\ cbuf \in Seq(Byte) /\ me \in Seats /\ Len(down) = 0 /\ Fits(cbuf)
  BY DEF Inv1, TypeOK, MoreTypes, ClientOrder
<1>2. mode # NULL /\ mode \in Mode
  BY DEF Inv1, ServerOrder, TypeOK
<1>3. mode = me.mode
  BY <1>2, SameMode
<1>4. game_end # NULL
  BY <1>1, <1>2, <1>3, GameEndBytes
<1>5. n \in Nat /\ AreMessages(n, M) /\ from \in Nat /\ from < n
  <2>1. /\ n \in Nat /\ AreMessages(n, M)
        /\ n = 1 + Len(told) + (IF EndIsSent THEN 1 ELSE 0)
    BY <1>2, DownMessages
  <2>2. EndIsSent
    BY <1>4 DEF EndIsSent
  <2>3. Len(heard) \in Nat /\ Len(told) \in Nat
    BY DEF Inv1, MoreTypes
  <2>4. Len(heard) <= Len(told)
    BY DEF IsPrefix
  <2>5. from = 1 + Len(heard)
    BY DEF DownTaken
  <2>6. n = 1 + Len(told) + 1
    BY <2>1, <2>2
  <2> HIDE DEF n, from
  <2> QED  BY <2>1, <2>3, <2>4, <2>5, <2>6
<1>6. Carries(cbuf \o down, n, M, from, whole)
  OBVIOUS
<1>7. \/ s \in Chats /\ m = serialize_chat_message(s, SERVER_CHAT_CODE)
      \/ EndIsSent /\ from = n - 1 /\ m = game_end
  BY <1>5, NextDue
<1> DEFINE c == cbuf
           r == down
<1>e. Len(r) = 0
  BY <1>1
<1>r. c \in Seq(Byte) /\ r \in Seq(Byte) /\ Carries(c \o r, n, M, from, whole)
  BY <1>1, <1>6
<1> HIDE DEF whole, n, M, from, m, s, c, r
<1>d. /\ from < n => \A j \in 1..Len(c) : j <= Len(m) => c[j] = m[j]
      /\ from = n - 1 => Len(c) <= Len(m)
      /\ from < n /\ whole /\ Len(r) = 0 => Len(m) <= Len(c)
  BY <1>5, <1>r, FirstDue DEF m
<1>8. /\ from < n => \A j \in 1..Len(cbuf) : j <= Len(m) => cbuf[j] = m[j]
      /\ from = n - 1 => Len(cbuf) <= Len(m)
      /\ Len(m) <= Len(cbuf)
  BY <1>5, <1>d, <1>e DEF c, whole
<1>9. Len(m) <= Len(cbuf) /\ \A j \in 1..Len(cbuf) : j <= Len(m) => cbuf[j] = m[j]
  BY <1>1, <1>5, <1>8
<1>10. CASE s \in Chats /\ m = serialize_chat_message(s, SERVER_CHAT_CODE)
  <2>1. m \in Seq(Byte) /\ m[3] \in Nat /\ Len(m) = 3 + m[3]
    BY <1>10, ChatBack
  <2>2. Complete(cbuf)
    BY <1>1, <1>9, <2>1, ChatLength
  <2> QED  BY <2>2
<1>11. CASE EndIsSent /\ from = n - 1 /\ m = game_end
  <2>1. /\ m \in Seq(Byte) /\ Len(m) = 2
        /\ deserialize_game_end(m) # NULL /\ deserialize_game_end(m).game_mode = me.mode
    BY <1>1, <1>2, <1>3, <1>4, <1>11, GameEndBytes
  <2>2. Len(cbuf) = 2
    <3> DEFINE l == Len(cbuf)
               k == Len(m)
    <3>1. l \in Nat /\ k = 2 /\ k <= l /\ l <= k
      BY <1>1, <1>8, <1>9, <1>11, <2>1
    <3> HIDE DEF l, k
    <3>2. l = 2
      BY <3>1
    <3> QED  BY <3>2 DEF l
  <2>3. cbuf = m
    <3>1. \A j \in 1..Len(cbuf) : j <= Len(m)
      BY <2>1, <2>2
    <3>2. Len(cbuf) = Len(m) /\ \A j \in 1..Len(cbuf) : cbuf[j] = m[j]
      BY <1>9, <2>1, <2>2, <3>1
    <3> QED  BY <1>1, <2>1, <3>2, SeqEqual
  <2>4. IsGameEnd(cbuf)
    BY <2>1, <2>2, <2>3 DEF IsGameEnd
  <2> QED  BY <2>4
<1> QED  BY <1>7, <1>10, <1>11

LEMMA DownLooks ==
  ASSUME Inv1, DownStream, ClientLooks
  PROVE  DownStream'
<1>1. /\ cli = "play" /\ cli' = (IF down = <<>> /\ downEnd THEN "over" ELSE "recv")
      /\ UNCHANGED <<me, down, downEnd, lost, cbuf, heard, split, mode, told, ended>>
  BY DEF ClientLooks, stream
<1>2. SUFFICES ASSUME cli' = "recv" PROVE DownClean'
  BY <1>1 DEF DownStream
<1>3. ~DownTainted
  BY <1>1, <1>2 DEF DownTainted
<1>4. IsPrefix(heard, told) /\ Carries(cbuf \o down, DownCount, DownMsg, DownTaken, ~lost)
  BY <1>1, <1>3, DownChats
<1>5. DownCount' = DownCount /\ DownMsg' = DownMsg /\ DownTaken' = DownTaken /\ (~lost)' = (~lost)
  BY <1>1, <1>2, DownSame DEF DownTaken
<1>6. Carries(cbuf' \o down', DownCount', DownMsg', DownTaken', (~lost)')
  BY <1>1, <1>4, <1>5
<1>7. cbuf' \in Seq(Byte)
  BY <1>1 DEF Inv1, TypeOK
<1> QED  BY <1>1, <1>2, <1>4, <1>6, <1>7 DEF DownClean

LEMMA DownReads ==
  ASSUME Inv1, SeatAgreed, DownStream, recv_chat_message_from_server
  PROVE  DownStream'
<1>1. /\ cli = "recv" /\ ~IsGameEnd(cbuf) /\ ~Complete(cbuf) /\ ClientReads(Field(cbuf))
      /\ UNCHANGED <<me, downEnd, lost, cli, heard, split, mode, told, ended>>
  BY DEF recv_chat_message_from_server
<1>2. down \in Seq(Byte) /\ cbuf \in Seq(Byte) /\ Fits(cbuf)
  BY <1>1 DEF Inv1, TypeOK, ClientOrder
<1>3. /\ down' \in Seq(Byte) /\ cbuf' \in Seq(Byte)
      /\ \/ cbuf' \o down' = cbuf \o down
         \/ down = <<>> /\ down' = <<>> /\ downEnd
  BY <1>1, <1>2, ClientReadsBytes
<1>4. down = <<>> => down' = <<>>
  BY <1>1 DEF ClientReads, After
<1>5. IsPrefix(heard, told)
  BY <1>1, DownChats DEF DownTainted
<1>6. CASE downEnd /\ down' = <<>> /\ (~split => ~ended \/ lost \/ me.winner = -1)
  BY <1>1, <1>5, <1>6 DEF DownStream, DownTainted
<1>7. CASE /\ cbuf' \o down' = cbuf \o down
           /\ Carries(cbuf \o down, DownCount, DownMsg, DownTaken, ~lost)
  <2>1. /\ DownCount' = DownCount /\ DownMsg' = DownMsg /\ DownTaken' = DownTaken
        /\ (~lost)' = (~lost)
    BY <1>1, DownSame DEF DownTaken
  <2>2. Carries(cbuf' \o down', DownCount', DownMsg', DownTaken', (~lost)')
    BY <1>7, <2>1
  <2> QED  BY <1>1, <1>3, <1>5, <2>2 DEF DownStream, DownClean
<1>8. CASE DownTainted
  BY <1>1, <1>4, <1>6, <1>8 DEF DownTainted
<1>9. CASE /\ down = <<>> /\ down' = <<>> /\ downEnd
           /\ Carries(cbuf \o down, DownCount, DownMsg, DownTaken, ~lost)
  <2>1. ~split => ~ended \/ lost \/ me.winner = -1
    BY <1>1, <1>5, <1>9, NothingIsDue
  <2> QED  BY <1>6, <1>9, <2>1
<1> QED  BY <1>1, <1>3, <1>7, <1>8, <1>9, DownChats

LEMMA DownShown ==
  ASSUME Inv1, DownStream, ChatIsShown
  PROVE  DownStream' /\ FaithfulUntil(downEnd, heard, told)'
<1> DEFINE msg == deserialize_chat_message(cbuf, SERVER_CHAT_CODE)
           A == AnyChat(SERVER_CHAT_CODE)
           f == Len(heard)
<1>1. /\ cli = "recv" /\ Complete(cbuf) /\ cbuf' = <<>> /\ cli' = "play"
      /\ UNCHANGED <<me, down, downEnd, lost, ccount, mode, told, ended, split>>
      /\ \/ msg = NULL /\ heard' = heard
         \/ msg # NULL /\ heard' = Append(heard, msg)
  BY DEF ChatIsShown, stream
<1>2. heard \in Seq(A) /\ told \in Seq(Chats) /\ msg \in A /\ down \in Seq(Byte)
  BY DEF Inv1, MoreTypes, TypeOK, AnyChat
<1> HIDE DEF A
<1>3. CASE IsPrefix(heard, told) /\ Carries(cbuf \o down, DownCount, DownMsg, DownTaken, ~lost)
  <2> DEFINE s == told[f + 1]
  <2>1. /\ f < Len(told) /\ msg = s /\ s \in Chats
        /\ Carries(down, DownCount, DownMsg, DownTaken + 1, ~lost)
    BY <1>1, <1>3, NextTold
  <2>2. msg # NULL
    BY <2>1, ChatIsNotNull
  <2>3. heard' = Append(heard, msg)
    BY <1>1, <2>2
  <2>4. IsPrefix(Append(heard, msg), told)
    <3>1. f < Len(told) /\ msg = told[f + 1]
      BY <2>1
    <3> HIDE DEF msg
    <3> QED  BY <1>2, <1>3, <3>1, LongerPrefix
  <2> HIDE DEF msg, s
  <2>5. IsPrefix(heard', told')
    BY <1>1, <2>3, <2>4
  <2>6. DownTaken' = DownTaken + 1
    <3>1. Len(heard') = f + 1 /\ f \in Nat
      BY <1>2, <2>3
    <3> HIDE DEF f
    <3>2. DownTaken' = 1 + (f + 1) /\ DownTaken = 1 + f
      BY <1>1, <3>1 DEF DownTaken, f
    <3> QED  BY <3>1, <3>2
  <2>7. DownClean'
    <3> DEFINE none == <<>>
    <3>1. none \in Seq(Byte) /\ none = cbuf'
      BY <1>1
    <3>2. DownCount' = DownCount /\ DownMsg' = DownMsg /\ (~lost)' = (~lost) /\ down' = down
      BY <1>1, DownSame
    <3>3. Carries(none \o down', DownCount', DownMsg', DownTaken', (~lost)')
      BY <1>2, <2>1, <2>6, <3>2, NothingMore
    <3> HIDE DEF none
    <3> QED  BY <1>1, <2>5, <3>1, <3>3 DEF DownClean
  <2> QED  BY <2>5, <2>7 DEF DownStream, FaithfulUntil
<1>4. CASE DownTainted
  <2>1. /\ downEnd' /\ down' = <<>> /\ IsPrefix(heard, told)
        /\ (~split' => ~ended' \/ lost' \/ me'.winner = -1)
    BY <1>1, <1>4 DEF DownTainted
  <2>2. DownStream'
    BY <1>1, <2>1 DEF DownStream, DownTainted
  <2>3. heard' = heard \/ Front(heard') = heard
    <3> HIDE DEF msg
    <3>1. Front(Append(heard, msg)) = heard
      BY <1>2, FrontOfMore
    <3> QED  BY <1>1, <3>1
  <2> QED  BY <1>1, <2>1, <2>2, <2>3 DEF FaithfulUntil
<1> QED  BY <1>1, <1>3, <1>4, DownChats

\* Every step, on the way to the client.
LEMMA NextDown ==
  ASSUME Inv1, SeatAgreed, DownStream, [Next]_vars
  PROVE  DownStream'
<1>1. CASE send_connexion_information
  BY <1>1, DownAnswered
<1>2. CASE recv_connexion_information_raw
  BY <1>2, DownGathers
<1>3. CASE send_ready_connexion_information
  BY <1>3, DownInformed
<1>4. CASE ReadyTimeout \/ CloseSockets
  BY <1>4, DownCloses
<1>5. CASE send_chat_message
  BY <1>5, DownTold
<1>6. CASE send_game_over
  BY <1>6, DownEnded
<1>7. CASE ClientLooks
  BY <1>7, DownLooks
<1>8. CASE recv_chat_message_from_server
  BY <1>8, DownReads
<1>9. CASE ChatIsShown
  BY <1>9, DownShown
<1>10. CASE GameIsOver \/ ClientLeaves
  <2>1. cli' \in {"over", "left"}
    BY <1>10 DEF GameIsOver, ClientLeaves
  <2> QED  BY <2>1 DEF DownStream
<1>11. CASE \/ \E at \in {"initial", "ready"} : recv_connexion_header_raw(at)
            \/ ServerIsReady \/ handle_tcp_communication \/ SelectTimeout \/ recv_chat_message
            \/ handle_chat_message \/ client_send_chat_message \/ UNCHANGED vars
  <2>1. UNCHANGED <<me, cli, cbuf, ccount, heard, told, ended, mode, down, downEnd, lost>>
    BY <1>11 DEF recv_connexion_header_raw, ServerIsReady, handle_tcp_communication, SelectTimeout,
       recv_chat_message, handle_chat_message, client_send_chat_message, vars, stream, sides,
       clientSide
  <2>2. split => split'
    <3>1. CASE \E at \in {"initial", "ready"} : recv_connexion_header_raw(at)
      BY <3>1, Zenon DEF recv_connexion_header_raw, ServerGathers
    <3>2. CASE \/ ServerIsReady \/ handle_tcp_communication \/ SelectTimeout \/ recv_chat_message
               \/ handle_chat_message \/ client_send_chat_message \/ UNCHANGED vars
      BY <3>2 DEF ServerIsReady, handle_tcp_communication, SelectTimeout,
         recv_chat_message, handle_chat_message, client_send_chat_message, vars
    <3> QED  BY <1>11, <3>1, <3>2
  <2> QED  BY <2>1, <2>2, DownKept
<1> QED  BY <1>1, <1>2, <1>3, <1>4, <1>5, <1>6, <1>7, <1>8, <1>9, <1>10, <1>11
         DEF Next, ServerNext, ClientNext, ChatThread

-----------------------------------------------------------------------------
(* What never goes back. *)

LEMMA Forward ==
  ASSUME Inv1, [Next]_vars
  PROVE  /\ me' = me /\ (split => split') /\ (upEnd => upEnd') /\ (downEnd => downEnd')
         /\ (lost => lost') /\ (downEnd => ended' = ended)
<1>1. split => split'
  <2>1. CASE \/ \E at \in {"initial", "ready"} : recv_connexion_header_raw(at)
             \/ recv_connexion_information_raw
    BY <2>1, Zenon DEF recv_connexion_header_raw, ServerGathers, recv_connexion_information_raw,
       ClientGathers
  <2>2. CASE ServerIsReady \/ handle_tcp_communication \/ SelectTimeout \/ recv_chat_message
             \/ handle_chat_message \/ client_send_chat_message \/ UNCHANGED vars
    BY <2>2 DEF ServerIsReady, handle_tcp_communication, SelectTimeout,
       recv_chat_message, handle_chat_message, client_send_chat_message, vars
  <2>3. CASE send_connexion_information \/ send_ready_connexion_information \/ ReadyTimeout
             \/ CloseSockets \/ send_chat_message \/ send_game_over \/ ClientLeaves \/ ChatThread
    BY <2>3 DEF send_connexion_information, send_ready_connexion_information, ReadyTimeout,
       CloseSockets, send_chat_message, send_game_over, ClientLeaves, ChatThread, ClientLooks,
       recv_chat_message_from_server, ChatIsShown, GameIsOver
  <2> QED  BY <2>1, <2>2, <2>3 DEF Next, ServerNext, ClientNext
<1>2. lost => lost'
  <2>1. CASE ReadyTimeout \/ CloseSockets \/ ClientLeaves
    BY <2>1, Zenon DEF ReadyTimeout, CloseSockets, ServerCloses, ClientLeaves
  <2>2. CASE ~(ReadyTimeout \/ CloseSockets \/ ClientLeaves)
    BY <2>2 DEF Next, ServerNext, ClientNext, vars, stream, recv_connexion_header_raw,
       send_connexion_information, ServerIsReady, handle_tcp_communication, SelectTimeout,
       recv_chat_message, handle_chat_message, send_chat_message, send_game_over,
       recv_connexion_information_raw, send_ready_connexion_information,
       client_send_chat_message, ChatThread, ClientLooks,
       recv_chat_message_from_server, ChatIsShown, GameIsOver
  <2> QED  BY <2>1, <2>2
<1>3. me' = me /\ (upEnd => upEnd') /\ (downEnd => downEnd')
  BY DEF Next, ServerNext, ClientNext, vars, stream, sides, clientSide, recv_connexion_header_raw,
     send_connexion_information, ServerIsReady, ReadyTimeout, CloseSockets, ServerCloses,
     handle_tcp_communication, SelectTimeout,
     recv_chat_message, handle_chat_message, send_chat_message, send_game_over,
     recv_connexion_information_raw, send_ready_connexion_information,
     client_send_chat_message, ClientLeaves, ChatThread, ClientLooks,
     recv_chat_message_from_server, ChatIsShown, GameIsOver
<1>4. downEnd => ended' = ended
  <2>1. CASE send_game_over
    BY <2>1 DEF send_game_over, Inv1, ServerOrder
  <2>2. CASE ~send_game_over
    BY <2>2 DEF Next, ServerNext, ClientNext, vars, recv_connexion_header_raw,
       send_connexion_information, ServerIsReady, ReadyTimeout, CloseSockets,
       handle_tcp_communication, SelectTimeout,
       recv_chat_message, handle_chat_message, send_chat_message,
       recv_connexion_information_raw, send_ready_connexion_information,
       client_send_chat_message, ClientLeaves, ChatThread, ClientLooks,
       recv_chat_message_from_server, ChatIsShown, GameIsOver
  <2> QED  BY <2>1, <2>2
<1> QED  BY <1>1, <1>2, <1>3, <1>4

-----------------------------------------------------------------------------
(* The three properties. *)

LEMMA NextChats ==
  ASSUME Inv1, UpStream, DownStream, ChatsInOrder, [Next]_vars
  PROVE  ChatsInOrder'
<1>1. (upEnd => upEnd') /\ (downEnd => downEnd')
  BY Forward
<1>2. FaithfulUntil(upEnd, forwarded, said)'
  <2>1. CASE handle_chat_message
    BY <2>1, UpHandled
  <2>2. CASE client_send_chat_message
    <3>1. PICK type \in MessageType, text \in Texts :
            said' = Append(said, [type |-> type, id |-> seat.id, eq |-> seat.eq,
                                  message_length |-> Len(text), message |-> text])
      BY <2>2 DEF client_send_chat_message
    <3> DEFINE msg == [type |-> type, id |-> seat.id, eq |-> seat.eq,
                       message_length |-> Len(text), message |-> text]
    <3>2. /\ cli \in {"play", "recv"} /\ forwarded' = forwarded /\ upEnd' = upEnd
          /\ said' = Append(said, msg)
      BY <2>2, <3>1 DEF client_send_chat_message
    <3>3. ~upEnd /\ seat.id \in 0..3 /\ seat.eq \in 0..1
      BY <3>2 DEF Inv1, ClientOrder, MoreTypes
    <3>4. msg \in Chats
      BY <3>3, TypedIsChat
    <3>5. IsPrefix(forwarded, said)
      BY <3>3 DEF ChatsInOrder, FaithfulUntil
    <3> HIDE DEF msg
    <3>6. IsPrefix(forwarded, said')
      BY <3>2, <3>4, <3>5, PrefixOfMore DEF Inv1, MoreTypes
    <3> QED  BY <3>2, <3>6 DEF FaithfulUntil
  <2>3. CASE ~handle_chat_message /\ ~client_send_chat_message
    <3>1. UNCHANGED <<forwarded, said>>
      BY <2>3 DEF Next, ServerNext, ClientNext, vars, clientSide, recv_connexion_header_raw,
         send_connexion_information, ServerIsReady, ReadyTimeout, CloseSockets,
         handle_tcp_communication, SelectTimeout,
         recv_chat_message, send_chat_message, send_game_over,
         recv_connexion_information_raw, send_ready_connexion_information,
         ClientLeaves, ChatThread, ClientLooks,
         recv_chat_message_from_server, ChatIsShown, GameIsOver
    <3> QED  BY <1>1, <3>1 DEF ChatsInOrder, FaithfulUntil
  <2> QED  BY <2>1, <2>2, <2>3
<1>3. FaithfulUntil(downEnd, heard, told)'
  <2>1. CASE ChatIsShown
    BY <2>1, DownShown
  <2>2. CASE send_chat_message
    <3>1. PICK type \in MessageType, text \in Texts :
            told' = Append(told, [type |-> type, id |-> (me.id + 1) % 4, eq |-> me.eq,
                                  message_length |-> Len(text), message |-> text])
      BY <2>2 DEF send_chat_message
    <3> DEFINE msg == [type |-> type, id |-> (me.id + 1) % 4, eq |-> me.eq,
                       message_length |-> Len(text), message |-> text]
    <3>2. /\ srv \in {"chat", "select", "done"} /\ heard' = heard /\ downEnd' = downEnd
          /\ told' = Append(told, msg)
      BY <2>2, <3>1 DEF send_chat_message, clientSide
    <3>3. ~downEnd /\ (me.id + 1) % 4 \in 0..3 /\ me.eq \in 0..1
      BY <3>2, Me DEF Inv1, ServerOrder, MoreTypes
    <3>4. msg \in Chats
      BY <3>3, TypedIsChat
    <3>5. IsPrefix(heard, told)
      BY <3>3 DEF ChatsInOrder, FaithfulUntil
    <3> HIDE DEF msg
    <3>6. IsPrefix(heard, told')
      BY <3>2, <3>4, <3>5, PrefixOfMore DEF Inv1, MoreTypes
    <3> QED  BY <3>2, <3>6 DEF FaithfulUntil
  <2>3. CASE ~ChatIsShown /\ ~send_chat_message
    <3>1. UNCHANGED <<heard, told>>
      BY <2>3 DEF Next, ServerNext, ClientNext, vars, clientSide, recv_connexion_header_raw,
         send_connexion_information, ServerIsReady, ReadyTimeout, CloseSockets,
         handle_tcp_communication, SelectTimeout,
         recv_chat_message, handle_chat_message, send_game_over,
         recv_connexion_information_raw, send_ready_connexion_information,
         client_send_chat_message, ClientLeaves, ChatThread, ClientLooks,
         recv_chat_message_from_server, GameIsOver
    <3> QED  BY <1>1, <3>1 DEF ChatsInOrder, FaithfulUntil
  <2> QED  BY <2>1, <2>2, <2>3
<1> QED  BY <1>2, <1>3 DEF ChatsInOrder

LEMMA NextSeat ==
  ASSUME Inv1, UpStream, DownStream, SeatAgreed, [Next]_vars
  PROVE  SeatAgreed'
<1>1. me' = me /\ (split => split')
  BY Forward
<1>2. CASE send_connexion_information
  <2>1. /\ srv = "initial" /\ scount = 2 /\ UNCHANGED <<seat, split>>
        /\ mode' = mode \/ mode' = deserialize_initial_connection(sbuf)
    BY <1>2 DEF send_connexion_information, clientSide
  <2>2. ~split => deserialize_initial_connection(sbuf) = me.mode
    <3> SUFFICES ASSUME ~split PROVE deserialize_initial_connection(sbuf) = me.mode
      OBVIOUS
    <3>1. UpTaken = 0 /\ sbuf = UpMsg[UpTaken + 1]
      <4>1. UpTaken = 0
        BY <2>1 DEF UpTaken
      <4>2. sbuf = UpMsg[UpTaken + 1]
        BY <2>1, HeaderTaken DEF UpStart
      <4> QED  BY <4>1, <4>2
    <3>2. sbuf = UpMsg[1]
      BY <3>1
    <3>3. UpMsg[1] = serialize_initial_connection(me.mode)
      BY UpMessages
    <3>4. me.mode \in Mode
      BY Me DEF Inv1, MoreTypes
    <3> QED  BY <3>2, <3>3, <3>4, InitialRoundTrip
  <2> QED  BY <1>1, <2>1, <2>2 DEF SeatAgreed
<1>3. CASE send_ready_connexion_information
  <2> DEFINE info == deserialize_connection_information(cbuf)
  <2>1. /\ cli = "info" /\ ccount = 22 /\ UNCHANGED <<mode, split>>
        /\ seat' = seat \/ (info # NULL /\ seat' = info)
    BY <1>3 DEF send_ready_connexion_information
  <2>2. ~split /\ info # NULL => Learnt(info) = <<me.id, me.eq, Udp, Mult, Group>>
    <3> SUFFICES ASSUME ~split, info # NULL
                 PROVE  Learnt(info) = <<me.id, me.eq, Udp, Mult, Group>>
      OBVIOUS
    <3>1. cbuf = Information
      BY <2>1, InformationTaken
    <3> QED  BY <3>1, InformationBytes DEF Inv1, MoreTypes
  <2> HIDE DEF info
  <2> QED  BY <1>1, <2>1, <2>2 DEF SeatAgreed
<1>4. CASE ~send_connexion_information /\ ~send_ready_connexion_information
  <2>1. UNCHANGED <<mode, seat>>
    BY <1>4 DEF Next, ServerNext, ClientNext, vars, clientSide, recv_connexion_header_raw,
       ServerIsReady, ReadyTimeout, CloseSockets,
       handle_tcp_communication, SelectTimeout,
       recv_chat_message, handle_chat_message, send_chat_message, send_game_over,
       recv_connexion_information_raw,
       client_send_chat_message, ClientLeaves, ChatThread, ClientLooks,
       recv_chat_message_from_server, ChatIsShown, GameIsOver
  <2> QED  BY <1>1, <2>1, SeatKept
<1> QED  BY <1>2, <1>3, <1>4

LEMMA NextWinner ==
  ASSUME Inv1, DownStream, SeatAgreed, WinnerIsTrue, [Next]_vars
  PROVE  WinnerIsTrue'
<1>1. /\ me' = me /\ (split => split') /\ (downEnd => downEnd')
      /\ (lost => lost') /\ (downEnd => ended' = ended)
  BY Forward
<1>2. CASE GameIsOver
  <2> DEFINE end == deserialize_game_end(cbuf)
  <2>1. /\ cli = "recv" /\ IsGameEnd(cbuf)
        /\ winner' = IF me.mode = "SOLO" THEN end.id ELSE end.eq
        /\ UNCHANGED <<me, downEnd, lost, split, ended>>
    BY <1>2 DEF GameIsOver, stream
  <2>2. CASE DownTainted
    <3>1. downEnd /\ (~split => ~ended \/ lost \/ me.winner = -1)
      BY <2>2 DEF DownTainted
    <3> HIDE DEF end
    <3> QED  BY <2>1, <3>1 DEF WinnerIsTrue
  <2>3. CASE Carries(cbuf \o down, DownCount, DownMsg, DownTaken, ~lost)
    <3>1. ~split => winner' = me.winner
      BY <2>1, <2>3, EndIsTrue
    <3> QED  BY <2>1, <3>1 DEF WinnerIsTrue
  <2> QED  BY <2>1, <2>2, <2>3, DownChats
<1>3. CASE ~GameIsOver
  <2>1. winner' = winner
    BY <1>3 DEF Next, ServerNext, ClientNext, vars, clientSide, recv_connexion_header_raw,
       send_connexion_information, ServerIsReady, ReadyTimeout, CloseSockets,
       handle_tcp_communication, SelectTimeout,
       recv_chat_message, handle_chat_message, send_chat_message, send_game_over,
       recv_connexion_information_raw, send_ready_connexion_information,
       client_send_chat_message, ClientLeaves, ChatThread, ClientLooks,
       recv_chat_message_from_server, ChatIsShown
  <2> QED  BY <1>1, <2>1, WinnerKept
<1> QED  BY <1>2, <1>3

LEMMA PrefixItself ==
  ASSUME NEW S, NEW p \in Seq(S)
  PROVE  IsPrefix(p, p)
<1>1. Len(p) <= Len(p)
  <2>1. Len(p) \in Nat
    OBVIOUS
  <2> QED  BY <2>1
<1> QED  BY <1>1, PrefixElements

WireInv == Inv1 /\ Inv2

LEMMA InitWire == Init => WireInv
<1> SUFFICES ASSUME Init PROVE Inv2
  BY InitBasics DEF WireInv
<1>1. Inv1
  BY InitBasics
<1> DEFINE none == <<>>
<1>2. /\ srv = "initial" /\ scount = 0 /\ sbuf = none /\ cli = "info" /\ ccount = 0 /\ cbuf = none
      /\ up = serialize_initial_connection(me.mode) /\ down = none /\ lost = FALSE
      /\ mode = NULL /\ seat = NULL /\ winner = NULL
      /\ said = none /\ forwarded = none /\ told = none /\ heard = none /\ ended = FALSE
  BY DEF Init
<1>3. none \in Seq(Byte) /\ Len(none) = 0 /\ none \o none = none /\ none \o up = up
  BY <1>1, NothingMore DEF Inv1, TypeOK
<1>4. UpStream
  <2> DEFINE M == [i \in 1..0 |-> up]
             n == 0
             whole == cli # "left"
  <2>1. UpCount = 1 /\ UpMsg[1] = up /\ UpTaken = 0
    BY <1>1, <1>2, UpMessages DEF UpCount, UpTaken
  <2>2. up \in Seq(Byte)
    BY <1>1 DEF Inv1, TypeOK
  <2>3. Carries(none, n, M, 0, TRUE)
    BY CarriesNothing
  <2>4. AreMessages(n, M) /\ (\A i \in 1..n : UpMsg[i] = M[i]) /\ n + 1 = 1 /\ n \in Nat
    BY DEF AreMessages
  <2> HIDE DEF M, n
  <2>5. Carries(none \o UpMsg[n + 1], n + 1, UpMsg, 0, TRUE)
    <3>1. UpMsg[n + 1] \in Seq(Byte)
      BY <2>1, <2>2, <2>4
    <3> HIDE DEF none
    <3> QED  BY <1>3, <2>3, <2>4, <3>1, CarriesMore
  <2>6. whole = TRUE
    BY <1>2
  <2>7. Carries(none \o up, UpCount, UpMsg, UpTaken, whole)
    BY <2>1, <2>4, <2>5, <2>6
  <2> HIDE DEF none, whole
  <2>8. Len(none) = scount /\ none = sbuf
    BY <1>2, <1>3
  <2>9. UpClean
    BY <1>2, <1>3, <2>7, <2>8 DEF UpClean, whole
  <2> QED  BY <2>9 DEF UpStream
<1>5. DownStream
  <2>1. DownCount = 0 /\ DownTaken = 0 /\ (~lost) = TRUE
    BY <1>2 DEF DownCount, DownTaken
  <2>2. Carries(none, 0, DownMsg, 0, TRUE)
    BY CarriesNothing
  <2>3. Carries(none \o down, DownCount, DownMsg, DownTaken, ~lost)
    BY <1>2, <1>3, <2>1, <2>2
  <2> HIDE DEF none
  <2>4. Len(none) = ccount /\ none = cbuf
    BY <1>2, <1>3
  <2>5. DownClean
    BY <1>2, <1>3, <2>3, <2>4 DEF DownClean
  <2> QED  BY <2>5 DEF DownStream
<1>6. ChatsInOrder
  <2>1. said \in Seq(Chats) /\ told \in Seq(Chats) /\ Len(said) = 0 /\ Len(told) = 0
    BY <1>1, <1>2 DEF Inv1, MoreTypes
  <2>2. IsPrefix(forwarded, said) /\ IsPrefix(heard, told)
    <3>1. forwarded = said /\ heard = told
      BY <1>2
    <3>2. IsPrefix(said, said)
      BY <2>1, PrefixItself
    <3>3. IsPrefix(told, told)
      BY <2>1, PrefixItself
    <3> QED  BY <3>1, <3>2, <3>3
  <2> QED  BY <2>2 DEF ChatsInOrder, FaithfulUntil
<1>7. SeatAgreed /\ WinnerIsTrue
  BY <1>2 DEF SeatAgreed, WinnerIsTrue
<1> QED  BY <1>4, <1>5, <1>6, <1>7 DEF Inv2

LEMMA NextWire == WireInv /\ [Next]_vars => WireInv'
<1> SUFFICES ASSUME WireInv, [Next]_vars PROVE WireInv'
  OBVIOUS
<1>1. Inv1 /\ UpStream /\ DownStream /\ ChatsInOrder /\ SeatAgreed /\ WinnerIsTrue
  BY DEF WireInv, Inv2
<1>2. Inv1'
  BY <1>1, NextBasics
<1>3. UpStream' /\ DownStream' /\ ChatsInOrder' /\ SeatAgreed' /\ WinnerIsTrue'
  BY <1>1, NextUp, NextDown, NextChats, NextSeat, NextWinner
<1> QED  BY <1>2, <1>3 DEF WireInv, Inv2

LEMMA WireInvariant == Spec => []WireInv
<1>1. Init => WireInv
  BY InitWire
<1>2. WireInv /\ [Next]_vars => WireInv'
  BY NextWire
<1> QED  BY <1>1, <1>2, PTL DEF Spec

\* Whatever parts recv returns, the lines of the chat are passed on and shown
\* as they were typed and in that order, up to one that nobody typed when the
\* connection has ended: recv_tcp, handle_chat_message and the client's loop.
THEOREM WireChatsInOrder == Spec => []ChatsInOrder
<1>1. WireInv => ChatsInOrder
  BY DEF WireInv, Inv2
<1> QED  BY <1>1, WireInvariant, PTL

\* The server and the client agree about the mode, the seat, the ports and the
\* group unless a message of the start was given in two parts:
\* recv_connexion_header_raw and recv_connexion_information_raw.
THEOREM WireSeatAgreed == Spec => []SeatAgreed
<1>1. WireInv => SeatAgreed
  BY DEF WireInv, Inv2
<1> QED  BY <1>1, WireInvariant, PTL

\* The winner the client prints is the winner of the match, unless the
\* connection ended before the end of the game was sent, or lost it:
\* send_game_over and chat_message_thread_function.
THEOREM WireWinnerIsTrue == Spec => []WinnerIsTrue
<1>1. WireInv => WinnerIsTrue
  BY DEF WireInv, Inv2
<1> QED  BY <1>1, WireInvariant, PTL
=============================================================================
