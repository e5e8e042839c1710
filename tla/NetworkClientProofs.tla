------------------------ MODULE NetworkClientProofs ------------------------
(***************************************************************************)
(* What holds of a NetworkClient for every message size, send limit and    *)
(* number of connections and messages.  First what the member functions do *)
(* to the operations and the send queue, and the inductive invariant of    *)
(* these, NetworkClientInv; then what they do to the frame, that is what   *)
(* is between the server's messages and the owner's callbacks, and its     *)
(* invariant, FrameInv, with which every step is one that Connection has.  *)
(***************************************************************************)
EXTENDS NetworkClient, SequenceTheorems, WellFoundedInduction, TLAPS

-----------------------------------------------------------------------------
(* Sequences of sequences, one after the other.                            *)

\* A set of natural numbers that is not empty has a least element.
LEMMA LeastElement ==
  ASSUME NEW S \in SUBSET Nat, S # {}
  PROVE  \E m \in S : \A n \in S : m <= n
<1>1. PICK m \in S : \A n \in S : ~(<<n, m>> \in OpToRel(<, Nat))
  BY NatLessThanWellFounded, WFMin, Zenon
<1>2. \A n \in S : m <= n
  <2> TAKE n \in S
  <2>1. ~(n < m)
    BY <1>1 DEF OpToRel
  <2> QED
    BY <2>1
<1> QED
  BY <1>2

\* What holds of zero, and of the next number with each one, holds up to m.
LEMMA UpTo ==
  ASSUME NEW m \in Nat, NEW S, 0 \in S, \A n \in 0 .. m - 1 : n \in S => n + 1 \in S
  PROVE  \A n \in 0 .. m : n \in S
<1> DEFINE bad == {n \in 0 .. m : n \notin S}
<1>1. SUFFICES ASSUME bad # {} PROVE FALSE
  OBVIOUS
<1>2. bad \in SUBSET Nat
  OBVIOUS
<1>3. PICK least \in bad : \A n \in bad : least <= n
  <2> HIDE DEF bad
  <2> QED
    BY <1>1, <1>2, LeastElement
<1>4. least \in 1 .. m /\ least - 1 \in 0 .. m - 1 /\ least - 1 \notin bad
  BY <1>3
<1>5. (least - 1) + 1 \in S
  BY <1>4
<1> QED
  BY <1>3, <1>4, <1>5

\* f[n] is the first n pieces, one after the other.
Joining(f, pieces, count) ==
    f = [i \in 1 .. count |-> IF i = 1 THEN pieces[i] ELSE f[i - 1] \o pieces[i]]

LEMMA JoiningExists ==
  ASSUME NEW pieces, NEW count \in Nat
  PROVE  \E f : Joining(f, pieces, count)
<1> DEFINE S == {n \in Nat : \E f : Joining(f, pieces, n)}
<1>1. 0 \in S
  <2> DEFINE f == [i \in 1 .. 0 |-> pieces]
  <2>1. Joining(f, pieces, 0)
    BY DEF Joining
  <2> QED
    BY <2>1
<1>2. ASSUME NEW n \in 0 .. count - 1, n \in S
      PROVE  n + 1 \in S
  <2>1. PICK f : Joining(f, pieces, n)
    BY <1>2
  <2> DEFINE g == [i \in 1 .. n + 1 |-> IF i = 1 THEN pieces[i]
                                         ELSE IF i = n + 1 THEN f[n] \o pieces[i] ELSE f[i]]
  <2>2. \A i \in 1 .. n : f[i] = IF i = 1 THEN pieces[i] ELSE f[i - 1] \o pieces[i]
    BY <2>1 DEF Joining
  <2>9. \A i \in 1 .. n + 1 :
           g[i] = IF i = 1 THEN pieces[i] ELSE IF i = n + 1 THEN f[n] \o pieces[i] ELSE f[i]
    OBVIOUS
  <2>5. g = [i \in 1 .. n + 1 |-> g[i]]
    OBVIOUS
  <2> HIDE DEF g
  <2>3. \A i \in 1 .. n : g[i] = f[i]
    BY <2>2, <2>9
  <2>4. \A i \in 1 .. n + 1 : g[i] = IF i = 1 THEN pieces[i] ELSE g[i - 1] \o pieces[i]
    <3> TAKE i \in 1 .. n + 1
    <3>1. CASE i = 1
      BY <2>9, <3>1, Zenon
    <3>2. CASE i # 1 /\ i = n + 1
      <4>1. n \in 1 .. n /\ i - 1 = n
        BY <3>2
      <4>2. g[i] = f[n] \o pieces[i]
        BY <2>9, <3>2, Zenon
      <4>3. g[i - 1] = f[n]
        BY <2>3, <4>1, Zenon
      <4> QED
        BY <3>2, <4>2, <4>3, Zenon
    <3>3. CASE i # 1 /\ i # n + 1
      <4>1. i \in 1 .. n /\ i - 1 \in 1 .. n
        BY <3>3
      <4>2. g[i] = f[i] /\ g[i - 1] = f[i - 1]
        BY <2>3, <4>1
      <4> QED
        BY <2>2, <3>3, <4>1, <4>2
    <3> QED
      BY <3>1, <3>2, <3>3
  <2>6. Joining(g, pieces, n + 1)
    BY <2>4, <2>5 DEF Joining
  <2> QED
    BY <2>6
<1>3. \A n \in 0 .. count : n \in S
  <2> HIDE DEF S
  <2> QED
    BY <1>1, <1>2, UpTo
<1> QED
  BY <1>3

\* FlattenSeq is the last of the sequences that grow by one piece each.
LEMMA FlattenSteps ==
  ASSUME NEW pieces, Len(pieces) \in Nat \ {0}
  PROVE  \E f : /\ FlattenSeq(pieces) = f[Len(pieces)]
                /\ f[1] = pieces[1]
                /\ \A i \in 2 .. Len(pieces) : f[i] = f[i - 1] \o pieces[i]
<1> DEFINE flatten == CHOOSE f : f = [i \in 1 .. Len(pieces) |->
                          IF i = 1 THEN pieces[i] ELSE f[i - 1] \o pieces[i]]
<1>1. FlattenSeq(pieces) = flatten[Len(pieces)]
  BY DEF FlattenSeq
<1>2. \E f : f = [i \in 1 .. Len(pieces) |->
                    IF i = 1 THEN pieces[i] ELSE f[i - 1] \o pieces[i]]
  <2>1. \E f : Joining(f, pieces, Len(pieces))
    BY JoiningExists
  <2> QED
    BY <2>1, Zenon DEF Joining
<1>3. flatten = [i \in 1 .. Len(pieces) |->
                   IF i = 1 THEN pieces[i] ELSE flatten[i - 1] \o pieces[i]]
  BY <1>2, Zenon
<1> HIDE DEF flatten
<1>4. \A i \in 1 .. Len(pieces) :
         flatten[i] = IF i = 1 THEN pieces[i] ELSE flatten[i - 1] \o pieces[i]
  BY <1>3, Zenon
<1>5. 1 \in 1 .. Len(pieces) /\ \A i \in 2 .. Len(pieces) : i \in 1 .. Len(pieces) /\ i # 1
  OBVIOUS
<1>6. /\ flatten[1] = pieces[1]
      /\ \A i \in 2 .. Len(pieces) : flatten[i] = flatten[i - 1] \o pieces[i]
  BY <1>4, <1>5, Zenon
<1> QED
  BY <1>1, <1>6

\* The pieces of a flattened sequence are its elements, also of one more piece.
LEMMA FlattenAppend ==
  ASSUME NEW A, NEW pieces \in Seq(Seq(A)), NEW piece \in Seq(A)
  PROVE  /\ FlattenSeq(pieces) \in Seq(A)
         /\ FlattenSeq(Append(pieces, piece)) = FlattenSeq(pieces) \o piece
<1> DEFINE longer == Append(pieces, piece)
           n == Len(pieces)
<1>1. /\ n \in Nat /\ longer \in Seq(Seq(A)) /\ Len(longer) = n + 1
      /\ \A i \in 1 .. n : longer[i] = pieces[i]
      /\ longer[n + 1] = piece
      /\ \A i \in 1 .. n : pieces[i] \in Seq(A)
  BY AppendProperties
<1> HIDE DEF longer
<1>2. PICK g : /\ FlattenSeq(longer) = g[n + 1]
               /\ g[1] = longer[1]
               /\ \A i \in 2 .. n + 1 : g[i] = g[i - 1] \o longer[i]
  <2>1. Len(longer) \in Nat \ {0}
    BY <1>1
  <2> QED
    <3>1. \E f : /\ FlattenSeq(longer) = f[Len(longer)]
                 /\ f[1] = longer[1]
                 /\ \A i \in 2 .. Len(longer) : f[i] = f[i - 1] \o longer[i]
      BY <2>1, FlattenSteps
    <3> QED
      BY <1>1, <3>1
<1>3. CASE n = 0
  <2>1. FlattenSeq(pieces) = <<>> /\ FlattenSeq(longer) = piece
    <3>1. pieces = <<>>
      BY <1>3
    <3> QED
      BY <1>1, <1>2, <1>3, <3>1 DEF FlattenSeq
  <2> QED
    BY <2>1, ConcatEmptySeq DEF longer
<1>4. CASE n # 0
  <2>1. n \in 1 .. n /\ n \in Nat \ {0}
    BY <1>1, <1>4
  <2>2. PICK f : /\ FlattenSeq(pieces) = f[n]
                 /\ f[1] = pieces[1]
                 /\ \A i \in 2 .. n : f[i] = f[i - 1] \o pieces[i]
    BY <2>1, FlattenSteps
  <2> DEFINE S == {k \in 0 .. n : k # 0 => f[k] = g[k] /\ f[k] \in Seq(A)}
  <2>3. 0 \in S
    BY <1>1
  <2>4. ASSUME NEW k \in 0 .. n - 1, k \in S
        PROVE  k + 1 \in S
    <3>1. CASE k = 0
      BY <1>1, <1>2, <2>1, <2>2, <3>1
    <3>2. CASE k # 0
      <4>1. k + 1 \in 2 .. n /\ k + 1 \in 2 .. n + 1 /\ k + 1 \in 1 .. n /\ (k + 1) - 1 = k
        BY <1>1, <3>2
      <4>2. f[k + 1] = f[k] \o pieces[k + 1] /\ g[k + 1] = g[k] \o longer[k + 1]
        BY <1>2, <2>2, <4>1
      <4>3. f[k] = g[k] /\ f[k] \in Seq(A) /\ pieces[k + 1] \in Seq(A)
            /\ longer[k + 1] = pieces[k + 1]
        BY <1>1, <2>4, <3>2, <4>1
      <4> QED
        <5> DEFINE x == f[k]
                   y == pieces[k + 1]
        <5>1. f[k + 1] = x \o y /\ g[k + 1] = x \o y /\ x \in Seq(A) /\ y \in Seq(A)
          BY <4>2, <4>3
        <5> HIDE DEF x, y
        <5>2. x \o y \in Seq(A)
          BY <5>1, ConcatProperties
        <5>3. f[k + 1] = g[k + 1] /\ f[k + 1] \in Seq(A)
          BY <5>1, <5>2
        <5> QED
          BY <2>1, <4>1, <5>3
    <3> QED
      BY <3>1, <3>2
  <2>5. n \in S
    <3> HIDE DEF S, n
    <3>1. \A k \in 0 .. n : k \in S
      BY <1>1, <2>3, <2>4, UpTo
    <3> QED
      BY <1>1, <3>1
  <2> HIDE DEF S
  <2>6. f[n] = g[n] /\ f[n] \in Seq(A)
    BY <1>4, <2>5 DEF S
  <2>7. n + 1 \in 2 .. n + 1 /\ (n + 1) - 1 = n
    BY <1>1, <2>1
  <2>8. g[n + 1] = g[n] \o piece
    BY <1>1, <1>2, <2>7
  <2> QED
    BY <1>2, <2>2, <2>6, <2>8 DEF longer
<1> QED
  BY <1>3, <1>4

\* Two sequences of pieces flatten one after the other.
LEMMA FlattenConcat ==
  ASSUME NEW A, NEW first \in Seq(Seq(A)), NEW second \in Seq(Seq(A))
  PROVE  /\ FlattenSeq(first \o second) = FlattenSeq(first) \o FlattenSeq(second)
         /\ FlattenSeq(first) \in Seq(A) /\ FlattenSeq(second) \in Seq(A)
<1> DEFINE n == Len(second)
           part(k) == SubSeq(second, 1, k)
           S == {k \in 0 .. n : FlattenSeq(first \o part(k)) = FlattenSeq(first) \o FlattenSeq(part(k))}
<1>1. n \in Nat /\ \A i \in 1 .. n : second[i] \in Seq(A)
  OBVIOUS
<1>2. <<>> \in Seq(A) /\ \A s \in Seq(Seq(A)) : FlattenSeq(s) \in Seq(A)
  BY FlattenAppend
<1>3. \A k \in 0 .. n : part(k) \in Seq(Seq(A))
  <2> TAKE k \in 0 .. n
  <2>1. 1 \in Int /\ k \in Int /\ \A i \in 1 .. k : second[i] \in Seq(A)
    BY <1>1
  <2> QED
    BY <2>1, SubSeqProperties
<1>4. 0 \in S
  <2>1. part(0) = <<>>
    BY SubSeqEmpty
  <2>2. FlattenSeq(<<>>) = <<>>
    BY DEF FlattenSeq
  <2>3. first \o <<>> = first /\ FlattenSeq(first) \o <<>> = FlattenSeq(first)
    BY <1>2, ConcatEmptySeq
  <2>4. FlattenSeq(first \o part(0)) = FlattenSeq(first) \o FlattenSeq(part(0))
    BY <2>1, <2>2, <2>3
  <2>5. 0 \in 0 .. n
    BY <1>1
  <2> QED
    BY <2>4, <2>5, Zenon
<1>5. ASSUME NEW k \in 0 .. n - 1, k \in S
      PROVE  k + 1 \in S
  <2> DEFINE p == part(k)
             q == second[k + 1]
  <2>1. /\ p \in Seq(Seq(A)) /\ q \in Seq(A) /\ k + 1 \in 0 .. n /\ k + 1 \in 1 .. n
        /\ first \o p \in Seq(Seq(A))
    <3>1. p \in Seq(Seq(A))
      BY <1>1, <1>3
    <3> QED
      BY <1>1, <3>1, ConcatProperties
  <2>2. part(k + 1) = p \o <<q>>
    <3>1. 1 \in 1 .. n /\ k + 1 \in 1 .. n /\ k + 1 \in 1 .. Len(second) /\ (k + 1) - 1 = k
      BY <1>1
    <3> QED
      BY <3>1, SubSeqRecursiveSecond
  <2>3. FlattenSeq(first \o p) = FlattenSeq(first) \o FlattenSeq(p)
    BY <1>5
  <2> HIDE DEF p, q, part, S
  <2>4. p \o <<q>> = Append(p, q) /\ <<q>> \in Seq(Seq(A))
    BY <2>1, AppendIsConcat
  <2>5. first \o (p \o <<q>>) = Append(first \o p, q)
    <3>1. (first \o p) \o <<q>> = first \o (p \o <<q>>)
      <4> DEFINE T == Seq(A)
                 z == <<q>>
      <4>1. first \in Seq(T) /\ p \in Seq(T) /\ z \in Seq(T)
        BY <2>1, <2>4
      <4> HIDE DEF T, z
      <4>2. (first \o p) \o z = first \o (p \o z)
        BY <4>1, ConcatAssociative, SMTT(60)
      <4> QED
        BY <4>2 DEF z
    <3>2. Append(first \o p, q) = (first \o p) \o <<q>>
      BY <2>1, AppendIsConcat
    <3> QED
      BY <3>1, <3>2
  <2>6. /\ FlattenSeq(first \o part(k + 1)) = FlattenSeq(first \o p) \o q
        /\ FlattenSeq(part(k + 1)) = FlattenSeq(p) \o q
    <3>1. FlattenSeq(Append(first \o p, q)) = FlattenSeq(first \o p) \o q
      BY <2>1, FlattenAppend
    <3>2. FlattenSeq(Append(p, q)) = FlattenSeq(p) \o q
      BY <2>1, FlattenAppend
    <3> QED
      BY <2>2, <2>4, <2>5, <3>1, <3>2
  <2>7. (FlattenSeq(first) \o FlattenSeq(p)) \o q = FlattenSeq(first) \o (FlattenSeq(p) \o q)
    <3> DEFINE x == FlattenSeq(first)
               y == FlattenSeq(p)
    <3>1. x \in Seq(A) /\ y \in Seq(A) /\ q \in Seq(A)
      BY <1>2, <2>1
    <3> HIDE DEF x, y
    <3>2. (x \o y) \o q = x \o (y \o q)
      BY <3>1, ConcatAssociative, SMTT(60)
    <3> QED
      BY <3>2 DEF x, y
  <2>8. FlattenSeq(first \o part(k + 1)) = FlattenSeq(first) \o FlattenSeq(part(k + 1))
    BY <2>3, <2>6, <2>7
  <2> QED
    BY <2>1, <2>8 DEF S
<1>6. n \in S
  <2> HIDE DEF S
  <2>1. n \in 0 .. n
    BY <1>1
  <2> QED
    BY <1>1, <1>4, <1>5, <2>1, UpTo
<1>7. part(n) = second
  BY SubSeqFull
<1> QED
  BY <1>2, <1>6, <1>7

\* What gives each member of B a sequence over A.
PiecesOf(B, A) == [B -> Seq(A)]

\* The pieces that the members of a sequence stand for, one after the other.
Pieces(piece, s) == [i \in DOMAIN s |-> piece[s[i]]]
FlatMap(piece, s) == FlattenSeq(Pieces(piece, s))

LEMMA PiecesType ==
  ASSUME NEW A, NEW B, NEW piece \in PiecesOf(B, A), NEW s \in Seq(B)
  PROVE  /\ Pieces(piece, s) \in Seq(Seq(A)) /\ Len(Pieces(piece, s)) = Len(s)
         /\ \A i \in 1 .. Len(s) : Pieces(piece, s)[i] = piece[s[i]]
<1>1. /\ Len(s) \in Nat /\ DOMAIN s = 1 .. Len(s)
      /\ \A i \in 1 .. Len(s) : s[i] \in B
  OBVIOUS
<1>2. \A i \in 1 .. Len(s) : piece[s[i]] \in Seq(A)
  BY <1>1 DEF PiecesOf
<1> DEFINE T == Seq(A)
<1>3. \A i \in 1 .. Len(s) : piece[s[i]] \in T
  BY <1>2
<1> HIDE DEF T
<1>4. Pieces(piece, s) \in Seq(T) /\ Len(Pieces(piece, s)) = Len(s)
  BY <1>1, <1>3 DEF Pieces
<1>5. \A i \in 1 .. Len(s) : Pieces(piece, s)[i] = piece[s[i]]
  BY <1>1 DEF Pieces
<1> QED
  BY <1>4, <1>5 DEF T

LEMMA FlatMapType ==
  ASSUME NEW A, NEW B, NEW piece \in PiecesOf(B, A), NEW s \in Seq(B)
  PROVE  FlatMap(piece, s) \in Seq(A)
<1>1. Pieces(piece, s) \in Seq(Seq(A)) /\ <<>> \in Seq(A)
  BY PiecesType
<1> QED
  BY <1>1, FlattenAppend DEF FlatMap

\* Two sequences stand for what one and then the other stands for.
LEMMA FlatMapConcat ==
  ASSUME NEW A, NEW B, NEW piece \in PiecesOf(B, A), NEW s \in Seq(B), NEW t \in Seq(B)
  PROVE  FlatMap(piece, s \o t) = FlatMap(piece, s) \o FlatMap(piece, t)
<1> DEFINE u == s \o t
           first == Pieces(piece, s)
           second == Pieces(piece, t)
           both == Pieces(piece, u)
           T == Seq(A)
           m == Len(s)
           n == Len(t)
<1>1. /\ u \in Seq(B) /\ Len(u) = m + n /\ m \in Nat /\ n \in Nat
      /\ \A i \in 1 .. m + n : u[i] = IF i <= m THEN s[i] ELSE t[i - m]
  BY ConcatProperties
<1>2. /\ first \in Seq(T) /\ Len(first) = m
      /\ second \in Seq(T) /\ Len(second) = n
      /\ \A i \in 1 .. m : first[i] = piece[s[i]]
      /\ \A i \in 1 .. n : second[i] = piece[t[i]]
  BY PiecesType
<1> HIDE DEF u
<1>3. /\ both \in Seq(T) /\ Len(both) = Len(u)
      /\ \A i \in 1 .. Len(u) : both[i] = piece[u[i]]
  BY <1>1, PiecesType
<1> HIDE DEF first, second, both, m, n, T
<1>4. /\ first \o second \in Seq(T) /\ Len(first \o second) = m + n
      /\ \A i \in 1 .. m + n :
            (first \o second)[i] = IF i <= m THEN first[i] ELSE second[i - m]
  <2>1. /\ first \o second \in Seq(T) /\ Len(first \o second) = Len(first) + Len(second)
        /\ \A i \in 1 .. Len(first) + Len(second) :
              (first \o second)[i] =
                 IF i <= Len(first) THEN first[i] ELSE second[i - Len(first)]
    BY <1>2, ConcatProperties
  <2> QED
    BY <1>2, <2>1
<1>5. \A i \in 1 .. m + n : both[i] = (first \o second)[i]
  <2> TAKE i \in 1 .. m + n
  <2>1. both[i] = piece[u[i]]
    BY <1>1, <1>3
  <2>2. CASE i <= m
    <3>1. i \in 1 .. m
      BY <1>1, <2>2
    <3>2. first[i] = piece[s[i]]
      BY <1>2, <3>1
    <3>3. u[i] = s[i] /\ (first \o second)[i] = first[i]
      BY <1>1, <1>4, <2>2
    <3> QED
      BY <2>1, <3>2, <3>3
  <2>3. CASE ~(i <= m)
    <3>1. i - m \in 1 .. n
      BY <1>1, <2>3
    <3>2. second[i - m] = piece[t[i - m]]
      BY <1>2, <3>1
    <3>3. u[i] = t[i - m] /\ (first \o second)[i] = second[i - m]
      BY <1>1, <1>4, <2>3
    <3> QED
      BY <2>1, <3>2, <3>3
  <2> QED
    BY <2>2, <2>3
<1>6. both = first \o second
  <2>1. Len(both) = m + n
    BY <1>1, <1>3
  <2> QED
    BY <1>3, <1>4, <1>5, <2>1, SeqEqual
<1>7. FlattenSeq(first \o second) = FlattenSeq(first) \o FlattenSeq(second)
  BY <1>2, FlattenConcat DEF T
<1> QED
  BY <1>6, <1>7 DEF FlatMap, both, first, second, u

\* A sequence of none stands for nothing, one of one member for its piece.
LEMMA FlatMapFew ==
  ASSUME NEW A, NEW B, NEW piece \in PiecesOf(B, A), NEW b \in B
  PROVE  FlatMap(piece, <<>>) = <<>> /\ FlatMap(piece, <<b>>) = piece[b]
<1> DEFINE none == <<>>
           one == piece[b]
<1>1. Pieces(piece, none) = <<>>
  BY DEF Pieces
<1>2. FlattenSeq(<<>>) = <<>>
  BY DEF FlattenSeq
<1>3. Pieces(piece, <<b>>) = <<one>>
  BY DEF Pieces
<1>4. one \in Seq(A)
  BY DEF PiecesOf
<1> HIDE DEF one
<1>5. FlattenSeq(Append(<<>>, one)) = FlattenSeq(<<>>) \o one
  <2>1. <<>> \in Seq(Seq(A))
    OBVIOUS
  <2> QED
    BY <1>4, <2>1, FlattenAppend
<1>6. Append(<<>>, one) = <<one>> /\ <<>> \o one = one
  BY <1>4, ConcatEmptySeq
<1>7. FlattenSeq(<<one>>) = one
  BY <1>2, <1>5, <1>6
<1> QED
  BY <1>1, <1>2, <1>3, <1>7 DEF FlatMap, one

\* With one more member, at either end, comes the piece of that member.
LEMMA FlatMapAppend ==
  ASSUME NEW A, NEW B, NEW piece \in PiecesOf(B, A), NEW s \in Seq(B), NEW b \in B
  PROVE  FlatMap(piece, Append(s, b)) = FlatMap(piece, s) \o piece[b]
<1>1. Append(s, b) = s \o <<b>> /\ <<b>> \in Seq(B)
  BY AppendIsConcat
<1>2. FlatMap(piece, s \o <<b>>) = FlatMap(piece, s) \o FlatMap(piece, <<b>>)
  <2> DEFINE one == <<b>>
  <2>1. one \in Seq(B)
    BY <1>1
  <2> HIDE DEF one
  <2>2. FlatMap(piece, s \o one) = FlatMap(piece, s) \o FlatMap(piece, one)
    BY <2>1, FlatMapConcat
  <2> QED
    BY <2>2 DEF one
<1>3. FlatMap(piece, <<b>>) = piece[b]
  BY FlatMapFew
<1> QED
  BY <1>1, <1>2, <1>3

LEMMA FlatMapTail ==
  ASSUME NEW A, NEW B, NEW piece \in PiecesOf(B, A), NEW s \in Seq(B), s # <<>>
  PROVE  /\ Head(s) \in B /\ Tail(s) \in Seq(B)
         /\ FlatMap(piece, s) = piece[Head(s)] \o FlatMap(piece, Tail(s))
<1> DEFINE h == Head(s)
           r == Tail(s)
<1>1. /\ h \in B /\ r \in Seq(B) /\ Len(s) \in Nat \ {0} /\ Len(r) = Len(s) - 1
      /\ \A i \in 1 .. Len(s) : s[i] = IF i = 1 THEN h ELSE r[i - 1]
  BY HeadTailProperties
<1> HIDE DEF h, r
<1>2. <<h>> \in Seq(B) /\ Len(<<h>>) = 1 /\ <<h>>[1] = h
  BY <1>1
<1>3. /\ <<h>> \o r \in Seq(B) /\ Len(<<h>> \o r) = 1 + Len(r)
      /\ \A i \in 1 .. 1 + Len(r) :
            (<<h>> \o r)[i] = IF i <= 1 THEN <<h>>[i] ELSE r[i - 1]
  BY <1>1, <1>2, ConcatProperties
<1>4. \A i \in 1 .. Len(s) : s[i] = (<<h>> \o r)[i]
  <2> TAKE i \in 1 .. Len(s)
  <2>1. i \in 1 .. 1 + Len(r) /\ (i <= 1 <=> i = 1)
    BY <1>1
  <2> QED
    BY <1>1, <1>2, <1>3, <2>1
<1>5. s = <<h>> \o r
  <2>1. Len(s) = Len(<<h>> \o r)
    BY <1>1, <1>3
  <2> QED
    BY <1>3, <1>4, <2>1, SeqEqual
<1>6. FlatMap(piece, <<h>> \o r) = FlatMap(piece, <<h>>) \o FlatMap(piece, r)
  <2> DEFINE one == <<h>>
  <2>1. one \in Seq(B)
    BY <1>2
  <2> HIDE DEF one
  <2>2. FlatMap(piece, one \o r) = FlatMap(piece, one) \o FlatMap(piece, r)
    BY <1>1, <2>1, FlatMapConcat
  <2> QED
    BY <2>2 DEF one
<1>7. FlatMap(piece, <<h>>) = piece[h]
  BY <1>1, FlatMapFew
<1> QED
  BY <1>1, <1>5, <1>6, <1>7 DEF h, r

-----------------------------------------------------------------------------
(* The bytes that wait to be sent.                                         *)

\* The bytes of each message.
MessageBytes == [type \in SendableTypes |-> [byte \in 1 .. MessageSize[type] |-> type]]

LEMMA WaitingMap ==
  /\ MessageBytes \in PiecesOf(SendableTypes, SendableTypes)
  /\ \A type \in SendableTypes :
        /\ MessageBytes[type] \in Seq(SendableTypes)
        /\ Len(MessageBytes[type]) = MessageSize[type]
  /\ \A queue \in Seq(SendableTypes) :
        /\ WaitingBytes(queue) = FlatMap(MessageBytes, queue)
        /\ WaitingBytes(queue) \in Seq(SendableTypes) /\ Len(WaitingBytes(queue)) \in Nat
<1>1. \A type \in SendableTypes : MessageSize[type] \in Nat
  BY NetworkClientAssumption
<1>2. \A type \in SendableTypes :
         /\ MessageBytes[type] = [byte \in 1 .. MessageSize[type] |-> type]
         /\ MessageBytes[type] \in Seq(SendableTypes)
         /\ Len(MessageBytes[type]) = MessageSize[type]
  BY <1>1 DEF MessageBytes
<1>3. MessageBytes \in PiecesOf(SendableTypes, SendableTypes)
  <2>1. MessageBytes = [type \in SendableTypes |-> MessageBytes[type]]
    BY DEF MessageBytes
  <2> QED
    BY <1>2, <2>1 DEF PiecesOf
<1>4. ASSUME NEW queue \in Seq(SendableTypes)
      PROVE  /\ WaitingBytes(queue) = FlatMap(MessageBytes, queue)
             /\ WaitingBytes(queue) \in Seq(SendableTypes) /\ Len(WaitingBytes(queue)) \in Nat
  <2>1. \A i \in DOMAIN queue : queue[i] \in SendableTypes
    OBVIOUS
  <2>2. [i \in DOMAIN queue |-> [byte \in 1 .. MessageSize[queue[i]] |-> queue[i]]] =
           [i \in DOMAIN queue |-> MessageBytes[queue[i]]]
    BY <1>2, <2>1
  <2>3. WaitingBytes(queue) = FlatMap(MessageBytes, queue)
    BY <2>2 DEF WaitingBytes, FlatMap, Pieces
  <2>4. FlatMap(MessageBytes, queue) \in Seq(SendableTypes)
    BY <1>3, FlatMapType
  <2> QED
    BY <2>3, <2>4
<1> QED
  BY <1>1, <1>2, <1>3, <1>4

\* Nothing waits in an empty queue.
LEMMA WaitingEmpty == Len(WaitingBytes(<<>>)) = 0
<1>1. [i \in DOMAIN <<>> |-> [byte \in 1 .. MessageSize[<<>>[i]] |-> <<>>[i]]] = <<>>
  OBVIOUS
<1> QED
  BY <1>1 DEF WaitingBytes, FlattenSeq

\* A message that joins the queue brings its bytes.
LEMMA WaitingAppend ==
  ASSUME NEW queue \in Seq(SendableTypes), NEW type \in SendableTypes
  PROVE  Len(WaitingBytes(Append(queue, type))) = Len(WaitingBytes(queue)) + MessageSize[type]
<1> DEFINE bytes == MessageBytes[type]
<1>1. bytes \in Seq(SendableTypes) /\ Len(bytes) = MessageSize[type]
  BY WaitingMap
<1>2. WaitingBytes(Append(queue, type)) = WaitingBytes(queue) \o bytes
  <2>1. FlatMap(MessageBytes, Append(queue, type)) = FlatMap(MessageBytes, queue) \o bytes
    BY WaitingMap, FlatMapAppend
  <2>2. Append(queue, type) \in Seq(SendableTypes)
    OBVIOUS
  <2> QED
    BY <2>1, <2>2, WaitingMap
<1>3. WaitingBytes(queue) \in Seq(SendableTypes)
  BY WaitingMap
<1> DEFINE before == WaitingBytes(queue)
<1> HIDE DEF bytes, before
<1>4. Len(before \o bytes) = Len(before) + Len(bytes)
  BY <1>1, <1>3, ConcatProperties DEF before
<1> QED
  BY <1>1, <1>2, <1>4 DEF before

\* A message that leaves the queue takes its bytes.
LEMMA WaitingTail ==
  ASSUME NEW queue \in Seq(SendableTypes), queue # <<>>
  PROVE  /\ Head(queue) \in SendableTypes /\ Tail(queue) \in Seq(SendableTypes)
         /\ Len(WaitingBytes(queue)) =
               MessageSize[Head(queue)] + Len(WaitingBytes(Tail(queue)))
<1> DEFINE bytes == MessageBytes[Head(queue)]
           after == WaitingBytes(Tail(queue))
<1>1. /\ Head(queue) \in SendableTypes /\ Tail(queue) \in Seq(SendableTypes)
      /\ FlatMap(MessageBytes, queue) = bytes \o FlatMap(MessageBytes, Tail(queue))
  BY WaitingMap, FlatMapTail
<1>2. WaitingBytes(queue) = bytes \o after /\ after \in Seq(SendableTypes)
  BY <1>1, WaitingMap
<1>3. bytes \in Seq(SendableTypes) /\ Len(bytes) = MessageSize[Head(queue)]
  BY <1>1, WaitingMap
<1> HIDE DEF bytes, after
<1>4. Len(bytes \o after) = Len(bytes) + Len(after)
  BY <1>2, <1>3, ConcatProperties
<1> QED
  BY <1>1, <1>2, <1>3, <1>4 DEF after

-----------------------------------------------------------------------------
(* The client's state.                                                     *)

Unit == Messages \X (1 .. HeaderUnits + 1)

ClientState ==
    [connectionState : ConnectionStates, connectionGeneration : Generations,
     callbacks : SUBSET CallbackTypes, accumulatedBuffer : Seq(Unit),
     sendQueue : Seq(SendableTypes), pendingSendBytes : Nat,
     playerIdentity : BOOLEAN, latestRtt : BOOLEAN,
     operations : [OperationTypes \X Generations -> Nat],
     posted : Seq(Posted), heard : Seq(CallbackTypes)]

\* The operations of the current generation: resolves, connects, reads, writes.
Current(c, resolves, connects, reads, writes) ==
    /\ c.operations[<<"resolve", c.connectionGeneration>>] = resolves
    /\ c.operations[<<"connect", c.connectionGeneration>>] = connects
    /\ c.operations[<<"read", c.connectionGeneration>>] = reads
    /\ c.operations[<<"write", c.connectionGeneration>>] = writes

\* OperationChains of one state of the client.
Chained(c) ==
    /\ c.connectionState = "Resolving" => Current(c, 1, 0, 0, 0)
    /\ c.connectionState = "Connecting" => Current(c, 0, 1, 0, 0)
    /\ c.connectionState = "Connected" =>
          Current(c, 0, 0, 1, IF c.sendQueue = <<>> THEN 0 ELSE 1)

\* No operation belongs to a connection that is still to come.
NoneAhead(c) ==
    \A type \in OperationTypes, generation \in Generations :
        generation > c.connectionGeneration => c.operations[<<type, generation>>] = 0

\* Only an open connection has something to send, counted, within the limit.
Queued(c) ==
    /\ c.connectionState # "Connected" => c.sendQueue = <<>>
    /\ c.pendingSendBytes = Len(WaitingBytes(c.sendQueue))
    /\ c.pendingSendBytes <= MaxPendingSendBytes

\* What every handler starts from, the completed operation taken off.
Sound(c) == c \in ClientState /\ NoneAhead(c) /\ Queued(c)

\* What a step leaves alone: the operations and the generation.
SameOperations(n, c) ==
    /\ n.operations = c.operations
    /\ n.connectionGeneration = c.connectionGeneration

\* A client without a connection.
Closed(c) == Sound(c) /\ Chained(c) /\ c.connectionState = "Disconnected"

LEMMA GenerationType == Generations \subseteq Nat
BY NetworkClientAssumption DEF Generations

\* Reset closes the connection and leaves its operations to complete.
LEMMA ResetEffect ==
  ASSUME NEW c \in ClientState, NoneAhead(c)
  PROVE  Closed(Reset(c)) /\ SameOperations(Reset(c), c)
<1> DEFINE n == Reset(c)
<1>1. "Disconnected" \in ConnectionStates /\ <<>> \in Seq(Unit) /\ <<>> \in Seq(SendableTypes)
  BY DEF ConnectionStates
<1>2. /\ n \in ClientState /\ n.operations = c.operations
      /\ n.connectionGeneration = c.connectionGeneration
      /\ n.connectionState = "Disconnected" /\ n.sendQueue = <<>> /\ n.pendingSendBytes = 0
  BY <1>1 DEF ClientState, Reset
<1> HIDE DEF n
<1>3. NoneAhead(n) /\ Queued(n) /\ Chained(n)
  BY <1>2, WaitingEmpty, NetworkClientAssumption DEF NoneAhead, Queued, Chained
<1> QED
  BY <1>2, <1>3 DEF Closed, Sound, SameOperations, n

\* A callback is heard, and changes nothing else.
LEMMA CallEffect ==
  ASSUME NEW c \in ClientState, NEW callback \in CallbackTypes
  PROVE  LET n == Call(c, callback)
         IN  /\ n \in ClientState /\ SameOperations(n, c)
             /\ n.connectionState = c.connectionState /\ n.sendQueue = c.sendQueue
             /\ n.pendingSendBytes = c.pendingSendBytes
             /\ n.callbacks = c.callbacks
<1> DEFINE n == [c EXCEPT !.heard = Append(c.heard, callback)]
<1>1. c.heard \in Seq(CallbackTypes)
  BY DEF ClientState
<1>2. Append(c.heard, callback) \in Seq(CallbackTypes)
  BY <1>1
<1>3. /\ n \in ClientState /\ SameOperations(n, c)
      /\ n.connectionState = c.connectionState /\ n.sendQueue = c.sendQueue
      /\ n.pendingSendBytes = c.pendingSendBytes
      /\ n.callbacks = c.callbacks
  BY <1>2 DEF ClientState, SameOperations
<1>4. SameOperations(c, c)
  BY DEF SameOperations
<1> QED
  BY <1>3, <1>4 DEF Call

\* A field that says nothing of operations, state and queue may change freely.
LEMMA CallbacksEffect ==
  ASSUME NEW c \in ClientState, NEW kept \in SUBSET CallbackTypes
  PROVE  LET n == [c EXCEPT !.callbacks = kept]
         IN  /\ n \in ClientState /\ SameOperations(n, c)
             /\ n.connectionState = c.connectionState /\ n.sendQueue = c.sendQueue
             /\ n.pendingSendBytes = c.pendingSendBytes
BY DEF ClientState, SameOperations

\* Soundness depends on the fields named here only.
LEMMA SameSound ==
  ASSUME NEW c, Sound(c), NEW n \in ClientState, SameOperations(n, c),
         n.connectionState = c.connectionState, n.sendQueue = c.sendQueue,
         n.pendingSendBytes = c.pendingSendBytes
  PROVE  Sound(n) /\ (Chained(c) => Chained(n))
BY DEF Sound, NoneAhead, Queued, SameOperations, Chained, Current

\* A failure of the current attempt closes the connection, one of an earlier
\* attempt does nothing.
LEMMA FailureEffect ==
  ASSUME NEW c, Sound(c), NEW generation
  PROVE  LET n == CompleteConnectionFailure(c, generation)
         IN  /\ SameOperations(n, c)
             /\ IF generation = c.connectionGeneration THEN Closed(n) ELSE n = c
<1> DEFINE r == Reset(c)
           called == Call(r, "ConnectionFailed")
           n == [called EXCEPT !.callbacks = {}]
<1>1. CASE generation # c.connectionGeneration
  BY <1>1 DEF CompleteConnectionFailure, SameOperations
<1>2. CASE generation = c.connectionGeneration
  <2>1. Closed(r) /\ SameOperations(r, c) /\ r \in ClientState
    BY ResetEffect DEF Sound, Closed
  <2>2. CompleteConnectionFailure(c, generation) = n
    BY <1>2 DEF CompleteConnectionFailure
  <2> HIDE DEF r
  <2>3. /\ called \in ClientState /\ SameOperations(called, r)
        /\ called.connectionState = r.connectionState /\ called.sendQueue = r.sendQueue
        /\ called.pendingSendBytes = r.pendingSendBytes
    BY <2>1, CallEffect DEF CallbackTypes
  <2> HIDE DEF called
  <2>4. {} \in SUBSET CallbackTypes
    OBVIOUS
  <2>5. /\ n \in ClientState /\ SameOperations(n, called)
        /\ n.connectionState = called.connectionState /\ n.sendQueue = called.sendQueue
        /\ n.pendingSendBytes = called.pendingSendBytes
    BY <2>3, <2>4, CallbacksEffect
  <2> HIDE DEF n
  <2>6. /\ SameOperations(n, r) /\ n.connectionState = r.connectionState
        /\ n.sendQueue = r.sendQueue /\ n.pendingSendBytes = r.pendingSendBytes
    BY <2>3, <2>5 DEF SameOperations
  <2>7. Closed(n)
    BY <2>1, <2>5, <2>6, SameSound DEF Closed
  <2>8. SameOperations(n, c)
    BY <2>1, <2>6 DEF SameOperations
  <2> QED
    BY <1>2, <2>2, <2>7, <2>8
<1> QED
  BY <1>1, <1>2

\* The end of the current connection closes it, that of an earlier one does
\* nothing.
LEMMA DisconnectionEffect ==
  ASSUME NEW c, Sound(c), NEW generation
  PROVE  LET n == CompleteDisconnection(c, generation)
         IN  /\ SameOperations(n, c)
             /\ IF IsCurrentOperation(c, generation, "Connected") THEN Closed(n) ELSE n = c
<1> DEFINE r == Reset(c)
           called == Call(r, "Disconnected")
           kept == called.callbacks \ {"Disconnected", "PlayerIdentity", "WorldStateSnapshot"}
           n == [called EXCEPT !.callbacks = kept]
<1>1. CASE ~IsCurrentOperation(c, generation, "Connected")
  BY <1>1 DEF CompleteDisconnection, SameOperations
<1>2. CASE IsCurrentOperation(c, generation, "Connected")
  <2>1. Closed(r) /\ SameOperations(r, c) /\ r \in ClientState
    BY ResetEffect DEF Sound, Closed
  <2>2. CompleteDisconnection(c, generation) = n
    BY <1>2 DEF CompleteDisconnection
  <2> HIDE DEF r
  <2>3. /\ called \in ClientState /\ SameOperations(called, r)
        /\ called.connectionState = r.connectionState /\ called.sendQueue = r.sendQueue
        /\ called.pendingSendBytes = r.pendingSendBytes
    BY <2>1, CallEffect DEF CallbackTypes
  <2> HIDE DEF called
  <2>4. kept \in SUBSET CallbackTypes
    BY <2>3 DEF ClientState
  <2> HIDE DEF kept
  <2>5. /\ n \in ClientState /\ SameOperations(n, called)
        /\ n.connectionState = called.connectionState /\ n.sendQueue = called.sendQueue
        /\ n.pendingSendBytes = called.pendingSendBytes
    BY <2>3, <2>4, CallbacksEffect
  <2> HIDE DEF n
  <2>6. /\ SameOperations(n, r) /\ n.connectionState = r.connectionState
        /\ n.sendQueue = r.sendQueue /\ n.pendingSendBytes = r.pendingSendBytes
    BY <2>3, <2>5 DEF SameOperations
  <2>7. Closed(n)
    BY <2>1, <2>5, <2>6, SameSound DEF Closed
  <2>8. SameOperations(n, c)
    BY <2>1, <2>6 DEF SameOperations
  <2> QED
    BY <1>2, <2>2, <2>7, <2>8
<1> QED
  BY <1>1, <1>2

-----------------------------------------------------------------------------
(* Operations.                                                             *)

\* Registering an operation of the current generation counts it.
LEMMA RegisterEffect ==
  ASSUME NEW c, Sound(c), NEW type \in OperationTypes
  PROVE  LET n == Register(c, type, c.connectionGeneration)
         IN  /\ Sound(n) /\ n.connectionGeneration = c.connectionGeneration
             /\ n.connectionState = c.connectionState /\ n.sendQueue = c.sendQueue
             /\ n.pendingSendBytes = c.pendingSendBytes
             /\ n.operations[<<type, n.connectionGeneration>>] =
                   c.operations[<<type, c.connectionGeneration>>] + 1
             /\ \A other \in OperationTypes \ {type} :
                   n.operations[<<other, n.connectionGeneration>>] =
                      c.operations[<<other, c.connectionGeneration>>]
<1> DEFINE g == c.connectionGeneration
           ops == c.operations
           n == Register(c, type, g)
           new == [ops EXCEPT ![<<type, g>>] = ops[<<type, g>>] + 1]
<1>1. c \in ClientState /\ g \in Generations /\ ops \in [OperationTypes \X Generations -> Nat]
  BY DEF Sound, ClientState
<1> HIDE DEF g, ops
<1>2. /\ new \in [OperationTypes \X Generations -> Nat]
      /\ new[<<type, g>>] = ops[<<type, g>>] + 1
      /\ \A other \in OperationTypes, k \in Generations :
            other # type \/ k # g => new[<<other, k>>] = ops[<<other, k>>]
  <2>1. <<type, g>> \in OperationTypes \X Generations
    BY <1>1
  <2>2. \A other \in OperationTypes, k \in Generations :
           /\ <<other, k>> \in OperationTypes \X Generations
           /\ <<other, k>> = <<type, g>> => other = type /\ k = g
    OBVIOUS
  <2>3. ops[<<type, g>>] + 1 \in Nat
    BY <1>1, <2>1
  <2> QED
    BY <1>1, <2>1, <2>2, <2>3
<1>3. n = [c EXCEPT !.operations = new]
  BY DEF Register, ops
<1> HIDE DEF new
<1>4. /\ n \in ClientState /\ n.operations = new /\ n.connectionGeneration = g
      /\ n.connectionState = c.connectionState /\ n.sendQueue = c.sendQueue
      /\ n.pendingSendBytes = c.pendingSendBytes
  BY <1>1, <1>2, <1>3 DEF ClientState, g
<1> HIDE DEF n
<1>5. \A k \in Generations : k > g => k # g
  BY <1>1, GenerationType
<1>6. NoneAhead(n)
  BY <1>2, <1>4, <1>5 DEF NoneAhead, Sound, g, ops
<1>7. Queued(n)
  BY <1>4 DEF Sound, Queued
<1>8. /\ n.operations[<<type, n.connectionGeneration>>] = ops[<<type, g>>] + 1
      /\ \A other \in OperationTypes \ {type} :
            n.operations[<<other, n.connectionGeneration>>] = ops[<<other, g>>]
  BY <1>1, <1>2, <1>4
<1> QED
  BY <1>4, <1>6, <1>7, <1>8 DEF Sound, n, g, ops

\* Taking a completed operation off the count changes the current ones only
\* if it is of the current generation.
LEMMA CompletingEffect ==
  ASSUME Sound(client), NEW type \in OperationTypes, NEW generation \in Generations,
         client.operations[<<type, generation>>] > 0
  PROVE  LET n == Completing(type, generation)
         IN  /\ Sound(n) /\ n.connectionGeneration = client.connectionGeneration
             /\ n.connectionState = client.connectionState /\ n.sendQueue = client.sendQueue
             /\ n.pendingSendBytes = client.pendingSendBytes
             /\ n.operations[<<type, n.connectionGeneration>>] =
                   IF generation = client.connectionGeneration
                   THEN client.operations[<<type, client.connectionGeneration>>] - 1
                   ELSE client.operations[<<type, client.connectionGeneration>>]
             /\ \A other \in OperationTypes \ {type} :
                   n.operations[<<other, n.connectionGeneration>>] =
                      client.operations[<<other, client.connectionGeneration>>]
<1> DEFINE g == client.connectionGeneration
           ops == client.operations
           n == Completing(type, generation)
           new == [ops EXCEPT ![<<type, generation>>] = ops[<<type, generation>>] - 1]
<1>1. client \in ClientState /\ g \in Generations /\ ops \in [OperationTypes \X Generations -> Nat]
      /\ ops[<<type, generation>>] > 0
  BY DEF Sound, ClientState
<1> HIDE DEF g, ops
<1>2. /\ new \in [OperationTypes \X Generations -> Nat]
      /\ new[<<type, generation>>] = ops[<<type, generation>>] - 1
      /\ \A other \in OperationTypes, k \in Generations :
            other # type \/ k # generation => new[<<other, k>>] = ops[<<other, k>>]
  <2>1. <<type, generation>> \in OperationTypes \X Generations
    OBVIOUS
  <2>2. \A other \in OperationTypes, k \in Generations :
           /\ <<other, k>> \in OperationTypes \X Generations
           /\ <<other, k>> = <<type, generation>> => other = type /\ k = generation
    OBVIOUS
  <2>3. ops[<<type, generation>>] \in Nat
    BY <1>1, <2>1
  <2>4. ops[<<type, generation>>] - 1 \in Nat
    BY <1>1, <2>3
  <2> QED
    BY <1>1, <2>1, <2>2, <2>4
<1>3. n = [client EXCEPT !.operations = new]
  BY DEF Completing, ops
<1> HIDE DEF new
<1>4. /\ n \in ClientState /\ n.operations = new /\ n.connectionGeneration = g
      /\ n.connectionState = client.connectionState /\ n.sendQueue = client.sendQueue
      /\ n.pendingSendBytes = client.pendingSendBytes
  BY <1>1, <1>2, <1>3 DEF ClientState, g
<1> HIDE DEF n
<1>5. \A other \in OperationTypes, k \in Generations : k > g => ops[<<other, k>>] = 0
  BY DEF Sound, NoneAhead, g, ops
<1>6. ~(generation > g)
  BY <1>1, <1>5
<1>7. NoneAhead(n)
  <2>1. \A k \in Generations : k > g => k # generation
    BY <1>6
  <2> QED
    BY <1>2, <1>4, <1>5, <2>1 DEF NoneAhead
<1>8. Queued(n)
  BY <1>4 DEF Sound, Queued
<1>9. /\ n.operations[<<type, n.connectionGeneration>>] =
            IF generation = g THEN ops[<<type, g>>] - 1 ELSE ops[<<type, g>>]
      /\ \A other \in OperationTypes \ {type} :
            n.operations[<<other, n.connectionGeneration>>] = ops[<<other, g>>]
  BY <1>1, <1>2, <1>4
<1> QED
  BY <1>4, <1>7, <1>8, <1>9 DEF Sound, n, g, ops

\* A completion of an earlier generation leaves the chains alone.
LEMMA OldCompletion ==
  ASSUME Sound(client), Chained(client), NEW type \in OperationTypes,
         NEW generation \in Generations, client.operations[<<type, generation>>] > 0,
         generation # client.connectionGeneration
  PROVE  Sound(Completing(type, generation)) /\ Chained(Completing(type, generation))
<1> DEFINE n == Completing(type, generation)
<1>1. /\ Sound(n) /\ n.connectionState = client.connectionState /\ n.sendQueue = client.sendQueue
      /\ \A other \in OperationTypes :
            n.operations[<<other, n.connectionGeneration>>] =
               client.operations[<<other, client.connectionGeneration>>]
  <2>1. /\ Sound(n) /\ n.connectionState = client.connectionState /\ n.sendQueue = client.sendQueue
        /\ n.operations[<<type, n.connectionGeneration>>] =
              client.operations[<<type, client.connectionGeneration>>]
        /\ \A other \in OperationTypes \ {type} :
              n.operations[<<other, n.connectionGeneration>>] =
                 client.operations[<<other, client.connectionGeneration>>]
    BY CompletingEffect
  <2> HIDE DEF n
  <2> QED
    BY <2>1
<1> HIDE DEF n
<1>2. Chained(n)
  BY <1>1 DEF Chained, Current, OperationTypes
<1> QED
  BY <1>1, <1>2 DEF n

-----------------------------------------------------------------------------
(* Processing the accumulated buffer.                                      *)

\* The connection ends, or goes on with what it had to send.
Proceeds(n, c) ==
    /\ SameOperations(n, c)
    /\ \/ Closed(n)
       \/ Sound(n) /\ n.connectionState = c.connectionState /\ n.sendQueue = c.sendQueue

LEMMA ProceedsFurther ==
  ASSUME NEW c, NEW n, NEW m, Proceeds(n, c), Proceeds(m, n)
  PROVE  Proceeds(m, c)
<1>1. SameOperations(m, c)
  BY DEF Proceeds, SameOperations
<1>2. CASE Closed(m)
  BY <1>1, <1>2 DEF Proceeds
<1>3. CASE ~Closed(m) /\ ~Closed(n)
  BY <1>1, <1>3 DEF Proceeds
<1>4. CASE ~Closed(m) /\ Closed(n)
  <2>1. Sound(m) /\ m.connectionState = "Disconnected"
    BY <1>4 DEF Proceeds, Closed
  <2>2. Closed(m)
    BY <2>1 DEF Closed, Chained
  <2> QED
    BY <1>4, <2>2
<1> QED
  BY <1>2, <1>3, <1>4

\* A sound change of a field that proceeding does not look at.
LEMMA ProceedsSame ==
  ASSUME NEW c, Sound(c), NEW n \in ClientState, SameOperations(n, c),
         n.connectionState = c.connectionState, n.sendQueue = c.sendQueue,
         n.pendingSendBytes = c.pendingSendBytes
  PROVE  Proceeds(n, c)
BY SameSound DEF Proceeds

\* Posting a callback registers no operation.
LEMMA PostEffect ==
  ASSUME NEW c \in ClientState, NEW callback \in {"PlayerIdentity", "WorldStateSnapshot"}
  PROVE  LET n == Post(c, callback)
         IN  /\ n \in ClientState /\ SameOperations(n, c)
             /\ n.connectionState = c.connectionState /\ n.sendQueue = c.sendQueue
             /\ n.pendingSendBytes = c.pendingSendBytes
             /\ n.accumulatedBuffer = c.accumulatedBuffer
<1> DEFINE e == [callback |-> callback, generation |-> c.connectionGeneration]
           queue == Append(c.posted, e)
           n == [c EXCEPT !.posted = queue]
<1>1. e \in Posted /\ c.posted \in Seq(Posted)
  BY DEF ClientState, Posted
<1>2. queue \in Seq(Posted)
  BY <1>1
<1>3. Post(c, callback) = n \/ Post(c, callback) = c
  BY DEF Post
<1> HIDE DEF queue
<1>4. /\ n \in ClientState /\ SameOperations(n, c)
      /\ n.connectionState = c.connectionState /\ n.sendQueue = c.sendQueue
      /\ n.pendingSendBytes = c.pendingSendBytes
      /\ n.accumulatedBuffer = c.accumulatedBuffer
  BY <1>2 DEF ClientState, SameOperations
<1>5. SameOperations(c, c)
  BY DEF SameOperations
<1> QED
  BY <1>3, <1>4, <1>5

\* Dispatching a message the client takes registers no operation.
LEMMA DispatchEffect ==
  ASSUME NEW c \in ClientState, NEW message, Handles(c, message)
  PROVE  LET n == DispatchMessage(c, message)
         IN  /\ n \in ClientState /\ SameOperations(n, c)
             /\ n.connectionState = c.connectionState /\ n.sendQueue = c.sendQueue
             /\ n.pendingSendBytes = c.pendingSendBytes
             /\ n.accumulatedBuffer = c.accumulatedBuffer
<1>1. CASE message = "Pong"
  <2> DEFINE n == [c EXCEPT !.latestRtt = TRUE]
  <2>1. DispatchMessage(c, message) = n
    BY <1>1 DEF DispatchMessage
  <2>2. /\ n \in ClientState /\ SameOperations(n, c)
        /\ n.connectionState = c.connectionState /\ n.sendQueue = c.sendQueue
        /\ n.pendingSendBytes = c.pendingSendBytes
        /\ n.accumulatedBuffer = c.accumulatedBuffer
    BY DEF ClientState, SameOperations
  <2> QED
    BY <2>1, <2>2
<1>2. CASE message = "PlayerIdentity"
  <2> DEFINE k == [c EXCEPT !.playerIdentity = TRUE]
  <2>1. DispatchMessage(c, message) = Post(k, "PlayerIdentity")
    BY <1>2 DEF DispatchMessage
  <2>2. /\ k \in ClientState /\ SameOperations(k, c)
        /\ k.connectionState = c.connectionState /\ k.sendQueue = c.sendQueue
        /\ k.pendingSendBytes = c.pendingSendBytes
        /\ k.accumulatedBuffer = c.accumulatedBuffer
    BY DEF ClientState, SameOperations
  <2> HIDE DEF k
  <2> QED
    BY <2>1, <2>2, PostEffect DEF SameOperations
<1>3. CASE message = "WorldStateSnapshot"
  <2>1. DispatchMessage(c, message) = Post(c, "WorldStateSnapshot")
    BY <1>3 DEF DispatchMessage
  <2> QED
    BY <2>1, PostEffect
<1> QED
  BY <1>1, <1>2, <1>3 DEF Handles

\* One turn of the loop.
LEMMA ProcessMessageEffect ==
  ASSUME NEW c, Sound(c)
  PROVE  Proceeds(ProcessMessage(c), c)
<1> DEFINE buffer == c.accumulatedBuffer
           message == DecodeHeader(buffer)
           size == Units(message)
           dispatched == DispatchMessage(c, message)
           rest == SubSeq(dispatched.accumulatedBuffer, size + 1,
                          Len(dispatched.accumulatedBuffer))
           n == [dispatched EXCEPT !.accumulatedBuffer = rest]
<1>1. c \in ClientState /\ buffer \in Seq(Unit) /\ Len(buffer) \in Nat
  BY DEF Sound, ClientState
<1>2. Proceeds(c, c)
  BY DEF Proceeds, SameOperations
<1>3. Proceeds(CompleteDisconnection(c, c.connectionGeneration), c)
  BY <1>2, DisconnectionEffect DEF Proceeds
<1>4. CASE Handles(c, message) /\ ProcessMessage(c) = n
  <2>1. /\ dispatched \in ClientState /\ SameOperations(dispatched, c)
        /\ dispatched.connectionState = c.connectionState
        /\ dispatched.sendQueue = c.sendQueue
        /\ dispatched.pendingSendBytes = c.pendingSendBytes
        /\ dispatched.accumulatedBuffer = buffer
    BY <1>1, <1>4, DispatchEffect
  <2>2. size \in Nat
    BY DEF Units, HeaderUnits
  <2> HIDE DEF dispatched, size, message, buffer
  <2>3. rest \in Seq(Unit)
    <3>1. rest = SubSeq(buffer, size + 1, Len(buffer))
      BY <2>1
    <3>2. \A k \in 1 .. Len(buffer) : buffer[k] \in Unit
      BY <1>1
    <3>3. \A k \in (size + 1) .. Len(buffer) : buffer[k] \in Unit
      BY <1>1, <2>2, <3>2
    <3>4. SubSeq(buffer, size + 1, Len(buffer)) \in Seq(Unit)
      BY <1>1, <2>2, <3>3, SubSeqProperties
    <3> QED
      BY <3>1, <3>4
  <2> HIDE DEF rest
  <2>4. /\ n \in ClientState /\ SameOperations(n, dispatched)
        /\ n.connectionState = dispatched.connectionState
        /\ n.sendQueue = dispatched.sendQueue
        /\ n.pendingSendBytes = dispatched.pendingSendBytes
    BY <2>1, <2>3 DEF ClientState, SameOperations
  <2> HIDE DEF n
  <2>5. /\ SameOperations(n, c) /\ n.connectionState = c.connectionState
        /\ n.sendQueue = c.sendQueue /\ n.pendingSendBytes = c.pendingSendBytes
    BY <2>1, <2>4 DEF SameOperations
  <2> QED
    BY <1>4, <2>4, <2>5, ProceedsSame
<1>5. \/ ProcessMessage(c) = c
      \/ ProcessMessage(c) = CompleteDisconnection(c, c.connectionGeneration)
      \/ Handles(c, message) /\ ProcessMessage(c) = n
  BY DEF ProcessMessage
<1> QED
  BY <1>2, <1>3, <1>4, <1>5

\* f[turns] is the client after so many turns.
Processing(f, c, limit) ==
    f = [turns \in 0 .. limit |-> IF turns = 0 THEN c ELSE ProcessMessage(f[turns - 1])]

\* The loop takes its turns one by one.
LEMMA ProcessingExists ==
  ASSUME NEW c
  PROVE  \A limit \in Nat : \E f : Processing(f, c, limit)
<1> DEFINE open == {limit \in Nat : ~\E f : Processing(f, c, limit)}
<1>1. SUFFICES ASSUME open # {} PROVE FALSE
  OBVIOUS
<1>2. PICK least \in open : \A limit \in open : least <= limit
  BY <1>1, LeastElement
<1>3. CASE least = 0
  <2> DEFINE f == [turns \in 0 .. 0 |-> c]
  <2>1. Processing(f, c, 0)
    BY DEF Processing
  <2> QED
    BY <1>2, <1>3, <2>1
<1>4. CASE least # 0
  <2>1. least - 1 \in Nat /\ least - 1 \notin open
    BY <1>2, <1>4
  <2>2. PICK f : Processing(f, c, least - 1)
    BY <2>1
  <2> DEFINE g == [turns \in 0 .. least |->
                     IF turns = least THEN ProcessMessage(f[least - 1]) ELSE f[turns]]
  <2>3. \A turns \in 0 .. least - 1 :
           f[turns] = IF turns = 0 THEN c ELSE ProcessMessage(f[turns - 1])
    BY <2>1, <2>2 DEF Processing
  <2>4. \A turns \in 0 .. least :
           g[turns] = IF turns = 0 THEN c ELSE ProcessMessage(g[turns - 1])
    <3> TAKE turns \in 0 .. least
    <3>1. CASE turns = least
      <4>1. turns - 1 \in 0 .. least /\ turns - 1 # least /\ turns # 0
        BY <1>4, <2>1, <3>1
      <4> QED
        BY <3>1, <4>1
    <3>2. CASE turns # least /\ turns # 0
      <4>1. turns - 1 \in 0 .. least /\ turns - 1 # least /\ turns \in 0 .. least - 1
        BY <2>1, <3>2
      <4> QED
        BY <2>3, <3>2, <4>1
    <3>3. CASE turns # least /\ turns = 0
      <4>1. 0 \in 0 .. least - 1
        BY <2>1
      <4> QED
        BY <2>3, <3>3, <4>1
    <3> QED
      BY <3>1, <3>2, <3>3
  <2>5. g = [turns \in 0 .. least |-> g[turns]]
    OBVIOUS
  <2> HIDE DEF g
  <2>6. Processing(g, c, least)
    BY <2>4, <2>5 DEF Processing
  <2> QED
    BY <1>2, <2>6
<1> QED
  BY <1>3, <1>4

\* Processing the messages takes the turns one after the other.
LEMMA LoopTurns ==
  ASSUME NEW c, Sound(c)
  PROVE  LET limit == Len(c.accumulatedBuffer) \div HeaderUnits
         IN  /\ limit \in Nat
             /\ \E after :
                   /\ ProcessMessages(c) = after[limit]
                   /\ after[0] = c
                   /\ \A turns \in 1 .. limit : after[turns] = ProcessMessage(after[turns - 1])
<1> DEFINE limit == Len(c.accumulatedBuffer) \div HeaderUnits
           after == CHOOSE f : f = [turns \in 0 .. limit |->
                        IF turns = 0 THEN c ELSE ProcessMessage(f[turns - 1])]
<1>1. ProcessMessages(c) = after[limit]
  BY DEF ProcessMessages
<1>2. limit \in Nat
  <2>1. c.accumulatedBuffer \in Seq(Unit)
    BY DEF Sound, ClientState
  <2>2. Len(c.accumulatedBuffer) \in Nat
    BY <2>1
  <2>3. \A k \in Nat : k \div 2 \in Nat
    OBVIOUS
  <2> QED
    BY <2>2, <2>3 DEF HeaderUnits
<1> HIDE DEF limit
<1>3. \E f : f = [turns \in 0 .. limit |->
                    IF turns = 0 THEN c ELSE ProcessMessage(f[turns - 1])]
  <2>1. \E f : Processing(f, c, limit)
    BY <1>2, ProcessingExists
  <2> QED
    BY <2>1, Zenon DEF Processing
<1>4. after = [turns \in 0 .. limit |->
                 IF turns = 0 THEN c ELSE ProcessMessage(after[turns - 1])]
  BY <1>3, Zenon
<1> HIDE DEF after
<1>5. /\ after[0] = c
      /\ \A turns \in 1 .. limit : after[turns] = ProcessMessage(after[turns - 1])
  BY <1>2, <1>4
<1> QED
  BY <1>1, <1>2, <1>5 DEF limit

\* Whatever has accumulated, processing it ends the connection or goes on.
LEMMA ProcessMessagesEffect ==
  ASSUME NEW c, Sound(c)
  PROVE  Proceeds(ProcessMessages(c), c)
<1> DEFINE limit == Len(c.accumulatedBuffer) \div HeaderUnits
<1>1. limit \in Nat
  BY LoopTurns
<1>2. PICK after : /\ ProcessMessages(c) = after[limit]
                   /\ after[0] = c
                   /\ \A turns \in 1 .. limit : after[turns] = ProcessMessage(after[turns - 1])
  BY LoopTurns
<1> HIDE DEF limit
<1> DEFINE S == {turns \in 0 .. limit : Proceeds(after[turns], c)}
<1>3. 0 \in S
  <2>1. Proceeds(c, c)
    BY DEF Proceeds, SameOperations
  <2> QED
    BY <1>1, <1>2, <2>1
<1>4. ASSUME NEW turns \in 0 .. limit - 1, turns \in S
      PROVE  turns + 1 \in S
  <2>1. turns + 1 \in 1 .. limit /\ (turns + 1) - 1 = turns /\ turns + 1 \in 0 .. limit
    BY <1>1
  <2>2. after[turns + 1] = ProcessMessage(after[turns])
    BY <1>2, <2>1
  <2>3. Proceeds(after[turns], c) /\ Sound(after[turns])
    BY <1>4 DEF Proceeds, Closed
  <2>4. Proceeds(after[turns + 1], after[turns])
    BY <2>2, <2>3, ProcessMessageEffect
  <2> QED
    BY <2>1, <2>3, <2>4, ProceedsFurther
<1>5. \A turns \in 0 .. limit : turns \in S
  <2> HIDE DEF S
  <2> QED
    BY <1>1, <1>3, <1>4, UpTo
<1> QED
  BY <1>1, <1>2, <1>5

-----------------------------------------------------------------------------
(* The handlers.                                                           *)

\* What a handler leaves behind.
Good(c) == Sound(c) /\ Chained(c)

\* The operation of the current generation completes: nothing else of the
\* chain is registered.
LEMMA CurrentCompletion ==
  ASSUME Good(client), NEW type \in OperationTypes,
         client.operations[<<type, client.connectionGeneration>>] > 0
  PROVE  LET n == Completing(type, client.connectionGeneration)
         IN  /\ Sound(n) /\ n.connectionGeneration = client.connectionGeneration
             /\ n.connectionState = client.connectionState /\ n.sendQueue = client.sendQueue
             /\ n.pendingSendBytes = client.pendingSendBytes
             /\ client.connectionState = "Resolving" =>
                   type = "resolve" /\ Current(n, 0, 0, 0, 0)
             /\ client.connectionState = "Connecting" =>
                   type = "connect" /\ Current(n, 0, 0, 0, 0)
             /\ client.connectionState = "Connected" =>
                   \/ /\ type = "read"
                      /\ Current(n, 0, 0, 0, IF client.sendQueue = <<>> THEN 0 ELSE 1)
                   \/ /\ type = "write" /\ client.sendQueue # <<>>
                      /\ Current(n, 0, 0, 1, 0)
<1> DEFINE g == client.connectionGeneration
           n == Completing(type, g)
<1>1. g \in Generations
  BY DEF Good, Sound, ClientState
<1>2. /\ Sound(n) /\ n.connectionGeneration = g
      /\ n.connectionState = client.connectionState /\ n.sendQueue = client.sendQueue
      /\ n.pendingSendBytes = client.pendingSendBytes
      /\ n.operations[<<type, n.connectionGeneration>>] = client.operations[<<type, g>>] - 1
      /\ \A other \in OperationTypes \ {type} :
            n.operations[<<other, n.connectionGeneration>>] = client.operations[<<other, g>>]
  BY <1>1, CompletingEffect DEF Good
<1> HIDE DEF n
<1>3. type \in {"resolve", "connect", "read", "write"}
  BY DEF OperationTypes
<1>4. CASE client.connectionState = "Resolving"
  <2>1. Current(client, 1, 0, 0, 0)
    BY <1>4 DEF Good, Chained
  <2> QED
    BY <1>2, <1>3, <1>4, <2>1 DEF Current, OperationTypes, n
<1>5. CASE client.connectionState = "Connecting"
  <2>1. Current(client, 0, 1, 0, 0)
    BY <1>5 DEF Good, Chained
  <2> QED
    BY <1>2, <1>3, <1>5, <2>1 DEF Current, OperationTypes, n
<1>6. CASE client.connectionState = "Connected"
  <2>1. Current(client, 0, 0, 1, IF client.sendQueue = <<>> THEN 0 ELSE 1)
    BY <1>6 DEF Good, Chained
  <2> QED
    BY <1>2, <1>3, <1>6, <2>1 DEF Current, OperationTypes, n
<1> QED
  BY <1>2, <1>4, <1>5, <1>6 DEF n

\* Registering the next operation of the chain completes it again.
LEMMA ChainGoesOn ==
  ASSUME NEW c, Sound(c)
  PROVE  /\ c.connectionState = "Resolving" /\ Current(c, 0, 0, 0, 0) =>
               Good(Register(c, "resolve", c.connectionGeneration))
         /\ c.connectionState = "Connecting" /\ Current(c, 0, 0, 0, 0) =>
               Good(Register(c, "connect", c.connectionGeneration))
         /\ c.connectionState = "Connected" /\ Current(c, 0, 0, 0, IF c.sendQueue = <<>> THEN 0 ELSE 1) =>
               Good(Register(c, "read", c.connectionGeneration))
         /\ c.connectionState = "Connected" /\ Current(c, 0, 0, 1, 0) /\ c.sendQueue # <<>> =>
               Good(Register(c, "write", c.connectionGeneration))
<1>1. ASSUME NEW type \in OperationTypes
      PROVE  LET n == Register(c, type, c.connectionGeneration)
             IN  /\ Sound(n)
                 /\ n.connectionState = c.connectionState /\ n.sendQueue = c.sendQueue
                 /\ n.operations[<<type, n.connectionGeneration>>] =
                       c.operations[<<type, c.connectionGeneration>>] + 1
                 /\ \A other \in OperationTypes \ {type} :
                       n.operations[<<other, n.connectionGeneration>>] =
                          c.operations[<<other, c.connectionGeneration>>]
  BY RegisterEffect
<1>2. CASE c.connectionState = "Resolving" /\ Current(c, 0, 0, 0, 0)
  <2> DEFINE n == Register(c, "resolve", c.connectionGeneration)
  <2>1. Sound(n) /\ n.connectionState = "Resolving" /\ Current(n, 1, 0, 0, 0)
    BY <1>1, <1>2 DEF Current, OperationTypes
  <2> QED
    BY <1>2, <2>1 DEF Good, Chained
<1>3. CASE c.connectionState = "Connecting" /\ Current(c, 0, 0, 0, 0)
  <2> DEFINE n == Register(c, "connect", c.connectionGeneration)
  <2>1. Sound(n) /\ n.connectionState = "Connecting" /\ Current(n, 0, 1, 0, 0)
    BY <1>1, <1>3 DEF Current, OperationTypes
  <2> QED
    BY <1>3, <2>1 DEF Good, Chained
<1>4. ASSUME c.connectionState = "Connected",
             Current(c, 0, 0, 0, IF c.sendQueue = <<>> THEN 0 ELSE 1)
      PROVE  Good(Register(c, "read", c.connectionGeneration))
  <2> DEFINE n == Register(c, "read", c.connectionGeneration)
  <2>1. /\ Sound(n) /\ n.connectionState = "Connected" /\ n.sendQueue = c.sendQueue
        /\ Current(n, 0, 0, 1, IF c.sendQueue = <<>> THEN 0 ELSE 1)
    BY <1>1, <1>4 DEF Current, OperationTypes
  <2> QED
    BY <2>1 DEF Good, Chained
<1>5. ASSUME c.connectionState = "Connected", Current(c, 0, 0, 1, 0), c.sendQueue # <<>>
      PROVE  Good(Register(c, "write", c.connectionGeneration))
  <2> DEFINE n == Register(c, "write", c.connectionGeneration)
  <2>1. /\ Sound(n) /\ n.connectionState = "Connected" /\ n.sendQueue = c.sendQueue
        /\ Current(n, 0, 0, 1, 1)
    BY <1>1, <1>5 DEF Current, OperationTypes
  <2> QED
    BY <1>5, <2>1 DEF Good, Chained
<1> QED
  BY <1>2, <1>3, <1>4, <1>5

\* A completion that no longer concerns the client changes nothing but its count.
LEMMA Unconcerned ==
  ASSUME Good(client), NEW type \in OperationTypes, NEW generation \in Generations,
         client.operations[<<type, generation>>] > 0,
         \/ generation # client.connectionGeneration
         \/ client.connectionState = "Disconnected"
  PROVE  Good(Completing(type, generation))
<1>1. CASE generation # client.connectionGeneration
  BY <1>1, OldCompletion DEF Good
<1>2. CASE client.connectionState = "Disconnected"
  <2>1. /\ Sound(Completing(type, generation))
        /\ Completing(type, generation).connectionState = "Disconnected"
    BY <1>2, CompletingEffect DEF Good
  <2> QED
    BY <2>1 DEF Good, Chained
<1> QED
  BY <1>1, <1>2

LEMMA HandleResolveGood ==
  ASSUME Good(client), NEW generation \in Generations, NEW error \in BOOLEAN,
         client.operations[<<"resolve", generation>>] > 0
  PROVE  Good(HandleResolve(Completing("resolve", generation), error, generation))
<1> DEFINE g == client.connectionGeneration
           c == Completing("resolve", generation)
           handled == HandleResolve(c, error, generation)
<1>1. "resolve" \in OperationTypes
  BY DEF OperationTypes
<1>2. CASE generation # g \/ client.connectionState = "Disconnected"
  <2>1. Good(c)
    BY <1>1, <1>2, Unconcerned
  <2>2. c.connectionGeneration = g /\ c.connectionState = client.connectionState
    BY <1>1, CompletingEffect DEF Good
  <2> HIDE DEF c
  <2>3. handled = c
    BY <1>2, <2>2 DEF HandleResolve, IsCurrentOperation
  <2> QED
    BY <2>1, <2>3 DEF c
<1>3. CASE generation = g /\ client.connectionState # "Disconnected"
  <2>1. /\ Sound(c) /\ c.connectionGeneration = g
        /\ c.connectionState = "Resolving" /\ Current(c, 0, 0, 0, 0)
    <3>1. client.connectionState \in ConnectionStates
      BY DEF Good, Sound, ClientState
    <3> QED
      BY <1>1, <1>3, <3>1, CurrentCompletion DEF ConnectionStates
  <2> DEFINE k == [c EXCEPT !.connectionState = "Connecting"]
  <2> HIDE DEF c
  <2>2. handled = IF error THEN CompleteConnectionFailure(c, g) ELSE Register(k, "connect", g)
    BY <1>3, <2>1 DEF HandleResolve, IsCurrentOperation
  <2>3. Good(CompleteConnectionFailure(c, g))
    BY <2>1, FailureEffect DEF Good, Closed
  <2>4. /\ k \in ClientState /\ k.connectionState = "Connecting" /\ k.connectionGeneration = g
        /\ k.operations = c.operations /\ k.sendQueue = c.sendQueue
        /\ k.pendingSendBytes = c.pendingSendBytes
    BY <2>1 DEF Sound, ClientState, ConnectionStates
  <2> HIDE DEF k
  <2>5. Sound(k) /\ Current(k, 0, 0, 0, 0)
    BY <2>1, <2>4 DEF Sound, NoneAhead, Queued, Current
  <2>6. Good(Register(k, "connect", g))
    BY <2>4, <2>5, ChainGoesOn
  <2> QED
    BY <2>2, <2>3, <2>6 DEF c
<1> QED
  BY <1>2, <1>3

\* Disconnecting ends the generation, whatever its operations still do.
LEMMA DisconnectGood ==
  ASSUME NEW c, Sound(c), c.connectionGeneration < MaxGenerations
  PROVE  Good(Disconnect(c)) /\ Disconnect(c).connectionState = "Disconnected"
<1> DEFINE r == Reset(c)
           g == c.connectionGeneration
           n == [r EXCEPT !.connectionGeneration = g + 1, !.callbacks = {}]
<1>1. /\ Closed(r) /\ SameOperations(r, c) /\ r \in ClientState
  BY ResetEffect DEF Sound, Closed
<1>2. g \in Generations /\ g + 1 \in Generations /\ g \in Nat
  BY NetworkClientAssumption DEF Sound, ClientState, Generations
<1>3. Disconnect(c) = n
  BY <1>1 DEF Disconnect, SameOperations
<1> HIDE DEF r, g
<1>4. /\ n \in ClientState /\ n.operations = r.operations /\ n.connectionGeneration = g + 1
      /\ n.connectionState = r.connectionState /\ n.sendQueue = r.sendQueue
      /\ n.pendingSendBytes = r.pendingSendBytes
  BY <1>1, <1>2 DEF ClientState
<1> HIDE DEF n
<1>5. NoneAhead(n)
  <2>1. r.connectionGeneration = g
    BY <1>1 DEF SameOperations, g
  <2>2. \A k \in Generations : k > g + 1 => k > g
    BY <1>2, GenerationType
  <2> QED
    BY <1>1, <1>4, <2>1, <2>2 DEF NoneAhead, Closed, Sound
<1>6. Queued(n) /\ n.connectionState = "Disconnected" /\ Chained(n)
  BY <1>1, <1>4 DEF Queued, Closed, Sound, Chained
<1> QED
  BY <1>3, <1>4, <1>5, <1>6 DEF Good, Sound

\* Connecting starts a generation that has no operation yet with its first.
LEMMA ConnectGood ==
  ASSUME NEW c, Sound(c), c.connectionGeneration < MaxGenerations
  PROVE  Good(Connect(c))
<1> DEFINE r == Reset(c)
           g == c.connectionGeneration
           n == [r EXCEPT !.connectionState = "Resolving", !.connectionGeneration = g + 1,
                          !.callbacks = CallbackTypes, !.heard = <<>>]
<1>1. /\ Closed(r) /\ SameOperations(r, c) /\ r \in ClientState
  BY ResetEffect DEF Sound, Closed
<1>2. g \in Generations /\ g + 1 \in Generations /\ g \in Nat
  BY NetworkClientAssumption DEF Sound, ClientState, Generations
<1>3. Connect(c) = Register(n, "resolve", g + 1)
  BY DEF Connect
<1> HIDE DEF r, g
<1>4. /\ n \in ClientState /\ n.operations = r.operations /\ n.connectionGeneration = g + 1
      /\ n.connectionState = "Resolving" /\ n.sendQueue = r.sendQueue
      /\ n.pendingSendBytes = r.pendingSendBytes
  <2>1. "Resolving" \in ConnectionStates /\ <<>> \in Seq(CallbackTypes)
    BY DEF ConnectionStates
  <2> QED
    BY <1>1, <1>2, <2>1 DEF ClientState
<1> HIDE DEF n
<1>5. NoneAhead(n) /\ Current(n, 0, 0, 0, 0)
  <2>1. r.connectionGeneration = g
    BY <1>1 DEF SameOperations, g
  <2>2. \A k \in Generations : k > g + 1 => k > g
    BY <1>2, GenerationType
  <2>3. g + 1 > g
    BY <1>2
  <2>4. \A type \in OperationTypes, k \in Generations : k > g => r.operations[<<type, k>>] = 0
    BY <1>1, <2>1 DEF Closed, Sound, NoneAhead
  <2> QED
    BY <1>2, <1>4, <2>2, <2>3, <2>4 DEF NoneAhead, Current, OperationTypes
<1>6. Queued(n)
  BY <1>1, <1>4 DEF Queued, Closed, Sound
<1>7. Sound(n)
  BY <1>4, <1>5, <1>6 DEF Sound
<1> QED
  BY <1>3, <1>4, <1>5, <1>7, ChainGoesOn

LEMMA HandleConnectGood ==
  ASSUME Good(client), NEW generation \in Generations, NEW error \in BOOLEAN,
         NEW answer \in {"continue", "disconnect"},
         client.operations[<<"connect", generation>>] > 0,
         answer = "disconnect" => client.connectionGeneration < MaxGenerations
  PROVE  Good(HandleConnect(Completing("connect", generation), error, generation, answer))
<1> DEFINE g == client.connectionGeneration
           c == Completing("connect", generation)
           handled == HandleConnect(c, error, generation, answer)
<1>1. "connect" \in OperationTypes
  BY DEF OperationTypes
<1>2. CASE generation # g \/ client.connectionState = "Disconnected"
  <2>1. Good(c)
    BY <1>1, <1>2, Unconcerned
  <2>2. c.connectionGeneration = g /\ c.connectionState = client.connectionState
    BY <1>1, CompletingEffect DEF Good
  <2> HIDE DEF c
  <2>3. handled = c
    BY <1>2, <2>2 DEF HandleConnect, IsCurrentOperation
  <2> QED
    BY <2>1, <2>3 DEF c
<1>3. CASE generation = g /\ client.connectionState # "Disconnected"
  <2>1. /\ Sound(c) /\ c.connectionGeneration = g
        /\ c.connectionState = "Connecting" /\ Current(c, 0, 0, 0, 0)
    <3>1. client.connectionState \in ConnectionStates
      BY DEF Good, Sound, ClientState
    <3> QED
      BY <1>1, <1>3, <3>1, CurrentCompletion DEF ConnectionStates
  <2> DEFINE k == [c EXCEPT !.connectionState = "Connected"]
             called == Call(k, "Connected")
             kept == called.callbacks \ {"Connected", "ConnectionFailed"}
             open == [called EXCEPT !.callbacks = kept]
             answered == IF answer = "disconnect" THEN Disconnect(open) ELSE open
  <2> HIDE DEF c
  <2>2. handled = IF error THEN CompleteConnectionFailure(c, g) ELSE ReadNext(answered, g)
    BY <1>3, <2>1 DEF HandleConnect, IsCurrentOperation
  <2>3. Good(CompleteConnectionFailure(c, g))
    BY <2>1, FailureEffect DEF Good, Closed
  <2>4. /\ k \in ClientState /\ k.connectionState = "Connected"
        /\ SameOperations(k, c) /\ k.sendQueue = c.sendQueue
        /\ k.pendingSendBytes = c.pendingSendBytes
    BY <2>1 DEF Sound, ClientState, ConnectionStates, SameOperations
  <2> HIDE DEF k
  <2>5. /\ called \in ClientState /\ SameOperations(called, k)
        /\ called.connectionState = k.connectionState /\ called.sendQueue = k.sendQueue
        /\ called.pendingSendBytes = k.pendingSendBytes
    BY <2>4, CallEffect DEF CallbackTypes
  <2> HIDE DEF called
  <2>6. kept \in SUBSET CallbackTypes
    BY <2>5 DEF ClientState
  <2> HIDE DEF kept
  <2>7. /\ open \in ClientState /\ SameOperations(open, called)
        /\ open.connectionState = called.connectionState
        /\ open.sendQueue = called.sendQueue
        /\ open.pendingSendBytes = called.pendingSendBytes
    BY <2>5, <2>6, CallbacksEffect
  <2> HIDE DEF open
  <2>8. /\ open.operations = c.operations /\ open.connectionGeneration = g
        /\ open.connectionState = "Connected" /\ open.sendQueue = <<>>
        /\ open.pendingSendBytes = c.pendingSendBytes
    BY <2>1, <2>4, <2>5, <2>7 DEF SameOperations, Sound, Queued
  <2>9. Sound(open) /\ Current(open, 0, 0, 0, 0)
    BY <2>1, <2>7, <2>8 DEF Sound, NoneAhead, Queued, Current
  <2>10. CASE answer = "disconnect"
    <3>1. Good(Disconnect(open)) /\ Disconnect(open).connectionState = "Disconnected"
      BY <2>8, <2>9, <2>10, DisconnectGood
    <3>2. ReadNext(answered, g) = answered
      BY <2>10, <3>1 DEF ReadNext, IsCurrentOperation
    <3> QED
      BY <2>2, <2>3, <2>10, <3>1, <3>2 DEF c
  <2>11. CASE answer # "disconnect"
    <3>1. ReadNext(answered, g) = Register(open, "read", g)
      BY <2>8, <2>11 DEF ReadNext, IsCurrentOperation
    <3>2. Good(Register(open, "read", g))
      BY <2>8, <2>9, ChainGoesOn
    <3> QED
      BY <2>2, <2>3, <3>1, <3>2 DEF c
  <2> QED
    BY <2>10, <2>11
<1> QED
  BY <1>2, <1>3

LEMMA HandleReadGood ==
  ASSUME Good(client), NEW generation \in Generations, NEW error \in BOOLEAN,
         NEW units \in Seq(Unit), client.operations[<<"read", generation>>] > 0
  PROVE  Good(HandleRead(Completing("read", generation), units, error, generation))
<1> DEFINE g == client.connectionGeneration
           c == Completing("read", generation)
           handled == HandleRead(c, units, error, generation)
<1>1. "read" \in OperationTypes
  BY DEF OperationTypes
<1>2. CASE generation # g \/ client.connectionState = "Disconnected"
  <2>1. Good(c)
    BY <1>1, <1>2, Unconcerned
  <2>2. c.connectionGeneration = g /\ c.connectionState = client.connectionState
    BY <1>1, CompletingEffect DEF Good
  <2> HIDE DEF c
  <2>3. handled = c
    BY <1>2, <2>2 DEF HandleRead, IsCurrentOperation
  <2> QED
    BY <2>1, <2>3 DEF c
<1>3. CASE generation = g /\ client.connectionState # "Disconnected"
  <2>1. /\ Sound(c) /\ c.connectionGeneration = g /\ c.connectionState = "Connected"
        /\ Current(c, 0, 0, 0, IF c.sendQueue = <<>> THEN 0 ELSE 1)
    <3>1. client.connectionState \in ConnectionStates
      BY DEF Good, Sound, ClientState
    <3> QED
      BY <1>1, <1>3, <3>1, CurrentCompletion DEF ConnectionStates
  <2> DEFINE longer == c.accumulatedBuffer \o units
             k == [c EXCEPT !.accumulatedBuffer = longer]
             processed == ProcessMessages(k)
  <2> HIDE DEF c
  <2>2. handled = IF error THEN CompleteDisconnection(processed, g) ELSE ReadNext(processed, g)
    BY <1>3, <2>1 DEF HandleRead, IsCurrentOperation
  <2>3. longer \in Seq(Unit)
    BY <2>1, ConcatProperties DEF Sound, ClientState
  <2> HIDE DEF longer
  <2>4. /\ k \in ClientState /\ SameOperations(k, c)
        /\ k.connectionState = c.connectionState /\ k.sendQueue = c.sendQueue
        /\ k.pendingSendBytes = c.pendingSendBytes
    BY <2>1, <2>3 DEF Sound, ClientState, SameOperations
  <2> HIDE DEF k
  <2>5. Sound(k)
    BY <2>1, <2>4, SameSound
  <2>6. Proceeds(processed, k)
    BY <2>5, ProcessMessagesEffect
  <2> HIDE DEF processed
  <2>7. CASE Closed(processed)
    <3>1. /\ CompleteDisconnection(processed, g) = processed
          /\ ReadNext(processed, g) = processed
      BY <2>7 DEF Closed, CompleteDisconnection, ReadNext, IsCurrentOperation
    <3> QED
      BY <2>2, <2>7, <3>1 DEF Closed, Good, c
  <2>8. CASE ~Closed(processed)
    <3>1. /\ Sound(processed) /\ processed.connectionState = "Connected"
          /\ processed.sendQueue = c.sendQueue /\ SameOperations(processed, c)
          /\ processed.connectionGeneration = g
      BY <2>1, <2>4, <2>6, <2>8 DEF Proceeds, SameOperations
    <3>2. Current(processed, 0, 0, 0, IF processed.sendQueue = <<>> THEN 0 ELSE 1)
      BY <2>1, <3>1 DEF Current, SameOperations
    <3>3. Good(CompleteDisconnection(processed, g))
      BY <3>1, DisconnectionEffect DEF IsCurrentOperation, Closed, Good
    <3>4. ReadNext(processed, g) = Register(processed, "read", g)
      BY <3>1 DEF ReadNext, IsCurrentOperation
    <3>5. Good(Register(processed, "read", g))
      BY <3>1, <3>2, ChainGoesOn
    <3> QED
      BY <2>2, <3>3, <3>4, <3>5 DEF c
  <2> QED
    BY <2>7, <2>8
<1> QED
  BY <1>2, <1>3

LEMMA HandleWriteGood ==
  ASSUME Good(client), NEW generation \in Generations, NEW error \in BOOLEAN,
         client.operations[<<"write", generation>>] > 0
  PROVE  Good(HandleWrite(Completing("write", generation), error, generation))
<1> DEFINE g == client.connectionGeneration
           c == Completing("write", generation)
           handled == HandleWrite(c, error, generation)
<1>1. "write" \in OperationTypes
  BY DEF OperationTypes
<1>2. CASE generation # g \/ client.connectionState = "Disconnected"
  <2>1. Good(c)
    BY <1>1, <1>2, Unconcerned
  <2>2. c.connectionGeneration = g /\ c.connectionState = client.connectionState
    BY <1>1, CompletingEffect DEF Good
  <2> HIDE DEF c
  <2>3. handled = c
    BY <1>2, <2>2 DEF HandleWrite, IsCurrentOperation
  <2> QED
    BY <2>1, <2>3 DEF c
<1>3. CASE generation = g /\ client.connectionState # "Disconnected"
  <2>1. /\ Sound(c) /\ c.connectionGeneration = g /\ c.connectionState = "Connected"
        /\ c.sendQueue # <<>> /\ Current(c, 0, 0, 1, 0)
    <3>1. client.connectionState \in ConnectionStates
      BY DEF Good, Sound, ClientState
    <3> QED
      BY <1>1, <1>3, <3>1, CurrentCompletion DEF ConnectionStates
  <2> DEFINE size == MessageSize[Head(c.sendQueue)]
             rest == Tail(c.sendQueue)
             count == c.pendingSendBytes - size
             completed == [c EXCEPT !.sendQueue = rest, !.pendingSendBytes = count]
  <2> HIDE DEF c
  <2>2. /\ c.sendQueue \in Seq(SendableTypes) /\ rest \in Seq(SendableTypes)
        /\ Head(c.sendQueue) \in SendableTypes /\ c.pendingSendBytes \in Nat
    BY <2>1, HeadTailProperties DEF Sound, ClientState
  <2>3. size \in Nat
    BY <2>2, NetworkClientAssumption
  <2>4. Good(CompleteDisconnection(c, g))
    BY <2>1, DisconnectionEffect DEF IsCurrentOperation, Closed, Good
  <2>5. CASE error \/ c.pendingSendBytes < size
    <3>1. handled = CompleteDisconnection(c, g)
      BY <1>3, <2>1, <2>5 DEF HandleWrite, IsCurrentOperation
    <3> QED
      BY <2>4, <3>1 DEF c
  <2>6. CASE ~error /\ ~(c.pendingSendBytes < size)
    <3>1. handled = IF completed.sendQueue # <<>> THEN WriteNext(completed, g)
                    ELSE IF completed.pendingSendBytes # 0
                    THEN CompleteDisconnection(completed, g)
                    ELSE completed
      BY <1>3, <2>1, <2>6 DEF HandleWrite, IsCurrentOperation
    <3>2. count \in Nat /\ count <= c.pendingSendBytes
      BY <2>2, <2>3, <2>6
    <3> HIDE DEF rest, count
    <3>3. /\ completed \in ClientState /\ SameOperations(completed, c)
          /\ completed.connectionState = c.connectionState
          /\ completed.sendQueue = rest /\ completed.pendingSendBytes = count
      BY <2>1, <2>2, <3>2 DEF Sound, ClientState, SameOperations
    <3> HIDE DEF completed
    <3>4. c.pendingSendBytes <= MaxPendingSendBytes /\ MaxPendingSendBytes \in Nat
      BY <2>1, NetworkClientAssumption DEF Sound, Queued
    <3>5. count <= MaxPendingSendBytes
      BY <2>2, <3>2, <3>4
    <3>10. completed.pendingSendBytes = Len(WaitingBytes(completed.sendQueue))
      <4>1. c.pendingSendBytes = size + Len(WaitingBytes(rest))
        BY <2>1, <2>2, WaitingTail DEF Sound, Queued, rest
      <4>2. Len(WaitingBytes(rest)) \in Nat
        BY <2>2, WaitingMap DEF rest
      <4> HIDE DEF size
      <4>3. count = Len(WaitingBytes(rest))
        BY <2>3, <4>1, <4>2 DEF count
      <4> QED
        BY <3>3, <4>3
    <3>6. Sound(completed) /\ Current(completed, 0, 0, 1, 0)
      BY <2>1, <3>3, <3>5, <3>10 DEF Sound, NoneAhead, Queued, Current, SameOperations
    <3>7. completed.connectionGeneration = g /\ completed.connectionState = "Connected"
      BY <2>1, <3>3 DEF SameOperations
    <3>8. CASE completed.sendQueue # <<>>
      <4>1. WriteNext(completed, g) = Register(completed, "write", g)
        BY <3>7, <3>8 DEF WriteNext, IsCurrentOperation
      <4>2. Good(Register(completed, "write", g))
        BY <3>6, <3>7, <3>8, ChainGoesOn
      <4> QED
        BY <3>1, <3>8, <4>1, <4>2 DEF c
    <3>9. CASE completed.sendQueue = <<>>
      <4>1. Good(CompleteDisconnection(completed, g))
        BY <3>6, <3>7, DisconnectionEffect DEF IsCurrentOperation, Closed, Good
      <4>2. Good(completed)
        BY <3>6, <3>7, <3>9 DEF Good, Chained
      <4> QED
        BY <3>1, <3>9, <4>1, <4>2 DEF c
    <3> QED
      BY <3>8, <3>9
  <2> QED
    BY <2>5, <2>6
<1> QED
  BY <1>2, <1>3

\* A message that is sent waits, and the first to wait is written.
LEMMA SendGood ==
  ASSUME Good(client), NEW type \in SendableTypes, CanSend(client, type)
  PROVE  Good(Send(client, type))
<1> DEFINE g == client.connectionGeneration
           size == MessageSize[type]
           longer == Append(client.sendQueue, type)
           count == client.pendingSendBytes + size
           queued == [client EXCEPT !.sendQueue = longer, !.pendingSendBytes = count]
<1>1. /\ client \in ClientState /\ Sound(client) /\ client.connectionState = "Connected"
      /\ client.sendQueue \in Seq(SendableTypes) /\ client.pendingSendBytes \in Nat
      /\ Current(client, 0, 0, 1, IF client.sendQueue = <<>> THEN 0 ELSE 1)
  BY DEF Good, Sound, ClientState, Chained, CanSend
<1>2. size \in Nat /\ MaxPendingSendBytes \in Nat
  BY NetworkClientAssumption
<1>3. size <= MaxPendingSendBytes - client.pendingSendBytes
  BY DEF CanSend
<1>4. count \in Nat /\ count <= MaxPendingSendBytes
  BY <1>1, <1>2, <1>3
<1>5. longer \in Seq(SendableTypes) /\ longer # <<>>
  BY <1>1
<1>6. Send(client, type) = IF client.sendQueue = <<>> THEN WriteNext(queued, g) ELSE queued
  BY DEF Send
<1>11. count = Len(WaitingBytes(longer))
  BY <1>1, WaitingAppend DEF Sound, Queued
<1> HIDE DEF longer, count
<1>7. /\ queued \in ClientState /\ SameOperations(queued, client)
      /\ queued.connectionState = "Connected"
      /\ queued.sendQueue = longer /\ queued.pendingSendBytes = count
  BY <1>1, <1>4, <1>5 DEF ClientState, SameOperations
<1> HIDE DEF queued
<1>8. /\ Sound(queued) /\ queued.connectionGeneration = g /\ queued.sendQueue # <<>>
      /\ Current(queued, 0, 0, 1, IF client.sendQueue = <<>> THEN 0 ELSE 1)
  BY <1>1, <1>4, <1>5, <1>7, <1>11 DEF Sound, NoneAhead, Queued, Current, SameOperations
<1>9. CASE client.sendQueue = <<>>
  <2>1. WriteNext(queued, g) = Register(queued, "write", g)
    BY <1>7, <1>8 DEF WriteNext, IsCurrentOperation
  <2> QED
    BY <1>6, <1>7, <1>8, <1>9, <2>1, ChainGoesOn
<1>10. CASE client.sendQueue # <<>>
  BY <1>6, <1>7, <1>8, <1>10 DEF Good, Chained
<1> QED
  BY <1>9, <1>10

\* A posted callback is heard, or dropped.
LEMMA RunCallbackGood ==
  ASSUME Good(client), client.posted # <<>>
  PROVE  Good(RunCallback(client))
<1> DEFINE next == Head(client.posted)
           tail == Tail(client.posted)
           heard == Append(client.heard, next.callback)
           rest == [client EXCEPT !.posted = tail]
           n == [rest EXCEPT !.heard = heard]
<1>1. /\ client \in ClientState /\ client.posted \in Seq(Posted)
      /\ client.heard \in Seq(CallbackTypes)
  BY DEF Good, Sound, ClientState
<1>2. next \in Posted /\ tail \in Seq(Posted)
  BY <1>1, HeadTailProperties
<1>3. next.callback \in CallbackTypes
  BY <1>2 DEF Posted, CallbackTypes
<1>4. heard \in Seq(CallbackTypes)
  BY <1>1, <1>3
<1>5. RunCallback(client) = rest \/ RunCallback(client) = n
  <2>1. rest.heard = client.heard
    BY <1>1 DEF ClientState
  <2> QED
    BY <2>1 DEF RunCallback
<1> HIDE DEF tail, heard
<1>6. /\ rest \in ClientState /\ SameOperations(rest, client)
      /\ rest.connectionState = client.connectionState /\ rest.sendQueue = client.sendQueue
      /\ rest.pendingSendBytes = client.pendingSendBytes
  BY <1>1, <1>2 DEF ClientState, SameOperations
<1> HIDE DEF rest
<1>7. /\ n \in ClientState /\ SameOperations(n, client)
      /\ n.connectionState = client.connectionState /\ n.sendQueue = client.sendQueue
      /\ n.pendingSendBytes = client.pendingSendBytes
  BY <1>4, <1>6 DEF ClientState, SameOperations
<1> HIDE DEF n
<1> QED
  BY <1>5, <1>6, <1>7, SameSound DEF Good

-----------------------------------------------------------------------------
(* The invariant.                                                          *)

\* The inductive invariant: the chain of the current generation is whole, and
\* no operation of a later one exists, so that Connect can start a new chain;
\* what waits belongs to an open connection, so that a new one starts without.
NetworkClientInv ==
    /\ Good(client)
    /\ stream \in Seq(Unit)
    /\ sent \in Seq(Messages)

LEMMA NetworkClientInvInit == Init => NetworkClientInv
<1> SUFFICES ASSUME Init PROVE NetworkClientInv
  OBVIOUS
<1> DEFINE none == [operation \in OperationTypes \X Generations |-> 0]
<1>1. /\ none \in [OperationTypes \X Generations -> Nat]
      /\ \A type \in OperationTypes, generation \in Generations : none[<<type, generation>>] = 0
  OBVIOUS
<1>2. /\ 0 \in Generations /\ "Disconnected" \in ConnectionStates
      /\ <<>> \in Seq(Unit) /\ <<>> \in Seq(SendableTypes) /\ <<>> \in Seq(Posted)
      /\ <<>> \in Seq(CallbackTypes) /\ <<>> \in Seq(Messages)
  BY NetworkClientAssumption DEF Generations, ConnectionStates
<1>3. client = NewClient /\ stream = <<>> /\ sent = <<>>
  BY DEF Init
<1> HIDE DEF none
<1>4. /\ client \in ClientState /\ client.operations = none
      /\ client.connectionState = "Disconnected" /\ client.sendQueue = <<>>
      /\ client.pendingSendBytes = 0
  BY <1>1, <1>2, <1>3 DEF NewClient, ClientState, none
<1>5. NoneAhead(client) /\ Queued(client) /\ Chained(client)
  BY <1>1, <1>4, WaitingEmpty, NetworkClientAssumption DEF NoneAhead, Queued, Chained
<1> QED
  BY <1>2, <1>3, <1>4, <1>5 DEF NetworkClientInv, Good, Sound

\* The units of a message are units.
LEMMA EncodedUnits ==
  ASSUME NEW message \in Messages
  PROVE  /\ Encoded(message) \in Seq(Unit) /\ Len(Encoded(message)) = Units(message)
         /\ Units(message) \in {HeaderUnits, HeaderUnits + 1}
         /\ Encoded(message)[1] = <<message, 1>>
         /\ message = "BadSize" \/ Units(message) = HeaderUnits + 1
<1>1. Units(message) \in Nat /\ Units(message) \in {HeaderUnits, HeaderUnits + 1}
      /\ Units(message) <= HeaderUnits + 1 /\ HeaderUnits + 1 \in Nat /\ 1 \in 1 .. Units(message)
      /\ (message = "BadSize" \/ Units(message) = HeaderUnits + 1)
  BY DEF Units, HeaderUnits
<1>2. \A part \in 1 .. Units(message) : <<message, part>> \in Unit
  BY <1>1 DEF Unit
<1> QED
  BY <1>1, <1>2 DEF Encoded

\* Every step preserves the invariant.
LEMMA NetworkClientInvNext == NetworkClientInv /\ [Next]_vars => NetworkClientInv'
<1> SUFFICES ASSUME NetworkClientInv, [Next]_vars PROVE NetworkClientInv'
  OBVIOUS
<1>1. Good(client) /\ stream \in Seq(Unit) /\ sent \in Seq(Messages) /\ <<>> \in Seq(Messages)
  BY DEF NetworkClientInv
<1>2. SUFFICES ASSUME Next PROVE Good(client') /\ stream' \in Seq(Unit) /\ sent' \in Seq(Messages)
  <2>1. CASE UNCHANGED vars
    BY <1>1, <2>1 DEF vars, NetworkClientInv, Good, Sound, NoneAhead, Queued, Chained, Current
  <2>2. CASE Next
    <3>1. Good(client') /\ stream' \in Seq(Unit) /\ sent' \in Seq(Messages)
      BY <1>2, <2>2
    <3> QED
      BY <3>1 DEF NetworkClientInv, Good, Sound, NoneAhead, Queued, Chained, Current
  <2> QED
    BY <2>1, <2>2
<1>3. CASE OwnerConnects
  <2>1. Good(Connect(client))
    BY <1>1, <1>3, ConnectGood DEF OwnerConnects, Good
  <2> QED
    BY <1>3, <2>1 DEF OwnerConnects
<1>4. CASE OwnerDisconnects
  <2>1. Good(Disconnect(client))
    BY <1>1, <1>4, DisconnectGood DEF OwnerDisconnects, Good
  <2> QED
    BY <1>1, <1>4, <2>1 DEF OwnerDisconnects
<1>5. ASSUME NEW type \in SendableTypes, OwnerSends(type)
      PROVE  Good(client') /\ stream' \in Seq(Unit) /\ sent' \in Seq(Messages)
  BY <1>1, <1>5, SendGood DEF OwnerSends
<1>6. ASSUME NEW message \in Messages, ServerSends(message)
      PROVE  Good(client') /\ stream' \in Seq(Unit) /\ sent' \in Seq(Messages)
  <2>1. /\ stream' = stream \o Encoded(message) /\ sent' = Append(sent, message)
        /\ client' = client
    BY <1>6 DEF ServerSends
  <2>2. stream' \in Seq(Unit)
    BY <1>1, <2>1, EncodedUnits, ConcatProperties
  <2>3. sent' \in Seq(Messages)
    BY <1>1, <2>1
  <2> QED
    BY <1>1, <2>1, <2>2, <2>3
<1>7. CASE CallbackRuns
  BY <1>1, <1>7, RunCallbackGood DEF CallbackRuns
<1>8. ASSUME NEW generation \in Generations, NEW error \in BOOLEAN, ResolveCompletes(generation, error)
      PROVE  Good(client') /\ stream' \in Seq(Unit) /\ sent' \in Seq(Messages)
  BY <1>1, <1>8, HandleResolveGood DEF ResolveCompletes
<1>9. ASSUME NEW generation \in Generations, NEW error \in BOOLEAN,
             NEW answer \in {"continue", "disconnect"},
             ConnectCompletes(generation, error, answer)
      PROVE  Good(client') /\ stream' \in Seq(Unit) /\ sent' \in Seq(Messages)
  BY <1>1, <1>9, HandleConnectGood DEF ConnectCompletes
<1>10. ASSUME NEW generation \in Generations, NEW error \in BOOLEAN, WriteCompletes(generation, error)
       PROVE  Good(client') /\ stream' \in Seq(Unit) /\ sent' \in Seq(Messages)
  BY <1>1, <1>10, HandleWriteGood DEF WriteCompletes
<1>11. ASSUME NEW generation \in Generations, NEW count \in 1 .. Len(stream),
              ReadCompletes(generation, count)
       PROVE  Good(client') /\ stream' \in Seq(Unit) /\ sent' \in Seq(Messages)
  <2>1. Len(stream) \in Nat /\ \A k \in 1 .. Len(stream) : stream[k] \in Unit
    BY <1>1
  <2>2. /\ SubSeq(stream, 1, count) \in Seq(Unit)
        /\ SubSeq(stream, count + 1, Len(stream)) \in Seq(Unit)
    BY <2>1, SubSeqProperties
  <2>3. Good(HandleRead(Completing("read", generation), SubSeq(stream, 1, count), FALSE, generation))
    BY <1>1, <1>11, <2>2, HandleReadGood DEF ReadCompletes
  <2> QED
    BY <1>1, <1>11, <2>2, <2>3 DEF ReadCompletes
<1>12. ASSUME NEW generation \in Generations, OldReadCompletes(generation)
       PROVE  Good(client') /\ stream' \in Seq(Unit) /\ sent' \in Seq(Messages)
  <2>1. Encoded("PlayerIdentity") \in Seq(Unit)
    BY EncodedUnits DEF Messages
  <2> QED
    BY <1>1, <1>12, <2>1, HandleReadGood DEF OldReadCompletes
<1>13. ASSUME NEW generation \in Generations, ReadFails(generation)
       PROVE  Good(client') /\ stream' \in Seq(Unit) /\ sent' \in Seq(Messages)
  <2>1. <<>> \in Seq(Unit)
    OBVIOUS
  <2> QED
    BY <1>1, <1>13, <2>1, HandleReadGood DEF ReadFails
<1> QED
  BY <1>2, <1>3, <1>4, <1>5, <1>6, <1>7, <1>8, <1>9, <1>10, <1>11, <1>12, <1>13 DEF Next

\* A part of a sequence, which may be empty.
LEMMA PartProperties ==
  ASSUME NEW S, NEW s \in Seq(S), NEW m \in 1 .. Len(s) + 1, NEW n \in 0 .. Len(s), m <= n + 1
  PROVE  /\ SubSeq(s, m, n) \in Seq(S) /\ Len(SubSeq(s, m, n)) = (n - m) + 1
         /\ \A i \in 1 .. (n - m) + 1 : SubSeq(s, m, n)[i] = s[(m + i) - 1]
<1>1. Len(s) \in Nat /\ \A i \in 1 .. Len(s) : s[i] \in S
  OBVIOUS
<1>2. m \in Int /\ n \in Int /\ \A i \in m .. n : i \in 1 .. Len(s)
  BY <1>1
<1>3. \A i \in m .. n : s[i] \in S
  BY <1>1, <1>2
<1>4. /\ SubSeq(s, m, n) \in Seq(S)
      /\ Len(SubSeq(s, m, n)) = IF m <= n THEN n - m + 1 ELSE 0
      /\ \A i \in 1 .. n - m + 1 : SubSeq(s, m, n)[i] = s[m + i - 1]
  BY <1>2, <1>3, SubSeqProperties
<1> QED
  BY <1>2, <1>4

\* The parts of a sequence that gets one more member.
LEMMA PartsOfAppend ==
  ASSUME NEW S, NEW s \in Seq(S), NEW e \in S, NEW n \in 0 .. Len(s)
  PROVE  /\ SubSeq(Append(s, e), 1, n) = SubSeq(s, 1, n)
         /\ SubSeq(Append(s, e), n + 1, Len(s) + 1) = Append(SubSeq(s, n + 1, Len(s)), e)
<1> DEFINE t == Append(s, e)
           m == Len(s)
           rest == SubSeq(s, n + 1, m)
<1>1. /\ t \in Seq(S) /\ Len(t) = m + 1 /\ m \in Nat
      /\ \A i \in 1 .. m : t[i] = s[i]
      /\ t[m + 1] = e
  BY AppendProperties
<1> HIDE DEF t
<1>2. SubSeq(t, 1, n) = SubSeq(s, 1, n)
  <2>1. /\ SubSeq(t, 1, n) \in Seq(S) /\ Len(SubSeq(t, 1, n)) = n
        /\ \A i \in 1 .. n : SubSeq(t, 1, n)[i] = t[i]
    BY <1>1, PartProperties
  <2>2. /\ SubSeq(s, 1, n) \in Seq(S) /\ Len(SubSeq(s, 1, n)) = n
        /\ \A i \in 1 .. n : SubSeq(s, 1, n)[i] = s[i]
    BY <1>1, PartProperties
  <2>3. \A i \in 1 .. n : SubSeq(t, 1, n)[i] = SubSeq(s, 1, n)[i]
    BY <1>1, <2>1, <2>2
  <2> QED
    BY <2>1, <2>2, <2>3, SeqEqual
<1>3. SubSeq(t, n + 1, m + 1) = Append(rest, e)
  <2>1. /\ SubSeq(t, n + 1, m + 1) \in Seq(S) /\ Len(SubSeq(t, n + 1, m + 1)) = (m - n) + 1
        /\ \A i \in 1 .. (m - n) + 1 : SubSeq(t, n + 1, m + 1)[i] = t[n + i]
    <3>1. n + 1 \in 1 .. Len(t) + 1 /\ m + 1 \in 0 .. Len(t) /\ n + 1 <= (m + 1) + 1
      BY <1>1
    <3>2. /\ SubSeq(t, n + 1, m + 1) \in Seq(S)
          /\ Len(SubSeq(t, n + 1, m + 1)) = ((m + 1) - (n + 1)) + 1
          /\ \A i \in 1 .. ((m + 1) - (n + 1)) + 1 :
                SubSeq(t, n + 1, m + 1)[i] = t[((n + 1) + i) - 1]
      BY <1>1, <3>1, PartProperties
    <3> QED
      BY <1>1, <3>2
  <2>2. /\ rest \in Seq(S) /\ Len(rest) = m - n
        /\ \A i \in 1 .. m - n : rest[i] = s[n + i]
    <3>1. n + 1 \in 1 .. m + 1 /\ m \in 0 .. m /\ n + 1 <= m + 1
      BY <1>1
    <3>2. /\ rest \in Seq(S) /\ Len(rest) = (m - (n + 1)) + 1
          /\ \A i \in 1 .. (m - (n + 1)) + 1 : rest[i] = s[((n + 1) + i) - 1]
      BY <3>1, PartProperties
    <3> QED
      BY <1>1, <3>2
  <2> HIDE DEF rest
  <2>3. /\ Append(rest, e) \in Seq(S) /\ Len(Append(rest, e)) = (m - n) + 1
        /\ \A i \in 1 .. m - n : Append(rest, e)[i] = rest[i]
        /\ Append(rest, e)[(m - n) + 1] = e
    BY <2>2, AppendProperties
  <2> HIDE DEF m
  <2>4. \A i \in 1 .. (m - n) + 1 : SubSeq(t, n + 1, m + 1)[i] = Append(rest, e)[i]
    <3> TAKE i \in 1 .. (m - n) + 1
    <3>1. CASE i = (m - n) + 1
      <4>1. n + i = m + 1
        BY <1>1, <3>1
      <4> QED
        BY <1>1, <2>1, <2>3, <3>1, <4>1
    <3>2. CASE i # (m - n) + 1
      <4>1. i \in 1 .. m - n /\ n + i \in 1 .. m
        BY <1>1, <3>2
      <4>2. SubSeq(t, n + 1, m + 1)[i] = s[n + i]
        BY <1>1, <2>1, <4>1
      <4> QED
        BY <2>2, <2>3, <4>1, <4>2
    <3> QED
      BY <3>1, <3>2
  <2> QED
    BY <2>1, <2>3, <2>4, SeqEqual
<1> QED
  BY <1>2, <1>3 DEF t

-----------------------------------------------------------------------------
(* The messages of the server: their units, and the callbacks they lead to. *)

EncodedOf == [message \in Messages |-> Encoded(message)]

LEMMA StreamMap ==
  /\ EncodedOf \in PiecesOf(Messages, Unit)
  /\ \A message \in Messages : EncodedOf[message] = Encoded(message)
  /\ \A messages \in Seq(Messages) :
        /\ Stream(messages) = FlatMap(EncodedOf, messages)
        /\ Stream(messages) \in Seq(Unit)
<1>1. \A message \in Messages :
         EncodedOf[message] = Encoded(message) /\ EncodedOf[message] \in Seq(Unit)
  BY EncodedUnits DEF EncodedOf
<1>2. EncodedOf \in PiecesOf(Messages, Unit)
  <2>1. EncodedOf = [message \in Messages |-> EncodedOf[message]]
    BY DEF EncodedOf
  <2> QED
    BY <1>1, <2>1 DEF PiecesOf
<1>3. ASSUME NEW messages \in Seq(Messages)
      PROVE  /\ Stream(messages) = FlatMap(EncodedOf, messages)
             /\ Stream(messages) \in Seq(Unit)
  <2>1. \A i \in DOMAIN messages : messages[i] \in Messages
    OBVIOUS
  <2>2. [i \in DOMAIN messages |-> Encoded(messages[i])] =
           [i \in DOMAIN messages |-> EncodedOf[messages[i]]]
    BY <1>1, <2>1
  <2>3. Stream(messages) = FlatMap(EncodedOf, messages)
    BY <2>2 DEF Stream, FlatMap, Pieces
  <2> QED
    BY <1>2, <2>3, FlatMapType
<1> QED
  BY <1>1, <1>2, <1>3

CallbackOf ==
    [message \in Messages |->
        IF message \in {"PlayerIdentity", "WorldStateSnapshot"} THEN <<message>> ELSE <<>>]

LEMMA CallbacksMap ==
  /\ CallbackOf \in PiecesOf(Messages, CallbackTypes)
  /\ \A message \in Messages :
        CallbackOf[message] =
           IF message \in {"PlayerIdentity", "WorldStateSnapshot"} THEN <<message>> ELSE <<>>
  /\ \A messages \in Seq(Messages) :
        /\ Contract!Callbacks(messages) = FlatMap(CallbackOf, messages)
        /\ Contract!Callbacks(messages) \in Seq(CallbackTypes)
<1>1. \A message \in Messages :
         CallbackOf[message] =
            IF message \in {"PlayerIdentity", "WorldStateSnapshot"} THEN <<message>> ELSE <<>>
  BY DEF CallbackOf
<1>2. \A message \in Messages : CallbackOf[message] \in Seq(CallbackTypes)
  <2> TAKE message \in Messages
  <2>1. CASE message \in {"PlayerIdentity", "WorldStateSnapshot"}
    <3>1. message \in CallbackTypes
      BY <2>1 DEF CallbackTypes
    <3>2. <<message>> \in Seq(CallbackTypes)
      BY <3>1
    <3> QED
      BY <1>1, <2>1, <3>2
  <2>2. CASE message \notin {"PlayerIdentity", "WorldStateSnapshot"}
    <3>1. CallbackOf[message] = <<>>
      BY <1>1, <2>2
    <3> QED
      BY <3>1
  <2> QED
    BY <2>1, <2>2
<1>3. CallbackOf \in PiecesOf(Messages, CallbackTypes)
  <2>1. CallbackOf = [message \in Messages |-> CallbackOf[message]]
    BY DEF CallbackOf
  <2> QED
    BY <1>2, <2>1 DEF PiecesOf
<1>4. ASSUME NEW messages \in Seq(Messages)
      PROVE  /\ Contract!Callbacks(messages) = FlatMap(CallbackOf, messages)
             /\ Contract!Callbacks(messages) \in Seq(CallbackTypes)
  <2>1. \A i \in DOMAIN messages : messages[i] \in Messages
    OBVIOUS
  <2>2. [i \in DOMAIN messages |->
           IF messages[i] \in {"PlayerIdentity", "WorldStateSnapshot"}
           THEN <<messages[i]>> ELSE <<>>] =
           [i \in DOMAIN messages |-> CallbackOf[messages[i]]]
    BY <1>1, <2>1
  <2> DEFINE pieces == [i \in DOMAIN messages |->
                           IF messages[i] \in {"PlayerIdentity", "WorldStateSnapshot"}
                           THEN <<messages[i]>> ELSE <<>>]
  <2>3. Contract!Callbacks(messages) = Contract!FlattenSeq(pieces)
    BY DEF Contract!Callbacks
  <2>4. FlatMap(CallbackOf, messages) = FlattenSeq(pieces)
    BY <2>2 DEF FlatMap, Pieces
  <2> HIDE DEF pieces
  <2>5. Contract!FlattenSeq(pieces) = FlattenSeq(pieces)
    BY Zenon DEF Contract!FlattenSeq, FlattenSeq
  <2> QED
    BY <1>3, <2>3, <2>4, <2>5, FlatMapType
<1> QED
  BY <1>1, <1>3, <1>4

\* The callbacks posted by a generation.
RunOf(generation) ==
    [p \in Posted |-> IF p.generation = generation THEN <<p.callback>> ELSE <<>>]

LEMMA ToRunMap ==
  ASSUME NEW c \in ClientState
  PROVE  /\ RunOf(c.connectionGeneration) \in PiecesOf(Posted, CallbackTypes)
         /\ c.posted \in Seq(Posted)
         /\ ToRun(c) = FlatMap(RunOf(c.connectionGeneration), c.posted)
         /\ ToRun(c) \in Seq(CallbackTypes)
<1> DEFINE g == c.connectionGeneration
           run == RunOf(g)
<1>1. c.posted \in Seq(Posted)
  BY DEF ClientState
<1>2. \A p \in Posted :
         /\ run[p] = IF p.generation = g THEN <<p.callback>> ELSE <<>>
         /\ p.callback \in CallbackTypes
  BY DEF RunOf, Posted, CallbackTypes
<1>3. \A p \in Posted : run[p] \in Seq(CallbackTypes)
  <2> TAKE p \in Posted
  <2> DEFINE b == p.callback
  <2>1. b \in CallbackTypes /\ run[p] = IF p.generation = g THEN <<b>> ELSE <<>>
    BY <1>2
  <2> HIDE DEF b, run, g
  <2>2. <<b>> \in Seq(CallbackTypes) /\ <<>> \in Seq(CallbackTypes)
    BY <2>1
  <2> QED
    BY <2>1, <2>2
<1>4. run = [p \in Posted |-> run[p]]
  BY DEF RunOf
<1> HIDE DEF run
<1>5. run \in PiecesOf(Posted, CallbackTypes)
  BY <1>3, <1>4 DEF PiecesOf
<1>6. [i \in DOMAIN c.posted |->
         IF c.posted[i].generation = g THEN <<c.posted[i].callback>> ELSE <<>>] =
         [i \in DOMAIN c.posted |-> run[c.posted[i]]]
  <2>1. \A i \in DOMAIN c.posted : c.posted[i] \in Posted
    BY <1>1
  <2> QED
    BY <1>2, <2>1
<1>7. ToRun(c) = FlatMap(run, c.posted)
  BY <1>6 DEF ToRun, FlatMap, Pieces
<1>8. FlatMap(run, c.posted) \in Seq(CallbackTypes)
  BY <1>1, <1>5, FlatMapType
<1> QED
  BY <1>1, <1>5, <1>7, <1>8 DEF run

\* The messages that were read, and those still to read.
Whole(messages, n) == SubSeq(messages, 1, n)
Rest(messages, n) == SubSeq(messages, n + 1, Len(messages))

LEMMA CutType ==
  ASSUME NEW messages \in Seq(Messages), NEW n \in 0 .. Len(messages)
  PROVE  /\ Whole(messages, n) \in Seq(Messages) /\ Len(Whole(messages, n)) = n
         /\ Rest(messages, n) \in Seq(Messages) /\ Len(Rest(messages, n)) = Len(messages) - n
         /\ Stream(Rest(messages, n)) \in Seq(Unit)
         /\ \A i \in 1 .. n : Whole(messages, n)[i] = messages[i]
<1> DEFINE m == Len(messages)
<1>1. m \in Nat /\ n \in Nat /\ n <= m
  OBVIOUS
<1>2. /\ Whole(messages, n) \in Seq(Messages) /\ Len(Whole(messages, n)) = n
      /\ \A i \in 1 .. n : Whole(messages, n)[i] = messages[i]
  <2>1. 1 \in 1 .. m + 1 /\ n \in 0 .. m /\ 1 <= n + 1
    BY <1>1
  <2>2. /\ Whole(messages, n) \in Seq(Messages)
        /\ Len(Whole(messages, n)) = (n - 1) + 1
        /\ \A i \in 1 .. (n - 1) + 1 : Whole(messages, n)[i] = messages[(1 + i) - 1]
    BY <2>1, PartProperties DEF Whole
  <2> QED
    BY <1>1, <2>2
<1>3. Rest(messages, n) \in Seq(Messages) /\ Len(Rest(messages, n)) = m - n
  <2>1. n + 1 \in 1 .. m + 1 /\ m \in 0 .. m /\ n + 1 <= m + 1
    BY <1>1
  <2>2. Rest(messages, n) \in Seq(Messages) /\ Len(Rest(messages, n)) = (m - (n + 1)) + 1
    BY <2>1, PartProperties DEF Rest
  <2> QED
    BY <1>1, <2>2
<1> QED
  BY <1>2, <1>3, StreamMap

\* The next message is read, with all of its units.
LEMMA CutNext ==
  ASSUME NEW messages \in Seq(Messages), NEW n \in 0 .. Len(messages), n < Len(messages)
  PROVE  /\ n + 1 \in 0 .. Len(messages) /\ messages[n + 1] \in Messages
         /\ Stream(Rest(messages, n)) =
               Encoded(messages[n + 1]) \o Stream(Rest(messages, n + 1))
         /\ Whole(messages, n + 1) = Append(Whole(messages, n), messages[n + 1])
<1> DEFINE m == Len(messages)
           next == messages[n + 1]
           after == Rest(messages, n + 1)
<1>1. m \in Nat /\ n \in Nat /\ n + 1 \in 0 .. m /\ n + 1 \in 1 .. m
  OBVIOUS
<1>2. next \in Messages /\ after \in Seq(Messages)
  BY <1>1, CutType
<1>3. Rest(messages, n) = <<next>> \o after
  <2>1. m \in n + 1 .. m
    BY <1>1
  <2> QED
    BY <1>1, <2>1, SubSeqRecursiveFirst DEF Rest
<1> HIDE DEF after
<1>4. Whole(messages, n + 1) = Append(Whole(messages, n), next)
  <2>1. 1 \in 1 .. m /\ n + 1 \in 1 .. m /\ (n + 1) - 1 = n
    BY <1>1
  <2>2. Whole(messages, n + 1) = Whole(messages, n) \o <<next>>
    BY <2>1, SubSeqRecursiveSecond DEF Whole
  <2> HIDE DEF next
  <2>3. Whole(messages, n) \in Seq(Messages)
    BY CutType
  <2> QED
    BY <1>2, <2>2, <2>3, AppendIsConcat
<1> HIDE DEF next
<1>5. Stream(Rest(messages, n)) = Encoded(next) \o Stream(after)
  <2> DEFINE one == <<next>>
  <2>1. one \in Seq(Messages)
    BY <1>2
  <2>2. FlatMap(EncodedOf, one) = EncodedOf[next]
    BY <1>2, StreamMap, FlatMapFew
  <2> HIDE DEF one
  <2>3. FlatMap(EncodedOf, one \o after) = FlatMap(EncodedOf, one) \o FlatMap(EncodedOf, after)
    BY <1>2, <2>1, StreamMap, FlatMapConcat
  <2>4. one \o after \in Seq(Messages)
    BY <1>2, <2>1, ConcatProperties
  <2>5. /\ Stream(one \o after) = FlatMap(EncodedOf, one \o after)
        /\ Stream(after) = FlatMap(EncodedOf, after)
        /\ EncodedOf[next] = Encoded(next)
    BY <1>2, <2>4, StreamMap
  <2> QED
    BY <1>3, <2>2, <2>3, <2>5 DEF one
<1> QED
  BY <1>1, <1>2, <1>4, <1>5 DEF next, after

\* The server sends one more message.
LEMMA CutAppend ==
  ASSUME NEW messages \in Seq(Messages), NEW n \in 0 .. Len(messages), NEW message \in Messages
  PROVE  /\ Whole(Append(messages, message), n) = Whole(messages, n)
         /\ Stream(Rest(Append(messages, message), n)) =
               Stream(Rest(messages, n)) \o Encoded(message)
<1> DEFINE before == Rest(messages, n)
<1>1. /\ Whole(Append(messages, message), n) = Whole(messages, n)
      /\ Rest(Append(messages, message), n) = Append(before, message)
  <2>1. Len(Append(messages, message)) = Len(messages) + 1
    OBVIOUS
  <2> QED
    BY <2>1, PartsOfAppend DEF Whole, Rest
<1>2. before \in Seq(Messages)
  BY CutType
<1> HIDE DEF before
<1>3. Append(before, message) \in Seq(Messages)
  BY <1>2
<1>4. FlatMap(EncodedOf, Append(before, message)) = FlatMap(EncodedOf, before) \o EncodedOf[message]
  BY <1>2, StreamMap, FlatMapAppend
<1>5. /\ Stream(Append(before, message)) = FlatMap(EncodedOf, Append(before, message))
      /\ Stream(before) = FlatMap(EncodedOf, before)
      /\ EncodedOf[message] = Encoded(message)
  BY <1>2, <1>3, StreamMap
<1> QED
  BY <1>1, <1>4, <1>5 DEF before

\* A message the client takes after the others.
Accepts(messages, message) ==
    \/ message \in {"Pong", "PlayerIdentity"}
    \/ message = "WorldStateSnapshot" /\ Contains(messages, "PlayerIdentity")

LEMMA AcceptedAppend ==
  ASSUME NEW messages \in Seq(Messages), NEW message \in Messages,
         Contract!Refused(messages) = {}, Accepts(messages, message)
  PROVE  /\ Contract!Refused(Append(messages, message)) = {}
         /\ Contract!Callbacks(Append(messages, message)) =
               Contract!Callbacks(messages) \o CallbackOf[message]
<1> DEFINE longer == Append(messages, message)
           m == Len(messages)
<1>1. /\ longer \in Seq(Messages) /\ Len(longer) = m + 1 /\ m \in Nat
      /\ DOMAIN longer = 1 .. m + 1 /\ DOMAIN messages = 1 .. m
      /\ \A i \in 1 .. m : longer[i] = messages[i]
      /\ longer[m + 1] = message
  OBVIOUS
<1> HIDE DEF longer
<1>2. Contract!Refused(longer) = {}
  <2>1. \A i \in 1 .. m :
           ~ /\ messages[i] \notin {"Pong", "PlayerIdentity"}
             /\ messages[i] = "WorldStateSnapshot" =>
                   \A j \in 1 .. i - 1 : messages[j] # "PlayerIdentity"
    BY <1>1 DEF Contract!Refused
  <2>2. ASSUME NEW i \in 1 .. m + 1,
               longer[i] \notin {"Pong", "PlayerIdentity"},
               longer[i] = "WorldStateSnapshot" =>
                  \A j \in 1 .. i - 1 : longer[j] # "PlayerIdentity"
        PROVE  FALSE
    <3>1. CASE i = m + 1
      <4>1. message = "WorldStateSnapshot" /\ Contains(messages, "PlayerIdentity")
        BY <1>1, <2>2, <3>1 DEF Accepts
      <4>2. PICK j \in 1 .. m : messages[j] = "PlayerIdentity"
        BY <4>1 DEF Contains
      <4>3. j \in 1 .. i - 1 /\ longer[j] = "PlayerIdentity"
        BY <1>1, <3>1, <4>2
      <4> QED
        BY <1>1, <2>2, <3>1, <4>1, <4>3
    <3>2. CASE i # m + 1
      <4>1. i \in 1 .. m /\ longer[i] = messages[i]
        BY <1>1, <3>2
      <4>2. /\ messages[i] = "WorldStateSnapshot"
            /\ ~ \A j \in 1 .. i - 1 : messages[j] # "PlayerIdentity"
        BY <2>1, <2>2, <4>1
      <4>3. PICK j \in 1 .. i - 1 : messages[j] = "PlayerIdentity"
        BY <4>2
      <4>4. longer[j] = "PlayerIdentity"
        BY <1>1, <4>1, <4>3
      <4> QED
        BY <2>2, <4>1, <4>2, <4>3, <4>4
    <3> QED
      BY <3>1, <3>2
  <2> QED
    BY <1>1, <2>2 DEF Contract!Refused
<1>3. FlatMap(CallbackOf, Append(messages, message)) =
         FlatMap(CallbackOf, messages) \o CallbackOf[message]
  BY CallbacksMap, FlatMapAppend
<1>4. /\ Contract!Callbacks(longer) = FlatMap(CallbackOf, longer)
      /\ Contract!Callbacks(messages) = FlatMap(CallbackOf, messages)
  BY <1>1, CallbacksMap
<1> QED
  BY <1>2, <1>3, <1>4 DEF longer

\* What is known from the messages that were read.
LEMMA ContainsAppend ==
  ASSUME NEW messages \in Seq(Messages), NEW message \in Messages, NEW other
  PROVE  Contains(Append(messages, message), other) =
            IF message = other THEN TRUE ELSE Contains(messages, other)
<1> DEFINE longer == Append(messages, message)
           m == Len(messages)
<1>1. /\ Len(longer) = m + 1 /\ m \in Nat
      /\ \A i \in 1 .. m : longer[i] = messages[i]
      /\ longer[m + 1] = message
  OBVIOUS
<1> HIDE DEF longer, m
<1>2. Contains(longer, other) <=> \E i \in 1 .. m + 1 : longer[i] = other
  BY <1>1 DEF Contains
<1>3. Contains(messages, other) <=> \E i \in 1 .. m : messages[i] = other
  BY DEF Contains, m
<1>4. m + 1 \in 1 .. m + 1 /\ \A i \in 1 .. m + 1 : i \in 1 .. m \/ i = m + 1
  BY <1>1
<1>5. \A i \in 1 .. m : i \in 1 .. m + 1
  BY <1>1
<1>6. Contains(longer, other) <=> Contains(messages, other) \/ message = other
  BY <1>1, <1>2, <1>3, <1>4, <1>5
<1>7. Contains(longer, other) \in BOOLEAN /\ Contains(messages, other) \in BOOLEAN
  BY DEF Contains
<1> QED
  BY <1>6, <1>7 DEF longer

\* The buffer and the rest of the stream are the messages still to read, and
\* those that were read are known and passed on (FramedExactly).
Taken(c, rest, messages, n) ==
    /\ c.accumulatedBuffer \o rest = Stream(Rest(messages, n))
    /\ Contract!Refused(Whole(messages, n)) = {}
    /\ c.heard \o ToRun(c) = <<"Connected">> \o Contract!Callbacks(Whole(messages, n))
    /\ c.playerIdentity = Contains(Whole(messages, n), "PlayerIdentity")
    /\ c.latestRtt = Contains(Whole(messages, n), "Pong")

\* No whole message waits in the buffer.
Settled(c, messages, n) ==
    n < Len(messages) => Len(c.accumulatedBuffer) < Units(messages[n + 1])

\* The callbacks that an open connection can be asked for are still there.
Listens(c) == {"Disconnected", "PlayerIdentity", "WorldStateSnapshot"} \subseteq c.callbacks

\* No callback is posted for a connection that is still to come.
NoPostAhead(c) ==
    \A i \in 1 .. Len(c.posted) : c.posted[i].generation <= c.connectionGeneration

\* What posting changes: the callback is the last to run.
LEMMA PostedAppend ==
  ASSUME NEW c \in ClientState, NEW d \in ClientState,
         NEW callback \in {"PlayerIdentity", "WorldStateSnapshot"},
         d.connectionGeneration = c.connectionGeneration,
         d.posted = Append(c.posted, [callback |-> callback,
                                      generation |-> c.connectionGeneration])
  PROVE  /\ ToRun(d) = ToRun(c) \o <<callback>>
         /\ NoPostAhead(c) => NoPostAhead(d)
<1> DEFINE g == c.connectionGeneration
           e == [callback |-> callback, generation |-> g]
           run == RunOf(g)
           posted == c.posted
<1>1. /\ g \in Generations /\ e \in Posted /\ e.callback = callback /\ e.generation = g
      /\ d.posted = Append(posted, e) /\ posted \in Seq(Posted)
  BY DEF ClientState, Posted
<1>2. /\ ToRun(c) = FlatMap(run, posted) /\ ToRun(d) = FlatMap(run, d.posted)
      /\ run \in PiecesOf(Posted, CallbackTypes)
  BY ToRunMap
<1>3. run[e] = <<callback>>
  BY <1>1 DEF RunOf
<1>4. g \in Nat
  BY <1>1, GenerationType
<1> HIDE DEF run, e, posted, g
<1>5. FlatMap(run, Append(posted, e)) = FlatMap(run, posted) \o run[e]
  BY <1>1, <1>2, FlatMapAppend
<1>6. ASSUME NoPostAhead(c) PROVE NoPostAhead(d)
  <2>1. \A i \in 1 .. Len(posted) : posted[i].generation <= g
    BY <1>6 DEF NoPostAhead, posted, g
  <2>2. /\ Len(d.posted) = Len(posted) + 1 /\ Len(posted) \in Nat
        /\ \A i \in 1 .. Len(posted) : d.posted[i] = posted[i]
        /\ d.posted[Len(posted) + 1] = e
    BY <1>1, AppendProperties
  <2>3. d.connectionGeneration = g
    BY DEF g
  <2>4. \A i \in 1 .. Len(posted) + 1 : i \in 1 .. Len(posted) \/ i = Len(posted) + 1
    BY <2>2
  <2>5. \A i \in 1 .. Len(posted) + 1 : d.posted[i].generation <= g
    BY <1>1, <1>4, <2>1, <2>2, <2>4
  <2> QED
    BY <2>2, <2>3, <2>5 DEF NoPostAhead
<1> QED
  BY <1>1, <1>2, <1>3, <1>5, <1>6

\* Dispatching an accepted message makes known what it says and posts what it
\* leads to, and leaves the rest of the connection alone.
LEMMA DispatchTakes ==
  ASSUME NEW c \in ClientState, Listens(c), NEW message \in Messages, Handles(c, message)
  PROVE  LET d == DispatchMessage(c, message)
         IN  /\ d \in ClientState /\ d.accumulatedBuffer = c.accumulatedBuffer
             /\ d.connectionState = c.connectionState /\ d.callbacks = c.callbacks
             /\ d.connectionGeneration = c.connectionGeneration /\ d.heard = c.heard
             /\ ToRun(d) = ToRun(c) \o CallbackOf[message]
             /\ NoPostAhead(c) => NoPostAhead(d)
             /\ d.playerIdentity = IF message = "PlayerIdentity" THEN TRUE ELSE c.playerIdentity
             /\ d.latestRtt = IF message = "Pong" THEN TRUE ELSE c.latestRtt
<1> DEFINE e == [callback |-> message, generation |-> c.connectionGeneration]
           longer == Append(c.posted, e)
           d == DispatchMessage(c, message)
<1>1. d \in ClientState
  BY DispatchEffect
<1>2. ToRun(c) \in Seq(CallbackTypes) /\ ToRun(c) \o <<>> = ToRun(c)
  BY ToRunMap, ConcatEmptySeq
<1>3. CASE message = "Pong"
  <2>1. d = [c EXCEPT !.latestRtt = TRUE]
    BY <1>3 DEF DispatchMessage
  <2>2. /\ d.accumulatedBuffer = c.accumulatedBuffer /\ d.posted = c.posted
        /\ d.connectionState = c.connectionState /\ d.callbacks = c.callbacks
        /\ d.connectionGeneration = c.connectionGeneration /\ d.heard = c.heard
        /\ d.playerIdentity = c.playerIdentity /\ d.latestRtt = TRUE
    BY <2>1 DEF ClientState
  <2>3. CallbackOf[message] = <<>>
    BY <1>3, CallbacksMap
  <2> HIDE DEF d
  <2>4. ToRun(d) = ToRun(c) /\ (NoPostAhead(c) => NoPostAhead(d))
    BY <2>2 DEF ToRun, NoPostAhead
  <2>5. d.playerIdentity = IF message = "PlayerIdentity" THEN TRUE ELSE c.playerIdentity
    BY <1>3, <2>2
  <2>6. d.latestRtt = IF message = "Pong" THEN TRUE ELSE c.latestRtt
    BY <1>3, <2>2
  <2> QED
    BY <1>1, <1>2, <2>2, <2>3, <2>4, <2>5, <2>6 DEF d
<1>4. CASE message = "PlayerIdentity"
  <2> DEFINE k == [c EXCEPT !.playerIdentity = TRUE]
  <2>1. /\ k.callbacks = c.callbacks /\ k.posted = c.posted
        /\ k.connectionGeneration = c.connectionGeneration
    BY DEF ClientState
  <2>2. d = [k EXCEPT !.posted = longer]
    BY <1>4, <2>1 DEF DispatchMessage, Post, Listens
  <2> HIDE DEF longer
  <2>3. /\ d.accumulatedBuffer = c.accumulatedBuffer /\ d.posted = longer
        /\ d.connectionState = c.connectionState /\ d.callbacks = c.callbacks
        /\ d.connectionGeneration = c.connectionGeneration /\ d.heard = c.heard
        /\ d.playerIdentity = TRUE /\ d.latestRtt = c.latestRtt
    BY <2>2 DEF ClientState
  <2>4. CallbackOf[message] = <<message>>
    BY <1>4, CallbacksMap
  <2> HIDE DEF d
  <2>5. ToRun(d) = ToRun(c) \o <<message>> /\ (NoPostAhead(c) => NoPostAhead(d))
    BY <1>1, <1>4, <2>3, PostedAppend DEF longer
  <2>6. d.playerIdentity = IF message = "PlayerIdentity" THEN TRUE ELSE c.playerIdentity
    BY <1>4, <2>3
  <2>7. d.latestRtt = IF message = "Pong" THEN TRUE ELSE c.latestRtt
    BY <1>4, <2>3
  <2> QED
    BY <1>1, <2>3, <2>4, <2>5, <2>6, <2>7 DEF d
<1>5. CASE message = "WorldStateSnapshot"
  <2>1. d = [c EXCEPT !.posted = longer]
    BY <1>5 DEF DispatchMessage, Post, Listens
  <2> HIDE DEF longer
  <2>2. /\ d.accumulatedBuffer = c.accumulatedBuffer /\ d.posted = longer
        /\ d.connectionState = c.connectionState /\ d.callbacks = c.callbacks
        /\ d.connectionGeneration = c.connectionGeneration /\ d.heard = c.heard
        /\ d.playerIdentity = c.playerIdentity /\ d.latestRtt = c.latestRtt
    BY <2>1 DEF ClientState
  <2>3. CallbackOf[message] = <<message>>
    BY <1>5, CallbacksMap
  <2> HIDE DEF d
  <2>4. ToRun(d) = ToRun(c) \o <<message>> /\ (NoPostAhead(c) => NoPostAhead(d))
    BY <1>1, <1>5, <2>2, PostedAppend DEF longer
  <2>5. d.playerIdentity = IF message = "PlayerIdentity" THEN TRUE ELSE c.playerIdentity
    BY <1>5, <2>2
  <2>6. d.latestRtt = IF message = "Pong" THEN TRUE ELSE c.latestRtt
    BY <1>5, <2>2
  <2> QED
    BY <1>1, <2>2, <2>3, <2>4, <2>5, <2>6 DEF d
<1> QED
  BY <1>3, <1>4, <1>5 DEF Handles

\* What is left of a buffer.
Drop(buffer, size) == SubSeq(buffer, size + 1, Len(buffer))

CutTwice(buffer, rest, encoded, after) == buffer \o rest = encoded \o after

\* Two ways to cut a sequence in two: what the longer first part has more is
\* the beginning of the other second part.
LEMMA DropConcat ==
  ASSUME NEW S, NEW buffer \in Seq(S), NEW rest \in Seq(S),
         NEW encoded \in Seq(S), NEW after \in Seq(S),
         CutTwice(buffer, rest, encoded, after), Len(encoded) <= Len(buffer)
  PROVE  /\ Drop(buffer, Len(encoded)) \in Seq(S)
         /\ Len(Drop(buffer, Len(encoded))) = Len(buffer) - Len(encoded)
         /\ Drop(buffer, Len(encoded)) \o rest = after
<1> DEFINE size == Len(encoded)
           m == Len(buffer)
           k == Len(rest)
           j == Len(after)
           shorter == Drop(buffer, size)
<1>1. size \in Nat /\ m \in Nat /\ k \in Nat /\ j \in Nat /\ size <= m
  OBVIOUS
<1>2. /\ Len(buffer \o rest) = m + k
      /\ \A i \in 1 .. m + k :
            (buffer \o rest)[i] = IF i <= m THEN buffer[i] ELSE rest[i - m]
  BY ConcatProperties
<1>3. /\ Len(encoded \o after) = size + j
      /\ \A i \in 1 .. size + j :
            (encoded \o after)[i] = IF i <= size THEN encoded[i] ELSE after[i - size]
  BY ConcatProperties
<1>4. /\ shorter \in Seq(S) /\ Len(shorter) = m - size
      /\ \A i \in 1 .. m - size : shorter[i] = buffer[size + i]
  <2>1. size + 1 \in 1 .. m + 1 /\ m \in 0 .. m /\ size + 1 <= m + 1
    BY <1>1
  <2>2. /\ shorter \in Seq(S) /\ Len(shorter) = (m - (size + 1)) + 1
        /\ \A i \in 1 .. (m - (size + 1)) + 1 :
              shorter[i] = buffer[((size + 1) + i) - 1]
    BY <2>1, PartProperties DEF Drop
  <2> HIDE DEF shorter, size, m
  <2> QED
    BY <1>1, <2>2
<1> HIDE DEF shorter
<1>5. /\ shorter \o rest \in Seq(S) /\ Len(shorter \o rest) = Len(shorter) + k
      /\ \A i \in 1 .. Len(shorter) + k :
            (shorter \o rest)[i] =
               IF i <= Len(shorter) THEN shorter[i] ELSE rest[i - Len(shorter)]
  BY <1>4, ConcatProperties
<1>6. m + k = size + j
  BY <1>2, <1>3 DEF CutTwice
<1>7. j = Len(after)
  OBVIOUS
<1> HIDE DEF size, m, k, j
<1>8. Len(shorter \o rest) = j
  BY <1>1, <1>4, <1>5, <1>6
<1>9. \A i \in 1 .. j : (shorter \o rest)[i] = after[i]
  <2> TAKE i \in 1 .. j
  <2>1. /\ size + i \in 1 .. size + j /\ ~(size + i <= size) /\ (size + i) - size = i
        /\ size + i \in 1 .. m + k /\ i \in 1 .. Len(shorter) + k
    BY <1>1, <1>4, <1>6
  <2>2. (buffer \o rest)[size + i] = after[i]
    BY <1>3, <2>1 DEF CutTwice
  <2>3. CASE i <= Len(shorter)
    <3>1. i \in 1 .. m - size /\ size + i <= m
      BY <1>1, <1>4, <2>3
    <3>2. (shorter \o rest)[i] = buffer[size + i]
      BY <1>4, <1>5, <2>1, <2>3, <3>1
    <3>3. (buffer \o rest)[size + i] = buffer[size + i]
      BY <1>2, <2>1, <3>1
    <3> QED
      BY <2>2, <3>2, <3>3
  <2>4. CASE ~(i <= Len(shorter))
    <3>1. ~(size + i <= m) /\ (size + i) - m = i - Len(shorter)
      BY <1>1, <1>4, <2>4
    <3>2. (shorter \o rest)[i] = rest[i - Len(shorter)]
      BY <1>5, <2>1, <2>4
    <3>3. (buffer \o rest)[size + i] = rest[(size + i) - m]
      BY <1>2, <2>1, <3>1
    <3> QED
      BY <2>2, <3>1, <3>2, <3>3
  <2> QED
    BY <2>3, <2>4
<1>10. shorter \o rest = after
  BY <1>5, <1>7, <1>8, <1>9, SeqEqual
<1> QED
  BY <1>4, <1>10 DEF shorter, size, m

\* One turn of the loop: nothing whole is in the buffer, or the connection
\* ends, or the next message is taken.
LEMMA TurnTakes ==
  ASSUME NEW c \in ClientState, c.connectionState = "Connected", Listens(c),
         NEW rest \in Seq(Unit), NEW messages \in Seq(Messages),
         NEW n \in 0 .. Len(messages), Taken(c, rest, messages, n)
  PROVE  LET d == ProcessMessage(c)
         IN  \/ d = c /\ Settled(c, messages, n)
             \/ d = CompleteDisconnection(c, c.connectionGeneration)
             \/ /\ ~Settled(c, messages, n)
                /\ n + 1 \in 0 .. Len(messages) /\ Taken(d, rest, messages, n + 1)
                /\ d.connectionState = "Connected" /\ Listens(d) /\ d.heard = c.heard
                /\ NoPostAhead(c) => NoPostAhead(d)
                /\ Len(d.accumulatedBuffer) \in Nat
                /\ Len(d.accumulatedBuffer) + 2 <= Len(c.accumulatedBuffer)
<1> DEFINE buffer == c.accumulatedBuffer
           size == Units(messages[n + 1])
           next == messages[n + 1]
           d == ProcessMessage(c)
<1>1. buffer \in Seq(Unit) /\ Len(buffer) \in Nat
  BY DEF ClientState
<1>2. buffer \o rest = Stream(Rest(messages, n))
  BY DEF Taken
<1>3. CASE n = Len(messages)
  <2>1. Stream(Rest(messages, n)) = <<>>
    <3>1. Rest(messages, n) \in Seq(Messages) /\ Len(Rest(messages, n)) = 0
      BY <1>3, CutType
    <3>2. Rest(messages, n) = <<>>
      BY <3>1
    <3>3. FlatMap(EncodedOf, <<>>) = <<>>
      <4>1. "Pong" \in Messages
        BY DEF Messages
      <4> QED
        BY <4>1, StreamMap, FlatMapFew
    <3> QED
      BY <3>1, <3>2, <3>3, StreamMap
  <2>2. Len(buffer) = 0
    <3>1. Len(buffer \o rest) = Len(buffer) + Len(rest) /\ Len(rest) \in Nat
      BY <1>1, ConcatProperties
    <3>2. Len(buffer \o rest) = 0
      BY <1>2, <2>1
    <3> QED
      BY <1>1, <3>1, <3>2
  <2>3. d = c
    BY <2>2 DEF ProcessMessage, HeaderUnits
  <2>4. Settled(c, messages, n)
    BY <1>3 DEF Settled
  <2> QED
    BY <2>3, <2>4
<1>4. CASE n # Len(messages)
  <2>1. n < Len(messages)
    BY <1>4
  <2>2. /\ n + 1 \in 0 .. Len(messages) /\ next \in Messages
        /\ Stream(Rest(messages, n)) = Encoded(next) \o Stream(Rest(messages, n + 1))
        /\ Whole(messages, n + 1) = Append(Whole(messages, n), next)
    BY <2>1, CutNext
  <2>3. /\ Encoded(next) \in Seq(Unit) /\ Len(Encoded(next)) = size
        /\ size \in {HeaderUnits, HeaderUnits + 1} /\ Encoded(next)[1] = <<next, 1>>
    BY <2>2, EncodedUnits
  <2>4. size \in Nat /\ size >= 2 /\ HeaderUnits = 2
    BY <2>3 DEF HeaderUnits
  <2> DEFINE after == Stream(Rest(messages, n + 1))
             encoded == Encoded(next)
  <2>5. after \in Seq(Unit)
    BY <2>2, CutType
  <2>6. encoded \in Seq(Unit) /\ Len(encoded) = size /\ buffer \o rest = encoded \o after
        /\ encoded[1] = <<next, 1>>
    BY <1>2, <2>2, <2>3
  <2>7. CASE Len(buffer) < size /\ Len(buffer) < 2
    <3>1. d = c
      BY <2>4, <2>7 DEF ProcessMessage
    <3>2. Settled(c, messages, n)
      BY <2>7 DEF Settled
    <3> QED
      BY <3>1, <3>2
  <2>8. CASE Len(buffer) >= 2
    <3>1. DecodeHeader(buffer) = next
      <4> HIDE DEF buffer, after, encoded, size, next
      <4>1. (buffer \o rest)[1] = buffer[1] /\ (encoded \o after)[1] = encoded[1]
        BY <1>1, <2>4, <2>5, <2>6, <2>8, ConcatProperties
      <4>2. Head(buffer) = <<next, 1>>
        BY <1>1, <2>6, <2>8, <4>1
      <4> QED
        BY <4>2 DEF DecodeHeader
    <3>2. CASE Len(buffer) < size
      <4>1. next # "BadSize"
        BY <2>8, <3>2 DEF Units, HeaderUnits
      <4>2. d = c
        BY <2>4, <2>8, <3>1, <3>2, <4>1 DEF ProcessMessage
      <4>3. Settled(c, messages, n)
        BY <3>2 DEF Settled
      <4> QED
        BY <4>2, <4>3
    <3>3. CASE next = "BadSize" \/ (Len(buffer) >= size /\ ~Handles(c, next))
      <4>1. ~(Len(buffer) < 2) /\ (Len(buffer) >= size => ~(Len(buffer) < size))
        BY <1>1, <2>4, <2>8
      <4>2. d = CompleteDisconnection(c, c.connectionGeneration)
        BY <2>4, <3>1, <3>3, <4>1 DEF ProcessMessage
      <4> QED
        BY <4>2
    <3>4. CASE Len(buffer) >= size /\ next # "BadSize" /\ Handles(c, next)
      <4> DEFINE dispatched == DispatchMessage(c, next)
                 shorter == Drop(buffer, size)
      <4>1. /\ dispatched \in ClientState /\ dispatched.accumulatedBuffer = buffer
            /\ dispatched.connectionState = c.connectionState
            /\ dispatched.callbacks = c.callbacks
            /\ dispatched.connectionGeneration = c.connectionGeneration
            /\ dispatched.heard = c.heard
            /\ ToRun(dispatched) = ToRun(c) \o CallbackOf[next]
            /\ NoPostAhead(c) => NoPostAhead(dispatched)
            /\ dispatched.playerIdentity =
                  IF next = "PlayerIdentity" THEN TRUE ELSE c.playerIdentity
            /\ dispatched.latestRtt = IF next = "Pong" THEN TRUE ELSE c.latestRtt
        BY <2>2, <3>4, DispatchTakes
      <4>2. d = [dispatched EXCEPT !.accumulatedBuffer = shorter]
        <5>1. ~(Len(buffer) < 2) /\ ~(Len(buffer) < size)
          BY <1>1, <2>4, <2>8, <3>4
        <5> QED
          BY <2>4, <3>1, <3>4, <4>1, <5>1 DEF ProcessMessage, Drop
      <4> HIDE DEF dispatched, shorter
      <4>3. /\ d.accumulatedBuffer = shorter /\ d.heard = c.heard
            /\ d.connectionState = "Connected" /\ d.callbacks = c.callbacks
            /\ d.connectionGeneration = c.connectionGeneration
            /\ d.posted = dispatched.posted
            /\ d.playerIdentity = dispatched.playerIdentity
            /\ d.latestRtt = dispatched.latestRtt
        BY <4>1, <4>2 DEF ClientState
      <4> HIDE DEF d
      <4>4. /\ ToRun(d) = ToRun(c) \o CallbackOf[next]
            /\ NoPostAhead(c) => NoPostAhead(d)
            /\ Listens(d)
        BY <4>1, <4>3 DEF ToRun, NoPostAhead, Listens
      <4>5. /\ shorter \in Seq(Unit) /\ Len(shorter) = Len(buffer) - size
            /\ shorter \o rest = after
        <5> HIDE DEF buffer, after, encoded, size, next
        <5>1. /\ buffer \in Seq(Unit) /\ rest \in Seq(Unit)
              /\ encoded \in Seq(Unit) /\ after \in Seq(Unit)
              /\ CutTwice(buffer, rest, encoded, after)
          BY <1>1, <2>5, <2>6 DEF CutTwice
        <5>2. Len(encoded) <= Len(buffer)
          BY <1>1, <2>4, <2>6, <3>4
        <5>3. /\ Drop(buffer, Len(encoded)) \in Seq(Unit)
              /\ Len(Drop(buffer, Len(encoded))) = Len(buffer) - Len(encoded)
              /\ Drop(buffer, Len(encoded)) \o rest = after
          BY <5>1, <5>2, DropConcat
        <5> QED
          BY <2>6, <5>3 DEF shorter
      <4>6. /\ Contract!Refused(Whole(messages, n)) = {}
            /\ c.heard \o ToRun(c) = <<"Connected">> \o Contract!Callbacks(Whole(messages, n))
            /\ c.playerIdentity = Contains(Whole(messages, n), "PlayerIdentity")
            /\ c.latestRtt = Contains(Whole(messages, n), "Pong")
            /\ Whole(messages, n) \in Seq(Messages)
        BY CutType DEF Taken
      <4> DEFINE whole == Whole(messages, n)
                 longer == Whole(messages, n + 1)
      <4>7. longer = Append(whole, next) /\ Accepts(whole, next)
        BY <2>2, <3>4, <4>6 DEF Handles, Accepts
      <4> HIDE DEF whole, longer
      <4>8. /\ Contract!Refused(longer) = {}
            /\ Contract!Callbacks(longer) = Contract!Callbacks(whole) \o CallbackOf[next]
        BY <2>2, <4>6, <4>7, AcceptedAppend DEF whole
      <4>9. d.heard \o ToRun(d) = <<"Connected">> \o Contract!Callbacks(longer)
        <5> DEFINE h == c.heard
                   r == ToRun(c)
                   k == CallbackOf[next]
                   one == <<"Connected">>
                   w == Contract!Callbacks(whole)
        <5>1. /\ h \in Seq(CallbackTypes) /\ r \in Seq(CallbackTypes)
              /\ w \in Seq(CallbackTypes) /\ one \in Seq(CallbackTypes)
          <6>1. "Connected" \in CallbackTypes
            BY DEF CallbackTypes
          <6>2. one \in Seq(CallbackTypes)
            BY <6>1
          <6>3. h \in Seq(CallbackTypes)
            BY DEF ClientState
          <6>4. r \in Seq(CallbackTypes)
            BY ToRunMap
          <6>5. w \in Seq(CallbackTypes)
            BY <4>6, CallbacksMap DEF whole
          <6> QED
            BY <6>2, <6>3, <6>4, <6>5
        <5>2. k \in Seq(CallbackTypes)
          BY <2>2, CallbacksMap DEF PiecesOf
        <5>3. h \o r = one \o w
          BY <4>6 DEF whole
        <5>4. d.heard \o ToRun(d) = h \o (r \o k)
          BY <4>3, <4>4
        <5>5. <<"Connected">> \o Contract!Callbacks(longer) = one \o (w \o k)
          BY <4>8
        <5> HIDE DEF h, r, k, one, w
        <5>6. (h \o r) \o k = h \o (r \o k)
          BY <5>1, <5>2, ConcatAssociative, SMTT(60)
        <5>7. (one \o w) \o k = one \o (w \o k)
          BY <5>1, <5>2, ConcatAssociative, SMTT(60)
        <5> QED
          BY <5>3, <5>4, <5>5, <5>6, <5>7
      <4>10. /\ d.playerIdentity = Contains(longer, "PlayerIdentity")
             /\ d.latestRtt = Contains(longer, "Pong")
        <5>1. /\ Contains(longer, "PlayerIdentity") =
                    IF next = "PlayerIdentity" THEN TRUE ELSE Contains(whole, "PlayerIdentity")
              /\ Contains(longer, "Pong") = IF next = "Pong" THEN TRUE ELSE Contains(whole, "Pong")
          <6>1. whole \in Seq(Messages) /\ next \in Messages /\ longer = Append(whole, next)
            BY <2>2, <4>6, <4>7 DEF whole
          <6>2. \A other : Contains(Append(whole, next), other) =
                              IF next = other THEN TRUE ELSE Contains(whole, other)
            BY <6>1, ContainsAppend
          <6> QED
            BY <6>1, <6>2, Zenon
        <5>2. /\ c.playerIdentity = Contains(whole, "PlayerIdentity")
              /\ c.latestRtt = Contains(whole, "Pong")
          BY <4>6 DEF whole
        <5>3. /\ d.playerIdentity = IF next = "PlayerIdentity" THEN TRUE ELSE c.playerIdentity
              /\ d.latestRtt = IF next = "Pong" THEN TRUE ELSE c.latestRtt
          BY <4>1, <4>3
        <5> QED
          BY <5>1, <5>2, <5>3, Zenon
      <4>11. Taken(d, rest, messages, n + 1)
        BY <4>3, <4>5, <4>8, <4>9, <4>10 DEF Taken, longer
      <4>12. /\ Len(d.accumulatedBuffer) \in Nat
             /\ Len(d.accumulatedBuffer) + 2 <= Len(buffer)
        <5> HIDE DEF size, buffer
        <5> QED
          BY <1>1, <2>4, <3>4, <4>3, <4>5
      <4>13. ~Settled(c, messages, n)
        <5>1. ~(Len(buffer) < size)
          BY <1>1, <2>4, <3>4
        <5> QED
          BY <2>1, <5>1 DEF Settled
      <4> QED
        BY <2>2, <4>3, <4>4, <4>11, <4>12, <4>13 DEF d
    <3> QED
      BY <1>1, <2>4, <3>2, <3>3, <3>4
  <2> QED
    BY <1>1, <2>4, <2>7, <2>8
<1> QED
  BY <1>3, <1>4

\* An open connection that has taken n of the messages.
Reading(c, rest, messages, n) ==
    /\ c.connectionState = "Connected" /\ Listens(c)
    /\ n \in 0 .. Len(messages) /\ Taken(c, rest, messages, n)

\* An open connection has ended, and its owner has heard so.
Lost(d, c) ==
    d.connectionState = "Disconnected" /\ d.heard = Append(c.heard, "Disconnected")

\* What an end of a connection makes heard, and that the posted callbacks are
\* left to run, or rather not to.
LEMMA EndsHeard ==
  ASSUME NEW c \in ClientState, NEW generation
  PROVE  /\ LET d == CompleteConnectionFailure(c, generation)
            IN  generation = c.connectionGeneration /\ "ConnectionFailed" \in c.callbacks =>
                   /\ d.connectionState = "Disconnected" /\ d.posted = c.posted
                   /\ d.connectionGeneration = c.connectionGeneration
                   /\ d.heard = Append(c.heard, "ConnectionFailed")
         /\ LET d == CompleteDisconnection(c, generation)
            IN  IF IsCurrentOperation(c, generation, "Connected")
                THEN "Disconnected" \in c.callbacks =>
                        /\ Lost(d, c) /\ d.posted = c.posted
                        /\ d.connectionGeneration = c.connectionGeneration
                ELSE d = c
         /\ LET d == Disconnect(c)
            IN  /\ d.connectionState = "Disconnected" /\ d.posted = c.posted
                /\ d.connectionGeneration = c.connectionGeneration + 1
                /\ d.heard = c.heard
<1> DEFINE r == Reset(c)
<1>1. /\ r.posted = c.posted /\ r.heard = c.heard /\ r.callbacks = c.callbacks
      /\ r.connectionGeneration = c.connectionGeneration /\ r.connectionState = "Disconnected"
      /\ DOMAIN r = DOMAIN c
  BY DEF Reset, ClientState
<1>2. DOMAIN c = {"connectionState", "connectionGeneration", "callbacks", "accumulatedBuffer",
                  "sendQueue", "pendingSendBytes", "playerIdentity", "latestRtt",
                  "operations", "posted", "heard"}
  BY DEF ClientState
<1> HIDE DEF r
<1>3. ASSUME NEW callback \in c.callbacks
      PROVE  LET d == Call(r, callback)
             IN  /\ d.posted = c.posted /\ DOMAIN d = DOMAIN c
                 /\ d.heard = Append(c.heard, callback) /\ d.connectionState = "Disconnected"
                 /\ d.connectionGeneration = c.connectionGeneration
  BY <1>1, <1>2 DEF Call
<1>4. LET d == CompleteConnectionFailure(c, generation)
      IN  generation = c.connectionGeneration /\ "ConnectionFailed" \in c.callbacks =>
             /\ d.connectionState = "Disconnected" /\ d.posted = c.posted
             /\ d.connectionGeneration = c.connectionGeneration
             /\ d.heard = Append(c.heard, "ConnectionFailed")
  BY <1>2, <1>3 DEF CompleteConnectionFailure, r
<1>5. LET d == CompleteDisconnection(c, generation)
      IN  IF IsCurrentOperation(c, generation, "Connected")
          THEN "Disconnected" \in c.callbacks =>
                  /\ Lost(d, c) /\ d.posted = c.posted
                  /\ d.connectionGeneration = c.connectionGeneration
          ELSE d = c
  BY <1>2, <1>3 DEF CompleteDisconnection, Lost, r
<1>6. LET d == Disconnect(c)
      IN  /\ d.connectionState = "Disconnected" /\ d.posted = c.posted
          /\ d.connectionGeneration = c.connectionGeneration + 1
          /\ d.heard = c.heard
  BY <1>1, <1>2 DEF Disconnect, r
<1> QED
  BY <1>4, <1>5, <1>6

\* Half of a number, twice.
LEMMA Halves == \A k \in Nat : k - 2 * (k \div 2) < 2
OBVIOUS

\* The loop has turns enough: what no turn can take any more is no message.
LEMMA ProcessMessagesTakes ==
  ASSUME NEW c, Sound(c), NoPostAhead(c), NEW rest \in Seq(Unit),
         NEW messages \in Seq(Messages), \E n \in Nat : Reading(c, rest, messages, n)
  PROVE  LET d == ProcessMessages(c)
         IN  /\ NoPostAhead(d)
             /\ \/ Lost(d, c)
                \/ /\ d.heard = c.heard
                   /\ \E n \in Nat : Reading(d, rest, messages, n) /\ Settled(d, messages, n)
<1> DEFINE size == Len(c.accumulatedBuffer)
           limit == size \div HeaderUnits
           Room(d, turns) == Len(d.accumulatedBuffer) + 2 * turns <= size
           Turn(d, turns) ==
               /\ Proceeds(d, c) /\ NoPostAhead(d)
               /\ \/ Lost(d, c)
                  \/ /\ d.heard = c.heard
                     /\ \E n \in Nat : /\ Reading(d, rest, messages, n)
                                       /\ Settled(d, messages, n) \/ Room(d, turns)
<1>1. size \in Nat /\ limit \in Nat
  <2>1. c.accumulatedBuffer \in Seq(Unit)
    BY DEF Sound, ClientState
  <2> QED
    BY <2>1, LoopTurns
<1>2. PICK after : /\ ProcessMessages(c) = after[limit]
                   /\ after[0] = c
                   /\ \A turns \in 1 .. limit : after[turns] = ProcessMessage(after[turns - 1])
  BY LoopTurns
<1>3. size = Len(c.accumulatedBuffer) /\ limit = size \div 2
  BY DEF HeaderUnits
<1> HIDE DEF limit, size
<1> DEFINE S == {turns \in 0 .. limit : Turn(after[turns], turns)}
<1>4. 0 \in S
  <2>1. Proceeds(c, c)
    BY DEF Proceeds, SameOperations
  <2>2. Room(c, 0)
    BY <1>1, <1>3
  <2>3. PICK n \in Nat : Reading(c, rest, messages, n)
    OBVIOUS
  <2>4. 0 \in 0 .. limit
    BY <1>1
  <2> HIDE DEF Room
  <2>5. Turn(c, 0)
    BY <2>1, <2>2, <2>3
  <2> HIDE DEF Turn
  <2> QED
    BY <1>2, <2>4, <2>5
<1>5. ASSUME NEW turns \in 0 .. limit - 1, turns \in S
      PROVE  turns + 1 \in S
  <2>1. turns + 1 \in 1 .. limit /\ (turns + 1) - 1 = turns /\ turns + 1 \in 0 .. limit
        /\ turns \in Nat
    BY <1>1
  <2> DEFINE d == after[turns]
             e == after[turns + 1]
  <2>2. e = ProcessMessage(d)
    BY <1>2, <2>1
  <2>3. Turn(d, turns)
    BY <1>5
  <2> HIDE DEF d, e
  <2>4. Sound(d) /\ d \in ClientState /\ NoPostAhead(d)
    BY <2>3 DEF Proceeds, Closed, Sound
  <2>5. Proceeds(e, c)
    <3>1. Proceeds(e, d)
      BY <2>2, <2>4, ProcessMessageEffect
    <3> QED
      BY <2>3, <3>1, ProceedsFurther
  <2>6. CASE Lost(d, c)
    <3>1. e = d
      BY <2>2, <2>6 DEF ProcessMessage, Lost
    <3> QED
      BY <2>1, <2>4, <2>5, <2>6, <3>1 DEF e
  <2>7. ASSUME d.heard = c.heard, NEW n \in Nat, Reading(d, rest, messages, n),
               Settled(d, messages, n) \/ Room(d, turns)
        PROVE  Turn(e, turns + 1)
    <3>1. \/ e = d /\ Settled(d, messages, n)
          \/ e = CompleteDisconnection(d, d.connectionGeneration)
          \/ /\ ~Settled(d, messages, n)
             /\ n + 1 \in 0 .. Len(messages) /\ Taken(e, rest, messages, n + 1)
             /\ e.connectionState = "Connected" /\ Listens(e) /\ e.heard = d.heard
             /\ NoPostAhead(d) => NoPostAhead(e)
             /\ Len(e.accumulatedBuffer) \in Nat
             /\ Len(e.accumulatedBuffer) + 2 <= Len(d.accumulatedBuffer)
      BY <2>2, <2>4, <2>7, TurnTakes DEF Reading
    <3>2. CASE e = d /\ Settled(d, messages, n)
      <4> HIDE DEF Room
      <4> QED
        BY <2>4, <2>5, <2>7, <3>2
    <3>3. CASE e = CompleteDisconnection(d, d.connectionGeneration)
      <4>1. /\ IsCurrentOperation(d, d.connectionGeneration, "Connected")
            /\ "Disconnected" \in d.callbacks
        BY <2>7 DEF Reading, Listens, IsCurrentOperation
      <4>2. /\ Lost(e, d) /\ e.posted = d.posted
            /\ e.connectionGeneration = d.connectionGeneration
        BY <2>4, <3>3, <4>1, EndsHeard
      <4>3. NoPostAhead(e) /\ Lost(e, c)
        BY <2>4, <2>7, <4>2 DEF NoPostAhead, Lost
      <4> QED
        BY <2>5, <4>3
    <3>4. CASE /\ ~Settled(d, messages, n)
               /\ n + 1 \in 0 .. Len(messages) /\ Taken(e, rest, messages, n + 1)
               /\ e.connectionState = "Connected" /\ Listens(e) /\ e.heard = d.heard
               /\ NoPostAhead(d) => NoPostAhead(e)
               /\ Len(e.accumulatedBuffer) \in Nat
               /\ Len(e.accumulatedBuffer) + 2 <= Len(d.accumulatedBuffer)
      <4>1. Room(d, turns)
        BY <2>7, <3>4
      <4>2. Room(e, turns + 1)
        <5> DEFINE more == Len(d.accumulatedBuffer)
                   less == Len(e.accumulatedBuffer)
        <5>1. more \in Nat
          <6>1. d.accumulatedBuffer \in Seq(Unit)
            BY <2>4 DEF ClientState
          <6> QED
            BY <6>1
        <5>2. less \in Nat /\ less + 2 <= more /\ more + 2 * turns <= size
          BY <3>4, <4>1
        <5> HIDE DEF more, less
        <5>3. less + 2 * (turns + 1) <= size
          BY <1>1, <2>1, <5>1, <5>2
        <5> QED
          BY <5>3 DEF less
      <4>3. Reading(e, rest, messages, n + 1) /\ n + 1 \in Nat /\ e.heard = c.heard
        BY <2>7, <3>4 DEF Reading
      <4>4. NoPostAhead(e)
        BY <2>4, <3>4
      <4> HIDE DEF Room
      <4> QED
        BY <2>5, <4>2, <4>3, <4>4
    <3> QED
      BY <3>1, <3>2, <3>3, <3>4
  <2>8. CASE ~Lost(d, c)
    <3>1. d.heard = c.heard
      BY <2>3, <2>8
    <3>2. PICK n \in Nat : /\ Reading(d, rest, messages, n)
                           /\ Settled(d, messages, n) \/ Room(d, turns)
      BY <2>3, <2>8
    <3> HIDE DEF Turn
    <3> QED
      BY <2>1, <2>7, <3>1, <3>2 DEF e
  <2> QED
    BY <2>6, <2>8
<1>6. limit \in S
  <2>1. \A turns \in 0 .. limit : turns \in S
    <3> HIDE DEF S
    <3> QED
      BY <1>1, <1>4, <1>5, UpTo
  <2>2. limit \in 0 .. limit
    BY <1>1
  <2> HIDE DEF S
  <2> QED
    BY <2>1, <2>2
<1> DEFINE d == after[limit]
<1>7. Turn(d, limit)
  BY <1>6
<1> HIDE DEF d
<1>8. ASSUME NEW n \in Nat, Reading(d, rest, messages, n),
             Settled(d, messages, n) \/ Room(d, limit)
      PROVE  Settled(d, messages, n)
  <2>1. SUFFICES ASSUME Room(d, limit), n < Len(messages)
                 PROVE  Len(d.accumulatedBuffer) < Units(messages[n + 1])
    BY <1>8 DEF Settled
  <2> DEFINE left == Len(d.accumulatedBuffer)
  <2>2. left \in Nat
    <3>1. d.accumulatedBuffer \in Seq(Unit)
      BY <1>7 DEF Proceeds, Closed, Sound, ClientState
    <3> QED
      BY <3>1
  <2>3. left + 2 * limit <= size
    BY <2>1
  <2> HIDE DEF left
  <2>4. left < 2
    <3>1. size - 2 * limit < 2
      BY <1>1, <1>3, Halves
    <3> QED
      BY <1>1, <2>2, <2>3, <3>1
  <2>5. Units(messages[n + 1]) \in Nat /\ Units(messages[n + 1]) >= 2
    BY DEF Units, HeaderUnits
  <2> QED
    BY <2>2, <2>4, <2>5 DEF left
<1> HIDE DEF Room
<1> QED
  BY <1>2, <1>7, <1>8 DEF d

\* A connection that is still to open has heard and read nothing.
Fresh(c) ==
    /\ c.heard = <<>> /\ c.accumulatedBuffer = <<>> /\ ToRun(c) = <<>>
    /\ c.playerIdentity = FALSE /\ c.latestRtt = FALSE /\ c.callbacks = CallbackTypes

\* What is between the server's messages and the owner's callbacks, in every
\* state of a connection.
Framed(c, rest, messages) ==
    /\ NoPostAhead(c)
    /\ c.connectionState \in {"Resolving", "Connecting"} =>
          Fresh(c) /\ rest = <<>> /\ messages = <<>>
    /\ c.connectionState = "Connected" =>
          /\ c.heard # <<>>
          /\ \E n \in Nat : Reading(c, rest, messages, n) /\ Settled(c, messages, n)

PhaseOf(c) ==
    CASE c.connectionState = "Disconnected" -> "closed"
      [] c.connectionState = "Connected" -> "open"
      [] OTHER -> "pending"

\* What the owner sees of a completion: nothing, the attempt settled, or the
\* connection lost.
Moves(d, c) ==
    \/ PhaseOf(d) = PhaseOf(c) /\ d.heard = c.heard
    \/ /\ PhaseOf(c) = "pending"
       /\ \/ d.heard = <<"Connected">> /\ PhaseOf(d) \in {"open", "closed"}
          \/ d.heard = <<"ConnectionFailed">> /\ PhaseOf(d) = "closed"
    \/ /\ PhaseOf(c) = "open" /\ PhaseOf(d) = "closed"
       /\ d.heard = Append(c.heard, "Disconnected")

SameFrame(d, c) ==
    /\ d.connectionState = c.connectionState
    /\ d.connectionGeneration = c.connectionGeneration
    /\ d.callbacks = c.callbacks /\ d.accumulatedBuffer = c.accumulatedBuffer
    /\ d.playerIdentity = c.playerIdentity /\ d.latestRtt = c.latestRtt
    /\ d.posted = c.posted /\ d.heard = c.heard

LEMMA FrameKept ==
  ASSUME NEW c, NEW d, SameFrame(d, c), NEW rest, NEW messages, Framed(c, rest, messages)
  PROVE  Framed(d, rest, messages) /\ Moves(d, c)
<1>1. ToRun(d) = ToRun(c) /\ PhaseOf(d) = PhaseOf(c)
  BY DEF SameFrame, ToRun, PhaseOf
<1>2. NoPostAhead(d) /\ (Fresh(c) => Fresh(d))
  BY <1>1 DEF Framed, SameFrame, NoPostAhead, Fresh
<1>3. \A n : Reading(c, rest, messages, n) /\ Settled(c, messages, n) =>
                Reading(d, rest, messages, n) /\ Settled(d, messages, n)
  BY <1>1 DEF SameFrame, Reading, Settled, Taken, Listens
<1> QED
  BY <1>1, <1>2, <1>3 DEF Framed, SameFrame, Moves

\* Operations come and go without a change of the frame.
LEMMA RegisterFrame ==
  ASSUME NEW c \in ClientState, NEW type, NEW generation
  PROVE  SameFrame(Register(c, type, generation), c)
BY DEF ClientState, Register, SameFrame

LEMMA CompletingFrame ==
  ASSUME client \in ClientState, NEW type, NEW generation
  PROVE  SameFrame(Completing(type, generation), client)
BY DEF ClientState, Completing, SameFrame

\* The end of an open connection, and of none.
LEMMA DisconnectionFramed ==
  ASSUME NEW c \in ClientState, NEW rest, NEW messages, Framed(c, rest, messages),
         NEW generation, NEW after
  PROVE  LET d == CompleteDisconnection(c, generation)
         IN  /\ Framed(d, rest, messages) /\ Moves(d, c)
             /\ IsCurrentOperation(c, generation, "Connected") => Framed(d, after, messages)
<1> DEFINE d == CompleteDisconnection(c, generation)
<1>1. CASE ~IsCurrentOperation(c, generation, "Connected")
  BY <1>1, EndsHeard, FrameKept DEF SameFrame
<1>2. CASE IsCurrentOperation(c, generation, "Connected")
  <2>1. "Disconnected" \in c.callbacks /\ NoPostAhead(c) /\ c.connectionState = "Connected"
    BY <1>2 DEF Framed, Reading, Listens, IsCurrentOperation
  <2>2. /\ Lost(d, c) /\ d.posted = c.posted
        /\ d.connectionGeneration = c.connectionGeneration
    BY <1>2, <2>1, EndsHeard
  <2> HIDE DEF d
  <2> QED
    BY <2>1, <2>2 DEF Framed, NoPostAhead, Lost, Moves, PhaseOf, d
<1> QED
  BY <1>1, <1>2

LEMMA FailureFramed ==
  ASSUME NEW c \in ClientState, NEW rest, NEW messages, Framed(c, rest, messages),
         c.connectionState \in {"Resolving", "Connecting"}
  PROVE  LET d == CompleteConnectionFailure(c, c.connectionGeneration)
         IN  Framed(d, rest, messages) /\ Moves(d, c)
<1> DEFINE d == CompleteConnectionFailure(c, c.connectionGeneration)
<1>1. "ConnectionFailed" \in c.callbacks /\ NoPostAhead(c) /\ c.heard = <<>>
  BY DEF Framed, Fresh, CallbackTypes
<1>2. /\ d.connectionState = "Disconnected" /\ d.posted = c.posted
      /\ d.connectionGeneration = c.connectionGeneration
      /\ d.heard = Append(c.heard, "ConnectionFailed")
  BY <1>1, EndsHeard
<1>3. d.heard = <<"ConnectionFailed">>
  BY <1>1, <1>2
<1> HIDE DEF d
<1> QED
  BY <1>1, <1>2, <1>3 DEF Framed, NoPostAhead, Moves, PhaseOf, d

LEMMA HandleResolveFramed ==
  ASSUME NEW c \in ClientState, NEW rest, NEW messages, Framed(c, rest, messages),
         NEW error \in BOOLEAN, NEW generation
  PROVE  LET d == HandleResolve(c, error, generation)
         IN  Framed(d, rest, messages) /\ Moves(d, c)
<1> DEFINE k == [c EXCEPT !.connectionState = "Connecting"]
           n == Register(k, "connect", generation)
           d == HandleResolve(c, error, generation)
<1>1. CASE ~IsCurrentOperation(c, generation, "Resolving")
  BY <1>1, FrameKept DEF HandleResolve, SameFrame
<1>2. CASE IsCurrentOperation(c, generation, "Resolving") /\ error
  <2>1. c.connectionState = "Resolving" /\ generation = c.connectionGeneration
    BY <1>2 DEF IsCurrentOperation
  <2> QED
    BY <1>2, <2>1, FailureFramed DEF HandleResolve
<1>3. CASE IsCurrentOperation(c, generation, "Resolving") /\ ~error
  <2>1. d = n
    BY <1>3 DEF HandleResolve
  <2>2. /\ k \in ClientState /\ k.connectionState = "Connecting"
        /\ k.connectionGeneration = c.connectionGeneration
        /\ k.callbacks = c.callbacks /\ k.accumulatedBuffer = c.accumulatedBuffer
        /\ k.playerIdentity = c.playerIdentity /\ k.latestRtt = c.latestRtt
        /\ k.posted = c.posted /\ k.heard = c.heard
    BY DEF ClientState, ConnectionStates
  <2> HIDE DEF k
  <2>3. Fresh(c) /\ rest = <<>> /\ messages = <<>> /\ NoPostAhead(c) /\ c.connectionState = "Resolving"
    BY <1>3 DEF Framed, IsCurrentOperation
  <2>4. Fresh(k) /\ NoPostAhead(k)
    BY <2>2, <2>3 DEF Fresh, NoPostAhead, ToRun
  <2>5. Framed(k, rest, messages) /\ PhaseOf(k) = "pending" /\ PhaseOf(c) = "pending"
    BY <2>2, <2>3, <2>4 DEF Framed, PhaseOf
  <2>6. SameFrame(n, k)
    BY <2>2, RegisterFrame
  <2> HIDE DEF n
  <2>7. Framed(n, rest, messages) /\ PhaseOf(n) = PhaseOf(k) /\ n.heard = k.heard
    BY <2>5, <2>6, FrameKept DEF SameFrame, PhaseOf
  <2> QED
    BY <2>1, <2>2, <2>5, <2>7 DEF Moves
<1> QED
  BY <1>1, <1>2, <1>3

\* No message has been read of a connection that has just opened.
LEMMA NothingRead ==
  /\ Stream(Rest(<<>>, 0)) = <<>> /\ Contract!Callbacks(Whole(<<>>, 0)) = <<>>
  /\ Contract!Refused(Whole(<<>>, 0)) = {} /\ <<>> \in Seq(Messages) /\ Len(<<>>) = 0
  /\ \A message : Contains(Whole(<<>>, 0), message) = FALSE
<1>1. <<>> \in Seq(Messages) /\ Len(<<>>) = 0
  OBVIOUS
<1>2. Whole(<<>>, 0) = <<>> /\ Rest(<<>>, 0) = <<>>
  <2>1. 0 \in Int /\ 1 \in Int /\ 0 < 1 /\ 0 + 1 = 1
    OBVIOUS
  <2> QED
    BY <1>1, <2>1, SubSeqEmpty DEF Whole, Rest
<1>3. Stream(<<>>) = <<>>
  <2>1. "Pong" \in Messages /\ EncodedOf \in PiecesOf(Messages, Unit)
    BY StreamMap DEF Messages
  <2>2. FlatMap(EncodedOf, <<>>) = <<>>
    BY <2>1, FlatMapFew
  <2> QED
    BY <1>1, <2>2, StreamMap
<1>4. Contract!Callbacks(<<>>) = <<>>
  <2>1. "Pong" \in Messages /\ CallbackOf \in PiecesOf(Messages, CallbackTypes)
    BY CallbacksMap DEF Messages
  <2>2. FlatMap(CallbackOf, <<>>) = <<>>
    BY <2>1, FlatMapFew
  <2> QED
    BY <1>1, <2>2, CallbacksMap
<1>5. DOMAIN <<>> = {}
  OBVIOUS
<1>6. Contract!Refused(<<>>) = {}
  BY <1>5 DEF Contract!Refused
<1>7. \A message : Contains(<<>>, message) = FALSE
  BY <1>5 DEF Contains
<1> QED
  BY <1>1, <1>2, <1>3, <1>4, <1>6, <1>7

LEMMA HandleConnectFramed ==
  ASSUME NEW c \in ClientState, NEW rest, NEW messages, Framed(c, rest, messages),
         NEW error \in BOOLEAN, NEW generation, NEW answer
  PROVE  LET d == HandleConnect(c, error, generation, answer)
         IN  Framed(d, rest, messages) /\ Moves(d, c)
<1> DEFINE open == [c EXCEPT !.connectionState = "Connected"]
           heard == [open EXCEPT !.heard = Append(open.heard, "Connected")]
           kept == heard.callbacks \ {"Connected", "ConnectionFailed"}
           connected == [heard EXCEPT !.callbacks = kept]
           d == HandleConnect(c, error, generation, answer)
<1>1. CASE ~IsCurrentOperation(c, generation, "Connecting")
  BY <1>1, FrameKept DEF HandleConnect, SameFrame
<1>2. CASE IsCurrentOperation(c, generation, "Connecting") /\ error
  <2>1. c.connectionState = "Connecting" /\ generation = c.connectionGeneration
    BY <1>2 DEF IsCurrentOperation
  <2> QED
    BY <1>2, <2>1, FailureFramed DEF HandleConnect
<1>3. CASE IsCurrentOperation(c, generation, "Connecting") /\ ~error
  <2>1. /\ Fresh(c) /\ rest = <<>> /\ messages = <<>> /\ NoPostAhead(c)
        /\ c.connectionState = "Connecting"
    BY <1>3 DEF Framed, IsCurrentOperation
  <2>2. /\ heard \in ClientState /\ heard.callbacks = c.callbacks
        /\ heard.heard = Append(c.heard, "Connected")
        /\ heard.connectionState = "Connected"
        /\ heard.connectionGeneration = c.connectionGeneration
        /\ heard.accumulatedBuffer = c.accumulatedBuffer
        /\ heard.playerIdentity = c.playerIdentity /\ heard.latestRtt = c.latestRtt
        /\ heard.posted = c.posted
    <3>1. c.heard \in Seq(CallbackTypes) /\ "Connected" \in CallbackTypes
      BY DEF ClientState, CallbackTypes
    <3>2. Append(c.heard, "Connected") \in Seq(CallbackTypes)
      BY <3>1
    <3> QED
      BY <3>2 DEF ClientState, ConnectionStates
  <2>3. d = ReadNext(IF answer = "disconnect" THEN Disconnect(connected) ELSE connected, generation)
    <3>1. open.callbacks = c.callbacks
      BY DEF ClientState
    <3>2. "Connected" \in open.callbacks
      BY <2>1, <3>1 DEF Fresh, CallbackTypes
    <3>3. Call(open, "Connected") = heard
      BY <3>2 DEF Call
    <3> QED
      BY <1>3, <3>3 DEF HandleConnect
  <2> HIDE DEF heard
  <2>4. /\ connected \in ClientState
        /\ connected.callbacks = {"Disconnected", "PlayerIdentity", "WorldStateSnapshot"}
        /\ connected.heard = <<"Connected">> /\ connected.accumulatedBuffer = <<>>
        /\ connected.connectionState = "Connected"
        /\ connected.connectionGeneration = c.connectionGeneration
        /\ connected.playerIdentity = FALSE /\ connected.latestRtt = FALSE
        /\ connected.posted = c.posted
    <3>1. kept = {"Disconnected", "PlayerIdentity", "WorldStateSnapshot"}
      BY <2>1, <2>2 DEF Fresh, CallbackTypes
    <3>2. heard.heard = <<"Connected">>
      BY <2>1, <2>2 DEF Fresh
    <3> HIDE DEF kept
    <3>3. kept \in SUBSET CallbackTypes
      BY <3>1 DEF CallbackTypes
    <3> QED
      BY <2>1, <2>2, <3>1, <3>2, <3>3 DEF ClientState, Fresh
  <2> HIDE DEF connected
  <2>5. Framed(connected, rest, messages)
    <3>1. ToRun(connected) = <<>> /\ NoPostAhead(connected)
      BY <2>1, <2>4 DEF Fresh, ToRun, NoPostAhead
    <3>2. <<"Connected">> \o <<>> = <<"Connected">> /\ <<>> \o <<>> = <<>>
          /\ <<"Connected">> # <<>>
      OBVIOUS
    <3>3. Taken(connected, <<>>, <<>>, 0)
      BY <2>4, <3>1, <3>2, NothingRead DEF Taken
    <3>4. Reading(connected, <<>>, <<>>, 0) /\ Settled(connected, <<>>, 0)
      BY <2>4, <3>3, NothingRead DEF Reading, Settled, Listens
    <3> QED
      BY <2>1, <2>4, <3>1, <3>2, <3>4 DEF Framed
  <2>6. CASE answer # "disconnect"
    <3>1. d = Register(connected, "read", generation)
      BY <1>3, <2>3, <2>4, <2>6 DEF ReadNext, IsCurrentOperation
    <3>2. SameFrame(d, connected)
      BY <2>4, <3>1, RegisterFrame
    <3> HIDE DEF d
    <3>3. Framed(d, rest, messages)
      BY <2>5, <3>2, FrameKept
    <3>4. Moves(d, c)
      BY <2>1, <2>4, <3>2 DEF SameFrame, Moves, PhaseOf
    <3> QED
      BY <3>3, <3>4 DEF d
  <2>7. CASE answer = "disconnect"
    <3> DEFINE n == Disconnect(connected)
    <3>1. /\ n.connectionState = "Disconnected" /\ n.posted = c.posted
          /\ n.connectionGeneration = c.connectionGeneration + 1
          /\ n.heard = <<"Connected">>
      BY <2>4, EndsHeard
    <3>2. d = n
      BY <2>3, <2>7, <3>1 DEF ReadNext, IsCurrentOperation
    <3> HIDE DEF n
    <3>3. NoPostAhead(n)
      <4>1. c.posted \in Seq(Posted) /\ c.connectionGeneration \in Nat
        BY GenerationType DEF ClientState
      <4>2. \A i \in 1 .. Len(c.posted) : c.posted[i].generation \in Nat
        <5>1. \A p \in Posted : p.generation \in Nat
          BY GenerationType DEF Posted
        <5>2. \A i \in 1 .. Len(c.posted) : c.posted[i] \in Posted
          BY <4>1
        <5> QED
          BY <5>1, <5>2
      <4> QED
        BY <2>1, <3>1, <4>1, <4>2 DEF NoPostAhead
    <3>4. Framed(n, rest, messages) /\ Moves(n, c)
      BY <2>1, <3>1, <3>3 DEF Framed, Moves, PhaseOf
    <3> QED
      BY <3>2, <3>4
  <2> QED
    BY <2>6, <2>7
<1> QED
  BY <1>1, <1>2, <1>3

\* A read of the open connection takes units off the front of the stream.
LEMMA HandleReadFramed ==
  ASSUME NEW c, Sound(c), NEW units \in Seq(Unit), NEW rest \in Seq(Unit),
         NEW messages \in Seq(Messages), Framed(c, units \o rest, messages),
         NEW error \in BOOLEAN, NEW generation, IsCurrentOperation(c, generation, "Connected")
  PROVE  LET d == HandleRead(c, units, error, generation)
         IN  Framed(d, rest, messages) /\ Moves(d, c)
<1> DEFINE longer == c.accumulatedBuffer \o units
           k == [c EXCEPT !.accumulatedBuffer = longer]
           processed == ProcessMessages(k)
           d == HandleRead(c, units, error, generation)
<1>1. c \in ClientState /\ c.accumulatedBuffer \in Seq(Unit)
  BY DEF Sound, ClientState
<1>2. longer \in Seq(Unit) /\ longer \o rest = c.accumulatedBuffer \o (units \o rest)
  <2>1. longer \in Seq(Unit)
    BY <1>1, ConcatProperties
  <2>2. longer \o rest = c.accumulatedBuffer \o (units \o rest)
    <3> DEFINE buffer == c.accumulatedBuffer
    <3>1. buffer \in Seq(Unit)
      BY <1>1
    <3> HIDE DEF buffer
    <3>2. (buffer \o units) \o rest = buffer \o (units \o rest)
      BY <3>1, ConcatAssociative, SMTT(60)
    <3> QED
      BY <3>2 DEF buffer
  <2> QED
    BY <2>1, <2>2
<1>3. d = IF error THEN CompleteDisconnection(processed, generation)
          ELSE ReadNext(processed, generation)
  BY DEF HandleRead
<1> HIDE DEF longer
<1>4. /\ k \in ClientState /\ k.accumulatedBuffer = longer
      /\ k.connectionState = c.connectionState /\ k.callbacks = c.callbacks
      /\ k.connectionGeneration = c.connectionGeneration
      /\ k.playerIdentity = c.playerIdentity /\ k.latestRtt = c.latestRtt
      /\ k.posted = c.posted /\ k.heard = c.heard
      /\ k.sendQueue = c.sendQueue /\ k.pendingSendBytes = c.pendingSendBytes
      /\ SameOperations(k, c)
  BY <1>1, <1>2 DEF ClientState, SameOperations
<1> HIDE DEF k
<1>5. Sound(k)
  BY <1>4, SameSound
<1>6. c.heard # <<>> /\ \E n \in Nat : Reading(c, units \o rest, messages, n)
  BY DEF Framed, IsCurrentOperation
<1>7. \E n \in Nat : Reading(k, rest, messages, n)
  <2>1. PICK n \in Nat : Reading(c, units \o rest, messages, n)
    BY <1>6
  <2>2. ToRun(k) = ToRun(c)
    BY <1>4 DEF ToRun
  <2>3. Reading(k, rest, messages, n)
    BY <1>2, <1>4, <2>1, <2>2 DEF Reading, Taken, Listens
  <2> QED
    BY <2>3
<1>8. NoPostAhead(k)
  BY <1>4 DEF Framed, NoPostAhead
<1>9. /\ NoPostAhead(processed)
      /\ \/ Lost(processed, k)
         \/ /\ processed.heard = k.heard
            /\ \E n \in Nat : Reading(processed, rest, messages, n)
                              /\ Settled(processed, messages, n)
  BY <1>5, <1>7, <1>8, ProcessMessagesTakes
<1>10. Proceeds(processed, k)
  BY <1>5, ProcessMessagesEffect
<1> HIDE DEF processed
<1>11. processed \in ClientState /\ processed.connectionGeneration = c.connectionGeneration
  BY <1>4, <1>10 DEF Proceeds, Closed, Sound, SameOperations
<1>12. CASE Lost(processed, k)
  <2>1. d = processed
    BY <1>3, <1>11, <1>12, EndsHeard DEF Lost, ReadNext, IsCurrentOperation
  <2>2. Framed(processed, rest, messages)
    BY <1>9, <1>12 DEF Framed, Lost
  <2>3. Moves(processed, c)
    BY <1>4, <1>12 DEF Moves, PhaseOf, Lost, IsCurrentOperation
  <2> QED
    BY <2>1, <2>2, <2>3
<1>13. CASE processed.heard = k.heard /\ ~Lost(processed, k)
  <2>1. Framed(processed, rest, messages) /\ processed.connectionState = "Connected"
        /\ processed.heard = c.heard
    BY <1>4, <1>6, <1>9, <1>13 DEF Framed, Reading
  <2>2. c.connectionState = "Connected" /\ generation = processed.connectionGeneration
    BY <1>11 DEF IsCurrentOperation
  <2>3. CASE error
    <3>1. d = CompleteDisconnection(processed, generation)
      BY <1>3, <2>3
    <3>2. Framed(d, rest, messages) /\ Moves(d, processed)
      BY <1>11, <2>1, <3>1, DisconnectionFramed
    <3> HIDE DEF d
    <3>3. Moves(d, c)
      BY <2>1, <2>2, <3>2 DEF Moves, PhaseOf
    <3> QED
      BY <3>2, <3>3 DEF d
  <2>4. CASE ~error
    <3>1. d = Register(processed, "read", generation)
      BY <1>3, <2>1, <2>2, <2>4 DEF ReadNext, IsCurrentOperation
    <3>2. Framed(d, rest, messages) /\ Moves(d, processed)
      BY <1>11, <2>1, <3>1, RegisterFrame, FrameKept
    <3> HIDE DEF d
    <3>3. Moves(d, c)
      BY <2>1, <2>2, <3>2 DEF Moves, PhaseOf
    <3> QED
      BY <3>2, <3>3 DEF d
  <2> QED
    BY <2>3, <2>4
<1> QED
  BY <1>9, <1>12, <1>13

LEMMA WriteNextFrame ==
  ASSUME NEW c \in ClientState, NEW generation
  PROVE  SameFrame(WriteNext(c, generation), c)
<1>1. SameFrame(c, c)
  BY DEF SameFrame
<1> QED
  BY <1>1, RegisterFrame DEF WriteNext

\* A write that completes leaves the frame alone, or ends the connection.
LEMMA HandleWriteFramed ==
  ASSUME NEW c \in ClientState, NEW rest, NEW messages, Framed(c, rest, messages),
         NEW error \in BOOLEAN, NEW generation
  PROVE  LET d == HandleWrite(c, error, generation)
         IN  Framed(d, rest, messages) /\ Moves(d, c)
<1> DEFINE size == MessageSize[Head(c.sendQueue)]
           left == Tail(c.sendQueue)
           count == c.pendingSendBytes - size
           completed == [c EXCEPT !.sendQueue = left, !.pendingSendBytes = count]
           d == HandleWrite(c, error, generation)
<1>1. CASE ~IsCurrentOperation(c, generation, "Connected")
  BY <1>1, FrameKept DEF HandleWrite, SameFrame
<1>2. CASE /\ IsCurrentOperation(c, generation, "Connected")
           /\ error \/ c.sendQueue = <<>> \/ c.pendingSendBytes < size
  <2>1. d = CompleteDisconnection(c, generation)
    BY <1>2 DEF HandleWrite
  <2> QED
    BY <2>1, DisconnectionFramed
<1>3. CASE /\ IsCurrentOperation(c, generation, "Connected")
           /\ ~error /\ c.sendQueue # <<>> /\ ~(c.pendingSendBytes < size)
  <2>1. d = IF completed.sendQueue # <<>> THEN WriteNext(completed, generation)
            ELSE IF completed.pendingSendBytes # 0
            THEN CompleteDisconnection(completed, generation)
            ELSE completed
    BY <1>3 DEF HandleWrite
  <2>2. /\ left \in Seq(SendableTypes) /\ Head(c.sendQueue) \in SendableTypes
        /\ c.pendingSendBytes \in Nat
    BY <1>3, HeadTailProperties DEF ClientState
  <2>3. size \in Nat
    BY <2>2, NetworkClientAssumption
  <2>4. count \in Nat
    BY <1>3, <2>2, <2>3
  <2> HIDE DEF left, count
  <2>5. completed \in ClientState /\ SameFrame(completed, c)
    BY <2>2, <2>4 DEF ClientState, SameFrame
  <2> HIDE DEF completed
  <2>6. Framed(completed, rest, messages)
    BY <2>5, FrameKept
  <2>7. /\ Framed(d, rest, messages) /\ Moves(d, completed)
    <3>1. SameFrame(completed, completed)
      BY DEF SameFrame
    <3>2. CASE SameFrame(d, completed)
      BY <2>6, <3>2, FrameKept
    <3>3. CASE d = CompleteDisconnection(completed, generation)
      BY <2>5, <2>6, <3>3, DisconnectionFramed
    <3> QED
      BY <2>1, <2>5, <3>1, <3>2, <3>3, WriteNextFrame
  <2> HIDE DEF d
  <2>8. Moves(d, c)
    BY <2>5, <2>7 DEF Moves, PhaseOf, SameFrame
  <2> QED
    BY <2>7, <2>8 DEF d
<1> QED
  BY <1>1, <1>2, <1>3

LEMMA SendFramed ==
  ASSUME NEW c \in ClientState, NEW type \in SendableTypes
  PROVE  SameFrame(Send(c, type), c)
<1> DEFINE longer == Append(c.sendQueue, type)
           count == c.pendingSendBytes + MessageSize[type]
           queued == [c EXCEPT !.sendQueue = longer, !.pendingSendBytes = count]
<1>1. /\ c.sendQueue \in Seq(SendableTypes) /\ c.pendingSendBytes \in Nat
      /\ MessageSize[type] \in Nat
  BY NetworkClientAssumption DEF ClientState
<1>2. longer \in Seq(SendableTypes) /\ count \in Nat
  BY <1>1
<1>3. Send(c, type) = IF c.sendQueue = <<>> THEN WriteNext(queued, c.connectionGeneration)
                      ELSE queued
  <2>1. queued.connectionGeneration = c.connectionGeneration
    BY DEF ClientState
  <2> QED
    BY DEF Send
<1> HIDE DEF longer, count
<1>4. queued \in ClientState /\ SameFrame(queued, c)
  BY <1>2 DEF ClientState, SameFrame
<1> HIDE DEF queued
<1>5. SameFrame(WriteNext(queued, c.connectionGeneration), queued)
  BY <1>4, WriteNextFrame
<1> QED
  BY <1>3, <1>4, <1>5 DEF SameFrame

\* The owner closes the connection, and hears nothing of it.
LEMMA DisconnectFramed ==
  ASSUME NEW c \in ClientState, NEW rest, NEW messages, Framed(c, rest, messages)
  PROVE  LET d == Disconnect(c)
         IN  Framed(d, rest, messages) /\ PhaseOf(d) = "closed" /\ d.heard = c.heard
<1> DEFINE d == Disconnect(c)
<1>1. /\ d.connectionState = "Disconnected" /\ d.posted = c.posted
      /\ d.connectionGeneration = c.connectionGeneration + 1
      /\ d.heard = c.heard
  BY EndsHeard
<1> HIDE DEF d
<1>2. c.posted \in Seq(Posted) /\ c.connectionGeneration \in Nat
  BY GenerationType DEF ClientState
<1>3. \A i \in 1 .. Len(c.posted) : c.posted[i].generation \in Nat
  <2>1. \A p \in Posted : p.generation \in Nat
    BY GenerationType DEF Posted
  <2>2. \A i \in 1 .. Len(c.posted) : c.posted[i] \in Posted
    BY <1>2
  <2> QED
    BY <2>1, <2>2
<1>4. NoPostAhead(d)
  BY <1>1, <1>2, <1>3 DEF Framed, NoPostAhead
<1> QED
  BY <1>1, <1>4 DEF Framed, PhaseOf, d

\* Members that stand for nothing.
LEMMA FlatMapNothing ==
  ASSUME NEW A, NEW B, NEW piece \in PiecesOf(B, A), NEW s \in Seq(B),
         \A i \in 1 .. Len(s) : piece[s[i]] = <<>>
  PROVE  FlatMap(piece, s) = <<>>
<1>1. CASE s = <<>>
  <2>1. Pieces(piece, s) = <<>>
    BY <1>1 DEF Pieces
  <2> QED
    BY <2>1 DEF FlatMap, FlattenSeq
<1>2. CASE s # <<>>
  <2> DEFINE m == Len(s)
             pieces == Pieces(piece, s)
  <2>1. m \in Nat \ {0}
    BY <1>2
  <2>2. /\ Len(pieces) = m
        /\ \A i \in 1 .. m : pieces[i] = <<>>
    BY PiecesType
  <2> HIDE DEF m, pieces
  <2>3. PICK f : /\ FlattenSeq(pieces) = f[m]
                 /\ f[1] = pieces[1]
                 /\ \A i \in 2 .. m : f[i] = f[i - 1] \o pieces[i]
    BY <2>1, <2>2, FlattenSteps
  <2> DEFINE S == {n \in 0 .. m - 1 : f[n + 1] = <<>>}
  <2>4. 0 \in S /\ m - 1 \in Nat
    BY <2>1, <2>2, <2>3
  <2>5. ASSUME NEW n \in 0 .. (m - 1) - 1, n \in S PROVE n + 1 \in S
    <3>1. n + 1 \in 0 .. m - 1 /\ n + 2 \in 2 .. m /\ (n + 2) - 1 = n + 1
          /\ (n + 1) + 1 = n + 2 /\ n + 2 \in 1 .. m
      BY <2>1, <2>5
    <3>2. f[n + 2] = <<>> \o <<>>
      BY <2>2, <2>3, <2>5, <3>1
    <3> QED
      BY <3>1, <3>2
  <2>6. m - 1 \in S
    <3> HIDE DEF S
    <3>1. \A n \in 0 .. m - 1 : n \in S
      BY <2>4, <2>5, UpTo
    <3> QED
      BY <2>1, <3>1
  <2>7. f[m] = <<>>
    BY <2>1, <2>6
  <2> QED
    BY <2>3, <2>7 DEF FlatMap, pieces
<1> QED
  BY <1>1, <1>2

\* What the earlier connections posted is not for the new one.
LEMMA ConnectFramed ==
  ASSUME NEW c, Sound(c), NEW rest, NEW messages, Framed(c, rest, messages),
         c.connectionGeneration < MaxGenerations
  PROVE  LET d == Connect(c)
         IN  Framed(d, <<>>, <<>>) /\ PhaseOf(d) = "pending" /\ d.heard = <<>>
<1> DEFINE g == c.connectionGeneration + 1
           r == Reset(c)
           n == [r EXCEPT !.connectionState = "Resolving",
                          !.connectionGeneration = g,
                          !.callbacks = CallbackTypes, !.heard = <<>>]
           d == Connect(c)
<1>1. Connect(c) = Register(n, "resolve", g)
  BY DEF Connect
<1>2. /\ c \in ClientState /\ c.connectionGeneration \in Nat
      /\ g \in Generations
  BY NetworkClientAssumption DEF Sound, ClientState, Generations
<1>3. /\ r \in ClientState /\ r.posted = c.posted /\ r.accumulatedBuffer = <<>>
      /\ r.playerIdentity = FALSE /\ r.latestRtt = FALSE
  <2>1. r \in ClientState
    BY ResetEffect DEF Sound, Closed
  <2> QED
    BY <1>2, <2>1 DEF Reset, ClientState
<1> HIDE DEF g, r
<1>4. /\ n \in ClientState /\ n.connectionState = "Resolving" /\ n.connectionGeneration = g
      /\ n.callbacks = CallbackTypes /\ n.heard = <<>> /\ n.posted = c.posted
      /\ n.accumulatedBuffer = <<>> /\ n.playerIdentity = FALSE /\ n.latestRtt = FALSE
  <2>1. /\ CallbackTypes \in SUBSET CallbackTypes /\ <<>> \in Seq(CallbackTypes)
        /\ "Resolving" \in ConnectionStates
    BY DEF ConnectionStates
  <2> QED
    BY <1>2, <1>3, <2>1 DEF ClientState
<1> HIDE DEF n
<1>5. c.posted \in Seq(Posted) /\ \A i \in 1 .. Len(c.posted) : c.posted[i] \in Posted
  BY <1>2 DEF ClientState
<1>6. \A i \in 1 .. Len(c.posted) : c.posted[i].generation < g /\ c.posted[i].generation \in Nat
  <2>1. \A p \in Posted : p.generation \in Nat
    BY GenerationType DEF Posted
  <2> QED
    BY <1>2, <1>5, <2>1 DEF Framed, NoPostAhead, g
<1>7. NoPostAhead(n)
  BY <1>2, <1>4, <1>6, GenerationType DEF NoPostAhead
<1>8. ToRun(n) = <<>>
  <2> DEFINE run == RunOf(g)
  <2>1. /\ run \in PiecesOf(Posted, CallbackTypes) /\ ToRun(n) = FlatMap(run, c.posted)
    BY <1>4, ToRunMap
  <2>2. \A p \in Posted : p.generation < g /\ p.generation \in Nat => run[p] = <<>>
    BY <1>2, GenerationType DEF RunOf
  <2> HIDE DEF run
  <2>3. \A i \in 1 .. Len(c.posted) : run[c.posted[i]] = <<>>
    BY <1>5, <1>6, <2>2
  <2> QED
    BY <1>5, <2>1, <2>3, FlatMapNothing
<1>9. Framed(n, <<>>, <<>>)
  BY <1>4, <1>7, <1>8 DEF Framed, Fresh
<1>10. SameFrame(d, n)
  BY <1>1, <1>4, RegisterFrame
<1> HIDE DEF d
<1> QED
  BY <1>4, <1>9, <1>10, FrameKept DEF SameFrame, PhaseOf, d

\* What the server sends joins the end of the stream.
LEMMA ServerSendsFramed ==
  ASSUME NEW c \in ClientState, NEW rest \in Seq(Unit), NEW messages \in Seq(Messages),
         Framed(c, rest, messages), c.connectionState = "Connected",
         NEW message \in Messages
  PROVE  Framed(c, rest \o Encoded(message), Append(messages, message))
<1> DEFINE longer == Append(messages, message)
           more == rest \o Encoded(message)
<1>1. PICK n \in Nat : Reading(c, rest, messages, n) /\ Settled(c, messages, n)
  BY DEF Framed
<1>2. n \in 0 .. Len(messages) /\ Taken(c, rest, messages, n) /\ Len(messages) \in Nat
  BY <1>1 DEF Reading
<1>3. /\ Whole(longer, n) = Whole(messages, n)
      /\ Stream(Rest(longer, n)) = Stream(Rest(messages, n)) \o Encoded(message)
  BY <1>2, CutAppend
<1>4. /\ Len(longer) = Len(messages) + 1 /\ longer[Len(messages) + 1] = message
      /\ \A i \in 1 .. Len(messages) : longer[i] = messages[i]
  OBVIOUS
<1>5. Taken(c, more, longer, n)
  <2>1. c.accumulatedBuffer \o more = Stream(Rest(longer, n))
    <3> DEFINE buffer == c.accumulatedBuffer
               encoded == Encoded(message)
    <3>1. buffer \in Seq(Unit) /\ encoded \in Seq(Unit)
      BY EncodedUnits DEF ClientState
    <3>2. buffer \o rest = Stream(Rest(messages, n))
      BY <1>2 DEF Taken
    <3> HIDE DEF buffer, encoded
    <3>3. (buffer \o rest) \o encoded = buffer \o (rest \o encoded)
      BY <3>1, ConcatAssociative, SMTT(60)
    <3>4. buffer \o (rest \o encoded) = Stream(Rest(messages, n)) \o encoded
      BY <3>2, <3>3
    <3> QED
      BY <1>3, <3>4 DEF buffer, encoded
  <2> HIDE DEF longer, more
  <2> QED
    BY <1>2, <1>3, <2>1 DEF Taken
<1>6. Settled(c, longer, n)
  <2>1. CASE n < Len(messages)
    <3>1. n + 1 \in 1 .. Len(messages)
      BY <1>2, <2>1
    <3>2. longer[n + 1] = messages[n + 1]
      BY <1>4, <3>1
    <3> QED
      BY <1>1, <2>1, <3>2 DEF Settled
  <2>2. CASE n = Len(messages)
    <3>1. Rest(messages, n) = <<>>
      <4>1. Rest(messages, n) \in Seq(Messages) /\ Len(Rest(messages, n)) = 0
        BY <1>2, <2>2, CutType
      <4> QED
        BY <4>1, EmptySeq
    <3>2. c.accumulatedBuffer \o rest = <<>>
      <4>1. Stream(<<>>) = <<>>
        <5>1. Rest(<<>>, 0) = <<>>
          BY SubSeqEmpty DEF Rest
        <5> QED
          BY <5>1, NothingRead
      <4> QED
        BY <1>2, <3>1, <4>1 DEF Taken
    <3>3. Len(c.accumulatedBuffer) = 0
      <4>1. c.accumulatedBuffer \in Seq(Unit)
        BY DEF ClientState
      <4> QED
        BY <3>2, <4>1, ConcatProperties
    <3>4. Units(longer[n + 1]) >= 2
      BY DEF Units, HeaderUnits
    <3> QED
      BY <3>3, <3>4 DEF Settled, Units, HeaderUnits
  <2> QED
    BY <1>2, <2>1, <2>2
<1>7. n \in 0 .. Len(longer)
  BY <1>2, <1>4
<1> HIDE DEF longer, more
<1>8. Reading(c, more, longer, n)
  BY <1>1, <1>5, <1>7 DEF Reading
<1> QED
  BY <1>6, <1>8 DEF Framed, longer, more

\* The next posted callback is heard, or there is nothing to hear of it.
LEMMA RunCallbackFramed ==
  ASSUME NEW c \in ClientState, NEW rest, NEW messages, Framed(c, rest, messages),
         c.posted # <<>>
  PROVE  LET d == RunCallback(c)
         IN  /\ Framed(d, rest, messages) /\ PhaseOf(d) = PhaseOf(c)
             /\ \/ d.heard = c.heard
                \/ /\ PhaseOf(c) = "open"
                   /\ \E callback \in CallbackTypes : d.heard = Append(c.heard, callback)
<1> DEFINE g == c.connectionGeneration
           next == Head(c.posted)
           tail == Tail(c.posted)
           longer == Append(c.heard, next.callback)
           k == [c EXCEPT !.posted = tail]
           n == [k EXCEPT !.heard = longer]
           d == RunCallback(c)
           run == RunOf(g)
<1>1. /\ c.posted \in Seq(Posted) /\ c.heard \in Seq(CallbackTypes)
      /\ DOMAIN c = {"connectionState", "connectionGeneration", "callbacks", "accumulatedBuffer",
                     "sendQueue", "pendingSendBytes", "playerIdentity", "latestRtt",
                     "operations", "posted", "heard"}
  BY DEF ClientState
<1>2. /\ next \in Posted /\ tail \in Seq(Posted)
      /\ Len(tail) = Len(c.posted) - 1 /\ Len(c.posted) \in Nat
      /\ \A i \in 1 .. Len(tail) : tail[i] = c.posted[i + 1]
  BY <1>1, HeadTailProperties
<1>3. next.callback \in CallbackTypes
  BY <1>2 DEF Posted, CallbackTypes
<1>4. longer \in Seq(CallbackTypes) /\ longer = c.heard \o <<next.callback>>
  BY <1>1, <1>3, AppendIsConcat
<1>5. d = IF IsCurrentOperation(c, next.generation, "Connected") THEN n ELSE k
  <2>1. k.heard = c.heard
    BY <1>1
  <2> QED
    BY <2>1 DEF RunCallback
<1>6. ToRun(c) = run[next] \o FlatMap(run, tail)
  <2>1. run \in PiecesOf(Posted, CallbackTypes) /\ ToRun(c) = FlatMap(run, c.posted)
    BY ToRunMap
  <2> QED
    BY <1>1, <2>1, FlatMapTail
<1>7. run[next] = IF next.generation = g THEN <<next.callback>> ELSE <<>>
  BY <1>2 DEF RunOf
<1> HIDE DEF tail, longer, next
<1>8. /\ k \in ClientState /\ k.posted = tail /\ k.heard = c.heard
      /\ n \in ClientState /\ n.posted = tail /\ n.heard = longer
  BY <1>2, <1>4 DEF ClientState
<1>9. /\ k.connectionState = c.connectionState /\ n.connectionState = c.connectionState
      /\ k.connectionGeneration = g /\ n.connectionGeneration = g
      /\ k.callbacks = c.callbacks /\ n.callbacks = c.callbacks
      /\ k.accumulatedBuffer = c.accumulatedBuffer /\ n.accumulatedBuffer = c.accumulatedBuffer
      /\ k.playerIdentity = c.playerIdentity /\ n.playerIdentity = c.playerIdentity
      /\ k.latestRtt = c.latestRtt /\ n.latestRtt = c.latestRtt
  BY <1>1
<1> HIDE DEF k, n
<1>10. ToRun(k) = FlatMap(run, tail) /\ ToRun(n) = FlatMap(run, tail)
  BY <1>8, <1>9, ToRunMap
<1>11. FlatMap(run, tail) \in Seq(CallbackTypes)
  BY <1>8, <1>10, ToRunMap
<1> DEFINE later == FlatMap(run, tail)
<1> HIDE DEF run
<1>12. NoPostAhead(k) /\ NoPostAhead(n)
  <2>1. \A i \in 1 .. Len(tail) : tail[i].generation <= g
    <3>1. \A i \in 1 .. Len(tail) : i + 1 \in 1 .. Len(c.posted)
      BY <1>2
    <3> QED
      BY <1>2, <3>1 DEF Framed, NoPostAhead
  <2> QED
    BY <1>8, <1>9, <2>1 DEF NoPostAhead
<1>13. CASE IsCurrentOperation(c, next.generation, "Connected")
  <2>1. /\ d = n /\ next.generation = g /\ c.connectionState = "Connected"
    BY <1>5, <1>13 DEF IsCurrentOperation
  <2>2. n.heard \o ToRun(n) = c.heard \o ToRun(c)
    <3> DEFINE h == c.heard
               one == <<next.callback>>
    <3>1. h \in Seq(CallbackTypes) /\ one \in Seq(CallbackTypes) /\ later \in Seq(CallbackTypes)
      BY <1>1, <1>3, <1>11
    <3>2. n.heard \o ToRun(n) = (h \o one) \o later /\ c.heard \o ToRun(c) = h \o (one \o later)
      BY <1>4, <1>6, <1>7, <1>8, <1>10, <2>1
    <3> HIDE DEF h, one, later
    <3>3. (h \o one) \o later = h \o (one \o later)
      BY <3>1, ConcatAssociative, SMTT(60)
    <3> QED
      BY <3>2, <3>3
  <2>3. PICK m \in Nat : Reading(c, rest, messages, m) /\ Settled(c, messages, m)
    BY <2>1 DEF Framed
  <2>4. Reading(n, rest, messages, m) /\ Settled(n, messages, m)
    BY <1>9, <2>2, <2>3 DEF Reading, Taken, Settled, Listens
  <2>5. n.heard # <<>>
    BY <1>1, <1>3, <1>4, <1>8 DEF longer
  <2>6. Framed(n, rest, messages) /\ PhaseOf(n) = PhaseOf(c) /\ PhaseOf(c) = "open"
    BY <1>9, <1>12, <2>1, <2>4, <2>5 DEF Framed, PhaseOf
  <2> QED
    BY <1>3, <1>8, <2>1, <2>6 DEF longer
<1>14. CASE ~IsCurrentOperation(c, next.generation, "Connected")
  <2>1. d = k /\ PhaseOf(k) = PhaseOf(c) /\ k.heard = c.heard
    BY <1>5, <1>8, <1>9, <1>14 DEF PhaseOf
  <2>2. CASE c.connectionState = "Connected"
    <3>1. ToRun(k) = ToRun(c)
      <4>1. run[next] = <<>>
        BY <1>7, <1>14, <2>2 DEF IsCurrentOperation
      <4> QED
        BY <1>6, <1>10, <1>11, <4>1
    <3>2. PICK m \in Nat : Reading(c, rest, messages, m) /\ Settled(c, messages, m)
      BY <2>2 DEF Framed
    <3>3. Reading(k, rest, messages, m) /\ Settled(k, messages, m)
      BY <1>8, <1>9, <3>1, <3>2 DEF Reading, Taken, Settled, Listens
    <3>4. Framed(k, rest, messages)
      BY <1>8, <1>9, <1>12, <2>2, <3>3 DEF Framed
    <3> QED
      BY <2>1, <3>4
  <2>3. CASE c.connectionState \in {"Resolving", "Connecting"}
    <3>1. Fresh(c) /\ rest = <<>> /\ messages = <<>>
      BY <2>3 DEF Framed
    <3>2. ToRun(k) = <<>>
      <4>1. run[next] \in Seq(CallbackTypes)
        BY <1>3, <1>7
      <4>2. run[next] \o later = <<>>
        BY <1>6, <3>1 DEF Fresh
      <4> HIDE DEF later
      <4>3. later = <<>>
        BY <1>11, <4>1, <4>2 DEF later
      <4> QED
        BY <1>10, <4>3 DEF later
    <3>3. Fresh(k)
      BY <1>8, <1>9, <3>1, <3>2 DEF Fresh
    <3>4. Framed(k, rest, messages)
      BY <1>9, <1>12, <2>3, <3>1, <3>3 DEF Framed
    <3> QED
      BY <2>1, <3>4
  <2>4. CASE c.connectionState \notin {"Resolving", "Connecting", "Connected"}
    BY <1>9, <1>12, <2>1, <2>4 DEF Framed
  <2> QED
    BY <2>2, <2>3, <2>4
<1> QED
  BY <1>13, <1>14

-----------------------------------------------------------------------------
(* Every step keeps the frame, and is a step of the contract.              *)

\* What the owner is told of the messages read so far is the beginning of what
\* can be heard.
LEMMA HeardableBegins ==
  ASSUME NEW messages \in Seq(Messages), NEW n \in 0 .. Len(messages),
         Contract!Refused(Whole(messages, n)) = {}
  PROVE  \E more \in Seq(CallbackTypes) :
            Contract!Heardable(messages) = Contract!Callbacks(Whole(messages, n)) \o more
<1>1. ASSUME NEW m \in n .. Len(messages)
      PROVE  \E more \in Seq(CallbackTypes) :
                Contract!Callbacks(Whole(messages, m)) =
                   Contract!Callbacks(Whole(messages, n)) \o more
  <2> DEFINE first == Whole(messages, n)
             second == SubSeq(messages, n + 1, m)
  <2>1. first \o second = Whole(messages, m)
    <3>1. 1 \in 1 .. Len(messages) + 1 /\ n \in 1 - 1 .. Len(messages)
      BY <1>1
    <3> QED
      BY <1>1, <3>1, ConcatAdjacentSubSeq DEF Whole
  <2>2. first \in Seq(Messages)
    BY CutType
  <2>3. second \in Seq(Messages)
    <3>1. /\ n + 1 \in 1 .. Len(messages) + 1 /\ m \in 0 .. Len(messages) /\ n + 1 <= m + 1
      BY <1>1
    <3> QED
      BY <3>1, PartProperties
  <2> HIDE DEF first, second
  <2>4. CallbackOf \in PiecesOf(Messages, CallbackTypes)
    BY CallbacksMap
  <2>5. FlatMap(CallbackOf, first \o second) =
           FlatMap(CallbackOf, first) \o FlatMap(CallbackOf, second)
    BY <2>2, <2>3, <2>4, FlatMapConcat
  <2>6. /\ Contract!Callbacks(first) = FlatMap(CallbackOf, first)
        /\ Contract!Callbacks(second) = FlatMap(CallbackOf, second)
        /\ Contract!Callbacks(second) \in Seq(CallbackTypes)
    BY <2>2, <2>3, CallbacksMap
  <2>7. first \o second \in Seq(Messages)
    BY <2>2, <2>3, ConcatProperties
  <2>8. Contract!Callbacks(first \o second) = FlatMap(CallbackOf, first \o second)
    BY <2>7, CallbacksMap
  <2> QED
    BY <2>1, <2>5, <2>6, <2>8 DEF first
<1> DEFINE refused == Contract!Refused(messages)
<1>2. Len(messages) \in Nat /\ \A i \in refused : i \in 1 .. Len(messages)
  BY DEF Contract!Refused
<1>3. CASE refused = {}
  <2>1. Whole(messages, Len(messages)) = messages
    BY SubSeqFull DEF Whole
  <2>2. Contract!Heardable(messages) = Contract!Callbacks(Whole(messages, Len(messages)))
    BY <1>3, <2>1 DEF Contract!Heardable
  <2>3. Len(messages) \in n .. Len(messages)
    BY <1>2
  <2> QED
    BY <1>1, <2>2, <2>3
<1>4. CASE refused # {}
  <2> DEFINE first == Contract!Min(refused)
  <2>1. refused \in SUBSET Nat
    BY <1>2
  <2>2. \E i \in refused : \A j \in refused : i <= j
    <3> HIDE DEF refused
    <3> QED
      BY <1>4, <2>1, LeastElement
  <2>3. first \in refused
    BY <2>2 DEF Contract!Min
  <2> HIDE DEF first
  <2>4. first \in 1 .. Len(messages)
    BY <1>2, <2>3
  <2>5. n < first
    <3>1. SUFFICES ASSUME first \in 1 .. n PROVE FALSE
      BY <2>4
    <3> DEFINE whole == Whole(messages, n)
    <3>2. /\ DOMAIN whole = 1 .. n
          /\ \A i \in 1 .. n : whole[i] = messages[i]
      <4>1. whole \in Seq(Messages) /\ Len(whole) = n
            /\ \A i \in 1 .. n : whole[i] = messages[i]
        BY CutType
      <4> QED
        BY <4>1, LenProperties
    <3> HIDE DEF whole
    <3>3. whole[first] = messages[first]
      BY <3>1, <3>2
    <3>4. \A j \in 1 .. first - 1 : whole[j] = messages[j]
      BY <3>1, <3>2
    <3>5. first \in Contract!Refused(whole)
      BY <2>3, <3>1, <3>2, <3>3, <3>4 DEF Contract!Refused, refused
    <3> QED
      BY <3>5 DEF whole
  <2>6. first - 1 \in n .. Len(messages)
    BY <2>4, <2>5
  <2>7. Contract!Heardable(messages) = Contract!Callbacks(Whole(messages, first - 1))
    BY <1>4 DEF Contract!Heardable, Whole, first
  <2> QED
    BY <1>1, <2>6, <2>7
<1> QED
  BY <1>3, <1>4

\* A callback that a framed connection hears is the next of the contract.
LEMMA NextHeard ==
  ASSUME NEW c \in ClientState, NEW d \in ClientState, NEW rest, NEW messages \in Seq(Messages),
         Framed(c, rest, messages), Framed(d, rest, messages),
         c.connectionState = "Connected", d.connectionState = "Connected",
         NEW callback \in CallbackTypes, d.heard = Append(c.heard, callback)
  PROVE  /\ Len(c.heard) <= Len(Contract!Heardable(messages))
         /\ callback = Contract!Heardable(messages)[Len(c.heard)]
<1> DEFINE h == c.heard
           later == ToRun(d)
           heardable == Contract!Heardable(messages)
<1>1. PICK n \in Nat : Reading(d, rest, messages, n)
  BY DEF Framed
<1> DEFINE whole == Contract!Callbacks(Whole(messages, n))
<1>2. /\ n \in 0 .. Len(messages) /\ Contract!Refused(Whole(messages, n)) = {}
      /\ Append(h, callback) \o later = <<"Connected">> \o whole
  BY <1>1 DEF Reading, Taken
<1>3. /\ h \in Seq(CallbackTypes) /\ h # <<>> /\ later \in Seq(CallbackTypes)
  BY ToRunMap DEF ClientState, Framed
<1>4. whole \in Seq(CallbackTypes)
  BY <1>2, CutType, CallbacksMap
<1>5. PICK more \in Seq(CallbackTypes) : heardable = whole \o more
  BY <1>2, HeardableBegins
<1>6. "Connected" \in CallbackTypes
  BY DEF CallbackTypes
<1> HIDE DEF h, later, heardable, whole
<1> DEFINE m == Len(h)
           told == Append(h, callback)
           one == <<"Connected">>
<1>7. /\ m \in Nat \ {0} /\ Len(later) \in Nat /\ Len(whole) \in Nat /\ Len(more) \in Nat
      /\ told \in Seq(CallbackTypes) /\ Len(told) = m + 1 /\ told[m + 1] = callback
      /\ one \in Seq(CallbackTypes) /\ Len(one) = 1
  BY <1>3, <1>4, <1>6
<1> HIDE DEF m, told, one
<1>8. /\ Len(told \o later) = (m + 1) + Len(later)
      /\ m + 1 \in 1 .. (m + 1) + Len(later)
      /\ (told \o later)[m + 1] = callback
  <2>1. /\ Len(told \o later) = Len(told) + Len(later)
        /\ \A i \in 1 .. Len(told) + Len(later) :
              (told \o later)[i] = IF i <= Len(told) THEN told[i] ELSE later[i - Len(told)]
    BY <1>3, <1>7, ConcatProperties
  <2>2. m + 1 \in 1 .. (m + 1) + Len(later) /\ m + 1 <= Len(told)
    BY <1>7
  <2> QED
    BY <1>7, <2>1, <2>2
<1>9. /\ Len(one \o whole) = 1 + Len(whole)
      /\ \A i \in 1 .. 1 + Len(whole) : i > 1 => (one \o whole)[i] = whole[i - 1]
  <2>1. /\ Len(one \o whole) = Len(one) + Len(whole)
        /\ \A i \in 1 .. Len(one) + Len(whole) :
              (one \o whole)[i] = IF i <= Len(one) THEN one[i] ELSE whole[i - Len(one)]
    BY <1>4, <1>7, ConcatProperties
  <2>2. \A i \in 1 .. 1 + Len(whole) : i > 1 => ~(i <= 1)
    BY <1>7
  <2> QED
    BY <1>7, <2>1, <2>2
<1>10. told \o later = one \o whole
  BY <1>2 DEF told, one
<1>11. m <= Len(whole) /\ callback = whole[m]
  BY <1>7, <1>8, <1>9, <1>10
<1>12. Len(heardable) = Len(whole) + Len(more) /\ heardable[m] = whole[m]
  BY <1>4, <1>5, <1>7, <1>11, ConcatProperties
<1> QED
  BY <1>7, <1>11, <1>12 DEF heardable, m, h

FrameInv == Framed(client, stream, sent)

\* A step of the contract, from the client's and the server's side.
ContractStep ==
    \/ Moves(client', client) /\ UNCHANGED sent
    \/ /\ PhaseOf(client) = "closed" /\ PhaseOf(client') = "pending"
       /\ client'.heard = <<>> /\ sent' = <<>>
    \/ /\ PhaseOf(client') = "closed" /\ client'.heard = client.heard /\ UNCHANGED sent
    \/ /\ PhaseOf(client) = "open" /\ UNCHANGED client
       /\ \E message \in Messages : sent' = Append(sent, message)
    \/ /\ PhaseOf(client) = "open" /\ PhaseOf(client') = "open" /\ UNCHANGED sent
       /\ Len(client.heard) <= Len(Contract!Heardable(sent))
       /\ client'.heard = Append(client.heard, Contract!Heardable(sent)[Len(client.heard)])

\* The client before it handles a completion is framed as it was.
LEMMA CompletingFramed ==
  ASSUME NetworkClientInv, FrameInv, NEW type \in OperationTypes, NEW generation \in Generations,
         client.operations[<<type, generation>>] > 0
  PROVE  LET c == Completing(type, generation)
         IN  /\ Sound(c) /\ c \in ClientState /\ Framed(c, stream, sent)
             /\ c.connectionGeneration = client.connectionGeneration
             /\ \A d : Moves(d, c) => Moves(d, client)
<1> DEFINE c == Completing(type, generation)
<1>1. client \in ClientState /\ Sound(client)
  BY DEF NetworkClientInv, Good, Sound
<1>2. SameFrame(c, client)
  BY <1>1, CompletingFrame
<1>3. Sound(c)
  BY <1>1, CompletingEffect
<1> HIDE DEF c
<1>4. Framed(c, stream, sent)
  BY <1>2, FrameKept DEF FrameInv
<1>5. \A d : Moves(d, c) => Moves(d, client)
  BY <1>2 DEF Moves, PhaseOf, SameFrame
<1> QED
  BY <1>2, <1>3, <1>4, <1>5 DEF Sound, SameFrame, c

LEMMA FrameNext ==
  ASSUME NetworkClientInv, FrameInv, Next
  PROVE  FrameInv' /\ ContractStep
<1> DEFINE Goal == Framed(client', stream', sent') /\ ContractStep
<1>1. /\ client \in ClientState /\ Sound(client) /\ stream \in Seq(Unit) /\ sent \in Seq(Messages)
      /\ Framed(client, stream, sent)
  BY DEF NetworkClientInv, Good, Sound, FrameInv
<1>2. SUFFICES Goal
  BY DEF FrameInv, Framed, NoPostAhead, Fresh, Reading, Settled, Taken, Listens, ToRun
<1>3. CASE OwnerConnects
  <2>1. /\ client' = Connect(client) /\ stream' = <<>> /\ sent' = <<>>
        /\ client.connectionState = "Disconnected"
        /\ client.connectionGeneration < MaxGenerations
    BY <1>3 DEF OwnerConnects
  <2>2. Framed(client', <<>>, <<>>) /\ PhaseOf(client') = "pending" /\ client'.heard = <<>>
    BY <1>1, <2>1, ConnectFramed
  <2>3. PhaseOf(client) = "closed"
    BY <2>1 DEF PhaseOf
  <2> QED
    BY <2>1, <2>2, <2>3 DEF ContractStep
<1>4. CASE OwnerDisconnects
  <2>1. client' = Disconnect(client) /\ stream' = stream /\ sent' = sent
    BY <1>4 DEF OwnerDisconnects
  <2>2. /\ Framed(client', stream, sent) /\ PhaseOf(client') = "closed"
        /\ client'.heard = client.heard
    BY <1>1, <2>1, DisconnectFramed
  <2> QED
    BY <2>1, <2>2 DEF ContractStep
<1>5. ASSUME NEW type \in SendableTypes, OwnerSends(type) PROVE Goal
  <2>1. client' = Send(client, type) /\ stream' = stream /\ sent' = sent
    BY <1>5 DEF OwnerSends
  <2>2. SameFrame(client', client)
    BY <1>1, <2>1, SendFramed
  <2>3. Framed(client', stream, sent) /\ Moves(client', client)
    BY <1>1, <2>2, FrameKept
  <2> QED
    BY <2>1, <2>3 DEF ContractStep
<1>6. ASSUME NEW message \in Messages, ServerSends(message) PROVE Goal
  <2>1. /\ client.connectionState = "Connected" /\ client' = client
        /\ stream' = stream \o Encoded(message) /\ sent' = Append(sent, message)
    BY <1>6 DEF ServerSends
  <2>2. Framed(client, stream \o Encoded(message), Append(sent, message))
    BY <1>1, <2>1, ServerSendsFramed
  <2>3. PhaseOf(client) = "open"
    BY <2>1 DEF PhaseOf
  <2> QED
    BY <2>1, <2>2, <2>3 DEF ContractStep
<1>7. CASE CallbackRuns
  <2>1. /\ client' = RunCallback(client) /\ stream' = stream /\ sent' = sent
        /\ client.posted # <<>>
    BY <1>7 DEF CallbackRuns
  <2>2. /\ Framed(client', stream, sent) /\ PhaseOf(client') = PhaseOf(client)
        /\ \/ client'.heard = client.heard
           \/ /\ PhaseOf(client) = "open"
              /\ \E callback \in CallbackTypes : client'.heard = Append(client.heard, callback)
    BY <1>1, <2>1, RunCallbackFramed
  <2>3. CASE client'.heard = client.heard
    BY <2>1, <2>2, <2>3 DEF ContractStep, Moves
  <2>4. ASSUME NEW callback \in CallbackTypes, client'.heard = Append(client.heard, callback),
               PhaseOf(client) = "open"
        PROVE  Goal
    <3>1. client.connectionState = "Connected" /\ client'.connectionState = "Connected"
      BY <2>2, <2>4 DEF PhaseOf
    <3>2. client' \in ClientState
      BY <1>1, <2>1, RunCallbackGood DEF NetworkClientInv, Good, Sound
    <3>3. /\ Len(client.heard) <= Len(Contract!Heardable(sent))
          /\ callback = Contract!Heardable(sent)[Len(client.heard)]
      BY <1>1, <2>2, <2>4, <3>1, <3>2, NextHeard
    <3> QED
      BY <2>1, <2>2, <2>4, <3>3 DEF ContractStep
  <2> QED
    BY <2>2, <2>3, <2>4
<1>8. ASSUME NEW generation \in Generations, NEW error \in BOOLEAN,
             ResolveCompletes(generation, error)
      PROVE  Goal
  <2> DEFINE c == Completing("resolve", generation)
  <2>1. /\ client' = HandleResolve(c, error, generation) /\ stream' = stream /\ sent' = sent
        /\ client.operations[<<"resolve", generation>>] > 0
    BY <1>8 DEF ResolveCompletes
  <2>2. c \in ClientState /\ Framed(c, stream, sent) /\ \A d : Moves(d, c) => Moves(d, client)
    BY <2>1, CompletingFramed DEF OperationTypes
  <2> HIDE DEF c
  <2>3. Framed(client', stream, sent) /\ Moves(client', c)
    BY <2>1, <2>2, HandleResolveFramed
  <2> QED
    BY <2>1, <2>2, <2>3 DEF ContractStep
<1>9. ASSUME NEW generation \in Generations, NEW error \in BOOLEAN,
             NEW answer \in {"continue", "disconnect"},
             ConnectCompletes(generation, error, answer)
      PROVE  Goal
  <2> DEFINE c == Completing("connect", generation)
  <2>1. /\ client' = HandleConnect(c, error, generation, answer)
        /\ stream' = stream /\ sent' = sent
        /\ client.operations[<<"connect", generation>>] > 0
    BY <1>9 DEF ConnectCompletes
  <2>2. c \in ClientState /\ Framed(c, stream, sent) /\ \A d : Moves(d, c) => Moves(d, client)
    BY <2>1, CompletingFramed DEF OperationTypes
  <2> HIDE DEF c
  <2>3. Framed(client', stream, sent) /\ Moves(client', c)
    BY <2>1, <2>2, HandleConnectFramed
  <2> QED
    BY <2>1, <2>2, <2>3 DEF ContractStep
<1>10. ASSUME NEW generation \in Generations, NEW error \in BOOLEAN,
              WriteCompletes(generation, error)
       PROVE  Goal
  <2> DEFINE c == Completing("write", generation)
  <2>1. /\ client' = HandleWrite(c, error, generation) /\ stream' = stream /\ sent' = sent
        /\ client.operations[<<"write", generation>>] > 0
    BY <1>10 DEF WriteCompletes
  <2>2. c \in ClientState /\ Framed(c, stream, sent) /\ \A d : Moves(d, c) => Moves(d, client)
    BY <2>1, CompletingFramed DEF OperationTypes
  <2> HIDE DEF c
  <2>3. Framed(client', stream, sent) /\ Moves(client', c)
    BY <2>1, <2>2, HandleWriteFramed
  <2> QED
    BY <2>1, <2>2, <2>3 DEF ContractStep
<1>11. ASSUME NEW generation \in Generations, NEW units \in Seq(Unit), NEW error \in BOOLEAN,
              client.operations[<<"read", generation>>] > 0, sent' = sent,
              client' = HandleRead(Completing("read", generation), units, error, generation),
              generation = client.connectionGeneration => stream = units \o stream',
              stream' \in Seq(Unit), generation # client.connectionGeneration => stream' = stream
       PROVE  Goal
  <2> DEFINE c == Completing("read", generation)
  <2>1. /\ Sound(c) /\ c \in ClientState /\ Framed(c, stream, sent)
        /\ c.connectionGeneration = client.connectionGeneration
        /\ \A d : Moves(d, c) => Moves(d, client)
    BY <1>11, CompletingFramed DEF OperationTypes
  <2>2. client' = HandleRead(c, units, error, generation)
    BY <1>11
  <2> HIDE DEF c
  <2>3. CASE IsCurrentOperation(c, generation, "Connected")
    <3>1. stream = units \o stream'
      BY <1>11, <2>1, <2>3 DEF IsCurrentOperation
    <3>2. Framed(client', stream', sent) /\ Moves(client', c)
      BY <1>1, <1>11, <2>1, <2>2, <2>3, <3>1, HandleReadFramed
    <3> QED
      BY <1>11, <2>1, <3>2 DEF ContractStep
  <2>4. CASE ~IsCurrentOperation(c, generation, "Connected")
    <3>1. client' = c
      BY <2>2, <2>4 DEF HandleRead
    <3>2. Moves(c, c)
      BY DEF Moves
    <3>3. Framed(c, stream', sent)
      <4>1. CASE stream' = stream
        BY <2>1, <4>1
      <4>2. CASE generation = client.connectionGeneration
        <5>1. c.connectionState # "Connected"
          BY <2>1, <2>4, <4>2 DEF IsCurrentOperation
        <5>2. CASE c.connectionState \in {"Resolving", "Connecting"}
          <6>1. stream = <<>> /\ stream = units \o stream'
            BY <1>11, <2>1, <4>2, <5>2 DEF Framed
          <6>2. stream' = <<>>
            <7> DEFINE after == stream'
            <7>1. after \in Seq(Unit) /\ units \o after = <<>>
              BY <1>11, <6>1
            <7> HIDE DEF after
            <7>2. Len(units \o after) = Len(units) + Len(after) /\ Len(<<>>) = 0
              BY <7>1, ConcatProperties
            <7>3. Len(after) \in Nat /\ Len(units) \in Nat
              BY <7>1
            <7>4. Len(after) = 0
              BY <7>1, <7>2, <7>3
            <7> QED
              BY <7>1, <7>4, EmptySeq DEF after
          <6> QED
            BY <2>1, <6>1, <6>2
        <5>3. CASE c.connectionState \notin {"Resolving", "Connecting"}
          BY <2>1, <5>1, <5>3 DEF Framed
        <5> QED
          BY <5>2, <5>3
      <4> QED
        BY <1>11, <4>1, <4>2
    <3> QED
      BY <1>11, <2>1, <3>1, <3>2, <3>3 DEF ContractStep
  <2> QED
    BY <2>3, <2>4
<1>12. ASSUME NEW generation \in Generations, NEW count \in 1 .. Len(stream),
              ReadCompletes(generation, count)
       PROVE  Goal
  <2> DEFINE units == SubSeq(stream, 1, count)
             rest == SubSeq(stream, count + 1, Len(stream))
  <2>1. /\ client' = HandleRead(Completing("read", generation), units, FALSE, generation)
        /\ stream' = rest /\ sent' = sent
        /\ generation = client.connectionGeneration
        /\ client.operations[<<"read", generation>>] > 0
    BY <1>12 DEF ReadCompletes
  <2>2. /\ count \in 0 .. Len(stream) /\ Len(stream) \in Nat /\ 1 \in 1 .. Len(stream) + 1
        /\ count + 1 \in 1 .. Len(stream) + 1 /\ Len(stream) \in 0 .. Len(stream)
        /\ 1 <= count + 1 /\ count + 1 <= Len(stream) + 1
        /\ count \in 1 - 1 .. Len(stream) /\ Len(stream) \in count .. Len(stream)
    BY <1>1, <1>12
  <2>3. units \in Seq(Unit) /\ rest \in Seq(Unit)
    BY <1>1, <2>2, PartProperties
  <2>4. units \o rest = stream
    BY <1>1, <2>2, ConcatAdjacentSubSeq, SubSeqFull
  <2> HIDE DEF units, rest
  <2> QED
    BY <1>11, <2>1, <2>3, <2>4
<1>13. ASSUME NEW generation \in Generations, OldReadCompletes(generation) PROVE Goal
  <2>1. /\ client' = HandleRead(Completing("read", generation), Encoded("PlayerIdentity"),
                                FALSE, generation)
        /\ stream' = stream /\ sent' = sent
        /\ generation # client.connectionGeneration
        /\ client.operations[<<"read", generation>>] > 0
    BY <1>13 DEF OldReadCompletes
  <2>2. Encoded("PlayerIdentity") \in Seq(Unit)
    BY EncodedUnits DEF Messages
  <2> QED
    BY <1>1, <1>11, <2>1, <2>2
<1>14. ASSUME NEW generation \in Generations, ReadFails(generation) PROVE Goal
  <2>1. /\ client' = HandleRead(Completing("read", generation), <<>>, TRUE, generation)
        /\ stream' = stream /\ sent' = sent
        /\ client.operations[<<"read", generation>>] > 0
    BY <1>14 DEF ReadFails
  <2>2. <<>> \in Seq(Unit) /\ <<>> \o stream = stream
    BY <1>1, ConcatEmptySeq
  <2> QED
    BY <1>1, <1>11, <2>1, <2>2
<1> QED
  BY <1>2, <1>3, <1>4, <1>5, <1>6, <1>7, <1>8, <1>9, <1>10, <1>12, <1>13, <1>14 DEF Next

LEMMA FrameInit == Init => FrameInv
<1> SUFFICES ASSUME Init PROVE FrameInv
  OBVIOUS
<1>1. client.connectionState = "Disconnected" /\ client.posted = <<>>
  BY DEF Init, NewClient
<1> QED
  BY <1>1 DEF FrameInv, Framed, NoPostAhead

\* The invariant of the frame, together with that of the operations.
LEMMA FrameInvariant == Spec => [](NetworkClientInv /\ FrameInv)
<1>1. Init => NetworkClientInv /\ FrameInv
  BY NetworkClientInvInit, FrameInit
<1>2. NetworkClientInv /\ FrameInv /\ [Next]_vars => (NetworkClientInv /\ FrameInv)'
  <2> SUFFICES ASSUME NetworkClientInv, FrameInv, [Next]_vars
               PROVE  NetworkClientInv' /\ FrameInv'
    OBVIOUS
  <2>1. NetworkClientInv'
    BY NetworkClientInvNext
  <2>2. CASE Next
    BY <2>1, <2>2, FrameNext
  <2>3. CASE UNCHANGED vars
    <3>1. FrameInv'
      BY <2>3 DEF vars, FrameInv, Framed, NoPostAhead, Fresh, Reading, Settled, Taken, Listens, ToRun
    <3> QED
      BY <2>1, <3>1
  <2> QED
    BY <2>2, <2>3
<1> QED
  BY <1>1, <1>2, PTL DEF Spec

-----------------------------------------------------------------------------
(* The theorems.                                                           *)

\* Every behaviour satisfies the inductive invariant.
THEOREM NetworkClientInvariant == Spec => []NetworkClientInv
<1> QED
  BY NetworkClientInvInit, NetworkClientInvNext, PTL DEF Spec

\* Every variable keeps its type; above all the count of the bytes that wait
\* never goes below zero (TypeOK of NetworkClient).
THEOREM TypeCorrect == Spec => []TypeOK
<1>1. NetworkClientInv => TypeOK
  BY DEF NetworkClientInv, Good, Sound, TypeOK, ClientState, Unit
<1> QED
  BY <1>1, NetworkClientInvariant, PTL

\* However many operations of earlier connections are still to complete, in
\* whatever order, the current connection has the operations of its stage and
\* no other (HandleResolve, HandleConnect, HandleRead, HandleWrite, Send).
THEOREM ChainsIntact == Spec => []OperationChains
<1>1. NetworkClientInv => OperationChains
  BY DEF NetworkClientInv, Good, Chained, Current, OperationChains
<1> QED
  BY <1>1, NetworkClientInvariant, PTL

\* What is counted is exactly what waits, and stays within the limit: no write
\* of an earlier connection is taken off the count of a later one, and the
\* count is zero when the last message is written (Send, HandleWrite,
\* ClearSendQueue).
THEOREM SendLimitKept == Spec => []SendQueueAccounted
<1>1. NetworkClientInv => SendQueueAccounted
  BY DEF NetworkClientInv, Good, Sound, Queued, SendQueueAccounted
<1> QED
  BY <1>1, NetworkClientInvariant, PTL

\* However the stream is cut into reads, whichever operations and callbacks of
\* earlier connections are still about, the messages that an open connection
\* has read are the whole messages of its bytes, all acceptable, and exactly
\* what they say is known and heard or posted (ProcessMessages, HandleRead,
\* CompleteConnection, the generation every callback is posted with).
THEOREM EveryMessageOnce == Spec => []FramedExactly
<1>1. FrameInv => FramedExactly
  <2> SUFFICES ASSUME FrameInv, client.connectionState = "Connected"
               PROVE  \E n \in 0 .. Len(sent) :
                         /\ Taken(client, stream, sent, n) /\ Settled(client, sent, n)
    BY DEF FramedExactly, Taken, Settled, Whole, Rest
  <2>1. PICK n \in Nat : Reading(client, stream, sent, n) /\ Settled(client, sent, n)
    BY DEF FrameInv, Framed
  <2> QED
    BY <2>1 DEF Reading
<1> QED
  BY <1>1, FrameInvariant, PTL

\* The steps that a client can take are those that its contract with the owner
\* allows, or none that the owner sees: what Connection promises of callbacks,
\* their order and their end holds (all the handlers).
THEOREM KeepsContract == Spec => Contract!Spec
<1>1. Init => Contract!Init
  <2> SUFFICES ASSUME Init PROVE Contract!Init
    OBVIOUS
  <2>1. client.connectionState = "Disconnected" /\ client.heard = <<>> /\ sent = <<>>
    BY DEF Init, NewClient
  <2> QED
    BY <2>1 DEF Contract!Init, Phase
<1>2. NetworkClientInv /\ FrameInv /\ [Next]_vars => [Contract!Next]_Contract!vars
  <2> SUFFICES ASSUME NetworkClientInv, FrameInv, [Next]_vars
               PROVE  [Contract!Next]_Contract!vars
    OBVIOUS
  <2>1. Phase = PhaseOf(client) /\ Phase' = PhaseOf(client')
    BY DEF Phase, PhaseOf
  <2>2. CASE UNCHANGED vars
    BY <2>1, <2>2 DEF vars, Contract!vars
  <2>3. CASE Next
    <3>1. ContractStep
      BY <2>3, FrameNext
    <3>2. CASE Moves(client', client) /\ UNCHANGED sent
      BY <2>1, <3>2 DEF Moves, Contract!Next, Contract!Settle, Contract!Lose, Contract!vars
    <3>3. CASE /\ PhaseOf(client) = "closed" /\ PhaseOf(client') = "pending"
               /\ client'.heard = <<>> /\ sent' = <<>>
      BY <2>1, <3>3 DEF Contract!Next, Contract!Connect
    <3>4. CASE PhaseOf(client') = "closed" /\ client'.heard = client.heard /\ UNCHANGED sent
      BY <2>1, <3>4 DEF Contract!Next, Contract!Cancel, Contract!vars
    <3>5. CASE /\ PhaseOf(client) = "open" /\ UNCHANGED client
               /\ \E message \in Messages : sent' = Append(sent, message)
      BY <2>1, <3>5 DEF Contract!Next, Contract!ServerSends
    <3>6. CASE /\ PhaseOf(client) = "open" /\ PhaseOf(client') = "open" /\ UNCHANGED sent
               /\ Len(client.heard) <= Len(Contract!Heardable(sent))
               /\ client'.heard =
                     Append(client.heard, Contract!Heardable(sent)[Len(client.heard)])
      BY <2>1, <3>6 DEF Contract!Next, Contract!Hear
    <3> QED
      BY <3>1, <3>2, <3>3, <3>4, <3>5, <3>6 DEF ContractStep
  <2> QED
    BY <2>2, <2>3
<1> QED
  BY <1>1, <1>2, FrameInvariant, PTL DEF Spec, Contract!Spec

=============================================================================
