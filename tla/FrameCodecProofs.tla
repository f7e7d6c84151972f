-------------------------- MODULE FrameCodecProofs --------------------------
(***************************************************************************)
(* Proofs about FrameCodec, for any prefix, limit and messages, and any    *)
(* cutting of the stream into pieces.                                      *)
(***************************************************************************)
EXTENDS FrameCodec, Induction, TLAPS

(***************************************************************************)
(* The length prefix.                                                      *)
(***************************************************************************)

\* Places are powers of the base.
LEMMA PlaceDef ==
  /\ Place \in [0..HeaderBytes -> Nat]
  /\ Place[0] = 1
  /\ \A n \in 1..HeaderBytes : Place[n] = Base * Place[n - 1]
<1> DEFINE step == [n \in 1..HeaderBytes |-> [x \in Nat |-> Base * x]]
           Fixed(g) == g = [n \in 0..HeaderBytes |-> IF n = 0 THEN 1 ELSE Base * g[n - 1]]
<1>0. HeaderBytes \in Nat /\ Base \in Nat
  BY CodecAssumption
<1>1. step \in [1..HeaderBytes -> [Nat -> Nat]]
  <2>1. \A x \in Nat : Base * x \in Nat
    BY <1>0
  <2> QED BY <2>1
<1>2. PICK g \in [0..HeaderBytes -> Nat] :
        g[0] = 1 /\ \A n \in 1..HeaderBytes : g[n] = step[n][g[n - 1]]
  <2> HIDE DEF step
  <2>1. \E g : Solves(g, Nat, 1, HeaderBytes, step)
    BY <1>0, <1>1, Recursion
  <2> QED BY <2>1 DEF Solves
<1>3. \A n \in 1..HeaderBytes : g[n] = Base * g[n - 1]
  <2> SUFFICES ASSUME NEW n \in 1..HeaderBytes PROVE g[n] = Base * g[n - 1]
    OBVIOUS
  <2>1. g[n - 1] \in Nat
    BY <1>0, <1>2
  <2> QED BY <1>2, <2>1
<1>4. \A n \in 0..HeaderBytes : g[n] = IF n = 0 THEN 1 ELSE Base * g[n - 1]
  BY <1>0, <1>2, <1>3
<1>5. Fixed(g)
  BY <1>4
<1>6. Fixed(Place)
  <2>1. Place = CHOOSE h : Fixed(h)
    BY DEF Place
  <2> HIDE DEF Fixed
  <2> QED BY <1>5, <2>1
<1>7. /\ DOMAIN Place = 0..HeaderBytes
      /\ Place[0] = 1
      /\ \A n \in 1..HeaderBytes : Place[n] = Base * Place[n - 1]
  BY <1>0, <1>6
<1> DEFINE T == {n \in Nat : n <= HeaderBytes => Place[n] \in Nat}
<1>8. ASSUME NEW n \in Nat, n \in T PROVE n + 1 \in T
  <2>1. CASE n + 1 <= HeaderBytes
    <3>1. n + 1 \in 1..HeaderBytes /\ (n + 1) - 1 = n /\ Place[n] \in Nat
      BY <1>0, <1>8, <2>1
    <3>2. Place[n + 1] = Base * Place[n]
      BY <1>7, <3>1
    <3>3. Base * Place[n] \in Nat
      BY <1>0, <3>1
    <3> QED BY <3>2, <3>3
  <2> QED BY <2>1
<1>9. 0 \in T
  BY <1>7
<1>10. Nat \subseteq T
  <2> HIDE DEF T
  <2> QED BY <1>8, <1>9, SetInduction
<1>11. \A n \in 0..HeaderBytes : Place[n] \in Nat
  BY <1>0, <1>10
<1>12. Place = [n \in 0..HeaderBytes |-> Place[n]]
  BY <1>6
<1> QED BY <1>7, <1>11, <1>12

\* Places are positive.
LEMMA PlacePositive == \A n \in 0..HeaderBytes : Place[n] \in Nat /\ Place[n] > 0
<1> DEFINE T == {n \in Nat : n <= HeaderBytes => Place[n] > 0}
<1>0. HeaderBytes \in Nat /\ Base \in Nat /\ Base > 1
  BY CodecAssumption
<1>1. 0 \in T
  BY PlaceDef
<1>2. ASSUME NEW n \in Nat, n \in T PROVE n + 1 \in T
  <2>1. CASE n + 1 <= HeaderBytes
    <3>1. n + 1 \in 1..HeaderBytes /\ (n + 1) - 1 = n /\ n \in 0..HeaderBytes /\ Place[n] > 0
      BY <1>0, <1>2, <2>1
    <3>2. Place[n + 1] = Base * Place[n] /\ Place[n] \in Nat
      BY <3>1, PlaceDef
    <3>3. \A x \in Nat : x > 0 => Base * x > 0
      BY <1>0
    <3> QED BY <3>1, <3>2, <3>3
  <2> QED BY <2>1
<1>3. Nat \subseteq T
  <2> HIDE DEF T
  <2> QED BY <1>1, <1>2, SetInduction
<1> QED BY <1>0, <1>3, PlaceDef

\* The value of a prefix, digit by digit.
LEMMA LengthDef ==
  ASSUME NEW bytes \in Seq(Nat)
  PROVE  \E v \in [0..Len(bytes) -> Nat] :
           /\ v[0] = 0
           /\ \A n \in 1..Len(bytes) : v[n] = v[n - 1] * Base + bytes[n]
           /\ Length(bytes) = v[Len(bytes)]
<1> DEFINE N == Len(bytes)
           step == [n \in 1..N |-> [x \in Nat |-> x * Base + bytes[n]]]
           Fixed(g) == g = [n \in 0..N |-> IF n = 0 THEN 0 ELSE g[n - 1] * Base + bytes[n]]
<1>0. N \in Nat /\ Base \in Nat /\ \A n \in 1..N : bytes[n] \in Nat
  BY CodecAssumption
<1>1. step \in [1..N -> [Nat -> Nat]]
  <2>1. ASSUME NEW n \in 1..N, NEW x \in Nat PROVE x * Base + bytes[n] \in Nat
    <3>1. x * Base \in Nat /\ bytes[n] \in Nat
      BY <1>0
    <3> QED BY <3>1
  <2> HIDE DEF N
  <2> QED BY <2>1
<1> HIDE DEF N
<1>2. PICK g \in [0..N -> Nat] : g[0] = 0 /\ \A n \in 1..N : g[n] = step[n][g[n - 1]]
  <2> HIDE DEF step
  <2>1. \E g : Solves(g, Nat, 0, N, step)
    BY <1>0, <1>1, Recursion
  <2> QED BY <2>1 DEF Solves
<1>3. ASSUME NEW n \in 1..N PROVE g[n] = g[n - 1] * Base + bytes[n]
  <2>1. g[n - 1] \in Nat
    BY <1>0, <1>2
  <2> QED BY <1>2, <2>1
<1>4. \A n \in 0..N : g[n] = IF n = 0 THEN 0 ELSE g[n - 1] * Base + bytes[n]
  BY <1>0, <1>2, <1>3
<1>5. Fixed(g)
  BY <1>4
<1>6. ASSUME NEW h, Fixed(h) PROVE h = g
  <2> DEFINE T == {n \in Nat : n <= N => h[n] = g[n]}
  <2>1. /\ DOMAIN h = 0..N /\ h[0] = 0
        /\ \A n \in 1..N : h[n] = h[n - 1] * Base + bytes[n]
    BY <1>0, <1>6
  <2>2. 0 \in T
    BY <1>2, <2>1
  <2>3. ASSUME NEW n \in Nat, n \in T PROVE n + 1 \in T
    <3>1. CASE n + 1 <= N
      <4>1. n + 1 \in 1..N /\ (n + 1) - 1 = n /\ h[n] = g[n]
        BY <1>0, <2>3, <3>1
      <4>2. h[n + 1] = h[n] * Base + bytes[n + 1] /\ g[n + 1] = g[n] * Base + bytes[n + 1]
        BY <1>3, <2>1, <4>1
      <4> QED BY <4>1, <4>2
    <3> QED BY <3>1
  <2>4. Nat \subseteq T
    <3> HIDE DEF T
    <3> QED BY <2>2, <2>3, SetInduction
  <2>5. \A n \in 0..N : h[n] = g[n]
    BY <1>0, <2>4
  <2>6. h = [n \in 0..N |-> h[n]]
    BY <1>6
  <2> QED BY <2>5, <2>6
<1>7. Length(bytes) = (CHOOSE h : Fixed(h))[N]
  BY DEF Length, N
<1>8. (CHOOSE h : Fixed(h)) = g
  <2> HIDE DEF Fixed
  <2> QED BY <1>5, <1>6
<1>9. Length(bytes) = g[N]
  BY <1>7, <1>8
<1> QED BY <1>2, <1>3, <1>9 DEF N

\* Quotients by consecutive places, from the right: what from_be_bytes puts together
\* is what to_be_bytes took apart, digit by digit.
LEMMA Digits ==
  ASSUME NEW len \in Nat, NEW p \in Nat \ {0}
  PROVE  /\ len \div p \in Nat
         /\ (len \div p) % Base \in Nat
         /\ (len \div (Base * p)) * Base + ((len \div p) % Base) = len \div p
<1>0. Base \in Nat \ {0}
  BY CodecAssumption
<1> DEFINE q == len \div p
<1>1. q \in Nat
  OBVIOUS
<1>2. len \div (Base * p) = q \div Base
  BY <1>0
<1> HIDE DEF q
<1>3. (q \div Base) * Base + (q % Base) = q /\ q % Base \in Nat
  BY <1>0, <1>1
<1> QED BY <1>1, <1>2, <1>3 DEF q

\* The bytes of a prefix.
LEMMA HeaderType ==
  ASSUME NEW len \in Nat
  PROVE  Header(len) \in Seq(Nat) /\ Len(Header(len)) = HeaderBytes
<1>1. HeaderBytes \in Nat
  BY CodecAssumption
<1>2. ASSUME NEW k \in 1..HeaderBytes PROVE (len \div Place[HeaderBytes - k]) % Base \in Nat
  <2>1. Place[HeaderBytes - k] \in Nat \ {0}
    BY <1>1, PlacePositive
  <2> QED BY <2>1, Digits
<1> QED BY <1>1, <1>2 DEF Header

\* A length that the prefix can hold comes back as it was.
LEMMA LengthOfHeader ==
  ASSUME NEW len \in Nat
  PROVE  /\ Length(Header(len)) \in Nat
         /\ len < Place[HeaderBytes] => Length(Header(len)) = len
<1> DEFINE H == HeaderBytes
           bytes == Header(len)
<1>0. H \in Nat /\ Base \in Nat \ {0} /\ bytes \in Seq(Nat) /\ Len(bytes) = H
  BY CodecAssumption, HeaderType
<1>1. \A k \in 1..H : bytes[k] = (len \div Place[H - k]) % Base
  BY DEF Header
<1> HIDE DEF bytes
<1>2. PICK v \in [0..H -> Nat] : /\ v[0] = 0
                                 /\ \A n \in 1..H : v[n] = v[n - 1] * Base + bytes[n]
                                 /\ Length(bytes) = v[H]
  BY <1>0, LengthDef
<1>3. ASSUME len < Place[H] PROVE Length(bytes) = len
  <2> DEFINE T == {n \in Nat : n <= H => v[n] = len \div Place[H - n]}
  <2>1. 0 \in T
    <3>1. H - 0 = H /\ Place[H] \in Nat \ {0}
      BY <1>0, PlacePositive
    <3>2. len \div Place[H] = 0
      BY <1>3, <3>1
    <3> QED BY <1>2, <3>1, <3>2
  <2>2. ASSUME NEW n \in Nat, n \in T PROVE n + 1 \in T
    <3> SUFFICES ASSUME n + 1 <= H PROVE v[n + 1] = len \div Place[H - (n + 1)]
      OBVIOUS
    <3>1. /\ n + 1 \in 1..H /\ (n + 1) - 1 = n /\ n <= H
          /\ H - n \in 1..H /\ (H - n) - 1 = H - (n + 1)
          /\ H - (n + 1) \in 0..H
      BY <1>0
    <3> DEFINE p == Place[H - (n + 1)]
    <3>2. Place[H - n] = Base * p /\ p \in Nat \ {0}
      BY <3>1, PlaceDef, PlacePositive
    <3>3. v[n] = len \div (Base * p)
      BY <2>2, <3>1, <3>2
    <3>4. v[n + 1] = v[n] * Base + ((len \div p) % Base)
      BY <1>1, <1>2, <3>1
    <3> HIDE DEF p
    <3>5. v[n + 1] = len \div p
      BY <3>2, <3>3, <3>4, Digits
    <3> QED BY <3>5 DEF p
  <2>3. H \in T
    <3> HIDE DEF T
    <3> QED BY <1>0, <2>1, <2>2, SetInduction
  <2>4. v[H] = len \div Place[0]
    <3>1. H - H = 0 /\ H <= H
      BY <1>0
    <3> QED BY <2>3, <3>1
  <2> QED BY <1>2, <2>4, PlaceDef
<1> QED BY <1>0, <1>2, <1>3 DEF bytes

-----------------------------------------------------------------------------
(***************************************************************************)
(* The stream: all the bytes of the first n calls of send_json, and pieces *)
(* of it.                                                                  *)
(***************************************************************************)
Byte == Nat \cup (Nat \X Nat)

Frame(m, i) == Header(m[i]) \o [k \in 1..m[i] |-> <<i, k>>]

Stream(m) ==
  LET bytes[n \in 0..Len(m)] == IF n = 0 THEN <<>> ELSE bytes[n - 1] \o Frame(m, n)
  IN  bytes

\* Sequence s is the piece of stream F after its first a bytes.
IsPiece(s, F, a) ==
  /\ a + Len(s) <= Len(F)
  /\ \A k \in 1..Len(s) : s[k] = F[a + k]

Lengths == Seq(Nat \ {0})

\* A frame is the prefix and then the payload's bytes.
LEMMA FrameBytes ==
  ASSUME NEW m \in Lengths, NEW i \in 1..Len(m)
  PROVE  /\ m[i] \in Nat /\ m[i] > 0
         /\ Frame(m, i) \in Seq(Byte)
         /\ Len(Frame(m, i)) = HeaderBytes + m[i]
         /\ \A k \in 1..HeaderBytes : Frame(m, i)[k] = Header(m[i])[k]
         /\ \A k \in 1..m[i] : Frame(m, i)[HeaderBytes + k] = <<i, k>>
<1> DEFINE body == [k \in 1..m[i] |-> <<i, k>>]
<1>1. m[i] \in Nat /\ m[i] > 0 /\ i \in Nat /\ HeaderBytes \in Nat
  BY CodecAssumption DEF Lengths
<1>2. body \in Seq(Byte) /\ Len(body) = m[i]
  <2>1. \A k \in 1..m[i] : <<i, k>> \in Byte
    BY <1>1 DEF Byte
  <2> QED BY <1>1, <2>1
<1>3. Header(m[i]) \in Seq(Byte) /\ Len(Header(m[i])) = HeaderBytes
  <2>1. Header(m[i]) \in Seq(Nat) /\ Len(Header(m[i])) = HeaderBytes
    BY <1>1, HeaderType
  <2> QED BY <2>1 DEF Byte
<1>4. \A k \in 1..m[i] : body[k] = <<i, k>>
  OBVIOUS
<1>5. Frame(m, i) = Header(m[i]) \o body
  BY DEF Frame
<1> HIDE DEF body
<1>6. \A k \in 1..m[i] : HeaderBytes + k \in (HeaderBytes + 1)..(HeaderBytes + m[i])
                        /\ (HeaderBytes + k) - HeaderBytes = k
  BY <1>1
<1>7. \A k \in 1..m[i] : (Header(m[i]) \o body)[HeaderBytes + k] = body[k]
  BY <1>1, <1>2, <1>3, <1>6
<1>8. \A k \in 1..HeaderBytes : (Header(m[i]) \o body)[k] = Header(m[i])[k]
  BY <1>1, <1>2, <1>3
<1>9. Header(m[i]) \o body \in Seq(Byte) /\ Len(Header(m[i]) \o body) = HeaderBytes + m[i]
  BY <1>1, <1>2, <1>3
<1> QED BY <1>1, <1>4, <1>5, <1>7, <1>8, <1>9, Zenon

\* The stream's recursion.
LEMMA StreamDef ==
  ASSUME NEW m \in Lengths
  PROVE  /\ Stream(m) \in [0..Len(m) -> Seq(Byte)]
         /\ Stream(m)[0] = <<>>
         /\ \A n \in 1..Len(m) : Stream(m)[n] = Stream(m)[n - 1] \o Frame(m, n)
<1> DEFINE N == Len(m)
           S == Seq(Byte)
           step == [n \in 1..N |-> [x \in S |-> x \o Frame(m, n)]]
           Fixed(g) == g = [n \in 0..N |-> IF n = 0 THEN <<>> ELSE g[n - 1] \o Frame(m, n)]
<1>0. N \in Nat /\ <<>> \in S
  BY DEF Lengths
<1>1. step \in [1..N -> [S -> S]]
  <2>1. ASSUME NEW n \in 1..N, NEW x \in S PROVE x \o Frame(m, n) \in S
    BY FrameBytes
  <2> HIDE DEF N, S
  <2> QED BY <2>1
<1> HIDE DEF N, S
<1>2. PICK g \in [0..N -> S] : g[0] = <<>> /\ \A n \in 1..N : g[n] = step[n][g[n - 1]]
  <2> HIDE DEF step
  <2>1. \E g : Solves(g, S, <<>>, N, step)
    BY <1>0, <1>1, Recursion
  <2> QED BY <2>1 DEF Solves
<1>3. ASSUME NEW n \in 1..N PROVE g[n] = g[n - 1] \o Frame(m, n)
  <2>1. g[n - 1] \in S
    BY <1>0, <1>2
  <2> QED BY <1>2, <2>1
<1>4. \A n \in 0..N : g[n] = IF n = 0 THEN <<>> ELSE g[n - 1] \o Frame(m, n)
  BY <1>0, <1>2, <1>3
<1>5. Fixed(g)
  BY <1>4
<1>6. ASSUME NEW h, Fixed(h) PROVE h = g
  <2> DEFINE T == {n \in Nat : n <= N => h[n] = g[n]}
  <2>1. /\ DOMAIN h = 0..N /\ h[0] = <<>>
        /\ \A n \in 1..N : h[n] = h[n - 1] \o Frame(m, n)
    <3>1. DOMAIN h = 0..N
          /\ \A n \in 0..N : h[n] = IF n = 0 THEN <<>> ELSE h[n - 1] \o Frame(m, n)
      BY <1>6, Zenon
    <3>2. 0 \in 0..N /\ \A n \in 1..N : n \in 0..N /\ n # 0
      BY <1>0
    <3> QED BY <3>1, <3>2, Zenon
  <2>2. 0 \in T
    BY <1>2, <2>1
  <2>3. ASSUME NEW n \in Nat, n \in T PROVE n + 1 \in T
    <3>1. CASE n + 1 <= N
      <4>1. n + 1 \in 1..N /\ (n + 1) - 1 = n /\ h[n] = g[n]
        BY <1>0, <2>3, <3>1
      <4>2. h[n + 1] = h[n] \o Frame(m, n + 1) /\ g[n + 1] = g[n] \o Frame(m, n + 1)
        BY <1>3, <2>1, <4>1
      <4>3. h[n + 1] = g[n + 1]
        BY <4>1, <4>2, Zenon
      <4> QED BY <4>3
    <3> QED BY <3>1
  <2>4. Nat \subseteq T
    <3> HIDE DEF T
    <3> QED BY <2>2, <2>3, SetInduction
  <2>5. \A n \in 0..N : h[n] = g[n]
    BY <1>0, <2>4
  <2>6. h = [n \in 0..N |-> h[n]]
    BY <1>6
  <2> QED BY <2>5, <2>6
<1>7. Stream(m) = CHOOSE h : Fixed(h)
  BY DEF Stream, N
<1>8. (CHOOSE h : Fixed(h)) = g
  <2> HIDE DEF Fixed
  <2> QED BY <1>5, <1>6
<1> QED BY <1>2, <1>3, <1>7, <1>8 DEF N, S

\* Pieces that follow each other make one piece.
LEMMA JoinPieces ==
  ASSUME NEW S, NEW s \in Seq(S), NEW t \in Seq(S), NEW F \in Seq(S), NEW a \in Nat,
         IsPiece(s, F, a), IsPiece(t, F, a + Len(s))
  PROVE  IsPiece(s \o t, F, a)
<1>1. s \o t \in Seq(S) /\ Len(s \o t) = Len(s) + Len(t) /\ Len(s) \in Nat /\ Len(t) \in Nat
      /\ Len(F) \in Nat
  OBVIOUS
<1>2. ASSUME NEW k \in 1..Len(s \o t) PROVE (s \o t)[k] = F[a + k]
  <2>1. CASE k \in 1..Len(s)
    BY <2>1 DEF IsPiece
  <2>2. CASE k \notin 1..Len(s)
    <3>1. k - Len(s) \in 1..Len(t) /\ (a + Len(s)) + (k - Len(s)) = a + k
      BY <1>1, <2>2
    <3>2. (s \o t)[k] = t[k - Len(s)]
      BY <1>1, <2>2
    <3> QED BY <3>1, <3>2 DEF IsPiece
  <2> QED BY <2>1, <2>2
<1> QED BY <1>1, <1>2 DEF IsPiece

\* A piece can be cut anywhere.
LEMMA CutPiece ==
  ASSUME NEW S, NEW s \in Seq(S), NEW F \in Seq(S), NEW a \in Nat, IsPiece(s, F, a),
         NEW n \in 0..Len(s)
  PROVE  /\ SubSeq(s, 1, n) \in Seq(S) /\ Len(SubSeq(s, 1, n)) = n
         /\ SubSeq(s, n + 1, Len(s)) \in Seq(S)
         /\ Len(SubSeq(s, n + 1, Len(s))) = Len(s) - n
         /\ IsPiece(SubSeq(s, 1, n), F, a)
         /\ IsPiece(SubSeq(s, n + 1, Len(s)), F, a + n)
<1>1. /\ Len(s) \in Nat /\ Len(F) \in Nat
      /\ SubSeq(s, 1, n) \in Seq(S) /\ Len(SubSeq(s, 1, n)) = n
      /\ SubSeq(s, n + 1, Len(s)) \in Seq(S)
      /\ Len(SubSeq(s, n + 1, Len(s))) = Len(s) - n
  OBVIOUS
<1>2. \A k \in 1..n : SubSeq(s, 1, n)[k] = s[k]
  BY <1>1
<1>3. ASSUME NEW k \in 1..(Len(s) - n)
      PROVE  SubSeq(s, n + 1, Len(s))[k] = s[n + k]
  BY <1>1
<1>4. IsPiece(SubSeq(s, 1, n), F, a)
  BY <1>1, <1>2 DEF IsPiece
<1>5. IsPiece(SubSeq(s, n + 1, Len(s)), F, a + n)
  <2>1. ASSUME NEW k \in 1..(Len(s) - n) PROVE s[n + k] = F[(a + n) + k]
    <3>1. n + k \in 1..Len(s) /\ a + (n + k) = (a + n) + k
      BY <1>1
    <3> QED BY <3>1 DEF IsPiece
  <2>2. (a + n) + (Len(s) - n) <= Len(F)
    BY <1>1 DEF IsPiece
  <2> QED BY <1>1, <1>3, <2>1, <2>2 DEF IsPiece
<1> QED BY <1>1, <1>4, <1>5

\* A piece stays one when the stream grows.
LEMMA GrowStream ==
  ASSUME NEW S, NEW s \in Seq(S), NEW F \in Seq(S), NEW G \in Seq(S), NEW a \in Nat,
         IsPiece(s, F, a)
  PROVE  IsPiece(s, F \o G, a)
<1>1. Len(F \o G) = Len(F) + Len(G) /\ Len(F) \in Nat /\ Len(G) \in Nat /\ Len(s) \in Nat
  OBVIOUS
<1>2. ASSUME NEW k \in 1..Len(s) PROVE (F \o G)[a + k] = F[a + k]
  <2>1. a + k \in 1..Len(F)
    BY <1>1 DEF IsPiece
  <2> QED BY <2>1
<1> QED BY <1>1, <1>2 DEF IsPiece

\* What is appended to a stream is a piece of it.
LEMMA AppendedPiece ==
  ASSUME NEW S, NEW F \in Seq(S), NEW G \in Seq(S)
  PROVE  IsPiece(G, F \o G, Len(F))
<1>1. Len(F \o G) = Len(F) + Len(G) /\ Len(F) \in Nat /\ Len(G) \in Nat
  OBVIOUS
<1>2. ASSUME NEW k \in 1..Len(G) PROVE (F \o G)[Len(F) + k] = G[k]
  <2>1. Len(F) + k \in (Len(F) + 1)..(Len(F) + Len(G)) /\ (Len(F) + k) - Len(F) = k
    BY <1>1
  <2> QED BY <1>1, <2>1
<1> QED BY <1>1, <1>2 DEF IsPiece

\* Each frame of a stream begins where the earlier ones end.
LEMMA FrameAt ==
  ASSUME NEW m \in Lengths, NEW p \in 0..Len(m), NEW n \in 0..(p - 1)
  PROVE  /\ Len(Stream(m)[n + 1]) = Len(Stream(m)[n]) + HeaderBytes + m[n + 1]
         /\ IsPiece(Frame(m, n + 1), Stream(m)[p], Len(Stream(m)[n]))
<1> DEFINE a == Len(Stream(m)[n])
           T == {d \in Nat : n + 1 + d <= Len(m) =>
                               IsPiece(Frame(m, n + 1), Stream(m)[n + 1 + d], a)}
<1>0. /\ Len(m) \in Nat /\ n \in Nat /\ p \in Nat /\ HeaderBytes \in Nat
      /\ n + 1 \in 1..Len(m) /\ (n + 1) - 1 = n
      /\ n \in 0..Len(m) /\ n + 1 \in 0..Len(m)
  BY CodecAssumption DEF Lengths
<1>1. /\ Frame(m, n + 1) \in Seq(Byte) /\ Len(Frame(m, n + 1)) = HeaderBytes + m[n + 1]
      /\ m[n + 1] \in Nat
  BY <1>0, FrameBytes
<1>2. Stream(m)[n] \in Seq(Byte) /\ Stream(m)[n + 1] = Stream(m)[n] \o Frame(m, n + 1)
  BY <1>0, StreamDef
<1>3. Len(Stream(m)[n] \o Frame(m, n + 1)) = a + Len(Frame(m, n + 1)) /\ a \in Nat
  BY <1>1, <1>2
<1>4. IsPiece(Frame(m, n + 1), Stream(m)[n + 1], a)
  BY <1>1, <1>2, AppendedPiece
<1>5. 0 \in T
  BY <1>0, <1>4
<1>6. ASSUME NEW d \in Nat, d \in T PROVE d + 1 \in T
  <2> SUFFICES ASSUME n + 1 + (d + 1) <= Len(m)
               PROVE  IsPiece(Frame(m, n + 1), Stream(m)[n + 1 + (d + 1)], a)
    OBVIOUS
  <2> DEFINE e == n + 1 + d
  <2>1. /\ e \in 0..Len(m) /\ e + 1 \in 1..Len(m) /\ (e + 1) - 1 = e
        /\ n + 1 + (d + 1) = e + 1 /\ e <= Len(m)
    BY <1>0
  <2>2. IsPiece(Frame(m, n + 1), Stream(m)[e], a)
    BY <1>6, <2>1
  <2> HIDE DEF e
  <2>3. /\ Stream(m)[e + 1] = Stream(m)[e] \o Frame(m, e + 1)
        /\ Stream(m)[e] \in Seq(Byte) /\ Frame(m, e + 1) \in Seq(Byte)
    BY <2>1, StreamDef, FrameBytes
  <2> HIDE DEF a
  <2>4. IsPiece(Frame(m, n + 1), Stream(m)[e] \o Frame(m, e + 1), a)
    BY <1>1, <1>3, <2>2, <2>3, GrowStream
  <2> QED BY <2>1, <2>3, <2>4
<1>7. p - (n + 1) \in T
  <2> HIDE DEF T
  <2>1. p - (n + 1) \in Nat
    BY <1>0
  <2> QED BY <1>5, <1>6, <2>1, SetInduction
<1>8. n + 1 + (p - (n + 1)) = p /\ p <= Len(m)
  BY <1>0
<1> HIDE DEF a
<1>9. IsPiece(Frame(m, n + 1), Stream(m)[p], a)
  BY <1>7, <1>8
<1>10. Len(Stream(m)[n + 1]) = a + HeaderBytes + m[n + 1]
  <2>1. Len(Stream(m)[n + 1]) = a + (HeaderBytes + m[n + 1])
    BY <1>1, <1>2, <1>3, Zenon DEF a
  <2>2. a \in Nat
    BY <1>3 DEF a
  <2> QED BY <1>0, <1>1, <2>1, <2>2
<1> QED BY <1>9, <1>10 DEF a

-----------------------------------------------------------------------------
(***************************************************************************)
(* The inductive invariant. As long as recv_json has not failed, what the  *)
(* reader has, what the stream holds and what the kernel has not taken     *)
(* follow each other in the bytes of all calls of send_json, and the       *)
(* reader's buffer begins at a frame or right after a prefix.              *)
(***************************************************************************)
Follow(F, a, b, w, p) ==
  /\ IsPiece(b, F, a)
  /\ IsPiece(w, F, a + Len(b))
  /\ IsPiece(p, F, a + Len(b) + Len(w))

All(a, b, w, p) == a + Len(b) + Len(w) + Len(p)

\* Where the buffer begins, when n messages were received.
Begin(m, n, state) == Len(Stream(m)[n]) + IF state = "payload" THEN HeaderBytes ELSE 0

Typed ==
  /\ TypeOK
  /\ buf \in Seq(Byte) /\ wire \in Seq(Byte) /\ pending \in Seq(Byte)

Expected ==
  reader # "failed" =>
    /\ Len(got) <= sent
    /\ reader = "header" => want = HeaderBytes
    /\ reader = "payload" => /\ Len(got) < sent
                             /\ want = Length(Header(msgs[Len(got) + 1]))
                             /\ want <= MaxMsgBytes

Aligned ==
  reader # "failed" =>
    /\ Follow(Stream(msgs)[sent], Begin(msgs, Len(got), reader), buf, wire, pending)
    /\ sender = "open" =>
         All(Begin(msgs, Len(got), reader), buf, wire, pending) = Len(Stream(msgs)[sent])

IInv == Typed /\ Expected /\ Aligned /\ WholeInOrder /\ FailsForCause

\* What the proofs below use of a state's types.
LEMMA Types ==
  ASSUME Typed
  PROVE  /\ msgs \in Messages /\ msgs \in Lengths /\ Len(msgs) \in Nat
         /\ sent \in Nat /\ sent <= Len(msgs)
         /\ want \in Nat /\ HeaderBytes \in Nat /\ HeaderBytes > 0 /\ MaxMsgBytes \in Nat
         /\ Len(buf) \in Nat /\ Len(buf) <= want
         /\ got \in Seq(1..Len(msgs)) /\ Len(got) \in Nat
         /\ Stream(msgs)[sent] \in Seq(Byte) /\ Len(Stream(msgs)[sent]) \in Nat
<1>1. msgs \in Messages /\ msgs \in Lengths
  BY CodecAssumption DEF Typed, TypeOK, Lengths
<1>2. Len(msgs) \in Nat
  BY <1>1 DEF Lengths
<1>3. Stream(msgs) \in [0..Len(msgs) -> Seq(Byte)]
  BY <1>1, StreamDef
<1>4. sent \in 0..Len(msgs)
  BY DEF Typed, TypeOK
<1>5. Stream(msgs)[sent] \in Seq(Byte)
  BY <1>3, <1>4
<1>6. Len(Stream(msgs)[sent]) \in Nat
  BY <1>5
<1>7. got \in Seq(1..Len(msgs)) /\ Len(got) \in Nat
  BY DEF Typed, TypeOK
<1>8. HeaderBytes \in Nat /\ HeaderBytes > 0 /\ MaxMsgBytes \in Nat
  BY CodecAssumption
<1>9. want \in Nat /\ Len(buf) \in Nat /\ Len(buf) <= want
  BY <1>8 DEF Typed, TypeOK
<1> QED BY <1>1, <1>2, <1>4, <1>5, <1>6, <1>7, <1>8, <1>9

\* The buffer begins at a place of the stream.
LEMMA BeginType ==
  ASSUME NEW m \in Lengths, NEW n \in 0..Len(m), NEW state
  PROVE  Len(Stream(m)[n]) \in Nat /\ Begin(m, n, state) \in Nat
<1>1. Stream(m)[n] \in Seq(Byte)
  BY StreamDef
<1>2. HeaderBytes \in Nat
  BY CodecAssumption
<1>3. Len(Stream(m)[n]) \in Nat
  BY <1>1
<1>4. CASE state = "payload"
  BY <1>2, <1>3, <1>4 DEF Begin
<1>5. CASE state # "payload"
  BY <1>3, <1>5 DEF Begin
<1> QED BY <1>3, <1>4, <1>5

\* The empty sequence is a piece anywhere in the stream.
LEMMA EmptyPiece ==
  ASSUME NEW F \in Seq(Byte), NEW a \in Nat, a <= Len(F)
  PROVE  IsPiece(<<>>, F, a)
BY DEF IsPiece

\* Nothing was sent and nothing is in the stream.
LEMMA InitIInv == Init => IInv
<1> SUFFICES ASSUME Init PROVE IInv
  OBVIOUS
<1> USE DEF Init
<1>1. Typed
  <2>1. msgs \in Lengths /\ Len(msgs) \in Nat /\ HeaderBytes \in Nat
    BY CodecAssumption DEF Lengths
  <2> QED BY <2>1 DEF Typed, TypeOK
<1>2. Expected
  BY DEF Expected
<1>3. Aligned
  <2>1. Stream(msgs)[0] = <<>>
    BY <1>1, Types, StreamDef
  <2> QED BY <2>1 DEF Aligned, Follow, All, Begin, IsPiece
<1>4. WholeInOrder /\ FailsForCause
  BY DEF WholeInOrder, FailsForCause
<1> QED BY <1>1, <1>2, <1>3, <1>4 DEF IInv

\* Where the reader's buffer begins, before it fails.
LEMMA BeginIs ==
  ASSUME Typed, Expected, reader # "failed"
  PROVE  /\ Len(got) \in 0..Len(msgs)
         /\ Begin(msgs, Len(got), reader) \in Nat
         /\ Len(Stream(msgs)[Len(got)]) \in Nat
<1>1. Len(got) \in 0..Len(msgs) /\ msgs \in Lengths
  BY Types DEF Expected
<1> QED BY <1>1, BeginType

\* Steps that leave the reader's place alone keep what it expects.
LEMMA ExpectedKept ==
  ASSUME Typed, Expected, sent' \in Nat, sent <= sent', UNCHANGED <<msgs, reader, want, got>>
  PROVE  Expected'
BY Types DEF Expected

\* Steps of the sender do not make the reader fail, nor unmake a cause.
LEMMA CauseKept ==
  ASSUME Typed, FailsForCause, sent' \in Nat, sent <= sent',
         sender' = sender \/ sender' = "closed", UNCHANGED <<msgs, reader>>
  PROVE  FailsForCause'
BY Types DEF FailsForCause, Fits

\* send_json adds a frame to the stream.
LEMMA SendStep == IInv /\ Send => IInv'
<1> SUFFICES ASSUME IInv, Send PROVE IInv'
  OBVIOUS
<1> USE DEF IInv
<1> DEFINE F == Stream(msgs)[sent]
           G == Frame(msgs, sent + 1)
<1>0. /\ msgs \in Lengths /\ sent \in Nat /\ Len(msgs) \in Nat
      /\ sent + 1 \in 1..Len(msgs) /\ (sent + 1) - 1 = sent /\ sent + 1 \in 0..Len(msgs)
  BY Types DEF Send
<1>1. /\ pending' = G /\ sent' = sent + 1 /\ sender = "open" /\ pending = <<>>
      /\ UNCHANGED <<msgs, wire, sender, reader, want, buf, got>>
  BY DEF Send, Payload, Frame
<1>2. F \in Seq(Byte) /\ G \in Seq(Byte) /\ Stream(msgs)[sent + 1] = F \o G
      /\ Len(F) \in Nat /\ Len(G) \in Nat /\ Len(F \o G) = Len(F) + Len(G)
  <2>1. F \in Seq(Byte)
    BY Types
  <2>2. G \in Seq(Byte)
    BY <1>0, FrameBytes
  <2>3. Stream(msgs)[sent + 1] = F \o G
    BY <1>0, StreamDef
  <2> HIDE DEF F, G
  <2> QED BY <2>1, <2>2, <2>3
<1>3. Typed'
  BY <1>0, <1>1, <1>2 DEF Typed, TypeOK
<1>4. Expected'
  BY <1>0, <1>1, ExpectedKept
<1>5. FailsForCause'
  BY <1>0, <1>1, CauseKept
<1>6. WholeInOrder'
  BY <1>1 DEF WholeInOrder, Fits
<1>7. Aligned'
  <2> SUFFICES ASSUME reader # "failed"
               PROVE  LET a == Begin(msgs, Len(got), reader) IN
                      /\ Follow(F \o G, a, buf, wire, G)
                      /\ All(a, buf, wire, G) = Len(F \o G)
    BY <1>1, <1>2 DEF Aligned
  <2> DEFINE a == Begin(msgs, Len(got), reader)
  <2>1. Follow(F, a, buf, wire, pending) /\ All(a, buf, wire, pending) = Len(F)
    BY <1>1 DEF Aligned
  <2>2. a \in Nat /\ Len(buf) \in Nat /\ Len(wire) \in Nat
        /\ buf \in Seq(Byte) /\ wire \in Seq(Byte)
    <3>1. buf \in Seq(Byte) /\ wire \in Seq(Byte)
      BY DEF Typed
    <3> QED BY <3>1, BeginIs
  <2> HIDE DEF a, F, G
  <2>3. IsPiece(buf, F \o G, a) /\ IsPiece(wire, F \o G, a + Len(buf))
    BY <1>2, <2>1, <2>2, GrowStream DEF Follow
  <2>4. a + Len(buf) + Len(wire) = Len(F)
    BY <1>1, <2>1, <2>2 DEF All
  <2>5. IsPiece(G, F \o G, a + Len(buf) + Len(wire))
    BY <1>2, <2>4, AppendedPiece
  <2> QED BY <1>2, <2>3, <2>4, <2>5 DEF Follow, All, a
<1> QED BY <1>3, <1>4, <1>5, <1>6, <1>7

\* The kernel takes bytes from the front of what is pending.
LEMMA WriteStep == IInv /\ Write => IInv'
<1> SUFFICES ASSUME IInv, Write PROVE IInv'
  OBVIOUS
<1> USE DEF IInv
<1> DEFINE F == Stream(msgs)[sent]
           a == Begin(msgs, Len(got), reader)
<1>0. /\ buf \in Seq(Byte) /\ wire \in Seq(Byte) /\ pending \in Seq(Byte)
      /\ Len(buf) \in Nat /\ Len(wire) \in Nat /\ Len(pending) \in Nat
  BY DEF Typed
<1>1. PICK n \in 1..Len(pending) : /\ wire' = wire \o SubSeq(pending, 1, n)
                                   /\ pending' = SubSeq(pending, n + 1, Len(pending))
  BY DEF Write
<1>2. sender = "open" /\ UNCHANGED <<msgs, sent, sender, reader, want, buf, got>>
  BY DEF Write
<1> DEFINE p == SubSeq(pending, 1, n)
           q == SubSeq(pending, n + 1, Len(pending))
<1>3. p \in Seq(Byte) /\ q \in Seq(Byte) /\ Len(p) = n /\ Len(q) = Len(pending) - n /\ n \in Nat
  BY <1>0
<1>4. wire \o p \in Seq(Byte) /\ Len(wire \o p) = Len(wire) + n
  <2> HIDE DEF p
  <2> QED BY <1>0, <1>3
<1>5. Typed'
  BY <1>0, <1>1, <1>2, <1>3, <1>4 DEF Typed, TypeOK
<1>6. Expected' /\ FailsForCause' /\ WholeInOrder'
  <2>1. sent \in Nat /\ sent <= sent
    BY Types
  <2>2. Expected'
    BY <1>2, <2>1, ExpectedKept
  <2>3. FailsForCause'
    BY <1>2, <2>1, CauseKept
  <2> QED BY <1>2, <2>2, <2>3 DEF WholeInOrder, Fits
<1>7. Aligned'
  <2> SUFFICES ASSUME reader # "failed"
               PROVE  Follow(F, a, buf, wire \o p, q) /\ All(a, buf, wire \o p, q) = Len(F)
    BY <1>1, <1>2 DEF Aligned
  <2>1. Follow(F, a, buf, wire, pending) /\ All(a, buf, wire, pending) = Len(F)
    BY <1>2 DEF Aligned
  <2>2. a \in Nat /\ F \in Seq(Byte) /\ Len(F) \in Nat
    BY BeginIs, Types
  <2> HIDE DEF a, F
  <2>3. /\ IsPiece(p, F, a + Len(buf) + Len(wire))
        /\ IsPiece(q, F, a + Len(buf) + Len(wire) + n)
    BY <1>0, <2>1, <2>2, CutPiece DEF Follow
  <2> HIDE DEF p, q
  <2>4. IsPiece(wire \o p, F, a + Len(buf))
    <3>1. a + Len(buf) \in Nat /\ IsPiece(wire, F, a + Len(buf))
      BY <1>0, <2>1, <2>2 DEF Follow
    <3> QED BY <1>0, <1>3, <2>2, <2>3, <3>1, JoinPieces
  <2>5. a + Len(buf) + Len(wire) + n = a + Len(buf) + Len(wire \o p)
    BY <1>0, <1>3, <1>4, <2>2
  <2>6. All(a, buf, wire \o p, q) = All(a, buf, wire, pending)
    BY <1>0, <1>3, <1>4, <2>2 DEF All
  <2> QED BY <2>1, <2>3, <2>4, <2>5, <2>6 DEF Follow
<1> QED BY <1>5, <1>6, <1>7

\* The sender goes, and with it what it has not written, and perhaps the stream.
LEMMA HangUpStep == IInv /\ HangUp => IInv'
<1> SUFFICES ASSUME IInv, HangUp PROVE IInv'
  OBVIOUS
<1> USE DEF IInv
<1> DEFINE F == Stream(msgs)[sent]
           a == Begin(msgs, Len(got), reader)
<1>0. /\ buf \in Seq(Byte) /\ wire \in Seq(Byte)
      /\ Len(buf) \in Nat /\ Len(wire) \in Nat
  BY DEF Typed
<1>1. /\ UNCHANGED <<msgs, sent, reader, want, buf, got>> /\ sender' = "closed"
      /\ pending' = <<>> /\ (wire' = wire \/ wire' = <<>>)
  BY DEF HangUp
<1>2. Typed'
  <2>1. <<>> \in Seq(Byte)
    OBVIOUS
  <2>2. wire' \in Seq(Byte) /\ pending' \in Seq(Byte)
    BY <1>0, <1>1, <2>1, Zenon
  <2> QED BY <1>1, <2>2 DEF Typed, TypeOK
<1>3. Expected' /\ FailsForCause' /\ WholeInOrder'
  <2>1. sent \in Nat /\ sent <= sent
    BY Types
  <2>2. Expected'
    BY <1>1, <2>1, ExpectedKept
  <2>3. FailsForCause'
    BY <1>1, <2>1, CauseKept
  <2> QED BY <1>1, <2>2, <2>3 DEF WholeInOrder, Fits
<1>4. Aligned'
  <2> SUFFICES ASSUME reader # "failed"
               PROVE  Follow(F, a, buf, wire, <<>>) /\ Follow(F, a, buf, <<>>, <<>>)
    BY <1>1 DEF Aligned
  <2>1. Follow(F, a, buf, wire, pending)
    BY DEF Aligned
  <2>2. a \in Nat /\ F \in Seq(Byte) /\ Len(F) \in Nat
    BY BeginIs, Types
  <2> HIDE DEF a, F
  <2>3. /\ a + Len(buf) \in Nat /\ a + Len(buf) <= Len(F)
        /\ a + Len(buf) + Len(wire) \in Nat /\ a + Len(buf) + Len(wire) <= Len(F)
    BY <1>0, <2>1, <2>2 DEF Follow, IsPiece
  <2>4. IsPiece(<<>>, F, a + Len(buf)) /\ IsPiece(<<>>, F, a + Len(buf) + Len(wire))
    BY <2>2, <2>3, EmptyPiece
  <2>5. a + Len(buf) + Len(<<>>) = a + Len(buf)
    BY <1>0, <2>2
  <2> QED BY <2>1, <2>4, <2>5 DEF Follow
<1> QED BY <1>2, <1>3, <1>4

\* read_exact takes bytes from the front of the stream, never more than it wants.
LEMMA ReadStep == IInv /\ Read => IInv'
<1> SUFFICES ASSUME IInv, Read PROVE IInv'
  OBVIOUS
<1> USE DEF IInv
<1> DEFINE F == Stream(msgs)[sent]
           a == Begin(msgs, Len(got), reader)
<1>0. /\ buf \in Seq(Byte) /\ wire \in Seq(Byte) /\ pending \in Seq(Byte)
      /\ Len(buf) \in Nat /\ Len(wire) \in Nat /\ Len(pending) \in Nat
      /\ want \in Nat /\ Len(buf) <= want
  BY Types DEF Typed
<1>1. PICK n \in 1..(want - Len(buf)) : /\ n <= Len(wire)
                                        /\ buf' = buf \o SubSeq(wire, 1, n)
                                        /\ wire' = SubSeq(wire, n + 1, Len(wire))
  BY DEF Read
<1>2. reader # "failed" /\ UNCHANGED <<msgs, sent, pending, sender, reader, want, got>>
  BY DEF Read
<1> DEFINE p == SubSeq(wire, 1, n)
           q == SubSeq(wire, n + 1, Len(wire))
<1>3. p \in Seq(Byte) /\ q \in Seq(Byte) /\ Len(p) = n /\ Len(q) = Len(wire) - n /\ n \in Nat
      /\ n \in 0..Len(wire)
  BY <1>0, <1>1
<1>4. buf \o p \in Seq(Byte) /\ Len(buf \o p) = Len(buf) + n
  <2> HIDE DEF p
  <2> QED BY <1>0, <1>3
<1>5. Typed'
  <2>1. buf' \in Seq(Byte) /\ wire' \in Seq(Byte) /\ Len(buf') = Len(buf) + n
    BY <1>1, <1>3, <1>4, Zenon
  <2>2. Len(buf') \in 0..want
    BY <1>0, <1>1, <2>1
  <2> QED BY <1>2, <2>1, <2>2 DEF Typed, TypeOK
<1>6. Expected' /\ FailsForCause' /\ WholeInOrder'
  <2>1. sent \in Nat /\ sent <= sent
    BY Types
  <2>2. Expected'
    BY <1>2, <2>1, ExpectedKept
  <2>3. FailsForCause'
    BY <1>2, <2>1, CauseKept
  <2> QED BY <1>2, <2>2, <2>3 DEF WholeInOrder, Fits
<1>7. Aligned'
  <2> SUFFICES /\ Follow(F, a, buf \o p, q, pending)
               /\ sender = "open" => All(a, buf \o p, q, pending) = Len(F)
    BY <1>1, <1>2 DEF Aligned
  <2>1. /\ Follow(F, a, buf, wire, pending)
        /\ sender = "open" => All(a, buf, wire, pending) = Len(F)
    BY <1>2 DEF Aligned
  <2>2. a \in Nat /\ F \in Seq(Byte) /\ Len(F) \in Nat
    BY <1>2, BeginIs, Types
  <2> HIDE DEF a, F
  <2>3. a + Len(buf) \in Nat
    BY <1>0, <2>2
  <2>4. IsPiece(p, F, a + Len(buf)) /\ IsPiece(q, F, a + Len(buf) + n)
    BY <1>0, <1>3, <2>1, <2>2, <2>3, CutPiece DEF Follow
  <2> HIDE DEF p, q
  <2>5. IsPiece(buf \o p, F, a)
    BY <1>0, <1>3, <2>1, <2>2, <2>4, JoinPieces DEF Follow
  <2>6. /\ a + Len(buf) + n = a + Len(buf \o p)
        /\ a + Len(buf) + Len(wire) = a + Len(buf \o p) + Len(q)
    BY <1>0, <1>3, <1>4, <2>2
  <2>7. All(a, buf \o p, q, pending) = All(a, buf, wire, pending)
    BY <1>0, <1>3, <1>4, <2>2 DEF All
  <2> QED BY <2>1, <2>4, <2>5, <2>6, <2>7 DEF Follow
<1> QED BY <1>5, <1>6, <1>7

\* Once recv_json has failed, only what it returned and why it failed matters.
LEMMA FailStep ==
  ASSUME IInv, Expect("failed", 0), UNCHANGED <<msgs, sent, pending, wire, sender, got>>,
         sender = "closed" \/ \E i \in 1..sent : ~Fits(i)
  PROVE  IInv'
<1> USE DEF IInv
<1>1. reader' = "failed" /\ want' = 0 /\ buf' = <<>>
  BY DEF Expect
<1>2. Typed'
  <2>1. <<>> \in Seq(Byte) /\ Len(<<>>) = 0 /\ 0 \in 0..MaxMsgBytes /\ 0 \in 0..0
    BY CodecAssumption
  <2> QED BY <1>1, <2>1 DEF Typed, TypeOK
<1>3. Expected' /\ Aligned'
  BY <1>1 DEF Expected, Aligned
<1>4. WholeInOrder' /\ FailsForCause'
  BY DEF WholeInOrder, FailsForCause, Fits
<1> QED BY <1>2, <1>3, <1>4

\* A buffer in front of a frame that is not all read belongs to the next frame.
LEMMA NextFrame ==
  ASSUME IInv, reader # "failed", Len(got) < sent
  PROVE  LET n == Len(got) + 1 IN
         /\ n \in 1..Len(msgs) /\ n \in 1..sent /\ n - 1 = Len(got)
         /\ msgs[n] \in Nat /\ msgs[n] > 0
         /\ Len(Stream(msgs)[n]) = Len(Stream(msgs)[n - 1]) + HeaderBytes + msgs[n]
         /\ \A k \in 1..HeaderBytes :
              Stream(msgs)[sent][Len(Stream(msgs)[n - 1]) + k] = Header(msgs[n])[k]
         /\ \A k \in 1..msgs[n] :
              Stream(msgs)[sent][Len(Stream(msgs)[n - 1]) + HeaderBytes + k] = <<n, k>>
<1> USE DEF IInv
<1> DEFINE n == Len(got) + 1
           F == Stream(msgs)[sent]
           a == Len(Stream(msgs)[n - 1])
           G == Frame(msgs, n)
<1>0. /\ msgs \in Lengths /\ sent \in 0..Len(msgs) /\ n - 1 \in 0..(sent - 1)
      /\ n \in 1..Len(msgs) /\ n \in 1..sent /\ n - 1 = Len(got) /\ (n - 1) + 1 = n
      /\ HeaderBytes \in Nat
  BY Types
<1> HIDE DEF n
<1>1. /\ Len(Stream(msgs)[n]) = a + HeaderBytes + msgs[n]
      /\ IsPiece(G, F, a)
  <2>1. /\ Len(Stream(msgs)[(n - 1) + 1]) = a + HeaderBytes + msgs[(n - 1) + 1]
        /\ IsPiece(Frame(msgs, (n - 1) + 1), F, a)
    BY <1>0, FrameAt
  <2> QED BY <1>0, <2>1
<1>2. /\ msgs[n] \in Nat /\ msgs[n] > 0
      /\ Len(G) = HeaderBytes + msgs[n]
      /\ \A k \in 1..HeaderBytes : G[k] = Header(msgs[n])[k]
      /\ \A k \in 1..msgs[n] : G[HeaderBytes + k] = <<n, k>>
  BY <1>0, FrameBytes
<1>3. a \in Nat
  BY <1>0, BeginIs
<1> HIDE DEF a, F, G
<1>4. ASSUME NEW k \in 1..HeaderBytes PROVE F[a + k] = Header(msgs[n])[k]
  <2>1. k \in 1..Len(G)
    BY <1>0, <1>2
  <2> QED BY <1>1, <1>2, <2>1 DEF IsPiece
<1>5. ASSUME NEW k \in 1..msgs[n] PROVE F[a + HeaderBytes + k] = <<n, k>>
  <2>1. HeaderBytes + k \in 1..Len(G) /\ a + (HeaderBytes + k) = a + HeaderBytes + k
    BY <1>0, <1>2, <1>3
  <2> QED BY <1>1, <1>2, <2>1 DEF IsPiece
<1> QED BY <1>0, <1>1, <1>2, <1>4, <1>5 DEF n, a, F

\* A full header buffer is the prefix of the next frame, which was sent.
LEMMA FullHeader ==
  ASSUME IInv, reader = "header", Filled
  PROVE  Len(got) < sent /\ buf = Header(msgs[Len(got) + 1])
<1> USE DEF IInv
<1> DEFINE F == Stream(msgs)[sent]
           a == Len(Stream(msgs)[Len(got)])
           H == Header(msgs[Len(got) + 1])
<1>1. /\ a \in Nat /\ Len(F) \in Nat /\ Len(got) \in Nat /\ sent \in Nat /\ Len(got) <= sent
      /\ HeaderBytes \in Nat /\ HeaderBytes > 0 /\ buf \in Seq(Byte)
  BY BeginIs, Types DEF Expected, Typed
<1>2. Len(buf) = HeaderBytes
  BY DEF Filled, Expected
<1>3. IsPiece(buf, F, a)
  <2>1. Begin(msgs, Len(got), reader) = a + 0 /\ a + 0 = a
    BY <1>1 DEF Begin
  <2> QED BY <2>1 DEF Aligned, Follow
<1>4. Len(got) < sent
  <2>1. SUFFICES ASSUME Len(got) = sent PROVE FALSE
    BY <1>1
  <2>2. a = Len(F)
    BY <2>1
  <2> HIDE DEF a, F
  <2> QED BY <1>1, <1>2, <1>3, <2>2 DEF IsPiece
<1>5. /\ (Len(got) + 1) - 1 = Len(got) /\ msgs[Len(got) + 1] \in Nat
      /\ \A k \in 1..HeaderBytes : F[Len(Stream(msgs)[(Len(got) + 1) - 1]) + k] = H[k]
  BY <1>1, <1>4, NextFrame
<1>6. H \in Seq(Nat) /\ Len(H) = HeaderBytes
  BY <1>5, HeaderType
<1>7. \A k \in 1..HeaderBytes : F[a + k] = H[k]
  BY <1>5
<1> HIDE DEF a, F, H
<1>8. \A k \in 1..HeaderBytes : buf[k] = H[k]
  BY <1>2, <1>3, <1>7 DEF IsPiece
<1>9. buf = H
  BY <1>1, <1>2, <1>6, <1>8
<1> QED BY <1>4, <1>9 DEF H

\* A length within the limit is expected next; one above it is a failure for cause,
\* since a prefix within the limit is never a wrapped one's.
LEMMA HeaderReadStep == IInv /\ HeaderRead => IInv'
<1> SUFFICES ASSUME IInv, HeaderRead PROVE IInv'
  OBVIOUS
<1> DEFINE n == Len(got) + 1
           a == Len(Stream(msgs)[Len(got)])
           len == Length(Header(msgs[n]))
<1>0. reader = "header" /\ Filled /\ UNCHANGED <<msgs, sent, pending, wire, sender, got>>
  BY DEF HeaderRead
<1>1. Len(got) < sent /\ buf = Header(msgs[n])
  BY <1>0, FullHeader
<1>2. n \in 1..sent /\ msgs[n] \in Nat
  BY <1>0, <1>1, NextFrame
<1>3. len \in Nat /\ (msgs[n] < Place[HeaderBytes] => len = msgs[n])
  BY <1>2, LengthOfHeader
<1>4. IF Accepted(len) THEN Expect("payload", len) ELSE Expect("failed", 0)
  BY <1>1 DEF HeaderRead
<1> HIDE DEF len
<1>5. CASE ~Accepted(len)
  <2>1. ~Fits(n)
    <3>1. MaxMsgBytes \in Nat /\ Place[HeaderBytes] \in Nat /\ MaxMsgBytes < Place[HeaderBytes]
      BY CodecAssumption, PlacePositive
    <3> HIDE DEF n
    <3> QED BY <1>2, <1>3, <1>5, <3>1 DEF Fits, Accepted
  <2> QED BY <1>0, <1>2, <1>4, <1>5, <2>1, FailStep
<1>6. CASE Accepted(len)
  <2>1. reader' = "payload" /\ want' = len /\ buf' = <<>> /\ len <= MaxMsgBytes
    BY <1>4, <1>6 DEF Expect, Accepted
  <2>2. Typed'
    <3>1. <<>> \in Seq(Byte) /\ Len(<<>>) = 0 /\ len \in 0..MaxMsgBytes /\ 0 \in 0..len
      BY <1>3, <2>1, CodecAssumption
    <3> QED BY <1>0, <2>1, <3>1 DEF IInv, Typed, TypeOK
  <2>3. Expected'
    BY <1>0, <1>1, <2>1 DEF IInv, Expected, len
  <2>4. WholeInOrder' /\ FailsForCause'
    BY <1>0, <2>1 DEF IInv, WholeInOrder, FailsForCause, Fits
  <2>5. Aligned'
    <3> DEFINE F == Stream(msgs)[sent]
    <3>1. /\ a \in Nat /\ HeaderBytes \in Nat /\ F \in Seq(Byte) /\ Len(F) \in Nat
          /\ Len(wire) \in Nat /\ Len(pending) \in Nat /\ Len(buf) = HeaderBytes
      BY <1>0, BeginIs, Types DEF IInv, Typed, Filled, Expected
    <3>2. Begin(msgs, Len(got), "header") = a /\ Begin(msgs, Len(got), "payload") = a + HeaderBytes
      BY <3>1 DEF Begin
    <3>3. /\ Follow(F, a, buf, wire, pending)
          /\ sender = "open" => All(a, buf, wire, pending) = Len(F)
      BY <1>0, <3>2 DEF IInv, Aligned
    <3> SUFFICES /\ Follow(F, a + HeaderBytes, <<>>, wire, pending)
                 /\ sender = "open" => All(a + HeaderBytes, <<>>, wire, pending) = Len(F)
      BY <1>0, <2>1, <3>2 DEF Aligned
    <3> HIDE DEF a, F
    <3>4. /\ a + HeaderBytes + Len(<<>>) = a + Len(buf)
          /\ a + HeaderBytes + Len(<<>>) + Len(wire) = a + Len(buf) + Len(wire)
      BY <3>1
    <3>5. IsPiece(<<>>, F, a + HeaderBytes)
      <4>1. a + HeaderBytes <= Len(F) /\ a + HeaderBytes \in Nat
        BY <3>1, <3>3 DEF Follow, IsPiece
      <4> QED BY <3>1, <4>1, EmptyPiece
    <3> QED BY <3>3, <3>4, <3>5 DEF Follow, All
  <2> QED BY <2>2, <2>3, <2>4, <2>5 DEF IInv
<1> QED BY <1>5, <1>6

\* The payload buffer lies over the payload of the next frame.
LEMMA PayloadBytes ==
  ASSUME IInv, reader = "payload"
  PROVE  LET n == Len(got) + 1 IN
         \A k \in 1..Len(buf) : k <= msgs[n] => buf[k] = <<n, k>>
<1> DEFINE n == Len(got) + 1
           F == Stream(msgs)[sent]
           a == Len(Stream(msgs)[Len(got)])
<1>1. Len(got) < sent
  BY DEF IInv, Expected
<1>2. /\ n - 1 = Len(got) /\ msgs[n] \in Nat
      /\ \A k \in 1..msgs[n] : F[Len(Stream(msgs)[n - 1]) + HeaderBytes + k] = <<n, k>>
  BY <1>1, NextFrame
<1>3. IsPiece(buf, F, a + HeaderBytes) /\ Len(buf) \in Nat
  BY Types DEF IInv, Aligned, Follow, Begin
<1>4. \A k \in 1..msgs[n] : F[a + HeaderBytes + k] = <<n, k>>
  BY <1>2
<1> HIDE DEF n, F, a
<1>5. ASSUME NEW k \in 1..Len(buf), k <= msgs[n] PROVE buf[k] = <<n, k>>
  <2>1. k \in 1..msgs[n]
    BY <1>2, <1>3, <1>5
  <2> QED BY <1>3, <1>4, <2>1 DEF IsPiece
<1> QED BY <1>5 DEF n

\* What serde_json accepts is the payload of the next frame, and all of it.
LEMMA PayloadReadStep == IInv /\ PayloadRead => IInv'
<1> SUFFICES ASSUME IInv, PayloadRead PROVE IInv'
  OBVIOUS
<1> DEFINE n == Len(got) + 1
           F == Stream(msgs)[sent]
           a == Len(Stream(msgs)[Len(got)])
<1>0. /\ reader = "payload" /\ Filled /\ UNCHANGED <<msgs, sent, pending, wire, sender>>
      /\ reader' = "header" /\ want' = HeaderBytes /\ buf' = <<>>
  BY DEF PayloadRead, Expect
<1>1. PICK i \in 1..sent : buf = Payload(i) /\ got' = Append(got, i)
  BY DEF PayloadRead
<1>2. /\ msgs \in Lengths /\ sent \in Nat /\ sent <= Len(msgs) /\ Len(msgs) \in Nat
      /\ HeaderBytes \in Nat /\ HeaderBytes > 0 /\ Len(got) \in Nat
      /\ got \in Seq(1..Len(msgs))
  BY Types DEF IInv
<1>3. Len(got) < sent /\ want <= MaxMsgBytes /\ Len(buf) = want
  BY <1>0 DEF IInv, Expected, Filled
<1>4. /\ n \in 1..Len(msgs) /\ n \in 1..sent /\ n - 1 = Len(got)
      /\ msgs[n] \in Nat /\ msgs[n] > 0
      /\ Len(Stream(msgs)[n]) = Len(Stream(msgs)[n - 1]) + HeaderBytes + msgs[n]
  BY <1>0, <1>3, NextFrame
<1>5. i = n
  <2>1. msgs[i] \in Nat /\ msgs[i] > 0 /\ i \in 1..Len(msgs)
    BY <1>2, FrameBytes
  <2>2. Len(buf) = msgs[i] /\ buf[1] = <<i, 1>>
    BY <1>1, <2>1 DEF Payload
  <2>3. \A k \in 1..Len(buf) : k <= msgs[n] => buf[k] = <<n, k>>
    BY <1>0, PayloadBytes
  <2> HIDE DEF n
  <2>4. 1 \in 1..Len(buf) /\ 1 <= msgs[n]
    BY <1>4, <2>1, <2>2
  <2>5. <<i, 1>> = <<n, 1>>
    BY <2>2, <2>3, <2>4
  <2> QED BY <2>5
<1>6. Len(buf) = msgs[n]
  BY <1>1, <1>4, <1>5 DEF Payload
<1>7. got' \in Seq(1..Len(msgs)) /\ Len(got') = n
      /\ \A k \in 1..n : got'[k] = IF k = n THEN n ELSE got[k]
  BY <1>1, <1>2, <1>4, <1>5
<1>8. Typed'
  <2>1. <<>> \in Seq(Byte) /\ Len(<<>>) = 0 /\ 0 \in 0..HeaderBytes
    BY <1>2
  <2> QED BY <1>0, <1>7, <2>1 DEF IInv, Typed, TypeOK
<1>9. Expected'
  <2>1. n <= sent
    BY <1>2, <1>4
  <2> QED BY <1>0, <1>7, <2>1 DEF Expected
<1>10. FailsForCause'
  BY <1>0 DEF FailsForCause
<1>11. WholeInOrder'
  <2>1. got = [k \in 1..Len(got) |-> k] /\ \A k \in 1..Len(got) : Fits(k)
    BY DEF IInv, WholeInOrder
  <2>2. Fits(n)
    BY <1>3, <1>6 DEF Fits
  <2>3. ASSUME NEW k \in 1..n PROVE k = n \/ k \in 1..Len(got)
    BY <1>2
  <2>4. ASSUME NEW k \in 1..n PROVE got'[k] = k
    <3>1. CASE k = n
      BY <1>7, <3>1
    <3>2. CASE k # n
      <4>1. k \in 1..Len(got) /\ got'[k] = got[k]
        BY <1>7, <2>3, <3>2
      <4> HIDE DEF n
      <4> QED BY <2>1, <4>1, Zenon
    <3> QED BY <3>1, <3>2
  <2>5. got' = [k \in 1..n |-> k]
    <3>1. got' = [k \in 1..n |-> got'[k]]
      BY <1>7
    <3> HIDE DEF n
    <3> QED BY <2>4, <3>1
  <2>6. \A k \in 1..n : Fits(k)
    BY <2>1, <2>2, <2>3
  <2> HIDE DEF n
  <2> QED BY <1>0, <1>7, <2>5, <2>6 DEF WholeInOrder, Fits
<1>12. Aligned'
  <2>1. /\ a \in Nat /\ F \in Seq(Byte) /\ Len(F) \in Nat
        /\ Len(wire) \in Nat /\ Len(pending) \in Nat
    BY <1>0, BeginIs, Types DEF IInv, Typed
  <2> DEFINE b == Len(Stream(msgs)[n])
  <2>2. b = a + HeaderBytes + Len(buf) /\ b \in Nat /\ Len(buf) \in Nat
    BY <1>2, <1>4, <1>6, <2>1
  <2>3. Begin(msgs, Len(got), "payload") = a + HeaderBytes
    BY <2>1 DEF Begin
  <2>4. Begin(msgs, n, "header") = b
    <3> HIDE DEF n
    <3>1. Begin(msgs, n, "header") = b + 0
      BY DEF Begin
    <3> HIDE DEF b
    <3> QED BY <2>2, <3>1
  <2>5. /\ Follow(F, a + HeaderBytes, buf, wire, pending)
        /\ sender = "open" => All(a + HeaderBytes, buf, wire, pending) = Len(F)
    BY <1>0, <2>3 DEF IInv, Aligned
  <2> SUFFICES /\ Follow(F, b, <<>>, wire, pending)
               /\ sender = "open" => All(b, <<>>, wire, pending) = Len(F)
    <3> HIDE DEF n, b
    <3> QED BY <1>0, <1>7, <2>4 DEF Aligned
  <2> HIDE DEF a, F, b, n
  <2>6. b + Len(<<>>) = a + HeaderBytes + Len(buf)
        /\ b + Len(<<>>) + Len(wire) = a + HeaderBytes + Len(buf) + Len(wire)
    BY <2>1, <2>2
  <2>7. IsPiece(<<>>, F, b)
    <3>1. b <= Len(F)
      BY <2>1, <2>2, <2>5 DEF Follow, IsPiece
    <3> QED BY <2>1, <2>2, <3>1, EmptyPiece
  <2> QED BY <2>5, <2>6, <2>7 DEF Follow, All
<1> QED BY <1>8, <1>9, <1>10, <1>11, <1>12 DEF IInv

\* A full payload buffer that is no payload is the start of one whose prefix wrapped.
LEMMA NotJsonStep == IInv /\ NotJson => IInv'
<1> SUFFICES ASSUME IInv, NotJson PROVE IInv'
  OBVIOUS
<1> DEFINE n == Len(got) + 1
<1>0. /\ reader = "payload" /\ Filled /\ UNCHANGED <<msgs, sent, pending, wire, sender, got>>
      /\ Expect("failed", 0) /\ \A i \in 1..sent : buf # Payload(i)
  BY DEF NotJson
<1>1. Len(got) < sent /\ Len(buf) = Length(Header(msgs[n])) /\ buf \in Seq(Byte)
  BY <1>0 DEF IInv, Expected, Filled, Typed
<1>2. n \in 1..sent /\ msgs[n] \in Nat
  BY <1>0, <1>1, NextFrame
<1>3. \A k \in 1..Len(buf) : k <= msgs[n] => buf[k] = <<n, k>>
  BY <1>0, PayloadBytes
<1> HIDE DEF n
<1>4. ASSUME Fits(n) PROVE buf = Payload(n)
  <2>1. MaxMsgBytes \in Nat /\ Place[HeaderBytes] \in Nat /\ MaxMsgBytes < Place[HeaderBytes]
    BY CodecAssumption, PlacePositive
  <2>2. msgs[n] < Place[HeaderBytes]
    BY <1>2, <1>4, <2>1 DEF Fits
  <2>3. Len(buf) = msgs[n]
    BY <1>1, <1>2, <2>2, LengthOfHeader
  <2>4. \A k \in 1..msgs[n] : buf[k] = <<n, k>>
    BY <1>2, <1>3, <2>3
  <2>5. buf = [k \in 1..Len(buf) |-> buf[k]]
    BY <1>1
  <2> QED BY <2>3, <2>4, <2>5 DEF Payload
<1>5. ~Fits(n)
  BY <1>0, <1>2, <1>4
<1> QED BY <1>0, <1>2, <1>5, FailStep

\* Every step preserves the invariant.
LEMMA NextIInv == IInv /\ [Next]_vars => IInv'
<1> SUFFICES ASSUME IInv, [Next]_vars PROVE IInv'
  OBVIOUS
<1>1. CASE Send
  BY <1>1, SendStep
<1>2. CASE Write
  BY <1>2, WriteStep
<1>3. CASE HangUp
  BY <1>3, HangUpStep
<1>4. CASE Read
  BY <1>4, ReadStep
<1>5. CASE HeaderRead
  BY <1>5, HeaderReadStep
<1>6. CASE PayloadRead
  BY <1>6, PayloadReadStep
<1>7. CASE NotJson
  BY <1>7, NotJsonStep
<1>8. CASE UnexpectedEof
  BY <1>8, FailStep DEF UnexpectedEof
<1>9. CASE UNCHANGED vars
  BY <1>9 DEF vars, IInv, Typed, TypeOK, Expected, Aligned, WholeInOrder, FailsForCause, Fits
<1> QED BY <1>1, <1>2, <1>3, <1>4, <1>5, <1>6, <1>7, <1>8, <1>9 DEF Next, SendJson, RecvJson

\* The invariant holds in every reachable state.
LEMMA Invariance == Spec => []IInv
BY InitIInv, NextIInv, PTL DEF Spec

\* Buffers stay within what read_exact asked for, and the length asked for within
\* MAX_MSG_BYTES, for any messages.
THEOREM TypeCorrect == Spec => []TypeOK
<1>1. IInv => TypeOK
  BY DEF IInv, Typed
<1> QED BY <1>1, Invariance, PTL

\* recv_json returns the first messages sent, whole and in order, for any prefix
\* length, limit and messages and however the stream is cut.
THEOREM ReceivedIsSent == Spec => []WholeInOrder
<1>1. IInv => WholeInOrder
  BY DEF IInv
<1> QED BY <1>1, Invariance, PTL

\* recv_json fails only when the sender went away or sent more than the limit.
THEOREM FailureHasCause == Spec => []FailsForCause
<1>1. IInv => FailsForCause
  BY DEF IInv
<1> QED BY <1>1, Invariance, PTL
=============================================================================
