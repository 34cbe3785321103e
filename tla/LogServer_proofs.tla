-------------------------- MODULE LogServer_proofs --------------------------
(***************************************************************************)
(* Theorems about the log server.  A client's stream is its name and its   *)
(* lines, byte after byte; a position in it is a line and a place.  What   *)
(* is in a buffer or on a wire is the piece of one stream between two      *)
(* positions, and the file has, of what comes before the first, at least   *)
(* what is due to it.                                                      *)
(***************************************************************************)
EXTENDS LogServer, SequenceTheorems, FiniteSetTheorems, TLAPS

Byte == [client : Clients \cup {None}, line : Nat, at : Nat, end : BOOLEAN]
Position == Nat \X Nat

(* Bytes of the stream of client c, whose lines have the lengths p. *)
Length(p, n) == IF n = 0 THEN 1 ELSE p[n]
Sends(c, p, b) ==
  /\ b \in Byte /\ b.client = c /\ b.line \in 0..Len(p)
  /\ b.at \in 1..(Length(p, b.line) + 1)
  /\ (b.end <=> b.at > Length(p, b.line))

(* Where a piece of it may begin or end. *)
Past(p) == <<Len(p) + 1, 1>>
Spot(p, x) ==
  /\ x \in Position /\ x[2] >= 1
  /\ \/ x[1] <= Len(p) /\ x[2] <= Length(p, x[1]) + 1
     \/ x = Past(p)

Piece(c, p, t, from, to) ==
  /\ t \in Seq(Byte)
  /\ \A i \in 1..Len(t) :
       Sends(c, p, t[i]) /\ ~Earlier(Pos(t[i]), from) /\ Earlier(Pos(t[i]), to)
  /\ \A b : Sends(c, p, b) /\ ~Earlier(Pos(b), from) /\ Earlier(Pos(b), to) =>
       \E i \in 1..Len(t) : t[i] = b
  /\ \A i, j \in 1..Len(t) : i < j => Earlier(Pos(t[i]), Pos(t[j]))
  /\ ~Earlier(to, from)

-----------------------------------------------------------------------------
(* Positions. *)

LEMMA Order ==
  /\ \A x, y \in Position : x = y \/ Earlier(x, y) \/ Earlier(y, x)
  /\ \A x \in Position : ~Earlier(x, x)
  /\ \A x, y \in Position : Earlier(x, y) => ~Earlier(y, x)
  /\ \A x, y, z \in Position :
       /\ Earlier(x, y) /\ Earlier(y, z) => Earlier(x, z)
       /\ Earlier(x, y) /\ ~Earlier(z, y) => Earlier(x, z)
       /\ ~Earlier(y, x) /\ Earlier(y, z) => Earlier(x, z)
       /\ ~Earlier(y, x) /\ ~Earlier(z, y) => ~Earlier(z, x)
BY DEF Earlier, Position

LEMMA PosIs ==
  ASSUME NEW b \in Byte
  PROVE  Pos(b) \in Position /\ Pos(b)[1] = b.line /\ Pos(b)[2] = b.at
BY DEF Byte, Pos, Position

LEMMA Lengthy ==
  ASSUME NEW p \in Seq(Lengths), NEW n \in 0..Len(p)
  PROVE  Length(p, n) \in Nat \ {0} /\ Len(p) \in Nat
<1>1. Len(p) \in Nat
  BY LenProperties
<1>2. CASE n = 0
  BY <1>1, <1>2 DEF Length
<1>3. CASE n # 0
  <2>1. p[n] \in Lengths
    BY <1>1, <1>3, ElementOfSeq
  <2> QED
    BY <1>1, <1>3, <2>1, LogAssumption DEF Length
<1> QED
  BY <1>2, <1>3

LEMMA SendsPos ==
  ASSUME NEW c, NEW p \in Seq(Lengths), NEW b, Sends(c, p, b)
  PROVE  /\ b \in Byte /\ Pos(b) \in Position /\ Spot(p, Pos(b))
         /\ Earlier(Pos(b), Past(p))
<1>1. b \in Byte /\ b.line \in 0..Len(p) /\ b.at \in 1..(Length(p, b.line) + 1)
  BY DEF Sends
<1>2. Length(p, b.line) \in Nat \ {0} /\ Len(p) \in Nat
  BY <1>1, Lengthy
<1>3. Pos(b) \in Position /\ Pos(b)[1] = b.line /\ Pos(b)[2] = b.at
  BY <1>1, PosIs
<1>4. b.line \in Nat /\ b.at \in Nat
  BY <1>1 DEF Byte
<1> QED
  BY <1>1, <1>2, <1>3, <1>4 DEF Spot, Earlier, Past

LEMMA SpotIs ==
  ASSUME NEW p \in Seq(Lengths), NEW x, Spot(p, x)
  PROVE  x \in Position /\ Past(p) \in Position /\ Spot(p, Past(p))
         /\ ~Earlier(Past(p), x)
<1>1. Len(p) \in Nat
  BY LenProperties
<1>2. x \in Position /\ (x[1] <= Len(p) \/ x = Past(p))
  BY DEF Spot
<1>3. Past(p) \in Position /\ Past(p)[1] = Len(p) + 1 /\ Past(p)[2] = 1
  BY <1>1 DEF Past, Position
<1>4. Spot(p, Past(p))
  BY <1>1, <1>3 DEF Spot
<1>5. x[1] \in Nat /\ x[2] \in Nat
  BY <1>2 DEF Position
<1>6. ~Earlier(Past(p), x)
  BY <1>1, <1>2, <1>3, <1>5 DEF Earlier
<1> QED
  BY <1>2, <1>3, <1>4, <1>6

(* At every spot but the last there is a byte. *)
LEMMA SpotHasByte ==
  ASSUME NEW c \in Clients, NEW p \in Seq(Lengths), NEW x, Spot(p, x), x # Past(p)
  PROVE  \E b : Sends(c, p, b) /\ Pos(b) = x
<1>1. Len(p) \in Nat
  BY LenProperties
<1>2. /\ x \in Position /\ x[1] \in Nat /\ x[2] \in Nat /\ x[2] >= 1
      /\ x[1] <= Len(p) /\ x[2] <= Length(p, x[1]) + 1
  BY DEF Spot, Position
<1>3. Length(p, x[1]) \in Nat \ {0}
  BY <1>1, <1>2, Lengthy
<1> DEFINE b == [client |-> c, line |-> x[1], at |-> x[2],
                 end |-> x[2] > Length(p, x[1])]
<1>4. b \in Byte
  BY <1>2 DEF Byte
<1>5. b.client = c /\ b.line = x[1] /\ b.at = x[2] /\ (b.end <=> x[2] > Length(p, x[1]))
  OBVIOUS
<1> HIDE DEF b
<1>6. Sends(c, p, b)
  BY <1>1, <1>2, <1>3, <1>4, <1>5 DEF Sends
<1>7. Pos(b) = x
  BY <1>2, <1>5 DEF Pos, Position
<1> QED
  BY <1>6, <1>7

-----------------------------------------------------------------------------
(* Pieces of a stream. *)

LEMMA PieceType ==
  ASSUME NEW c, NEW p \in Seq(Lengths), NEW t, NEW x, NEW y, Piece(c, p, t, x, y)
  PROVE  /\ t \in Seq(Byte) /\ Len(t) \in Nat
         /\ \A i \in 1..Len(t) : /\ Sends(c, p, t[i]) /\ t[i] \in Byte
                                 /\ Pos(t[i]) \in Position /\ Spot(p, Pos(t[i]))
<1>1. t \in Seq(Byte) /\ \A i \in 1..Len(t) : Sends(c, p, t[i])
  BY DEF Piece
<1> QED
  BY <1>1, LenProperties, SendsPos

(* Nothing is between a position and itself ... *)
LEMMA PieceEmpty ==
  ASSUME NEW c, NEW p \in Seq(Lengths), NEW x, Spot(p, x)
  PROVE  Piece(c, p, <<>>, x, x)
<1>1. x \in Position
  BY SpotIs
<1>2. <<>> \in Seq(Byte) /\ Len(<<>>) = 0
  BY EmptySeq
<1>3. ASSUME NEW b, Sends(c, p, b), ~Earlier(Pos(b), x), Earlier(Pos(b), x)
      PROVE  FALSE
  BY <1>3
<1> QED
  BY <1>1, <1>2, <1>3, Order DEF Piece

(* ... and only there. *)
LEMMA PieceNone ==
  ASSUME NEW c \in Clients, NEW p \in Seq(Lengths), NEW x, NEW y, Spot(p, x),
         Spot(p, y), Piece(c, p, <<>>, x, y)
  PROVE  x = y
<1> SUFFICES ASSUME x # y PROVE FALSE
  OBVIOUS
<1>1. x \in Position /\ y \in Position /\ Past(p) \in Position
      /\ ~Earlier(Past(p), x) /\ ~Earlier(Past(p), y)
  BY SpotIs
<1>2. Earlier(x, y)
  BY <1>1, Order DEF Piece
<1>3. x # Past(p)
  BY <1>1, <1>2
<1>4. PICK b : Sends(c, p, b) /\ Pos(b) = x
  BY <1>3, SpotHasByte
<1>5. ~Earlier(Pos(b), x) /\ Earlier(Pos(b), y)
  BY <1>1, <1>2, <1>4, Order
<1>6. Len(<<>>) = 0
  BY EmptySeq
<1> QED
  BY <1>4, <1>5, <1>6 DEF Piece

LEMMA PieceJoin ==
  ASSUME NEW c, NEW p \in Seq(Lengths), NEW x, NEW y, NEW z,
         Spot(p, x), Spot(p, y), Spot(p, z), NEW t, NEW u,
         Piece(c, p, t, x, y), Piece(c, p, u, y, z)
  PROVE  Piece(c, p, t \o u, x, z)
<1> DEFINE w == t \o u
<1>1. x \in Position /\ y \in Position /\ z \in Position
  BY SpotIs
<1>2. /\ t \in Seq(Byte) /\ Len(t) \in Nat /\ u \in Seq(Byte) /\ Len(u) \in Nat
      /\ \A i \in 1..Len(t) : Sends(c, p, t[i]) /\ Pos(t[i]) \in Position
      /\ \A i \in 1..Len(u) : Sends(c, p, u[i]) /\ Pos(u[i]) \in Position
  BY PieceType
<1>3. /\ w \in Seq(Byte) /\ Len(w) = Len(t) + Len(u)
      /\ \A i \in 1..(Len(t) + Len(u)) :
           w[i] = IF i <= Len(t) THEN t[i] ELSE u[i - Len(t)]
  BY <1>2, ConcatProperties
<1> HIDE DEF w
<1>4. /\ \A i \in 1..Len(t) : ~Earlier(Pos(t[i]), x) /\ Earlier(Pos(t[i]), y)
      /\ \A i \in 1..Len(u) : ~Earlier(Pos(u[i]), y) /\ Earlier(Pos(u[i]), z)
      /\ ~Earlier(y, x) /\ ~Earlier(z, y)
  BY DEF Piece
<1>5. \A i \in 1..Len(w) : \/ i \in 1..Len(t) /\ w[i] = t[i]
                           \/ /\ i - Len(t) \in 1..Len(u) /\ w[i] = u[i - Len(t)]
                              /\ i > Len(t)
  BY <1>2, <1>3
<1>6. /\ \A i \in 1..Len(t) : i \in 1..Len(w) /\ w[i] = t[i]
      /\ \A i \in 1..Len(u) : i + Len(t) \in 1..Len(w)
  BY <1>2, <1>3
<1>7. \A i \in 1..Len(u) : w[i + Len(t)] = u[i]
  <2> TAKE i \in 1..Len(u)
  <2>1. ~(i + Len(t) <= Len(t)) /\ (i + Len(t)) - Len(t) = i
    BY <1>2
  <2> QED
    BY <1>3, <1>6, <2>1
<1>8. \A i \in 1..Len(w) :
        Sends(c, p, w[i]) /\ ~Earlier(Pos(w[i]), x) /\ Earlier(Pos(w[i]), z)
  <2> TAKE i \in 1..Len(w)
  <2>1. CASE i \in 1..Len(t) /\ w[i] = t[i]
    BY <1>1, <1>2, <1>4, <2>1, Order
  <2>2. CASE i - Len(t) \in 1..Len(u) /\ w[i] = u[i - Len(t)]
    BY <1>1, <1>2, <1>4, <2>2, Order
  <2> QED
    BY <1>5, <2>1, <2>2
<1>9. ASSUME NEW b, Sends(c, p, b), ~Earlier(Pos(b), x), Earlier(Pos(b), z)
      PROVE  \E i \in 1..Len(w) : w[i] = b
  <2>1. CASE Earlier(Pos(b), y)
    <3>1. PICK i \in 1..Len(t) : t[i] = b
      BY <1>9, <2>1 DEF Piece
    <3> QED
      BY <1>6, <3>1
  <2>2. CASE ~Earlier(Pos(b), y)
    <3>1. PICK i \in 1..Len(u) : u[i] = b
      BY <1>9, <2>2 DEF Piece
    <3> QED
      BY <1>6, <1>7, <3>1
  <2> QED
    BY <2>1, <2>2
<1>10. ASSUME NEW i \in 1..Len(w), NEW j \in 1..Len(w), i < j
       PROVE  Earlier(Pos(w[i]), Pos(w[j]))
  <2>1. CASE i \in 1..Len(t) /\ j \in 1..Len(t)
    BY <1>6, <1>10, <2>1 DEF Piece
  <2>2. CASE i \in 1..Len(t) /\ ~(j \in 1..Len(t))
    <3>1. j - Len(t) \in 1..Len(u) /\ w[j] = u[j - Len(t)] /\ w[i] = t[i]
      BY <1>5, <1>6, <2>2
    <3> QED
      BY <1>1, <1>2, <1>4, <2>2, <3>1, Order
  <2>3. CASE ~(i \in 1..Len(t))
    <3>1. /\ i - Len(t) \in 1..Len(u) /\ w[i] = u[i - Len(t)]
          /\ j - Len(t) \in 1..Len(u) /\ w[j] = u[j - Len(t)]
      BY <1>2, <1>3, <1>5, <1>10, <2>3
    <3>2. i - Len(t) < j - Len(t)
      BY <1>2, <1>3, <1>10
    <3> QED
      BY <3>1, <3>2 DEF Piece
  <2> QED
    BY <2>1, <2>2, <2>3
<1>11. ~Earlier(z, x)
  BY <1>1, <1>4, Order
<1>12. Piece(c, p, w, x, z)
  BY <1>3, <1>8, <1>9, <1>10, <1>11 DEF Piece
<1> QED
  BY <1>12 DEF w

(* A piece is two wherever a position divides its bytes. *)
LEMMA PieceSplit ==
  ASSUME NEW c, NEW p \in Seq(Lengths), NEW x, NEW y, NEW z,
         Spot(p, x), Spot(p, y), Spot(p, z), NEW t, Piece(c, p, t, x, z),
         NEW n \in 0..Len(t), ~Earlier(y, x), ~Earlier(z, y),
         \A i \in 1..n : Earlier(Pos(t[i]), y),
         \A i \in (n + 1)..Len(t) : ~Earlier(Pos(t[i]), y)
  PROVE  /\ Piece(c, p, SubSeq(t, 1, n), x, y)
         /\ Piece(c, p, SubSeq(t, n + 1, Len(t)), y, z)
<1> DEFINE u == SubSeq(t, 1, n)
           v == SubSeq(t, n + 1, Len(t))
<1>1. x \in Position /\ y \in Position /\ z \in Position
  BY SpotIs
<1>2. /\ t \in Seq(Byte) /\ Len(t) \in Nat
      /\ \A i \in 1..Len(t) : /\ Sends(c, p, t[i]) /\ Pos(t[i]) \in Position
                              /\ t[i] \in Byte
  BY PieceType
<1>3. /\ u \in Seq(Byte) /\ Len(u) = n /\ \A i \in 1..n : u[i] = t[i]
  <2>1. \A i \in 1..n : t[i] \in Byte
    BY <1>2
  <2>2. /\ u \in Seq(Byte) /\ Len(u) = IF 1 <= n THEN (n - 1) + 1 ELSE 0
        /\ \A i \in 1..((n - 1) + 1) : u[i] = t[(1 + i) - 1]
    BY <2>1, SubSeqProperties
  <2> QED
    BY <2>2
<1>4. /\ v \in Seq(Byte) /\ Len(v) = Len(t) - n
      /\ \A i \in 1..(Len(t) - n) : v[i] = t[n + i]
  <2>1. \A i \in (n + 1)..Len(t) : t[i] \in Byte
    BY <1>2
  <2>2. /\ v \in Seq(Byte)
        /\ Len(v) = IF n + 1 <= Len(t) THEN (Len(t) - (n + 1)) + 1 ELSE 0
        /\ \A i \in 1..((Len(t) - (n + 1)) + 1) : v[i] = t[((n + 1) + i) - 1]
    BY <1>2, <2>1, SubSeqProperties
  <2>3. \A i \in 1..(Len(t) - n) : ((n + 1) + i) - 1 = n + i
    OBVIOUS
  <2> QED
    BY <1>2, <2>2, <2>3
<1> HIDE DEF u, v
<1>5. \A i \in 1..n : i \in 1..Len(t)
  BY <1>2
<1>6. \A i \in 1..Len(v) : n + i \in 1..Len(t) /\ n + i \in (n + 1)..Len(t)
  BY <1>2, <1>4
<1>7. Piece(c, p, u, x, y)
  <2>1. \A i \in 1..Len(u) :
          Sends(c, p, u[i]) /\ ~Earlier(Pos(u[i]), x) /\ Earlier(Pos(u[i]), y)
    BY <1>3, <1>5 DEF Piece
  <2>2. ASSUME NEW b, Sends(c, p, b), ~Earlier(Pos(b), x), Earlier(Pos(b), y)
        PROVE  \E i \in 1..Len(u) : u[i] = b
    <3>1. Pos(b) \in Position
      BY <2>2, SendsPos
    <3>2. Earlier(Pos(b), z)
      BY <1>1, <2>2, <3>1, Order
    <3>3. PICK i \in 1..Len(t) : t[i] = b
      BY <2>2, <3>2 DEF Piece
    <3>4. ~(i \in (n + 1)..Len(t))
      BY <2>2, <3>3
    <3>5. i \in 1..n
      BY <1>2, <3>4
    <3> QED
      BY <1>3, <3>3, <3>5
  <2>3. \A i, j \in 1..Len(u) : i < j => Earlier(Pos(u[i]), Pos(u[j]))
    BY <1>3, <1>5 DEF Piece
  <2> QED
    BY <1>3, <2>1, <2>2, <2>3 DEF Piece
<1>8. Piece(c, p, v, y, z)
  <2>1. \A i \in 1..Len(v) :
          Sends(c, p, v[i]) /\ ~Earlier(Pos(v[i]), y) /\ Earlier(Pos(v[i]), z)
    BY <1>4, <1>6 DEF Piece
  <2>2. ASSUME NEW b, Sends(c, p, b), ~Earlier(Pos(b), y), Earlier(Pos(b), z)
        PROVE  \E i \in 1..Len(v) : v[i] = b
    <3>1. Pos(b) \in Position
      BY <2>2, SendsPos
    <3>2. ~Earlier(Pos(b), x)
      BY <1>1, <2>2, <3>1, Order
    <3>3. PICK i \in 1..Len(t) : t[i] = b
      BY <2>2, <3>2 DEF Piece
    <3>4. ~(i \in 1..n)
      BY <2>2, <3>3
    <3>5. i - n \in 1..Len(v) /\ n + (i - n) = i
      BY <1>2, <1>4, <3>4
    <3> QED
      BY <1>4, <3>3, <3>5
  <2>3. ASSUME NEW i \in 1..Len(v), NEW j \in 1..Len(v), i < j
        PROVE  Earlier(Pos(v[i]), Pos(v[j]))
    <3>1. n + i < n + j
      BY <2>3
    <3> QED
      BY <1>4, <1>6, <3>1 DEF Piece
  <2> QED
    BY <1>4, <2>1, <2>2, <2>3 DEF Piece
<1> QED
  BY <1>7, <1>8 DEF u, v

(* A piece that is not empty begins at its beginning. *)
LEMMA PieceBegins ==
  ASSUME NEW c \in Clients, NEW p \in Seq(Lengths), NEW x, NEW z, Spot(p, x),
         Spot(p, z), NEW t, Piece(c, p, t, x, z), Len(t) > 0
  PROVE  Pos(t[1]) = x
<1>1. x \in Position /\ z \in Position /\ Past(p) \in Position
      /\ ~Earlier(Past(p), z)
  BY SpotIs
<1>2. /\ Len(t) \in Nat
      /\ \A i \in 1..Len(t) : Sends(c, p, t[i]) /\ Pos(t[i]) \in Position
  BY PieceType
<1>3. 1 \in 1..Len(t)
  BY <1>2
<1>4. ~Earlier(Pos(t[1]), x) /\ Earlier(Pos(t[1]), z)
  BY <1>3 DEF Piece
<1>5. Earlier(x, z) /\ x # Past(p)
  BY <1>1, <1>2, <1>3, <1>4, Order
<1>6. PICK b : Sends(c, p, b) /\ Pos(b) = x
  BY <1>5, SpotHasByte
<1>7. PICK i \in 1..Len(t) : t[i] = b
  BY <1>1, <1>5, <1>6, Order DEF Piece
<1>8. CASE i = 1
  BY <1>6, <1>7, <1>8
<1>9. CASE i # 1
  <2>1. Earlier(Pos(t[1]), Pos(t[i]))
    BY <1>2, <1>3, <1>7, <1>9 DEF Piece
  <2> QED
    BY <1>4, <1>6, <1>7, <2>1
<1> QED
  BY <1>8, <1>9

(* The first bytes of a piece are of one line as long as none ends it. *)
LEMMA PieceOneLine ==
  ASSUME NEW c \in Clients, NEW p \in Seq(Lengths), NEW x, NEW z, Spot(p, x),
         Spot(p, z), NEW t, Piece(c, p, t, x, z), NEW n \in 1..Len(t),
         \A i \in 1..Len(t) : i < n => ~t[i].end
  PROVE  t[n].line = t[1].line
<1> SUFFICES ASSUME t[n].line # t[1].line PROVE FALSE
  OBVIOUS
<1>1. x \in Position /\ z \in Position
  BY SpotIs
<1>2. /\ Len(t) \in Nat
      /\ \A i \in 1..Len(t) : /\ Sends(c, p, t[i]) /\ Pos(t[i]) \in Position
                              /\ t[i] \in Byte
  BY PieceType
<1>3. 1 \in 1..Len(t) /\ n # 1 /\ 1 < n
  BY <1>2
<1>4. Earlier(Pos(t[1]), Pos(t[n])) /\ ~Earlier(Pos(t[1]), x) /\ Earlier(Pos(t[n]), z)
  BY <1>2, <1>3 DEF Piece
<1> DEFINE l == t[1].line
           len == Length(p, l)
           b == [client |-> c, line |-> l, at |-> len + 1, end |-> TRUE]
<1>5. /\ l \in 0..Len(p) /\ len \in Nat \ {0} /\ Len(p) \in Nat /\ l \in Nat
      /\ t[1].at \in 1..(len + 1)
  BY <1>2, <1>3, Lengthy DEF Sends
<1>6. Sends(c, p, b)
  <2>1. b \in Byte
    BY <1>5 DEF Byte
  <2>2. b.client = c /\ b.line = l /\ b.at = len + 1 /\ b.end = TRUE
    OBVIOUS
  <2>3. Length(p, b.line) = len
    BY <2>2
  <2> HIDE DEF b, l, len
  <2>4. (b.end <=> b.at > Length(p, b.line))
    BY <1>5, <2>2, <2>3
  <2> QED
    BY <1>5, <2>1, <2>2, <2>3, <2>4 DEF Sends
<1>7. Pos(b) = <<l, len + 1>> /\ Pos(t[1]) = <<l, t[1].at>>
      /\ Pos(t[n]) = <<t[n].line, t[n].at>> /\ t[n].line \in Nat /\ t[n].at \in Nat
  BY <1>2 DEF Pos, Byte
<1>8. b.end
  OBVIOUS
<1> HIDE DEF b, l, len
<1>9. t[n].line # l
  BY DEF l
<1>10. ~Earlier(Pos(b), Pos(t[1])) /\ Earlier(Pos(b), Pos(t[n]))
  BY <1>4, <1>5, <1>7, <1>9 DEF Earlier
<1>11. Pos(b) \in Position
  BY <1>6, SendsPos
<1>12. ~Earlier(Pos(b), x) /\ Earlier(Pos(b), z)
  BY <1>1, <1>2, <1>3, <1>4, <1>10, <1>11, Order
<1>13. PICK i \in 1..Len(t) : t[i] = b
  BY <1>6, <1>12 DEF Piece
<1>14. CASE i < n
  BY <1>8, <1>13, <1>14
<1>15. CASE ~(i < n)
  <2>1. CASE i = n
    BY <1>10, <1>11, <1>13, <2>1, Order
  <2>2. CASE i # n
    <3>1. Earlier(Pos(t[n]), Pos(t[i]))
      BY <1>2, <1>13, <1>15, <2>2 DEF Piece
    <3> QED
      BY <1>2, <1>10, <1>11, <1>13, <3>1, Order
  <2> QED
    BY <2>1, <2>2
<1> QED
  BY <1>14, <1>15

(* The bytes of a line have their places one after the other. *)
LEMMA PieceRises ==
  ASSUME NEW c, NEW p \in Seq(Lengths), NEW x, NEW z, NEW t, Piece(c, p, t, x, z),
         NEW n \in 1..Len(t), \A i \in 1..n : t[i].line = t[1].line
  PROVE  t[n].at >= n
<1>1. /\ n \in Nat /\ n >= 1 /\ Len(t) \in Nat
      /\ \A i \in 1..n : /\ i \in 1..Len(t) /\ t[i].at \in Nat /\ t[i].at >= 1
                          /\ Pos(t[i])[1] = t[i].line /\ Pos(t[i])[2] = t[i].at
                          /\ t[i].line \in Nat
  <2>1. Len(t) \in Nat /\ \A i \in 1..Len(t) : Sends(c, p, t[i]) /\ t[i] \in Byte
    BY PieceType
  <2>2. \A i \in 1..n : i \in 1..Len(t)
    BY <2>1
  <2>3. \A i \in 1..n : /\ t[i].at \in Nat /\ t[i].line \in Nat
                         /\ t[i].at \in 1..(Length(p, t[i].line) + 1)
                         /\ Pos(t[i])[1] = t[i].line /\ Pos(t[i])[2] = t[i].at
    BY <2>1, <2>2, PosIs DEF Sends, Byte
  <2> QED
    BY <2>1, <2>2, <2>3
<1>2. \A i, j \in 1..n : i < j => t[i].at < t[j].at
  <2>1. \A i, j \in 1..n : i < j => Earlier(Pos(t[i]), Pos(t[j]))
    BY <1>1 DEF Piece
  <2> QED
    BY <1>1, <2>1 DEF Earlier
<1> DEFINE f == [i \in 1..n |-> t[i].at]
           m == t[n].at
<1>3. f \in Injection(1..n, 1..m)
  <2>1. f \in [1..n -> 1..m]
    <3>1. \A i \in 1..n : i = n \/ i < n
      BY <1>1
    <3>2. n \in 1..n
      BY <1>1
    <3> QED
      BY <1>1, <1>2, <3>1, <3>2
  <2>2. ASSUME NEW i \in 1..n, NEW j \in 1..n, f[i] = f[j] PROVE i = j
    <3>1. t[i].at = t[j].at
      BY <2>2
    <3>2. ~(i < j) /\ ~(j < i)
      BY <1>1, <1>2, <3>1
    <3> QED
      BY <3>2
  <2> HIDE DEF f
  <2> QED
    BY <2>1, <2>2 DEF Injection, IsInjective
<1>4. /\ IsFiniteSet(1..m) /\ m \in Nat /\ m >= 1
      /\ Cardinality(1..n) = n /\ Cardinality(1..m) = m
  <2>1. n \in 1..n /\ m \in Nat /\ m >= 1
    BY <1>1
  <2> HIDE DEF m
  <2>2. /\ Cardinality(1..n) = IF 1 > n THEN 0 ELSE (n - 1) + 1
        /\ Cardinality(1..m) = IF 1 > m THEN 0 ELSE (m - 1) + 1
        /\ IsFiniteSet(1..m)
    <3>1. 1 \in Int /\ n \in Int /\ m \in Int
      BY <1>1, <2>1
    <3> QED
      BY <3>1, FS_Interval
  <2> QED
    BY <1>1, <2>1, <2>2
<1> HIDE DEF f, m
<1>5. Cardinality(1..n) <= Cardinality(1..m)
  BY <1>3, <1>4, FS_Injection
<1> QED
  BY <1>1, <1>4, <1>5 DEF m

LEMMA EndIsLast ==
  ASSUME NEW c, NEW p \in Seq(Lengths), NEW b, Sends(c, p, b)
  PROVE  /\ b.line \in 0..Len(p) /\ Len(p) \in Nat /\ b.line \in Nat
         /\ Length(p, b.line) \in Nat \ {0} /\ b.at \in 1..(Length(p, b.line) + 1)
         /\ Pos(b) = <<b.line, b.at>> /\ b.at \in Nat
         /\ b.end \in BOOLEAN /\ (b.end <=> b.at = Length(p, b.line) + 1)
<1>1. /\ b \in Byte /\ b.line \in 0..Len(p) /\ b.at \in 1..(Length(p, b.line) + 1)
      /\ (b.end <=> b.at > Length(p, b.line))
  BY DEF Sends
<1>2. Length(p, b.line) \in Nat \ {0} /\ Len(p) \in Nat
  BY <1>1, Lengthy
<1>3. b.line \in Nat /\ b.at \in Nat /\ b.end \in BOOLEAN
  BY <1>1 DEF Byte
<1>4. b.end <=> b.at = Length(p, b.line) + 1
  BY <1>1, <1>2, <1>3
<1> QED
  BY <1>1, <1>2, <1>3, <1>4 DEF Pos

(* Every position before a spot leaves the next line for after it. *)
LEMMA LineEnds ==
  ASSUME NEW c \in Clients, NEW p \in Seq(Lengths), NEW z, Spot(p, z), NEW b,
         Sends(c, p, b), b.end, Earlier(Pos(b), z)
  PROVE  Spot(p, <<b.line + 1, 1>>) /\ ~Earlier(z, <<b.line + 1, 1>>)
<1>1. /\ b.line \in 0..Len(p) /\ Len(p) \in Nat /\ b.line \in Nat
      /\ Length(p, b.line) \in Nat \ {0} /\ b.at = Length(p, b.line) + 1
      /\ Pos(b) = <<b.line, b.at>>
  BY EndIsLast
<1>2. Spot(p, <<b.line + 1, 1>>)
  <2>1. CASE b.line = Len(p)
    BY <1>1, <2>1 DEF Spot, Past, Position
  <2>2. CASE b.line # Len(p)
    <3>1. b.line + 1 \in 0..Len(p)
      BY <1>1, <2>2
    <3>2. Length(p, b.line + 1) \in Nat \ {0}
      BY <3>1, Lengthy
    <3> QED
      BY <1>1, <3>1, <3>2 DEF Spot, Position
  <2> QED
    BY <2>1, <2>2
<1>3. z[1] \in Nat /\ z[2] \in Nat /\ z[2] >= 1
      /\ ((z[1] <= Len(p) /\ z[2] <= Length(p, z[1]) + 1) \/ z = <<Len(p) + 1, 1>>)
  BY DEF Spot, Position, Past
<1>4. z[1] > b.line \/ (z[1] = b.line /\ z[2] > b.at)
  BY <1>1, <1>3 DEF Earlier
<1>5. z[1] > b.line
  BY <1>1, <1>3, <1>4
<1>6. ~Earlier(z, <<b.line + 1, 1>>)
  BY <1>1, <1>3, <1>5 DEF Earlier
<1> QED
  BY <1>2, <1>6

(* After the end of a line the piece goes on with the next. *)
LEMMA PieceLine ==
  ASSUME NEW c \in Clients, NEW p \in Seq(Lengths), NEW x, NEW z, Spot(p, x),
         Spot(p, z), NEW t, Piece(c, p, t, x, z), NEW n \in 1..Len(t), t[n].end
  PROVE  LET y == <<t[n].line + 1, 1>> IN
         /\ Spot(p, y) /\ Piece(c, p, SubSeq(t, 1, n), x, y)
         /\ Piece(c, p, SubSeq(t, n + 1, Len(t)), y, z)
<1> DEFINE y == <<t[n].line + 1, 1>>
<1>1. x \in Position /\ z \in Position
  BY SpotIs
<1>2. /\ Len(t) \in Nat
      /\ \A i \in 1..Len(t) : /\ Sends(c, p, t[i]) /\ Pos(t[i]) \in Position
                              /\ t[i] \in Byte
  BY PieceType
<1>3. Earlier(Pos(t[n]), z) /\ ~Earlier(Pos(t[n]), x)
  BY DEF Piece
<1>4. Spot(p, y) /\ ~Earlier(z, y)
  BY <1>2, <1>3, LineEnds
<1>5. y \in Position
  BY <1>4, SpotIs
<1>6. /\ t[n].line \in Nat /\ t[n].at \in Nat /\ Pos(t[n]) = <<t[n].line, t[n].at>>
      /\ Length(p, t[n].line) \in Nat \ {0} /\ t[n].at = Length(p, t[n].line) + 1
  BY <1>2, EndIsLast
<1>7. Earlier(Pos(t[n]), y)
  BY <1>6 DEF Earlier
<1>8. ~Earlier(y, x)
  BY <1>1, <1>2, <1>3, <1>5, <1>7, Order
<1>9. ASSUME NEW i \in 1..n PROVE Earlier(Pos(t[i]), y)
  <2>1. CASE i = n
    BY <1>7, <2>1
  <2>2. CASE i # n
    <3>1. i \in 1..Len(t) /\ i < n
      BY <1>2, <2>2
    <3>2. Earlier(Pos(t[i]), Pos(t[n]))
      BY <3>1 DEF Piece
    <3> HIDE DEF y
    <3> QED
      BY <1>2, <1>5, <1>7, <3>1, <3>2, Order
  <2> QED
    BY <2>1, <2>2
<1>10. ASSUME NEW i \in (n + 1)..Len(t) PROVE ~Earlier(Pos(t[i]), y)
  <2>1. i \in 1..Len(t) /\ n < i
    BY <1>2
  <2>2. Earlier(Pos(t[n]), Pos(t[i]))
    BY <2>1 DEF Piece
  <2>3. /\ Pos(t[i]) = <<t[i].line, t[i].at>> /\ t[i].line \in Nat
        /\ t[i].at \in 1..(Length(p, t[i].line) + 1)
        /\ Length(p, t[i].line) \in Nat \ {0}
    BY <1>2, <2>1, EndIsLast
  <2>4. t[i].line > t[n].line
    BY <1>6, <2>2, <2>3 DEF Earlier
  <2>5. y[1] = t[n].line + 1 /\ y[2] = 1
    OBVIOUS
  <2>6. Pos(t[i])[1] = t[i].line /\ Pos(t[i])[2] = t[i].at
    BY <2>3
  <2>7. t[i].line >= t[n].line + 1 /\ t[i].at >= 1
    BY <1>6, <2>3, <2>4
  <2> HIDE DEF y
  <2> QED
    BY <1>6, <2>3, <2>5, <2>6, <2>7 DEF Earlier
<1>11. n \in 0..Len(t)
  BY <1>2
<1> HIDE DEF y
<1>12. Piece(c, p, SubSeq(t, 1, n), x, y) /\ Piece(c, p, SubSeq(t, n + 1, Len(t)), y, z)
  BY <1>4, <1>8, <1>9, <1>10, <1>11, PieceSplit
<1> QED
  BY <1>4, <1>12 DEF y

(* Bytes can be taken from a piece in any number. *)
LEMMA PieceTake ==
  ASSUME NEW c \in Clients, NEW p \in Seq(Lengths), NEW x, NEW z, Spot(p, x),
         Spot(p, z), NEW t, Piece(c, p, t, x, z), NEW n \in 0..Len(t)
  PROVE  \E y : /\ Spot(p, y) /\ (n < Len(t) => y = Pos(t[n + 1]))
                /\ Piece(c, p, SubSeq(t, 1, n), x, y)
                /\ Piece(c, p, SubSeq(t, n + 1, Len(t)), y, z)
<1>1. x \in Position /\ z \in Position
  BY SpotIs
<1>2. /\ Len(t) \in Nat
      /\ \A i \in 1..Len(t) : /\ Sends(c, p, t[i]) /\ Pos(t[i]) \in Position
                              /\ Spot(p, Pos(t[i]))
  BY PieceType
<1>3. ASSUME n = Len(t)
      PROVE  /\ Piece(c, p, SubSeq(t, 1, n), x, z)
             /\ Piece(c, p, SubSeq(t, n + 1, Len(t)), z, z)
  <2>1. ~Earlier(z, x) /\ ~Earlier(z, z)
    BY <1>1, Order DEF Piece
  <2>2. \A i \in 1..n : Earlier(Pos(t[i]), z)
    BY <1>3 DEF Piece
  <2>3. \A i \in (n + 1)..Len(t) : ~Earlier(Pos(t[i]), z)
    BY <1>2, <1>3
  <2> QED
    BY <2>1, <2>2, <2>3, PieceSplit
<1>4. ASSUME n < Len(t)
      PROVE  /\ n + 1 \in 1..Len(t) /\ Piece(c, p, SubSeq(t, 1, n), x, Pos(t[n + 1]))
             /\ Piece(c, p, SubSeq(t, n + 1, Len(t)), Pos(t[n + 1]), z)
  <2> DEFINE y == Pos(t[n + 1])
  <2>1. n + 1 \in 1..Len(t)
    BY <1>2, <1>4
  <2>2. ~Earlier(y, x) /\ Earlier(y, z) /\ Spot(p, y) /\ y \in Position
    BY <1>2, <2>1 DEF Piece
  <2>3. ~Earlier(z, y)
    BY <1>1, <2>2, Order
  <2>4. ASSUME NEW i \in 1..n PROVE Earlier(Pos(t[i]), y)
    <3>1. i \in 1..Len(t) /\ i < n + 1
      BY <1>2
    <3> QED
      BY <2>1, <3>1 DEF Piece
  <2>5. ASSUME NEW i \in (n + 1)..Len(t) PROVE ~Earlier(Pos(t[i]), y)
    <3>1. CASE i = n + 1
      BY <2>2, <3>1, Order
    <3>2. CASE i # n + 1
      <4>1. i \in 1..Len(t) /\ n + 1 < i
        BY <1>2, <3>2
      <4>2. Earlier(y, Pos(t[i]))
        BY <2>1, <4>1 DEF Piece
      <4> HIDE DEF y
      <4> QED
        BY <1>2, <2>2, <4>1, <4>2, Order
    <3> QED
      BY <3>1, <3>2
  <2> HIDE DEF y
  <2>6. Piece(c, p, SubSeq(t, 1, n), x, y) /\ Piece(c, p, SubSeq(t, n + 1, Len(t)), y, z)
    BY <2>2, <2>3, <2>4, <2>5, PieceSplit
  <2> QED
    BY <2>1, <2>6 DEF y
<1> QED
  BY <1>2, <1>3, <1>4

(* What ends with the stream ends with the end of a line. *)
LEMMA PieceHasEnd ==
  ASSUME NEW c \in Clients, NEW p \in Seq(Lengths), NEW x, Spot(p, x), NEW t,
         Piece(c, p, t, x, Past(p)), \A i \in 1..Len(t) : ~t[i].end
  PROVE  Len(t) = 0 /\ t = <<>>
<1>1. x \in Position /\ Past(p) \in Position
  BY SpotIs
<1>2. /\ Len(t) \in Nat /\ t \in Seq(Byte)
      /\ \A i \in 1..Len(t) : /\ Sends(c, p, t[i]) /\ Pos(t[i]) \in Position
                              /\ t[i] \in Byte
  BY PieceType
<1>3. SUFFICES ASSUME 1 \in 1..Len(t) PROVE FALSE
  BY <1>2, EmptySeq
<1> DEFINE l == Len(p)
           len == Length(p, l)
           b == [client |-> c, line |-> l, at |-> len + 1, end |-> TRUE]
<1>4. l \in Nat /\ l \in 0..l /\ len \in Nat \ {0}
  <2>1. l \in Nat
    BY LenProperties
  <2> QED
    BY <2>1, Lengthy
<1>5. Sends(c, p, b)
  <2>1. b \in Byte
    BY <1>4 DEF Byte
  <2>2. b.client = c /\ b.line = l /\ b.at = len + 1 /\ b.end = TRUE
    OBVIOUS
  <2>3. Length(p, b.line) = len
    BY <2>2
  <2> HIDE DEF b, l, len
  <2>4. (b.end <=> b.at > Length(p, b.line))
    BY <1>4, <2>2, <2>3
  <2>5. l = Len(p)
    BY DEF l
  <2> QED
    BY <1>4, <2>1, <2>2, <2>3, <2>4, <2>5 DEF Sends
<1>6. /\ t[1].line \in 0..l /\ t[1].line \in Nat /\ Pos(t[1]) = <<t[1].line, t[1].at>>
      /\ t[1].at \in 1..(Length(p, t[1].line) + 1) /\ Length(p, t[1].line) \in Nat
  BY <1>2, <1>3, Lengthy DEF Sends, Pos, Byte
<1>7. Pos(b) = <<l, len + 1>> /\ b.end
  BY DEF Pos
<1>8. ~Earlier(Pos(b), Pos(t[1]))
  <2>1. CASE t[1].line = l
    BY <1>4, <1>6, <1>7, <2>1 DEF Earlier
  <2>2. CASE t[1].line # l
    BY <1>4, <1>6, <1>7, <2>2 DEF Earlier
  <2> QED
    BY <2>1, <2>2
<1> HIDE DEF b
<1>9. Pos(b) \in Position /\ Earlier(Pos(b), Past(p))
  BY <1>5, SendsPos
<1>10. ~Earlier(Pos(t[1]), x)
  BY <1>3 DEF Piece
<1>11. ~Earlier(Pos(b), x)
  BY <1>1, <1>2, <1>3, <1>8, <1>9, <1>10, Order
<1>12. PICK i \in 1..Len(t) : t[i] = b
  BY <1>5, <1>9, <1>11 DEF Piece
<1> QED
  BY <1>7, <1>12

(* A line is a piece. *)
LEMMA LineIsPiece ==
  ASSUME NEW c \in Clients, NEW p \in Seq(Lengths), NEW n \in 0..Len(p)
  PROVE  /\ Spot(p, <<n, 1>>) /\ Spot(p, <<n + 1, 1>>)
         /\ Piece(c, p, Line(c, n, Length(p, n)), <<n, 1>>, <<n + 1, 1>>)
<1> DEFINE len == Length(p, n)
           t == Line(c, n, len)
<1>1. n \in Nat /\ len \in Nat \ {0} /\ Len(p) \in Nat
  BY Lengthy
<1>2. Spot(p, <<n, 1>>)
  BY <1>1 DEF Spot, Position
<1>3. Spot(p, <<n + 1, 1>>)
  <2>1. CASE n = Len(p)
    BY <1>1, <2>1 DEF Spot, Position, Past
  <2>2. CASE n # Len(p)
    <3>1. n + 1 \in 0..Len(p)
      BY <1>1, <2>2
    <3>2. Length(p, n + 1) \in Nat \ {0}
      BY <3>1, Lengthy
    <3> QED
      BY <1>1, <3>1, <3>2 DEF Spot, Position
  <2> QED
    BY <2>1, <2>2
<1> HIDE DEF len
<1>4. \A i \in 1..(len + 1) :
        [client |-> c, line |-> n, at |-> i, end |-> i > len] \in Byte
  BY <1>1 DEF Byte
<1>5. /\ t \in Seq(Byte) /\ Len(t) = len + 1
      /\ \A i \in 1..(len + 1) :
           t[i] = [client |-> c, line |-> n, at |-> i, end |-> i > len]
  BY <1>1, <1>4 DEF Line
<1> HIDE DEF t
<1>0. ASSUME NEW i \in 1..(len + 1)
      PROVE  /\ i > len => t[i] = [client |-> c, line |-> n, at |-> i, end |-> TRUE]
             /\ ~(i > len) => t[i] = [client |-> c, line |-> n, at |-> i, end |-> FALSE]
  <2>1. t[i] = [client |-> c, line |-> n, at |-> i, end |-> i > len]
    BY <1>5
  <2>2. CASE i > len
    <3>1. (i > len) = TRUE
      BY <2>2
    <3> QED
      BY <2>1, <2>2, <3>1, Zenon
  <2>3. CASE ~(i > len)
    <3>1. (i > len) = FALSE
      BY <2>3
    <3> QED
      BY <2>1, <2>3, <3>1, Zenon
  <2> QED
    BY <2>2, <2>3
<1>6. ASSUME NEW i \in 1..(len + 1)
      PROVE  /\ Sends(c, p, t[i]) /\ Pos(t[i]) = <<n, i>>
             /\ ~Earlier(Pos(t[i]), <<n, 1>>) /\ Earlier(Pos(t[i]), <<n + 1, 1>>)
  <2>1. Pos(t[i]) = <<n, i>>
    BY <1>5 DEF Pos
  <2>5. t[i] \in Byte
    BY <1>4, <1>5
  <2>2. /\ t[i] \in Byte /\ t[i].client = c /\ t[i].line = n /\ t[i].at = i
        /\ (t[i].end <=> i > len)
    <3>1. CASE i > len
      <4>1. t[i] = [client |-> c, line |-> n, at |-> i, end |-> TRUE]
        BY <1>0, <3>1
      <4>2. t[i].client = c /\ t[i].line = n /\ t[i].at = i /\ t[i].end
        BY <4>1
      <4> QED
        BY <2>5, <3>1, <4>2
    <3>2. CASE ~(i > len)
      <4>1. t[i] = [client |-> c, line |-> n, at |-> i, end |-> FALSE]
        BY <1>0, <3>2
      <4>2. t[i].client = c /\ t[i].line = n /\ t[i].at = i /\ ~t[i].end
        BY <4>1
      <4> QED
        BY <2>5, <3>2, <4>2
    <3> QED
      BY <3>1, <3>2
  <2>3. Length(p, t[i].line) = len
    BY <2>2 DEF len
  <2>4. Sends(c, p, t[i])
    BY <1>1, <2>2, <2>3 DEF Sends
  <2> QED
    BY <1>1, <2>1, <2>4 DEF Earlier
<1>7. ASSUME NEW b, Sends(c, p, b), ~Earlier(Pos(b), <<n, 1>>),
             Earlier(Pos(b), <<n + 1, 1>>)
      PROVE  \E i \in 1..Len(t) : t[i] = b
  <2>1. /\ b \in Byte /\ b.client = c /\ b.line \in Nat /\ b.at \in Nat
        /\ (b.end <=> b.at > Length(p, b.line)) /\ b.at \in 1..(Length(p, b.line) + 1)
        /\ Pos(b) = <<b.line, b.at>>
    BY <1>7 DEF Sends, Pos, Byte
  <2>2. b.line = n
    BY <1>1, <1>7, <2>1 DEF Earlier
  <2>3. b.at \in 1..(len + 1) /\ (b.end <=> b.at > len) /\ b.end \in BOOLEAN
    BY <2>1, <2>2 DEF len, Byte
  <2>5. b = [client |-> c, line |-> n, at |-> b.at, end |-> b.end]
    BY <2>1, <2>2 DEF Byte
  <2>6. CASE b.end
    <3>1. b.end = TRUE /\ b.at > len
      BY <2>3, <2>6
    <3>2. t[b.at] = [client |-> c, line |-> n, at |-> b.at, end |-> TRUE]
      BY <1>0, <2>3, <3>1
    <3> QED
      BY <1>5, <2>3, <2>5, <3>1, <3>2
  <2>7. CASE ~b.end
    <3>1. b.end = FALSE /\ ~(b.at > len)
      BY <2>3, <2>7
    <3>2. t[b.at] = [client |-> c, line |-> n, at |-> b.at, end |-> FALSE]
      BY <1>0, <2>3, <3>1
    <3> QED
      BY <1>5, <2>3, <2>5, <3>1, <3>2
  <2> QED
    BY <2>6, <2>7
<1>8. ASSUME NEW i \in 1..Len(t), NEW j \in 1..Len(t), i < j
      PROVE  Earlier(Pos(t[i]), Pos(t[j]))
  BY <1>1, <1>5, <1>6, <1>8 DEF Earlier
<1>9. ~Earlier(<<n + 1, 1>>, <<n, 1>>)
  BY <1>1 DEF Earlier
<1>10. Piece(c, p, t, <<n, 1>>, <<n + 1, 1>>)
  BY <1>5, <1>6, <1>7, <1>8, <1>9 DEF Piece
<1> QED
  BY <1>2, <1>3, <1>10 DEF t, len

(* One more line leaves the pieces of the others what they are. *)
LEMMA StreamGrows ==
  ASSUME NEW c \in Clients, NEW p \in Seq(Lengths), NEW len \in Lengths
  PROVE  LET q == Append(p, len) IN
         /\ q \in Seq(Lengths) /\ Len(q) = Len(p) + 1 /\ Length(q, Len(q)) = len
         /\ \A b : Sends(c, p, b) => Sends(c, q, b)
         /\ \A b : Sends(c, q, b) /\ Earlier(Pos(b), Past(p)) => Sends(c, p, b)
         /\ \A x : Spot(p, x) => Spot(q, x)
         /\ Past(p) = <<Len(q), 1>> /\ Past(q) = <<Len(q) + 1, 1>>
<1> DEFINE q == Append(p, len)
<1>1. Len(p) \in Nat
  BY LenProperties
<1>2. /\ q \in Seq(Lengths) /\ Len(q) = Len(p) + 1 /\ q[Len(p) + 1] = len
      /\ \A i \in 1..Len(p) : q[i] = p[i]
  BY AppendProperties
<1> HIDE DEF q
<1>3. \A n \in 0..Len(p) : Length(q, n) = Length(p, n) /\ n \in 0..Len(q)
  BY <1>1, <1>2 DEF Length
<1>4. Length(q, Len(q)) = len
  BY <1>1, <1>2 DEF Length
<1>5. \A b : Sends(c, p, b) => Sends(c, q, b)
  BY <1>3 DEF Sends
<1>6. ASSUME NEW b, Sends(c, q, b), Earlier(Pos(b), Past(p)) PROVE Sends(c, p, b)
  <2>1. Pos(b)[1] = b.line /\ Pos(b)[2] = b.at /\ b.line \in Nat /\ b.at \in 1..(Length(q, b.line) + 1)
    BY <1>6, PosIs DEF Sends, Byte
  <2>2. b.at \in Nat /\ b.at >= 1
    BY <1>6 DEF Sends, Byte
  <2>3. b.line \in 0..Len(p)
    BY <1>1, <1>6, <2>1, <2>2 DEF Earlier, Past
  <2> QED
    BY <1>3, <1>6, <2>3 DEF Sends
<1>7. ASSUME NEW x, Spot(p, x) PROVE Spot(q, x)
  <2>1. CASE x = Past(p)
    <3>1. len \in Nat
      BY LogAssumption
    <3> QED
      BY <1>1, <1>2, <1>4, <2>1, <3>1 DEF Spot, Past, Position
  <2>2. CASE x # Past(p)
    <3>1. x[1] \in 0..Len(p)
      BY <1>1, <1>7, <2>2 DEF Spot, Position
    <3> QED
      BY <1>1, <1>2, <1>3, <1>7, <2>2, <3>1 DEF Spot
  <2> QED
    BY <2>1, <2>2
<1>8. Past(p) = <<Len(q), 1>> /\ Past(q) = <<Len(q) + 1, 1>>
  BY <1>2 DEF Past
<1> QED
  BY <1>2, <1>4, <1>5, <1>6, <1>7, <1>8 DEF q

LEMMA PieceStays ==
  ASSUME NEW c \in Clients, NEW p \in Seq(Lengths), NEW len \in Lengths,
         NEW x, NEW y, Spot(p, x), Spot(p, y), NEW t, Piece(c, p, t, x, y)
  PROVE  Piece(c, Append(p, len), t, x, y)
<1>1. y \in Position /\ Past(p) \in Position /\ ~Earlier(Past(p), y)
  BY SpotIs
<1> DEFINE q == Append(p, len)
<1>2. /\ q \in Seq(Lengths) /\ \A b : Sends(c, p, b) => Sends(c, q, b)
      /\ \A b : Sends(c, q, b) /\ Earlier(Pos(b), Past(p)) => Sends(c, p, b)
  BY StreamGrows
<1> HIDE DEF q
<1>3. ASSUME NEW b, Sends(c, q, b), Earlier(Pos(b), y) PROVE Sends(c, p, b)
  <2>1. Pos(b) \in Position
    BY <1>2, <1>3, SendsPos
  <2>2. Earlier(Pos(b), Past(p))
    BY <1>1, <1>3, <2>1, Order
  <2> QED
    BY <1>2, <1>3, <2>2
<1>4. Piece(c, q, t, x, y)
  BY <1>2, <1>3 DEF Piece
<1> QED
  BY <1>4 DEF q

-----------------------------------------------------------------------------
(* What is in the file. *)

Entry == [name : Clients \cup {None}, text : Seq(Byte)]
IsText(b) == b.line > 0 /\ ~b.end
Inside(lg, i, j) == i \in 1..Len(lg) /\ j \in 1..Len(lg[i].text)

(* Of the stream before x the file has, in its order, what it owes to the  *)
(* lines sh that are shown, and perhaps more.                              *)
Owed(sh, b) == IsText(b) /\ <<b.client, b.line>> \in sh /\ b.at \in 2..(MaxMsg - 1)
InLog(c, p, sh, lg, x) ==
  /\ \A i, j : Inside(lg, i, j) /\ lg[i].text[j].client = c =>
       LET b == lg[i].text[j] IN
       Sends(c, p, b) /\ IsText(b) /\ Earlier(Pos(b), x)
  /\ \A b : Sends(c, p, b) /\ Owed(sh, b) /\ Earlier(Pos(b), x) =>
       \E i, j : Inside(lg, i, j) /\ lg[i].text[j] = b
  /\ \A i, j, k, l :
       /\ Inside(lg, i, j) /\ lg[i].text[j].client = c
       /\ Inside(lg, k, l) /\ lg[k].text[l].client = c
       /\ i < k \/ (i = k /\ j < l)
       => Earlier(Pos(lg[i].text[j]), Pos(lg[k].text[l]))

LEMMA AppendLog ==
  ASSUME NEW lg \in Seq(Entry), NEW e \in Entry
  PROVE  LET l2 == Append(lg, e) IN
         /\ l2 \in Seq(Entry) /\ Len(lg) \in Nat /\ Len(l2) = Len(lg) + 1
         /\ \A i, j : Inside(l2, i, j) <=> \/ Inside(lg, i, j)
                                           \/ i = Len(lg) + 1 /\ j \in 1..Len(e.text)
         /\ \A i, j : Inside(lg, i, j) => l2[i] = lg[i] /\ i \in 1..Len(lg)
         /\ l2[Len(lg) + 1] = e
<1> DEFINE l2 == Append(lg, e)
<1>1. /\ l2 \in Seq(Entry) /\ Len(l2) = Len(lg) + 1 /\ l2[Len(lg) + 1] = e
      /\ \A i \in 1..Len(lg) : l2[i] = lg[i]
  BY AppendProperties
<1>2. Len(lg) \in Nat
  BY LenProperties
<1> HIDE DEF l2
<1>3. \A i, j : Inside(lg, i, j) => l2[i] = lg[i] /\ i \in 1..Len(lg)
  BY <1>1 DEF Inside
<1>4. ASSUME NEW i, NEW j
      PROVE  Inside(l2, i, j) <=> \/ Inside(lg, i, j)
                                  \/ i = Len(lg) + 1 /\ j \in 1..Len(e.text)
  <2>1. CASE i \in 1..Len(lg)
    BY <1>1, <1>2, <2>1 DEF Inside
  <2>2. CASE i = Len(lg) + 1
    BY <1>1, <1>2, <2>2 DEF Inside
  <2>3. CASE ~(i \in 1..Len(lg)) /\ i # Len(lg) + 1
    BY <1>1, <1>2, <2>3 DEF Inside
  <2> QED
    BY <2>1, <2>2, <2>3
<1> QED
  BY <1>1, <1>2, <1>3, <1>4 DEF l2

(* The text between two positions takes the file from one to the other. *)
LEMMA LogGrows ==
  ASSUME NEW c \in Clients, NEW p \in Seq(Lengths), NEW x, NEW y, Spot(p, x),
         Spot(p, y), ~Earlier(y, x), NEW lg \in Seq(Entry), NEW e \in Entry, NEW sh,
         InLog(c, p, sh, lg, x),
         \A i \in 1..Len(e.text) :
           LET b == e.text[i] IN
           Sends(c, p, b) /\ IsText(b) /\ ~Earlier(Pos(b), x) /\ Earlier(Pos(b), y),
         \A b : Sends(c, p, b) /\ Owed(sh, b) /\ ~Earlier(Pos(b), x) /\ Earlier(Pos(b), y)
                  => \E i \in 1..Len(e.text) : e.text[i] = b,
         \A i, j \in 1..Len(e.text) : i < j => Earlier(Pos(e.text[i]), Pos(e.text[j]))
  PROVE  InLog(c, p, sh, Append(lg, e), y)
<1> DEFINE l2 == Append(lg, e)
           n == Len(lg) + 1
<1>1. /\ Len(lg) \in Nat
      /\ \A i, j : Inside(l2, i, j) <=> \/ Inside(lg, i, j)
                                        \/ i = n /\ j \in 1..Len(e.text)
      /\ \A i, j : Inside(lg, i, j) => l2[i] = lg[i] /\ i \in 1..Len(lg)
      /\ l2[n] = e
  BY AppendLog
<1> HIDE DEF l2
<1>2. x \in Position /\ y \in Position
  BY SpotIs
<1>3. ASSUME NEW i, NEW j, Inside(l2, i, j), l2[i].text[j].client = c
      PROVE  LET b == l2[i].text[j] IN
             Sends(c, p, b) /\ IsText(b) /\ Earlier(Pos(b), y)
  <2>1. CASE Inside(lg, i, j)
    <3> DEFINE b == lg[i].text[j]
    <3>1. Sends(c, p, b) /\ IsText(b) /\ Earlier(Pos(b), x) /\ l2[i] = lg[i]
      BY <1>1, <1>3, <2>1 DEF InLog
    <3>2. Pos(b) \in Position
      BY <3>1, SendsPos
    <3> HIDE DEF b
    <3>3. Earlier(Pos(b), y)
      BY <1>2, <3>1, <3>2, Order
    <3> QED
      BY <3>1, <3>3 DEF b
  <2>2. CASE i = n /\ j \in 1..Len(e.text)
    BY <1>1, <2>2
  <2> QED
    BY <1>1, <1>3, <2>1, <2>2
<1>4. ASSUME NEW b, Sends(c, p, b), Owed(sh, b), Earlier(Pos(b), y)
      PROVE  \E i, j : Inside(l2, i, j) /\ l2[i].text[j] = b
  <2>1. CASE Earlier(Pos(b), x)
    <3>1. PICK i, j : Inside(lg, i, j) /\ lg[i].text[j] = b
      BY <1>4, <2>1 DEF InLog
    <3> QED
      BY <1>1, <3>1
  <2>2. CASE ~Earlier(Pos(b), x)
    <3>1. PICK j \in 1..Len(e.text) : e.text[j] = b
      BY <1>4, <2>2
    <3>2. Inside(l2, n, j) /\ l2[n].text[j] = b
      BY <1>1, <3>1
    <3> QED
      BY <3>2
  <2> QED
    BY <2>1, <2>2
<1>5. ASSUME NEW i, NEW j, NEW k, NEW l,
             Inside(l2, i, j), l2[i].text[j].client = c,
             Inside(l2, k, l), l2[k].text[l].client = c, i < k \/ (i = k /\ j < l)
      PROVE  Earlier(Pos(l2[i].text[j]), Pos(l2[k].text[l]))
  <2>1. CASE Inside(lg, i, j) /\ Inside(lg, k, l)
    <3>1. l2[i] = lg[i] /\ l2[k] = lg[k]
      BY <1>1, <2>1
    <3> QED
      BY <1>5, <2>1, <3>1 DEF InLog
  <2>2. CASE Inside(lg, i, j) /\ k = n /\ l \in 1..Len(e.text)
    <3> DEFINE a == lg[i].text[j]
               b == e.text[l]
    <3>1. /\ l2[i].text[j] = a /\ l2[k].text[l] = b
          /\ Sends(c, p, a) /\ Earlier(Pos(a), x)
      BY <1>1, <1>5, <2>2 DEF InLog
    <3>2. Sends(c, p, b) /\ ~Earlier(Pos(b), x)
      BY <2>2
    <3>3. Pos(a) \in Position /\ Pos(b) \in Position
      BY <3>1, <3>2, SendsPos
    <3> HIDE DEF a, b
    <3> QED
      BY <1>2, <3>1, <3>2, <3>3, Order
  <2>3. CASE i = n /\ j \in 1..Len(e.text) /\ k = n /\ l \in 1..Len(e.text)
    <3>1. j < l
      BY <1>1, <1>5, <2>3
    <3> QED
      BY <1>1, <2>3, <3>1
  <2>4. CASE i = n /\ Inside(lg, k, l)
    <3>1. k \in 1..Len(lg)
      BY <1>1, <2>4
    <3> QED
      BY <1>1, <1>5, <2>4, <3>1
  <2> QED
    BY <1>1, <1>5, <2>1, <2>2, <2>3, <2>4
<1>6. InLog(c, p, sh, l2, y)
  BY <1>3, <1>4, <1>5 DEF InLog
<1> QED
  BY <1>6 DEF l2

(* Where nothing is owed nothing need be logged. *)
LEMMA LogSkips ==
  ASSUME NEW c \in Clients, NEW p \in Seq(Lengths), NEW x, NEW y, Spot(p, x),
         Spot(p, y), ~Earlier(y, x), NEW lg, NEW sh, InLog(c, p, sh, lg, x),
         \A b : Sends(c, p, b) /\ ~Earlier(Pos(b), x) /\ Earlier(Pos(b), y) => ~Owed(sh, b)
  PROVE  InLog(c, p, sh, lg, y)
<1>1. x \in Position /\ y \in Position
  BY SpotIs
<1>2. ASSUME NEW b, Sends(c, p, b), Earlier(Pos(b), x) PROVE Earlier(Pos(b), y)
  <2>1. Pos(b) \in Position
    BY <1>2, SendsPos
  <2> QED
    BY <1>1, <1>2, <2>1, Order
<1> QED
  BY <1>2 DEF InLog

(* A line of one client's is not of another's stream. *)
LEMMA LogOfOthers ==
  ASSUME NEW c, NEW d, c # d, NEW p, NEW x, NEW lg \in Seq(Entry), NEW e \in Entry,
         NEW sh, InLog(d, p, sh, lg, x), \A i \in 1..Len(e.text) : e.text[i].client = c
  PROVE  InLog(d, p, sh, Append(lg, e), x)
<1> DEFINE l2 == Append(lg, e)
           n == Len(lg) + 1
<1>1. /\ \A i, j : Inside(l2, i, j) <=> \/ Inside(lg, i, j)
                                        \/ i = n /\ j \in 1..Len(e.text)
      /\ \A i, j : Inside(lg, i, j) => l2[i] = lg[i]
      /\ l2[n] = e
  BY AppendLog
<1> HIDE DEF l2
<1>2. \A i, j : Inside(l2, i, j) /\ l2[i].text[j].client = d =>
                  Inside(lg, i, j) /\ l2[i].text[j] = lg[i].text[j]
  BY <1>1
<1>3. \A i, j : Inside(lg, i, j) => Inside(l2, i, j) /\ l2[i].text[j] = lg[i].text[j]
  BY <1>1
<1>4. /\ \A i, j : Inside(l2, i, j) /\ l2[i].text[j].client = d =>
           LET b == l2[i].text[j] IN
           Sends(d, p, b) /\ IsText(b) /\ Earlier(Pos(b), x)
      /\ \A b : Sends(d, p, b) /\ Owed(sh, b) /\ Earlier(Pos(b), x) =>
           \E i, j : Inside(l2, i, j) /\ l2[i].text[j] = b
  BY <1>2, <1>3 DEF InLog
<1>5. ASSUME NEW i, NEW j, NEW k, NEW l,
             Inside(l2, i, j), l2[i].text[j].client = d,
             Inside(l2, k, l), l2[k].text[l].client = d, i < k \/ (i = k /\ j < l)
      PROVE  Earlier(Pos(l2[i].text[j]), Pos(l2[k].text[l]))
  <2>1. /\ Inside(lg, i, j) /\ l2[i].text[j] = lg[i].text[j]
        /\ Inside(lg, k, l) /\ l2[k].text[l] = lg[k].text[l]
    BY <1>2, <1>5
  <2>2. lg[i].text[j].client = d /\ lg[k].text[l].client = d
    BY <1>5, <2>1
  <2>3. Earlier(Pos(lg[i].text[j]), Pos(lg[k].text[l]))
    BY <1>5, <2>1, <2>2 DEF InLog
  <2> QED
    BY <2>1, <2>3
<1>6. InLog(d, p, sh, l2, x)
  BY <1>4, <1>5 DEF InLog
<1> QED
  BY <1>6 DEF l2

LEMMA LogStays ==
  ASSUME NEW c \in Clients, NEW p \in Seq(Lengths), NEW len \in Lengths,
         NEW x, Spot(p, x), NEW lg, NEW sh, InLog(c, p, sh, lg, x)
  PROVE  InLog(c, Append(p, len), sh, lg, x)
<1>1. x \in Position /\ Past(p) \in Position /\ ~Earlier(Past(p), x)
  BY SpotIs
<1> DEFINE q == Append(p, len)
<1>2. /\ q \in Seq(Lengths) /\ \A b : Sends(c, p, b) => Sends(c, q, b)
      /\ \A b : Sends(c, q, b) /\ Earlier(Pos(b), Past(p)) => Sends(c, p, b)
  BY StreamGrows
<1> HIDE DEF q
<1>3. ASSUME NEW b, Sends(c, q, b), Earlier(Pos(b), x) PROVE Sends(c, p, b)
  <2>1. Pos(b) \in Position
    BY <1>2, <1>3, SendsPos
  <2>2. Earlier(Pos(b), Past(p))
    BY <1>1, <1>3, <2>1, Order
  <2> QED
    BY <1>2, <1>3, <2>2
<1>4. InLog(c, q, sh, lg, x)
  BY <1>2, <1>3 DEF InLog
<1> QED
  BY <1>4 DEF q

(* And what is shown of other lines is of no concern. *)
LEMMA LogOwes ==
  ASSUME NEW c, NEW p, NEW x, NEW lg, NEW sh, NEW sh2, InLog(c, p, sh, lg, x),
         \A b : Sends(c, p, b) /\ Owed(sh2, b) => Owed(sh, b)
  PROVE  InLog(c, p, sh2, lg, x)
BY DEF InLog

-----------------------------------------------------------------------------
(* Types. *)

Phases == {"new", "queued", "leaving", "open", "closed", "broken", "refused",
           "dropped"}
Flags == {"CONNECT", "DATA", "ERR", "CLOSE"}

ClientTypes ==
  /\ cut \in BOOLEAN /\ phase \in [Clients -> Phases]
  /\ printed \in [Clients -> Seq(Lengths)] /\ wire \in [Clients -> Seq(Byte)]
SlotTypes ==
  /\ turn \in {None} \cup Slots /\ fd \in [Slots -> Clients \cup {None}]
  /\ flags \in [Slots -> SUBSET Flags] /\ recvBuf \in [Slots -> Seq(Byte)]
LogTypes ==
  /\ name \in [Slots -> Clients \cup {None}] /\ log \in Seq(Entry)

(* Only what is connected can fail or close. *)
Attached == \A s \in Slots : Deleted(s) => fd[s] # None

Types == ClientTypes /\ SlotTypes /\ LogTypes /\ Attached

LEMMA Numbers ==
  /\ MaxClients \in Nat \ {0} /\ MaxMsg \in Nat /\ MaxMsg > 1 /\ None = 0
  /\ Clients \subseteq Nat \ {0} /\ None \notin Clients /\ None \notin Slots
  /\ Lengths \subseteq Nat \ {0} /\ Slots \subseteq Nat /\ 1 \in Slots
  /\ \A s \in Slots : s # MaxClients => s + 1 \in Slots
BY LogAssumption DEF None, Slots

LEMMA LineType ==
  ASSUME NEW c \in Clients, NEW n \in Nat, NEW len \in Nat
  PROVE  Line(c, n, len) \in Seq(Byte) /\ Len(Line(c, n, len)) = len + 1
<1>1. \A i \in 1..(len + 1) :
        [client |-> c, line |-> n, at |-> i, end |-> i > len] \in Byte
  BY DEF Byte
<1> QED
  BY <1>1 DEF Line

LEMMA PartOf ==
  ASSUME NEW t \in Seq(Byte), NEW m \in 1..(Len(t) + 1), NEW n \in 0..Len(t)
  PROVE  /\ SubSeq(t, m, n) \in Seq(Byte)
         /\ Len(SubSeq(t, m, n)) = IF m <= n THEN (n - m) + 1 ELSE 0
         /\ \A i \in 1..Len(SubSeq(t, m, n)) :
              SubSeq(t, m, n)[i] = t[(m + i) - 1] /\ (m + i) - 1 \in m..n
<1>1. Len(t) \in Nat /\ \A i \in 1..Len(t) : t[i] \in Byte
  BY LenProperties, ElementOfSeq
<1>2. \A i \in m..n : t[i] \in Byte
  BY <1>1
<1>3. /\ SubSeq(t, m, n) \in Seq(Byte)
      /\ Len(SubSeq(t, m, n)) = IF m <= n THEN (n - m) + 1 ELSE 0
      /\ \A i \in 1..((n - m) + 1) : SubSeq(t, m, n)[i] = t[(m + i) - 1]
  BY <1>1, <1>2, SubSeqProperties
<1> QED
  BY <1>1, <1>3

LEMMA InitTypes == Init => Types
<1> SUFFICES ASSUME Init PROVE Types
  OBVIOUS
<1>1. <<>> \in Seq(Byte) /\ <<>> \in Seq(Lengths) /\ <<>> \in Seq(Entry)
  OBVIOUS
<1> QED
  BY <1>1 DEF Init, Types, ClientTypes, SlotTypes, LogTypes, Attached, Deleted,
     Phases

LEMMA ClientsKeepTypes ==
  ASSUME Types, NEW c \in Clients, Connect(c) \/ PrintLine(c) \/ Close(c)
  PROVE  Types'
<1> USE DEF Types, ClientTypes
<1>1. UNCHANGED server
  BY DEF Connect, PrintLine, Close
<1>2. SlotTypes' /\ LogTypes' /\ Attached'
  BY <1>1 DEF server, SlotTypes, LogTypes, Attached, Deleted
<1>3. ASSUME Connect(c) PROVE ClientTypes'
  <2>1. Line(c, 0, 1) \in Seq(Byte)
    BY LineType
  <2> QED
    BY <1>3, <2>1 DEF Connect, Phases
<1>4. ASSUME PrintLine(c) PROVE ClientTypes'
  <2>1. PICK len \in Lengths : LET line == Line(c, Len(printed[c]) + 1, len) IN
          /\ printed' = [printed EXCEPT ![c] = Append(@, len)]
          /\ \E sent \in IF MayCut THEN 1..len + 1 ELSE {len + 1} :
               /\ wire' = [wire EXCEPT ![c] = @ \o SubSeq(line, 1, sent)]
               /\ cut' = (cut \/ sent <= len)
    BY <1>4 DEF PrintLine
  <2> DEFINE line == Line(c, Len(printed[c]) + 1, len)
  <2>9. PICK sent \in IF MayCut THEN 1..len + 1 ELSE {len + 1} :
          /\ wire' = [wire EXCEPT ![c] = @ \o SubSeq(line, 1, sent)]
          /\ cut' = (cut \/ sent <= len)
    BY <2>1
  <2>3. len \in Nat /\ Len(printed[c]) \in Nat
    BY Numbers, LenProperties
  <2>2. /\ sent \in 1..(len + 1) /\ wire' = [wire EXCEPT ![c] = @ \o SubSeq(line, 1, sent)]
        /\ cut' \in BOOLEAN
    BY <2>3, <2>9
  <2>4. line \in Seq(Byte) /\ Len(line) = len + 1
    BY <2>3, LineType
  <2> HIDE DEF line
  <2>5. SubSeq(line, 1, sent) \in Seq(Byte)
    BY <2>3, <2>4, PartOf
  <2>6. wire[c] \o SubSeq(line, 1, sent) \in Seq(Byte)
    BY <2>5, ConcatProperties
  <2>7. Append(printed[c], len) \in Seq(Lengths)
    BY AppendProperties
  <2>8. phase' = phase
    BY <1>4 DEF PrintLine
  <2> QED
    BY <2>1, <2>2, <2>6, <2>7, <2>8
<1>5. ASSUME Close(c) PROVE ClientTypes'
  <2>1. <<>> \in Seq(Byte)
    OBVIOUS
  <2> QED
    BY <1>5, <2>1 DEF Close, Phases, MayCut
<1> QED
  BY <1>2, <1>3, <1>4, <1>5

LEMMA RefuseKeepsTypes ==
  ASSUME Types, Refuse PROVE Types'
<1>1. <<>> \in Seq(Byte)
  OBVIOUS
<1> QED
  BY <1>1 DEF Refuse, Types, ClientTypes, server, SlotTypes, LogTypes, Attached,
     Deleted, Phases, Waiting

(* What is received is of bytes, and within the room. *)
LEMMA ReceivedType ==
  ASSUME ClientTypes, SlotTypes, NEW s \in Slots, NEW n,
         n \in IF Readable(s) THEN Counts(s) ELSE {0}
  PROVE  /\ n \in Nat /\ Received(s, n) \in Seq(Byte)
         /\ ~Broken(s) =>
              /\ Len(Received(s, n)) = n
              /\ fd[s] # None => /\ n \in 0..Len(wire[fd[s]])
                                 /\ Received(s, n) = SubSeq(wire[fd[s]], 1, n)
              /\ fd[s] = None => n = 0 /\ Received(s, n) = <<>>
<1> USE DEF ClientTypes, SlotTypes
<1>1. Len(recvBuf[s]) \in Nat
  BY LenProperties
<1>2. Room(s) \in Int
  BY <1>1, Numbers DEF Room
<1>3. n \in Nat
  BY <1>2 DEF Counts
<1>4. CASE Broken(s)
  <2>1. \A i \in 1..Room(s) : Stale \in Byte
    BY Numbers DEF Stale, Byte
  <2>2. CASE Room(s) \in Nat
    <3>0. PICK r \in Nat : r = Room(s)
      BY <2>2
    <3>2. \A i \in 1..r : Stale \in Byte
      BY <2>1, <3>0
    <3>3. [i \in 1..r |-> Stale] \in Seq(Byte)
      BY <3>2
    <3>1. [i \in 1..Room(s) |-> Stale] \in Seq(Byte)
      BY <3>0, <3>3
    <3> QED
      BY <1>3, <1>4, <3>1 DEF Received
  <2>3. CASE Room(s) \notin Nat
    <3>1. 1..Room(s) = 1..0
      BY <1>2, <2>3
    <3>2. [i \in 1..0 |-> Stale] \in Seq(Byte)
      BY <2>1
    <3> QED
      BY <1>3, <1>4, <3>1, <3>2 DEF Received
  <2> QED
    BY <2>2, <2>3
<1>5. CASE ~Broken(s) /\ fd[s] # None
  <2>1. wire[fd[s]] \in Seq(Byte)
    BY <1>5
  <2>2. n \in 0..Len(wire[fd[s]])
    <3>1. Len(wire[fd[s]]) \in Nat
      BY <2>1, LenProperties
    <3> QED
      BY <1>3, <3>1 DEF Counts
  <2>3. SubSeq(wire[fd[s]], 1, n) \in Seq(Byte) /\ Len(SubSeq(wire[fd[s]], 1, n)) = n
    BY <1>3, <2>1, <2>2, PartOf, LenProperties
  <2> QED
    BY <1>3, <1>5, <2>2, <2>3 DEF Received
<1>6. CASE ~Broken(s) /\ fd[s] = None
  BY <1>3, <1>6 DEF Received, Readable
<1> QED
  BY <1>4, <1>5, <1>6

LEMMA SelectKeepsTypes ==
  ASSUME Types, Select PROVE Types'
<1> USE DEF Types, ClientTypes, SlotTypes
<1>1. PICK new \in Waiting \cup {None}, count \in [Slots -> 0..MaxMsg] :
       /\ Accepts(new) /\ (new # None \/ \E s \in Slots : Readable(s))
       /\ \A s \in Slots :
            count[s] \in IF Readable(s) THEN Counts(s) ELSE {0}
       /\ fd' = [s \in Slots |-> IF Fills(new, s) THEN new ELSE fd[s]]
       /\ phase' = [c \in Clients |->
            IF c # new THEN phase[c]
            ELSE IF phase[c] = "leaving" THEN "closed" ELSE "open"]
       /\ recvBuf' = [s \in Slots |-> recvBuf[s] \o Received(s, count[s])]
       /\ wire' = [c \in Clients |->
            IF \E s \in Slots : fd[s] = c
            THEN SubSeq(wire[c], count[SlotOf(c)] + 1, Len(wire[c]))
            ELSE wire[c]]
       /\ flags' = [s \in Slots |->
            IF Readable(s) THEN RecvFlags(s, count[s])
            ELSE (flags[s] \ {"DATA"})
                   \cup (IF Fills(new, s) THEN {"CONNECT"} ELSE {})]
  BY Zenon DEF Select
<1>2. turn' \in {None} \cup Slots /\ UNCHANGED <<cut, printed, shown, name, log>>
  BY Numbers DEF Select
<1>3. new \in Clients \cup {None}
  BY DEF Waiting
<1>4. fd' \in [Slots -> Clients \cup {None}]
  BY <1>1, <1>3
<1>5. phase' \in [Clients -> Phases]
  BY <1>1 DEF Phases
<1>6. recvBuf' \in [Slots -> Seq(Byte)]
  <2>1. \A s \in Slots : Received(s, count[s]) \in Seq(Byte)
    BY <1>1, ReceivedType
  <2>2. \A s \in Slots : recvBuf[s] \o Received(s, count[s]) \in Seq(Byte)
    BY <2>1, ConcatProperties
  <2> QED
    BY <1>1, <2>2
<1>7. wire' \in [Clients -> Seq(Byte)]
  <2>1. ASSUME NEW c \in Clients, \E s \in Slots : fd[s] = c
        PROVE  SubSeq(wire[c], count[SlotOf(c)] + 1, Len(wire[c])) \in Seq(Byte)
    <3> DEFINE s == SlotOf(c)
    <3>1. s \in Slots /\ fd[s] = c
      BY <2>1 DEF SlotOf
    <3>2. c # None
      BY Numbers
    <3>3. count[s] \in Nat /\ Len(wire[c]) \in Nat
      <4>1. count[s] \in 0..MaxMsg
        BY <1>1, <3>1
      <4> QED
        BY <4>1, Numbers, LenProperties
    <3>4. count[s] <= Len(wire[c])
      <4>1. CASE Readable(s)
        BY <1>1, <3>1, <4>1 DEF Counts
      <4>2. CASE ~Readable(s)
        BY <1>1, <3>1, <3>3, <4>2
      <4> QED
        BY <4>1, <4>2
    <3> HIDE DEF s
    <3>5. count[s] + 1 \in 1..(Len(wire[c]) + 1) /\ Len(wire[c]) \in 0..Len(wire[c])
      BY <3>3, <3>4
    <3>6. SubSeq(wire[c], count[s] + 1, Len(wire[c])) \in Seq(Byte)
      BY <3>5, PartOf
    <3> QED
      BY <3>6 DEF s
  <2> QED
    BY <1>1, <2>1
<1>8. flags' \in [Slots -> SUBSET Flags]
  BY <1>1 DEF RecvFlags, Flags
<1>9. Attached'
  <2> SUFFICES ASSUME NEW s \in Slots, Deleted(s)' PROVE fd'[s] # None
    BY DEF Attached
  <2>1. flags'[s] \cap {"ERR", "CLOSE"} # {}
    BY DEF Deleted
  <2>2. CASE Fills(new, s)
    BY <1>1, <2>2 DEF Fills
  <2>3. CASE ~Fills(new, s)
    <3>1. fd'[s] = fd[s]
      BY <1>1, <2>3
    <3>2. CASE Readable(s)
      BY <3>1, <3>2 DEF Readable
    <3>3. CASE ~Readable(s)
      <4>1. flags'[s] = flags[s] \ {"DATA"}
        BY <1>1, <2>3, <3>3
      <4>2. Deleted(s)
        BY <2>1, <4>1 DEF Deleted
      <4> QED
        BY <3>1, <4>2 DEF Attached
    <3> QED
      BY <3>2, <3>3
  <2> QED
    BY <2>2, <2>3
<1> QED
  BY <1>2, <1>4, <1>5, <1>6, <1>7, <1>8, <1>9 DEF LogTypes

LEMMA LoggingTypes ==
  ASSUME LogTypes, turn \in Slots, NEW t \in Seq(Byte), Len(t) > 0, LogString(t)
  PROVE  LogTypes'
<1> USE DEF LogTypes
<1>1. Len(t) \in Nat /\ 1 \in 1..Len(t) /\ t[1] \in Byte
  BY LenProperties, ElementOfSeq
<1>2. CASE Command(t)
  <2>1. t[1].client \in Clients \cup {None}
    BY <1>1 DEF Byte
  <2> QED
    BY <1>2, <2>1 DEF LogString
<1>3. CASE ~Command(t)
  <2> DEFINE e == [name |-> name[turn], text |-> Tail(t)]
  <2>1. e \in Entry
    <3>1. t # <<>>
      BY EmptySeq
    <3>2. Tail(t) \in Seq(Byte)
      BY <3>1, HeadTailProperties
    <3> QED
      BY <3>2 DEF Entry
  <2>2. Append(log, e) \in Seq(Entry)
    BY <2>1, AppendProperties
  <2>3. log' \in {log, Append(log, e)} /\ name' = name
    BY <1>3 DEF LogString, LogText
  <2> QED
    BY <2>2, <2>3
<1> QED
  BY <1>2, <1>3

LEMMA LogLineKeepsTypes ==
  ASSUME Types, LogLine PROVE Types'
<1> USE DEF Types, SlotTypes
<1> DEFINE buf == recvBuf[turn]
<1>1. PICK stop \in Ends(buf) :
       /\ IF stop = 1 THEN UNCHANGED <<name, log>>
          ELSE LogString(SubSeq(buf, 1, stop - 1))
       /\ recvBuf' = [recvBuf EXCEPT ![turn] = SubSeq(buf, stop + 1, Len(buf))]
  BY DEF LogLine
<1>2. turn \in Slots /\ UNCHANGED <<cut, phase, printed, shown, wire, fd, flags, turn>>
  BY DEF LogLine, client
<1>3. buf \in Seq(Byte) /\ Len(buf) \in Nat /\ stop \in 1..Len(buf)
  BY <1>2, LenProperties DEF Ends
<1>4. SubSeq(buf, stop + 1, Len(buf)) \in Seq(Byte)
  <2>1. stop + 1 \in 1..(Len(buf) + 1) /\ Len(buf) \in 0..Len(buf)
    BY <1>3
  <2> QED
    BY <1>3, <2>1, PartOf
<1>5. LogTypes'
  <2>1. CASE stop = 1
    BY <1>1, <2>1 DEF LogTypes
  <2>2. CASE stop # 1
    <3>1. 1 \in 1..(Len(buf) + 1) /\ stop - 1 \in 0..Len(buf) /\ 1 <= stop - 1
      BY <1>3, <2>2
    <3>2. SubSeq(buf, 1, stop - 1) \in Seq(Byte) /\ Len(SubSeq(buf, 1, stop - 1)) > 0
      BY <1>3, <3>1, PartOf
    <3> QED
      BY <1>1, <1>2, <2>2, <3>2, LoggingTypes
  <2> QED
    BY <2>1, <2>2
<1>6. recvBuf' \in [Slots -> Seq(Byte)]
  BY <1>1, <1>4
<1> QED
  BY <1>2, <1>5, <1>6 DEF ClientTypes, Attached, Deleted

LEMMA EndTurnKeepsTypes ==
  ASSUME Types, EndTurn PROVE Types'
<1> USE DEF Types, SlotTypes
<1> DEFINE buf == recvBuf[turn]
<1>1. turn \in Slots /\ KeepRest /\ UNCHANGED <<cut, printed>>
      /\ turn' = IF turn = MaxClients THEN None ELSE turn + 1
  BY DEF EndTurn
<1>2. turn' \in {None} \cup Slots
  BY <1>1, Numbers
<1>3. buf \in Seq(Byte) /\ Len(buf) \in Nat
  BY <1>1, LenProperties
<1>4. LogTypes' /\ recvBuf' \in [Slots -> Seq(Byte)]
  <2>1. CASE Processed(turn) /\ Exceeded(buf)
    <3>0. Len(buf) = MaxMsg
      BY <2>1 DEF Exceeded
    <3>1. 1 \in 1..(Len(buf) + 1) /\ Len(buf) - 1 \in 0..Len(buf) /\ 1 <= Len(buf) - 1
          /\ Len(buf) \in 1..Len(buf)
      BY <1>3, <3>0, Numbers
    <3>2. /\ SubSeq(buf, 1, Len(buf) - 1) \in Seq(Byte)
          /\ Len(SubSeq(buf, 1, Len(buf) - 1)) > 0
      BY <1>3, <3>1, PartOf
    <3>3. buf[Len(buf)] \in Byte
      BY <1>3, <3>1, ElementOfSeq
    <3>4. Kept(buf) \in Seq(Byte)
      BY <3>3 DEF Kept
    <3>5. LogString(SubSeq(buf, 1, Len(buf) - 1))
          /\ recvBuf' = [recvBuf EXCEPT ![turn] = Kept(buf)]
      BY <1>1, <2>1 DEF KeepRest
    <3> QED
      BY <1>1, <3>2, <3>4, <3>5, LoggingTypes
  <2>2. CASE ~(Processed(turn) /\ Exceeded(buf))
    BY <1>1, <2>2 DEF KeepRest, LogTypes
  <2> QED
    BY <2>1, <2>2
<1>5. CASE Deleted(turn)
  <2>1. /\ phase' = [phase EXCEPT ![fd[turn]] = IF @ = "open" THEN "dropped" ELSE @]
        /\ wire' = [wire EXCEPT ![fd[turn]] = <<>>]
        /\ fd' = [fd EXCEPT ![turn] = None] /\ flags' = [flags EXCEPT ![turn] = {}]
    BY <1>5 DEF EndTurn
  <2>2. <<>> \in Seq(Byte)
    OBVIOUS
  <2>3. ClientTypes'
    BY <1>1, <2>1, <2>2 DEF ClientTypes, Phases
  <2>4. fd' \in [Slots -> Clients \cup {None}] /\ flags' \in [Slots -> SUBSET Flags]
    BY <1>1, <2>1
  <2>5. Attached'
    BY <1>1, <2>1 DEF Attached, Deleted
  <2> QED
    BY <1>2, <1>4, <2>3, <2>4, <2>5
<1>6. CASE ~Deleted(turn)
  <2>1. flags' = [flags EXCEPT ![turn] = @ \ {"CONNECT"}] /\ UNCHANGED <<phase, wire, fd>>
    BY <1>6 DEF EndTurn
  <2>2. Attached'
    BY <1>1, <2>1 DEF Attached, Deleted
  <2>3. flags' \in [Slots -> SUBSET Flags]
    BY <1>1, <2>1
  <2> QED
    BY <1>1, <1>2, <1>4, <2>1, <2>2, <2>3 DEF ClientTypes
<1> QED
  BY <1>5, <1>6

LEMMA StepTypes == Types /\ [Next]_vars => Types'
<1> SUFFICES ASSUME Types, [Next]_vars PROVE Types'
  OBVIOUS
<1>1. CASE UNCHANGED vars
  BY <1>1 DEF vars, Types, ClientTypes, SlotTypes, LogTypes, Attached, Deleted
<1>2. CASE Next
  BY <1>2, ClientsKeepTypes, RefuseKeepsTypes, SelectKeepsTypes, LogLineKeepsTypes,
     EndTurnKeepsTypes DEF Next, Server
<1> QED
  BY <1>1, <1>2

-----------------------------------------------------------------------------
(* The invariant, of behaviours whose sends are whole: a slot has the      *)
(* piece of its client's stream that follows what is in the file, and the  *)
(* wire has the rest.                                                      *)

Busy(s) == turn # None /\ turn <= s /\ Processed(s)
SlotIs(s) ==
  /\ fd[s] = None => recvBuf[s] = <<>>
  /\ fd[s] # None => phase[fd[s]] \in {"open", "closed"}
  /\ IF Busy(s) THEN Len(recvBuf[s]) <= MaxMsg /\ ~Deleted(s)
     ELSE Ends(recvBuf[s]) = {} /\ Len(recvBuf[s]) < MaxMsg
  /\ Deleted(s) => /\ turn # None /\ turn <= s /\ phase[fd[s]] = "closed"
                   /\ wire[fd[s]] = <<>> /\ recvBuf[s] = <<>>
Distinct == \A s, t \in Slots : fd[s] # None /\ fd[s] = fd[t] => s = t

(* Where a slot's piece begins: a line, or the byte kept of a full buffer. *)
Starts(x) == (x[1] = 0 => x[2] = 1) /\ (x[2] = 1 \/ x[2] >= MaxMsg)
Followed(c, a, m) ==
  /\ Spot(printed[c], a) /\ Spot(printed[c], m)
  /\ InLog(c, printed[c], shown, log, a)
  /\ Piece(c, printed[c], wire[c], m, Past(printed[c]))
  /\ \A s \in Slots : fd[s] = c => Piece(c, printed[c], recvBuf[s], a, m)
  /\ (\A s \in Slots : fd[s] # c) => a = m
  /\ Starts(a)
  /\ \A s \in Slots : fd[s] = c /\ a[1] > 0 => name[s] = c
  /\ phase[c] \in {"queued", "leaving"} => a = <<0, 1>>
  /\ phase[c] = "new" => printed[c] = <<>>
Follows(c) == \E a, m : Followed(c, a, m)

OwnLog(lg) ==
  \A i, j : Inside(lg, i, j) => /\ lg[i].text[j].client = lg[i].name
                                /\ lg[i].text[j].line = lg[i].text[1].line

Slotted == Distinct /\ \A s \in Slots : SlotIs(s)
Phased == \A c \in Clients : phase[c] \notin {"broken", "dropped"}
Streams == \A c \in Clients : phase[c] # "refused" => Follows(c)
Whole == ~cut => Slotted /\ Phased /\ Streams /\ OwnLog(log)

LEMMA InitWhole == Init => Whole
<1> SUFFICES ASSUME Init PROVE Whole
  OBVIOUS
<1>1. /\ \A s \in Slots : fd[s] = None /\ recvBuf[s] = <<>> /\ flags[s] = {}
      /\ turn = None /\ log = <<>>
      /\ \A c \in Clients : phase[c] = "new" /\ printed[c] = <<>> /\ wire[c] = <<>>
  BY DEF Init
<1>2. Slotted
  <2>1. Len(<<>>) = 0 /\ Ends(<<>>) = {} /\ 0 < MaxMsg
    BY Numbers DEF Ends
  <2> QED
    BY <1>1, <2>1 DEF Slotted, Distinct, SlotIs, Busy, Deleted
<1>3. Phased
  BY <1>1 DEF Phased
<1>4. \A i, j : ~Inside(log, i, j)
  BY <1>1 DEF Inside
<1>5. ASSUME NEW c \in Clients PROVE Follows(c)
  <2> DEFINE a == Past(printed[c])
  <2>1. printed[c] \in Seq(Lengths) /\ Len(printed[c]) = 0
    BY <1>1, EmptySeq
  <2>2. a = <<1, 1>> /\ Spot(printed[c], a)
    BY <2>1 DEF Past, Spot, Position
  <2>3. Piece(c, printed[c], <<>>, a, a)
    BY <2>1, <2>2, PieceEmpty
  <2>4. InLog(c, printed[c], shown, log, a)
    <3>1. ASSUME NEW b, Sends(c, printed[c], b), IsText(b) PROVE FALSE
      BY <2>1, <3>1 DEF Sends, IsText
    <3> QED
      BY <1>4, <3>1 DEF InLog, Owed
  <2>5. \A s \in Slots : fd[s] # c
    BY <1>1, Numbers
  <2>6. a[1] # 0 /\ a[1] = 1 /\ Starts(a)
    BY <2>2 DEF Starts
  <2>7. Followed(c, a, a)
    BY <1>1, <2>2, <2>3, <2>4, <2>5, <2>6 DEF Followed
  <2> QED
    BY <2>7 DEF Follows
<1>6. OwnLog(log)
  BY <1>4 DEF OwnLog
<1> QED
  BY <1>2, <1>3, <1>5, <1>6 DEF Whole, Streams

(* What concerns one client stays if nothing of it changes. *)
LEMMA FollowsStays ==
  ASSUME NEW c \in Clients, Follows(c), phase'[c] = phase[c],
         printed'[c] = printed[c], wire'[c] = wire[c],
         \A q, x : InLog(c, q, shown, log, x) => InLog(c, q, shown', log', x),
         \A s \in Slots : fd'[s] = c <=> fd[s] = c,
         \A s \in Slots : fd[s] = c => recvBuf'[s] = recvBuf[s] /\ name'[s] = name[s]
  PROVE  Follows(c)'
<1>1. PICK a, m : Followed(c, a, m)
  BY DEF Follows
<1> DEFINE p == printed[c]
<1>2. /\ Spot(p, a) /\ Spot(p, m) /\ InLog(c, p, shown, log, a)
      /\ Piece(c, p, wire[c], m, Past(p))
      /\ \A s \in Slots : fd[s] = c => Piece(c, p, recvBuf[s], a, m)
      /\ (\A s \in Slots : fd[s] # c) => a = m
      /\ Starts(a)
      /\ \A s \in Slots : fd[s] = c /\ a[1] > 0 => name[s] = c
      /\ phase[c] \in {"queued", "leaving"} => a = <<0, 1>>
      /\ phase[c] = "new" => p = <<>>
  BY <1>1 DEF Followed
<1> HIDE DEF p
<1>3. printed'[c] = p
  BY DEF p
<1>4. \A s \in Slots : fd'[s] = c => /\ Piece(c, p, recvBuf'[s], a, m)
                                     /\ a[1] > 0 => name'[s] = c
  BY <1>2
<1>5. (\A s \in Slots : fd'[s] # c) => a = m
  BY <1>2
<1>6. \A x, y : x = a /\ y = m => Followed(c, x, y)'
  BY <1>2, <1>3, <1>4, <1>5 DEF Followed
<1> QED
  BY <1>6 DEF Follows

LEMMA ConnectKeepsWhole ==
  ASSUME Types, Whole, NEW c \in Clients, Connect(c) PROVE Whole'
<1> SUFFICES ASSUME ~cut' PROVE (Slotted /\ Phased /\ Streams /\ OwnLog(log))'
  BY DEF Whole
<1>1. /\ phase[c] = "new" /\ phase' = [phase EXCEPT ![c] = "queued"]
      /\ wire' = [wire EXCEPT ![c] = Line(c, 0, 1)]
      /\ UNCHANGED <<cut, printed, shown, fd, recvBuf, flags, name, log, turn>>
  BY DEF Connect, server
<1>2. Slotted /\ Phased /\ Streams /\ OwnLog(log)
  BY <1>1 DEF Whole
<1>3. phase \in [Clients -> Phases] /\ wire \in [Clients -> Seq(Byte)]
      /\ fd \in [Slots -> Clients \cup {None}] /\ printed[c] \in Seq(Lengths)
  BY DEF Types, ClientTypes, SlotTypes
<1>4. \A s \in Slots : fd[s] # c
  BY <1>1, <1>2, Numbers DEF Slotted, SlotIs
<1>5. Slotted'
  <2>1. Distinct'
    BY <1>1, <1>2 DEF Slotted, Distinct
  <2>2. ASSUME NEW s \in Slots PROVE SlotIs(s)'
    <3>1. SlotIs(s)
      BY <1>2 DEF Slotted
    <3>2. fd[s] # None => phase'[fd[s]] = phase[fd[s]] /\ wire'[fd[s]] = wire[fd[s]]
      BY <1>1, <1>3, <1>4
    <3>3. Deleted(s) => fd[s] # None
      BY DEF Types, Attached
    <3> QED
      BY <1>1, <3>1, <3>2, <3>3 DEF SlotIs, Busy, Processed, Deleted
  <2> QED
    BY <2>1, <2>2 DEF Slotted
<1>6. Phased'
  BY <1>1, <1>2, <1>3 DEF Phased
<1>7. Follows(c)'
  <2> DEFINE p == printed[c]
             a == <<0, 1>>
  <2>1. PICK a0, m0 : Followed(c, a0, m0)
    BY <1>1, <1>2 DEF Streams, Follows
  <2>2. p = <<>> /\ Len(p) = 0 /\ Past(p) = <<0 + 1, 1>> /\ 0 \in 0..Len(p)
        /\ Length(p, 0) = 1
    BY <1>1, <2>1 DEF Followed, Past, Length
  <2>3. Spot(p, a) /\ Piece(c, p, Line(c, 0, 1), a, Past(p))
    BY <1>3, <2>2, LineIsPiece
  <2>4. InLog(c, p, shown, log, a)
    <3>1. ASSUME NEW b, Sends(c, p, b), IsText(b) PROVE FALSE
      BY <2>2, <3>1 DEF Sends, IsText
    <3>2. InLog(c, p, shown, log, a0)
      BY <2>1 DEF Followed
    <3> QED
      BY <3>1, <3>2 DEF InLog, Owed
  <2>5. wire'[c] = Line(c, 0, 1) /\ printed'[c] = p /\ phase'[c] = "queued"
    BY <1>1, <1>3
  <2>6. a[1] = 0 /\ a[2] = 1 /\ Starts(a)
    BY DEF Starts
  <2> HIDE DEF p
  <2>7. \A x : x = a => Followed(c, x, x)'
    BY <1>1, <1>4, <2>3, <2>4, <2>5, <2>6 DEF Followed
  <2> QED
    BY <2>7 DEF Follows
<1>8. ASSUME NEW d \in Clients, d # c, phase'[d] # "refused" PROVE Follows(d)'
  <2>1. phase'[d] = phase[d] /\ wire'[d] = wire[d]
    BY <1>1, <1>3, <1>8
  <2>2. Follows(d)
    BY <1>2, <1>8, <2>1 DEF Streams
  <2> QED
    BY <1>1, <2>1, <2>2, FollowsStays
<1> QED
  BY <1>1, <1>2, <1>5, <1>6, <1>7, <1>8 DEF Streams

LEMMA PrintLineKeepsWhole ==
  ASSUME Types, Whole, NEW c \in Clients, PrintLine(c) PROVE Whole'
<1> SUFFICES ASSUME ~cut' PROVE (Slotted /\ Phased /\ Streams /\ OwnLog(log))'
  BY DEF Whole
<1> DEFINE p == printed[c]
           n == Len(p) + 1
<1>1. PICK len \in Lengths : LET line == Line(c, Len(printed[c]) + 1, len) IN
        /\ shown' \in {shown, shown \cup {<<c, Len(printed[c]) + 1>>}}
        /\ printed' = [printed EXCEPT ![c] = Append(@, len)]
        /\ \E sent \in IF MayCut THEN 1..len + 1 ELSE {len + 1} :
             /\ wire' = [wire EXCEPT ![c] = @ \o SubSeq(line, 1, sent)]
             /\ cut' = (cut \/ sent <= len)
  BY DEF PrintLine
<1>2. PICK sent \in IF MayCut THEN 1..len + 1 ELSE {len + 1} :
        /\ wire' = [wire EXCEPT ![c] = @ \o SubSeq(Line(c, n, len), 1, sent)]
        /\ cut' = (cut \/ sent <= len)
  BY <1>1
<1>3. /\ phase[c] \in {"queued", "open"}
      /\ UNCHANGED <<phase, fd, recvBuf, flags, name, log, turn>>
      /\ shown' \in {shown, shown \cup {<<c, n>>}}
  BY <1>1 DEF PrintLine, Connected, server
<1>4. /\ phase \in [Clients -> Phases] /\ wire \in [Clients -> Seq(Byte)]
      /\ fd \in [Slots -> Clients \cup {None}] /\ printed \in [Clients -> Seq(Lengths)]
      /\ p \in Seq(Lengths) /\ Len(p) \in Nat /\ len \in Nat \ {0}
  BY Numbers, LenProperties DEF Types, ClientTypes, SlotTypes
<1>5. ~cut /\ sent = len + 1
  <2>1. sent \in 1..(len + 1)
    BY <1>4
  <2>2. ~(cut \/ sent <= len)
    BY <1>2, Zenon
  <2> QED
    BY <1>4, <2>1, <2>2
<1>6. Slotted /\ Phased /\ Streams /\ OwnLog(log)
  BY <1>5 DEF Whole
<1> DEFINE q == Append(p, len)
           line == Line(c, n, len)
<1>7. /\ q \in Seq(Lengths) /\ Len(q) = n /\ Length(q, Len(q)) = len
      /\ Past(p) = <<n, 1>> /\ Past(q) = <<n + 1, 1>>
      /\ \A x : Spot(p, x) => Spot(q, x)
  BY <1>4, StreamGrows
<1>8. line \in Seq(Byte) /\ Len(line) = len + 1
  BY <1>4, LineType
<1>9. printed'[c] = q /\ wire'[c] = wire[c] \o line
  <2>1. SubSeq(line, 1, sent) = line
    BY <1>5, <1>8, SubSeqFull
  <2> QED
    BY <1>1, <1>2, <1>4, <2>1
<1>10. Slotted'
  <2>1. Distinct'
    BY <1>3, <1>6 DEF Slotted, Distinct
  <2>2. ASSUME NEW s \in Slots PROVE SlotIs(s)'
    <3>1. SlotIs(s)
      BY <1>6 DEF Slotted
    <3>2. Deleted(s) => fd[s] # None /\ fd[s] # c
      BY <1>3, <3>1 DEF Types, Attached, SlotIs
    <3>3. Deleted(s) => wire'[fd[s]] = wire[fd[s]]
      BY <1>2, <1>4, <3>2
    <3> QED
      BY <1>3, <3>1, <3>3 DEF SlotIs, Busy, Processed, Deleted
  <2> QED
    BY <2>1, <2>2 DEF Slotted
<1>11. Phased'
  BY <1>3, <1>6 DEF Phased
<1>12. Follows(c)'
  <2>1. PICK a, m : Followed(c, a, m)
    BY <1>3, <1>6 DEF Streams, Follows
  <2>2. /\ Spot(p, a) /\ Spot(p, m) /\ InLog(c, p, shown, log, a)
        /\ Piece(c, p, wire[c], m, Past(p))
        /\ \A s \in Slots : fd[s] = c => Piece(c, p, recvBuf[s], a, m)
        /\ (\A s \in Slots : fd[s] # c) => a = m
        /\ Starts(a)
        /\ \A s \in Slots : fd[s] = c /\ a[1] > 0 => name[s] = c
        /\ phase[c] \in {"queued", "leaving"} => a = <<0, 1>>
    BY <2>1 DEF Followed
  <2>3. Spot(p, Past(p))
    BY <1>4, <2>2, SpotIs
  <2>0. InLog(c, p, shown', log, a)
    <3>1. \A b : Sends(c, p, b) /\ Owed(shown', b) => Owed(shown, b)
      BY <1>3, <1>4 DEF Owed, Sends
    <3> QED
      BY <2>2, <3>1, LogOwes
  <2>4. /\ Spot(q, a) /\ Spot(q, m) /\ InLog(c, q, shown', log, a)
        /\ Piece(c, q, wire[c], m, Past(p))
        /\ \A s \in Slots : fd[s] = c => Piece(c, q, recvBuf[s], a, m)
    BY <1>4, <1>7, <2>0, <2>2, <2>3, PieceStays, LogStays
  <2>5. Spot(q, Past(p)) /\ Spot(q, Past(q)) /\ Piece(c, q, line, Past(p), Past(q))
    <3>1. n \in 0..Len(q)
      BY <1>4, <1>7
    <3>2. /\ Spot(q, <<n, 1>>) /\ Spot(q, <<n + 1, 1>>)
          /\ Piece(c, q, Line(c, n, Length(q, n)), <<n, 1>>, <<n + 1, 1>>)
      BY <1>7, <3>1, LineIsPiece
    <3> QED
      BY <1>7, <3>2
  <2> HIDE DEF p, q, line
  <2>6. Piece(c, q, wire[c] \o line, m, Past(q))
    BY <1>7, <2>4, <2>5, PieceJoin
  <2>7. \A x, y : x = a /\ y = m => Followed(c, x, y)'
    BY <1>3, <1>9, <2>2, <2>4, <2>6 DEF Followed
  <2> QED
    BY <2>7 DEF Follows
<1>13. ASSUME NEW d \in Clients, d # c, phase'[d] # "refused" PROVE Follows(d)'
  <2>1. printed'[d] = printed[d] /\ wire'[d] = wire[d]
    BY <1>1, <1>2, <1>4, <1>13
  <2>2. Follows(d)
    BY <1>3, <1>6, <1>13 DEF Streams
  <2>3. ASSUME NEW r, NEW x, InLog(d, r, shown, log, x) PROVE InLog(d, r, shown', log', x)
    <3>1. \A b : Sends(d, r, b) /\ Owed(shown', b) => Owed(shown, b)
      BY <1>3, <1>13 DEF Owed, Sends
    <3> QED
      BY <1>3, <2>3, <3>1, LogOwes
  <2> QED
    BY <1>3, <2>1, <2>2, <2>3, FollowsStays
<1> QED
  BY <1>3, <1>6, <1>10, <1>11, <1>12, <1>13 DEF Streams

LEMMA CloseKeepsWhole ==
  ASSUME Types, Whole, NEW c \in Clients, Close(c) PROVE Whole'
<1> SUFFICES ASSUME ~cut' PROVE (Slotted /\ Phased /\ Streams /\ OwnLog(log))'
  BY DEF Whole
<1>1. /\ phase[c] \in {"queued", "open"}
      /\ phase' = [phase EXCEPT ![c] = IF @ = "open" THEN "closed" ELSE "leaving"]
      /\ UNCHANGED <<cut, wire, printed, shown, fd, recvBuf, flags, name, log, turn>>
  BY DEF Close, Connected, server
<1>2. Slotted /\ Phased /\ Streams /\ OwnLog(log)
  BY <1>1 DEF Whole
<1>3. phase \in [Clients -> Phases] /\ fd \in [Slots -> Clients \cup {None}]
  BY DEF Types, ClientTypes, SlotTypes
<1>4. /\ phase'[c] = IF phase[c] = "open" THEN "closed" ELSE "leaving"
      /\ \A d \in Clients : d # c => phase'[d] = phase[d]
  BY <1>1, <1>3
<1>5. Slotted'
  <2>1. Distinct'
    BY <1>1, <1>2 DEF Slotted, Distinct
  <2>2. ASSUME NEW s \in Slots PROVE SlotIs(s)'
    <3>1. SlotIs(s)
      BY <1>2 DEF Slotted
    <3>2. fd[s] # None => phase'[fd[s]] \in {"open", "closed"}
      BY <1>1, <1>3, <1>4, <3>1 DEF SlotIs
    <3>3. Deleted(s) => fd[s] # None
      BY DEF Types, Attached
    <3>4. Deleted(s) => phase'[fd[s]] = "closed"
      BY <1>1, <1>3, <1>4, <3>1, <3>3 DEF SlotIs
    <3> QED
      BY <1>1, <3>1, <3>2, <3>4 DEF SlotIs, Busy, Processed, Deleted
  <2> QED
    BY <2>1, <2>2 DEF Slotted
<1>6. Phased'
  BY <1>2, <1>4 DEF Phased
<1>7. Follows(c)'
  <2>1. PICK a, m : Followed(c, a, m)
    BY <1>1, <1>2 DEF Streams, Follows
  <2>2. \A x, y : x = a /\ y = m => Followed(c, x, y)'
    BY <1>1, <1>4, <2>1 DEF Followed
  <2> QED
    BY <2>2 DEF Follows
<1>8. ASSUME NEW d \in Clients, d # c, phase'[d] # "refused" PROVE Follows(d)'
  <2>1. phase'[d] = phase[d]
    BY <1>4, <1>8
  <2>2. Follows(d)
    BY <1>2, <1>8, <2>1 DEF Streams
  <2> QED
    BY <1>1, <2>1, <2>2, FollowsStays
<1> QED
  BY <1>1, <1>2, <1>5, <1>6, <1>7, <1>8 DEF Streams

LEMMA RefuseKeepsWhole ==
  ASSUME Types, Whole, Refuse PROVE Whole'
<1> SUFFICES ASSUME ~cut' PROVE (Slotted /\ Phased /\ Streams /\ OwnLog(log))'
  BY DEF Whole
<1>1. PICK c \in Waiting : /\ phase' = [phase EXCEPT ![c] = "refused"]
                           /\ wire' = [wire EXCEPT ![c] = <<>>]
  BY DEF Refuse
<1>2. /\ c \in Clients /\ phase[c] \in {"queued", "leaving"}
      /\ UNCHANGED <<cut, printed, shown, fd, recvBuf, flags, name, log, turn>>
  BY DEF Refuse, Waiting, server
<1>3. Slotted /\ Phased /\ Streams /\ OwnLog(log)
  BY <1>2 DEF Whole
<1>4. /\ phase \in [Clients -> Phases] /\ fd \in [Slots -> Clients \cup {None}]
      /\ wire \in [Clients -> Seq(Byte)]
  BY DEF Types, ClientTypes, SlotTypes
<1>5. /\ phase'[c] = "refused"
      /\ \A d \in Clients : d # c => phase'[d] = phase[d] /\ wire'[d] = wire[d]
  BY <1>1, <1>2, <1>4
<1>6. Slotted'
  <2>1. Distinct'
    BY <1>2, <1>3 DEF Slotted, Distinct
  <2>2. ASSUME NEW s \in Slots PROVE SlotIs(s)'
    <3>1. SlotIs(s)
      BY <1>3 DEF Slotted
    <3>2. fd[s] # None => phase'[fd[s]] = phase[fd[s]] /\ wire'[fd[s]] = wire[fd[s]]
      BY <1>2, <1>4, <1>5, <3>1 DEF SlotIs
    <3>3. Deleted(s) => fd[s] # None
      BY DEF Types, Attached
    <3> QED
      BY <1>2, <3>1, <3>2, <3>3 DEF SlotIs, Busy, Processed, Deleted
  <2> QED
    BY <2>1, <2>2 DEF Slotted
<1>7. Phased'
  BY <1>3, <1>5 DEF Phased
<1>8. ASSUME NEW d \in Clients, phase'[d] # "refused" PROVE Follows(d)'
  <2>1. d # c /\ phase'[d] = phase[d] /\ wire'[d] = wire[d]
    BY <1>5, <1>8
  <2>2. Follows(d)
    BY <1>3, <1>8, <2>1 DEF Streams
  <2> QED
    BY <1>2, <2>1, <2>2, FollowsStays
<1> QED
  BY <1>2, <1>3, <1>6, <1>7, <1>8 DEF Streams

-----------------------------------------------------------------------------
(* Selecting. *)

LEMMA FreeSlotIsThere ==
  ASSUME FreeSlots # {}
  PROVE  FirstFree \in Slots /\ fd[FirstFree] = None
<1> DEFINE T == FreeSlots
<1>1. T \subseteq Nat /\ T # {}
  BY Numbers DEF FreeSlots
<1>2. \E m \in T : \A b \in T : ~(<<b, m>> \in OpToRel(<, Nat))
  BY <1>1, NatLessThanWellFounded, WFMin
<1>3. \A b, m \in Nat : <<b, m>> \in OpToRel(<, Nat) <=> b < m
  BY DEF OpToRel
<1>4. PICK m \in T : \A b \in T : ~(<<b, m>> \in OpToRel(<, Nat))
  BY <1>2
<1>5. ASSUME NEW b \in T PROVE m <= b
  <2>1. b \in Nat /\ m \in Nat
    BY <1>1
  <2>2. ~(b < m)
    BY <1>3, <1>4, <2>1
  <2> QED
    BY <2>1, <2>2
<1>6. FirstFree \in FreeSlots
  BY <1>4, <1>5 DEF FirstFree
<1> QED
  BY <1>6 DEF FreeSlots

(* A selection that accepts new, if it is a client, and receives count. *)
Selected(new, count) ==
  /\ new \in Waiting \cup {None} /\ count \in [Slots -> 0..MaxMsg]
  /\ \A s \in Slots : count[s] \in IF Readable(s) THEN Counts(s) ELSE {0}
  /\ new # None => FirstFree \in Slots /\ fd[FirstFree] = None
  /\ fd' = [s \in Slots |-> IF Fills(new, s) THEN new ELSE fd[s]]
  /\ phase' = [c \in Clients |->
       IF c # new THEN phase[c]
       ELSE IF phase[c] = "leaving" THEN "closed" ELSE "open"]
  /\ recvBuf' = [s \in Slots |-> recvBuf[s] \o Received(s, count[s])]
  /\ wire' = [c \in Clients |->
       IF \E s \in Slots : fd[s] = c
       THEN SubSeq(wire[c], count[SlotOf(c)] + 1, Len(wire[c]))
       ELSE wire[c]]
  /\ flags' = [s \in Slots |->
       IF Readable(s) THEN RecvFlags(s, count[s])
       ELSE (flags[s] \ {"DATA"})
              \cup (IF Fills(new, s) THEN {"CONNECT"} ELSE {})]
  /\ turn = None /\ turn' = 1 /\ UNCHANGED <<cut, printed, shown, name, log>>

LEMMA SelectIs == Select => \E new, count : Selected(new, count)
<1> SUFFICES ASSUME Select PROVE \E new, count : Selected(new, count)
  OBVIOUS
<1>1. PICK new \in Waiting \cup {None}, count \in [Slots -> 0..MaxMsg] :
       /\ Accepts(new) /\ (new # None \/ \E s \in Slots : Readable(s))
       /\ \A s \in Slots :
            count[s] \in IF Readable(s) THEN Counts(s) ELSE {0}
       /\ fd' = [s \in Slots |-> IF Fills(new, s) THEN new ELSE fd[s]]
       /\ phase' = [c \in Clients |->
            IF c # new THEN phase[c]
            ELSE IF phase[c] = "leaving" THEN "closed" ELSE "open"]
       /\ recvBuf' = [s \in Slots |-> recvBuf[s] \o Received(s, count[s])]
       /\ wire' = [c \in Clients |->
            IF \E s \in Slots : fd[s] = c
            THEN SubSeq(wire[c], count[SlotOf(c)] + 1, Len(wire[c]))
            ELSE wire[c]]
       /\ flags' = [s \in Slots |->
            IF Readable(s) THEN RecvFlags(s, count[s])
            ELSE (flags[s] \ {"DATA"})
                   \cup (IF Fills(new, s) THEN {"CONNECT"} ELSE {})]
  BY Zenon DEF Select
<1>2. turn = None /\ turn' = 1 /\ UNCHANGED <<cut, printed, shown, name, log>>
  BY DEF Select
<1>3. new # None => FreeSlots # {}
  BY <1>1 DEF Accepts
<1>4. new # None => FirstFree \in Slots /\ fd[FirstFree] = None
  BY <1>3, FreeSlotIsThere
<1>5. Selected(new, count)
  BY <1>1, <1>2, <1>4, Zenon DEF Selected
<1> QED
  BY <1>5

(* What a selection does to a slot ... *)
LEMMA SelectedSlot ==
  ASSUME Types, Slotted, Phased, Streams, NEW new, NEW count, Selected(new, count),
         NEW s \in Slots
  PROVE  /\ fd'[s] = IF new # None /\ s = FirstFree THEN new ELSE fd[s]
         /\ new # None /\ s = FirstFree => fd[s] = None
         /\ fd[s] = None => recvBuf'[s] = <<>>
         /\ fd[s] # None =>
              /\ count[s] \in 0..Len(wire[fd[s]])
              /\ recvBuf'[s] = recvBuf[s] \o SubSeq(wire[fd[s]], 1, count[s])
              /\ wire'[fd[s]] = SubSeq(wire[fd[s]], count[s] + 1, Len(wire[fd[s]]))
              /\ phase'[fd[s]] = phase[fd[s]]
<1>1. /\ fd \in [Slots -> Clients \cup {None}] /\ recvBuf[s] \in Seq(Byte)
      /\ wire \in [Clients -> Seq(Byte)] /\ phase \in [Clients -> Phases]
      /\ ClientTypes /\ SlotTypes
  BY DEF Types, ClientTypes, SlotTypes
<1>2. SlotIs(s) /\ Distinct
  BY DEF Slotted
<1>3. ~Broken(s)
  BY <1>1 DEF Broken, Phased
<1>4. /\ fd'[s] = IF new # None /\ s = FirstFree THEN new ELSE fd[s]
      /\ new # None /\ s = FirstFree => fd[s] = None
  BY DEF Selected, Fills
<1>5. recvBuf'[s] = recvBuf[s] \o Received(s, count[s])
      /\ count[s] \in IF Readable(s) THEN Counts(s) ELSE {0}
  BY DEF Selected
<1>6. /\ fd[s] # None => /\ count[s] \in 0..Len(wire[fd[s]])
                         /\ Received(s, count[s]) = SubSeq(wire[fd[s]], 1, count[s])
      /\ fd[s] = None => count[s] = 0 /\ Received(s, count[s]) = <<>>
  BY <1>1, <1>3, <1>5, ReceivedType
<1>7. CASE fd[s] = None
  <2>1. recvBuf[s] = <<>>
    BY <1>2, <1>7 DEF SlotIs
  <2>2. recvBuf'[s] = <<>>
    BY <1>1, <1>5, <1>6, <1>7, <2>1, ConcatEmptySeq
  <2> QED
    BY <1>4, <1>7, <2>2
<1>8. CASE fd[s] # None
  <2> DEFINE c == fd[s]
  <2>1. c \in Clients /\ phase[c] \in {"open", "closed"}
    BY <1>1, <1>2, <1>8 DEF SlotIs
  <2>2. SlotOf(c) = s
    BY <1>2, <1>8 DEF SlotOf, Distinct
  <2>3. wire'[c] = SubSeq(wire[c], count[s] + 1, Len(wire[c]))
    BY <2>1, <2>2 DEF Selected
  <2>4. c # new
    BY <1>8, <2>1 DEF Selected, Waiting
  <2>5. phase'[c] = phase[c]
    BY <2>1, <2>4 DEF Selected
  <2> QED
    BY <1>4, <1>5, <1>6, <1>8, <2>3, <2>5
<1> QED
  BY <1>7, <1>8

LEMMA EndOfStream ==
  ASSUME Types, NEW c \in Clients, Follows(c), wire[c] = <<>>,
         NEW s \in Slots, fd[s] = c, Ends(recvBuf[s]) = {}
  PROVE  recvBuf[s] = <<>>
<1> DEFINE p == printed[c]
<1>1. p \in Seq(Lengths)
  BY DEF Types, ClientTypes
<1>2. PICK a, m : /\ Spot(p, a) /\ Spot(p, m) /\ Piece(c, p, <<>>, m, Past(p))
                  /\ Piece(c, p, recvBuf[s], a, m)
  BY DEF Follows, Followed
<1>3. Spot(p, Past(p))
  BY <1>1, <1>2, SpotIs
<1>4. m = Past(p)
  BY <1>1, <1>2, <1>3, PieceNone
<1>5. \A i \in 1..Len(recvBuf[s]) : ~recvBuf[s][i].end
  BY DEF Ends
<1> QED
  BY <1>1, <1>2, <1>4, <1>5, PieceHasEnd

LEMMA SelectKeepsSlots ==
  ASSUME Types, Slotted, Phased, Streams, NEW new, NEW count, Selected(new, count)
  PROVE  Slotted'
<1>1. /\ fd \in [Slots -> Clients \cup {None}] /\ recvBuf \in [Slots -> Seq(Byte)]
      /\ wire \in [Clients -> Seq(Byte)] /\ phase \in [Clients -> Phases]
      /\ flags \in [Slots -> SUBSET Flags]
  BY DEF Types, ClientTypes, SlotTypes
<1>2. turn = None /\ turn' = 1 /\ \A s \in Slots : 1 <= s
  BY DEF Selected, Slots
<1>3. \A s \in Slots : fd[s] # None => fd[s] # new
  <2> SUFFICES ASSUME NEW s \in Slots, fd[s] # None PROVE fd[s] # new
    OBVIOUS
  <2>1. phase[fd[s]] \in {"open", "closed"}
    BY DEF Slotted, SlotIs
  <2> QED
    BY <2>1 DEF Selected, Waiting
<1>4. Distinct'
  <2> SUFFICES ASSUME NEW s \in Slots, NEW t \in Slots, fd'[s] # None, fd'[s] = fd'[t]
               PROVE  s = t
    BY DEF Distinct
  <2>1. /\ fd'[s] = IF new # None /\ s = FirstFree THEN new ELSE fd[s]
        /\ fd'[t] = IF new # None /\ t = FirstFree THEN new ELSE fd[t]
    BY SelectedSlot
  <2> QED
    BY <1>3, <2>1 DEF Slotted, Distinct
<1>5. ASSUME NEW s \in Slots PROVE SlotIs(s)'
  <2> DEFINE c == fd[s]
             n == count[s]
  <2>1. /\ fd'[s] = IF new # None /\ s = FirstFree THEN new ELSE c
        /\ new # None /\ s = FirstFree => c = None
        /\ c = None => recvBuf'[s] = <<>>
        /\ c # None => /\ n \in 0..Len(wire[c])
                       /\ recvBuf'[s] = recvBuf[s] \o SubSeq(wire[c], 1, n)
                       /\ wire'[c] = SubSeq(wire[c], n + 1, Len(wire[c]))
                       /\ phase'[c] = phase[c]
    BY SelectedSlot
  <2>2. /\ SlotIs(s) /\ Ends(recvBuf[s]) = {} /\ Len(recvBuf[s]) < MaxMsg
        /\ ~Deleted(s)
    BY <1>2 DEF Slotted, SlotIs, Busy
  <2>3. flags'[s] = IF Readable(s) THEN RecvFlags(s, n)
                    ELSE (flags[s] \ {"DATA"})
                           \cup (IF Fills(new, s) THEN {"CONNECT"} ELSE {})
    BY DEF Selected
  <2>4. Busy(s)' <=> Processed(s)'
    BY <1>2, Numbers DEF Busy
  <2>5. fd'[s] = None => recvBuf'[s] = <<>>
    BY <2>1
  <2>6. fd'[s] # None => phase'[fd'[s]] \in {"open", "closed"}
    <3>1. ASSUME new # None, s = FirstFree PROVE phase'[new] \in {"open", "closed"}
      BY <3>1 DEF Selected, Waiting
    <3>2. ASSUME c # None PROVE phase'[c] \in {"open", "closed"}
      BY <2>1, <2>2, <3>2 DEF SlotIs
    <3> QED
      BY <2>1, <3>1, <3>2
  <2>7. CASE ~Readable(s)
    <3>1. ~Processed(s)'
      BY <2>3, <2>7 DEF Processed
    <3>2. ~Deleted(s)'
      BY <2>2, <2>3, <2>7 DEF Deleted
    <3>3. recvBuf'[s] = recvBuf[s]
      <4>1. CASE c = None
        BY <2>1, <2>2, <4>1 DEF SlotIs
      <4>2. CASE c # None
        <5>1. n = 0
          BY <2>7 DEF Selected
        <5>2. SubSeq(wire[c], 1, n) = <<>>
          BY <5>1, SubSeqEmpty
        <5> QED
          BY <1>1, <2>1, <4>2, <5>2, ConcatEmptySeq
      <4> QED
        BY <4>1, <4>2
    <3> QED
      BY <2>2, <2>4, <2>5, <2>6, <3>1, <3>2, <3>3 DEF SlotIs
  <2>8. CASE Readable(s)
    <3>1. c # None /\ c \in Clients /\ n \in Counts(s)
      BY <1>1, <2>8 DEF Readable, Selected
    <3>2. ~Broken(s)
      BY <3>1 DEF Broken, Phased
    <3>3. recvBuf[s] \in Seq(Byte) /\ Len(recvBuf[s]) \in Nat
      BY <1>1, LenProperties
    <3>4. fd'[s] = c
      BY <2>1, <3>1
    <3>5. CASE n = 0
      <4>1. flags'[s] = {"CLOSE"} /\ ~Processed(s)' /\ Deleted(s)'
        BY <2>3, <2>8, <3>2, <3>5 DEF RecvFlags, Processed, Deleted
      <4>2. wire[c] = <<>>
        BY <2>2, <3>1, <3>3, <3>5, Numbers DEF Counts, Room
      <4>3. phase[c] = "closed"
        BY <2>8, <3>1, <4>2 DEF Readable, Phased
      <4>4. recvBuf[s] = <<>>
        BY <2>2, <3>1, <4>2, <4>3, EndOfStream DEF Streams
      <4>5. SubSeq(<<>>, 1, 0) = <<>>
        BY SubSeqEmpty
      <4>8. SubSeq(<<>>, 0 + 1, Len(<<>>)) = <<>>
        BY EmptySeq, SubSeqEmpty
      <4>6. wire'[c] = <<>>
        BY <2>1, <3>1, <3>5, <4>2, <4>8
      <4>7. recvBuf'[s] = <<>>
        BY <2>1, <3>1, <3>5, <4>2, <4>4, <4>5, <3>3, ConcatEmptySeq
      <4> QED
        BY <1>2, <2>1, <2>2, <2>4, <2>5, <2>6, <3>1, <3>4, <4>1, <4>3, <4>4, <4>6, <4>7,
           Numbers DEF SlotIs
    <3>6. CASE n # 0
      <4>1. flags'[s] = {"DATA"} /\ Processed(s)' /\ ~Deleted(s)'
        BY <2>3, <2>8, <3>2, <3>6 DEF RecvFlags, Processed, Deleted
      <4>2. wire[c] \in Seq(Byte) /\ Len(wire[c]) \in Nat /\ n \in 0..Len(wire[c])
        BY <1>1, <2>1, <3>1, LenProperties
      <4>3. SubSeq(wire[c], 1, n) \in Seq(Byte) /\ Len(SubSeq(wire[c], 1, n)) = n
        BY <4>2, PartOf
      <4>6. Len(recvBuf[s] \o SubSeq(wire[c], 1, n))
              = Len(recvBuf[s]) + Len(SubSeq(wire[c], 1, n))
        BY <3>3, <4>3, ConcatProperties
      <4>4. Len(recvBuf'[s]) = Len(recvBuf[s]) + n
        BY <2>1, <3>1, <4>3, <4>6
      <4>5. Len(recvBuf'[s]) <= MaxMsg
        BY <3>1, <3>3, <4>2, <4>4, Numbers DEF Counts, Room
      <4> QED
        BY <2>4, <2>5, <2>6, <4>1, <4>5 DEF SlotIs
    <3> QED
      BY <3>5, <3>6
  <2> QED
    BY <2>7, <2>8
<1> QED
  BY <1>4, <1>5 DEF Slotted

(* ... and to a client. *)
LEMMA SelectKeepsStreams ==
  ASSUME Types, Slotted, Phased, Streams, NEW new, NEW count, Selected(new, count),
         NEW c \in Clients, phase'[c] # "refused"
  PROVE  Follows(c)'
<1> DEFINE p == printed[c]
<1>1. /\ fd \in [Slots -> Clients \cup {None}] /\ recvBuf \in [Slots -> Seq(Byte)]
      /\ wire \in [Clients -> Seq(Byte)] /\ phase \in [Clients -> Phases]
      /\ p \in Seq(Lengths) /\ c # None /\ Len(wire[c]) \in Nat
  BY Numbers, LenProperties DEF Types, ClientTypes, SlotTypes
<1>2. /\ printed' = printed /\ shown' = shown /\ log' = log /\ name' = name
      /\ phase'[c] = IF c # new THEN phase[c]
                     ELSE IF phase[c] = "leaving" THEN "closed" ELSE "open"
      /\ new \in Waiting \cup {None} /\ (new # None => FirstFree \in Slots)
      /\ (~\E s \in Slots : fd[s] = c) => wire'[c] = wire[c]
  BY DEF Selected
<1>3. phase[c] # "refused"
  <2>1. CASE c = new
    BY <1>1, <1>2, <2>1 DEF Waiting
  <2>2. CASE c # new
    BY <1>2, <2>2
  <2> QED
    BY <2>1, <2>2
<1>4. PICK a, m : Followed(c, a, m)
  BY <1>3 DEF Streams, Follows
<1>5. /\ Spot(p, a) /\ Spot(p, m) /\ InLog(c, p, shown, log, a)
      /\ Piece(c, p, wire[c], m, Past(p))
      /\ \A s \in Slots : fd[s] = c => Piece(c, p, recvBuf[s], a, m)
      /\ (\A s \in Slots : fd[s] # c) => a = m
      /\ Starts(a)
      /\ \A s \in Slots : fd[s] = c /\ a[1] > 0 => name[s] = c
      /\ phase[c] \in {"queued", "leaving"} => a = <<0, 1>>
      /\ phase[c] = "new" => p = <<>>
  BY <1>4 DEF Followed
<1>6. CASE \E s \in Slots : fd[s] = c
  <2>1. PICK s \in Slots : fd[s] = c
    BY <1>6
  <2>2. /\ fd'[s] = c /\ count[s] \in 0..Len(wire[c])
        /\ recvBuf'[s] = recvBuf[s] \o SubSeq(wire[c], 1, count[s])
        /\ wire'[c] = SubSeq(wire[c], count[s] + 1, Len(wire[c]))
        /\ phase'[c] = phase[c]
    <3>1. fd[s] # None
      BY <1>1, <2>1
    <3>2. /\ count[s] \in 0..Len(wire[fd[s]])
          /\ recvBuf'[s] = recvBuf[s] \o SubSeq(wire[fd[s]], 1, count[s])
          /\ wire'[fd[s]] = SubSeq(wire[fd[s]], count[s] + 1, Len(wire[fd[s]]))
          /\ phase'[fd[s]] = phase[fd[s]]
      BY <3>1, SelectedSlot
    <3>3. fd'[s] = fd[s]
      <4>1. fd'[s] = IF new # None /\ s = FirstFree THEN new ELSE fd[s]
        BY SelectedSlot
      <4>2. new # None /\ s = FirstFree => fd[s] = None
        BY SelectedSlot
      <4> QED
        BY <3>1, <4>1, <4>2
    <3> QED
      BY <2>1, <3>2, <3>3
  <2>3. phase[c] \in {"open", "closed"}
    BY <1>1, <2>1 DEF Slotted, SlotIs
  <2>4. c # new
    BY <1>1, <1>2, <2>3 DEF Waiting
  <2>5. \A t \in Slots : fd'[t] = c => t = s
    <3> SUFFICES ASSUME NEW t \in Slots, fd'[t] = c PROVE t = s
      OBVIOUS
    <3>1. fd'[t] = IF new # None /\ t = FirstFree THEN new ELSE fd[t]
      BY SelectedSlot
    <3> QED
      BY <1>1, <2>1, <2>4, <3>1 DEF Slotted, Distinct
  <2>6. Spot(p, Past(p))
    BY <1>1, <1>5, SpotIs
  <2>7. PICK y : /\ Spot(p, y) /\ Piece(c, p, SubSeq(wire[c], 1, count[s]), m, y)
                 /\ Piece(c, p, wire'[c], y, Past(p))
    BY <1>1, <1>5, <2>2, <2>6, PieceTake
  <2>8. Piece(c, p, recvBuf'[s], a, y)
    <3>1. Piece(c, p, recvBuf[s], a, m)
      BY <1>5, <2>1
    <3> QED
      BY <1>1, <1>5, <2>2, <2>7, <3>1, PieceJoin
  <2>9. a[1] > 0 => name'[s] = c
    BY <1>2, <1>5, <2>1
  <2>10. printed'[c] = p
    BY <1>2
  <2> HIDE DEF p
  <2>11. \A t \in Slots : fd'[t] = c =>
           Piece(c, p, recvBuf'[t], a, y) /\ (a[1] > 0 => name'[t] = c)
    BY <2>5, <2>8, <2>9
  <2>12. \A u, v : u = a /\ v = y => Followed(c, u, v)'
    BY <1>2, <1>5, <2>2, <2>3, <2>7, <2>10, <2>11 DEF Followed
  <2> QED
    BY <2>12 DEF Follows
<1>7. CASE c = new
  <2>1. phase[c] \in {"queued", "leaving"} /\ phase'[c] \in {"open", "closed"}
    BY <1>1, <1>2, <1>7 DEF Waiting
  <2>2. \A s \in Slots : fd[s] # c
    BY <1>1, <2>1 DEF Slotted, SlotIs
  <2>3. a = m /\ a = <<0, 1>> /\ a[1] = 0 /\ a[2] = 1 /\ wire'[c] = wire[c]
    BY <1>2, <1>5, <2>1, <2>2
  <2>4. FirstFree \in Slots
    BY <1>1, <1>2, <1>7
  <2>5. ASSUME NEW t \in Slots, fd'[t] = c PROVE Piece(c, p, recvBuf'[t], a, m)
    <3>1. /\ fd'[t] = IF new # None /\ t = FirstFree THEN new ELSE fd[t]
          /\ new # None /\ t = FirstFree => fd[t] = None
          /\ fd[t] = None => recvBuf'[t] = <<>>
      BY SelectedSlot
    <3>2. recvBuf'[t] = <<>>
      BY <2>2, <2>5, <3>1
    <3>3. Piece(c, p, <<>>, a, a)
      BY <1>1, <1>5, PieceEmpty
    <3> QED
      BY <2>3, <3>2, <3>3
  <2>6. printed'[c] = p
    BY <1>2
  <2> HIDE DEF p
  <2>7. /\ ~(a[1] > 0) /\ Piece(c, p, wire'[c], m, Past(p))
        /\ phase'[c] \notin {"queued", "leaving"} /\ phase'[c] # "new"
    BY <1>5, <2>1, <2>3
  <2>8. \A u, v : u = a /\ v = m => Followed(c, u, v)'
    BY <1>2, <1>5, <2>3, <2>5, <2>6, <2>7 DEF Followed
  <2> QED
    BY <2>8 DEF Follows
<1>8. CASE c # new /\ ~\E s \in Slots : fd[s] = c
  <2>1. phase'[c] = phase[c] /\ wire'[c] = wire[c] /\ printed'[c] = printed[c]
    BY <1>2, <1>8
  <2>2. ASSUME NEW t \in Slots PROVE fd'[t] # c
    <3>1. fd'[t] = IF new # None /\ t = FirstFree THEN new ELSE fd[t]
      BY SelectedSlot
    <3> QED
      BY <1>8, <3>1
  <2>3. Follows(c)
    BY <1>4 DEF Follows
  <2> QED
    BY <1>2, <1>8, <2>1, <2>2, <2>3, FollowsStays
<1> QED
  BY <1>6, <1>7, <1>8

LEMMA SelectKeepsWhole ==
  ASSUME Types, Whole, Select PROVE Whole'
<1> SUFFICES ASSUME ~cut' PROVE (Slotted /\ Phased /\ Streams /\ OwnLog(log))'
  BY DEF Whole
<1>1. PICK new, count : Selected(new, count)
  BY SelectIs
<1>2. cut' = cut /\ log' = log
  BY <1>1 DEF Selected
<1>3. Slotted /\ Phased /\ Streams /\ OwnLog(log)
  BY <1>2 DEF Whole
<1>4. Slotted'
  BY <1>1, <1>3, SelectKeepsSlots
<1>5. Phased'
  BY <1>1, <1>3 DEF Phased, Selected
<1>6. Streams'
  <2>1. \A c \in Clients : phase'[c] # "refused" => Follows(c)'
    BY <1>1, <1>3, SelectKeepsStreams
  <2> QED
    BY <2>1 DEF Streams
<1> QED
  BY <1>2, <1>3, <1>4, <1>5, <1>6

-----------------------------------------------------------------------------
(* Logging. *)

LEMMA OwnLogGrows ==
  ASSUME NEW lg \in Seq(Entry), OwnLog(lg), NEW e \in Entry,
         \A i \in 1..Len(e.text) : /\ e.text[i].client = e.name
                                   /\ e.text[i].line = e.text[1].line
  PROVE  OwnLog(Append(lg, e))
<1> DEFINE l2 == Append(lg, e)
<1>1. /\ \A i, j : Inside(l2, i, j) <=> \/ Inside(lg, i, j)
                                        \/ i = Len(lg) + 1 /\ j \in 1..Len(e.text)
      /\ \A i, j : Inside(lg, i, j) => l2[i] = lg[i]
      /\ l2[Len(lg) + 1] = e
  BY AppendLog
<1> HIDE DEF l2
<1>2. OwnLog(l2)
  BY <1>1 DEF OwnLog
<1> QED
  BY <1>2 DEF l2

(* The line that begins a piece, its end left out, is the name of the      *)
(* client or goes to the file under that name, if it is shown.             *)
LEMMA StringLogged ==
  ASSUME LogTypes, OwnLog(log), turn \in Slots, NEW c \in Clients,
         NEW p \in Seq(Lengths), NEW x, NEW y, Spot(p, x), Spot(p, y),
         NEW t, Piece(c, p, t, x, y), NEW text \in Seq(Byte), Len(text) \in 1..Len(t),
         \A i \in 1..Len(text) : text[i] = t[i] /\ ~t[i].end,
         \A i \in (Len(text) + 1)..Len(t) : t[i].end,
         InLog(c, p, shown, log, x), Starts(x), x[1] > 0 => name[turn] = c,
         LogString(text)
  PROVE  /\ InLog(c, p, shown, log', y) /\ OwnLog(log') /\ name'[turn] = c
         /\ \A s \in Slots : s # turn => name'[s] = name[s]
         /\ \A d, q, z : c # d /\ InLog(d, q, shown, log, z) => InLog(d, q, shown, log', z)
<1> DEFINE n == Len(text)
<1>1. /\ t \in Seq(Byte) /\ Len(t) \in Nat /\ n \in Nat \ {0} /\ n <= Len(t)
      /\ \A i \in 1..Len(t) : /\ Sends(c, p, t[i]) /\ t[i] \in Byte
                              /\ Pos(t[i]) \in Position
  BY PieceType
<1>2. 1 \in 1..Len(t) /\ 1 \in 1..n /\ text[1] = t[1]
  BY <1>1
<1>3. \A i \in 1..n : i \in 1..Len(t) /\ t[i].line = t[1].line
  <2> SUFFICES ASSUME NEW i \in 1..n PROVE i \in 1..Len(t) /\ t[i].line = t[1].line
    OBVIOUS
  <2>1. i \in 1..Len(t) /\ \A j \in 1..Len(t) : j < i => ~t[j].end
    BY <1>1
  <2> QED
    BY <2>1, PieceOneLine
<1>4. \A i \in 1..Len(t) : t[i].end \/ i \in 1..n
  BY <1>1
<1>5. x[1] = t[1].line /\ x[2] = t[1].at /\ t[1].line \in Nat
  <2>1. Pos(t[1]) = x
    BY <1>1, PieceBegins
  <2> QED
    BY <1>1, <1>2, <2>1, PosIs DEF Byte
<1>6. ~Earlier(y, x)
  BY DEF Piece
<1>6a. x[2] \in Nat /\ \A i \in 1..n : text[i].at \in Nat /\ text[i].line \in Nat
  BY <1>1, <1>2, <1>3, <1>5 DEF Byte
<1>7. \A b : Sends(c, p, b) /\ IsText(b) /\ ~Earlier(Pos(b), x) /\ Earlier(Pos(b), y)
        => \E i \in 1..n : text[i] = b
  <2> SUFFICES ASSUME NEW b, Sends(c, p, b), IsText(b), ~Earlier(Pos(b), x),
                      Earlier(Pos(b), y)
               PROVE  \E i \in 1..n : text[i] = b
    OBVIOUS
  <2>1. PICK i \in 1..Len(t) : t[i] = b
    BY DEF Piece
  <2>2. i \in 1..n
    BY <1>4, <2>1 DEF IsText
  <2> QED
    BY <2>1, <2>2
<1>8. CASE Command(text)
  <2>1. t[1].line = 0 /\ log' = log /\ name' = [name EXCEPT ![turn] = text[1].client]
    BY <1>2, <1>8 DEF Command, LogString
  <2>2. name'[turn] = c /\ \A s \in Slots : s # turn => name'[s] = name[s]
    <3>1. t[1].client = c
      BY <1>1, <1>2 DEF Sends
    <3> QED
      BY <1>2, <2>1, <3>1 DEF LogTypes
  <2>3. \A b : Sends(c, p, b) /\ ~Earlier(Pos(b), x) /\ Earlier(Pos(b), y)
              => ~Owed(shown, b)
    <3> SUFFICES ASSUME NEW b, Sends(c, p, b), ~Earlier(Pos(b), x),
                        Earlier(Pos(b), y), IsText(b)
                 PROVE  FALSE
      BY DEF Owed
    <3>1. PICK i \in 1..n : text[i] = b
      BY <1>7
    <3>2. b.line = 0
      BY <1>3, <2>1, <3>1
    <3> QED
      BY <3>2 DEF IsText
  <2>4. InLog(c, p, shown, log, y)
    BY <1>6, <2>3, LogSkips
  <2> QED
    BY <2>1, <2>2, <2>4
<1>9. CASE ~Command(text)
  <2> DEFINE e == [name |-> name[turn], text |-> Tail(text)]
  <2>1. PICK high \in ShownAs(text[1]) :
          log' = (IF high THEN Append(log, e) ELSE log) /\ name' = name
    BY <1>9 DEF LogString, LogText
  <2>2. t[1].line > 0 /\ name[turn] = c
    BY <1>2, <1>5, <1>9 DEF Command, Starts
  <2>3. /\ e \in Entry /\ e.name = c /\ log \in Seq(Entry) /\ Len(e.text) = n - 1
        /\ \A i \in 1..(n - 1) : e.text[i] = text[i + 1] /\ i + 1 \in 1..n
    <3>1. text # <<>>
      BY <1>1, EmptySeq
    <3>2. /\ Tail(text) \in Seq(Byte) /\ Len(Tail(text)) = n - 1
          /\ \A i \in 1..Len(Tail(text)) : Tail(text)[i] = text[i + 1]
      BY <3>1, HeadTailProperties
    <3>3. e.name = name[turn] /\ e.text = Tail(text)
      OBVIOUS
    <3>4. e \in Entry /\ log \in Seq(Entry)
      BY <3>2 DEF Entry, LogTypes
    <3> HIDE DEF e
    <3>5. \A i \in 1..(n - 1) : i + 1 \in 1..n
      BY <1>1
    <3> QED
      BY <2>2, <3>2, <3>3, <3>4, <3>5
  <2> HIDE DEF e
  <2>4. \A i \in 1..n : /\ text[i] = t[i] /\ Sends(c, p, text[i]) /\ IsText(text[i])
                         /\ ~Earlier(Pos(text[i]), x) /\ Earlier(Pos(text[i]), y)
                         /\ text[i].client = c /\ text[i].line = text[1].line
    <3>1. \A i \in 1..n : /\ text[i] = t[i] /\ Sends(c, p, t[i])
                           /\ ~t[i].end /\ t[i].line > 0
                           /\ ~Earlier(Pos(t[i]), x) /\ Earlier(Pos(t[i]), y)
                           /\ t[i].client = c /\ t[i].line = t[1].line
      BY <1>1, <1>3, <2>2 DEF Piece, Sends
    <3> QED
      BY <1>2, <3>1 DEF IsText
  <2>5. \A i, j \in 1..n : i < j => Earlier(Pos(text[i]), Pos(text[j]))
    BY <1>3, <2>4 DEF Piece
  <2>6. CASE high
    <3>1. InLog(c, p, shown, Append(log, e), y)
      <4>1. \A i \in 1..Len(e.text) :
              LET b == e.text[i] IN
              Sends(c, p, b) /\ IsText(b) /\ ~Earlier(Pos(b), x) /\ Earlier(Pos(b), y)
        BY <2>3, <2>4
      <4>2. \A i, j \in 1..Len(e.text) : i < j => Earlier(Pos(e.text[i]), Pos(e.text[j]))
        <5>1. \A i, j \in 1..(n - 1) : i < j => i + 1 < j + 1
          BY <1>1
        <5> QED
          BY <2>3, <2>5, <5>1
      <4>3. ASSUME NEW b, Sends(c, p, b), Owed(shown, b), ~Earlier(Pos(b), x),
                   Earlier(Pos(b), y)
            PROVE  \E i \in 1..Len(e.text) : e.text[i] = b
        <5>1. PICK i \in 1..n : text[i] = b
          BY <1>7, <4>3 DEF Owed
        <5>2. i # 1
          <6>1. b.at \in 2..(MaxMsg - 1)
            BY <4>3 DEF Owed
          <6>2. x[2] = 1 \/ x[2] >= MaxMsg
            BY DEF Starts
          <6>3. ~(x[2] \in 2..(MaxMsg - 1))
            BY <1>5, <6>2, <1>6a, Numbers
          <6> QED
            BY <1>2, <1>5, <5>1, <6>1, <6>3
        <5>3. i - 1 \in 1..(n - 1) /\ (i - 1) + 1 = i
          BY <1>1, <5>2
        <5> QED
          BY <2>3, <5>1, <5>3
      <4> QED
        BY <1>6, <2>3, <4>1, <4>2, <4>3, LogGrows
    <3>2. OwnLog(Append(log, e))
      <4>1. \A i \in 1..Len(e.text) : 1 \in 1..Len(e.text)
        BY <1>1, <2>3
      <4>2. \A i \in 1..Len(e.text) : /\ e.text[i].client = e.name
                                       /\ e.text[i].line = e.text[1].line
        <5>1. \A i \in 1..Len(e.text) : /\ e.text[i].client = c
                                         /\ e.text[i].line = text[1].line
          <6> SUFFICES ASSUME NEW i \in 1..Len(e.text)
                       PROVE  /\ e.text[i].client = c
                              /\ e.text[i].line = text[1].line
            OBVIOUS
          <6>1. PICK k \in 1..n : e.text[i] = text[k]
            BY <2>3
          <6>2. text[k].client = c /\ text[k].line = text[1].line
            BY <2>4
          <6> QED
            BY <6>1, <6>2
        <5>2. \A i \in 1..Len(e.text) : e.text[1].line = text[1].line
          BY <4>1, <5>1
        <5> QED
          BY <2>3, <5>1, <5>2
      <4> QED
        BY <2>3, <4>2, OwnLogGrows
    <3>3. ASSUME NEW d, NEW q, NEW z, c # d, InLog(d, q, shown, log, z)
          PROVE  InLog(d, q, shown, Append(log, e), z)
      <4>1. \A i \in 1..Len(e.text) : e.text[i].client = c
        BY <2>3, <2>4
      <4> QED
        BY <2>3, <3>3, <4>1, LogOfOthers
    <3> QED
      BY <2>1, <2>2, <2>6, <3>1, <3>2, <3>3
  <2>7. CASE ~high
    <3>1. log' = log
      BY <2>1, <2>7
    <3>2. ASSUME NEW b, Sends(c, p, b), ~Earlier(Pos(b), x), Earlier(Pos(b), y),
                 Owed(shown, b)
          PROVE  FALSE
      <4>1. PICK i \in 1..n : text[i] = b
        BY <1>7, <3>2 DEF Owed
      <4>2. /\ b.client = c /\ b.line = text[1].line /\ <<b.client, b.line>> \in shown
            /\ b.at \in 2..(MaxMsg - 1) /\ text[1].client = c
        BY <1>2, <2>4, <3>2, <4>1 DEF Owed
      <4>3. CASE x[2] = 1
        <5>1. ShownAs(text[1]) = {Shown(text[1])}
          BY <1>2, <1>5, <4>3 DEF ShownAs
        <5>2. <<text[1].client, text[1].line>> \notin shown
          BY <2>1, <2>7, <5>1 DEF Shown
        <5> QED
          BY <4>2, <5>2
      <4>4. CASE x[2] # 1
        <5>1. text[1].at >= MaxMsg
          BY <1>2, <1>5, <4>4 DEF Starts
        <5>2. i = 1 \/ (1 < i /\ Earlier(Pos(text[1]), Pos(text[i])))
          BY <1>1, <1>2, <2>5
        <5>3. i = 1 \/ text[1].at < b.at
          BY <1>2, <2>4, <4>1, <4>2, <5>2, <1>6a DEF Earlier, Pos
        <5> QED
          BY <1>2, <1>6a, <4>1, <4>2, <5>1, <5>3, Numbers
      <4> QED
        BY <4>3, <4>4
    <3>3. InLog(c, p, shown, log, y)
      BY <1>6, <3>2, LogSkips
    <3> QED
      BY <2>1, <2>2, <3>1, <3>3
  <2> QED
    BY <2>6, <2>7
<1> QED
  BY <1>8, <1>9

(* Another slot's turn, or another client, is not concerned. *)
LEMMA OthersFollow ==
  ASSUME Types, Slotted, Streams, turn \in Slots, UNCHANGED <<printed, shown>>,
         NEW d \in Clients, d # fd[turn], phase'[d] # "refused",
         phase'[d] = phase[d], wire'[d] = wire[d],
         \A s \in Slots : s # turn => /\ fd'[s] = fd[s] /\ recvBuf'[s] = recvBuf[s]
                                      /\ name'[s] = name[s],
         fd'[turn] \in {fd[turn], None},
         \A q, x : InLog(d, q, shown, log, x) => InLog(d, q, shown, log', x)
  PROVE  Follows(d)'
<1>1. Follows(d) /\ d # None
  BY Numbers DEF Streams
<1>2. \A s \in Slots : /\ fd'[s] = d <=> fd[s] = d
                       /\ fd[s] = d => recvBuf'[s] = recvBuf[s] /\ name'[s] = name[s]
  BY <1>1
<1> QED
  BY <1>1, <1>2, FollowsStays

LEMMA LogLineKeepsWhole ==
  ASSUME Types, Whole, LogLine PROVE Whole'
<1> SUFFICES ASSUME ~cut' PROVE (Slotted /\ Phased /\ Streams /\ OwnLog(log))'
  BY DEF Whole
<1>0. PICK c : c = fd[turn]
  OBVIOUS
<1> DEFINE buf == recvBuf[turn]
           p == printed[c]
<1>1. PICK stop \in Ends(buf) :
        /\ \A i \in Ends(buf) : stop <= i
        /\ IF stop = 1 THEN UNCHANGED <<name, log>>
           ELSE LogString(SubSeq(buf, 1, stop - 1))
        /\ recvBuf' = [recvBuf EXCEPT ![turn] = SubSeq(buf, stop + 1, Len(buf))]
  BY DEF LogLine
<1>2. /\ turn \in Slots /\ Processed(turn)
      /\ UNCHANGED <<cut, phase, printed, shown, wire, fd, flags, turn>>
  BY DEF LogLine, client, Types, SlotTypes
<1>3. Slotted /\ Phased /\ Streams /\ OwnLog(log)
  BY <1>2 DEF Whole
<1>4. /\ fd \in [Slots -> Clients \cup {None}] /\ recvBuf \in [Slots -> Seq(Byte)]
      /\ buf \in Seq(Byte) /\ Len(buf) \in Nat /\ stop \in 1..Len(buf) /\ buf[stop].end
      /\ \A i \in 1..Len(buf) : i < stop => ~buf[i].end
  <2>1. /\ fd \in [Slots -> Clients \cup {None}] /\ recvBuf \in [Slots -> Seq(Byte)]
        /\ buf \in Seq(Byte) /\ Len(buf) \in Nat
    BY <1>2, LenProperties DEF Types, SlotTypes
  <2>2. stop \in 1..Len(buf) /\ buf[stop].end
        /\ \A i \in 1..Len(buf) : buf[i].end => stop <= i
    BY <1>1 DEF Ends
  <2> QED
    BY <2>1, <2>2
<1>5. Busy(turn) /\ SlotIs(turn)
  <2>1. turn # None /\ turn <= turn
    BY <1>2, Numbers
  <2> QED
    BY <1>2, <1>3, <2>1 DEF Busy, Slotted
<1>6. /\ Len(buf) <= MaxMsg /\ ~Deleted(turn) /\ c \in Clients /\ c # None
      /\ phase[c] \in {"open", "closed"}
  <2>1. buf # <<>>
    BY <1>4, EmptySeq
  <2> QED
    BY <1>0, <1>2, <1>4, <1>5, <2>1 DEF SlotIs
<1>7. PICK a, m : Followed(c, a, m)
  BY <1>3, <1>6 DEF Streams, Follows
<1>8. /\ Spot(p, a) /\ Spot(p, m) /\ InLog(c, p, shown, log, a) /\ p \in Seq(Lengths)
      /\ Piece(c, p, wire[c], m, Past(p)) /\ Piece(c, p, buf, a, m)
      /\ Starts(a)
      /\ a[1] > 0 => name[turn] = c
  BY <1>0, <1>2, <1>6, <1>7 DEF Followed, Types, ClientTypes
<1> DEFINE y == <<buf[stop].line + 1, 1>>
           t == SubSeq(buf, 1, stop)
           rest == SubSeq(buf, stop + 1, Len(buf))
<1>9. Spot(p, y) /\ Piece(c, p, t, a, y) /\ Piece(c, p, rest, y, m)
  BY <1>4, <1>6, <1>8, PieceLine
<1>10. /\ Len(t) = stop /\ \A i \in 1..stop : t[i] = buf[i]
       /\ rest \in Seq(Byte) /\ Len(rest) = Len(buf) - stop
  <2>1. 1 \in 1..(Len(buf) + 1) /\ stop \in 0..Len(buf) /\ 1 <= stop
        /\ stop + 1 \in 1..(Len(buf) + 1) /\ Len(buf) \in 0..Len(buf)
    BY <1>4
  <2>2. /\ Len(t) = IF 1 <= stop THEN (stop - 1) + 1 ELSE 0
        /\ \A i \in 1..Len(t) : t[i] = buf[(1 + i) - 1]
    BY <1>4, <2>1, PartOf
  <2>3. /\ rest \in Seq(Byte)
        /\ Len(rest) = IF stop + 1 <= Len(buf) THEN (Len(buf) - (stop + 1)) + 1 ELSE 0
    BY <1>4, <2>1, PartOf
  <2> HIDE DEF t, rest, buf
  <2> QED
    BY <1>4, <2>1, <2>2, <2>3
<1>11. y[1] # 0 /\ y[1] > 0 /\ Starts(y)
  <2>1. buf[stop] \in Byte
    BY <1>4, ElementOfSeq
  <2>2. buf[stop].line \in Nat
    BY <2>1 DEF Byte
  <2> QED
    BY <2>2 DEF Starts
<1>12. /\ InLog(c, p, shown, log', y) /\ OwnLog(log') /\ name'[turn] = c
       /\ \A s \in Slots : s # turn => name'[s] = name[s]
       /\ \A d, q, z : c # d /\ InLog(d, q, shown, log, z) => InLog(d, q, shown, log', z)
  <2>1. CASE stop = 1
    <3>1. log' = log /\ name' = name
      BY <1>1, <2>1
    <3>2. /\ Sends(c, p, buf[1]) /\ Pos(buf[1]) = a /\ buf[1].end
      <4>1. Len(buf) > 0 /\ 1 \in 1..Len(buf) /\ buf[1].end
        BY <1>4, <2>1
      <4>2. Pos(buf[1]) = a
        BY <1>6, <1>8, <4>1, PieceBegins
      <4>3. Sends(c, p, buf[1])
        BY <1>8, <4>1 DEF Piece
      <4> QED
        BY <4>1, <4>2, <4>3
    <3>3. a[1] # 0 /\ a[1] \in Nat
      <4>1. /\ Pos(buf[1]) = <<buf[1].line, buf[1].at>> /\ buf[1].line \in Nat
            /\ buf[1].at = Length(p, buf[1].line) + 1
        BY <1>8, <3>2, EndIsLast
      <4>2. a[1] = buf[1].line /\ a[2] = buf[1].at
        BY <3>2, <4>1
      <4> QED
        BY <1>8, <4>1, <4>2 DEF Length, Starts
    <3>4. name[turn] = c
      BY <1>8, <3>3
    <3>5. \A b : Sends(c, p, b) /\ ~Earlier(Pos(b), a) /\ Earlier(Pos(b), y)
                 => ~Owed(shown, b)
      <4> SUFFICES ASSUME NEW b, Sends(c, p, b), ~Earlier(Pos(b), a),
                          Earlier(Pos(b), y)
                   PROVE  b.end
        BY DEF Owed, IsText
      <4>1. PICK i \in 1..Len(t) : t[i] = b
        BY <1>9 DEF Piece
      <4>2. i = 1
        BY <1>10, <2>1, <4>1
      <4> QED
        BY <1>10, <2>1, <3>2, <4>1, <4>2
    <3>6. ~Earlier(y, a)
      BY <1>9 DEF Piece
    <3>7. InLog(c, p, shown, log, y)
      BY <1>6, <1>8, <1>9, <3>5, <3>6, LogSkips
    <3> QED
      BY <1>3, <3>1, <3>4, <3>7
  <2>2. CASE stop # 1
    <3> DEFINE text == SubSeq(buf, 1, stop - 1)
    <3>1. LogString(text)
      BY <1>1, <2>2
    <3>2. /\ text \in Seq(Byte) /\ Len(text) = stop - 1
          /\ \A i \in 1..(stop - 1) : text[i] = buf[i]
      <4>1. 1 \in 1..(Len(buf) + 1) /\ stop - 1 \in 0..Len(buf) /\ 1 <= stop - 1
        BY <1>4, <2>2
      <4>2. /\ text \in Seq(Byte)
            /\ Len(text) = IF 1 <= stop - 1 THEN ((stop - 1) - 1) + 1 ELSE 0
            /\ \A i \in 1..Len(text) : text[i] = buf[(1 + i) - 1]
        BY <1>4, <4>1, PartOf
      <4> HIDE DEF text, buf
      <4> QED
        BY <1>4, <2>2, <4>1, <4>2
    <3> HIDE DEF text
    <3>3. /\ Len(text) \in 1..Len(t)
          /\ \A i \in 1..Len(text) : text[i] = t[i] /\ ~t[i].end
          /\ \A i \in (Len(text) + 1)..Len(t) : t[i].end
      <4> HIDE DEF t, buf
      <4>1. Len(text) \in 1..Len(t)
        BY <1>4, <1>10, <2>2, <3>2
      <4>2. \A i \in 1..Len(text) : /\ i \in 1..Len(buf) /\ i < stop /\ i \in 1..stop
                                    /\ i \in 1..(stop - 1)
        BY <1>4, <3>2
      <4>3. \A i \in (Len(text) + 1)..Len(t) : i = stop /\ i \in 1..stop
        BY <1>4, <1>10, <3>2
      <4> QED
        BY <1>4, <1>10, <3>2, <4>1, <4>2, <4>3
    <3>4. LogTypes
      BY DEF Types
    <3> HIDE DEF t, buf, y, p
    <3> QED
      BY <1>2, <1>3, <1>6, <1>8, <1>9, <3>1, <3>2, <3>3, <3>4, StringLogged
  <2> QED
    BY <2>1, <2>2
<1>13. recvBuf'[turn] = rest /\ \A s \in Slots : s # turn => recvBuf'[s] = recvBuf[s]
  BY <1>1, <1>2, <1>4
<1>14. Slotted'
  <2>1. Distinct'
    BY <1>2, <1>3 DEF Slotted, Distinct
  <2>2. ASSUME NEW s \in Slots, s # turn PROVE SlotIs(s)'
    <3>1. SlotIs(s)
      BY <1>3 DEF Slotted
    <3> QED
      BY <1>2, <1>13, <2>2, <3>1 DEF SlotIs, Busy, Processed, Deleted
  <2>3. SlotIs(turn)'
    <3>1. Len(rest) <= MaxMsg
      BY <1>4, <1>6, <1>10, Numbers
    <3> HIDE DEF rest
    <3> QED
      BY <1>0, <1>2, <1>5, <1>6, <1>13, <3>1 DEF SlotIs, Busy, Processed, Deleted
  <2> QED
    BY <1>2, <2>1, <2>2, <2>3 DEF Slotted
<1>15. Phased'
  BY <1>2, <1>3 DEF Phased
<1>16. Follows(c)'
  <2>1. \A s \in Slots : fd'[s] = c => s = turn
    BY <1>0, <1>2, <1>3, <1>6 DEF Slotted, Distinct
  <2>2. fd'[turn] = c /\ printed'[c] = p /\ phase'[c] = phase[c] /\ wire'[c] = wire[c]
    BY <1>0, <1>2
  <2> HIDE DEF p, y, rest
  <2>3. \A u, v : u = y /\ v = m => Followed(c, u, v)'
    BY <1>2, <1>6, <1>8, <1>9, <1>11, <1>12, <1>13, <2>1, <2>2 DEF Followed
  <2> QED
    BY <2>3 DEF Follows
<1>17. ASSUME NEW d \in Clients, d # c, phase'[d] # "refused" PROVE Follows(d)'
  BY <1>0, <1>2, <1>3, <1>12, <1>13, <1>17, OthersFollow
<1> QED
  BY <1>2, <1>12, <1>14, <1>15, <1>16, <1>17 DEF Streams

-----------------------------------------------------------------------------
(* The end of a turn. *)

LEMMA TurnMovesOn ==
  ASSUME Types, Slotted, EndTurn, NEW s \in Slots
  PROVE  /\ turn \in Slots /\ ~(turn' # None /\ turn' <= turn)
         /\ s # turn => ((turn' # None /\ turn' <= s) <=> (turn # None /\ turn <= s))
<1>1. turn \in Slots /\ turn' = IF turn = MaxClients THEN None ELSE turn + 1
  BY DEF EndTurn, Types, SlotTypes
<1>2. turn \in Nat /\ turn >= 1 /\ turn <= MaxClients /\ s \in Nat /\ s <= MaxClients
      /\ MaxClients \in Nat
  BY <1>1, Numbers DEF Slots
<1> QED
  BY <1>1, <1>2, Numbers

(* The slots whose turn it is not stay as they are. *)
LEMMA EndTurnKeepsOthers ==
  ASSUME Types, Slotted, EndTurn, NEW s \in Slots, s # turn,
         UNCHANGED <<phase, wire>>
  PROVE  /\ fd'[s] = fd[s] /\ recvBuf'[s] = recvBuf[s] /\ flags'[s] = flags[s]
         /\ SlotIs(s)'
<1>1. /\ fd \in [Slots -> Clients \cup {None}] /\ recvBuf \in [Slots -> Seq(Byte)]
      /\ flags \in [Slots -> SUBSET Flags] /\ turn \in Slots
  BY TurnMovesOn DEF Types, SlotTypes
<1>2. recvBuf'[s] = recvBuf[s]
  BY <1>1 DEF EndTurn, KeepRest
<1>3. fd'[s] = fd[s] /\ flags'[s] = flags[s]
  <2>1. CASE Deleted(turn)
    BY <1>1, <2>1 DEF EndTurn
  <2>2. CASE ~Deleted(turn)
    BY <1>1, <2>2 DEF EndTurn
  <2> QED
    BY <2>1, <2>2
<1>4. (turn' # None /\ turn' <= s) <=> (turn # None /\ turn <= s)
  BY TurnMovesOn
<1>5. SlotIs(s)
  BY DEF Slotted
<1>6. SlotIs(s)'
  BY <1>2, <1>3, <1>4, <1>5 DEF SlotIs, Busy, Processed, Deleted
<1> QED
  BY <1>2, <1>3, <1>6

(* A turn of which nothing is left to do. *)
LEMMA IdleTurnKeepsWhole ==
  ASSUME Types, Slotted, Phased, Streams, OwnLog(log), EndTurn, ~Deleted(turn),
         UNCHANGED <<name, log, recvBuf>>, Len(recvBuf[turn]) < MaxMsg,
         Ends(recvBuf[turn]) = {}
  PROVE  (Slotted /\ Phased /\ Streams /\ OwnLog(log))'
<1>1. /\ UNCHANGED <<phase, wire, fd, printed, shown, cut, name, log, recvBuf>>
      /\ flags' = [flags EXCEPT ![turn] = @ \ {"CONNECT"}]
  BY DEF EndTurn
<1>2. turn \in Slots /\ flags \in [Slots -> SUBSET Flags]
      /\ ~(turn' # None /\ turn' <= turn)
  BY TurnMovesOn DEF EndTurn, Types, SlotTypes
<1>3. SlotIs(turn)
  BY <1>2 DEF Slotted
<1>4. \A t : t = turn => SlotIs(t)'
  <2> SUFFICES ASSUME NEW t, t = turn PROVE SlotIs(t)'
    OBVIOUS
  <2>1. ~Busy(t)' /\ ~Deleted(t)'
    BY <1>1, <1>2 DEF Busy, Deleted
  <2> QED
    BY <1>1, <1>3, <2>1 DEF SlotIs
<1>5. \A s \in Slots : SlotIs(s)'
  BY <1>1, <1>4, EndTurnKeepsOthers
<1>6. Distinct'
  BY <1>1 DEF Slotted, Distinct
<1>7. \A d \in Clients : phase'[d] # "refused" => Follows(d)'
  <2> SUFFICES ASSUME NEW d \in Clients, phase'[d] # "refused" PROVE Follows(d)'
    OBVIOUS
  <2>1. Follows(d)
    BY <1>1 DEF Streams
  <2> QED
    BY <1>1, <2>1, FollowsStays
<1> QED
  BY <1>1, <1>5, <1>6, <1>7 DEF Slotted, Phased, Streams

(* The turn of a slot whose client has closed, and been read to its end. *)
LEMMA DeletingKeepsWhole ==
  ASSUME Types, Slotted, Phased, Streams, OwnLog(log), EndTurn, Deleted(turn),
         UNCHANGED <<name, log, recvBuf>>
  PROVE  (Slotted /\ Phased /\ Streams /\ OwnLog(log))'
<1>0. PICK c : c = fd[turn]
  OBVIOUS
<1>1. /\ UNCHANGED <<printed, shown, cut, name, log, recvBuf>>
      /\ phase' = [phase EXCEPT ![c] = IF @ = "open" THEN "dropped" ELSE @]
      /\ wire' = [wire EXCEPT ![c] = <<>>]
      /\ fd' = [fd EXCEPT ![turn] = None] /\ flags' = [flags EXCEPT ![turn] = {}]
  BY <1>0 DEF EndTurn
<1>2. /\ turn \in Slots /\ flags \in [Slots -> SUBSET Flags]
      /\ ~(turn' # None /\ turn' <= turn)
      /\ phase \in [Clients -> Phases] /\ wire \in [Clients -> Seq(Byte)]
      /\ fd \in [Slots -> Clients \cup {None}]
  BY TurnMovesOn DEF EndTurn, Types, SlotTypes, ClientTypes
<1>3. /\ c \in Clients /\ c # None /\ phase[c] = "closed" /\ wire[c] = <<>>
      /\ recvBuf[turn] = <<>>
  BY <1>0, <1>2 DEF Slotted, SlotIs, Types, Attached
<1>4. UNCHANGED <<phase, wire>>
  BY <1>1, <1>2, <1>3
<1>5. \A t : t = turn => SlotIs(t)'
  <2> SUFFICES ASSUME NEW t, t = turn PROVE SlotIs(t)'
    OBVIOUS
  <2>1. ~Busy(t)' /\ ~Deleted(t)' /\ fd'[t] = None /\ recvBuf'[t] = <<>>
    BY <1>1, <1>2, <1>3 DEF Busy, Deleted
  <2>2. Len(<<>>) < MaxMsg /\ Ends(<<>>) = {}
    BY EmptySeq, Numbers DEF Ends
  <2> QED
    BY <2>1, <2>2 DEF SlotIs
<1>6. \A s \in Slots : SlotIs(s)'
  BY <1>4, <1>5, EndTurnKeepsOthers
<1>7. Distinct'
  BY <1>1, <1>2 DEF Slotted, Distinct
<1>8. Follows(c)'
  <2>1. PICK a, m : Followed(c, a, m)
    BY <1>3 DEF Streams, Follows
  <2> DEFINE p == printed[c]
  <2>2. /\ Spot(p, a) /\ Spot(p, m) /\ InLog(c, p, shown, log, a) /\ p \in Seq(Lengths)
        /\ Piece(c, p, wire[c], m, Past(p)) /\ Piece(c, p, <<>>, a, m)
        /\ Starts(a)
    BY <1>0, <1>2, <1>3, <2>1 DEF Followed, Types, ClientTypes
  <2>3. a = m
    BY <1>3, <2>2, PieceNone
  <2>4. \A s \in Slots : fd'[s] # c
    BY <1>0, <1>1, <1>2, <1>3 DEF Slotted, Distinct
  <2>5. /\ printed'[c] = p /\ phase'[c] = "closed" /\ wire'[c] = wire[c] /\ log' = log
        /\ shown' = shown
    BY <1>1, <1>3, <1>4
  <2> HIDE DEF p
  <2>6. \A u, v : u = a /\ v = m => Followed(c, u, v)'
    BY <2>2, <2>3, <2>4, <2>5 DEF Followed
  <2> QED
    BY <2>6 DEF Follows
<1>9. ASSUME NEW d \in Clients, d # c, phase'[d] # "refused" PROVE Follows(d)'
  <2>1. Follows(d) /\ \A s \in Slots : fd'[s] = d <=> fd[s] = d
    <3>1. d # None
      BY Numbers
    <3> QED
      BY <1>0, <1>1, <1>2, <1>4, <1>9, <3>1 DEF Streams
  <2> QED
    BY <1>1, <1>4, <2>1, FollowsStays
<1> QED
  BY <1>1, <1>4, <1>6, <1>7, <1>8, <1>9 DEF Slotted, Phased, Streams

(* The turn of a slot whose buffer is full, with no end of a line in it. *)
LEMMA FullTurnKeepsWhole ==
  ASSUME Types, Slotted, Phased, Streams, OwnLog(log), EndTurn,
         Processed(turn), Len(recvBuf[turn]) = MaxMsg, Ends(recvBuf[turn]) = {}
  PROVE  (Slotted /\ Phased /\ Streams /\ OwnLog(log))'
<1>0. PICK c : c = fd[turn]
  OBVIOUS
<1> DEFINE buf == recvBuf[turn]
           p == printed[c]
           n == Len(buf) - 1
           text == SubSeq(buf, 1, n)
<1>1. /\ turn \in Slots /\ flags \in [Slots -> SUBSET Flags]
      /\ ~(turn' # None /\ turn' <= turn)
      /\ fd \in [Slots -> Clients \cup {None}] /\ recvBuf \in [Slots -> Seq(Byte)]
      /\ buf \in Seq(Byte) /\ Len(buf) \in Nat /\ n \in Nat \ {0} /\ Len(buf) = n + 1
      /\ n < Len(buf) /\ 1 < MaxMsg /\ n + 1 \in 1..Len(buf)
  BY Numbers, LenProperties, TurnMovesOn DEF Types, SlotTypes
<1>2. Busy(turn) /\ SlotIs(turn)
  <2>1. turn # None /\ turn <= turn
    BY <1>1, Numbers
  <2> QED
    BY <1>1, <2>1 DEF Busy, Slotted
<1>3. /\ ~Deleted(turn) /\ c \in Clients /\ c # None /\ phase[c] \in {"open", "closed"}
  <2>1. buf # <<>>
    BY <1>1, EmptySeq
  <2> QED
    BY <1>0, <1>1, <1>2, <2>1 DEF SlotIs
<1>4. /\ UNCHANGED <<phase, wire, fd, printed, shown, cut>>
      /\ flags' = [flags EXCEPT ![turn] = @ \ {"CONNECT"}]
      /\ LogString(text) /\ recvBuf' = [recvBuf EXCEPT ![turn] = Kept(buf)]
  BY <1>3 DEF EndTurn, KeepRest, Exceeded
<1>5. \A i \in 1..Len(buf) : ~buf[i].end
  BY DEF Ends
<1>6. PICK a, m : Followed(c, a, m)
  BY <1>3 DEF Streams, Follows
<1>7. /\ Spot(p, a) /\ Spot(p, m) /\ InLog(c, p, shown, log, a) /\ p \in Seq(Lengths)
      /\ Piece(c, p, wire[c], m, Past(p)) /\ Piece(c, p, buf, a, m)
      /\ Starts(a)
      /\ a[1] > 0 => name[turn] = c
  BY <1>0, <1>1, <1>3, <1>6 DEF Followed, Types, ClientTypes
<1>8. PICK y : /\ Spot(p, y) /\ (n < Len(buf) => y = Pos(buf[n + 1]))
               /\ Piece(c, p, text, a, y)
               /\ Piece(c, p, SubSeq(buf, n + 1, Len(buf)), y, m)
  <2>1. n \in 0..Len(buf)
    BY <1>1
  <2> HIDE DEF p, n, buf
  <2> QED
    BY <1>3, <1>7, <2>1, PieceTake DEF text
<1>9. SubSeq(buf, n + 1, Len(buf)) = Kept(buf)
  <2> DEFINE k == SubSeq(buf, n + 1, Len(buf))
             l == <<buf[n + 1]>>
  <2>1. n + 1 \in 1..(Len(buf) + 1) /\ Len(buf) \in 0..Len(buf)
    BY <1>1
  <2>2. /\ k \in Seq(Byte)
        /\ Len(k) = IF n + 1 <= Len(buf) THEN (Len(buf) - (n + 1)) + 1 ELSE 0
        /\ \A i \in 1..Len(k) : k[i] = buf[((n + 1) + i) - 1]
    BY <1>1, <2>1, PartOf
  <2>3. l \in Seq(Byte) /\ Len(l) = 1 /\ l[1] = buf[n + 1]
    <3>1. buf[n + 1] \in Byte
      BY <1>1, ElementOfSeq
    <3> HIDE DEF buf, n
    <3> QED
      BY <3>1
  <2> HIDE DEF k, l
  <2>4. Len(k) = 1
    BY <1>1, <2>2
  <2>5. k[1] = buf[n + 1]
    <3> HIDE DEF buf, n
    <3>1. 1 \in 1..Len(k) /\ ((n + 1) + 1) - 1 = n + 1
      BY <1>1, <2>4
    <3> QED
      BY <2>2, <3>1
  <2>6. k = l
    BY <2>2, <2>3, <2>4, <2>5, SeqEqual
  <2> QED
    BY <1>1, <2>6 DEF k, l, Kept
<1>10. Starts(y)
  <2> DEFINE b == buf[n + 1]
  <2>1. Sends(c, p, b) /\ ~b.end
    BY <1>1, <1>5, <1>7 DEF Piece
  <2>2. /\ Pos(b) = <<b.line, b.at>> /\ b.line \in Nat /\ b.at \in 1..(Length(p, b.line) + 1)
        /\ ~(b.at = Length(p, b.line) + 1)
    BY <1>7, <2>1, EndIsLast
  <2>3. y[1] = b.line /\ y[2] = b.at
    BY <1>1, <1>8, <2>2
  <2>4. b.line = 0 => b.at = 1
    <3>1. Length(p, 0) = 1
      BY DEF Length
    <3> HIDE DEF b
    <3> QED
      BY <2>2, <3>1
  <2>5. b.at >= n + 1
    <3>1. n + 1 \in 1..Len(buf) /\ \A i \in 1..(n + 1) : i \in 1..Len(buf)
      BY <1>1
    <3> HIDE DEF buf, n, p
    <3>2. \A i \in 1..(n + 1) : buf[i].line = buf[1].line
      BY <1>3, <1>5, <1>7, <3>1, PieceOneLine
    <3> QED
      BY <1>7, <3>1, <3>2, PieceRises DEF b
  <2>6. MaxMsg = n + 1
    BY <1>1
  <2> HIDE DEF b, n
  <2> QED
    BY <2>3, <2>4, <2>5, <2>6 DEF Starts
<1>11. /\ InLog(c, p, shown, log', y) /\ OwnLog(log') /\ name'[turn] = c
       /\ \A s \in Slots : s # turn => name'[s] = name[s]
       /\ \A d, q, z : c # d /\ InLog(d, q, shown, log, z) => InLog(d, q, shown, log', z)
  <2>1. text \in Seq(Byte) /\ Len(text) = n /\ \A i \in 1..n : text[i] = buf[i]
    <3>1. 1 \in 1..(Len(buf) + 1) /\ n \in 0..Len(buf) /\ 1 <= n
      BY <1>1
    <3>2. /\ text \in Seq(Byte) /\ Len(text) = IF 1 <= n THEN (n - 1) + 1 ELSE 0
          /\ \A i \in 1..Len(text) : text[i] = buf[(1 + i) - 1]
      BY <1>1, <3>1, PartOf
    <3> HIDE DEF text, buf, n
    <3> QED
      <4>1. Len(text) = n /\ \A i \in 1..n : (1 + i) - 1 = i
        BY <1>1, <3>1, <3>2
      <4> QED
        BY <3>2, <4>1
  <2> HIDE DEF text
  <2>2. /\ Len(text) \in 1..Len(text)
        /\ \A i \in 1..Len(text) : text[i] = text[i] /\ ~text[i].end
        /\ \A i \in (Len(text) + 1)..Len(text) : text[i].end
    <3>1. \A i \in 1..n : i \in 1..Len(buf)
      BY <1>1
    <3> HIDE DEF buf, n
    <3> QED
      BY <1>1, <1>5, <2>1, <3>1
  <2>3. LogTypes
    BY DEF Types
  <2> HIDE DEF buf, n, p
  <2> QED
    BY <1>1, <1>3, <1>4, <1>7, <1>8, <2>1, <2>2, <2>3, StringLogged
<1>12. recvBuf'[turn] = Kept(buf) /\ Len(Kept(buf)) < MaxMsg /\ Ends(Kept(buf)) = {}
  <2>1. Len(Kept(buf)) = 1 /\ Kept(buf)[1] = buf[n + 1]
    BY <1>1 DEF Kept
  <2> HIDE DEF buf, n
  <2>2. Ends(Kept(buf)) = {}
    BY <1>1, <1>5, <2>1 DEF Ends
  <2> QED
    BY <1>1, <1>4, <2>1, <2>2 DEF buf
<1>13. \A t : t = turn => SlotIs(t)'
  <2> SUFFICES ASSUME NEW t, t = turn PROVE SlotIs(t)'
    OBVIOUS
  <2>1. ~Busy(t)' /\ ~Deleted(t)' /\ fd'[t] = c /\ phase'[c] = phase[c]
    BY <1>0, <1>1, <1>3, <1>4 DEF Busy, Deleted
  <2> QED
    BY <1>3, <1>12, <2>1 DEF SlotIs
<1>14. \A s \in Slots : SlotIs(s)'
  BY <1>4, <1>13, EndTurnKeepsOthers
<1>15. Distinct'
  BY <1>4 DEF Slotted, Distinct
<1>16. Follows(c)'
  <2>1. \A s \in Slots : fd'[s] = c => s = turn
    BY <1>0, <1>1, <1>3, <1>4 DEF Slotted, Distinct
  <2>2. /\ fd'[turn] = c /\ printed'[c] = p /\ phase'[c] = phase[c] /\ wire'[c] = wire[c]
        /\ Piece(c, p, recvBuf'[turn], y, m) /\ shown' = shown
    BY <1>0, <1>4, <1>8, <1>9, <1>12
  <2> HIDE DEF p, n, text, buf
  <2>3. \A u, v : u = y /\ v = m => Followed(c, u, v)'
    BY <1>1, <1>3, <1>7, <1>8, <1>10, <1>11, <2>1, <2>2 DEF Followed
  <2> QED
    BY <2>3 DEF Follows
<1>17. ASSUME NEW d \in Clients, d # c, phase'[d] # "refused" PROVE Follows(d)'
  <2>1. \A s \in Slots : s # turn => recvBuf'[s] = recvBuf[s]
    BY <1>4
  <2> QED
    BY <1>0, <1>1, <1>4, <1>11, <1>17, <2>1, OthersFollow
<1> QED
  BY <1>4, <1>11, <1>14, <1>15, <1>16, <1>17 DEF Slotted, Phased, Streams

LEMMA EndTurnKeepsWhole ==
  ASSUME Types, Whole, EndTurn PROVE Whole'
<1> SUFFICES ASSUME ~cut' PROVE (Slotted /\ Phased /\ Streams /\ OwnLog(log))'
  BY DEF Whole
<1> DEFINE buf == recvBuf[turn]
<1>1. /\ turn \in Slots /\ KeepRest /\ UNCHANGED cut
      /\ Processed(turn) => Ends(buf) = {}
  BY DEF EndTurn, Types, SlotTypes
<1>2. Slotted /\ Phased /\ Streams /\ OwnLog(log)
  BY <1>1 DEF Whole
<1>3. /\ SlotIs(turn) /\ turn # None /\ turn <= turn
  BY <1>1, <1>2, Numbers DEF Slotted
<1>4. /\ Ends(buf) = {} /\ (Processed(turn) => ~Deleted(turn))
      /\ ~(Processed(turn) /\ Len(buf) = MaxMsg) => Len(buf) < MaxMsg
  <2>1. Len(buf) \in Nat
    BY <1>1, LenProperties DEF Types, SlotTypes
  <2>2. CASE Processed(turn)
    <3>1. Busy(turn)
      BY <1>3, <2>2 DEF Busy
    <3>2. Len(buf) <= MaxMsg /\ ~Deleted(turn)
      BY <1>3, <3>1 DEF SlotIs
    <3> QED
      BY <1>1, <2>1, <2>2, <3>2, Numbers
  <2>3. CASE ~Processed(turn)
    <3>1. ~Busy(turn)
      BY <2>3 DEF Busy
    <3> QED
      BY <1>3, <2>3, <3>1 DEF SlotIs
  <2> QED
    BY <2>2, <2>3
<1>5. CASE Processed(turn) /\ Len(buf) = MaxMsg
  <2>1. Processed(turn) /\ Len(recvBuf[turn]) = MaxMsg /\ Ends(recvBuf[turn]) = {}
    BY <1>4, <1>5
  <2> QED
    BY <1>2, <2>1, FullTurnKeepsWhole, Zenon
<1>6. CASE ~(Processed(turn) /\ Len(buf) = MaxMsg)
  <2>1. UNCHANGED <<name, log, recvBuf>>
    BY <1>1, <1>6 DEF KeepRest, Exceeded
  <2> QED
    <3>1. Len(recvBuf[turn]) < MaxMsg /\ Ends(recvBuf[turn]) = {}
      BY <1>4, <1>6
    <3>2. CASE Deleted(turn)
      BY <1>2, <2>1, <3>2, DeletingKeepsWhole, Zenon
    <3>3. CASE ~Deleted(turn)
      BY <1>2, <2>1, <3>1, <3>3, IdleTurnKeepsWhole, Zenon
    <3> QED
      BY <3>2, <3>3
<1> QED
  BY <1>5, <1>6

LEMMA StepWhole == Types /\ Whole /\ [Next]_vars => Whole'
<1> SUFFICES ASSUME Types, Whole, [Next]_vars PROVE Whole'
  OBVIOUS
<1>1. ASSUME NEW c \in Clients, Connect(c) \/ PrintLine(c) \/ Close(c) PROVE Whole'
  BY <1>1, ConnectKeepsWhole, PrintLineKeepsWhole, CloseKeepsWhole
<1>2. CASE Server
  BY <1>2, RefuseKeepsWhole, SelectKeepsWhole, LogLineKeepsWhole, EndTurnKeepsWhole
     DEF Server
<1>3. CASE UNCHANGED vars
  BY <1>3 DEF vars, Whole, Slotted, Distinct, SlotIs, Busy, Processed, Deleted, Phased,
     Streams, Follows, Followed
<1> QED
  BY <1>1, <1>2, <1>3 DEF Next

-----------------------------------------------------------------------------
(* What it says of the file. *)

LEMMA PrintedIs ==
  ASSUME Types, NEW c \in Clients, NEW b
  PROVE  b \in Printed(c) <=> Sends(c, printed[c], b) /\ IsText(b)
<1> DEFINE p == printed[c]
<1>1. p \in Seq(Lengths) /\ Len(p) \in Nat
  BY LenProperties DEF Types, ClientTypes
<1>2. \A n \in 1..Len(p) : /\ p[n] \in Nat \ {0} /\ Length(p, n) = p[n] /\ n \in Nat
                            /\ n > 0
  <2> SUFFICES ASSUME NEW n \in 1..Len(p)
               PROVE  /\ p[n] \in Nat \ {0} /\ Length(p, n) = p[n] /\ n \in Nat
                      /\ n > 0
    OBVIOUS
  <2>1. p[n] \in Lengths
    BY <1>1, ElementOfSeq
  <2>2. n \in Nat /\ n > 0 /\ n # 0
    BY <1>1
  <2> QED
    BY <2>1, <2>2, Numbers DEF Length
<1>3. b \in Printed(c) <=> \E n \in 1..Len(p) : \E i \in 1..p[n] : b = Line(c, n, p[n])[i]
  BY DEF Printed
<1> HIDE DEF p
<1>4. \A n \in 1..Len(p) : \A i \in 1..p[n] :
        Line(c, n, p[n])[i] = [client |-> c, line |-> n, at |-> i, end |-> i > p[n]]
  BY <1>2 DEF Line
<1>5. ASSUME NEW n \in 1..Len(p), NEW i \in 1..p[n], b = Line(c, n, p[n])[i]
      PROVE  Sends(c, p, b) /\ IsText(b)
  <2>1. b = [client |-> c, line |-> n, at |-> i, end |-> i > p[n]]
    BY <1>4, <1>5
  <2>2. i \in Nat /\ i <= p[n] /\ ~(i > p[n]) /\ i \in 1..(p[n] + 1)
    BY <1>2
  <2>3. b.client = c /\ b.line = n /\ b.at = i /\ (b.end <=> i > p[n]) /\ b \in Byte
    <3>1. (i > p[n]) \in BOOLEAN /\ n \in Nat /\ c \in Clients \cup {None}
      BY <1>2
    <3>2. b.client = c /\ b.line = n /\ b.at = i /\ (b.end <=> i > p[n])
      BY <2>1
    <3>3. b \in Byte
      BY <2>1, <2>2, <3>1 DEF Byte
    <3> QED
      BY <3>2, <3>3
  <2> QED
    BY <1>1, <1>2, <2>2, <2>3 DEF Sends, IsText
<1>6. ASSUME Sends(c, p, b), IsText(b)
      PROVE  \E n \in 1..Len(p) : \E i \in 1..p[n] : b = Line(c, n, p[n])[i]
  <2>1. /\ b \in Byte /\ b.client = c /\ b.line \in 1..Len(p) /\ ~b.end
        /\ b.at \in 1..(p[b.line] + 1) /\ ~(b.at > p[b.line])
    BY <1>1, <1>2, <1>6 DEF Sends, IsText
  <2>2. p[b.line] \in Nat
    BY <1>2, <2>1
  <2>3. b.at \in 1..p[b.line]
    BY <2>1, <2>2
  <2>4. b.end = FALSE /\ (b.at > p[b.line]) = FALSE
    BY <2>1 DEF Byte
  <2>5. b = [client |-> c, line |-> b.line, at |-> b.at, end |-> b.at > p[b.line]]
    BY <2>1, <2>4 DEF Byte
  <2>6. b = Line(c, b.line, p[b.line])[b.at]
    BY <1>4, <2>1, <2>3, <2>5
  <2> QED
    BY <2>1, <2>3, <2>6
<1> QED
  BY <1>3, <1>5, <1>6 DEF p

LEMMA PiecesAre ==
  ASSUME Types, NEW c \in Clients
  PROVE  LET P == Pieces(c)
             n == Len(log)
         IN /\ n \in Nat /\ Len(P) = (n + MaxClients) + 1
            /\ \A i \in 1..n : P[i] = log[i].text
            /\ \A s \in Slots : P[n + s] = recvBuf[s]
            /\ P[(n + MaxClients) + 1] = wire[c]
<1> DEFINE n == Len(log)
           lg == [i \in 1..n |-> log[i].text]
           q == lg \o recvBuf
           P == q \o <<wire[c]>>
<1>1. /\ log \in Seq(Entry) /\ n \in Nat /\ wire[c] \in Seq(Byte)
      /\ recvBuf \in [Slots -> Seq(Byte)]
  BY LenProperties DEF Types, LogTypes, SlotTypes, ClientTypes
<1>2. lg \in Seq(Seq(Byte)) /\ Len(lg) = n /\ \A i \in 1..n : lg[i] = log[i].text
  <2>1. \A i \in 1..n : log[i].text \in Seq(Byte)
    <3> SUFFICES ASSUME NEW i \in 1..n PROVE log[i].text \in Seq(Byte)
      OBVIOUS
    <3>1. log[i] \in Entry
      BY <1>1, ElementOfSeq
    <3> QED
      BY <3>1 DEF Entry
  <2> HIDE DEF n
  <2> QED
    BY <1>1, <2>1
<1>3. recvBuf \in Seq(Seq(Byte)) /\ Len(recvBuf) = MaxClients
  BY <1>1, Numbers DEF Slots
<1>4. <<wire[c]>> \in Seq(Seq(Byte)) /\ Len(<<wire[c]>>) = 1 /\ <<wire[c]>>[1] = wire[c]
  BY <1>1
<1> DEFINE w == <<wire[c]>>
<1> HIDE DEF lg, n, w
<1>5. /\ q \in Seq(Seq(Byte)) /\ Len(q) = n + MaxClients
      /\ \A i \in 1..(n + MaxClients) : q[i] = IF i <= n THEN lg[i] ELSE recvBuf[i - n]
  BY <1>2, <1>3, ConcatProperties
<1> HIDE DEF q
<1>6. /\ q \o w \in Seq(Seq(Byte)) /\ Len(q \o w) = (n + MaxClients) + 1
      /\ \A i \in 1..((n + MaxClients) + 1) :
           (q \o w)[i] = IF i <= n + MaxClients THEN q[i] ELSE w[i - (n + MaxClients)]
  <2>1. w \in Seq(Seq(Byte)) /\ Len(w) = 1
    BY <1>4 DEF w
  <2>2. /\ q \o w \in Seq(Seq(Byte)) /\ Len(q \o w) = Len(q) + Len(w)
        /\ \A i \in 1..(Len(q) + Len(w)) :
             (q \o w)[i] = IF i <= Len(q) THEN q[i] ELSE w[i - Len(q)]
    BY <1>5, <2>1, ConcatProperties
  <2> QED
    BY <1>5, <2>1, <2>2
<1> DEFINE r == q \o w
<1>7. r = Pieces(c)
  BY DEF r, w, q, lg, n, Pieces
<1> HIDE DEF r
<1>8. \A i \in 1..n : r[i] = log[i].text
  <2> SUFFICES ASSUME NEW i \in 1..n PROVE r[i] = log[i].text
    OBVIOUS
  <2>1. /\ i \in 1..(n + MaxClients) /\ i \in 1..((n + MaxClients) + 1)
        /\ i <= n /\ i <= n + MaxClients
    BY <1>1, Numbers
  <2> QED
    BY <1>2, <1>5, <1>6, <2>1 DEF r
<1>9. \A s \in Slots : r[n + s] = recvBuf[s]
  <2> SUFFICES ASSUME NEW s \in Slots PROVE r[n + s] = recvBuf[s]
    OBVIOUS
  <2>1. /\ n + s \in 1..(n + MaxClients) /\ n + s \in 1..((n + MaxClients) + 1)
        /\ ~(n + s <= n) /\ n + s <= n + MaxClients /\ (n + s) - n = s
    BY <1>1, Numbers DEF Slots
  <2>2. r[n + s] = q[n + s]
    BY <1>6, <2>1 DEF r
  <2> QED
    BY <1>5, <2>1, <2>2
<1>10. r[(n + MaxClients) + 1] = wire[c]
  <2> DEFINE k == (n + MaxClients) + 1
  <2>1. k \in 1..((n + MaxClients) + 1) /\ ~(k <= n + MaxClients)
        /\ k - (n + MaxClients) = 1
    BY <1>1, Numbers
  <2>2. w[1] = wire[c]
    BY <1>4 DEF w
  <2> HIDE DEF k
  <2>3. r[k] = wire[c]
    BY <1>6, <2>1, <2>2 DEF r
  <2> QED
    BY <2>3 DEF k
<1>11. Len(r) = (n + MaxClients) + 1
  BY <1>6 DEF r
<1> QED
  BY <1>1, <1>7, <1>8, <1>9, <1>10, <1>11 DEF n

LEMMA PlacesAre ==
  ASSUME NEW c, NEW x
  PROVE  LET P == Pieces(c) IN
         x \in Places(c) <=>
           \E i \in 1..Len(P) : \E j \in 1..Len(P[i]) :
             x = <<i, j>> /\ P[i][j].client = c /\ IsText(P[i][j])
<1> DEFINE P == Pieces(c)
           U == UNION {{i} \X (1..Len(P[i])) : i \in 1..Len(P)}
<1>1. x \in U <=> \E i \in 1..Len(P) : \E j \in 1..Len(P[i]) : x = <<i, j>>
  <2>1. \A i : x \in {i} \X (1..Len(P[i])) <=> \E j \in 1..Len(P[i]) : x = <<i, j>>
    OBVIOUS
  <2> HIDE DEF P
  <2>2. x \in U <=> \E i \in 1..Len(P) : x \in {i} \X (1..Len(P[i]))
    OBVIOUS
  <2> QED
    BY <2>1, <2>2
<1>2. x \in Places(c) <=>
        /\ x \in U
        /\ P[x[1]][x[2]].client = c /\ P[x[1]][x[2]].line > 0 /\ ~P[x[1]][x[2]].end
  BY DEF Places
<1> HIDE DEF U, P
<1>3. \A i, j : <<i, j>>[1] = i /\ <<i, j>>[2] = j
  OBVIOUS
<1>4. x \in Places(c) <=>
        \E i \in 1..Len(P) : \E j \in 1..Len(P[i]) :
          x = <<i, j>> /\ P[i][j].client = c /\ IsText(P[i][j])
  BY <1>1, <1>2, <1>3 DEF IsText
<1> QED
  BY <1>4 DEF P

(* Only a client's own slot has bytes of it. *)
LEMMA OwnSlot ==
  ASSUME Types, Slotted, Streams, NEW c \in Clients, NEW s \in Slots,
         NEW j \in 1..Len(recvBuf[s]), recvBuf[s][j].client = c
  PROVE  fd[s] = c
<1> DEFINE d == fd[s]
<1>1. fd \in [Slots -> Clients \cup {None}] /\ SlotIs(s)
  BY DEF Types, SlotTypes, Slotted
<1>2. d # None
  <2>1. Len(<<>>) = 0
    BY EmptySeq
  <2> QED
    BY <1>1, <2>1 DEF SlotIs
<1>3. d \in Clients /\ phase[d] # "refused"
  BY <1>1, <1>2 DEF SlotIs
<1>4. PICK a, m : Piece(d, printed[d], recvBuf[s], a, m)
  BY <1>3 DEF Streams, Follows, Followed
<1>5. Sends(d, printed[d], recvBuf[s][j])
  BY <1>4 DEF Piece
<1> QED
  BY <1>5 DEF Sends

(* Where a byte is says what its position is. *)
LEMMA PlaceIs ==
  ASSUME Types, Slotted, Streams, NEW c \in Clients, NEW a, NEW m, Followed(c, a, m),
         NEW i, NEW j, i \in 1..Len(Pieces(c)), j \in 1..Len(Pieces(c)[i]),
         Pieces(c)[i][j].client = c, IsText(Pieces(c)[i][j])
  PROVE  LET b == Pieces(c)[i][j]
             n == Len(log)
         IN /\ Sends(c, printed[c], b) /\ i \in Nat /\ n \in Nat
            /\ \/ i <= n /\ Inside(log, i, j) /\ b = log[i].text[j] /\ Earlier(Pos(b), a)
               \/ /\ i > n /\ i <= n + MaxClients /\ i - n \in Slots /\ fd[i - n] = c
                  /\ j \in 1..Len(recvBuf[i - n]) /\ b = recvBuf[i - n][j]
                  /\ ~Earlier(Pos(b), a) /\ Earlier(Pos(b), m)
               \/ /\ i = (n + MaxClients) + 1 /\ j \in 1..Len(wire[c]) /\ b = wire[c][j]
                  /\ ~Earlier(Pos(b), m)
<1> DEFINE P == Pieces(c)
           n == Len(log)
           p == printed[c]
           b == P[i][j]
<1>1. /\ n \in Nat /\ Len(P) = (n + MaxClients) + 1
      /\ \A k \in 1..n : P[k] = log[k].text
      /\ \A s \in Slots : P[n + s] = recvBuf[s]
      /\ P[(n + MaxClients) + 1] = wire[c]
  BY PiecesAre
<1>2. /\ InLog(c, p, shown, log, a) /\ Piece(c, p, wire[c], m, Past(p))
      /\ \A s \in Slots : fd[s] = c => Piece(c, p, recvBuf[s], a, m)
  BY DEF Followed
<1> HIDE DEF P, p
<1>3. i \in 1..Len(P) /\ j \in 1..Len(P[i]) /\ b.client = c
  BY DEF P
<1>4. CASE i <= n
  <2>1. i \in 1..n /\ b = log[i].text[j] /\ Inside(log, i, j) /\ i \in Nat
    BY <1>1, <1>3, <1>4 DEF Inside
  <2>2. Sends(c, p, b) /\ Earlier(Pos(b), a)
    BY <1>2, <1>3, <2>1 DEF InLog
  <2> QED
    BY <1>1, <1>4, <2>1, <2>2 DEF P, p
<1>5. CASE i > n /\ i <= n + MaxClients
  <2>1. i \in Nat /\ i - n \in Slots /\ n + (i - n) = i
    BY <1>1, <1>3, <1>5, Numbers DEF Slots
  <2>2. P[i] = recvBuf[i - n]
    BY <1>1, <2>1
  <2>3. j \in 1..Len(recvBuf[i - n]) /\ b = recvBuf[i - n][j]
    BY <1>3, <2>2
  <2>4. fd[i - n] = c
    BY <1>3, <2>1, <2>3, OwnSlot
  <2>5. Sends(c, p, b) /\ ~Earlier(Pos(b), a) /\ Earlier(Pos(b), m)
    BY <1>2, <2>1, <2>3, <2>4 DEF Piece
  <2> QED
    BY <1>1, <1>5, <2>1, <2>3, <2>4, <2>5 DEF P, p
<1>6. CASE ~(i <= n) /\ ~(i > n /\ i <= n + MaxClients)
  <2>1. i = (n + MaxClients) + 1 /\ i \in Nat
    <3>1. i \in 1..((n + MaxClients) + 1)
      BY <1>1, <1>3
    <3> HIDE DEF n
    <3> QED
      BY <1>1, <1>6, <3>1, Numbers
  <2>2. j \in 1..Len(wire[c]) /\ b = wire[c][j]
    BY <1>1, <1>3, <2>1
  <2>3. Sends(c, p, b) /\ ~Earlier(Pos(b), m)
    BY <1>2, <2>2 DEF Piece
  <2> QED
    BY <1>1, <2>1, <2>2, <2>3 DEF P, p
<1> QED
  BY <1>4, <1>5, <1>6

LEMMA FollowedBytes ==
  ASSUME Types, Slotted, Streams, NEW c \in Clients, NEW a, NEW m, Followed(c, a, m)
  PROVE  /\ {b \in Printed(c) : Due(b)} \subseteq {ByteAt(c, x) : x \in Places(c)}
         /\ {ByteAt(c, x) : x \in Places(c)} \subseteq Printed(c)
<1> DEFINE P == Pieces(c)
           n == Len(log)
           p == printed[c]
<1>1. ASSUME NEW x \in Places(c) PROVE ByteAt(c, x) \in Printed(c)
  <2>1. PICK i, j : /\ i \in 1..Len(P) /\ j \in 1..Len(P[i])
                    /\ x = <<i, j>> /\ P[i][j].client = c /\ IsText(P[i][j])
    BY PlacesAre
  <2>2. Sends(c, p, P[i][j])
    BY <2>1, PlaceIs
  <2>3. ByteAt(c, x) = P[i][j]
    BY <2>1 DEF ByteAt
  <2> QED
    BY <2>1, <2>2, <2>3, PrintedIs
<1>2. ASSUME NEW b \in Printed(c), Due(b)
      PROVE  \E x \in Places(c) : ByteAt(c, x) = b
  <2>1. Sends(c, p, b) /\ IsText(b) /\ b.client = c /\ Owed(shown, b)
    BY <1>2, PrintedIs DEF Sends, Due, Shown, Owed
  <2>2. /\ n \in Nat /\ Len(P) = (n + MaxClients) + 1
        /\ \A k \in 1..n : P[k] = log[k].text
        /\ \A s \in Slots : P[n + s] = recvBuf[s]
        /\ P[(n + MaxClients) + 1] = wire[c]
    BY PiecesAre
  <2>3. /\ InLog(c, p, shown, log, a) /\ Piece(c, p, wire[c], m, Past(p))
        /\ \A s \in Slots : fd[s] = c => Piece(c, p, recvBuf[s], a, m)
        /\ (\A s \in Slots : fd[s] # c) => a = m
    BY DEF Followed
  <2>4. Earlier(Pos(b), Past(p))
    <3>1. p \in Seq(Lengths)
      BY DEF Types, ClientTypes
    <3> QED
      BY <2>1, <3>1, SendsPos
  <2> HIDE DEF P, n, p
  <2>5. \E i \in 1..Len(P) : \E j \in 1..Len(P[i]) : P[i][j] = b
    <3>1. CASE Earlier(Pos(b), a)
      <4>1. PICK i, j : Inside(log, i, j) /\ log[i].text[j] = b
        BY <2>1, <2>3, <3>1 DEF InLog
      <4>2. i \in 1..n /\ i \in 1..Len(P) /\ j \in 1..Len(log[i].text)
        BY <2>2, <4>1, Numbers DEF Inside, n
      <4> QED
        BY <2>2, <4>1, <4>2
    <3>2. CASE ~Earlier(Pos(b), a) /\ Earlier(Pos(b), m)
      <4>1. PICK s \in Slots : fd[s] = c
        BY <2>3, <3>2
      <4>2. PICK j \in 1..Len(recvBuf[s]) : recvBuf[s][j] = b
        BY <2>1, <2>3, <3>2, <4>1 DEF Piece
      <4>3. n + s \in 1..Len(P)
        BY <2>2, Numbers DEF Slots
      <4>4. P[n + s] = recvBuf[s]
        BY <2>2
      <4> QED
        BY <4>2, <4>3, <4>4
    <3>3. CASE ~Earlier(Pos(b), m)
      <4>1. PICK j \in 1..Len(wire[c]) : wire[c][j] = b
        BY <2>1, <2>3, <2>4, <3>3 DEF Piece
      <4>2. (n + MaxClients) + 1 \in 1..Len(P)
        BY <2>2, Numbers
      <4> QED
        BY <2>2, <4>1, <4>2
    <3> QED
      BY <3>1, <3>2, <3>3
  <2>6. PICK i, j : i \in 1..Len(P) /\ j \in 1..Len(P[i]) /\ P[i][j] = b
    BY <2>5
  <2>7. <<i, j>> \in Places(c)
    BY <2>1, <2>6, PlacesAre DEF P
  <2>8. ByteAt(c, <<i, j>>) = b
    BY <2>6 DEF ByteAt, P
  <2> QED
    BY <2>7, <2>8
<1> QED
  BY <1>1, <1>2

LEMMA FollowedOrder ==
  ASSUME Types, Slotted, Streams, NEW c \in Clients, NEW a, NEW m, Followed(c, a, m),
         NEW x \in Places(c), NEW y \in Places(c), Earlier(x, y)
  PROVE  Earlier(Pos(ByteAt(c, x)), Pos(ByteAt(c, y)))
<1> DEFINE P == Pieces(c)
           n == Len(log)
           p == printed[c]
<1>1. PICK i, j : /\ i \in 1..Len(P) /\ j \in 1..Len(P[i])
                  /\ x = <<i, j>> /\ P[i][j].client = c /\ IsText(P[i][j])
  BY PlacesAre
<1>2. PICK k, l : /\ k \in 1..Len(P) /\ l \in 1..Len(P[k])
                  /\ y = <<k, l>> /\ P[k][l].client = c /\ IsText(P[k][l])
  BY PlacesAre
<1> DEFINE b == P[i][j]
           d == P[k][l]
<1>3. ByteAt(c, x) = b /\ ByteAt(c, y) = d /\ (i < k \/ (i = k /\ j < l))
  BY <1>1, <1>2 DEF ByteAt, Earlier
<1>4. /\ Sends(c, p, b) /\ i \in Nat /\ n \in Nat
      /\ \/ i <= n /\ Inside(log, i, j) /\ b = log[i].text[j] /\ Earlier(Pos(b), a)
         \/ /\ i > n /\ i <= n + MaxClients /\ i - n \in Slots /\ fd[i - n] = c
            /\ j \in 1..Len(recvBuf[i - n]) /\ b = recvBuf[i - n][j]
            /\ ~Earlier(Pos(b), a) /\ Earlier(Pos(b), m)
         \/ /\ i = (n + MaxClients) + 1 /\ j \in 1..Len(wire[c]) /\ b = wire[c][j]
            /\ ~Earlier(Pos(b), m)
  BY <1>1, PlaceIs
<1>5. /\ Sends(c, p, d) /\ k \in Nat
      /\ \/ k <= n /\ Inside(log, k, l) /\ d = log[k].text[l] /\ Earlier(Pos(d), a)
         \/ /\ k > n /\ k <= n + MaxClients /\ k - n \in Slots /\ fd[k - n] = c
            /\ l \in 1..Len(recvBuf[k - n]) /\ d = recvBuf[k - n][l]
            /\ ~Earlier(Pos(d), a) /\ Earlier(Pos(d), m)
         \/ /\ k = (n + MaxClients) + 1 /\ l \in 1..Len(wire[c]) /\ d = wire[c][l]
            /\ ~Earlier(Pos(d), m)
  BY <1>2, PlaceIs
<1>6. /\ InLog(c, p, shown, log, a) /\ Piece(c, p, wire[c], m, Past(p))
      /\ \A s \in Slots : fd[s] = c => Piece(c, p, recvBuf[s], a, m)
      /\ p \in Seq(Lengths) /\ Spot(p, a) /\ Spot(p, m) /\ MaxClients \in Nat
      /\ (\A s \in Slots : fd[s] # c) => a = m
      /\ b.client = c /\ d.client = c
  BY <1>1, <1>2, Numbers DEF Followed, Types, ClientTypes
<1> HIDE DEF P, n, p, b, d
<1>7. /\ a \in Position /\ m \in Position /\ ~Earlier(m, a)
      /\ Pos(b) \in Position /\ Pos(d) \in Position
  <2>1. a \in Position /\ m \in Position /\ Pos(b) \in Position /\ Pos(d) \in Position
    BY <1>4, <1>5, <1>6, SpotIs, SendsPos
  <2>2. ~Earlier(m, a)
    BY <1>6, <2>1, Order DEF Piece
  <2> QED
    BY <2>1, <2>2
<1>8. Earlier(Pos(b), Pos(d))
  <2>1. CASE i <= n
    <3>1. Inside(log, i, j) /\ b = log[i].text[j] /\ Earlier(Pos(b), a)
      BY <1>4, <1>6, <2>1
    <3>2. CASE k <= n
      <4>1. Inside(log, k, l) /\ d = log[k].text[l]
        BY <1>4, <1>5, <1>6, <3>2
      <4> QED
        <5>1. log[i].text[j].client = c /\ log[k].text[l].client = c
          BY <1>6, <3>1, <4>1
        <5>2. Earlier(Pos(log[i].text[j]), Pos(log[k].text[l]))
          BY <1>3, <1>6, <3>1, <4>1, <5>1 DEF InLog
        <5> QED
          BY <3>1, <4>1, <5>2
    <3>3. CASE k > n
      BY <1>4, <1>5, <1>7, <3>1, <3>3, Order
    <3> QED
      BY <1>4, <1>5, <3>2, <3>3
  <2>2. CASE i > n /\ i <= n + MaxClients
    <3>1. /\ i - n \in Slots /\ fd[i - n] = c /\ j \in 1..Len(recvBuf[i - n])
          /\ b = recvBuf[i - n][j] /\ Earlier(Pos(b), m)
      BY <1>4, <1>6, <2>2
    <3>2. CASE k <= n + MaxClients
      <4>1. /\ k - n \in Slots /\ fd[k - n] = c /\ l \in 1..Len(recvBuf[k - n])
            /\ d = recvBuf[k - n][l]
        BY <1>3, <1>4, <1>5, <1>6, <2>2, <3>2
      <4>2. i - n = k - n
        BY <1>6, <3>1, <4>1, Numbers DEF Slotted, Distinct
      <4>3. j < l
        BY <1>3, <1>4, <1>5, <4>2
      <4>4. Piece(c, p, recvBuf[i - n], a, m)
        BY <1>6, <3>1
      <4> QED
        BY <3>1, <4>1, <4>2, <4>3, <4>4 DEF Piece
    <3>3. CASE k > n + MaxClients
      <4>1. ~Earlier(Pos(d), m)
        BY <1>4, <1>5, <1>6, <3>3
      <4> QED
        BY <1>7, <3>1, <4>1, Order
    <3> QED
      BY <1>4, <1>5, <1>6, <3>2, <3>3
  <2>3. CASE i > n + MaxClients
    <3>1. i = (n + MaxClients) + 1 /\ j \in 1..Len(wire[c]) /\ b = wire[c][j]
      BY <1>4, <1>6, <2>3
    <3>2. k = (n + MaxClients) + 1 /\ l \in 1..Len(wire[c]) /\ d = wire[c][l]
      BY <1>3, <1>4, <1>5, <1>6, <3>1
    <3>3. j < l
      BY <1>3, <3>1, <3>2
    <3> QED
      BY <1>6, <3>1, <3>2, <3>3 DEF Piece
  <2> QED
    BY <1>4, <1>6, <2>1, <2>2, <2>3
<1> QED
  BY <1>3, <1>8

-----------------------------------------------------------------------------
(* The types hold. *)
THEOREM TypesHold == Spec => []Types
<1>1. Init => Types
  BY InitTypes
<1>2. Types /\ [Next]_vars => Types'
  BY StepTypes
<1> QED
  BY <1>1, <1>2, PTL DEF Spec

(* The invariant is kept, whatever is cut off or breaks. *)
THEOREM WholeHolds == Spec => []Whole
<1>1. Init => Whole
  BY InitWhole
<1>2. Types /\ Whole /\ [Next]_vars => Whole'
  BY StepWhole
<1> QED
  BY <1>1, <1>2, TypesHold, PTL DEF Spec

(***************************************************************************)
(* With any number of clients, of slots and of lines of any length and any *)
(* level, and with receive buffers of any size above one byte: of what a   *)
(* client has printed at a level that is shown, the lines that fit into a  *)
(* buffer, and the first part of the others, are in the file, in its       *)
(* buffer or on the wire, once and in their order, and nothing is there    *)
(* that was not printed, unless its connection was refused or a send cut.  *)
(***************************************************************************)
THEOREM NothingIsLost == Spec => []NothingLost
<1>1. Types /\ Whole => NothingLost
  <2> SUFFICES ASSUME Types, Whole, ~cut, NEW c \in Clients, phase[c] # "refused"
               PROVE  /\ {b \in Printed(c) : Due(b)} \subseteq {ByteAt(c, x) : x \in Places(c)}
                      /\ {ByteAt(c, x) : x \in Places(c)} \subseteq Printed(c)
                      /\ \A x, y \in Places(c) :
                           Earlier(x, y) => Earlier(Pos(ByteAt(c, x)), Pos(ByteAt(c, y)))
    BY DEF NothingLost
  <2>1. Slotted /\ Streams
    BY DEF Whole
  <2>2. PICK a, m : Followed(c, a, m)
    BY <2>1 DEF Streams, Follows
  <2> QED
    BY <2>1, <2>2, FollowedBytes, FollowedOrder
<1> QED
  BY <1>1, TypesHold, WholeHolds, PTL

(***************************************************************************)
(* And a line in the file is of one client and of one line, under the      *)
(* name of that client.                                                    *)
(***************************************************************************)
THEOREM LinesAreOwn == Spec => []OwnLines
<1>1. Whole => OwnLines
  BY DEF Whole, OwnLog, OwnLines, Inside
<1> QED
  BY <1>1, WholeHolds, PTL
=============================================================================
