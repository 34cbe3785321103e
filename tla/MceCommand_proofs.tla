-------------------------- MODULE MceCommand_proofs --------------------------
(***************************************************************************)
(* Calls of mcecmd_write_range, mcecmd_read_range and mcecmd_start, for    *)
(* any parameters, descriptions, calls and processes.                      *)
(*                                                                         *)
(* What calls do to the memory of the MCE and to the caller's buffer: the  *)
(* ranges that Pieces makes of a call are disjoint and lead each index to  *)
(* the cell that it names (PiecesAre); a process keeps to its ranges,      *)
(* whatever the others do (CallInv), a read brings what it has not brought *)
(* yet (ReadInv), a write to several cards takes them in turn (OrderInv).  *)
(***************************************************************************)
EXTENDS MceCommand, SequenceTheorems, NaturalsInduction, WellFoundedInduction, TLAPS

(* The outcomes of an attempt. *)
LEMMA OutcomeIs ==
  ASSUME NEW o \in Outcomes
  PROVE  /\ o[1] \in {"ok", "mismatch", "refused", "checksum", "timeout", "unsent"}
         /\ o[1] = "ok" => o[2]
<1>1. \/ o = <<"ok", TRUE>> \/ o = <<"mismatch", TRUE>> \/ o = <<"mismatch", FALSE>>
      \/ o = <<"refused", FALSE>> \/ o = <<"checksum", TRUE>> \/ o = <<"timeout", TRUE>>
      \/ o = <<"timeout", FALSE>> \/ o = <<"unsent", FALSE>>
  BY Zenon DEF Outcomes
<1>2. CASE o = <<"mismatch", TRUE>>
  BY <1>2
<1>3. CASE o = <<"mismatch", FALSE>>
  BY <1>3
<1>4. CASE o = <<"ok", TRUE>>
  <2>1. o[1] = "ok" /\ o[2]
    BY <1>4
  <2> QED
    BY <2>1
<1>5. CASE o = <<"refused", FALSE>>
  BY <1>5
<1>6. CASE o = <<"checksum", TRUE>>
  BY <1>6
<1>7. CASE o = <<"timeout", TRUE>>
  BY <1>7
<1>8. CASE o = <<"timeout", FALSE>>
  BY <1>8
<1>9. CASE o = <<"unsent", FALSE>>
  BY <1>9
<1> QED
  BY <1>1, <1>2, <1>3, <1>4, <1>5, <1>6, <1>7, <1>8, <1>9

-----------------------------------------------------------------------------
(* The concatenation of sequences.                                         *)

LEMMA SetInduction ==
  ASSUME NEW T, 1 \in T, \A n \in Nat \ {0} : n \in T => n + 1 \in T
  PROVE  Nat \ {0} \subseteq T
<1> SUFFICES ASSUME (Nat \ {0}) \ T # {} PROVE FALSE
  OBVIOUS
<1> DEFINE U == (Nat \ {0}) \ T
<1>1. U \subseteq Nat /\ U # {}
  OBVIOUS
<1>2. \E m \in U : \A b \in U : ~(<<b, m>> \in OpToRel(<, Nat))
  BY <1>1, NatLessThanWellFounded, WFMin
<1>3. \A b, m \in Nat : <<b, m>> \in OpToRel(<, Nat) <=> b < m
  BY DEF OpToRel
<1>4. PICK m \in U : \A b \in U : ~(b < m)
  BY <1>1, <1>2, <1>3
<1>5. m \in Nat \ {0} /\ m # 1 /\ m - 1 \in Nat \ {0} /\ m - 1 < m
  BY <1>4
<1>6. m - 1 \in T
  BY <1>4, <1>5
<1>7. (m - 1) + 1 \in T
  BY <1>5, <1>6
<1> QED
  BY <1>4, <1>5, <1>7

(* f[i] is the concatenation of the first i sequences of ss. *)
IsFlat(f, ss, n) ==
  f = [i \in 1..n |-> IF i = 1 THEN ss[i] ELSE f[i - 1] \o ss[i]]

LEMMA FlatThere ==
  ASSUME NEW ss, NEW n \in Nat \ {0}
  PROVE  \E f : IsFlat(f, ss, n)
<1> DEFINE T == {m \in Nat \ {0} : \E f : IsFlat(f, ss, m)}
<1>1. 1 \in T
  <2> DEFINE f == [i \in 1..1 |-> ss[i]]
  <2>1. IsFlat(f, ss, 1)
    BY DEF IsFlat
  <2> QED
    BY <2>1
<1>2. ASSUME NEW m \in Nat \ {0}, m \in T PROVE m + 1 \in T
  <2>1. PICK f : IsFlat(f, ss, m)
    BY <1>2
  <2> DEFINE g == [i \in 1..(m + 1) |-> IF i <= m THEN f[i] ELSE f[m] \o ss[i]]
  <2>2. f = [i \in 1..m |-> IF i = 1 THEN ss[i] ELSE f[i - 1] \o ss[i]]
    BY <2>1 DEF IsFlat
  <2>3. ASSUME NEW i \in 1..(m + 1)
        PROVE  g[i] = IF i = 1 THEN ss[i] ELSE g[i - 1] \o ss[i]
    <3>1. CASE i = 1
      BY <2>2, <3>1
    <3>2. CASE i # 1 /\ i <= m
      <4>1. i \in 1..m /\ i - 1 \in 1..m /\ i - 1 \in 1..(m + 1) /\ i - 1 <= m
        BY <3>2
      <4>2. f[i] = f[i - 1] \o ss[i]
        BY <2>2, <3>2, <4>1
      <4>3. g[i] = f[i] /\ g[i - 1] = f[i - 1]
        BY <3>2, <4>1
      <4> HIDE DEF g
      <4> QED
        BY <3>2, <4>2, <4>3
    <3>3. CASE i # 1 /\ i = m + 1
      <4>1. i - 1 = m /\ m \in 1..(m + 1) /\ ~(i <= m) /\ m <= m
        BY <3>3
      <4>2. g[i] = f[m] \o ss[i] /\ g[m] = f[m]
        BY <4>1
      <4> HIDE DEF g
      <4> QED
        BY <3>3, <4>1, <4>2
    <3> QED
      BY <3>1, <3>2, <3>3
  <2>4. g = [i \in 1..(m + 1) |-> g[i]]
    OBVIOUS
  <2> HIDE DEF g
  <2>5. g = [i \in 1..(m + 1) |-> IF i = 1 THEN ss[i] ELSE g[i - 1] \o ss[i]]
    BY <2>3, <2>4
  <2>6. IsFlat(g, ss, m + 1)
    BY <2>5, Zenon DEF IsFlat
  <2> QED
    BY <2>6
<1> HIDE DEF T
<1>3. n \in T
  BY <1>1, <1>2, SetInduction
<1> QED
  BY <1>3 DEF T

LEMMA FlattenIs ==
  ASSUME NEW ss, Len(ss) \in Nat \ {0}
  PROVE  \E f : IsFlat(f, ss, Len(ss)) /\ FlattenSeq(ss) = f[Len(ss)]
<1> DEFINE g == CHOOSE f : IsFlat(f, ss, Len(ss))
<1>1. IsFlat(g, ss, Len(ss))
  BY FlatThere
<1>2. FlattenSeq(ss) = g[Len(ss)]
  BY Zenon DEF FlattenSeq, IsFlat
<1> QED
  BY <1>1, <1>2

(* Elements of all of the sequences, in order. *)
Elems(t) == {t[k] : k \in 1..Len(t)}
InOrder(t, Rel) == \A k, l \in 1..Len(t) : k < l => <<t[k], t[l]>> \in Rel
Across(t, u, Rel) == \A k \in 1..Len(t), l \in 1..Len(u) : <<t[k], u[l]>> \in Rel

LEMMA Joined ==
  ASSUME NEW S, NEW Rel, NEW t \in Seq(S), NEW u \in Seq(S)
  PROVE  /\ t \o u \in Seq(S)
         /\ Elems(t \o u) = Elems(t) \cup Elems(u)
         /\ InOrder(t, Rel) /\ InOrder(u, Rel) /\ Across(t, u, Rel) =>
              InOrder(t \o u, Rel)
<1> DEFINE w == t \o u
<1>1. /\ w \in Seq(S) /\ Len(w) = Len(t) + Len(u)
      /\ \A i \in 1..(Len(t) + Len(u)) :
           w[i] = IF i <= Len(t) THEN t[i] ELSE u[i - Len(t)]
  BY ConcatProperties
<1>2. Len(t) \in Nat /\ Len(u) \in Nat
  BY LenProperties
<1> HIDE DEF w
<1>3. \A k \in 1..Len(t) : k \in 1..Len(w) /\ w[k] = t[k]
  BY <1>1, <1>2
<1>4. ASSUME NEW k \in 1..Len(u) PROVE k + Len(t) \in 1..Len(w) /\ w[k + Len(t)] = u[k]
  <2>1. k + Len(t) \in 1..(Len(t) + Len(u)) /\ ~(k + Len(t) <= Len(t))
        /\ (k + Len(t)) - Len(t) = k
    BY <1>2
  <2> QED
    BY <1>1, <2>1
<1>5. ASSUME NEW k \in 1..Len(w), ~(k <= Len(t))
      PROVE  k - Len(t) \in 1..Len(u) /\ w[k] = u[k - Len(t)]
  BY <1>1, <1>2, <1>5
<1>6. Elems(w) \subseteq Elems(t) \cup Elems(u)
  <2> SUFFICES ASSUME NEW k \in 1..Len(w) PROVE w[k] \in Elems(t) \cup Elems(u)
    BY DEF Elems
  <2>1. CASE k <= Len(t)
    <3>1. k \in 1..Len(t)
      BY <1>1, <1>2, <2>1
    <3> QED
      BY <1>3, <3>1 DEF Elems
  <2>2. CASE ~(k <= Len(t))
    BY <1>5, <2>2 DEF Elems
  <2> QED
    BY <2>1, <2>2
<1>7. Elems(t) \cup Elems(u) \subseteq Elems(w)
  BY <1>3, <1>4 DEF Elems
<1>8. ASSUME InOrder(t, Rel), InOrder(u, Rel), Across(t, u, Rel),
             NEW k \in 1..Len(w), NEW l \in 1..Len(w), k < l
      PROVE  <<w[k], w[l]>> \in Rel
  <2>1. CASE l <= Len(t)
    <3>1. k \in 1..Len(t) /\ l \in 1..Len(t)
      BY <1>1, <1>2, <1>8, <2>1
    <3> QED
      BY <1>3, <1>8, <3>1 DEF InOrder
  <2>2. CASE k <= Len(t) /\ ~(l <= Len(t))
    <3>1. k \in 1..Len(t) /\ l - Len(t) \in 1..Len(u) /\ w[l] = u[l - Len(t)]
      BY <1>1, <1>2, <1>5, <2>2
    <3> QED
      BY <1>3, <1>8, <3>1 DEF Across
  <2>3. CASE ~(k <= Len(t))
    <3>1. ~(l <= Len(t)) /\ k - Len(t) < l - Len(t)
      BY <1>1, <1>2, <1>8, <2>3
    <3>2. /\ k - Len(t) \in 1..Len(u) /\ w[k] = u[k - Len(t)]
          /\ l - Len(t) \in 1..Len(u) /\ w[l] = u[l - Len(t)]
      BY <1>5, <2>3, <3>1
    <3> QED
      BY <1>8, <3>1, <3>2 DEF InOrder
  <2> QED
    BY <2>1, <2>2, <2>3
<1> QED
  BY <1>1, <1>6, <1>7, <1>8 DEF w, InOrder

Gathered(t, ss, i, S, Rel) ==
  /\ t \in Seq(S)
  /\ Elems(t) = UNION {Elems(ss[j]) : j \in 1..i}
  /\ InOrder(t, Rel)

LEMMA FlattenHas ==
  ASSUME NEW S, NEW Rel, NEW ss, NEW n \in Nat \ {0}, Len(ss) = n,
         \A i \in 1..n : ss[i] \in Seq(S) /\ InOrder(ss[i], Rel),
         \A i, j \in 1..n : i < j => Across(ss[i], ss[j], Rel)
  PROVE  Gathered(FlattenSeq(ss), ss, n, S, Rel)
<1>1. PICK f : IsFlat(f, ss, n) /\ FlattenSeq(ss) = f[n]
  BY FlattenIs
<1> DEFINE T == {m \in Nat \ {0} : m <= n => Gathered(f[m], ss, m, S, Rel)}
<1>2. f = [i \in 1..n |-> IF i = 1 THEN ss[i] ELSE f[i - 1] \o ss[i]]
  BY <1>1 DEF IsFlat
<1>3. 1 \in T
  <2>1. 1 \in 1..n
    OBVIOUS
  <2>0. ASSUME NEW i \in 1..n, i = 1 PROVE f[i] = ss[i]
    BY <1>2, <2>0
  <2>2. f[1] = ss[1]
    BY <2>0, <2>1
  <2>3. UNION {Elems(ss[j]) : j \in 1..1} = Elems(ss[1])
    OBVIOUS
  <2> QED
    BY <2>1, <2>2, <2>3 DEF Gathered
<1>4. ASSUME NEW m \in Nat \ {0}, m \in T PROVE m + 1 \in T
  <2> SUFFICES ASSUME m + 1 <= n PROVE Gathered(f[m + 1], ss, m + 1, S, Rel)
    OBVIOUS
  <2>1. Gathered(f[m], ss, m, S, Rel) /\ m + 1 \in 1..n /\ 1..m \subseteq 1..n
        /\ m \in 1..n
    BY <1>4
  <2>0. ASSUME NEW i \in 1..n, i # 1 PROVE f[i] = f[i - 1] \o ss[i]
    BY <1>2, <2>0
  <2>2. f[m + 1] = f[m] \o ss[m + 1]
    <3>1. m + 1 # 1 /\ (m + 1) - 1 = m
      OBVIOUS
    <3>2. f[m + 1] = f[(m + 1) - 1] \o ss[m + 1]
      BY <2>0, <2>1, <3>1
    <3> QED
      BY <3>1, <3>2
  <2>3. ss[m + 1] \in Seq(S) /\ InOrder(ss[m + 1], Rel)
    BY <2>1
  <2>4. Across(f[m], ss[m + 1], Rel)
    <3> SUFFICES ASSUME NEW k \in 1..Len(f[m]), NEW l \in 1..Len(ss[m + 1])
                 PROVE  <<f[m][k], ss[m + 1][l]>> \in Rel
      BY DEF Across
    <3>1. f[m][k] \in UNION {Elems(ss[j]) : j \in 1..m}
      BY <2>1 DEF Gathered, Elems
    <3>2. PICK j \in 1..m : f[m][k] \in Elems(ss[j])
      BY <3>1
    <3>3. PICK h \in 1..Len(ss[j]) : f[m][k] = ss[j][h]
      BY <3>2 DEF Elems
    <3>4. j \in 1..n /\ j < m + 1
      BY <2>1
    <3> QED
      BY <2>1, <3>3, <3>4 DEF Across
  <2>5. UNION {Elems(ss[j]) : j \in 1..(m + 1)}
          = (UNION {Elems(ss[j]) : j \in 1..m}) \cup Elems(ss[m + 1])
    <3>1. 1..(m + 1) = (1..m) \cup {m + 1}
      OBVIOUS
    <3> QED
      BY <3>1
  <2>6. f[m] \in Seq(S) /\ InOrder(f[m], Rel)
        /\ Elems(f[m]) = UNION {Elems(ss[j]) : j \in 1..m}
    BY <2>1 DEF Gathered
  <2>7. /\ f[m] \o ss[m + 1] \in Seq(S)
        /\ Elems(f[m] \o ss[m + 1]) = Elems(f[m]) \cup Elems(ss[m + 1])
        /\ InOrder(f[m] \o ss[m + 1], Rel)
    BY <2>3, <2>4, <2>6, Joined
  <2> QED
    BY <2>2, <2>5, <2>6, <2>7, Zenon DEF Gathered
<1> HIDE DEF T
<1>5. n \in T
  BY <1>3, <1>4, SetInduction
<1> QED
  BY <1>1, <1>5 DEF T

-----------------------------------------------------------------------------
(* The ranges of a call.                                                   *)

(* The words of the caller's range that r moves, and where to. *)
Pos(r) == r.off..(r.off + r.count - 1)
IndexOf(r, k) == Base(r) + r.start + (k - r.off)

PieceSet ==
  [param : Params, upper : BOOLEAN, start : Nat, count : Nat, off : Nat]

(* The parameter of r is that of c, or one that it is mapped to. *)
Named(c, r) ==
  IF Desc[c.param].virtual
  THEN \E i \in DOMAIN Desc[c.param].maps : r.param = Desc[c.param].maps[i].param
  ELSE r.param = c.param

(* r moves words of the range of c, to the cells that they name. *)
Sound(c, r) ==
  /\ r \in PieceSet /\ ~Desc[r.param].virtual /\ Named(c, r)
  /\ \A k \in Pos(r) : /\ k \in 0..(c.count - 1)
                       /\ CellsAt(c, k) = RealCells(r.param, IndexOf(r, k))

Disjoint == {rs \in PieceSet \X PieceSet : Pos(rs[1]) \cap Pos(rs[2]) = {}}

Planned(c, s) ==
  /\ s \in Seq(PieceSet) /\ InOrder(s, Disjoint)
  /\ \A i \in 1..Len(s) : Sound(c, s[i])

Covers(s, k) == \E i \in 1..Len(s) : k \in Pos(s[i])
Complete(c, s) == \A k \in 0..(c.count - 1) : CellsAt(c, k) # {} => Covers(s, k)

Moves(c) == c.op \in {"write", "read"}

-----------------------------------------------------------------------------
LEMMA Constants ==
  /\ Split \in Nat \ {0} /\ Activate \in Nat /\ Size \in Nat /\ DataMax \in Nat
  /\ Split <= Activate
BY CommandAssumption

LEMMA MiddleIs ==
  ASSUME NEW lo \in Nat, NEW hi \in Nat, lo <= hi
  PROVE  /\ Middle(lo, hi) \in lo..hi
         /\ Middle(lo, hi) # hi => Split <= Middle(lo, hi)
BY Constants DEF Middle, Larger

(* n words of a real parameter, from lo, for the words of the caller from off. *)
PartOf(r, p, lo, n, off) ==
  /\ r \in PieceSet /\ r.param = p
  /\ \A k \in Pos(r) : k \in off..(off + n - 1) /\ IndexOf(r, k) = lo + (k - off)

RealParts(s, p, lo, n, off) ==
  /\ s \in Seq(PieceSet) /\ InOrder(s, Disjoint)
  /\ \A i \in 1..Len(s) : PartOf(s[i], p, lo, n, off)
  /\ \A k \in off..(off + n - 1) : Covers(s, k)

LEMMA OnePiece ==
  ASSUME NEW r \in PieceSet
  PROVE  /\ <<r>> \in Seq(PieceSet) /\ Len(<<r>>) = 1 /\ <<r>>[1] = r
         /\ InOrder(<<r>>, Disjoint)
BY DEF InOrder

LEMMA NoPiece ==
  <<>> \in Seq(PieceSet) /\ Len(<<>>) = 0 /\ InOrder(<<>>, Disjoint)
BY DEF InOrder

LEMMA RealPiecesAre ==
  ASSUME NEW p \in Params, NEW lo \in Nat, NEW n \in Nat, NEW off \in Nat
  PROVE  RealParts(RealPieces(p, lo, n, off), p, lo, n, off)
<1>1. CASE ~Desc[p].banked
  <2> DEFINE r == Piece(p, FALSE, lo, n, off)
  <2>1. RealPieces(p, lo, n, off) = <<r>>
    BY <1>1 DEF RealPieces
  <2>2. r \in PieceSet /\ r.param = p /\ r.off = off /\ r.count = n /\ r.start = lo
        /\ Base(r) = 0
    BY DEF Piece, PieceSet, Base
  <2> HIDE DEF r
  <2>3. PartOf(r, p, lo, n, off) /\ Pos(r) = off..(off + n - 1)
    BY <2>2 DEF PartOf, Pos, IndexOf
  <2>4. /\ <<r>> \in Seq(PieceSet) /\ Len(<<r>>) = 1 /\ <<r>>[1] = r
        /\ InOrder(<<r>>, Disjoint)
    BY <2>2, OnePiece
  <2>5. 1 \in 1..Len(<<r>>)
    BY <2>4
  <2>6. \A i \in 1..Len(<<r>>) : <<r>>[i] = r
    BY <2>4
  <2> HIDE DEF r
  <2>7. \A k \in off..(off + n - 1) : Covers(<<r>>, k)
    BY <2>3, <2>5, <2>6 DEF Covers
  <2> QED
    BY <2>1, <2>3, <2>4, <2>6, <2>7 DEF RealParts
<1>2. CASE Desc[p].banked
  <2> DEFINE hi  == lo + n
             mid == Middle(lo, hi)
             a == Piece(p, FALSE, lo, mid - lo, off)
             b == Piece(p, TRUE, mid - Split, hi - mid, off + mid - lo)
             s == IF mid = lo THEN <<>> ELSE <<a>>
             t == IF hi = mid THEN <<>> ELSE <<b>>
  <2>1. RealPieces(p, lo, n, off) = s \o t
    BY <1>2 DEF RealPieces, Banked
  <2>2. mid \in lo..hi /\ (mid # hi => Split <= mid) /\ hi \in Nat
    BY MiddleIs
  <2>3. /\ a \in PieceSet /\ a.param = p /\ a.off = off /\ a.count = mid - lo
        /\ a.start = lo /\ Base(a) = 0
    BY <2>2 DEF Piece, PieceSet, Base
  <2>4. ASSUME hi # mid
        PROVE  /\ b \in PieceSet /\ b.param = p /\ b.off = off + mid - lo
               /\ b.count = hi - mid /\ b.start = mid - Split /\ Base(b) = Split
    BY <2>2, <2>4, Constants DEF Piece, PieceSet, Base
  <2> HIDE DEF a, b
  <2>5. PartOf(a, p, lo, n, off) /\ Pos(a) = off..(off + (mid - lo) - 1)
    <3>0. mid - lo \in 0..n
      BY <2>2
    <3> HIDE DEF mid
    <3> QED
      BY <2>3, <3>0 DEF PartOf, Pos, IndexOf
  <2>6. ASSUME hi # mid
        PROVE  PartOf(b, p, lo, n, off) /\ Pos(b) = (off + (mid - lo))..(off + n - 1)
    <3>0. mid - lo \in 0..n /\ mid \in Nat
      BY <2>2
    <3> HIDE DEF mid
    <3> QED
      BY <2>4, <2>6, <3>0, Constants DEF PartOf, Pos, IndexOf
  <2>7. /\ s \in Seq(PieceSet) /\ InOrder(s, Disjoint)
        /\ \A i \in 1..Len(s) : s[i] = a
        /\ mid # lo => 1 \in 1..Len(s) /\ s[1] = a
    <3>1. CASE mid = lo
      BY <3>1, NoPiece
    <3>2. CASE mid # lo
      BY <2>3, <3>2, OnePiece
    <3> QED
      BY <3>1, <3>2
  <2>8. /\ t \in Seq(PieceSet) /\ InOrder(t, Disjoint)
        /\ \A i \in 1..Len(t) : t[i] = b /\ hi # mid
        /\ hi # mid => 1 \in 1..Len(t) /\ t[1] = b
    <3>1. CASE hi = mid
      BY <3>1, NoPiece
    <3>2. CASE hi # mid
      BY <2>4, <3>2, OnePiece
    <3> QED
      BY <3>1, <3>2
  <2> HIDE DEF s, t
  <2>9. Across(s, t, Disjoint)
    <3> SUFFICES ASSUME NEW k \in 1..Len(s), NEW l \in 1..Len(t)
                 PROVE  <<s[k], t[l]>> \in Disjoint
      BY DEF Across
    <3>1. s[k] = a /\ t[l] = b /\ hi # mid
      BY <2>7, <2>8
    <3>2. Pos(a) \cap Pos(b) = {}
      <4>0. mid - lo \in 0..n
        BY <2>2
      <4> HIDE DEF mid
      <4> QED
        BY <2>5, <2>6, <3>1, <4>0
    <3>3. a \in PieceSet /\ b \in PieceSet
      BY <2>3, <2>4, <3>1
    <3> QED
      BY <3>1, <3>2, <3>3 DEF Disjoint
  <2>10. /\ s \o t \in Seq(PieceSet) /\ InOrder(s \o t, Disjoint)
         /\ Elems(s \o t) = Elems(s) \cup Elems(t)
    BY <2>7, <2>8, <2>9, Joined
  <2>11. ASSUME NEW i \in 1..Len(s \o t)
         PROVE  PartOf((s \o t)[i], p, lo, n, off)
    <3>1. (s \o t)[i] \in Elems(s) \cup Elems(t)
      BY <2>10 DEF Elems
    <3>2. (s \o t)[i] = a \/ ((s \o t)[i] = b /\ hi # mid)
      BY <2>7, <2>8, <3>1 DEF Elems
    <3> QED
      BY <2>5, <2>6, <3>2
  <2>12. ASSUME NEW k \in off..(off + n - 1)
         PROVE  Covers(s \o t, k)
    <3>1. \/ mid # lo /\ k \in Pos(a)
          \/ hi # mid /\ k \in Pos(b)
      <4>0. mid - lo \in 0..n /\ (mid = lo <=> mid - lo = 0) /\ (hi = mid <=> mid - lo = n)
        BY <2>2
      <4> DEFINE d == mid - lo
      <4>1. Pos(a) = off..(off + d - 1) /\ (hi # mid => Pos(b) = (off + d)..(off + n - 1))
        BY <2>5, <2>6
      <4>2. d \in 0..n /\ (mid = lo <=> d = 0) /\ (hi = mid <=> d = n)
        BY <4>0
      <4> HIDE DEF d, mid, hi
      <4> QED
        BY <4>1, <4>2
    <3>2. \/ a \in Elems(s) /\ k \in Pos(a)
          \/ b \in Elems(t) /\ k \in Pos(b)
      BY <2>7, <2>8, <3>1 DEF Elems
    <3>3. PICK r \in Elems(s \o t) : k \in Pos(r)
      BY <2>10, <3>2
    <3> QED
      BY <3>3 DEF Elems, Covers
  <2> QED
    BY <2>1, <2>10, <2>11, <2>12 DEF RealParts
<1> QED
  BY <1>1, <1>2

LEMMA Described ==
  ASSUME WellDescribed, NEW p \in Params
  PROVE  /\ \A i, j \in DOMAIN Desc[p].cards : i # j => Desc[p].cards[i] # Desc[p].cards[j]
         /\ ~Desc[p].virtual => Desc[p].cards # <<>>
         /\ Desc[p].virtual =>
              /\ ~Desc[p].manip
              /\ \A i \in DOMAIN Desc[p].maps : ~Desc[Desc[p].maps[i].param].virtual
              /\ \A i, j \in DOMAIN Desc[p].maps : i # j =>
                   /\ Separate(Desc[p].maps[i].start, Desc[p].maps[i].count,
                               Desc[p].maps[j].start, Desc[p].maps[j].count)
                   /\ \/ Desc[p].maps[i].param # Desc[p].maps[j].param
                      \/ Separate(Desc[p].maps[i].offset, Desc[p].maps[i].count,
                                  Desc[p].maps[j].offset, Desc[p].maps[j].count)
BY DEF WellDescribed

LEMMA CardSeq ==
  ASSUME NEW p \in Params
  PROVE  /\ Desc[p].cards \in Seq(Cards) /\ Len(Desc[p].cards) \in Nat
         /\ DOMAIN Desc[p].cards = 1..Len(Desc[p].cards)
<1>1. Desc[p].cards \in Seq(Cards)
  BY CommandAssumption
<1> QED
  BY <1>1, LenProperties

LEMMA MapSeq ==
  ASSUME NEW p \in Params
  PROVE  /\ Desc[p].maps \in Seq(Map) /\ Len(Desc[p].maps) \in Nat
         /\ DOMAIN Desc[p].maps = 1..Len(Desc[p].maps)
         /\ \A i \in DOMAIN Desc[p].maps :
              /\ Desc[p].maps[i].start \in Nat /\ Desc[p].maps[i].count \in Nat
              /\ Desc[p].maps[i].offset \in Nat /\ Desc[p].maps[i].param \in Params
<1>1. Desc[p].maps \in Seq(Map)
  BY CommandAssumption
<1>2. /\ Len(Desc[p].maps) \in Nat
      /\ DOMAIN Desc[p].maps = 1..Len(Desc[p].maps)
  BY <1>1, LenProperties
<1>3. \A i \in DOMAIN Desc[p].maps : Desc[p].maps[i] \in Map
  BY <1>1, <1>2, ElementOfSeq
<1> QED
  BY <1>1, <1>2, <1>3 DEF Map

(* The words of a range of the virtual parameter that are in map i. *)
InRangeOf(c, i, k) ==
  /\ k \in 0..(c.count - 1)
  /\ Desc[c.param].maps[i].start <= c.start + k
  /\ c.start + k < Desc[c.param].maps[i].start + Desc[c.param].maps[i].count

MapParts(s, c, i) ==
  /\ s \in Seq(PieceSet) /\ InOrder(s, Disjoint)
  /\ \A j \in 1..Len(s) :
       /\ s[j] \in PieceSet /\ s[j].param = Desc[c.param].maps[i].param
       /\ \A k \in Pos(s[j]) :
            /\ InRangeOf(c, i, k)
            /\ IndexOf(s[j], k)
                 = Desc[c.param].maps[i].offset + c.start + k - Desc[c.param].maps[i].start
  /\ \A k \in 0..(c.count - 1) : InRangeOf(c, i, k) => Covers(s, k)

LEMMA InMapIs ==
  ASSUME NEW c \in Calls, NEW i \in DOMAIN Desc[c.param].maps
  PROVE  MapParts(InMap(Desc[c.param].maps[i], c.start, c.count), c, i)
<1> DEFINE m == Desc[c.param].maps[i]
           from == Larger(c.start, m.start)
           to == Lesser(c.start + c.count, m.start + m.count)
           s == InMap(m, c.start, c.count)
<1>1. /\ c.start \in Nat /\ c.count \in Nat /\ c.param \in Params
      /\ m.start \in Nat /\ m.count \in Nat /\ m.offset \in Nat /\ m.param \in Params
  BY CommandAssumption, MapSeq
<1>2. /\ from \in Nat /\ to \in Nat
      /\ c.start <= from /\ m.start <= from
      /\ to <= c.start + c.count /\ to <= m.start + m.count
      /\ from = c.start \/ from = m.start
      /\ to = c.start + c.count \/ to = m.start + m.count
  BY <1>1 DEF Larger, Lesser
<1>3. /\ from >= to => s = <<>>
      /\ ~(from >= to) => s = RealPieces(m.param, m.offset + from - m.start, to - from,
                                         from - c.start)
  BY DEF InMap
<1>9. \A k : InRangeOf(c, i, k) <=>
               /\ k \in 0..(c.count - 1)
               /\ m.start <= c.start + k /\ c.start + k < m.start + m.count
  BY DEF InRangeOf
<1> SUFFICES /\ s \in Seq(PieceSet) /\ InOrder(s, Disjoint)
             /\ \A j \in 1..Len(s) :
                  /\ s[j] \in PieceSet /\ s[j].param = m.param
                  /\ \A k \in Pos(s[j]) :
                       /\ InRangeOf(c, i, k)
                       /\ IndexOf(s[j], k) = m.offset + c.start + k - m.start
             /\ \A k \in 0..(c.count - 1) : InRangeOf(c, i, k) => Covers(s, k)
  BY DEF MapParts
<1> HIDE DEF m, from, to, s
<1>4. CASE from >= to
  <2>1. \A k \in 0..(c.count - 1) : ~InRangeOf(c, i, k)
    BY <1>1, <1>2, <1>4, <1>9
  <2> QED
    BY <1>3, <1>4, <2>1, NoPiece
<1>5. CASE ~(from >= to)
  <2> DEFINE lo == m.offset + from - m.start
             n == to - from
             off == from - c.start
  <2>1. lo \in Nat /\ n \in Nat /\ off \in Nat
    BY <1>1, <1>2, <1>5
  <2>2. RealParts(s, m.param, lo, n, off)
    BY <1>1, <1>3, <1>5, <2>1, RealPiecesAre
  <2>3. ASSUME NEW j \in 1..Len(s)
        PROVE  /\ s[j] \in PieceSet /\ s[j].param = m.param
               /\ \A k \in Pos(s[j]) : k \in off..(off + n - 1)
                                       /\ IndexOf(s[j], k) = lo + (k - off)
    BY <2>2 DEF RealParts, PartOf
  <2>4. ASSUME NEW k \in off..(off + n - 1)
        PROVE  InRangeOf(c, i, k) /\ lo + (k - off) = m.offset + c.start + k - m.start
    BY <1>1, <1>2, <1>5, <1>9
  <2>5. ASSUME NEW k \in 0..(c.count - 1), InRangeOf(c, i, k)
        PROVE  k \in off..(off + n - 1)
    BY <1>1, <1>2, <1>5, <1>9, <2>5
  <2> HIDE DEF lo, n, off
  <2>6. s \in Seq(PieceSet) /\ InOrder(s, Disjoint)
        /\ \A k \in off..(off + n - 1) : Covers(s, k)
    BY <2>2 DEF RealParts
  <2> QED
    BY <2>3, <2>4, <2>5, <2>6
<1> QED
  BY <1>4, <1>5

(* A word of a virtual parameter is in one map at most. *)
LEMMA OneMap ==
  ASSUME WellDescribed, NEW c \in Calls, Desc[c.param].virtual,
         NEW i \in DOMAIN Desc[c.param].maps, NEW k \in Nat, InRangeOf(c, i, k)
  PROVE  /\ CellsAt(c, k) = RealCells(Desc[c.param].maps[i].param,
                                      Desc[c.param].maps[i].offset + c.start + k
                                        - Desc[c.param].maps[i].start)
         /\ \A j \in DOMAIN Desc[c.param].maps : InRangeOf(c, j, k) => j = i
<1> DEFINE p == c.param
           maps == Desc[p].maps
<1>1. c.param \in Params /\ c.start \in Nat /\ c.count \in Nat
  BY CommandAssumption
<1>2. \A j \in DOMAIN maps : maps[j].start \in Nat /\ maps[j].count \in Nat
  BY <1>1, MapSeq
<1>3. \A a, b \in DOMAIN maps : a # b =>
        Separate(maps[a].start, maps[a].count, maps[b].start, maps[b].count)
  BY <1>1, Described
<1>4. ASSUME NEW j \in DOMAIN maps, maps[j].start <= c.start + k,
             c.start + k < maps[j].start + maps[j].count
      PROVE  j = i
  <2> SUFFICES ASSUME j # i PROVE FALSE
    OBVIOUS
  <2>1. Separate(maps[i].start, maps[i].count, maps[j].start, maps[j].count)
    BY <1>3
  <2> QED
    BY <1>1, <1>2, <1>4, <2>1 DEF Separate, InRangeOf
<1>5. MapsAt(p, c.start + k) = {maps[i]}
  <2>1. maps[i] \in MapsAt(p, c.start + k)
    BY DEF MapsAt, InRangeOf
  <2>2. ASSUME NEW m \in MapsAt(p, c.start + k) PROVE m = maps[i]
    <3>1. PICK j \in DOMAIN maps : m = maps[j]
      BY DEF MapsAt
    <3>2. maps[j].start <= c.start + k /\ c.start + k < maps[j].start + maps[j].count
      BY <3>1 DEF MapsAt
    <3> QED
      BY <1>4, <3>1, <3>2
  <2> QED
    BY <2>1, <2>2
<1>6. CellsAt(c, k) = RealCells(maps[i].param, maps[i].offset + c.start + k - maps[i].start)
  BY <1>5 DEF CellsAt
<1> QED
  BY <1>4, <1>6 DEF InRangeOf

LEMMA VirtualPieces ==
  ASSUME WellDescribed, NEW c \in Calls, Desc[c.param].virtual
  PROVE  Planned(c, Pieces(c)) /\ Complete(c, Pieces(c))
<1> DEFINE maps == Desc[c.param].maps
           n == Len(maps)
           ss == [i \in DOMAIN maps |-> InMap(maps[i], c.start, c.count)]
           s == Pieces(c)
<1>1. /\ n \in Nat /\ DOMAIN maps = 1..n /\ c.param \in Params
      /\ c.start \in Nat /\ c.count \in Nat
  BY MapSeq, CommandAssumption
<1>2. s = FlattenSeq(ss)
  BY DEF Pieces
<1>3. ASSUME NEW i \in 1..n PROVE MapParts(ss[i], c, i)
  BY <1>1, InMapIs
<1>4. ss \in Seq(Seq(PieceSet)) /\ Len(ss) = n
  <2>1. \A i \in 1..n : ss[i] \in Seq(PieceSet)
    BY <1>3 DEF MapParts
  <2>2. ss \in [1..n -> Seq(PieceSet)]
    BY <1>1, <2>1
  <2> HIDE DEF ss
  <2> QED
    BY <1>1, <2>2, SeqDef, LenProperties
<1>5. ASSUME NEW i \in 1..n, NEW j \in 1..n, i < j
      PROVE  Across(ss[i], ss[j], Disjoint)
  <2> SUFFICES ASSUME NEW k \in 1..Len(ss[i]), NEW l \in 1..Len(ss[j])
               PROVE  <<ss[i][k], ss[j][l]>> \in Disjoint
    BY DEF Across
  <2>1. /\ ss[i][k] \in PieceSet /\ ss[j][l] \in PieceSet
        /\ \A h \in Pos(ss[i][k]) : InRangeOf(c, i, h)
        /\ \A h \in Pos(ss[j][l]) : InRangeOf(c, j, h)
    BY <1>3 DEF MapParts
  <2>2. ASSUME NEW h \in Pos(ss[i][k]) \cap Pos(ss[j][l]) PROVE FALSE
    <3>1. InRangeOf(c, i, h) /\ InRangeOf(c, j, h)
      BY <2>1
    <3>3. h \in 0..(c.count - 1)
      BY <3>1 DEF InRangeOf
    <3>4. h \in Nat
      BY <1>1, <3>3
    <3>2. j = i
      <4> HIDE DEF ss, n
      <4> QED
        BY <1>1, <3>1, <3>4, OneMap
    <3> QED
      BY <1>5, <3>2
  <2>3. Pos(ss[i][k]) \cap Pos(ss[j][l]) = {}
    BY <2>2
  <2> HIDE DEF ss
  <2>4. <<ss[i][k], ss[j][l]>> \in PieceSet \X PieceSet
    BY <2>1
  <2> QED
    BY <2>3, <2>4 DEF Disjoint
<1>6. ASSUME NEW r, NEW i \in 1..n, r \in Elems(ss[i])
      PROVE  Sound(c, r)
  <2>1. /\ r \in PieceSet /\ r.param = maps[i].param
        /\ \A k \in Pos(r) :
             /\ InRangeOf(c, i, k)
             /\ IndexOf(r, k) = maps[i].offset + c.start + k - maps[i].start
    <3> HIDE DEF ss
    <3>1. PICK j \in 1..Len(ss[i]) : r = ss[i][j]
      BY <1>6 DEF Elems
    <3>2. MapParts(ss[i], c, i)
      BY <1>3
    <3> QED
      BY <3>1, <3>2 DEF MapParts
  <2>2. ~Desc[r.param].virtual
    BY <1>1, <2>1, Described
  <2>3. ASSUME NEW k \in Pos(r)
        PROVE  k \in 0..(c.count - 1) /\ CellsAt(c, k) = RealCells(r.param, IndexOf(r, k))
    <3>1. InRangeOf(c, i, k) /\ k \in 0..(c.count - 1) /\ k \in Nat
      BY <1>1, <2>1 DEF InRangeOf
    <3>2. CellsAt(c, k) = RealCells(maps[i].param,
                                    maps[i].offset + c.start + k - maps[i].start)
      BY <1>1, <3>1, OneMap
    <3> QED
      BY <2>1, <3>1, <3>2
  <2>4. Named(c, r)
    BY <1>1, <2>1 DEF Named
  <2> QED
    BY <2>1, <2>2, <2>3, <2>4 DEF Sound
<1>7. ASSUME NEW k \in 0..(c.count - 1), CellsAt(c, k) # {}
      PROVE  \E i \in 1..n : \E r \in Elems(ss[i]) : k \in Pos(r)
  <2>1. PICK m \in MapsAt(c.param, c.start + k) : TRUE
    BY <1>7 DEF CellsAt
  <2>2. PICK i \in DOMAIN maps : m = maps[i]
    BY DEF MapsAt
  <2>3. InRangeOf(c, i, k)
    BY <2>2 DEF MapsAt, InRangeOf
  <2>4. Covers(ss[i], k)
    BY <1>1, <1>3, <2>3 DEF MapParts
  <2> QED
    BY <1>1, <2>4 DEF Covers, Elems
<1> HIDE DEF ss, n, s
<1>8. CASE n = 0
  <2>1. ss = <<>>
    BY <1>4, <1>8, EmptySeq
  <2>2. FlattenSeq(ss) = ss
    BY <1>4, <1>8 DEF FlattenSeq
  <2>3. s = <<>>
    BY <1>2, <2>1, <2>2
  <2>4. \A k \in 0..(c.count - 1) : CellsAt(c, k) = {}
    BY <1>7, <1>8
  <2> QED
    BY <2>3, <2>4, NoPiece DEF Planned, Complete, s
<1>9. CASE n # 0
  <2>1. n \in Nat \ {0}
    BY <1>1, <1>9 DEF n
  <2>2. \A i \in 1..n : ss[i] \in Seq(PieceSet) /\ InOrder(ss[i], Disjoint)
    BY <1>3 DEF MapParts
  <2>3. Gathered(s, ss, n, PieceSet, Disjoint)
    BY <1>2, <1>4, <1>5, <2>1, <2>2, FlattenHas
  <2>4. /\ s \in Seq(PieceSet) /\ InOrder(s, Disjoint)
        /\ Elems(s) = UNION {Elems(ss[i]) : i \in 1..n}
    BY <2>3 DEF Gathered
  <2>5. \A i \in 1..Len(s) : Sound(c, s[i])
    <3> TAKE i \in 1..Len(s)
    <3>1. s[i] \in UNION {Elems(ss[j]) : j \in 1..n}
      BY <2>4 DEF Elems
    <3> QED
      BY <1>6, <3>1
  <2>6. ASSUME NEW k \in 0..(c.count - 1), CellsAt(c, k) # {} PROVE Covers(s, k)
    <3>1. PICK i \in 1..n : \E r \in Elems(ss[i]) : k \in Pos(r)
      BY <1>7, <2>6
    <3>2. PICK r \in Elems(ss[i]) : k \in Pos(r)
      BY <3>1
    <3>3. r \in Elems(s)
      BY <2>4
    <3> QED
      BY <3>2, <3>3 DEF Elems, Covers
  <2> QED
    BY <2>4, <2>5, <2>6 DEF Planned, Complete, s
<1> QED
  BY <1>8, <1>9

LEMMA RealCallPieces ==
  ASSUME NEW c \in Calls, ~Desc[c.param].virtual
  PROVE  Planned(c, Pieces(c)) /\ Complete(c, Pieces(c))
<1> DEFINE s == Pieces(c)
<1>1. c.param \in Params /\ c.start \in Nat /\ c.count \in Nat
  BY CommandAssumption
<1>2. s = RealPieces(c.param, c.start, c.count, 0)
  BY DEF Pieces
<1>3. RealParts(s, c.param, c.start, c.count, 0)
  BY <1>1, <1>2, RealPiecesAre
<1> HIDE DEF s
<1>4. ASSUME NEW i \in 1..Len(s) PROVE Sound(c, s[i])
  <2>1. /\ s[i] \in PieceSet /\ s[i].param = c.param
        /\ \A k \in Pos(s[i]) : k \in 0..(0 + c.count - 1)
                                /\ IndexOf(s[i], k) = c.start + (k - 0)
    BY <1>3 DEF RealParts, PartOf
  <2>2. \A k \in Pos(s[i]) : k \in 0..(c.count - 1) /\ IndexOf(s[i], k) = c.start + k
    BY <1>1, <2>1
  <2> QED
    BY <2>1, <2>2 DEF Sound, CellsAt, Named
<1>5. \A k \in 0..(c.count - 1) : Covers(s, k)
  BY <1>1, <1>3 DEF RealParts
<1> QED
  BY <1>3, <1>4, <1>5 DEF RealParts, Planned, Complete, s

LEMMA PiecesAre ==
  ASSUME WellDescribed, NEW c \in Calls
  PROVE  Planned(c, Pieces(c)) /\ Complete(c, Pieces(c))
BY VirtualPieces, RealCallPieces

-----------------------------------------------------------------------------
(* The cells of a call, and what a write gives them.                       *)

LEMMA RealCellIs ==
  ASSUME NEW p, NEW i, NEW x \in RealCells(p, i)
  PROVE  x.param = p /\ x.index = i
BY DEF RealCells, Cell

LEMMA OneTarget ==
  ASSUME WellDescribed, NEW c \in Calls, NEW k \in 0..(c.count - 1),
         NEW l \in 0..(c.count - 1), NEW x, x \in CellsAt(c, k), x \in CellsAt(c, l)
  PROVE  k = l
<1>1. /\ c.param \in Params /\ c.start \in Nat /\ c.count \in Nat
      /\ k \in Nat /\ l \in Nat
  BY CommandAssumption
<1>2. CASE ~Desc[c.param].virtual
  <2>1. x.index = c.start + k /\ x.index = c.start + l
    BY <1>2, RealCellIs DEF CellsAt
  <2> QED
    BY <1>1, <2>1
<1>3. CASE Desc[c.param].virtual
  <2> DEFINE maps == Desc[c.param].maps
  <2>1. ASSUME NEW h \in 0..(c.count - 1), x \in CellsAt(c, h)
        PROVE  \E i \in DOMAIN maps : InRangeOf(c, i, h)
    <3>1. PICK m \in MapsAt(c.param, c.start + h) : TRUE
      BY <1>3, <2>1 DEF CellsAt
    <3>2. PICK i \in DOMAIN maps : m = maps[i]
      BY DEF MapsAt
    <3> QED
      BY <3>2 DEF MapsAt, InRangeOf
  <2>2. PICK i \in DOMAIN maps : InRangeOf(c, i, k)
    BY <2>1
  <2>3. PICK j \in DOMAIN maps : InRangeOf(c, j, l)
    BY <2>1
  <2>4. /\ maps[i].start \in Nat /\ maps[i].count \in Nat /\ maps[i].offset \in Nat
        /\ maps[j].start \in Nat /\ maps[j].count \in Nat /\ maps[j].offset \in Nat
    BY <1>1, MapSeq
  <2>5. CellsAt(c, k) = RealCells(maps[i].param, maps[i].offset + c.start + k - maps[i].start)
    BY <1>1, <1>3, <2>2, OneMap
  <2>6. CellsAt(c, l) = RealCells(maps[j].param, maps[j].offset + c.start + l - maps[j].start)
    BY <1>1, <1>3, <2>3, OneMap
  <2>7. /\ x.param = maps[i].param /\ x.param = maps[j].param
        /\ x.index = maps[i].offset + c.start + k - maps[i].start
        /\ x.index = maps[j].offset + c.start + l - maps[j].start
    <3> DEFINE s == maps[i].offset + c.start + k - maps[i].start
               t == maps[j].offset + c.start + l - maps[j].start
    <3>1. CellsAt(c, k) = RealCells(maps[i].param, s) /\ CellsAt(c, l) = RealCells(maps[j].param, t)
      BY <2>5, <2>6
    <3> HIDE DEF s, t, maps
    <3>2. x.param = maps[i].param /\ x.index = s
      BY <3>1, RealCellIs
    <3>3. x.param = maps[j].param /\ x.index = t
      BY <3>1, RealCellIs
    <3> QED
      BY <3>2, <3>3 DEF s, t
  <2>8. /\ maps[i].start <= c.start + k /\ c.start + k < maps[i].start + maps[i].count
        /\ maps[j].start <= c.start + l /\ c.start + l < maps[j].start + maps[j].count
    BY <2>2, <2>3 DEF InRangeOf
  <2>9. i # j => \/ maps[i].param # maps[j].param
                 \/ Separate(maps[i].offset, maps[i].count, maps[j].offset, maps[j].count)
    BY <1>1, <1>3, Described
  <2>10. i = j
    <3> SUFFICES ASSUME i # j PROVE FALSE
      OBVIOUS
    <3>1. Separate(maps[i].offset, maps[i].count, maps[j].offset, maps[j].count)
      BY <2>7, <2>9
    <3>2. \/ maps[i].offset + maps[i].count <= maps[j].offset
          \/ maps[j].offset + maps[j].count <= maps[i].offset
      BY <3>1 DEF Separate
    <3> HIDE DEF maps
    <3> QED
      BY <1>1, <2>4, <2>7, <2>8, <3>2
  <2> HIDE DEF maps
  <2> QED
    BY <1>1, <2>4, <2>7, <2>10
<1> QED
  BY <1>2, <1>3

(* The words as they are sent: with op_xor applied where it has to be. *)
Sent(p, m, k, manip) ==
  IF manip THEN Flip(Word(p, m, k + 1)) ELSE Word(p, m, k + 1)

GivenOf(p, c, m, x) ==
  LET k == CHOOSE k \in 0..(c.count - 1) : x \in CellsAt(c, k)
      w == Word(p, m, k + 1)
  IN  IF Desc[x.param].manip THEN Flip(w) ELSE w

LEMMA GivenIs ==
  ASSUME WellDescribed, NEW c \in Calls, NEW k \in 0..(c.count - 1), NEW x,
         x \in CellsAt(c, k), NEW p, NEW m
  PROVE  GivenOf(p, c, m, x) = Sent(p, m, k, Desc[x.param].manip)
<1> DEFINE l == CHOOSE l \in 0..(c.count - 1) : x \in CellsAt(c, l)
<1>1. l \in 0..(c.count - 1) /\ x \in CellsAt(c, l)
  OBVIOUS
<1>2. l = k
  BY <1>1, OneTarget
<1>3. GivenOf(p, c, m, x) = Sent(p, m, l, Desc[x.param].manip)
  BY Zenon DEF GivenOf, Sent
<1> QED
  BY <1>2, <1>3

-----------------------------------------------------------------------------
(* What is true of the parts of a call's state; w is its work, a the card  *)
(* it is at, l its lead, d its buffer, m the number of the call, mm the    *)
(* memory and b the memory as it was.                                      *)

PlanIs(c, w, a) ==
  Planned(c, w) /\ w # <<>> /\ a \in DOMAIN Desc[w[1].param].cards

BufferIs(p, c, m, w, d) ==
  /\ DOMAIN d = 1..c.count
  /\ \A i \in 1..Len(w) : \A k \in Pos(w[i]) :
       d[k + 1] = Sent(p, m, k, i = 1 /\ Desc[w[i].param].manip)

Stored(mm, card, r) ==
  [k \in 1..r.start |-> mm[Cell(card, r.param, Base(r) + (k - 1))]]

LeadFrom(w, a, l, mm) == l # <<>> => l = Stored(mm, Desc[w[1].param].cards[a], w[1])

(* mo and mm have the same words before the range r of a card. *)
SameLead(card, r, mo, mm) ==
  \A x \in Cells :
    x.card = card /\ x.param = r.param /\ x.index - Base(r) \in 0..(r.start - 1) =>
      mo[x] = mm[x]

LeadIs(w, a, l, mm) ==
  \E mo : LeadFrom(w, a, l, mo) /\ SameLead(Desc[w[1].param].cards[a], w[1], mo, mm)

PieceCell(r, n, k) == Cell(Desc[r.param].cards[n], r.param, IndexOf(r, k))

PendingIn(w, a, x) ==
  \E i \in 1..Len(w) : \E n \in DOMAIN Desc[w[i].param].cards : \E k \in Pos(w[i]) :
    x = PieceCell(w[i], n, k) /\ (i = 1 => n >= a)

WrittenIs(p, c, m, w, a, res, mm, b) ==
  \A x \in Cells :
    /\ mm[x] = b[x] \/ (x \in Targets(c) /\ mm[x] = GivenOf(p, c, m, x))
    /\ x \in Targets(c) /\ mm[x] # GivenOf(p, c, m, x) =>
         res # "ok" /\ (res = "run" => PendingIn(w, a, x))

-----------------------------------------------------------------------------
(* On to the next range.                                                   *)

LEMMA TailIs ==
  ASSUME NEW S, NEW w \in Seq(S), w # <<>>
  PROVE  /\ Head(w) = w[1] /\ Len(w) \in Nat \ {0}
         /\ Tail(w) \in Seq(S) /\ Len(Tail(w)) = Len(w) - 1
         /\ \A i \in 1..Len(Tail(w)) : Tail(w)[i] = w[i + 1] /\ i + 1 \in 1..Len(w)
         /\ Tail(w) # <<>> => Len(w) > 1 /\ Head(Tail(w)) = w[2]
         /\ Tail(w) = <<>> <=> Len(w) = 1
<1>1. /\ Head(w) = w[1] /\ Len(w) \in Nat \ {0}
      /\ Tail(w) \in Seq(S) /\ Len(Tail(w)) = Len(w) - 1
      /\ \A i \in 1..Len(Tail(w)) : Tail(w)[i] = w[i + 1]
  BY HeadTailProperties, EmptySeq, LenProperties
<1>2. \A i \in 1..Len(Tail(w)) : i + 1 \in 1..Len(w)
  BY <1>1
<1>3. Tail(w) = <<>> <=> Len(w) = 1
  BY SMTT(30), <1>1, EmptySeq
<1>4. ASSUME Tail(w) # <<>> PROVE Len(w) > 1 /\ Head(Tail(w)) = w[2]
  <2>1. Head(Tail(w)) = Tail(w)[1]
    BY <1>1, <1>4, HeadTailProperties
  <2>2. 1 \in 1..Len(Tail(w))
    BY <1>1, <1>3, <1>4
  <2> QED
    BY <1>1, <2>1, <2>2
<1> QED
  BY <1>1, <1>2, <1>3, <1>4

LEMMA FirstPiece ==
  ASSUME NEW c, NEW w, NEW a, PlanIs(c, w, a)
  PROVE  /\ w \in Seq(PieceSet) /\ Head(w) = w[1] /\ Len(w) \in Nat \ {0} /\ 1 \in 1..Len(w)
         /\ Sound(c, w[1]) /\ w[1] \in PieceSet
<1>1. w \in Seq(PieceSet) /\ w # <<>> /\ \A i \in 1..Len(w) : Sound(c, w[i])
  BY DEF PlanIs, Planned
<1>2. Head(w) = w[1] /\ Len(w) \in Nat \ {0}
  BY <1>1, TailIs
<1>3. 1 \in 1..Len(w)
  BY <1>2
<1> QED
  BY <1>1, <1>2, <1>3 DEF Sound

LEMMA Apart ==
  ASSUME NEW c, NEW w, Planned(c, w), NEW i \in 1..Len(w), NEW j \in 1..Len(w), i < j
  PROVE  Pos(w[i]) \cap Pos(w[j]) = {}
<1>1. <<w[i], w[j]>> \in Disjoint
  BY DEF Planned, InOrder
<1> QED
  BY <1>1 DEF Disjoint

LEMMA PlanNext ==
  ASSUME WellDescribed, NEW c, NEW w, NEW a, PlanIs(c, w, a), Tail(w) # <<>>
  PROVE  PlanIs(c, Tail(w), 1)
<1> DEFINE t == Tail(w)
<1>1. w \in Seq(PieceSet) /\ w # <<>> /\ InOrder(w, Disjoint)
      /\ \A i \in 1..Len(w) : Sound(c, w[i])
  BY DEF PlanIs, Planned
<1>2. /\ t \in Seq(PieceSet) /\ Len(w) \in Nat /\ Len(t) = Len(w) - 1
      /\ \A i \in 1..Len(t) : t[i] = w[i + 1] /\ i + 1 \in 1..Len(w)
      /\ Len(w) > 1
  BY <1>1, TailIs
<1> HIDE DEF t
<1>3. \A i \in 1..Len(t) : Sound(c, t[i])
  BY <1>1, <1>2
<1>4. InOrder(t, Disjoint)
  <2> SUFFICES ASSUME NEW i \in 1..Len(t), NEW j \in 1..Len(t), i < j
               PROVE  <<t[i], t[j]>> \in Disjoint
    BY DEF InOrder
  <2>1. i + 1 < j + 1 /\ i + 1 \in 1..Len(w) /\ j + 1 \in 1..Len(w)
    BY <1>2
  <2>2. <<w[i + 1], w[j + 1]>> \in Disjoint
    BY <1>1, <2>1 DEF InOrder
  <2> QED
    BY <1>2, <2>2
<1>5. 1 \in 1..Len(t)
  BY <1>2
<1>6. t[1].param \in Params /\ ~Desc[t[1].param].virtual
  BY <1>3, <1>5 DEF Sound, PieceSet
<1>7. 1 \in DOMAIN Desc[t[1].param].cards
  <2>1. Desc[t[1].param].cards # <<>>
    BY <1>6, Described
  <2> QED
    BY <1>6, <2>1, CardSeq, EmptySeq
<1>8. t # <<>>
  BY <1>2, EmptySeq
<1> QED
  BY <1>2, <1>3, <1>4, <1>7, <1>8 DEF PlanIs, Planned, t

LEMMA PlanBegins ==
  ASSUME WellDescribed, NEW c \in Calls, Pieces(c) # <<>>
  PROVE  PlanIs(c, Pieces(c), 1)
<1> DEFINE w == Pieces(c)
<1>1. Planned(c, w)
  BY PiecesAre
<1>2. w \in Seq(PieceSet) /\ \A i \in 1..Len(w) : Sound(c, w[i])
  BY <1>1 DEF Planned
<1> HIDE DEF w
<1>3. 1 \in 1..Len(w)
  <2>1. w # <<>>
    BY DEF w
  <2> QED
    BY <1>2, <2>1, TailIs
<1>4. w[1].param \in Params /\ ~Desc[w[1].param].virtual
  BY <1>2, <1>3 DEF Sound, PieceSet
<1>5. 1 \in DOMAIN Desc[w[1].param].cards
  <2>1. Desc[w[1].param].cards # <<>>
    BY <1>4, Described
  <2> QED
    BY <1>4, <2>1, CardSeq, EmptySeq
<1> QED
  BY <1>1, <1>5 DEF PlanIs, w

(* Words that no range of w has touched. *)
Raw(p, c, m, w, d) ==
  /\ DOMAIN d = 1..c.count
  /\ \A i \in 1..Len(w) : \A k \in Pos(w[i]) : d[k + 1] = Word(p, m, k + 1)

LEMMA BufferEnters ==
  ASSUME NEW c \in Calls, c.op = "write", NEW w, Planned(c, w), w # <<>>,
         NEW p, NEW m, NEW d, Raw(p, c, m, w, d)
  PROVE  BufferIs(p, c, m, w, Entered(c, w, d))
<1> DEFINE r == w[1]
           e == Entered(c, w, d)
<1>1. /\ w \in Seq(PieceSet) /\ 1 \in 1..Len(w) /\ Head(w) = r
      /\ r \in PieceSet /\ \A i \in 1..Len(w) : Sound(c, w[i])
  <2>1. w \in Seq(PieceSet) /\ \A i \in 1..Len(w) : Sound(c, w[i])
    BY DEF Planned
  <2>2. Head(w) = w[1] /\ Len(w) \in Nat \ {0}
    BY <2>1, TailIs
  <2>3. 1 \in 1..Len(w)
    BY <2>2
  <2> QED
    BY <2>1, <2>2, <2>3 DEF Sound
<1>2. r.off \in Nat /\ r.count \in Nat /\ r.param \in Params
  BY <1>1 DEF PieceSet
<1>3. e = Manip(r.param, r.off, r.count, d)
  BY <1>1 DEF Entered
<1> HIDE DEF e
<1>4. CASE ~Desc[r.param].manip
  <2>1. e = d
    BY <1>3, <1>4 DEF Manip
  <2>2. ASSUME NEW i \in 1..Len(w), NEW k \in Pos(w[i])
        PROVE  e[k + 1] = Sent(p, m, k, i = 1 /\ Desc[w[i].param].manip)
    <3>1. e[k + 1] = Word(p, m, k + 1)
      BY <2>1 DEF Raw
    <3>2. ~(i = 1 /\ Desc[w[i].param].manip)
      BY <1>4
    <3> QED
      BY <3>1, <3>2 DEF Sent
  <2>3. DOMAIN e = 1..c.count
    BY <2>1 DEF Raw
  <2> QED
    BY <2>2, <2>3, Zenon DEF BufferIs, e
<1>5. CASE Desc[r.param].manip
  <2>1. e = [k \in DOMAIN d |-> IF k > r.off /\ k <= r.off + r.count THEN Flip(d[k]) ELSE d[k]]
    BY <1>3, <1>5 DEF Manip
  <2>2. DOMAIN d = 1..c.count
    BY DEF Raw
  <2>3. ASSUME NEW i \in 1..Len(w), NEW k \in Pos(w[i])
        PROVE  /\ e[k + 1] = IF k \in Pos(r) THEN Flip(d[k + 1]) ELSE d[k + 1]
               /\ d[k + 1] = Word(p, m, k + 1)
    <3>1. k \in 0..(c.count - 1)
      BY <1>1 DEF Sound
    <3>2. k + 1 \in DOMAIN d /\ k \in Nat
      BY <2>2, <3>1, CommandAssumption
    <3>3. k + 1 > r.off /\ k + 1 <= r.off + r.count <=> k \in Pos(r)
      BY <1>2, <3>2 DEF Pos
    <3>4. e[k + 1] = IF k + 1 > r.off /\ k + 1 <= r.off + r.count
                     THEN Flip(d[k + 1]) ELSE d[k + 1]
      BY <2>1, <3>2
    <3>5. d[k + 1] = Word(p, m, k + 1)
      BY DEF Raw
    <3> QED
      BY <3>3, <3>4, <3>5, Zenon
  <2>4. ASSUME NEW i \in 1..Len(w), NEW k \in Pos(w[i])
        PROVE  k \in Pos(r) <=> i = 1
    <3>1. i # 1 => Pos(r) \cap Pos(w[i]) = {}
      <4>1. i # 1 => 1 < i
        BY <1>1, LenProperties
      <4> QED
        BY <1>1, <4>1, Apart
    <3> QED
      BY <3>1
  <2>5. ASSUME NEW i \in 1..Len(w), NEW k \in Pos(w[i])
        PROVE  e[k + 1] = Sent(p, m, k, i = 1 /\ Desc[w[i].param].manip)
    <3>1. CASE i = 1
      <4>1. e[k + 1] = Flip(Word(p, m, k + 1))
        BY <2>3, <2>4, <3>1
      <4> QED
        BY <1>5, <3>1, <4>1 DEF Sent
    <3>2. CASE i # 1
      <4>1. e[k + 1] = Word(p, m, k + 1)
        BY <2>3, <2>4, <3>2
      <4> QED
        BY <3>2, <4>1 DEF Sent
    <3> QED
      BY <3>1, <3>2
  <2>6. DOMAIN e = 1..c.count
    BY <2>1, <2>2
  <2> QED
    BY <2>5, <2>6, Zenon DEF BufferIs, e
<1> QED
  BY <1>4, <1>5 DEF e

-----------------------------------------------------------------------------
(* What a command that writes does.                                        *)

LEMMA CellIs ==
  ASSUME NEW x \in Cells
  PROVE  x.index \in Nat /\ x = Cell(x.card, x.param, x.index)
<1>1. PICK q \in Params, i \in 0..(Size - 1) : x \in RealCells(q, i)
  BY DEF Cells
<1>2. i \in Nat
  BY Constants
<1> QED
  BY <1>1, <1>2 DEF RealCells, Cell

BlockOf(l, r, d) == l \o [k \in 1..r.count |-> d[r.off + k]]

WithBlock(mm, card, r, blk) ==
  [x \in Cells |->
     IF /\ x.card = card /\ x.param = r.param
        /\ x.index - Base(r) \in 0..(Len(blk) - 1)
     THEN blk[x.index - Base(r) + 1] ELSE mm[x]]

LeadFits(l, r, card, mm) ==
  /\ l # <<>> => l = Stored(mm, card, r)
  /\ r.start = 0 \/ l # <<>>

BlockHas(l, r, d, card, mm) ==
  /\ Len(BlockOf(l, r, d)) = r.start + r.count
  /\ \A j \in 0..(r.start + r.count - 1) :
       BlockOf(l, r, d)[j + 1] = IF j < r.start THEN mm[Cell(card, r.param, Base(r) + j)]
                                 ELSE d[r.off + (j - r.start) + 1]

LEMMA BlockIs ==
  ASSUME NEW r \in PieceSet, NEW l, NEW d, NEW mm, NEW card, LeadFits(l, r, card, mm)
  PROVE  BlockHas(l, r, d, card, mm)
<1> DEFINE u == [k \in 1..r.count |-> d[r.off + k]]
           s == Stored(mm, card, r)
           V == {s[k] : k \in 1..r.start} \cup {u[k] : k \in 1..r.count}
<1>1. r.start \in Nat /\ r.count \in Nat /\ r.off \in Nat
  BY DEF PieceSet
<1>2. s \in [1..r.start -> V]
  BY DEF Stored
<1>3. u \in [1..r.count -> V]
  OBVIOUS
<1>4. s \in Seq(V) /\ Len(s) = r.start /\ u \in Seq(V) /\ Len(u) = r.count
  <2> HIDE DEF s, u, V
  <2> QED
    BY <1>1, <1>2, <1>3, SeqDef, LenProperties
<1>5. \A k \in 1..r.start : s[k] = mm[Cell(card, r.param, Base(r) + (k - 1))]
  BY DEF Stored
<1>6. \A k \in 1..r.count : u[k] = d[r.off + k]
  OBVIOUS
<1> HIDE DEF s, u, V
<1>7. l = s
  <2>1. CASE l # <<>>
    BY <2>1 DEF s, LeadFits
  <2>2. CASE l = <<>>
    <3>1. Len(s) = 0
      BY <1>4, <2>2 DEF LeadFits
    <3> QED
      BY <1>4, <2>2, <3>1, EmptySeq
  <2> QED
    BY <2>1, <2>2
<1>8. /\ Len(s \o u) = r.start + r.count
      /\ \A i \in 1..(r.start + r.count) :
           (s \o u)[i] = IF i <= r.start THEN s[i] ELSE u[i - r.start]
  <2>1. /\ Len(s \o u) = Len(s) + Len(u)
        /\ \A i \in 1..(Len(s) + Len(u)) :
             (s \o u)[i] = IF i <= Len(s) THEN s[i] ELSE u[i - Len(s)]
    BY <1>4, ConcatProperties
  <2> QED
    BY <1>4, <2>1, Zenon
<1>9. BlockOf(l, r, d) = s \o u
  BY <1>7 DEF BlockOf, u
<1>10. ASSUME NEW j \in 0..(r.start + r.count - 1)
       PROVE  (s \o u)[j + 1] = IF j < r.start THEN mm[Cell(card, r.param, Base(r) + j)]
                                ELSE d[r.off + (j - r.start) + 1]
  <2>1. j + 1 \in 1..(r.start + r.count) /\ (j + 1 <= r.start <=> j < r.start)
    BY <1>1
  <2>2. CASE j < r.start
    <3>1. j + 1 \in 1..r.start /\ (j + 1) - 1 = j
      BY <1>1, <2>2
    <3> QED
      BY <1>5, <1>8, <2>1, <2>2, <3>1
  <2>3. CASE ~(j < r.start)
    <3>1. /\ (j + 1) - r.start \in 1..r.count
          /\ r.off + ((j + 1) - r.start) = r.off + (j - r.start) + 1
      BY <1>1, <2>3
    <3> QED
      BY <1>6, <1>8, <2>1, <2>3, <3>1
  <2> QED
    BY <2>2, <2>3
<1> QED
  <2>1. Len(BlockOf(l, r, d)) = r.start + r.count
    BY <1>8, <1>9
  <2>2. ASSUME NEW j \in 0..(r.start + r.count - 1)
        PROVE  BlockOf(l, r, d)[j + 1]
                 = IF j < r.start THEN mm[Cell(card, r.param, Base(r) + j)]
                   ELSE d[r.off + (j - r.start) + 1]
    <3>1. (s \o u)[j + 1] = IF j < r.start THEN mm[Cell(card, r.param, Base(r) + j)]
                            ELSE d[r.off + (j - r.start) + 1]
      BY <1>10
    <3> QED
      BY <1>9, <3>1, Zenon
  <2> QED
    BY <2>1, <2>2 DEF BlockHas

(* A command that turns mm into nn writes the words of the first range of w *)
(* to the card a, and changes nothing else.                                *)
WritesFirst(p, c, m, w, a, mm, nn) ==
  /\ \A x \in Cells :
       /\ nn[x] = mm[x] \/ (x \in Targets(c) /\ nn[x] = GivenOf(p, c, m, x))
       /\ \A k \in Pos(w[1]) : x = PieceCell(w[1], a, k) => nn[x] = GivenOf(p, c, m, x)
  /\ SameLead(Desc[w[1].param].cards[a], w[1], mm, nn)

LEMMA BlockWrites ==
  ASSUME WellDescribed, NEW c \in Calls, NEW p, NEW m, NEW w, NEW a, NEW d, NEW l, NEW mm,
         PlanIs(c, w, a), BufferIs(p, c, m, w, d), LeadIs(w, a, l, mm),
         w[1].start = 0 \/ l # <<>>
  PROVE  WritesFirst(p, c, m, w, a, mm,
                     WithBlock(mm, Desc[w[1].param].cards[a], w[1], BlockOf(l, w[1], d)))
<1> DEFINE r == w[1]
           card == Desc[r.param].cards[a]
           blk == BlockOf(l, r, d)
           nn == WithBlock(mm, card, r, blk)
<1>0. PICK mo : LeadFrom(w, a, l, mo) /\ SameLead(card, r, mo, mm)
  BY Zenon DEF LeadIs
<1> SUFFICES ASSUME NEW x \in Cells
             PROVE  /\ nn[x] = mm[x] \/ (x \in Targets(c) /\ nn[x] = GivenOf(p, c, m, x))
                    /\ \A k \in Pos(r) : x = PieceCell(r, a, k) => nn[x] = GivenOf(p, c, m, x)
                    /\ x.card = card /\ x.param = r.param
                       /\ x.index - Base(r) \in 0..(r.start - 1) => mm[x] = nn[x]
  BY Zenon DEF WritesFirst, SameLead
<1> DEFINE j == x.index - Base(r)
<1>1. /\ r \in PieceSet /\ 1 \in 1..Len(w) /\ Sound(c, r)
      /\ r.start \in Nat /\ r.count \in Nat /\ r.off \in Nat /\ r.param \in Params
  BY FirstPiece DEF PieceSet
<1>2. a \in DOMAIN Desc[r.param].cards
  BY DEF PlanIs
<1>3. x.index \in Nat /\ x = Cell(x.card, x.param, x.index)
  BY CellIs
<1>4. Base(r) \in Nat
  BY Constants DEF Base
<1>5. c.count \in Nat /\ c.start \in Nat
  BY CommandAssumption
<1>6. /\ Len(blk) = r.start + r.count
      /\ \A i \in 0..(r.start + r.count - 1) :
           blk[i + 1] = IF i < r.start THEN mo[Cell(card, r.param, Base(r) + i)]
                        ELSE d[r.off + (i - r.start) + 1]
  <2>1. l # <<>> => l = Stored(mo, card, r)
    BY <1>0 DEF LeadFrom
  <2>2. r.start = 0 \/ l # <<>>
    OBVIOUS
  <2> HIDE DEF r, card
  <2>3. r \in PieceSet /\ LeadFits(l, r, card, mo)
    BY <1>1, <2>1, <2>2 DEF LeadFits
  <2>4. BlockHas(l, r, d, card, mo)
    BY <2>3, BlockIs
  <2> QED
    BY <2>4, Zenon DEF BlockHas
<1>61. 0..(Len(blk) - 1) = 0..(r.start + r.count - 1)
  <2>1. Len(blk) = r.start + r.count
    BY <1>6
  <2> HIDE DEF blk, r
  <2> QED
    BY SMTT(30), <1>1, <2>1
<1>7. nn[x] = IF /\ x.card = card /\ x.param = r.param
                 /\ j \in 0..(Len(blk) - 1)
              THEN blk[j + 1] ELSE mm[x]
  BY DEF WithBlock
<1> HIDE DEF nn, blk, j
<1>8. ASSUME NEW k \in Pos(r), x = PieceCell(r, a, k)
      PROVE  nn[x] = GivenOf(p, c, m, x) /\ x \in Targets(c)
  <2>1. /\ k \in 0..(c.count - 1)
        /\ CellsAt(c, k) = RealCells(r.param, IndexOf(r, k))
    BY <1>1 DEF Sound
  <2>2. x \in CellsAt(c, k)
    BY <1>2, <1>8, <2>1 DEF RealCells, PieceCell
  <2>3. x.card = card /\ x.param = r.param /\ x.index = IndexOf(r, k)
    BY <1>8 DEF PieceCell, Cell
  <2>4. k \in Nat /\ r.off <= k /\ k < r.off + r.count
    BY <1>1, <1>5, <2>1 DEF Pos
  <2>5. j = r.start + (k - r.off)
    BY <1>1, <1>4, <2>3, <2>4 DEF j, IndexOf
  <2>6. /\ j \in 0..(r.start + r.count - 1) /\ ~(j < r.start)
        /\ r.off + (j - r.start) + 1 = k + 1
    BY <1>1, <2>4, <2>5
  <2>7. nn[x] = d[k + 1]
    <3>1. nn[x] = blk[j + 1]
      <4>1. j \in 0..(Len(blk) - 1)
        BY <1>61, <2>6
      <4> QED
        BY <1>7, <2>3, <4>1, Zenon
    <3>2. blk[j + 1] = d[r.off + (j - r.start) + 1]
      BY <1>6, <2>6, Zenon
    <3> QED
      BY <2>6, <3>1, <3>2
  <2>8. d[k + 1] = Sent(p, m, k, 1 = 1 /\ Desc[r.param].manip)
    BY <1>1, Zenon DEF BufferIs
  <2>9. Sent(p, m, k, 1 = 1 /\ Desc[r.param].manip) = Sent(p, m, k, Desc[x.param].manip)
    BY <2>3 DEF Sent
  <2>10. GivenOf(p, c, m, x) = Sent(p, m, k, Desc[x.param].manip)
    BY <2>1, <2>2, GivenIs
  <2> QED
    BY <2>1, <2>2, <2>7, <2>8, <2>9, <2>10, Zenon DEF Targets
<1>9. CASE /\ x.card = card /\ x.param = r.param
           /\ j \in r.start..(r.start + r.count - 1)
  <2> DEFINE k == r.off + (j - r.start)
  <2>1. k \in Pos(r) /\ k \in Nat
    <3> HIDE DEF r
    <3> QED
      BY SMTT(30), <1>1, <1>9 DEF Pos
  <2>2. IndexOf(r, k) = x.index
    BY SMTT(30), <1>1, <1>3, <1>4, <1>9 DEF IndexOf, j
  <2>3. x = PieceCell(r, a, k)
    BY <1>3, <1>9, <2>2 DEF PieceCell
  <2>4. ~(j \in 0..(r.start - 1))
    BY <1>1, <1>9
  <2> QED
    BY <1>8, <2>1, <2>3, <2>4 DEF nn, blk, j
<1>10. CASE /\ x.card = card /\ x.param = r.param /\ j \in 0..(r.start - 1)
  <2>1. j \in 0..(r.start + r.count - 1) /\ j < r.start
    BY <1>1, <1>10
  <2>2. nn[x] = mo[Cell(card, r.param, Base(r) + j)]
    <3>1. nn[x] = blk[j + 1]
      <4>1. j \in 0..(Len(blk) - 1)
        BY <1>61, <2>1
      <4> QED
        BY <1>7, <1>10, <4>1, Zenon
    <3>2. blk[j + 1] = mo[Cell(card, r.param, Base(r) + j)]
      BY <1>6, <2>1, Zenon
    <3> QED
      BY <3>1, <3>2
  <2>3. Base(r) + j = x.index
    BY <1>3, <1>4 DEF j
  <2>4. mo[x] = mm[x]
    BY <1>0, <1>10, Zenon DEF SameLead, j
  <2>5. nn[x] = mm[x]
    BY <1>3, <1>10, <2>2, <2>3, <2>4
  <2> QED
    BY <1>8, <2>5 DEF nn, blk
<1>11. CASE ~(x.card = card /\ x.param = r.param /\ j \in 0..(r.start + r.count - 1))
  <2>1. nn[x] = mm[x]
    <3>1. 0..(Len(blk) - 1) = 0..(r.start + r.count - 1)
      BY <1>61
    <3> QED
      BY <1>7, <1>11, <3>1, Zenon
  <2> QED
    BY <1>8, <2>1 DEF nn, blk
<1> QED
  <2>1. j \in Int
    BY <1>3, <1>4 DEF j
  <2> QED
    BY <1>1, <1>9, <1>10, <1>11, <2>1

-----------------------------------------------------------------------------
(* What is pending when a card, a range or a call is done, and when a call *)
(* begins.                                                                 *)

LEMMA PendingNextCard ==
  ASSUME NEW w, NEW a \in Nat, NEW x, PendingIn(w, a, x),
         \A k \in Pos(w[1]) : x # PieceCell(w[1], a, k),
         \A i \in 1..Len(w) : DOMAIN Desc[w[i].param].cards \subseteq Nat
  PROVE  PendingIn(w, a + 1, x)
<1>1. PICK i \in 1..Len(w) : \E n \in DOMAIN Desc[w[i].param].cards : \E k \in Pos(w[i]) :
        x = PieceCell(w[i], n, k) /\ (i = 1 => n >= a)
  BY DEF PendingIn
<1>2. PICK n \in DOMAIN Desc[w[i].param].cards, k \in Pos(w[i]) :
        x = PieceCell(w[i], n, k) /\ (i = 1 => n >= a)
  BY <1>1
<1>3. n \in Nat
  OBVIOUS
<1>4. i = 1 => n # a
  BY <1>2
<1>5. i = 1 => n >= a + 1
  BY <1>2, <1>3, <1>4
<1> QED
  BY <1>2, <1>5 DEF PendingIn

LEMMA PendingNextRange ==
  ASSUME NEW w \in Seq(PieceSet), w # <<>>, NEW a \in Nat, NEW x, PendingIn(w, a, x),
         a = Len(Desc[w[1].param].cards),
         \A k \in Pos(w[1]) : x # PieceCell(w[1], a, k)
  PROVE  PendingIn(Tail(w), 1, x) /\ Tail(w) # <<>>
<1>0. \A i \in 1..Len(w) : w[i].param \in Params
  <2>1. \A i \in 1..Len(w) : w[i] \in PieceSet
    BY ElementOfSeq
  <2> QED
    BY <2>1 DEF PieceSet
<1>1. PICK i \in 1..Len(w) : \E n \in DOMAIN Desc[w[i].param].cards : \E k \in Pos(w[i]) :
        x = PieceCell(w[i], n, k) /\ (i = 1 => n >= a)
  BY DEF PendingIn
<1>2. PICK n \in DOMAIN Desc[w[i].param].cards, k \in Pos(w[i]) :
        x = PieceCell(w[i], n, k) /\ (i = 1 => n >= a)
  BY <1>1
<1>3. n \in 1..Len(Desc[w[i].param].cards) /\ Len(Desc[w[i].param].cards) \in Nat
  BY <1>0, CardSeq
<1>4. i # 1
  <2> SUFFICES ASSUME i = 1 PROVE FALSE
    OBVIOUS
  <2>1. n = a
    BY <1>2, <1>3
  <2> QED
    BY <1>2, <2>1
<1> DEFINE t == Tail(w)
           h == i - 1
<1>5. /\ Len(w) \in Nat \ {0} /\ Len(t) = Len(w) - 1
      /\ \A g \in 1..Len(t) : t[g] = w[g + 1]
      /\ t = <<>> <=> Len(w) = 1
  BY TailIs
<1> HIDE DEF t
<1>6. h \in 1..Len(t) /\ h + 1 = i /\ Len(w) # 1
  BY <1>4, <1>5
<1> HIDE DEF h
<1>7. t[h] = w[i]
  BY <1>5, <1>6
<1>8. h = 1 => n >= 1
  BY <1>3
<1>9. PendingIn(t, 1, x)
  BY <1>2, <1>6, <1>7, <1>8, Zenon DEF PendingIn
<1> QED
  BY <1>5, <1>6, <1>9 DEF t

LEMMA PendingAtFirst ==
  ASSUME WellDescribed, NEW c \in Calls, NEW x \in Targets(c)
  PROVE  PendingIn(Pieces(c), 1, x) /\ Pieces(c) # <<>>
<1> DEFINE w == Pieces(c)
<1>1. PICK k \in 0..(c.count - 1) : x \in CellsAt(c, k)
  BY DEF Targets
<1>2. Planned(c, w) /\ Complete(c, w)
  BY PiecesAre
<1> HIDE DEF w
<1>3. Covers(w, k)
  BY <1>1, <1>2 DEF Complete
<1>4. PICK i \in 1..Len(w) : k \in Pos(w[i])
  BY <1>3 DEF Covers
<1>5. Sound(c, w[i])
  BY <1>2 DEF Planned
<1>6. x \in RealCells(w[i].param, IndexOf(w[i], k)) /\ w[i].param \in Params
  BY <1>1, <1>4, <1>5 DEF Sound, PieceSet
<1>7. PICK n \in DOMAIN Desc[w[i].param].cards : x = PieceCell(w[i], n, k)
  BY <1>6 DEF RealCells, PieceCell
<1>8. n >= 1
  BY <1>6, CardSeq
<1>9. PendingIn(w, 1, x)
  BY <1>4, <1>7, <1>8, Zenon DEF PendingIn
<1>10. w # <<>>
  <2>1. Len(<<>>) = 0
    OBVIOUS
  <2> QED
    BY <1>4, <2>1
<1> QED
  BY <1>9, <1>10 DEF w

-----------------------------------------------------------------------------
(* One process at a time.                                                  *)

Shape ==
  /\ DOMAIN call = Procs /\ DOMAIN result = Procs /\ DOMAIN work = Procs
  /\ DOMAIN at = Procs /\ DOMAIN lead = Procs /\ DOMAIN data = Procs
  /\ DOMAIN before = Procs /\ DOMAIN alone = Procs /\ DOMAIN made = Procs

Still(q) ==
  /\ call'[q] = call[q] /\ result'[q] = result[q] /\ work'[q] = work[q]
  /\ at'[q] = at[q] /\ lead'[q] = lead[q] /\ data'[q] = data[q]
  /\ before'[q] = before[q] /\ made'[q] = made[q]

(* A step of p. *)
StepOf(p) ==
  /\ Shape'
  /\ \A q \in Procs \ {p} :
       Still(q) /\ (alone'[q] = FALSE \/ (mem' = mem /\ alone'[q] = alone[q]))

(* What goes on to the next card, range or call leaves for p. *)
AdvanceIs(p, d) ==
  /\ lead'[p] = <<>>
  /\ \/ /\ at[p] < Len(Desc[Here(p).param].cards)
        /\ at'[p] = at[p] + 1 /\ data'[p] = d /\ work'[p] = work[p]
        /\ result'[p] = result[p]
     \/ /\ ~(at[p] < Len(Desc[Here(p).param].cards))
        /\ at'[p] = 1 /\ work'[p] = Tail(work[p])
        /\ data'[p] = Entered(call[p], Tail(work[p]), Left(call[p], Here(p), d))
        /\ result'[p] = IF Len(work[p]) = 1 THEN "ok" ELSE result[p]

LEMMA AdvanceStep ==
  ASSUME Shape, NEW p \in Procs, NEW d, Advance(p, d),
         call' = call, before' = before, made' = made, DOMAIN alone' = Procs
  PROVE  Shape' /\ (\A q \in Procs \ {p} : Still(q)) /\ AdvanceIs(p, d)
<1>1. /\ lead' = [lead EXCEPT ![p] = <<>>]
      /\ \/ /\ at[p] < Len(Desc[Here(p).param].cards)
            /\ at' = [at EXCEPT ![p] = at[p] + 1]
            /\ data' = [data EXCEPT ![p] = d]
            /\ work' = work /\ result' = result
         \/ /\ ~(at[p] < Len(Desc[Here(p).param].cards))
            /\ at' = [at EXCEPT ![p] = 1]
            /\ work' = [work EXCEPT ![p] = Tail(work[p])]
            /\ data' = [data EXCEPT ![p] =
                         Entered(call[p], Tail(work[p]), Left(call[p], Here(p), d))]
            /\ \/ Len(work[p]) = 1 /\ result' = [result EXCEPT ![p] = "ok"]
               \/ Len(work[p]) # 1 /\ result' = result
  BY DEF Advance, Shape
<1>2. Shape'
  BY <1>1 DEF Shape
<1>3. \A q \in Procs \ {p} : Still(q)
  BY <1>1 DEF Shape, Still
<1>4. AdvanceIs(p, d)
  BY <1>1 DEF Shape, AdvanceIs
<1> QED
  BY <1>2, <1>3, <1>4

(* What a command that ends otherwise leaves for p. *)
EndsOtherwise(p, o) ==
  /\ work'[p] = work[p] /\ at'[p] = at[p] /\ lead'[p] = lead[p] /\ data'[p] = data[p]
  /\ \/ o[1] = "mismatch" /\ result'[p] = result[p]
     \/ result'[p] \notin {"run", "ok"}

LEMMA OtherwiseStep ==
  ASSUME Shape, NEW p \in Procs, NEW o \in Outcomes,
         \/ /\ Retried(o[1], tries[p])
            /\ UNCHANGED <<result, work, at, lead, data>>
         \/ /\ ~GoesOn(o[1])
            /\ result' = [result EXCEPT ![p] = o[1]]
            /\ UNCHANGED <<work, at, lead, data>>,
         call' = call, before' = before, made' = made, DOMAIN alone' = Procs
  PROVE  Shape' /\ (\A q \in Procs \ {p} : Still(q)) /\ EndsOtherwise(p, o)
<1>1. /\ work' = work /\ at' = at /\ lead' = lead /\ data' = data
      /\ \/ o[1] = "mismatch" /\ result' = result
         \/ o[1] \notin {"run", "ok"} /\ result' = [result EXCEPT ![p] = o[1]]
  BY OutcomeIs DEF Retried, GoesOn
<1> QED
  BY <1>1 DEF Shape, Still, EndsOtherwise

-----------------------------------------------------------------------------
(* What holds of the process p, whatever the others do.                    *)

Own(p) ==
  /\ made[p] \in Nat /\ alone[p] \in BOOLEAN
  /\ made[p] > 0 => call[p] \in Calls
  /\ result[p] = "run" => made[p] > 0
  /\ result[p] = "run" /\ Moves(call[p]) => PlanIs(call[p], work[p], at[p])
  /\ result[p] = "run" /\ call[p].op = "write" =>
       /\ BufferIs(p, call[p], made[p], work[p], data[p])
       /\ alone[p] => LeadIs(work[p], at[p], lead[p], mem)
  /\ alone[p] /\ made[p] > 0 /\ call[p].op = "write" =>
       WrittenIs(p, call[p], made[p], work[p], at[p], result[p], mem, before[p])

LEMMA StillOwn ==
  ASSUME NEW q, Own(q), Still(q), alone'[q] = FALSE \/ (mem' = mem /\ alone'[q] = alone[q])
  PROVE  Own(q)'
<1>1. CASE alone'[q] = FALSE
  BY <1>1 DEF Own, Still
<1>2. CASE mem' = mem /\ alone'[q] = alone[q]
  BY <1>2 DEF Own, Still
<1> QED
  BY <1>1, <1>2

LEMMA NoLead ==
  ASSUME NEW w, NEW a, NEW mm
  PROVE  LeadIs(w, a, <<>>, mm)
<1>1. LeadFrom(w, a, <<>>, mm) /\ SameLead(Desc[w[1].param].cards[a], w[1], mm, mm)
  BY DEF LeadFrom, SameLead
<1> QED
  BY <1>1 DEF LeadIs

LEMMA LeadRead ==
  ASSUME NEW w, NEW a, NEW l, NEW mm, l = Stored(mm, Desc[w[1].param].cards[a], w[1])
  PROVE  LeadIs(w, a, l, mm)
<1>1. LeadFrom(w, a, l, mm) /\ SameLead(Desc[w[1].param].cards[a], w[1], mm, mm)
  BY DEF LeadFrom, SameLead
<1> QED
  BY <1>1 DEF LeadIs

(* A command that was executed and is sent again has written the words     *)
(* before its range back as they were.                                     *)
LEMMA LeadKept ==
  ASSUME NEW w, NEW a, NEW l, NEW mm, NEW nn, LeadIs(w, a, l, mm),
         SameLead(Desc[w[1].param].cards[a], w[1], mm, nn)
  PROVE  LeadIs(w, a, l, nn)
<1> DEFINE card == Desc[w[1].param].cards[a]
<1>1. PICK mo : LeadFrom(w, a, l, mo) /\ SameLead(card, w[1], mo, mm)
  BY Zenon DEF LeadIs
<1>2. SameLead(card, w[1], mo, nn)
  BY <1>1, Zenon DEF SameLead
<1> QED
  BY <1>1, <1>2, Zenon DEF LeadIs

LEMMA BeginOwn ==
  ASSUME WellDescribed, Shape, NEW p \in Procs, NEW c \in Calls, Begin(p, c), Own(p)
  PROVE  StepOf(p) /\ Own(p)'
<1> DEFINE w == IF c.op = "start" THEN <<Piece(c.param, FALSE, 0, 1, 0)>> ELSE Pieces(c)
           d == IF c.op = "write" /\ Desc[c.param].virtual
                THEN Manip(c.param, 0, c.count, FreshBuffer(p, c))
                ELSE FreshBuffer(p, c)
           res == IF w = <<>> THEN "ok" ELSE "run"
           m == made[p] + 1
<1>1. /\ made' = [made EXCEPT ![p] = m] /\ call' = [call EXCEPT ![p] = c]
      /\ work' = [work EXCEPT ![p] = w] /\ data' = [data EXCEPT ![p] = Entered(c, w, d)]
      /\ result' = [result EXCEPT ![p] = res]
      /\ at' = [at EXCEPT ![p] = 1] /\ lead' = [lead EXCEPT ![p] = <<>>]
      /\ before' = [before EXCEPT ![p] = mem] /\ alone' = [alone EXCEPT ![p] = TRUE]
      /\ mem' = mem
  BY DEF Begin, Shape
<1>2. c.param \in Params /\ c.op \in {"write", "read", "start"} /\ c.count \in Nat
  BY CommandAssumption
<1>3. c.op # "start" => w = Pieces(c)
  OBVIOUS
<1>4. ASSUME c.op = "write", w # <<>> PROVE BufferIs(p, c, m, w, Entered(c, w, d))
  <2>1. d = [k \in 1..c.count |-> Word(p, m, k)]
    <3>1. FreshBuffer(p, c) = [k \in 1..c.count |-> Word(p, m, k)]
      BY <1>4 DEF FreshBuffer
    <3>2. Desc[c.param].virtual => Manip(c.param, 0, c.count, FreshBuffer(p, c)) = FreshBuffer(p, c)
      BY <1>2, Described DEF Manip
    <3> QED
      BY <3>1, <3>2
  <2>2. Planned(c, w)
    BY <1>4, PiecesAre
  <2> HIDE DEF w, d, m
  <2>3. ASSUME NEW i \in 1..Len(w), NEW k \in Pos(w[i])
        PROVE  d[k + 1] = Word(p, m, k + 1)
    <3>1. k \in 0..(c.count - 1)
      BY <2>2 DEF Planned, Sound
    <3>2. k + 1 \in 1..c.count
      BY <1>2, <3>1
    <3> QED
      BY <2>1, <3>2
  <2>4. Raw(p, c, m, w, d)
    BY <2>1, <2>3 DEF Raw
  <2> QED
    BY <1>4, <2>2, <2>4, BufferEnters
<1>5. ASSUME c.op # "start", w # <<>> PROVE PlanIs(c, w, 1)
  BY <1>3, <1>5, PlanBegins
<1>6. ASSUME c.op = "write" PROVE WrittenIs(p, c, m, w, 1, res, mem, mem)
  <2>1. ASSUME NEW x \in Targets(c) PROVE PendingIn(w, 1, x) /\ res = "run"
    BY <1>3, <1>6, <2>1, PendingAtFirst
  <2> QED
    BY <2>1 DEF WrittenIs
<1> HIDE DEF w, d, m
<1>7. StepOf(p)
  <2>1. Shape'
    BY <1>1 DEF Shape
  <2>2. \A q \in Procs \ {p} : Still(q) /\ alone'[q] = alone[q]
    BY <1>1 DEF Shape, Still
  <2> QED
    BY <1>1, <2>1, <2>2 DEF StepOf
<1>8. /\ made'[p] = m /\ call'[p] = c /\ work'[p] = w /\ data'[p] = Entered(c, w, d)
      /\ result'[p] = res /\ at'[p] = 1 /\ lead'[p] = <<>> /\ before'[p] = mem
      /\ alone'[p] = TRUE
  BY <1>1 DEF Shape
<1>9. m \in Nat /\ m > 0
  BY DEF Own, m
<1>10. res = "run" => w # <<>>
  OBVIOUS
<1> HIDE DEF res
<1>11. /\ made'[p] \in Nat /\ alone'[p] \in BOOLEAN
       /\ made'[p] > 0 /\ call'[p] \in Calls
  BY <1>8, <1>9
<1>12. result'[p] = "run" /\ Moves(call'[p]) => PlanIs(call'[p], work'[p], at'[p])
  BY <1>2, <1>5, <1>8, <1>10 DEF Moves
<1>13. result'[p] = "run" /\ call'[p].op = "write" =>
         /\ BufferIs(p, call'[p], made'[p], work'[p], data'[p])
         /\ LeadIs(work'[p], at'[p], lead'[p], mem')
  BY <1>4, <1>8, <1>10, NoLead
<1>14. call'[p].op = "write" =>
         WrittenIs(p, call'[p], made'[p], work'[p], at'[p], result'[p], mem', before'[p])
  BY <1>1, <1>6, <1>8
<1> QED
  BY <1>7, <1>11, <1>12, <1>13, <1>14 DEF Own

LEMMA TooLongOwn ==
  ASSUME Shape, NEW p \in Procs, TooLong(p), Own(p)
  PROVE  StepOf(p) /\ Own(p)'
<1>1. /\ result' = [result EXCEPT ![p] = "bounds"]
      /\ UNCHANGED <<mem, call, work, at, lead, data, tries, before, alone, made>>
  BY DEF TooLong
<1>2. result'[p] = "bounds"
  BY <1>1 DEF Shape
<1>3. StepOf(p)
  BY <1>1 DEF Shape, Still, StepOf
<1>4. alone[p] /\ made[p] > 0 /\ call[p].op = "write" =>
        WrittenIs(p, call[p], made[p], work[p], at[p], "bounds", mem, before[p])
  BY DEF Own, WrittenIs
<1> QED
  BY <1>1, <1>2, <1>3, <1>4 DEF Own

(* The command of a write that was not carried out. *)
LEMMA NotWritten ==
  ASSUME NEW p, Own(p), NEW o, EndsOtherwise(p, o), result[p] = "run",
         call' = call, before' = before, made' = made, alone'[p] = alone[p], mem' = mem
  PROVE  Own(p)'
<1>1. CASE result'[p] = result[p]
  BY <1>1 DEF Own, EndsOtherwise
<1>2. CASE result'[p] \notin {"run", "ok"}
  <2>1. alone[p] /\ made[p] > 0 /\ call[p].op = "write" =>
          WrittenIs(p, call[p], made[p], work[p], at[p], result'[p], mem, before[p])
    BY <1>2 DEF Own, WrittenIs
  <2> QED
    BY <1>2, <2>1 DEF Own, EndsOtherwise
<1> QED
  BY <1>1, <1>2 DEF EndsOtherwise

LEMMA OtherOwn ==
  ASSUME NEW p, alone' = alone, mem' = mem, Shape',
         \A q \in Procs \ {p} : Still(q)
  PROVE  StepOf(p)
BY DEF StepOf

LEMMA ReadLeadOwn ==
  ASSUME Shape, NEW p \in Procs, NEW o \in Outcomes, ReadLead(p, o), Own(p)
  PROVE  StepOf(p) /\ Own(p)'
<1>1. /\ result[p] = "run" /\ call[p].op = "write"
      /\ mem' = mem /\ call' = call /\ before' = before /\ alone' = alone /\ made' = made
  BY DEF ReadLead, Running
<1>2. CASE \/ /\ Retried(o[1], tries[p])
              /\ UNCHANGED <<result, work, at, lead, data>>
           \/ /\ ~GoesOn(o[1])
              /\ result' = [result EXCEPT ![p] = o[1]]
              /\ UNCHANGED <<work, at, lead, data>>
  <2>1. Shape' /\ (\A q \in Procs \ {p} : Still(q)) /\ EndsOtherwise(p, o)
    BY <1>1, <1>2, OtherwiseStep DEF Shape
  <2> QED
    BY <1>1, <2>1, NotWritten, OtherOwn
<1>3. CASE /\ lead' = [lead EXCEPT ![p] = LeadStored(Card(p), Here(p))]
           /\ UNCHANGED <<result, work, at, data>>
  <2>1. Shape' /\ \A q \in Procs \ {p} : Still(q)
    BY <1>1, <1>3 DEF Shape, Still
  <2>2. PlanIs(call[p], work[p], at[p])
    BY <1>1 DEF Own, Moves
  <2>3. Here(p) = work[p][1] /\ Card(p) = Desc[work[p][1].param].cards[at[p]]
    BY <2>2, FirstPiece DEF Here, Card
  <2>4. LeadStored(Card(p), Here(p)) = Stored(mem, Card(p), Here(p))
    BY Zenon DEF LeadStored, WordAt, Stored
  <2>5. lead'[p] = Stored(mem, Desc[work[p][1].param].cards[at[p]], work[p][1])
    BY <1>3, <2>3, <2>4 DEF Shape
  <2>6. LeadIs(work[p], at[p], lead'[p], mem)
    BY <2>5, LeadRead
  <2> QED
    BY <1>1, <1>3, <2>1, <2>6, OtherOwn DEF Own
<1> QED
  BY <1>2, <1>3 DEF ReadLead, Send

(* What is left of a call that goes on to the next card or range. *)
LEMMA AdvanceOwn ==
  ASSUME WellDescribed, Shape, NEW p \in Procs, NEW d, AdvanceIs(p, d), Own(p),
         result[p] = "run", Moves(call[p]), call'[p] = call[p], made'[p] = made[p]
  PROVE  /\ result'[p] \in {"run", "ok"}
         /\ result'[p] = "run" => PlanIs(call'[p], work'[p], at'[p])
         /\ call[p].op = "write" /\ d = data[p] /\ result'[p] = "run" =>
              BufferIs(p, call'[p], made'[p], work'[p], data'[p])
<1> DEFINE c == call[p]
           m == made[p]
           w == work[p]
           a == at[p]
           cards == Desc[w[1].param].cards
<1>1. /\ c \in Calls /\ PlanIs(c, w, a)
      /\ c.op = "write" => BufferIs(p, c, m, w, data[p])
  BY DEF Own
<1>2. /\ w \in Seq(PieceSet) /\ w # <<>> /\ Here(p) = w[1] /\ w[1].param \in Params
      /\ Planned(c, w)
  BY <1>1, FirstPiece DEF PlanIs, Here, PieceSet
<1>3. a \in 1..Len(cards) /\ Len(cards) \in Nat /\ DOMAIN cards = 1..Len(cards)
  BY <1>1, <1>2, CardSeq DEF PlanIs
<1>4. CASE a < Len(cards)
  <2>1. /\ at'[p] = a + 1 /\ data'[p] = d /\ work'[p] = w /\ result'[p] = "run"
    BY <1>2, <1>4 DEF AdvanceIs
  <2>2. a + 1 \in DOMAIN cards
    BY <1>3, <1>4
  <2>3. PlanIs(c, w, a + 1)
    BY <1>1, <2>2 DEF PlanIs
  <2> QED
    BY <1>1, <2>1, <2>3
<1>5. CASE ~(a < Len(cards))
  <2>1. /\ at'[p] = 1 /\ work'[p] = Tail(w)
        /\ data'[p] = Entered(c, Tail(w), Left(c, Here(p), d))
        /\ result'[p] = IF Len(w) = 1 THEN "ok" ELSE "run"
    BY <1>2, <1>5 DEF AdvanceIs
  <2>2. result'[p] = "run" => Tail(w) # <<>>
    BY <1>2, <2>1, TailIs
  <2>3. ASSUME Tail(w) # <<>> PROVE PlanIs(c, Tail(w), 1)
    BY <1>1, <2>3, PlanNext
  <2>4. ASSUME c.op = "write", d = data[p], Tail(w) # <<>>
        PROVE  BufferIs(p, c, m, Tail(w), data'[p])
    <3>1. data'[p] = Entered(c, Tail(w), data[p])
      BY <2>1, <2>4 DEF Left
    <3> DEFINE t == Tail(w)
    <3>2. /\ Len(t) = Len(w) - 1 /\ Len(w) \in Nat
          /\ \A i \in 1..Len(t) : t[i] = w[i + 1] /\ i + 1 \in 1..Len(w)
      BY <1>2, TailIs
    <3>3. Planned(c, t)
      BY <2>3, <2>4 DEF PlanIs
    <3> HIDE DEF t, w, m, c
    <3>4. ASSUME NEW i \in 1..Len(t), NEW k \in Pos(t[i])
          PROVE  data[p][k + 1] = Word(p, m, k + 1)
      <4>1. /\ t[i] = w[i + 1] /\ i + 1 \in 1..Len(w) /\ i + 1 # 1 /\ k \in Pos(w[i + 1])
        BY <3>2
      <4>2. BufferIs(p, c, m, w, data[p])
        BY <1>1, <2>4
      <4>3. data[p][k + 1] = Sent(p, m, k, i + 1 = 1 /\ Desc[w[i + 1].param].manip)
        BY <4>1, <4>2, Zenon DEF BufferIs
      <4> QED
        BY <4>1, <4>3, Zenon DEF Sent
    <3>5. Raw(p, c, m, t, data[p])
      BY <1>1, <2>4, <3>4 DEF Raw, BufferIs
    <3>6. t # <<>>
      BY <2>4 DEF t
    <3>7. BufferIs(p, c, m, t, Entered(c, t, data[p]))
      BY <1>1, <2>4, <3>3, <3>5, <3>6, BufferEnters
    <3> QED
      BY <3>1, <3>7 DEF t
  <2> HIDE DEF w, m, c
  <2>5. result'[p] \in {"run", "ok"}
    BY <2>1
  <2>6. call'[p] = c /\ made'[p] = m
    BY DEF c, m
  <2>7. call[p].op = "write" /\ d = data[p] /\ result'[p] = "run" =>
              BufferIs(p, call'[p], made'[p], work'[p], data'[p])
    <3>1. call[p] = c
      BY DEF c
    <3> QED
      BY <2>1, <2>2, <2>4, <2>6, <3>1
  <2> QED
    BY <2>1, <2>2, <2>3, <2>5, <2>6, <2>7
<1> QED
  BY <1>4, <1>5

LEMMA ReadBlockOwn ==
  ASSUME WellDescribed, Shape, NEW p \in Procs, NEW o \in Outcomes, ReadBlock(p, o), Own(p)
  PROVE  StepOf(p) /\ Own(p)'
<1>1. /\ result[p] = "run" /\ call[p].op = "read" /\ Moves(call[p])
      /\ mem' = mem /\ call' = call /\ before' = before /\ alone' = alone /\ made' = made
  BY DEF ReadBlock, Running, Moves
<1>2. CASE \/ /\ Retried(o[1], tries[p])
              /\ UNCHANGED <<result, work, at, lead, data>>
           \/ /\ ~GoesOn(o[1])
              /\ result' = [result EXCEPT ![p] = o[1]]
              /\ UNCHANGED <<work, at, lead, data>>
  <2>1. Shape' /\ (\A q \in Procs \ {p} : Still(q)) /\ EndsOtherwise(p, o)
    BY <1>1, <1>2, OtherwiseStep DEF Shape
  <2> QED
    BY <1>1, <2>1, NotWritten, OtherOwn
<1>3. ASSUME NEW d, Advance(p, d) PROVE StepOf(p) /\ Own(p)'
  <2>1. Shape' /\ (\A q \in Procs \ {p} : Still(q)) /\ AdvanceIs(p, d)
    BY <1>1, <1>3, AdvanceStep DEF Shape
  <2>2. /\ result'[p] \in {"run", "ok"}
        /\ result'[p] = "run" => PlanIs(call'[p], work'[p], at'[p])
    BY <1>1, <2>1, AdvanceOwn
  <2>3. StepOf(p)
    BY <1>1, <2>1, OtherOwn
  <2> QED
    BY <1>1, <2>2, <2>3 DEF Own
<1> QED
  BY <1>2, <1>3 DEF ReadBlock, Send

LEMMA StartCardOwn ==
  ASSUME Shape, NEW p \in Procs, NEW o \in Outcomes, StartCard(p, o), Own(p)
  PROVE  StepOf(p) /\ Own(p)'
<1>1. /\ result[p] = "run" /\ call[p].op = "start" /\ ~Moves(call[p])
      /\ mem' = mem /\ call' = call /\ before' = before /\ alone' = alone /\ made' = made
  BY DEF StartCard, Running, Moves
<1>2. CASE \/ /\ Retried(o[1], tries[p])
              /\ UNCHANGED <<result, work, at, lead, data>>
           \/ /\ ~GoesOn(o[1])
              /\ result' = [result EXCEPT ![p] = o[1]]
              /\ UNCHANGED <<work, at, lead, data>>
  <2>1. Shape' /\ (\A q \in Procs \ {p} : Still(q)) /\ EndsOtherwise(p, o)
    BY <1>1, <1>2, OtherwiseStep DEF Shape
  <2> QED
    BY <1>1, <2>1, NotWritten, OtherOwn
<1>3. CASE Advance(p, data[p])
  <2>1. Shape' /\ (\A q \in Procs \ {p} : Still(q)) /\ AdvanceIs(p, data[p])
    BY <1>1, <1>3, AdvanceStep DEF Shape
  <2>2. StepOf(p)
    BY <1>1, <2>1, OtherOwn
  <2> QED
    BY <1>1, <2>2 DEF Own
<1> QED
  BY <1>2, <1>3 DEF StartCard, Send

(* What a call has written when its command has been carried out. *)
LEMMA WrittenOn ==
  ASSUME WellDescribed, Shape, NEW p \in Procs, AdvanceIs(p, data[p]), Own(p),
         result[p] = "run", call[p].op = "write", NEW mm,
         WrittenIs(p, call[p], made[p], work[p], at[p], "run", mem, before[p]),
         WritesFirst(p, call[p], made[p], work[p], at[p], mem, mm)
  PROVE  WrittenIs(p, call[p], made[p], work'[p], at'[p], result'[p], mm, before[p])
<1> DEFINE c == call[p]
           m == made[p]
           w == work[p]
           a == at[p]
           cards == Desc[w[1].param].cards
<1>1. c \in Calls /\ PlanIs(c, w, a)
  BY DEF Own, Moves
<1>2. /\ w \in Seq(PieceSet) /\ w # <<>> /\ Here(p) = w[1] /\ w[1].param \in Params
      /\ Planned(c, w) /\ Len(w) \in Nat
  BY <1>1, FirstPiece DEF PlanIs, Here, PieceSet
<1>3. a \in 1..Len(cards) /\ Len(cards) \in Nat /\ DOMAIN cards = 1..Len(cards)
  BY <1>1, <1>2, CardSeq DEF PlanIs
<1>4. ASSUME NEW i \in 1..Len(w) PROVE DOMAIN Desc[w[i].param].cards \subseteq Nat
  <2>1. w[i] \in PieceSet
    BY <1>2, ElementOfSeq
  <2>2. w[i].param \in Params
    BY <2>1 DEF PieceSet
  <2> QED
    BY <2>2, CardSeq
<1>0. ASSUME NEW x \in Cells
      PROVE  /\ mm[x] = mem[x] \/ (x \in Targets(c) /\ mm[x] = GivenOf(p, c, m, x))
             /\ \A k \in Pos(w[1]) : x = PieceCell(w[1], a, k) => mm[x] = GivenOf(p, c, m, x)
  BY Zenon DEF WritesFirst
<1>5. ASSUME NEW x \in Cells
      PROVE  /\ mm[x] = before[p][x] \/ (x \in Targets(c) /\ mm[x] = GivenOf(p, c, m, x))
             /\ x \in Targets(c) /\ mm[x] # GivenOf(p, c, m, x) =>
                  /\ result'[p] # "ok"
                  /\ result'[p] = "run" => PendingIn(work'[p], at'[p], x)
  <2>1. mm[x] = before[p][x] \/ (x \in Targets(c) /\ mm[x] = GivenOf(p, c, m, x))
    BY <1>0 DEF WrittenIs
  <2>2. ASSUME x \in Targets(c), mm[x] # GivenOf(p, c, m, x)
        PROVE  /\ result'[p] # "ok"
               /\ result'[p] = "run" => PendingIn(work'[p], at'[p], x)
    <3>1. mm[x] = mem[x]
      BY <1>0, <2>2
    <3>2. PendingIn(w, a, x)
      BY <2>2, <3>1 DEF WrittenIs
    <3>3. \A k \in Pos(w[1]) : x # PieceCell(w[1], a, k)
      BY <1>0, <2>2
    <3>4. CASE a < Len(cards)
      <4>1. PendingIn(w, a + 1, x)
        <5>1. a \in Nat
          BY <1>3
        <5> HIDE DEF a, w
        <5> QED
          BY <1>4, <3>2, <3>3, <5>1, PendingNextCard
      <4>2. at'[p] = a + 1 /\ work'[p] = w /\ result'[p] = "run"
        BY <1>2, <3>4 DEF AdvanceIs
      <4> QED
        BY <4>1, <4>2
    <3>5. CASE ~(a < Len(cards))
      <4>1. a = Len(cards) /\ a \in Nat
        BY <1>3, <3>5
      <4>2. PendingIn(Tail(w), 1, x) /\ Tail(w) # <<>>
        BY <1>2, <3>2, <3>3, <4>1, PendingNextRange
      <4>3. at'[p] = 1 /\ work'[p] = Tail(w)
            /\ result'[p] = IF Len(w) = 1 THEN "ok" ELSE "run"
        BY <1>2, <3>5 DEF AdvanceIs
      <4>4. Len(w) # 1
        BY <1>2, <4>2, TailIs
      <4> QED
        BY <4>2, <4>3, <4>4
    <3> QED
      BY <3>4, <3>5
  <2> QED
    BY <2>1, <2>2
<1> QED
  BY <1>5 DEF WrittenIs

LEMMA WriteBlockOwn ==
  ASSUME WellDescribed, Shape, NEW p \in Procs, NEW o \in Outcomes, WriteBlock(p, o), Own(p)
  PROVE  StepOf(p) /\ Own(p)'
<1> DEFINE c == call[p]
           m == made[p]
           w == work[p]
           a == at[p]
           nn == WithBlock(mem, Desc[w[1].param].cards[a], w[1], BlockOf(lead[p], w[1], data[p]))
<1>1. /\ result[p] = "run" /\ c.op = "write" /\ Moves(c) /\ c \in Calls
      /\ m > 0 /\ m \in Nat /\ alone[p] \in BOOLEAN
      /\ call' = call /\ before' = before /\ made' = made
      /\ PlanIs(c, w, a) /\ BufferIs(p, c, m, w, data[p])
      /\ alone[p] => LeadIs(w, a, lead[p], mem)
      /\ alone[p] => WrittenIs(p, c, m, w, a, "run", mem, before[p])
  BY DEF WriteBlock, Running, Moves, Own
<1>2. Here(p) = w[1] /\ Card(p) = Desc[w[1].param].cards[a] /\ w[1].param \in Params
      /\ w \in Seq(PieceSet)
  BY <1>1, FirstPiece DEF Here, Card, PieceSet
<1>3. w[1].start = 0 \/ lead[p] # <<>>
  BY <1>2 DEF WriteBlock, NeedsLead
<1>4. mem' = IF ~o[2] THEN mem ELSE nn
  <2>1. Block(p) = BlockOf(lead[p], Here(p), data[p])
    BY Zenon DEF Block, BlockOf
  <2>2. mem' = IF ~o[2] THEN mem ELSE WithBlock(mem, Card(p), Here(p), Block(p))
    BY Zenon DEF WriteBlock, WithBlock
  <2> QED
    BY <1>2, <2>1, <2>2
<1>5. alone' = IF o[2] THEN [q \in Procs |-> alone[q] /\ q = p] ELSE alone
  BY DEF WriteBlock
<1>6. /\ DOMAIN alone' = Procs /\ alone'[p] \in BOOLEAN /\ (alone'[p] <=> alone[p])
      /\ \A q \in Procs \ {p} : alone'[q] = FALSE \/ (mem' = mem /\ alone'[q] = alone[q])
  <2>1. CASE ~o[2]
    BY <1>1, <1>4, <1>5, <2>1 DEF Shape
  <2>2. CASE o[2]
    <3>1. alone' = [q \in Procs |-> alone[q] /\ q = p]
      BY <1>5, <2>2
    <3>2. \A q \in Procs \ {p} : alone'[q] = FALSE
      BY <3>1
    <3>3. DOMAIN alone' = Procs
      BY <3>1
    <3>4. alone'[p] \in BOOLEAN /\ (alone'[p] <=> alone[p])
      BY <1>1, <3>1
    <3> QED
      BY <3>2, <3>3, <3>4
  <2> QED
    BY <2>1, <2>2
<1>7. ASSUME alone[p] PROVE WritesFirst(p, c, m, w, a, mem, nn)
  BY <1>1, <1>3, <1>7, BlockWrites
<1> HIDE DEF nn
<1>8. CASE \/ /\ Retried(o[1], tries[p])
              /\ UNCHANGED <<result, work, at, lead, data>>
           \/ /\ ~GoesOn(o[1])
              /\ result' = [result EXCEPT ![p] = o[1]]
              /\ UNCHANGED <<work, at, lead, data>>
  <2>1. Shape' /\ (\A q \in Procs \ {p} : Still(q)) /\ EndsOtherwise(p, o)
    BY <1>1, <1>6, <1>8, OtherwiseStep
  <2>2. StepOf(p)
    BY <1>6, <2>1 DEF StepOf
  <2>3. CASE ~o[2]
    <3>1. mem' = mem /\ alone' = alone
      BY <1>4, <1>5, <2>3
    <3> QED
      BY <1>1, <2>1, <2>2, <3>1, NotWritten
  <2>4. CASE o[2]
    <3>1. /\ result'[p] # "ok"
          /\ work'[p] = w /\ at'[p] = a /\ lead'[p] = lead[p] /\ data'[p] = data[p]
      BY <1>1, <2>1 DEF EndsOtherwise
    <3>2. mem' = nn
      BY <1>4, <2>4
    <3>3. ASSUME alone[p]
          PROVE  /\ WrittenIs(p, c, m, w, a, result'[p], nn, before[p])
                 /\ LeadIs(w, a, lead[p], nn)
      <4>1. ASSUME NEW x \in Cells
            PROVE  /\ nn[x] = before[p][x] \/ (x \in Targets(c) /\ nn[x] = GivenOf(p, c, m, x))
                   /\ x \in Targets(c) /\ nn[x] # GivenOf(p, c, m, x) => PendingIn(w, a, x)
        <5>1. nn[x] = mem[x] \/ (x \in Targets(c) /\ nn[x] = GivenOf(p, c, m, x))
          BY <1>7, <3>3, Zenon DEF WritesFirst
        <5>2. /\ mem[x] = before[p][x] \/ (x \in Targets(c) /\ mem[x] = GivenOf(p, c, m, x))
              /\ x \in Targets(c) /\ mem[x] # GivenOf(p, c, m, x) => PendingIn(w, a, x)
          BY <1>1, <3>3 DEF WrittenIs
        <5> QED
          BY <5>1, <5>2
      <4>2. WrittenIs(p, c, m, w, a, result'[p], nn, before[p])
        BY <3>1, <4>1, Zenon DEF WrittenIs
      <4>3. SameLead(Desc[w[1].param].cards[a], w[1], mem, nn)
        BY <1>7, <3>3, Zenon DEF WritesFirst
      <4>4. LeadIs(w, a, lead[p], nn)
        BY <1>1, <3>3, <4>3, LeadKept
      <4> QED
        BY <4>2, <4>4
    <3> HIDE DEF c, m, w, a
    <3>4. Own(p)'
      BY <1>1, <1>6, <3>1, <3>2, <3>3 DEF Own, c, m, w, a
    <3> QED
      BY <2>2, <3>4
  <2> QED
    BY <2>3, <2>4
<1>9. CASE o[1] = "ok" /\ Advance(p, data[p])
  <2>1. Shape' /\ (\A q \in Procs \ {p} : Still(q)) /\ AdvanceIs(p, data[p])
    BY <1>1, <1>6, <1>9, AdvanceStep
  <2>2. StepOf(p)
    BY <1>6, <2>1 DEF StepOf
  <2>3. mem' = nn
    BY <1>4, <1>9, OutcomeIs
  <2>4. /\ result'[p] \in {"run", "ok"}
        /\ result'[p] = "run" => PlanIs(call'[p], work'[p], at'[p])
        /\ result'[p] = "run" => BufferIs(p, call'[p], made'[p], work'[p], data'[p])
    BY <1>1, <2>1, AdvanceOwn
  <2>5. lead'[p] = <<>>
    BY <2>1 DEF AdvanceIs
  <2>6. alone[p] => WrittenIs(p, c, m, work'[p], at'[p], result'[p], nn, before[p])
    <3> SUFFICES ASSUME alone[p]
                 PROVE  WrittenIs(p, c, m, work'[p], at'[p], result'[p], nn, before[p])
      OBVIOUS
    <3>1. WrittenIs(p, c, m, w, a, "run", mem, before[p])
      BY <1>1
    <3> QED
      BY <1>1, <1>7, <2>1, <3>1, WrittenOn
  <2>7. LeadIs(work'[p], at'[p], lead'[p], mem')
    BY <2>5, NoLead
  <2>8. Own(p)'
    BY <1>1, <1>6, <2>3, <2>4, <2>6, <2>7 DEF Own
  <2> QED
    BY <2>2, <2>8
<1> QED
  BY <1>8, <1>9 DEF WriteBlock, Send, GoesOn

-----------------------------------------------------------------------------
CallInv == Shape /\ \A p \in Procs : Own(p)

LEMMA InitCall == Init => CallInv
<1> SUFFICES ASSUME Init PROVE CallInv
  OBVIOUS
<1>1. Shape
  BY DEF Init, Shape
<1>2. ASSUME NEW p \in Procs PROVE Own(p)
  <2>1. made[p] = 0 /\ alone[p] = TRUE /\ result[p] = "idle"
    BY DEF Init
  <2> QED
    <3>1. made[p] \in Nat /\ ~(made[p] > 0) /\ alone[p] \in BOOLEAN /\ result[p] # "run"
      <4>1. made[p] \in Nat /\ ~(made[p] > 0)
        BY <2>1
      <4>2. alone[p] \in BOOLEAN
        BY <2>1, Zenon
      <4>3. result[p] # "run"
        BY <2>1
      <4> QED
        BY <4>1, <4>2, <4>3, Zenon
    <3> QED
      BY <3>1, Zenon DEF Own
<1> QED
  BY <1>1, <1>2 DEF CallInv

LEMMA NextCall == WellDescribed /\ CallInv /\ [Next]_vars => CallInv'
<1> SUFFICES ASSUME WellDescribed, CallInv, [Next]_vars PROVE CallInv'
  OBVIOUS
<1>1. Shape /\ \A q \in Procs : Own(q)
  BY DEF CallInv
<1>2. ASSUME NEW p \in Procs, StepOf(p), Own(p)' PROVE CallInv'
  <2>1. ASSUME NEW q \in Procs PROVE Own(q)'
    <3>1. CASE q = p
      BY <1>2, <3>1
    <3>2. CASE q # p
      BY <1>1, <1>2, <3>2, StillOwn DEF StepOf
    <3> QED
      BY <3>1, <3>2
  <2> QED
    BY <1>2, <2>1 DEF StepOf, CallInv
<1>3. ASSUME NEW p \in Procs, NEW c \in Calls, Begin(p, c) PROVE CallInv'
  BY <1>1, <1>2, <1>3, BeginOwn
<1>4. ASSUME NEW p \in Procs, TooLong(p) PROVE CallInv'
  BY <1>1, <1>2, <1>4, TooLongOwn
<1>5. ASSUME NEW p \in Procs, NEW o \in Outcomes, ReadLead(p, o) PROVE CallInv'
  BY <1>1, <1>2, <1>5, ReadLeadOwn
<1>6. ASSUME NEW p \in Procs, NEW o \in Outcomes, WriteBlock(p, o) PROVE CallInv'
  BY <1>1, <1>2, <1>6, WriteBlockOwn
<1>7. ASSUME NEW p \in Procs, NEW o \in Outcomes, ReadBlock(p, o) PROVE CallInv'
  BY <1>1, <1>2, <1>7, ReadBlockOwn
<1>8. ASSUME NEW p \in Procs, NEW o \in Outcomes, StartCard(p, o) PROVE CallInv'
  BY <1>1, <1>2, <1>8, StartCardOwn
<1>9. CASE UNCHANGED vars
  <2>1. Shape' /\ \A q \in Procs : Still(q) /\ mem' = mem /\ alone'[q] = alone[q]
    BY <1>1, <1>9 DEF vars, Shape, Still
  <2>2. \A q \in Procs : Own(q)'
    BY <1>1, <2>1, StillOwn
  <2> QED
    BY <2>1, <2>2 DEF CallInv
<1> QED
  BY <1>3, <1>4, <1>5, <1>6, <1>7, <1>8, <1>9 DEF Next

LEMMA GivenSame ==
  ASSUME NEW p, NEW x
  PROVE  Given(p, x) = GivenOf(p, call[p], made[p], x)
BY Zenon DEF Given, GivenOf

LEMMA CallHolds ==
  ASSUME WellDescribed PROVE Spec => []CallInv
<1>1. CallInv /\ [Next]_vars => CallInv'
  BY NextCall
<1> QED
  BY <1>1, InitCall, PTL DEF Spec

(* However a write is cut into banks, maps, cards and commands, whichever  *)
(* of them fail and whatever the others read meanwhile: it changes the     *)
(* words that its range names, to what the caller gave, and no other word; *)
(* a write that returns 0 has changed them all.                            *)
THEOREM WritesAreExact ==
  ASSUME WellDescribed PROVE Spec => []WriteExact
<1>1. CallInv => WriteExact
  BY GivenSame DEF CallInv, Own, WrittenIs, WriteExact
<1>2. Spec => []CallInv
  BY CallHolds
<1> QED
  BY <1>1, <1>2, PTL

-----------------------------------------------------------------------------
(* Reads.                                                                  *)

(* A range of several cards is all of its call. *)
Whole(c) == Piece(c.param, FALSE, c.start, c.count, 0)

AloneOrOne(c, w) ==
  \A i \in 1..Len(w) :
    \/ Len(Desc[w[i].param].cards) = 1
    \/ w = <<Whole(c)>> /\ ~Desc[c.param].virtual /\ ~Desc[c.param].manip

LEMMA PiecesAlone ==
  ASSUME WellDescribed, ReadsOneCard, NEW c \in Calls, c.op = "read"
  PROVE  AloneOrOne(c, Pieces(c))
<1> DEFINE w == Pieces(c)
<1>1. Planned(c, w)
  BY PiecesAre
<1>2. c.param \in Params
  BY CommandAssumption
<1>3. CASE ~Desc[c.param].virtual /\ ~Desc[c.param].banked /\ ~Desc[c.param].manip
  <2>1. w = <<Whole(c)>>
    BY <1>3 DEF Pieces, RealPieces, Whole
  <2> QED
    BY <1>3, <2>1 DEF AloneOrOne
<1> HIDE DEF w
<1>4. CASE ~(~Desc[c.param].virtual /\ ~Desc[c.param].banked /\ ~Desc[c.param].manip)
  <2>1. ASSUME NEW i \in 1..Len(w) PROVE Len(Desc[w[i].param].cards) = 1
    <3>1. Named(c, w[i])
      BY <1>1 DEF Planned, Sound
    <3> QED
      BY <1>2, <1>4, <3>1 DEF Named, ReadsOneCard
  <2> QED
    BY <2>1 DEF AloneOrOne, w
<1> QED
  BY <1>3, <1>4

(* What index k of card i shall read, from the memory mm. *)
WantOf(c, mm, i, k) ==
  IF CellsAt(c, k) = {} THEN Zero
  ELSE LET x == IF Desc[c.param].virtual THEN CHOOSE x \in CellsAt(c, k) : TRUE
                ELSE Cell(Desc[c.param].cards[i], c.param, c.start + k)
       IN  IF Desc[x.param].manip THEN Flip(mm[x]) ELSE mm[x]

Unread(w, a, i, k) == \E j \in 1..Len(w) : k \in Pos(w[j]) /\ (j = 1 => i >= a)

ReadIs(c, w, a, d, res, mm) ==
  /\ DOMAIN d = 1..(CardCount(c) * c.count)
  /\ \A i \in 1..CardCount(c), k \in 0..(c.count - 1) :
       \/ d[(i - 1) * c.count + k + 1] = WantOf(c, mm, i, k)
       \/ res # "ok" /\ (res = "run" => Unread(w, a, i, k))

LEMMA CountIs ==
  ASSUME NEW c \in Calls
  PROVE  /\ CardCount(c) \in Nat /\ c.count \in Nat /\ c.start \in Nat /\ c.param \in Params
         /\ Desc[c.param].virtual => CardCount(c) = 1
         /\ ~Desc[c.param].virtual => CardCount(c) = Len(Desc[c.param].cards)
<1>1. c.count \in Nat /\ c.start \in Nat /\ c.param \in Params
  BY CommandAssumption
<1>2. Len(Desc[c.param].cards) \in Nat
  BY <1>1, CardSeq
<1> QED
  BY <1>1, <1>2 DEF CardCount

(* The rows of a buffer do not overlap. *)
LEMMA Rows ==
  ASSUME NEW N \in Nat, NEW n \in Nat, NEW i \in 1..N, NEW k \in 0..(n - 1)
  PROVE  /\ (i - 1) * n + k + 1 \in 1..(N * n)
         /\ \A a \in 1..N : ((i - 1) * n + k + 1) - (a - 1) * n \in 1..n <=> i = a
<1>1. k \in Nat /\ n - 1 \in Nat /\ k <= n - 1 /\ i \in Nat
  OBVIOUS
<1>2. (i - 1) * n >= 0 /\ (i - 1) * n + n = i * n /\ i * n <= N * n
  <2>1. (i - 1) * n + n = i * n
    BY <1>1
  <2>2. (i - 1) * n >= 0
    BY <1>1
  <2>3. (N - i) * n >= 0 /\ N * n = i * n + (N - i) * n
    BY <1>1
  <2>4. i * n \in Int /\ N * n \in Int /\ (N - i) * n \in Int
    BY <1>1
  <2> QED
    BY <2>1, <2>2, <2>3, <2>4
<1>3. (i - 1) * n + k + 1 \in 1..(N * n)
  <2>1. i * n \in Int /\ N * n \in Int /\ (i - 1) * n \in Int
    BY <1>1
  <2> QED
    BY <1>1, <1>2, <2>1
<1>4. ASSUME NEW a \in 1..N
      PROVE  ((i - 1) * n + k + 1) - (a - 1) * n \in 1..n <=> i = a
  <2> DEFINE q == (i - a) * n
  <2>1. q \in Int /\ ((i - 1) * n + k + 1) - (a - 1) * n = q + k + 1
    BY <1>1
  <2>2. i > a => q >= n
    <3>1. i > a => (i - a - 1) * n >= 0 /\ q = (i - a - 1) * n + n
      BY <1>1
    <3>2. (i - a - 1) * n \in Int
      BY <1>1
    <3> HIDE DEF q
    <3> QED
      BY <1>1, <2>1, <3>1, <3>2
  <2>3. i < a => q <= 0 - n
    <3>1. i < a => (a - i - 1) * n >= 0 /\ q = 0 - ((a - i - 1) * n) - n
      BY <1>1
    <3>2. (a - i - 1) * n \in Int
      BY <1>1
    <3> HIDE DEF q
    <3> QED
      BY <1>1, <2>1, <3>1, <3>2
  <2>4. i = a => q = 0
    BY <1>1
  <2> HIDE DEF q
  <2> QED
    BY <1>1, <2>1, <2>2, <2>3, <2>4
<1> QED
  BY <1>3, <1>4

(* The words of a range of one card. *)
LEMMA WantOne ==
  ASSUME WellDescribed, NEW c \in Calls, NEW r, Sound(c, r), Len(Desc[r.param].cards) = 1,
         NEW k \in Pos(r), NEW mm
  PROVE  /\ k \in 0..(c.count - 1)
         /\ CardCount(c) = 1
         /\ WantOf(c, mm, 1, k) = IF Desc[r.param].manip THEN Flip(mm[PieceCell(r, 1, k)])
                                  ELSE mm[PieceCell(r, 1, k)]
<1> DEFINE x == PieceCell(r, 1, k)
<1>1. /\ r \in PieceSet /\ r.param \in Params /\ ~Desc[r.param].virtual /\ Named(c, r)
      /\ k \in 0..(c.count - 1) /\ CellsAt(c, k) = RealCells(r.param, IndexOf(r, k))
  BY DEF Sound, PieceSet
<1>2. DOMAIN Desc[r.param].cards = {1}
  BY <1>1, CardSeq
<1>3. CellsAt(c, k) = {x}
  BY <1>1, <1>2 DEF RealCells, PieceCell
<1>4. x.param = r.param
  BY DEF PieceCell, Cell
<1>5. CASE Desc[c.param].virtual
  <2>1. (CHOOSE y \in CellsAt(c, k) : TRUE) = x
    BY <1>3
  <2> HIDE DEF x
  <2>2. WantOf(c, mm, 1, k) = IF Desc[x.param].manip THEN Flip(mm[x]) ELSE mm[x]
    BY <1>3, <1>5, <2>1 DEF WantOf
  <2> QED
    BY <1>1, <1>4, <1>5, <2>2, CountIs DEF x
<1>6. CASE ~Desc[c.param].virtual
  <2> DEFINE y == Cell(Desc[c.param].cards[1], c.param, c.start + k)
  <2>1. r.param = c.param
    BY <1>1, <1>6 DEF Named
  <2>2. y \in CellsAt(c, k)
    BY <1>2, <1>6, <2>1 DEF CellsAt, RealCells
  <2>3. y = x
    BY <1>3, <2>2
  <2> HIDE DEF x, y
  <2>4. WantOf(c, mm, 1, k) = IF Desc[x.param].manip THEN Flip(mm[x]) ELSE mm[x]
    BY <1>3, <1>6, <2>3 DEF WantOf, y
  <2>5. CardCount(c) = 1
    BY <1>6, <2>1, CountIs
  <2> QED
    BY <1>1, <1>4, <2>4, <2>5 DEF x
<1> QED
  BY <1>5, <1>6

(* A command that reads puts the words of card a into the buffer d. *)
ReadInto(mm, r, a, d) ==
  LET first == r.off + (a - 1) * r.count
  IN  [k \in DOMAIN d |->
         IF k - first \in 1..r.count
         THEN mm[Cell(Desc[r.param].cards[a], r.param,
                      Base(r) + (r.start + k - first - 1))]
         ELSE d[k]]

AfterAll(w) == IF Len(w) = 1 THEN "ok" ELSE "run"

LEMMA ReadOne ==
  ASSUME WellDescribed, NEW c \in Calls, c.op = "read", NEW w, Planned(c, w), w # <<>>,
         Len(Desc[w[1].param].cards) = 1, NEW d, NEW mm, ReadIs(c, w, 1, d, "run", mm)
  PROVE  ReadIs(c, Tail(w), 1, Left(c, w[1], ReadInto(mm, w[1], 1, d)), AfterAll(w), mm)
<1> DEFINE r == w[1]
           e == ReadInto(mm, r, 1, d)
           f == Left(c, r, e)
           t == Tail(w)
<1>1. w \in Seq(PieceSet) /\ \A i \in 1..Len(w) : Sound(c, w[i])
  BY DEF Planned
<1>2. /\ Len(w) \in Nat \ {0} /\ Len(t) = Len(w) - 1
      /\ \A i \in 1..Len(t) : t[i] = w[i + 1] /\ i + 1 \in 1..Len(w)
  BY <1>1, TailIs
<1>3. 1 \in 1..Len(w)
  BY <1>2
<1>4. /\ Sound(c, r) /\ Named(c, r) /\ r \in PieceSet
      /\ r.off \in Nat /\ r.count \in Nat /\ r.start \in Nat /\ r.param \in Params
  BY <1>1, <1>3 DEF Sound, PieceSet
<1>5. /\ CardCount(c) = 1 /\ c.count \in Nat
  BY <1>4, CountIs DEF Named
<1>6. DOMAIN d = 1..c.count
  BY <1>5 DEF ReadIs
<1>7. ASSUME NEW k \in 0..(c.count - 1)
      PROVE  e[k + 1] = IF k \in Pos(r) THEN mm[PieceCell(r, 1, k)] ELSE d[k + 1]
  <2>1. k + 1 \in DOMAIN d /\ k \in Nat
    BY <1>5, <1>6
  <2>2. r.off + (1 - 1) * r.count = r.off
    BY <1>4
  <2>3. e[k + 1] = IF (k + 1) - (r.off + (1 - 1) * r.count) \in 1..r.count
                   THEN mm[Cell(Desc[r.param].cards[1], r.param,
                                Base(r) + (r.start + (k + 1) - (r.off + (1 - 1) * r.count) - 1))]
                   ELSE d[k + 1]
    BY <2>1, Zenon DEF ReadInto
  <2> DEFINE g == r.off + (1 - 1) * r.count
  <2> HIDE DEF g
  <2>4. g = r.off
    BY <2>2 DEF g
  <2>5. e[k + 1] = IF (k + 1) - g \in 1..r.count
                   THEN mm[Cell(Desc[r.param].cards[1], r.param,
                                Base(r) + (r.start + (k + 1) - g - 1))]
                   ELSE d[k + 1]
    BY <2>3, Zenon DEF g
  <2>6. (k + 1) - g \in 1..r.count <=> k \in Pos(r)
    BY SMTT(30), <1>4, <2>1, <2>4 DEF Pos
  <2>7. Base(r) + (r.start + (k + 1) - g - 1) = IndexOf(r, k)
    <3>1. Base(r) \in Nat
      BY Constants DEF Base
    <3> QED
      BY SMTT(30), <1>4, <2>1, <2>4, <3>1 DEF IndexOf
  <2> QED
    BY <2>5, <2>6, <2>7, Zenon DEF PieceCell
<1>8. DOMAIN e = 1..c.count
  BY <1>6, Zenon DEF ReadInto
<1> HIDE DEF e
<1>9. ASSUME NEW k \in 0..(c.count - 1)
      PROVE  f[k + 1] = IF k \in Pos(r) /\ Desc[r.param].manip THEN Flip(e[k + 1]) ELSE e[k + 1]
  <2>1. k + 1 \in DOMAIN e /\ k \in Nat
    BY <1>5, <1>8
  <2>2. k + 1 > r.off /\ k + 1 <= r.off + r.count <=> k \in Pos(r)
    BY SMTT(40), <1>4, <2>1 DEF Pos
  <2>3. f = Manip(r.param, r.off, r.count, e)
    BY DEF Left
  <2> HIDE DEF f
  <2>4. CASE ~Desc[r.param].manip
    BY <2>3, <2>4 DEF Manip
  <2>5. CASE Desc[r.param].manip
    <3>1. f[k + 1] = IF k + 1 > r.off /\ k + 1 <= r.off + r.count
                     THEN Flip(e[k + 1]) ELSE e[k + 1]
      BY <2>1, <2>3, <2>5 DEF Manip
    <3> QED
      BY <2>2, <2>5, <3>1, Zenon
  <2> QED
    BY <2>4, <2>5
<1>10. DOMAIN f = 1..c.count
  BY <1>8 DEF Left, Manip
<1> HIDE DEF f
<1>11. ASSUME NEW k \in 0..(c.count - 1)
       PROVE  \/ f[k + 1] = WantOf(c, mm, 1, k)
              \/ AfterAll(w) # "ok" /\ Unread(t, 1, 1, k)
  <2>1. CASE k \in Pos(r)
    <3>1. e[k + 1] = mm[PieceCell(r, 1, k)]
      BY <1>7, <2>1
    <3>2. f[k + 1] = IF Desc[r.param].manip THEN Flip(e[k + 1]) ELSE e[k + 1]
      BY <1>9, <2>1, Zenon
    <3>3. WantOf(c, mm, 1, k) = IF Desc[r.param].manip THEN Flip(mm[PieceCell(r, 1, k)])
                                ELSE mm[PieceCell(r, 1, k)]
      BY <1>4, <2>1, WantOne
    <3> QED
      BY <3>1, <3>2, <3>3, Zenon
  <2>2. CASE k \notin Pos(r)
    <3>1. f[k + 1] = d[k + 1]
      BY <1>7, <1>9, <2>2, Zenon
    <3>2. d[k + 1] = WantOf(c, mm, 1, k) \/ Unread(w, 1, 1, k)
      <4>1. 1 \in 1..CardCount(c) /\ (1 - 1) * c.count + k + 1 = k + 1
        BY <1>5
      <4>2. d[(1 - 1) * c.count + k + 1] = WantOf(c, mm, 1, k) \/ Unread(w, 1, 1, k)
        BY <4>1, Zenon DEF ReadIs
      <4> QED
        BY <4>1, <4>2
    <3>3. ASSUME Unread(w, 1, 1, k) PROVE AfterAll(w) # "ok" /\ Unread(t, 1, 1, k)
      <4>1. PICK j \in 1..Len(w) : k \in Pos(w[j])
        BY <3>3 DEF Unread
      <4>2. j # 1
        BY <2>2, <4>1
      <4>3. j - 1 \in 1..Len(t) /\ (j - 1) + 1 = j /\ Len(w) # 1
        BY <1>2, <4>2
      <4>4. t[j - 1] = w[j]
        BY <1>2, <4>3
      <4> HIDE DEF t
      <4>5. Unread(t, 1, 1, k)
        BY <4>1, <4>3, <4>4 DEF Unread
      <4> QED
        BY <4>3, <4>5 DEF AfterAll
    <3> QED
      BY <3>1, <3>2, <3>3
  <2> QED
    BY <2>1, <2>2
<1> HIDE DEF t
<1>12. ReadIs(c, t, 1, f, AfterAll(w), mm)
  <2>1. DOMAIN f = 1..(CardCount(c) * c.count)
    BY <1>5, <1>10
  <2>2. ASSUME NEW i \in 1..CardCount(c), NEW k \in 0..(c.count - 1)
        PROVE  \/ f[(i - 1) * c.count + k + 1] = WantOf(c, mm, i, k)
               \/ AfterAll(w) # "ok" /\ (AfterAll(w) = "run" => Unread(t, 1, i, k))
    <3>1. i = 1 /\ (i - 1) * c.count + k + 1 = k + 1
      BY <1>5
    <3> QED
      BY <1>11, <3>1
  <2> QED
    BY <2>1, <2>2, Zenon DEF ReadIs
<1> QED
  BY <1>12 DEF f, e, t

LEMMA ReadCard ==
  ASSUME NEW c \in Calls, c.op = "read", ~Desc[c.param].virtual, ~Desc[c.param].manip,
         NEW a \in 1..CardCount(c), NEW d, NEW mm, Desc[c.param].cards # <<>>,
         ReadIs(c, <<Whole(c)>>, a, d, "run", mm)
  PROVE  LET e == Left(c, Whole(c), ReadInto(mm, Whole(c), a, d))
         IN  /\ e = ReadInto(mm, Whole(c), a, d)
             /\ a < CardCount(c) => ReadIs(c, <<Whole(c)>>, a + 1, e, "run", mm)
             /\ a = CardCount(c) => ReadIs(c, <<>>, 1, e, "ok", mm)
<1> DEFINE r == Whole(c)
           e == ReadInto(mm, r, a, d)
           N == CardCount(c)
           n == c.count
<1>1. /\ r.param = c.param /\ r.start = c.start /\ r.count = c.count /\ r.off = 0
      /\ Base(r) = 0
  BY DEF Whole, Piece, Base
<1>2. N \in Nat /\ n \in Nat /\ c.start \in Nat /\ c.param \in Params
  BY CountIs
<1>3. Left(c, r, e) = e
  BY <1>1 DEF Left, Manip
<1>4. DOMAIN d = 1..(N * n)
  BY DEF ReadIs
<1>5. DOMAIN e = 1..(N * n)
  BY <1>4, Zenon DEF ReadInto
<1> HIDE DEF r
<1>6. ASSUME NEW i \in 1..N, NEW k \in 0..(n - 1)
      PROVE  e[(i - 1) * n + k + 1] = IF i = a THEN WantOf(c, mm, a, k)
                                      ELSE d[(i - 1) * n + k + 1]
  <2> DEFINE h == (i - 1) * n + k + 1
             g == r.off + (a - 1) * r.count
  <2>1. h \in 1..(N * n) /\ (h - (a - 1) * n \in 1..n <=> i = a)
    <3> HIDE DEF N, n
    <3>1. /\ (i - 1) * n + k + 1 \in 1..(N * n)
          /\ \A b \in 1..N : ((i - 1) * n + k + 1) - (b - 1) * n \in 1..n <=> i = b
      BY <1>2, Rows
    <3>2. a \in 1..N
      BY DEF N
    <3>3. ((i - 1) * n + k + 1) - (a - 1) * n \in 1..n <=> i = a
      BY <3>1, <3>2
    <3>4. h = (i - 1) * n + k + 1
      OBVIOUS
    <3> HIDE DEF h
    <3>5. h - (a - 1) * n \in 1..n <=> i = a
      BY <3>3, <3>4
    <3>6. h \in 1..(N * n)
      BY <3>1, <3>4
    <3> QED
      BY <3>5, <3>6
  <2>2. e[h] = IF h - g \in 1..r.count
               THEN mm[Cell(Desc[r.param].cards[a], r.param, Base(r) + (r.start + h - g - 1))]
               ELSE d[h]
    BY <1>4, <2>1, Zenon DEF ReadInto
  <2>3. g = (a - 1) * n
    <3>1. (a - 1) * n \in Int
      BY <1>2
    <3> QED
      BY <1>1, <3>1
  <2> HIDE DEF g
  <2>4. CASE i # a
    <3>1. ~(h - g \in 1..r.count)
      BY <1>1, <2>1, <2>3, <2>4, Zenon
    <3> QED
      BY <2>2, <2>4, <3>1, Zenon
  <2>5. CASE i = a
    <3>1. h - g \in 1..r.count
      BY <1>1, <2>1, <2>3, <2>5, Zenon
    <3>2. h - g = k + 1 /\ k \in Nat
      <4>1. (a - 1) * n \in Int
        BY <1>2
      <4> QED
        BY <1>2, <2>3, <2>5, <4>1
    <3>3. Base(r) + (r.start + h - g - 1) = c.start + k
      <4>1. g \in Int /\ h \in Int
        BY <1>2, <2>3
      <4> HIDE DEF h
      <4> QED
        BY <1>1, <1>2, <3>2, <4>1
    <3> DEFINE x == Cell(Desc[c.param].cards[a], c.param, c.start + k)
    <3>4. e[h] = mm[x]
      BY <1>1, <2>2, <3>1, <3>3, Zenon
    <3>5. a \in DOMAIN Desc[c.param].cards
      BY <1>2, CardSeq, CountIs
    <3>6. x \in CellsAt(c, k)
      BY <3>5 DEF CellsAt, RealCells
    <3>7. x.param = c.param
      BY DEF Cell
    <3> HIDE DEF x
    <3>8. WantOf(c, mm, a, k) = mm[x]
      BY <3>6, <3>7, Zenon DEF WantOf, x
    <3> QED
      BY <2>5, <3>4, <3>8
  <2> QED
    BY <2>4, <2>5
<1> HIDE DEF e
<1>7. ASSUME NEW i \in 1..N, NEW k \in 0..(n - 1)
      PROVE  \/ d[(i - 1) * n + k + 1] = WantOf(c, mm, i, k)
             \/ i >= a
  <2>1. Len(<<r>>) = 1
    OBVIOUS
  <2>2. \/ d[(i - 1) * n + k + 1] = WantOf(c, mm, i, k)
        \/ Unread(<<r>>, a, i, k)
    BY Zenon DEF ReadIs, r
  <2> QED
    BY <2>1, <2>2 DEF Unread
<1>8. ASSUME NEW i \in 1..N, NEW k \in 0..(n - 1)
      PROVE  \/ e[(i - 1) * n + k + 1] = WantOf(c, mm, i, k)
             \/ i >= a + 1
  <2>1. CASE i = a
    BY <1>6, <2>1
  <2>2. CASE i # a /\ i >= a
    BY <1>2, <2>2
  <2>3. CASE i # a /\ ~(i >= a)
    BY <1>6, <1>7, <2>3, Zenon
  <2> QED
    BY <2>1, <2>2, <2>3
<1>9. ASSUME NEW i \in 1..N, NEW k \in 0..(n - 1), i >= a + 1
      PROVE  Unread(<<r>>, a + 1, i, k)
  <2>1. k \in Pos(r)
    BY <1>1, <1>2 DEF Pos
  <2>2. 1 \in 1..Len(<<r>>) /\ <<r>>[1] = r
    OBVIOUS
  <2> QED
    BY <1>9, <2>1, <2>2 DEF Unread
<1>10. ASSUME a < N PROVE ReadIs(c, <<r>>, a + 1, e, "run", mm)
  BY <1>5, <1>8, <1>9, Zenon DEF ReadIs
<1>11. ASSUME a = N PROVE ReadIs(c, <<>>, 1, e, "ok", mm)
  <2>1. \A i \in 1..N : ~(i >= a + 1)
    BY <1>2, <1>11
  <2> QED
    BY <1>5, <1>8, <2>1, Zenon DEF ReadIs
<1> QED
  BY <1>3, <1>10, <1>11 DEF r, e

(* What a read has brought, whatever the others do. *)
Got(p) ==
  /\ made[p] = 0 => result[p] = "idle"
  /\ result[p] = "run" /\ call[p].op = "read" => AloneOrOne(call[p], work[p])
  /\ alone[p] /\ made[p] > 0 /\ call[p].op = "read" =>
       ReadIs(call[p], work[p], at[p], data[p], result[p], mem)

LEMMA StillGot ==
  ASSUME NEW q, Got(q), Still(q), alone'[q] = FALSE \/ (mem' = mem /\ alone'[q] = alone[q])
  PROVE  Got(q)'
<1>1. CASE alone'[q] = FALSE
  BY <1>1 DEF Got, Still
<1>2. CASE mem' = mem /\ alone'[q] = alone[q]
  BY <1>2 DEF Got, Still
<1> QED
  BY <1>1, <1>2

(* Calls that do not read. *)
LEMMA OtherGot ==
  ASSUME NEW p, Own(p), result[p] = "run", call[p].op # "read", call' = call, made' = made
  PROVE  Got(p)'
BY DEF Own, Got

LEMMA BeginGot ==
  ASSUME WellDescribed, ReadsOneCard, Shape, NEW p \in Procs, NEW c \in Calls, Begin(p, c),
         Own(p)
  PROVE  Got(p)'
<1> DEFINE w == IF c.op = "start" THEN <<Piece(c.param, FALSE, 0, 1, 0)>> ELSE Pieces(c)
           d == IF c.op = "write" /\ Desc[c.param].virtual
                THEN Manip(c.param, 0, c.count, FreshBuffer(p, c))
                ELSE FreshBuffer(p, c)
           res == IF w = <<>> THEN "ok" ELSE "run"
<1>1. /\ made'[p] = made[p] + 1 /\ call'[p] = c /\ work'[p] = w
      /\ data'[p] = Entered(c, w, d) /\ result'[p] = res /\ at'[p] = 1
      /\ mem' = mem
  BY DEF Begin, Shape
<1>2. made'[p] # 0
  BY <1>1 DEF Own
<1>3. ASSUME c.op = "read" PROVE AloneOrOne(c, w) /\ ReadIs(c, w, 1, data'[p], res, mem)
  <2> DEFINE e == FreshBuffer(p, c)
             n == c.count
             N == CardCount(c)
             clears == Desc[c.param].virtual \/ Desc[c.param].banked
  <2>1. w = Pieces(c) /\ data'[p] = e
    BY <1>1, <1>3 DEF Entered
  <2>2. Complete(c, w) /\ AloneOrOne(c, w)
    BY <1>3, <2>1, PiecesAre, PiecesAlone
  <2>3. e = [k \in 1..(N * n) |-> IF k <= n /\ clears THEN Zero ELSE Junk]
    BY <1>3 DEF FreshBuffer
  <2>4. DOMAIN e = 1..(N * n)
    BY <2>3
  <2> HIDE DEF w, e, res
  <2>5. ASSUME NEW i \in 1..N, NEW k \in 0..(n - 1)
        PROVE  \/ e[(i - 1) * n + k + 1] = WantOf(c, mem, i, k)
               \/ res # "ok" /\ (res = "run" => Unread(w, 1, i, k))
    <3>1. CASE CellsAt(c, k) = {}
      <4>1. Desc[c.param].virtual
        <5> SUFFICES ASSUME ~Desc[c.param].virtual PROVE FALSE
          OBVIOUS
        <5>1. CellsAt(c, k) = RealCells(c.param, c.start + k)
          BY DEF CellsAt
        <5>2. c.param \in Params
          BY CountIs
        <5>3. 1 \in DOMAIN Desc[c.param].cards
          BY <5>2, Described, CardSeq, EmptySeq
        <5> QED
          BY <3>1, <5>1, <5>3 DEF RealCells
      <4>2. N = 1 /\ n \in Nat
        BY <4>1, CountIs
      <4>3. (i - 1) * n + k + 1 = k + 1 /\ k + 1 \in 1..(N * n) /\ k + 1 <= n
        BY <4>2
      <4>4. e[k + 1] = Zero
        BY <2>3, <4>1, <4>3
      <4>5. WantOf(c, mem, i, k) = Zero
        BY <3>1 DEF WantOf
      <4> QED
        BY <4>3, <4>4, <4>5
    <3>2. CASE CellsAt(c, k) # {}
      <4>1. PICK j \in 1..Len(w) : k \in Pos(w[j])
        BY <2>2, <3>2 DEF Complete, Covers
      <4>2. i >= 1
        BY CountIs
      <4>3. Unread(w, 1, i, k)
        BY <4>1, <4>2 DEF Unread
      <4>4. w # <<>>
        <5>1. Len(<<>>) = 0
          OBVIOUS
        <5> QED
          BY <4>1, <5>1
      <4> QED
        BY <4>3, <4>4 DEF res
    <3> QED
      BY <3>1, <3>2
  <2>6. ReadIs(c, w, 1, e, res, mem)
    BY <2>4, <2>5, Zenon DEF ReadIs
  <2> QED
    BY <2>1, <2>2, <2>6
<1> HIDE DEF w, res
<1>4. call'[p].op = "read" =>
        /\ AloneOrOne(call'[p], work'[p])
        /\ ReadIs(call'[p], work'[p], at'[p], data'[p], result'[p], mem')
  BY <1>1, <1>3
<1> QED
  BY <1>2, <1>4 DEF Got

LEMMA TooLongGot ==
  ASSUME Shape, NEW p \in Procs, TooLong(p), Own(p), Got(p)
  PROVE  Got(p)'
<1>1. /\ result'[p] = "bounds" /\ result[p] = "run"
      /\ UNCHANGED <<mem, call, work, at, lead, data, tries, before, alone, made>>
  BY DEF TooLong, Shape
<1>2. alone[p] /\ made[p] > 0 /\ call[p].op = "read" =>
        ReadIs(call[p], work[p], at[p], data[p], "bounds", mem)
  BY <1>1, Zenon DEF Got, ReadIs
<1>3. made[p] # 0
  BY <1>1 DEF Own
<1> QED
  BY <1>1, <1>2, <1>3 DEF Got

(* A read whose command was answered. *)
LEMMA ReadOn ==
  ASSUME WellDescribed, NEW p, Own(p), Got(p), result[p] = "run", call[p].op = "read",
         AdvanceIs(p, ReadInto(mem, work[p][1], at[p], data[p])),
         alone[p], call'[p] = call[p]
  PROVE  ReadIs(call[p], work'[p], at'[p], data'[p], result'[p], mem)
<1> DEFINE c == call[p]
           w == work[p]
           a == at[p]
           r == w[1]
           cards == Desc[r.param].cards
           d == data[p]
           e == ReadInto(mem, r, a, d)
           t == Tail(w)
<1>1. /\ c \in Calls /\ PlanIs(c, w, a) /\ AloneOrOne(c, w)
      /\ ReadIs(c, w, a, d, "run", mem) /\ c.op = "read"
  BY DEF Own, Got, Moves
<1>2. /\ w \in Seq(PieceSet) /\ w # <<>> /\ Here(p) = r /\ r.param \in Params
      /\ Planned(c, w) /\ 1 \in 1..Len(w)
  BY <1>1, FirstPiece DEF PlanIs, Here, PieceSet
<1>3. a \in 1..Len(cards) /\ Len(cards) \in Nat
  BY <1>1, <1>2, CardSeq DEF PlanIs
<1>4. /\ a < Len(cards) =>
           at'[p] = a + 1 /\ data'[p] = e /\ work'[p] = w /\ result'[p] = "run"
      /\ ~(a < Len(cards)) =>
           at'[p] = 1 /\ data'[p] = Left(c, r, e) /\ work'[p] = t /\ result'[p] = AfterAll(w)
  <2>1. \A u, v : Entered(c, u, v) = v
    BY <1>1 DEF Entered
  <2> QED
    BY <1>2, <2>1 DEF AdvanceIs, AfterAll
<1> HIDE DEF e, t
<1>5. CASE Len(cards) = 1
  <2>1. a = 1 /\ ~(a < Len(cards))
    BY <1>3, <1>5
  <2>2. ReadIs(c, t, 1, Left(c, r, ReadInto(mem, r, 1, d)), AfterAll(w), mem)
    BY <1>1, <1>2, <1>5, <2>1, ReadOne DEF t
  <2> QED
    BY <1>4, <2>1, <2>2 DEF e
<1>6. CASE Len(cards) # 1
  <2>1. w = <<Whole(c)>> /\ ~Desc[c.param].virtual /\ ~Desc[c.param].manip
    BY <1>1, <1>2, <1>6 DEF AloneOrOne
  <2>2. r = Whole(c) /\ r.param = c.param /\ t = <<>> /\ Len(w) = 1
    <3>1. <<Whole(c)>>[1] = Whole(c) /\ Tail(<<Whole(c)>>) = <<>> /\ Len(<<Whole(c)>>) = 1
      OBVIOUS
    <3> QED
      BY <2>1, <3>1 DEF t, Whole, Piece
  <2>3. CardCount(c) = Len(cards) /\ a \in 1..CardCount(c)
    BY <1>1, <1>3, <2>1, <2>2, CountIs
  <2>4. Desc[c.param].cards # <<>>
    BY <1>2, <2>1, <2>2, Described
  <2>5. ReadIs(c, <<Whole(c)>>, a, d, "run", mem)
    BY <1>1, <2>1
  <2> DEFINE f == ReadInto(mem, Whole(c), a, d)
  <2>6. /\ Left(c, Whole(c), f) = f
        /\ a < CardCount(c) => ReadIs(c, <<Whole(c)>>, a + 1, f, "run", mem)
        /\ a = CardCount(c) => ReadIs(c, <<>>, 1, f, "ok", mem)
    <3> HIDE DEF c, a, d
    <3> QED
      BY <1>1, <2>1, <2>3, <2>4, <2>5, ReadCard
  <2> HIDE DEF f
  <2>7. e = f
    BY <2>2 DEF e, f
  <2>8. CASE a < Len(cards)
    BY <1>4, <2>1, <2>3, <2>6, <2>7, <2>8
  <2>9. CASE ~(a < Len(cards))
    <3>1. a = CardCount(c)
      BY <1>3, <2>3, <2>9
    <3>2. AfterAll(w) = "ok"
      BY <2>2 DEF AfterAll
    <3> QED
      BY <1>4, <2>2, <2>6, <2>7, <2>9, <3>1, <3>2
  <2> QED
    BY <2>8, <2>9
<1> QED
  BY <1>5, <1>6

LEMMA ReadBlockGot ==
  ASSUME WellDescribed, Shape, NEW p \in Procs, NEW o \in Outcomes, ReadBlock(p, o),
         Own(p), Got(p)
  PROVE  Got(p)'
<1>1. /\ result[p] = "run" /\ call[p].op = "read" /\ made[p] > 0 /\ made[p] \in Nat
      /\ mem' = mem /\ call' = call /\ before' = before /\ alone' = alone /\ made' = made
  BY DEF ReadBlock, Running, Own
<1>2. made'[p] # 0
  BY <1>1
<1>3. CASE \/ /\ Retried(o[1], tries[p])
              /\ UNCHANGED <<result, work, at, lead, data>>
           \/ /\ ~GoesOn(o[1])
              /\ result' = [result EXCEPT ![p] = o[1]]
              /\ UNCHANGED <<work, at, lead, data>>
  <2>1. EndsOtherwise(p, o)
    BY <1>1, <1>3, OtherwiseStep DEF Shape
  <2>2. CASE result'[p] = result[p]
    BY <1>1, <1>2, <2>1, <2>2 DEF Got, EndsOtherwise
  <2>3. CASE result'[p] \notin {"run", "ok"}
    <3>1. alone[p] /\ made[p] > 0 /\ call[p].op = "read" =>
            ReadIs(call[p], work[p], at[p], data[p], result'[p], mem)
      BY <2>3, Zenon DEF Got, ReadIs
    <3> QED
      BY <1>1, <1>2, <2>1, <2>3, <3>1 DEF Got, EndsOtherwise
  <2> QED
    BY <2>1, <2>2, <2>3 DEF EndsOtherwise
<1>4. CASE Advance(p, ReadInto(mem, work[p][1], at[p], data[p]))
  <2>1. AdvanceIs(p, ReadInto(mem, work[p][1], at[p], data[p]))
    BY <1>1, <1>4, AdvanceStep DEF Shape
  <2>2. alone[p] => ReadIs(call[p], work'[p], at'[p], data'[p], result'[p], mem)
    BY <1>1, <2>1, ReadOn
  <2>3. result'[p] = "run" => AloneOrOne(call[p], work'[p])
    <3> DEFINE w == work[p]
    <3>1. /\ AloneOrOne(call[p], w) /\ w \in Seq(PieceSet) /\ w # <<>>
      BY <1>1 DEF Got, Own, Moves, PlanIs, Planned
    <3>2. CASE work'[p] = w
      BY <3>1, <3>2
    <3>3. CASE work'[p] = Tail(w) /\ result'[p] = IF Len(w) = 1 THEN "ok" ELSE result[p]
      <4> SUFFICES ASSUME result'[p] = "run", NEW i \in 1..Len(Tail(w))
                   PROVE  Len(Desc[Tail(w)[i].param].cards) = 1
        BY <3>3 DEF AloneOrOne
      <4>1. Tail(w)[i] = w[i + 1] /\ i + 1 \in 1..Len(w) /\ Len(w) # 1
        BY <3>1, <3>3, TailIs
      <4>2. w # <<Whole(call[p])>>
        BY <4>1
      <4> QED
        BY <3>1, <4>1, <4>2 DEF AloneOrOne
    <3> QED
      BY <2>1, <3>2, <3>3 DEF AdvanceIs
  <2> QED
    BY <1>1, <1>2, <2>2, <2>3 DEF Got
<1>5. ASSUME o[1] = "ok" PROVE
        Advance(p, LET r == Here(p)
                       first == r.off + (at[p] - 1) * r.count
                   IN  [k \in DOMAIN data[p] |->
                          IF k - first \in 1..r.count
                          THEN WordAt(Card(p), r, r.start + k - first - 1)
                          ELSE data[p][k]])
        => Advance(p, ReadInto(mem, work[p][1], at[p], data[p]))
  <2>1. Here(p) = work[p][1]
    BY <1>1, FirstPiece DEF Own, Moves, Here
  <2>2. (LET r == Here(p)
             first == r.off + (at[p] - 1) * r.count
         IN  [k \in DOMAIN data[p] |->
                IF k - first \in 1..r.count
                THEN WordAt(Card(p), r, r.start + k - first - 1)
                ELSE data[p][k]])
        = ReadInto(mem, Here(p), at[p], data[p])
    BY Zenon DEF ReadInto, WordAt, Card
  <2> QED
    BY <2>1, <2>2, Zenon
<1> QED
  BY <1>3, <1>4, <1>5 DEF ReadBlock, Send, GoesOn

-----------------------------------------------------------------------------
ReadInv == CallInv /\ \A p \in Procs : Got(p)

LEMMA NextRead ==
  ASSUME WellDescribed, ReadsOneCard PROVE ReadInv /\ [Next]_vars => ReadInv'
<1> SUFFICES ASSUME ReadInv, [Next]_vars PROVE ReadInv'
  OBVIOUS
<1>1. CallInv /\ Shape /\ (\A q \in Procs : Own(q)) /\ (\A q \in Procs : Got(q))
  BY DEF ReadInv, CallInv
<1>2. CallInv'
  BY <1>1, NextCall
<1>3. ASSUME NEW p \in Procs, StepOf(p), Got(p)' PROVE ReadInv'
  <2>1. ASSUME NEW q \in Procs PROVE Got(q)'
    <3>1. CASE q = p
      BY <1>3, <3>1
    <3>2. CASE q # p
      BY <1>1, <1>3, <3>2, StillGot DEF StepOf
    <3> QED
      BY <3>1, <3>2
  <2> QED
    BY <1>2, <2>1 DEF ReadInv
<1>4. ASSUME NEW p \in Procs, NEW c \in Calls, Begin(p, c) PROVE ReadInv'
  BY <1>1, <1>3, <1>4, BeginOwn, BeginGot
<1>5. ASSUME NEW p \in Procs, TooLong(p) PROVE ReadInv'
  BY <1>1, <1>3, <1>5, TooLongOwn, TooLongGot
<1>6. ASSUME NEW p \in Procs, NEW o \in Outcomes, ReadLead(p, o) PROVE ReadInv'
  <2>1. result[p] = "run" /\ call[p].op # "read" /\ call' = call /\ made' = made
    BY <1>6 DEF ReadLead, Running
  <2> QED
    BY <1>1, <1>3, <1>6, <2>1, ReadLeadOwn, OtherGot
<1>7. ASSUME NEW p \in Procs, NEW o \in Outcomes, WriteBlock(p, o) PROVE ReadInv'
  <2>1. result[p] = "run" /\ call[p].op # "read" /\ call' = call /\ made' = made
    BY <1>7 DEF WriteBlock, Running
  <2> QED
    BY <1>1, <1>3, <1>7, <2>1, WriteBlockOwn, OtherGot
<1>8. ASSUME NEW p \in Procs, NEW o \in Outcomes, ReadBlock(p, o) PROVE ReadInv'
  BY <1>1, <1>3, <1>8, ReadBlockOwn, ReadBlockGot
<1>9. ASSUME NEW p \in Procs, NEW o \in Outcomes, StartCard(p, o) PROVE ReadInv'
  <2>1. result[p] = "run" /\ call[p].op # "read" /\ call' = call /\ made' = made
    BY <1>9 DEF StartCard, Running
  <2> QED
    BY <1>1, <1>3, <1>9, <2>1, StartCardOwn, OtherGot
<1>10. CASE UNCHANGED vars
  <2>1. \A q \in Procs : Still(q) /\ mem' = mem /\ alone'[q] = alone[q]
    BY <1>1, <1>10 DEF vars, Shape, Still
  <2>2. \A q \in Procs : Got(q)'
    BY <1>1, <2>1, StillGot
  <2> QED
    BY <1>2, <2>2 DEF ReadInv
<1> QED
  BY <1>4, <1>5, <1>6, <1>7, <1>8, <1>9, <1>10 DEF Next

LEMMA InitRead == Init => ReadInv
<1> SUFFICES ASSUME Init PROVE ReadInv
  OBVIOUS
<1>1. ASSUME NEW p \in Procs PROVE Got(p)
  <2>1. made[p] = 0 /\ result[p] = "idle"
    BY DEF Init
  <2>2. ~(made[p] > 0) /\ result[p] # "run"
    BY <2>1
  <2> QED
    BY <2>1, <2>2, Zenon DEF Got
<1> QED
  BY <1>1, InitCall DEF ReadInv

(* A read that returns 0 has brought every word of its range to its place  *)
(* in the caller's buffer, manipulated where the parameter is, and has     *)
(* left zeros where a virtual parameter maps to nothing.                   *)
THEOREM ReadsAreExact ==
  ASSUME WellDescribed, ReadsOneCard PROVE Spec => []ReadExact
<1>1. ReadInv => ReadExact
  <2> SUFFICES ASSUME ReadInv, NEW p \in Procs, alone[p], call[p].op = "read",
                      result[p] = "ok",
                      NEW i \in 1..CardCount(call[p]), NEW k \in 0..(call[p].count - 1)
               PROVE  data[p][(i - 1) * call[p].count + k + 1] = WantOf(call[p], mem, i, k)
    BY Zenon DEF ReadExact, WantOf
  <2>1. made[p] \in Nat /\ made[p] # 0
    BY DEF ReadInv, CallInv, Own, Got
  <2>2. ReadIs(call[p], work[p], at[p], data[p], "ok", mem)
    BY <2>1 DEF ReadInv, Got
  <2> QED
    BY <2>2, Zenon DEF ReadIs
<1>2. ReadInv /\ [Next]_vars => ReadInv'
  BY NextRead
<1>3. Spec => []ReadInv
  BY <1>2, InitRead, PTL DEF Spec
<1> QED
  BY <1>1, <1>3, PTL

-----------------------------------------------------------------------------
(* No word of a call is in the memory before the call.                     *)

(* The words of a process in mm are of calls that it has made. *)
Fresh(mm, mf) ==
  \A x \in Cells, q \in Procs : mm[x].of = q => mm[x].call \in 0..mf[q]

FreshOf(p) ==
  /\ made[p] > 0 =>
       \A x \in Cells : before[p][x].of = p => before[p][x].call \in 0..(made[p] - 1)
  /\ result[p] = "run" /\ call[p].op = "write" /\ lead[p] # <<>> =>
       \E mm : /\ Fresh(mm, made)
               /\ lead[p] = Stored(mm, Desc[work[p][1].param].cards[at[p]], work[p][1])

FreshInv == Fresh(mem, made) /\ \A p \in Procs : FreshOf(p)

(* Calls are counted up. *)
Counted == \A p \in Procs : made[p] \in Nat /\ made'[p] \in Nat /\ made[p] <= made'[p]

LEMMA FreshStays ==
  ASSUME NEW mm, Fresh(mm, made), Counted
  PROVE  Fresh(mm, made')
<1> SUFFICES ASSUME NEW x \in Cells, NEW q \in Procs, mm[x].of = q
             PROVE  mm[x].call \in 0..made'[q]
  BY DEF Fresh
<1>1. mm[x].call \in 0..made[q]
  BY DEF Fresh
<1> QED
  BY <1>1 DEF Counted

LEMMA StillFresh ==
  ASSUME NEW q \in Procs, FreshOf(q), Still(q), Counted
  PROVE  FreshOf(q)'
<1>1. made'[q] > 0 =>
        \A x \in Cells : before'[q][x].of = q => before'[q][x].call \in 0..(made'[q] - 1)
  BY DEF FreshOf, Still
<1>2. ASSUME result'[q] = "run" /\ call'[q].op = "write" /\ lead'[q] # <<>>
      PROVE  \E mm : /\ Fresh(mm, made')
                     /\ lead'[q] = Stored(mm, Desc[work'[q][1].param].cards[at'[q]], work'[q][1])
  <2>1. PICK mm : /\ Fresh(mm, made)
                  /\ lead[q] = Stored(mm, Desc[work[q][1].param].cards[at[q]], work[q][1])
    BY <1>2 DEF FreshOf, Still
  <2>2. Fresh(mm, made')
    BY <2>1, FreshStays
  <2> QED
    BY <2>1, <2>2 DEF Still
<1> QED
  BY <1>1, <1>2 DEF FreshOf

LEMMA SentOf ==
  ASSUME NEW p, NEW m, NEW k, NEW manip
  PROVE  Sent(p, m, k, manip).of = p /\ Sent(p, m, k, manip).call = m
BY DEF Sent, Word, Flip

LEMMA GivenOfIs ==
  ASSUME NEW p, NEW c, NEW m, NEW x
  PROVE  GivenOf(p, c, m, x).of = p /\ GivenOf(p, c, m, x).call = m
<1> DEFINE k == CHOOSE k \in 0..(c.count - 1) : x \in CellsAt(c, k)
<1>1. GivenOf(p, c, m, x) = Sent(p, m, k, Desc[x.param].manip)
  BY Zenon DEF GivenOf, Sent
<1> HIDE DEF k
<1> QED
  BY <1>1, SentOf

(* The words of a command are of calls that were made. *)
LEMMA Shifted ==
  ASSUME NEW s \in Nat, NEW n \in Nat, NEW o \in Nat, NEW j \in Int, j >= s, j <= s + n - 1
  PROVE  o + (j - s) \in o..(o + n - 1)
OBVIOUS

LEMMA BlockFresh ==
  ASSUME NEW c \in Calls, NEW p \in Procs, NEW mf, mf[p] \in Nat, NEW w, NEW a, NEW d, NEW l,
         NEW mm, NEW mo, PlanIs(c, w, a), BufferIs(p, c, mf[p], w, d),
         LeadFrom(w, a, l, mo), w[1].start = 0 \/ l # <<>>,
         Fresh(mm, mf), Fresh(mo, mf)
  PROVE  Fresh(WithBlock(mm, Desc[w[1].param].cards[a], w[1], BlockOf(l, w[1], d)), mf)
<1> DEFINE r == w[1]
           card == Desc[r.param].cards[a]
           blk == BlockOf(l, r, d)
           nn == WithBlock(mm, card, r, blk)
           m == mf[p]
<1>1. /\ r \in PieceSet /\ 1 \in 1..Len(w)
      /\ r.start \in Nat /\ r.count \in Nat /\ r.off \in Nat /\ r.param \in Params
  BY FirstPiece DEF PieceSet
<1>2. BlockHas(l, r, d, card, mo)
  <2>1. LeadFits(l, r, card, mo)
    BY DEF LeadFits, LeadFrom
  <2> HIDE DEF r, card
  <2> QED
    BY <1>1, <2>1, BlockIs
<1>3. /\ Len(blk) = r.start + r.count
      /\ \A i \in 0..(r.start + r.count - 1) :
           blk[i + 1] = IF i < r.start THEN mo[Cell(card, r.param, Base(r) + i)]
                        ELSE d[r.off + (i - r.start) + 1]
  BY <1>2, Zenon DEF BlockHas
<1> HIDE DEF blk
<1>4. ASSUME NEW x \in Cells
      PROVE  \/ nn[x] = mm[x]
             \/ nn[x] = mo[x]
             \/ nn[x].of = p /\ nn[x].call = m
  <2> DEFINE j == x.index - Base(r)
  <2>1. x.index \in Nat /\ x = Cell(x.card, x.param, x.index) /\ Base(r) \in Nat
    BY CellIs, Constants DEF Base
  <2>2. nn[x] = IF /\ x.card = card /\ x.param = r.param
                   /\ j \in 0..(Len(blk) - 1)
                THEN blk[j + 1] ELSE mm[x]
    BY Zenon DEF WithBlock
  <2> HIDE DEF nn
  <2>3. CASE x.card = card /\ x.param = r.param /\ j \in 0..(Len(blk) - 1)
    <3>1. nn[x] = blk[j + 1]
      BY <2>2, <2>3, Zenon
    <3>2. j \in 0..(r.start + r.count - 1)
      <4>1. Len(blk) = r.start + r.count
        BY <1>3
      <4> HIDE DEF j
      <4> QED
        BY <1>1, <2>3, <4>1
    <3>3. CASE j < r.start
      <4>1. blk[j + 1] = mo[Cell(card, r.param, Base(r) + j)]
        BY <1>3, <3>2, <3>3, Zenon
      <4>2. Base(r) + j = x.index
        BY <2>1
      <4> QED
        BY <2>1, <2>3, <3>1, <4>1, <4>2
    <3>4. CASE ~(j < r.start)
      <4> DEFINE k == r.off + (j - r.start)
      <4>1. blk[j + 1] = d[k + 1]
        BY <1>3, <3>2, <3>4, Zenon
      <4>2. k \in Pos(r)
        <5>1. r.start \in Nat /\ r.count \in Nat /\ r.off \in Nat
          BY <1>1
        <5> HIDE DEF r, j
        <5>2. j \in Int /\ j >= r.start /\ j <= r.start + r.count - 1
          BY <3>2, <3>4, <5>1
        <5>3. k \in r.off..(r.off + r.count - 1)
          BY <5>1, <5>2, Shifted
        <5> QED
          BY <5>3, Zenon DEF Pos
      <4> HIDE DEF k
      <4>3. d[k + 1] = Sent(p, m, k, 1 = 1 /\ Desc[r.param].manip)
        BY <1>1, <4>2, Zenon DEF BufferIs
      <4>4. nn[x] = Sent(p, m, k, 1 = 1 /\ Desc[r.param].manip)
        BY <3>1, <4>1, <4>3, Zenon
      <4>5. PICK manip : nn[x] = Sent(p, m, k, manip)
        BY <4>4, Zenon
      <4>6. nn[x].of = p /\ nn[x].call = m
        BY <4>5, SentOf
      <4> QED
        BY <4>6
    <3> QED
      BY <3>3, <3>4
  <2>4. CASE ~(x.card = card /\ x.param = r.param /\ j \in 0..(Len(blk) - 1))
    BY <2>2, <2>4, Zenon
  <2> QED
    BY <2>3, <2>4
<1> HIDE DEF nn
<1>5. ASSUME NEW x \in Cells, NEW q \in Procs, nn[x].of = q
      PROVE  nn[x].call \in 0..mf[q]
  <2>1. CASE nn[x] = mm[x]
    BY <1>5, <2>1 DEF Fresh
  <2>2. CASE nn[x] = mo[x]
    BY <1>5, <2>2 DEF Fresh
  <2>3. CASE nn[x].of = p /\ nn[x].call = m
    BY <1>5, <2>3
  <2> QED
    BY <1>4, <2>1, <2>2, <2>3
<1> QED
  BY <1>5 DEF Fresh, nn, blk

-----------------------------------------------------------------------------
LEMMA FreshStep ==
  ASSUME Shape, CallInv, NEW p \in Procs, StepOf(p), Counted, FreshInv,
         Fresh(mem', made'), FreshOf(p)'
  PROVE  FreshInv'
<1>1. ASSUME NEW q \in Procs PROVE FreshOf(q)'
  <2>1. CASE q = p
    BY <2>1
  <2>2. CASE q # p
    BY <2>2, StillFresh DEF StepOf, FreshInv
  <2> QED
    BY <2>1, <2>2
<1> QED
  BY <1>1 DEF FreshInv

LEMMA CountStays ==
  ASSUME CallInv, made' = made
  PROVE  Counted
BY DEF CallInv, Own, Counted

LEMMA BeginFresh ==
  ASSUME CallInv, NEW p \in Procs, NEW c \in Calls, Begin(p, c), FreshInv
  PROVE  Counted /\ Fresh(mem', made') /\ FreshOf(p)'
<1>1. /\ made' = [made EXCEPT ![p] = made[p] + 1] /\ lead'[p] = <<>> /\ before'[p] = mem
      /\ mem' = mem /\ DOMAIN made = Procs
  BY DEF Begin, CallInv, Shape
<1>2. Counted
  BY <1>1 DEF CallInv, Own, Counted
<1>3. Fresh(mem', made')
  BY <1>1, <1>2, FreshStays DEF FreshInv
<1>4. made'[p] - 1 = made[p]
  BY <1>1 DEF CallInv, Own
<1>5. \A x \in Cells : mem[x].of = p => mem[x].call \in 0..made[p]
  BY DEF FreshInv, Fresh
<1>6. FreshOf(p)'
  BY <1>1, <1>4, <1>5 DEF FreshOf
<1> QED
  BY <1>2, <1>3, <1>6

(* A step in which p writes nothing and keeps its lead or drops it. *)
LEMMA SameFresh ==
  ASSUME CallInv, NEW p \in Procs, FreshInv, mem' = mem, made' = made,
         before' = before, call' = call, result[p] = "run",
         \/ lead'[p] = <<>>
         \/ result'[p] # "run"
         \/ lead'[p] = lead[p] /\ work'[p] = work[p] /\ at'[p] = at[p]
  PROVE  Counted /\ Fresh(mem', made') /\ FreshOf(p)'
BY CountStays DEF FreshInv, FreshOf

LEMMA ReadLeadFresh ==
  ASSUME CallInv, NEW p \in Procs, NEW o \in Outcomes, ReadLead(p, o), FreshInv
  PROVE  Counted /\ Fresh(mem', made') /\ FreshOf(p)'
<1>0. Shape /\ Own(p)
  BY DEF CallInv
<1>1. /\ result[p] = "run" /\ call[p].op = "write"
      /\ mem' = mem /\ call' = call /\ before' = before /\ alone' = alone /\ made' = made
  BY DEF ReadLead, Running
<1>2. CASE \/ /\ Retried(o[1], tries[p])
              /\ UNCHANGED <<result, work, at, lead, data>>
           \/ /\ ~GoesOn(o[1])
              /\ result' = [result EXCEPT ![p] = o[1]]
              /\ UNCHANGED <<work, at, lead, data>>
  BY <1>1, <1>2, SameFresh
<1>3. CASE /\ lead' = [lead EXCEPT ![p] = LeadStored(Card(p), Here(p))]
           /\ UNCHANGED <<result, work, at, data>>
  <2>1. PlanIs(call[p], work[p], at[p])
    BY <1>0, <1>1 DEF Own, Moves
  <2>2. Here(p) = work[p][1] /\ Card(p) = Desc[work[p][1].param].cards[at[p]]
    BY <2>1, FirstPiece DEF Here, Card
  <2>3. LeadStored(Card(p), Here(p)) = Stored(mem, Card(p), Here(p))
    BY Zenon DEF LeadStored, WordAt, Stored
  <2>4. lead'[p] = Stored(mem, Desc[work'[p][1].param].cards[at'[p]], work'[p][1])
    BY <1>0, <1>3, <2>2, <2>3 DEF Shape
  <2>5. Counted /\ Fresh(mem, made') /\ Fresh(mem', made')
    BY <1>1, CountStays DEF FreshInv
  <2>6. FreshOf(p)'
    BY <1>1, <2>4, <2>5 DEF FreshInv, FreshOf
  <2> QED
    BY <2>5, <2>6
<1> QED
  BY <1>2, <1>3 DEF ReadLead, Send

(* The memory after the command of a write. *)
AfterBlock(p) ==
  WithBlock(mem, Desc[work[p][1].param].cards[at[p]], work[p][1],
            BlockOf(lead[p], work[p][1], data[p]))

LEMMA BlockSent ==
  ASSUME NEW p, NEW o, WriteBlock(p, o), Own(p)
  PROVE  /\ work[p][1].start = 0 \/ lead[p] # <<>>
         /\ mem' = IF ~o[2] THEN mem ELSE AfterBlock(p)
<1>1. PlanIs(call[p], work[p], at[p])
  BY DEF WriteBlock, Running, Own, Moves
<1>2. Here(p) = work[p][1] /\ Card(p) = Desc[work[p][1].param].cards[at[p]]
  BY <1>1, FirstPiece DEF Here, Card
<1>3. work[p][1].start = 0 \/ lead[p] # <<>>
  BY <1>2 DEF WriteBlock, NeedsLead
<1>4. Block(p) = BlockOf(lead[p], Here(p), data[p])
  BY Zenon DEF Block, BlockOf
<1>5. mem' = IF ~o[2] THEN mem ELSE WithBlock(mem, Card(p), Here(p), Block(p))
  BY Zenon DEF WriteBlock, WithBlock
<1> QED
  BY <1>2, <1>3, <1>4, <1>5 DEF AfterBlock

LEMMA WriteBlockFresh ==
  ASSUME CallInv, NEW p \in Procs, NEW o \in Outcomes, WriteBlock(p, o), FreshInv
  PROVE  Counted /\ Fresh(mem', made') /\ FreshOf(p)'
<1> DEFINE c == call[p]
           w == work[p]
<1>0. Shape /\ Own(p) /\ FreshOf(p) /\ Fresh(mem, made)
  BY DEF CallInv, FreshInv
<1>1. /\ result[p] = "run" /\ c.op = "write" /\ c \in Calls /\ made[p] \in Nat
      /\ call' = call /\ before' = before /\ made' = made
      /\ PlanIs(c, w, at[p]) /\ BufferIs(p, c, made[p], w, data[p])
  BY <1>0 DEF WriteBlock, Running, Moves, Own
<1>2. /\ w[1].start = 0 \/ lead[p] # <<>>
      /\ mem' = IF ~o[2] THEN mem ELSE AfterBlock(p)
  BY <1>0, BlockSent
<1>3. Fresh(AfterBlock(p), made)
  <2>1. PICK mo : Fresh(mo, made) /\ LeadFrom(w, at[p], lead[p], mo)
    <3>1. CASE lead[p] = <<>>
      BY <1>0, <3>1 DEF LeadFrom
    <3>2. CASE lead[p] # <<>>
      BY <1>0, <1>1, <3>2 DEF FreshOf, LeadFrom
    <3> QED
      BY <3>1, <3>2
  <2> QED
    BY <1>0, <1>1, <1>2, <2>1, BlockFresh DEF AfterBlock
<1>4. Fresh(mem', made') /\ Counted
  BY <1>0, <1>1, <1>2, <1>3, CountStays
<1>5. \/ lead'[p] = <<>>
      \/ result'[p] # "run"
      \/ lead'[p] = lead[p] /\ work'[p] = work[p] /\ at'[p] = at[p]
  <2>1. CASE \/ /\ Retried(o[1], tries[p])
                /\ UNCHANGED <<result, work, at, lead, data>>
             \/ /\ ~GoesOn(o[1])
                /\ result' = [result EXCEPT ![p] = o[1]]
                /\ UNCHANGED <<work, at, lead, data>>
    BY <2>1
  <2>2. CASE Advance(p, data[p])
    BY <1>0, <2>2 DEF Advance, Shape
  <2> QED
    BY <2>1, <2>2 DEF WriteBlock, Send
<1>6. FreshOf(p)'
  BY <1>0, <1>1, <1>5 DEF FreshOf
<1> QED
  BY <1>4, <1>6

LEMMA OtherFresh ==
  ASSUME CallInv, NEW p \in Procs, NEW o \in Outcomes,
         TooLong(p) \/ ReadBlock(p, o) \/ StartCard(p, o), FreshInv
  PROVE  Counted /\ Fresh(mem', made') /\ FreshOf(p)'
<1>1. Shape /\ FreshOf(p) /\ Fresh(mem, made)
  BY DEF CallInv, FreshInv
<1>2. made' = made /\ mem' = mem /\ before' = before /\ call' = call
  BY DEF TooLong, ReadBlock, StartCard
<1>3. Counted
  BY <1>2, CountStays
<1>4. CASE TooLong(p)
  <2>1. result'[p] = "bounds"
    BY <1>1, <1>4 DEF TooLong, Shape
  <2> QED
    BY <1>1, <1>2, <1>3, <2>1 DEF FreshOf
<1>5. CASE ReadBlock(p, o) \/ StartCard(p, o)
  <2>1. call[p].op # "write"
    BY <1>5 DEF ReadBlock, StartCard, Running
  <2> QED
    BY <1>1, <1>2, <1>3, <2>1 DEF FreshOf
<1> QED
  BY <1>4, <1>5

-----------------------------------------------------------------------------
(* The cards in order.                                                     *)

RowCell(c, n, k) == Cell(Desc[c.param].cards[n], c.param, c.start + k)

(* A write to several cards. *)
Several(c) == c.op = "write" /\ ~Desc[c.param].virtual /\ CardCount(c) > 1

OrderIs(p, c, m, w, a, res, mm, b) ==
  /\ a \in Nat
  /\ res = "run" => w = <<Whole(c)>>
  /\ res # "ok" =>
       \A n \in 1..CardCount(c), k \in 0..(c.count - 1) :
         /\ n < a => mm[RowCell(c, n, k)] = GivenOf(p, c, m, RowCell(c, n, k))
         /\ n > a => mm[RowCell(c, n, k)] = b[RowCell(c, n, k)]

OrderOf(p) ==
  alone[p] /\ made[p] > 0 /\ Several(call[p]) =>
    OrderIs(p, call[p], made[p], work[p], at[p], result[p], mem, before[p])

LEMMA RowCellIn ==
  ASSUME WritesByCard, NEW c \in Calls, Several(c), NEW n \in 1..CardCount(c),
         NEW k \in 0..(c.count - 1)
  PROVE  RowCell(c, n, k) \in Cells /\ RowCell(c, n, k) \in CellsAt(c, k)
<1>1. /\ c.param \in Params /\ c.start \in Nat /\ c.count \in Nat
      /\ CardCount(c) = Len(Desc[c.param].cards) /\ k \in Nat
  BY CountIs DEF Several
<1>2. c.start + c.count <= Size
  BY <1>1 DEF WritesByCard, Several
<1>3. c.start + k \in 0..(Size - 1)
  BY <1>1, <1>2, Constants
<1>4. n \in DOMAIN Desc[c.param].cards
  BY <1>1, CardSeq
<1>5. RowCell(c, n, k) \in RealCells(c.param, c.start + k)
  BY <1>4 DEF RowCell, RealCells
<1> QED
  BY <1>1, <1>3, <1>5 DEF Cells, CellsAt, Several

LEMMA SeveralWhole ==
  ASSUME WritesByCard, NEW c \in Calls, Several(c)
  PROVE  Pieces(c) = <<Whole(c)>>
<1>1. c.param \in Params /\ CardCount(c) = Len(Desc[c.param].cards)
  BY CountIs DEF Several
<1>2. ~Desc[c.param].banked
  <2>1. c.op = "write" /\ ~Desc[c.param].virtual /\ CardCount(c) > 1
    BY Zenon DEF Several
  <2>2. Len(Desc[c.param].cards) > 1
    BY <1>1, <2>1
  <2> QED
    BY <2>1, <2>2, Zenon DEF WritesByCard
<1> QED
  BY <1>2 DEF Several, Pieces, RealPieces, Whole

(* A command of a write to several cards changes one of them. *)
Ready(p, c, m, a, d, l, mm) ==
  /\ PlanIs(c, <<Whole(c)>>, a) /\ BufferIs(p, c, m, <<Whole(c)>>, d)
  /\ LeadIs(<<Whole(c)>>, a, l, mm) /\ (Whole(c).start = 0 \/ l # <<>>)

RowAfter(p, c, m, a, d, l, mm, n, k) ==
  WithBlock(mm, Desc[c.param].cards[a], Whole(c), BlockOf(l, Whole(c), d))[RowCell(c, n, k)]
    = IF n = a THEN GivenOf(p, c, m, RowCell(c, n, k)) ELSE mm[RowCell(c, n, k)]

LEMMA RowWrites ==
  ASSUME WellDescribed, WritesByCard, NEW c \in Calls, Several(c), NEW p, NEW m,
         NEW a \in 1..CardCount(c), NEW d, NEW l, NEW mm, Ready(p, c, m, a, d, l, mm),
         NEW n \in 1..CardCount(c), NEW k \in 0..(c.count - 1)
  PROVE  RowAfter(p, c, m, a, d, l, mm, n, k)
<1> DEFINE x == RowCell(c, n, k)
           r == Whole(c)
           w == <<r>>
           blk == BlockOf(l, r, d)
           nn == WithBlock(mm, Desc[c.param].cards[a], r, blk)
<1>1. /\ c.param \in Params /\ c.start \in Nat /\ c.count \in Nat
      /\ CardCount(c) = Len(Desc[c.param].cards) /\ k \in Nat
  BY CountIs DEF Several
<1>2. /\ w[1] = r /\ r.param = c.param /\ r.off = 0 /\ r.count = c.count
      /\ r.start = c.start /\ Base(r) = 0
  BY DEF Whole, Piece, Base
<1>3. x \in Cells
  BY RowCellIn
<1>4. x.card = Desc[c.param].cards[n]
  BY DEF RowCell, Cell
<1> HIDE DEF x, r
<1>5. CASE n = a
  <2>1. WritesFirst(p, c, m, w, a, mm, nn)
    <3>1. WritesFirst(p, c, m, w, a, mm,
                      WithBlock(mm, Desc[w[1].param].cards[a], w[1], BlockOf(l, w[1], d)))
      <4>1. PlanIs(c, w, a) /\ BufferIs(p, c, m, w, d) /\ LeadIs(w, a, l, mm)
            /\ (w[1].start = 0 \/ l # <<>>)
        BY <1>2 DEF r, Ready
      <4> HIDE DEF w
      <4> QED
        BY <4>1, BlockWrites
    <3> QED
      BY <1>2, <3>1
  <2>2. k \in Pos(w[1])
    BY <1>1, <1>2 DEF Pos
  <2>3. PieceCell(w[1], a, k) = x
    <3>1. IndexOf(r, k) = c.start + k
      BY <1>1, <1>2 DEF IndexOf
    <3> QED
      BY <1>2, <1>5, <3>1 DEF PieceCell, RowCell, x
  <2> HIDE DEF nn, w
  <2>4. nn[x] = GivenOf(p, c, m, x)
    BY <1>3, <2>1, <2>2, <2>3, Zenon DEF WritesFirst
  <2> QED
    BY <1>5, <2>4 DEF nn, x, r, RowAfter
<1>6. CASE n # a
  <2>1. Desc[c.param].cards[n] # Desc[c.param].cards[a]
    BY <1>1, <1>6, Described, CardSeq
  <2>2. nn[x] = mm[x]
    BY <1>3, <1>4, <2>1, Zenon DEF WithBlock
  <2> QED
    BY <1>6, <2>2 DEF nn, x, r, RowAfter
<1> QED
  BY <1>5, <1>6

LEMMA StillOrder ==
  ASSUME NEW q, OrderOf(q), Still(q), alone'[q] = FALSE \/ (mem' = mem /\ alone'[q] = alone[q])
  PROVE  OrderOf(q)'
<1>1. CASE alone'[q] = FALSE
  BY <1>1 DEF OrderOf, Still
<1>2. CASE mem' = mem /\ alone'[q] = alone[q]
  BY <1>2 DEF OrderOf, Still
<1> QED
  BY <1>1, <1>2

(* Steps of p that change no word and send it no further. *)
LEMMA SameOrder ==
  ASSUME NEW p, OrderOf(p), mem' = mem, call' = call, made' = made, before' = before,
         alone' = alone, result[p] = "run", work'[p] = work[p], at'[p] = at[p],
         result'[p] = "run" \/ result'[p] \notin {"run", "ok"}
  PROVE  OrderOf(p)'
<1>1. CASE result'[p] = "run"
  BY <1>1 DEF OrderOf
<1>2. CASE result'[p] \notin {"run", "ok"}
  <2>1. alone[p] /\ made[p] > 0 /\ Several(call[p]) =>
          OrderIs(p, call[p], made[p], work[p], at[p], result'[p], mem, before[p])
    BY <1>2, Zenon DEF OrderOf, OrderIs
  <2> QED
    BY <2>1 DEF OrderOf
<1> QED
  BY <1>1, <1>2

LEMMA BeginOrder ==
  ASSUME WritesByCard, Shape, NEW p \in Procs, NEW c \in Calls, Begin(p, c)
  PROVE  OrderOf(p)'
<1> DEFINE w == IF c.op = "start" THEN <<Piece(c.param, FALSE, 0, 1, 0)>> ELSE Pieces(c)
           res == IF w = <<>> THEN "ok" ELSE "run"
<1>1. /\ call'[p] = c /\ work'[p] = w /\ result'[p] = res /\ at'[p] = 1
      /\ mem' = mem /\ before'[p] = mem
  BY DEF Begin, Shape
<1>2. ASSUME Several(c) PROVE OrderIs(p, c, made'[p], w, 1, res, mem, mem)
  <2>1. w = <<Whole(c)>>
    BY <1>2, SeveralWhole DEF Several
  <2>2. \A n \in 1..CardCount(c) : ~(n < 1)
    BY CountIs
  <2> HIDE DEF w, res
  <2> QED
    BY <2>1, <2>2 DEF OrderIs
<1> HIDE DEF w, res
<1> QED
  BY <1>1, <1>2 DEF OrderOf

LEMMA WriteBlockOrder ==
  ASSUME WellDescribed, WritesByCard, CallInv, NEW p \in Procs, NEW o \in Outcomes,
         WriteBlock(p, o), OrderOf(p)
  PROVE  OrderOf(p)'
<1> DEFINE c == call[p]
           w == work[p]
           a == at[p]
           m == made[p]
           b == before[p]
           N == CardCount(c)
<1>0. Shape /\ Own(p)
  BY DEF CallInv
<1>1. /\ result[p] = "run" /\ c.op = "write" /\ c \in Calls /\ made[p] > 0
      /\ call' = call /\ before' = before /\ made' = made
      /\ PlanIs(c, w, a) /\ BufferIs(p, c, m, w, data[p])
      /\ alone[p] => LeadIs(w, a, lead[p], mem)
  BY <1>0 DEF WriteBlock, Running, Moves, Own
<1>2. /\ w[1].start = 0 \/ lead[p] # <<>>
      /\ mem' = IF ~o[2] THEN mem ELSE AfterBlock(p)
  BY <1>0, BlockSent
<1>3. alone'[p] => alone[p]
  <2>1. alone' = IF o[2] THEN [q \in Procs |-> alone[q] /\ q = p] ELSE alone
    BY DEF WriteBlock
  <2> QED
    BY <2>1
<1> SUFFICES ASSUME alone[p], Several(c)
             PROVE  OrderIs(p, c, m, work'[p], at'[p], result'[p], mem', b)
  BY <1>1, <1>3 DEF OrderOf
<1>4. w = <<Whole(c)>> /\ OrderIs(p, c, m, w, a, "run", mem, b)
  BY <1>1 DEF OrderOf, OrderIs
<1>5. w[1] = Whole(c) /\ Whole(c).param = c.param /\ Len(w) = 1
  BY <1>4 DEF Whole, Piece
<1>6. c.param \in Params /\ N = Len(Desc[c.param].cards) /\ N \in Nat /\ a \in 1..N
  <2>1. c.param \in Params /\ N = Len(Desc[c.param].cards) /\ N \in Nat
    BY <1>1, CountIs DEF Several
  <2> QED
    BY <1>1, <1>5, <2>1, CardSeq DEF PlanIs
<1>7. ASSUME NEW n \in 1..N, NEW k \in 0..(c.count - 1)
      PROVE  /\ n < a => mem[RowCell(c, n, k)] = GivenOf(p, c, m, RowCell(c, n, k))
             /\ n > a => mem[RowCell(c, n, k)] = b[RowCell(c, n, k)]
  BY <1>4, Zenon DEF OrderIs
<1>8. ASSUME NEW n \in 1..N, NEW k \in 0..(c.count - 1)
      PROVE  AfterBlock(p)[RowCell(c, n, k)]
               = IF n = a THEN GivenOf(p, c, m, RowCell(c, n, k)) ELSE mem[RowCell(c, n, k)]
  <2>1. AfterBlock(p) = WithBlock(mem, Desc[c.param].cards[a], Whole(c),
                              BlockOf(lead[p], Whole(c), data[p]))
    BY <1>5 DEF AfterBlock
  <2>2. /\ PlanIs(c, <<Whole(c)>>, a) /\ BufferIs(p, c, m, <<Whole(c)>>, data[p])
        /\ LeadIs(<<Whole(c)>>, a, lead[p], mem)
        /\ Whole(c).start = 0 \/ lead[p] # <<>>
    BY <1>1, <1>2, <1>4, <1>5
  <2>3. Ready(p, c, m, a, data[p], lead[p], mem)
    BY <2>2, Zenon DEF Ready
  <2>4. /\ c \in Calls /\ Several(c) /\ a \in 1..CardCount(c)
        /\ n \in 1..CardCount(c) /\ k \in 0..(c.count - 1)
    BY <1>1, <1>6
  <2> DEFINE d == data[p]
             l == lead[p]
  <2> HIDE DEF c, a, m, N, w, b, d, l
  <2>5. WithBlock(mem, Desc[c.param].cards[a], Whole(c),
                  BlockOf(lead[p], Whole(c), data[p]))[RowCell(c, n, k)]
          = IF n = a THEN GivenOf(p, c, m, RowCell(c, n, k)) ELSE mem[RowCell(c, n, k)]
    <3>1. Ready(p, c, m, a, d, l, mem)
      BY <2>3 DEF d, l
    <3>2. RowAfter(p, c, m, a, d, l, mem, n, k)
      BY <2>4, <3>1, RowWrites
    <3> QED
      BY <3>2 DEF d, l, RowAfter
  <2> QED
    BY <2>1, <2>5, Zenon
<1>9. ASSUME NEW n \in 1..N, NEW k \in 0..(c.count - 1)
      PROVE  /\ n < a => mem'[RowCell(c, n, k)] = GivenOf(p, c, m, RowCell(c, n, k))
             /\ n > a => mem'[RowCell(c, n, k)] = b[RowCell(c, n, k)]
             /\ n = a /\ o[2] => mem'[RowCell(c, n, k)] = GivenOf(p, c, m, RowCell(c, n, k))
  <2>1. (n < a => n # a) /\ (n > a => n # a)
    BY <1>6
  <2>2. CASE ~o[2]
    <3>1. mem' = mem
      BY <1>2, <2>2
    <3> QED
      BY <1>7, <2>1, <2>2, <3>1, Zenon
  <2>3. CASE o[2]
    <3>1. mem' = AfterBlock(p)
      BY <1>2, <2>3
    <3>2. CASE n = a
      <4>1. mem'[RowCell(c, n, k)] = GivenOf(p, c, m, RowCell(c, n, k))
        BY <1>8, <3>1, <3>2
      <4> QED
        BY <2>1, <2>3, <3>2, <4>1, Zenon
    <3>3. CASE n # a
      <4>1. mem'[RowCell(c, n, k)] = mem[RowCell(c, n, k)]
        BY <1>8, <3>1, <3>3
      <4> QED
        BY <1>7, <2>1, <3>3, <4>1, Zenon
    <3> QED
      BY <3>2, <3>3
  <2> QED
    BY <2>2, <2>3
<1>10. CASE \/ /\ Retried(o[1], tries[p])
               /\ UNCHANGED <<result, work, at, lead, data>>
            \/ /\ ~GoesOn(o[1])
               /\ result' = [result EXCEPT ![p] = o[1]]
               /\ UNCHANGED <<work, at, lead, data>>
  <2>1. /\ work'[p] = w /\ at'[p] = a
        /\ result'[p] # "ok"
    BY <1>0, <1>1, <1>10, OutcomeIs DEF Shape, Retried, GoesOn
  <2> HIDE DEF c, w, a, m, b, N
  <2> QED
    BY <1>4, <1>9, <2>1, Zenon DEF OrderIs, N
<1>11. CASE o[1] = "ok" /\ Advance(p, data[p])
  <2>1. AdvanceIs(p, data[p])
    <3>1. DOMAIN alone' = Procs
      BY <1>0 DEF WriteBlock, Shape
    <3> QED
      BY <1>0, <1>1, <1>11, <3>1, AdvanceStep
  <2>2. o[2]
    BY <1>11, OutcomeIs
  <2>3. Here(p) = w[1] /\ Desc[Here(p).param].cards = Desc[c.param].cards
    BY <1>1, <1>5, FirstPiece DEF Here
  <2>4. CASE a < N
    <3>1. work'[p] = w /\ at'[p] = a + 1 /\ result'[p] = "run"
      BY <1>1, <1>6, <2>1, <2>3, <2>4 DEF AdvanceIs
    <3>2. ASSUME NEW n \in 1..N
          PROVE  /\ n < a + 1 => n < a \/ n = a
                 /\ n > a + 1 \/ n = a + 1 => n > a
      BY <1>6
    <3>3. a + 1 \in Nat
      BY <1>6
    <3> HIDE DEF c, w, a, m, b
    <3> QED
      BY <1>4, <1>9, <2>2, <3>1, <3>2, <3>3, Zenon DEF OrderIs
  <2>5. CASE ~(a < N)
    <3>1. result'[p] = "ok" /\ at'[p] = 1
      BY <1>5, <1>6, <2>1, <2>3, <2>5 DEF AdvanceIs
    <3> QED
      BY <3>1 DEF OrderIs
  <2> QED
    BY <2>4, <2>5
<1> QED
  BY <1>10, <1>11 DEF WriteBlock, Send, GoesOn

OrderInv == CallInv /\ FreshInv /\ \A p \in Procs : OrderOf(p)

LEMMA OrderStep ==
  ASSUME OrderInv, CallInv', NEW p \in Procs, StepOf(p), Counted,
         Fresh(mem', made'), FreshOf(p)', OrderOf(p)'
  PROVE  OrderInv'
<1>1. CallInv /\ Shape /\ FreshInv /\ \A q \in Procs : OrderOf(q)
  BY DEF OrderInv, CallInv
<1>2. FreshInv'
  BY <1>1, FreshStep
<1>3. ASSUME NEW q \in Procs PROVE OrderOf(q)'
  <2>1. CASE q = p
    BY <2>1
  <2>2. CASE q # p
    BY <1>1, <2>2, StillOrder DEF StepOf
  <2> QED
    BY <2>1, <2>2
<1> QED
  BY <1>2, <1>3 DEF OrderInv

LEMMA NextOrder ==
  ASSUME WellDescribed, WritesByCard PROVE OrderInv /\ [Next]_vars => OrderInv'
<1> SUFFICES ASSUME OrderInv, [Next]_vars PROVE OrderInv'
  OBVIOUS
<1>1. /\ CallInv /\ Shape /\ (\A q \in Procs : Own(q)) /\ FreshInv
      /\ \A q \in Procs : OrderOf(q)
  BY DEF OrderInv, CallInv
<1>2. CallInv'
  BY <1>1, NextCall
<1>3. ASSUME NEW p \in Procs, NEW c \in Calls, Begin(p, c) PROVE OrderInv'
  <2>1. StepOf(p)
    BY <1>1, <1>3, BeginOwn
  <2>2. Counted /\ Fresh(mem', made') /\ FreshOf(p)'
    BY <1>1, <1>3, BeginFresh
  <2>3. OrderOf(p)'
    BY <1>1, <1>3, BeginOrder
  <2> QED
    BY <1>2, <2>1, <2>2, <2>3, OrderStep
<1>4. ASSUME NEW p \in Procs, TooLong(p) PROVE OrderInv'
  <2>1. StepOf(p)
    BY <1>1, <1>4, TooLongOwn
  <2>2. Counted /\ Fresh(mem', made') /\ FreshOf(p)'
    <3>1. \E o : o \in Outcomes
      BY DEF Outcomes
    <3> QED
      BY <1>1, <1>4, <3>1, OtherFresh
  <2>3. OrderOf(p)'
    <3>1. /\ result[p] = "run" /\ result'[p] = "bounds" /\ mem' = mem /\ call' = call
          /\ made' = made /\ before' = before /\ alone' = alone
          /\ work'[p] = work[p] /\ at'[p] = at[p]
      BY <1>1, <1>4 DEF TooLong, Shape
    <3> QED
      BY <1>1, <3>1, SameOrder
  <2> QED
    BY <1>2, <2>1, <2>2, <2>3, OrderStep
<1>5. ASSUME NEW p \in Procs, NEW o \in Outcomes, ReadLead(p, o) PROVE OrderInv'
  <2>1. StepOf(p)
    BY <1>1, <1>5, ReadLeadOwn
  <2>2. Counted /\ Fresh(mem', made') /\ FreshOf(p)'
    BY <1>1, <1>5, ReadLeadFresh
  <2>3. OrderOf(p)'
    <3>1. /\ result[p] = "run" /\ mem' = mem /\ call' = call
          /\ made' = made /\ before' = before /\ alone' = alone
      BY <1>5 DEF ReadLead, Running
    <3>2. /\ work' = work /\ at' = at
          /\ result' = result \/ (~GoesOn(o[1]) /\ result' = [result EXCEPT ![p] = o[1]])
      BY <1>5 DEF ReadLead, Send
    <3>3. /\ work'[p] = work[p] /\ at'[p] = at[p]
          /\ result'[p] = "run" \/ result'[p] \notin {"run", "ok"}
      BY <1>1, <3>1, <3>2, OutcomeIs DEF Shape, GoesOn
    <3> QED
      BY <1>1, <3>1, <3>3, SameOrder
  <2> QED
    BY <1>2, <2>1, <2>2, <2>3, OrderStep
<1>6. ASSUME NEW p \in Procs, NEW o \in Outcomes, WriteBlock(p, o) PROVE OrderInv'
  <2>1. StepOf(p)
    BY <1>1, <1>6, WriteBlockOwn
  <2>2. Counted /\ Fresh(mem', made') /\ FreshOf(p)'
    BY <1>1, <1>6, WriteBlockFresh
  <2>3. OrderOf(p)'
    BY <1>1, <1>6, WriteBlockOrder
  <2> QED
    BY <1>2, <2>1, <2>2, <2>3, OrderStep
<1>7. ASSUME NEW p \in Procs, NEW o \in Outcomes, ReadBlock(p, o) \/ StartCard(p, o)
      PROVE  OrderInv'
  <2>1. StepOf(p)
    BY <1>1, <1>7, ReadBlockOwn, StartCardOwn
  <2>2. Counted /\ Fresh(mem', made') /\ FreshOf(p)'
    BY <1>1, <1>7, OtherFresh
  <2>3. OrderOf(p)'
    <3>1. call'[p].op # "write"
      BY <1>7 DEF ReadBlock, StartCard, Running
    <3> QED
      BY <3>1 DEF OrderOf, Several
  <2> QED
    BY <1>2, <2>1, <2>2, <2>3, OrderStep
<1>8. CASE UNCHANGED vars
  <2>1. /\ mem' = mem /\ alone' = alone /\ made' = made
        /\ \A q \in Procs : Still(q)
    BY <1>8 DEF vars, Still
  <2>2. Counted
    BY <1>1, <2>1, CountStays
  <2>3. FreshInv'
    BY <1>1, <2>1, <2>2, StillFresh DEF FreshInv
  <2>4. \A q \in Procs : OrderOf(q)'
    BY <1>1, <2>1, StillOrder
  <2> QED
    BY <1>2, <2>3, <2>4 DEF OrderInv
<1> QED
  BY <1>3, <1>4, <1>5, <1>6, <1>7, <1>8 DEF Next

LEMMA InitOrder == Init => OrderInv
<1> SUFFICES ASSUME Init PROVE OrderInv
  OBVIOUS
<1>1. ASSUME NEW p \in Procs PROVE OrderOf(p) /\ FreshOf(p)
  <2>1. made[p] = 0 /\ result[p] = "idle"
    BY DEF Init
  <2>2. ~(made[p] > 0) /\ result[p] # "run"
    BY <2>1
  <2> QED
    BY <2>2, Zenon DEF OrderOf, FreshOf
<1>2. Fresh(mem, made)
  <2> SUFFICES ASSUME NEW x \in Cells, NEW q \in Procs
               PROVE  mem[x].call \in 0..made[q]
    BY DEF Fresh
  <2>1. mem[x] = Word(x.card, 0, x.index) /\ made[q] = 0
    BY DEF Init
  <2>2. mem[x].call = 0
    BY <2>1 DEF Word
  <2> QED
    BY <2>1, <2>2
<1> QED
  BY <1>1, <1>2, InitCall DEF OrderInv, FreshInv

(* A write to several cards that fails half way has changed the cards in   *)
(* order: those before the one it failed at have all its words, and those  *)
(* after it none.  A word of a call is in the memory because of that call. *)
THEOREM CardsComeInOrder ==
  ASSUME WellDescribed, WritesByCard PROVE Spec => []CardsInOrder
<1>1. OrderInv => CardsInOrder
  <2> SUFFICES ASSUME OrderInv, NEW p \in Procs, alone[p], made[p] > 0, call[p].op = "write",
                      ~Desc[call[p].param].virtual, NEW n \in 2..CardCount(call[p]),
                      NEW k \in 0..(call[p].count - 1),
                      mem[RowCell(call[p], n, k)] = GivenOf(p, call[p], made[p], RowCell(call[p], n, k)),
                      NEW l \in 0..(call[p].count - 1)
               PROVE  mem[RowCell(call[p], n - 1, l)]
                        = GivenOf(p, call[p], made[p], RowCell(call[p], n - 1, l))
    BY GivenSame, Zenon DEF CardsInOrder, RowCell
  <2> DEFINE c == call[p]
             m == made[p]
             a == at[p]
             x == RowCell(c, n, k)
             y == RowCell(c, n - 1, l)
             b == before[p]
  <2>1. Own(p) /\ OrderOf(p) /\ FreshOf(p)
    BY DEF OrderInv, CallInv, FreshInv
  <2>2. c \in Calls /\ m \in Nat /\ CardCount(c) \in Nat /\ c.count \in Nat
    BY <2>1, CountIs DEF Own
  <2>3. n \in 1..CardCount(c) /\ n - 1 \in 1..CardCount(c) /\ n \in Nat
    BY <2>2
  <2>4. Several(c)
    <3>1. CardCount(c) > 1
      BY <2>2
    <3> QED
      BY <3>1 DEF Several
  <2>5. x \in Cells /\ y \in Cells /\ y \in CellsAt(c, l)
    <3> HIDE DEF c
    <3> QED
      BY <2>2, <2>3, <2>4, RowCellIn DEF c
  <2>6. CASE result[p] = "ok"
    <3>1. WrittenIs(p, c, m, work[p], a, "ok", mem, b)
      BY <2>1, <2>6 DEF Own
    <3>2. y \in Targets(c)
      BY <2>5 DEF Targets
    <3> QED
      BY <2>5, <3>1, <3>2, Zenon DEF WrittenIs
  <2>7. CASE result[p] # "ok"
    <3>1. OrderIs(p, c, m, work[p], a, result[p], mem, b)
      BY <2>1, <2>4 DEF OrderOf
    <3>2. a \in Nat
      BY <3>1 DEF OrderIs
    <3>3. mem[x] # b[x]
      <4>1. mem[x].of = p /\ mem[x].call = m
        BY GivenOfIs
      <4>2. b[x].of = p => b[x].call \in 0..(m - 1)
        BY <2>1, <2>5 DEF FreshOf
      <4>3. m \notin 0..(m - 1)
        BY <2>2
      <4> QED
        BY <4>1, <4>2, <4>3, Zenon
    <3>4. ~(n > a)
      BY <2>3, <2>7, <3>1, <3>3, Zenon DEF OrderIs
    <3>5. n - 1 < a
      BY <2>3, <3>2, <3>4
    <3> QED
      BY <2>3, <2>7, <3>1, <3>5, Zenon DEF OrderIs
  <2> QED
    BY <2>6, <2>7
<1>2. OrderInv /\ [Next]_vars => OrderInv'
  BY NextOrder
<1>3. Spec => []OrderInv
  BY <1>2, InitOrder, PTL DEF Spec
<1> QED
  BY <1>1, <1>3, PTL
=============================================================================
