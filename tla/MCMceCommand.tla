---------------------------- MODULE MCMceCommand ----------------------------
(***************************************************************************)
(* Instances of MceCommand: a parameter on two cards, one that is banked,  *)
(* one whose words are manipulated, and a virtual one over the last two.   *)
(***************************************************************************)
EXTENDS MceCommand

Real(cards, banked, manip) ==
  [virtual |-> FALSE, maps |-> <<>>, cards |-> cards, banked |-> banked,
   manip |-> manip]

Maps ==
  << [start |-> 0, count |-> 2, offset |-> 1, param |-> "flipped"],
     [start |-> 2, count |-> 4, offset |-> 0, param |-> "banked"] >>

Descs ==
  [n \in Params |->
     CASE n = "both"    -> Real(<<"rc1", "rc2">>, FALSE, FALSE)
       [] n = "banked"  -> Real(<<"rc1">>, TRUE, FALSE)
       [] n = "flipped" -> Real(<<"bc1">>, FALSE, TRUE)
       [] n = "virtual" -> [Real(<<>>, FALSE, FALSE) EXCEPT !.virtual = TRUE,
                                                            !.maps = Maps]
       [] n = "bankedBoth"  -> Real(<<"rc1", "rc2">>, TRUE, FALSE)
       [] n = "flippedBoth" -> Real(<<"rc1", "rc2">>, FALSE, TRUE)]

CallOn(op, p, start, count) == [op |-> op, param |-> p, start |-> start, count |-> count]

Ranges(n) == {<<s, c>> \in (0..(n - 1)) \X (1..n) : s + c <= n}

AllCalls ==
  {CallOn("start", "both", 0, 1), CallOn("write", "flipped", 0, 5)}
  \cup {CallOn(op, "both", r[1], r[2]) : op \in {"write", "read"}, r \in Ranges(2)}
  \cup {CallOn(op, "banked", r[1], r[2]) : op \in {"write", "read"}, r \in Ranges(4)}
  \cup {CallOn(op, "flipped", r[1], r[2]) : op \in {"write", "read"}, r \in Ranges(3)}
  \cup {CallOn(op, "virtual", r[1], r[2]) : op \in {"write", "read"}, r \in Ranges(6)}

(* What the theorems suppose of descriptions and calls. *)
ASSUME DescriptionsFit == WellDescribed /\ ReadsOneCard /\ WritesByCard

(* Reads of whole parameters of two cards. *)
CardReads == {CallOn("read", "bankedBoth", 0, 4), CallOn("read", "flippedBoth", 0, 2)}

(* Writes of single words. *)
Elements == {CallOn("write", "both", i, 1) : i \in 0..1}
=============================================================================
