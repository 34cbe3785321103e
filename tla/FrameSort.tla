------------------------------ MODULE FrameSort ------------------------------
(***************************************************************************)
(* sort_columns of interfaces/mce_library/frame_manip.c.  The MCE sends    *)
(* the samples of a frame readout card by readout card; the library puts   *)
(* those of all cards side by side in each row, through a temporary copy.  *)
(* The header and the checksum around the samples stay where they are.     *)
(***************************************************************************)
EXTENDS Integers, FiniteSets

CONSTANTS CardSets,  \* the values of acq->cards, as sets of bits
          MaxRows, MaxCols

ASSUME SortAssumption ==
  /\ \A s \in CardSets : s \subseteq Nat /\ IsFiniteSet(s) /\ s # {}
  /\ MaxRows \in Nat /\ MaxCols \in Nat

VARIABLES cards, rows, cols, \* acq->cards, rows, acq->cols
          data, temp,        \* the samples of the frame and of the copy
          c, cIn,            \* the loop's variables
          sorted

sortVars == <<cards, rows, cols, data, temp, c, cIn, sorted>>

CardsOut == Cardinality(cards)
Size     == CardsOut * rows * cols
Blank    == <<>>

(* A sample is named by its card, row and column.  The n-th card that      *)
(* reports is the one with n reporting cards below it.                     *)
NthCard(n) == CHOOSE k \in cards : Cardinality({j \in cards : j < k}) = n

RawFrame ==
  [i \in 0..(Size - 1) |->
     <<NthCard(i \div (rows * cols)), (i \div cols) % rows, i % cols>>]
NoSamples == [i \in 0..(Size - 1) |-> Blank]

SortInit ==
  /\ cards \in CardSets
  /\ rows \in 1..MaxRows /\ cols \in 1..MaxCols
  /\ data = RawFrame /\ temp = NoSamples
  /\ c = 0 /\ cIn = 0 /\ sorted = FALSE

(* A single card's frame is in order already. *)
OneCard ==
  /\ ~sorted /\ CardsOut = 1
  /\ sorted' = TRUE
  /\ UNCHANGED <<cards, rows, cols, data, temp, c, cIn>>

(* Where the loop reads the sample of row r and column k. *)
Source(r, k) == (rows * cIn + r) * cols + k

(* One pass of the loop over c; a card that does not report is skipped. *)
CopyCard ==
  /\ ~sorted /\ CardsOut > 1 /\ c < CardsOut
  /\ IF c \in cards
     THEN /\ temp' = [i \in DOMAIN temp |->
                        IF (i \div cols) % CardsOut = c
                        THEN data[Source(i \div (CardsOut * cols), i % cols)]
                        ELSE temp[i]]
          /\ cIn' = cIn + 1
     ELSE UNCHANGED <<temp, cIn>>
  /\ c' = c + 1
  /\ UNCHANGED <<cards, rows, cols, data, sorted>>

CopyBack ==
  /\ ~sorted /\ CardsOut > 1 /\ c = CardsOut
  /\ data' = temp
  /\ sorted' = TRUE
  /\ UNCHANGED <<cards, rows, cols, temp, c, cIn>>

SortNext == OneCard \/ CopyCard \/ CopyBack

-----------------------------------------------------------------------------
(* The samples of row r are those of the cards that report, in their order. *)
RowSorted(r) ==
  \A n \in 0..(CardsOut - 1), k \in 0..(cols - 1) :
    data[(r * CardsOut + n) * cols + k] = <<NthCard(n), r, k>>

(* For any cards that report ("bit-mask of cards returning data"), every   *)
(* row of the sorted frame has all their samples.                          *)
Sorted == sorted => \A r \in 0..(rows - 1) : RowSorted(r)
=============================================================================
