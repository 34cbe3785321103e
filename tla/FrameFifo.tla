------------------------------ MODULE FrameFifo ------------------------------
(***************************************************************************)
(* What the frame buffer promises an acquisition: frames come out once     *)
(* each, unaltered and in the order the card accepted them.  The card may  *)
(* refuse a frame when the buffer is full; a new configuration throws away *)
(* what was not consumed.  How many the buffer holds is not promised here. *)
(***************************************************************************)
EXTENDS Naturals, Sequences

VARIABLES queue,  \* accepted frames, not consumed yet
          last,   \* number of the last frame accepted
          out     \* the frame consumed last, 0 before the first

Init == queue = <<>> /\ last = 0 /\ out = 0

Accept == /\ last' = last + 1
          /\ queue' = Append(queue, last')
          /\ UNCHANGED out

Consume == /\ queue # <<>>
           /\ out' = Head(queue)
           /\ queue' = Tail(queue)
           /\ UNCHANGED last

Configure == queue' = <<>> /\ UNCHANGED <<last, out>>

Next == Accept \/ Consume \/ Configure

Spec == Init /\ [][Next]_<<queue, last, out>>
=============================================================================
