---------------------------- MODULE MCMcedspCmd ----------------------------
(* Instances of McedspCmd for TLC. *)
EXTENDS McedspCmd, TLC

CONSTANTS p1, p2

TwoProcs == {p1, p2}

(* A DSP user, and an MCE user who also resets the card. *)
FaultOps == p1 :> {"COMMAND", "GET_DSP_REPLY"}
         @@ p2 :> {"MCE_COMMAND", "RESET_DSP", "GET_MCE_REPLY"}

(* The usual division of work: one DSP user, who also configures and       *)
(* resets the card, and one MCE user, who also sets the frame count.       *)
SplitOps == p1 :> {"COMMAND", "QUIET_COMMAND", "SET_DATASIZE", "RESET_DSP",
                  "GET_DSP_REPLY"}
         @@ p2 :> {"MCE_COMMAND", "SET_NFRAMES", "GET_MCE_REPLY"}

(* Two processes that use the same channel. *)
DspOps == [p \in Procs |-> {"COMMAND", "GET_DSP_REPLY"}]
MceOps == [p \in Procs |-> {"MCE_COMMAND", "GET_MCE_REPLY"}]
=============================================================================
