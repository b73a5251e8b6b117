-------------------------- MODULE MCTrainCheckpoint --------------------------
(* Two processes and batches for five steps, the last of them short.          *)
EXTENDS TrainCheckpoint, TLC

CONSTANTS p, q

MCBatches == (p :> 9 @@ q :> 11)
MCAsked == {[steps |-> 6, every |-> 2, keep |-> 1], [steps |-> 4, every |-> 1, keep |-> 2],
            [steps |-> 3, every |-> 0, keep |-> 1]}
=============================================================================
