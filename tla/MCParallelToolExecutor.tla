----------------------- MODULE MCParallelToolExecutor -----------------------
(***************************************************************************)
(* Three batches: a single call, whose thread can outlive an interrupt;    *)
(* three calls in a pool of two workers, two of which need both resources; *)
(* and a single call that declares no resource.                            *)
(***************************************************************************)
EXTENDS ParallelToolExecutor

MCBatches == << <<1>>, <<2, 3, 4>>, <<5>> >>
MCLockKeys == <<{1}, {1, 2}, {1, 2}, {2}, {}>>
=============================================================================
