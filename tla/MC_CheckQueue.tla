---------------------------- MODULE MC_CheckQueue ----------------------------
(***************************************************************************)
(* Small instances of CheckQueue: an empty batch, a single check and       *)
(* batches with a failing check in the middle or larger than a group.      *)
(***************************************************************************)
EXTENDS CheckQueue

MCBatches == {<<>>, <<TRUE>>, <<FALSE>>, <<TRUE, FALSE, TRUE>>}
MCShutdownBatches == {<<TRUE>>, <<TRUE, TRUE>>}
=============================================================================
