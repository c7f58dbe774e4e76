---------------------------- MODULE MCQueueScreens ----------------------------
(***************************************************************************)
(* Instances of QueueScreens for TLC.                                      *)
(***************************************************************************)
EXTENDS QueueScreens, TLC
===============================================================================
