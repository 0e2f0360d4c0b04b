------------------------------ MODULE MCReplay ------------------------------
(* Replay for TLC.                                                         *)
EXTENDS Replay

\* Every record readable, or one of them not.
MaybeOne == {{}, {1}}
=============================================================================
