------------------------ MODULE MCProcessGroupAgent ------------------------
(* ProcessGroupAgent for TLC.                                              *)
EXTENDS ProcessGroupAgent

CONSTANTS a, b \* the workers
=============================================================================
