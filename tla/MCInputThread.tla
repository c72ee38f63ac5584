----------------------------- MODULE MCInputThread -----------------------------
(* Instances of the input thread for TLC.                                  *)
EXTENDS InputThread, TLC

CONSTANTS k1, k2, poll

================================================================================
