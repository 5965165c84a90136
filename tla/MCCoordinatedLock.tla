------------------------- MODULE MCCoordinatedLock -------------------------
(* CoordinatedLock with three processes on one key.                         *)
EXTENDS CoordinatedLock
=============================================================================
