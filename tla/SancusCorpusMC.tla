--------------------------- MODULE SancusCorpusMC ---------------------------
(* Values of the constants of SancusCorpus for TLC.  The words lie on both  *)
(* sides of every border the programs have: 0 and 1 (the compared           *)
(* constants), a negative one, the secret section 20..23, 28 and 29 just    *)
(* below the code, its first, middle and last instructions, and beyond.     *)
EXTENDS SancusCorpus

MCPrograms == DOMAIN AllPrograms
MCWords == {-1, 0, 1, 20, 21, 24, 29, 30, 31, 35, 36, 37, 40, 60}
=============================================================================
