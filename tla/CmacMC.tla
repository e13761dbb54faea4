------------------------------- MODULE CmacMC -------------------------------
(* Values of the constants of Cmac for TLC: blocks of 3 bytes of 2 bits,    *)
(* every value of the zero block, messages of up to 4 blocks.               *)
EXTENDS Cmac
MCLengths == 0 .. 13
MCZeroBlocks == [0 .. B - 1 -> SUBSET (0 .. W - 1)]
=============================================================================
