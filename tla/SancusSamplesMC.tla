-------------------------- MODULE SancusSamplesMC --------------------------
(* Values of the constants of SancusSamples for TLC: words of 12 bits, which*)
(* hold the arguments of every main; sections of the sizes and at the places*)
(* of the shipped t2w_4_fixed, the text section moved down; pointers on and *)
(* next to their borders, even and odd; and lengths that reach into a       *)
(* section, end before it, span one, wrap around, or are negative.          *)
EXTENDS SancusSamples

MCSamples == DOMAIN AllSamples
MCPointers == {0, 511, 512, 763, 764, 810, 811, 812, 813, 2763, 3598, 3599, 4094, 4095}
MCNumbers == {0, 1, 2, 3, 149, 150, 256, 976, 1100, 2046, 2048, 4091, 4095}
MCLengths == {0, 1, 2, 150}
MCFibNumbers == {0, 1, 2, 7, 4095}
=============================================================================
