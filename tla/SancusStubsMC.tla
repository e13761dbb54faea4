---------------------------- MODULE SancusStubsMC ----------------------------
(* Constants for model checking SancusStubs.                                *)
EXTENDS SancusStubsInv

\* One entry point with one result word: enough where only nesting matters.
OneEntry == [i \in {0} |-> 1]

\* One entry point for each number of result words the chain of sm_entry.S
\* distinguishes.
FourEntries == [i \in 0..3 |-> <<0, 1, 2, 4>>[i + 1]]
=============================================================================
