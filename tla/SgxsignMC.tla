------------------------------- MODULE SgxsignMC -------------------------------
(* Constants for model checking Sgxsign.                                     *)
EXTENDS Sgxsign

CONSTANTS a, b, k1, k2, d1, d2

\* One page, three pages, and a file that is no whole number of pages.
Contents == {<<a, b>>, <<a, b, a, a, b, b>>, <<a, b, b>>}
OneImage == {<<a, b>>}

\* The loop of mrenclave_ecreate stops at the first power of two that is large
\* enough: the enclave is less than twice as large as its pages.
ASSUME EnclavesAreTight == \A n \in 1..20 : n <= EnclavePages(n) /\ EnclavePages(n) < 2 * n
=============================================================================
