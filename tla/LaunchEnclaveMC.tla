---------------------------- MODULE LaunchEnclaveMC ----------------------------
(* Constants for model checking LaunchEnclave.                               *)
EXTENDS LaunchEnclave

\* A request for an ordinary, a provisioning and an ill-formed enclave.
SomeFlags == {"PROVISIONKEY", "BIT3"}
Reserved == {"INIT", "BIT3", "BIT6"}
OneXfrm == {{"X87"}}
=============================================================================
