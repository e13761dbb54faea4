-------------------------- MODULE SelftestEnclaveMC --------------------------
(* Values of the constants of SelftestEnclave for TLC: an enclave of nine   *)
(* cells between eight of the host below and five above it.                 *)
EXTENDS SelftestEnclave
CONSTANTS tcs1, tcs2

MCTcs == {tcs1, tcs2}
MCBase == 8
MCFrame == [t \in MCTcs |-> IF t = tcs1 THEN MCBase + 7 ELSE MCBase + 8]
MCBuilds ==
    [prog : {"test"}, level : 0 .. 4] \cup [prog : {"nop"}, level : {4}]
        \cup [prog : {"linux"}, level : {0}]
(* A struct outside; one whose header alone is outside; one at the end of   *)
(* the address space, where it wraps; one in the enclave.                   *)
MCPointers == {0, MCBase - 2, 20, MCBase}
(* Outside; the border below; the function; both frames, the second of them *)
(* in the last cell; wrapping around.                                       *)
MCAddresses == {2, MCBase - 1, MCBase + 6, MCBase + 7, MCBase + 8, 21}
(* Below level 3 little is promised and nearly everything can be written:   *)
(* there, one TCS is followed at a time, until the first damage.            *)
Undamaged ==
    /\ \A a \in Private : mem[a] \in {"code", "secret"} \cup Tcs
    /\ mem[Buf] \in {"data", "host"} /\ mem[Buf + 1] \in {"data", "host"}
    /\ ~leaked
Followed == Level(3) \/ (Undamaged /\ \E t \in Tcs : pc[t] = "idle")
=============================================================================
