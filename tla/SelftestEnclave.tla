--------------------------- MODULE SelftestEnclave ---------------------------
(***************************************************************************)
(* The SGX test enclaves of src/pandora-sgx-selftest and, from which they  *)
(* descend, src/linux-sgx-selftest: one encl_body run by two TCSs on the   *)
(* same memory, called by a host that rewrites its own memory at any time  *)
(* and passes any pointer.  The Makefile builds the enclave with           *)
(* FIX_SANITIZATION from 0 to 4, each level adding checks; `build` is the  *)
(* one that runs.                                                          *)
(*                                                                         *)
(* Memory is a wrapping row of cells of 4 bytes, so that a field of 8      *)
(* bytes can lie on a border.  A cell of the enclave holds the KIND of its *)
(* content; the host's cells need no state: what is read there is any      *)
(* number.  Instructions of the host inside an interrupted call need none  *)
(* either, for AEX and ERESUME keep the registers.                         *)
(***************************************************************************)
EXTENDS Integers

CONSTANTS
    Tcs,            \* the thread control structures
    Builds,         \* the builds to run, records [prog, level]
    M,              \* number of cells of the address space
    Base, End,      \* first and last cell of the enclave
    Frame,          \* [Tcs -> cell]: where the stack of a TCS begins
    Pointers,       \* the arguments of the host
    Addresses       \* the addresses the host puts into a structure

VARIABLES
    build,
    mem,            \* the kind of content of every cell of the enclave
    pc,             \* where a TCS is
    op,             \* the argument of its call
    src, dst, i,    \* the arguments and the index of its memcpy
    astray,         \* the kinds of wrong jumps that were taken
    leaked,         \* has private content been written to the host?
    raced           \* did one TCS reset the unmeasured buffer under another?

vars == <<build, mem, pc, op, src, dst, i, astray, leaked, raced>>

Enclave == Base .. End
Buf == Base + 1         \* encl_buffer, its first 8 bytes, behind the TCS pages
Unm == Base + 3         \* unmeasured_encl_buffer: two cells, and the one at len
NopFn == Base + 6       \* the code of do_encl_op_nop
Private == Enclave \ {Buf, Buf + 1, Unm, Unm + 1, Unm + 2}

ASSUME SelftestAssumption ==
    /\ M \in Nat /\ Base \in Nat /\ End \in Nat
    /\ Base + 6 <= End /\ End < M
    /\ Frame \in [Tcs -> Base + 7 .. End]
    /\ \A t, u \in Tcs : Frame[t] = Frame[u] => t = u
    /\ Pointers \subseteq 0 .. M - 1 /\ Addresses \subseteq 0 .. M - 1
    /\ NopFn \in Addresses
    /\ Builds \subseteq [prog : {"test", "linux", "nop"}, level : 0 .. 4]
    /\ Tcs \cap {"data", "host", "unmeasured", "zero", "one", "nop", "ret", "code", "secret"} = {}

(* Addresses are 64 bit words: they wrap around.                            *)
Plus(a, n) == IF a + n >= M THEN a + n - M ELSE a + n

(* sgx_is_outside_enclave                                                   *)
Outside(start, size) ==
    LET end == IF size > 0 THEN Plus(start, size - 1) ELSE start
    IN start <= end /\ (end < Base \/ start > End)

(* The fields of the operation structs: type, value, addr or type, addr.    *)
Header == 2
ValueAt(p) == Plus(p, 2)
Sizes == [put_to_buf |-> 4, get_from_buf |-> 4, put_to_addr |-> 6, get_from_addr |-> 6,
          get_from_unmeasured |-> 6, call_addr |-> 4]

Level(n) == build.prog = "test" /\ build.level >= n

(* encl_op_array: what the first ENCL_OP_MAX values of the type stand for.  *)
Ops ==
    IF build.prog = "linux"
    THEN {"put_to_buf", "get_from_buf", "put_to_addr", "get_from_addr", "nop"}
    ELSE {"put_to_buf", "get_from_buf", "put_to_addr", "get_from_addr", "get_from_unmeasured",
          "nop", "call_addr", "call_unmeasured", "call_non_exec"}

-----------------------------------------------------------------------------
Go(t, label) == pc' = [pc EXCEPT ![t] = label]

(* Mutant: the entry code takes one stack for all, without adding RBX.      *)
StackOf_Shared(t) == CHOOSE f \in {Frame[u] : u \in Tcs} : TRUE

(* Entry code: the stack is that of the TCS, which RBX tells; the caller's  *)
(* stack pointer and the address after EENTER are pushed onto it.           *)
StackOf(t) == Frame[t]

Enter(t) ==
    /\ pc[t] = "idle"
    /\ \E p \in Pointers : op' = [op EXCEPT ![t] = p]
    /\ mem' = [mem EXCEPT ![StackOf(t)] = t]
    /\ Go(t, IF build.prog = "nop" THEN "leave" ELSE "header")
    /\ UNCHANGED <<build, src, dst, i, astray, leaked, raced>>

(* The two popped words lead back to the caller, if they are still the ones *)
(* that were pushed.                                                        *)
Leave(t) ==
    /\ pc[t] = "leave"
    /\ IF mem[StackOf(t)] = t
       THEN Go(t, "idle") /\ UNCHANGED astray
       ELSE Go(t, "lost") /\ astray' = astray \cup {"frame"}
    /\ op' = [op EXCEPT ![t] = 0]
    /\ src' = [src EXCEPT ![t] = 0]
    /\ dst' = [dst EXCEPT ![t] = 0]
    /\ i' = [i EXCEPT ![t] = 0]
    /\ UNCHANGED <<build, mem, leaked, raced>>

(* A step of encl_body that changes nothing but where the TCS is.           *)
Step(t, from, to) ==
    /\ pc[t] = from
    /\ Go(t, to)
    /\ UNCHANGED <<build, mem, op, src, dst, i, astray, leaked, raced>>

CheckHeader(t) ==
    Step(t, "header", IF Level(1) /\ ~Outside(op[t], Header) THEN "leave" ELSE "type")

(* From level 2 on the type is read once, into a volatile variable of the   *)
(* enclave; below, the comparison and the array index read it each.         *)
ReadTwice == ~Level(2)

ReadType(t) ==
    \/ Step(t, "type", "leave")
    \/ ReadTwice /\ Step(t, "type", "index")
    \/ ~ReadTwice /\ \E o \in Ops : Step(t, "type", o)
ReadIndex(t) == \E o \in Ops : Step(t, "index", o)

(* A jump that nobody meant to allow: control is the host's, or faults.     *)
Stray(t, kind) ==
    /\ Go(t, "lost")
    /\ astray' = astray \cup {kind}
    /\ UNCHANGED <<build, mem, op, src, dst, i, leaked, raced>>
ReadIndexBeyond(t) == pc[t] = "index" /\ Stray(t, "table")

Refused(t) == Level(2) /\ ~Outside(op[t], Sizes[pc[t]])
Refuse(t) ==
    /\ pc[t] \in DOMAIN Sizes
    /\ Refused(t)
    /\ Step(t, pc[t], "leave")

-----------------------------------------------------------------------------
(* The operations, after the check of their struct.                         *)
Begin(t, o) == pc[t] = o /\ ~Refused(t)
Memcpy(t, to, from) ==
    /\ dst' = [dst EXCEPT ![t] = to]
    /\ src' = [src EXCEPT ![t] = from]
    /\ Go(t, "memcpy")
    /\ UNCHANGED <<build, mem, op, i, astray, leaked, raced>>

PutToBuf(t) == Begin(t, "put_to_buf") /\ Memcpy(t, Buf, ValueAt(op[t]))
GetFromBuf(t) == Begin(t, "get_from_buf") /\ Memcpy(t, ValueAt(op[t]), Buf)

(* Mutant: the address is read again after its check.                       *)
PutToAddr_Toctou(t) ==
    /\ Begin(t, "put_to_addr")
    /\ \E a, b \in Addresses :
         IF Level(3) /\ ~Outside(a, 2)
         THEN Step(t, "put_to_addr", "leave")
         ELSE Memcpy(t, b, ValueAt(op[t]))
(* The address is read once, whatever the level.                            *)
PutToAddr(t) ==
    /\ Begin(t, "put_to_addr")
    /\ \E a \in Addresses :
         IF Level(3) /\ ~Outside(a, 2)
         THEN Step(t, "put_to_addr", "leave")
         ELSE Memcpy(t, a, ValueAt(op[t]))

(* Mutant: level 4 does what level 3 does.                                  *)
GetFromAddr_Toctou(t) ==
    /\ Begin(t, "get_from_addr")
    /\ \E a, b \in Addresses :
         IF Level(3) /\ ~Outside(a, 2)
         THEN Step(t, "get_from_addr", "leave")
         ELSE Memcpy(t, ValueAt(op[t]), b)
(* Level 3 checks one reading of the address and uses another.              *)
GetFromAddr(t) ==
    /\ Begin(t, "get_from_addr")
    /\ \E a, b \in Addresses :
         /\ (Level(3) /\ ~Level(4)) \/ a = b
         /\ IF Level(3) /\ ~Outside(a, 2)
            THEN Step(t, "get_from_addr", "leave")
            ELSE Memcpy(t, ValueAt(op[t]), b)

(* One round of memcpy, at the size of a cell, or the move of a whole word. *)
Content(a) == IF a \in Enclave THEN mem[a] ELSE "host"
Public == {"data", "host", "zero", "one", "nop", "ret"}
Leaks(to, from) == to \notin Enclave /\ Content(from) \notin Public

CopyCell(t) ==
    /\ pc[t] = "memcpy"
    /\ LET to == Plus(dst[t], i[t])
           from == Plus(src[t], i[t])
       IN /\ mem' = IF to \in Enclave THEN [mem EXCEPT ![to] = Content(from)] ELSE mem
          /\ leaked' = (leaked \/ Leaks(to, from))
    /\ IF i[t] = 0
       THEN i' = [i EXCEPT ![t] = 1] /\ UNCHANGED pc
       ELSE i' = [i EXCEPT ![t] = 0] /\ Go(t, "leave")
    /\ UNCHANGED <<build, op, src, dst, astray, raced>>

MoveWord(t) ==
    /\ pc[t] = "move"
    /\ LET to == dst[t]
           from == src[t]
       IN /\ mem' = [a \in Enclave |->
                       IF a = to THEN Content(from)
                       ELSE IF a = Plus(to, 1) THEN Content(Plus(from, 1)) ELSE mem[a]]
          /\ leaked' = (leaked \/ Leaks(to, from) \/ Leaks(Plus(to, 1), Plus(from, 1)))
    /\ Go(t, "leave")
    /\ UNCHANGED <<build, op, src, dst, i, astray, raced>>

-----------------------------------------------------------------------------
(* get_from_unmeasured: level 4 resets the whole offset, level 3 its lower  *)
(* half, the levels below nothing.                                          *)
Reset ==
    IF Level(4) THEN [mem EXCEPT ![Unm] = "zero", ![Unm + 1] = "zero"]
    ELSE IF Level(3) THEN [mem EXCEPT ![Unm] = "one"] ELSE mem
ResetUnmeasured(t) ==
    /\ Begin(t, "get_from_unmeasured")
    /\ mem' = Reset
    /\ raced' = (raced \/ (mem' # mem /\ \E u \in Tcs : pc[u] \in {"fill", "run"}))
    /\ Go(t, "offset")
    /\ UNCHANGED <<build, op, src, dst, i, astray, leaked>>

(* src[offset], a displacement of 8 times the offset.  Offset 0 is           *)
(* encl_buffer.  With nops in the upper half it is no address at all; with  *)
(* nops in the lower half only it lies far beyond an enclave of this size.  *)
(* What nobody wrote, or the host did, is any number.                       *)
FaultyOffset == mem[Unm + 1] = "nop"
Sources ==
    IF mem[Unm + 1] # "zero" THEN Addresses
    ELSE IF mem[Unm] = "zero" THEN {Buf} ELSE {a \in Addresses : Outside(a, 2)}

ReadOffset(t) ==
    /\ pc[t] = "offset"
    /\ ~FaultyOffset
    /\ \E a \in Sources : src' = [src EXCEPT ![t] = a]
    /\ dst' = [dst EXCEPT ![t] = ValueAt(op[t])]
    /\ Go(t, "move")
    /\ UNCHANGED <<build, mem, op, i, astray, leaked, raced>>
ReadOffsetFaults(t) == FaultyOffset /\ Step(t, "offset", "lost")

(* call_addr: the address is read once, into a volatile variable.           *)
JumpTo(t, from, a) ==
    IF a = NopFn THEN Step(t, from, "leave")
    ELSE pc[t] = from /\ Stray(t, IF a \in Enclave THEN "enclave" ELSE "outside")
Callable(a) == (Level(4) => a = NopFn) /\ (Level(3) /\ ~Level(4) => Outside(a, 2))
CallAddr(t) ==
    /\ Begin(t, "call_addr")
    /\ \E a \in Addresses :
         IF Callable(a) THEN JumpTo(t, "call_addr", a) ELSE Step(t, "call_addr", "leave")

(* call_unmeasured: from level 2 on the buffer is filled with nops first,   *)
(* and every round of the loop also writes the ret behind them.             *)
CallUnmeasured(t) == Step(t, "call_unmeasured", IF Level(2) THEN "fill" ELSE "run")
(* Mutant: the loop runs once more.                                         *)
Fill_OneMore(t) ==
    /\ pc[t] = "fill"
    /\ mem' = [mem EXCEPT ![Unm + i[t]] = "nop", ![Unm + 2] = "ret"]
    /\ IF i[t] <= 1
       THEN i' = [i EXCEPT ![t] = @ + 1] /\ UNCHANGED pc
       ELSE i' = [i EXCEPT ![t] = 0] /\ Go(t, "run")
    /\ UNCHANGED <<build, op, src, dst, astray, leaked, raced>>
Fill(t) ==
    /\ pc[t] = "fill"
    /\ mem' = [mem EXCEPT ![Unm + i[t]] = "nop", ![Unm + 2] = "ret"]
    /\ IF i[t] = 0
       THEN i' = [i EXCEPT ![t] = 1] /\ UNCHANGED pc
       ELSE i' = [i EXCEPT ![t] = 0] /\ Go(t, "run")
    /\ UNCHANGED <<build, op, src, dst, astray, leaked, raced>>

Filled == mem[Unm] = "nop" /\ mem[Unm + 1] = "nop" /\ mem[Unm + 2] = "ret"
Run(t) == Filled /\ Step(t, "run", "leave")
RunAnything(t) == ~Filled /\ pc[t] = "run" /\ Stray(t, "enclave")

Nop(t) == Step(t, "nop", "leave")

(* call_non_exec: below level 4 the call of a data page faults.             *)
CallNonExec(t) == Step(t, "call_non_exec", IF Level(4) THEN "leave" ELSE "lost")

-----------------------------------------------------------------------------
Init ==
    /\ build \in Builds
    /\ mem = [a \in Enclave |->
                IF a \in {Buf, Buf + 1} THEN "data"
                ELSE IF a \in {Unm, Unm + 1, Unm + 2} THEN "unmeasured"
                ELSE IF a = NopFn THEN "code" ELSE "secret"]
    /\ pc = [t \in Tcs |-> "idle"]
    /\ op = [t \in Tcs |-> 0]
    /\ src = [t \in Tcs |-> 0]
    /\ dst = [t \in Tcs |-> 0]
    /\ i = [t \in Tcs |-> 0]
    /\ astray = {}
    /\ leaked = FALSE
    /\ raced = FALSE

Next ==
    \E t \in Tcs :
        \/ Enter(t) \/ Leave(t)
        \/ CheckHeader(t) \/ ReadType(t) \/ ReadIndex(t) \/ ReadIndexBeyond(t) \/ Refuse(t)
        \/ PutToBuf(t) \/ GetFromBuf(t) \/ PutToAddr(t) \/ GetFromAddr(t)
        \/ CopyCell(t) \/ MoveWord(t)
        \/ ResetUnmeasured(t) \/ ReadOffset(t) \/ ReadOffsetFaults(t)
        \/ CallAddr(t) \/ CallUnmeasured(t) \/ Fill(t) \/ Run(t) \/ RunAnything(t)
        \/ Nop(t) \/ CallNonExec(t)

Spec == Init /\ [][Next]_vars

-----------------------------------------------------------------------------
Labels == {"idle", "header", "type", "index", "memcpy", "move", "offset", "fill", "run",
           "leave", "lost", "nop", "call_unmeasured", "call_non_exec"} \cup DOMAIN Sizes
Kinds == Public \cup {"unmeasured", "code", "secret"} \cup Tcs
Cell == 0 .. M - 1

(* The state has its types.                                                 *)
TypeOK ==
    /\ build \in Builds
    /\ mem \in [Enclave -> Kinds]
    /\ pc \in [Tcs -> Labels]
    /\ op \in [Tcs -> Cell] /\ src \in [Tcs -> Cell] /\ dst \in [Tcs -> Cell]
    /\ i \in [Tcs -> 0 .. 1]
    /\ astray \subseteq {"frame", "table", "enclave", "outside"}
    /\ leaked \in BOOLEAN /\ raced \in BOOLEAN

(* From level 3 on, no operation writes to the enclave but to its two       *)
(* buffers: its code, its data and the frames of both TCSs stay what they   *)
(* are, whatever the host puts into the structures and when.                *)
PrivateIntact ==
    Level(3) =>
        /\ mem[NopFn] = "code"
        /\ \A a \in Private \ {NopFn} :
             mem[a] = "secret" \/ \E t \in Tcs : a = Frame[t] /\ mem[a] = t

(* At level 4, what is written to the host's memory comes from encl_buffer  *)
(* or from that memory itself, even if a second TCS uses the unmeasured     *)
(* buffer at the same time.                                                 *)
NoSecretOut == Level(4) => ~leaked

(* The array of operations is never left from level 2 on; from level 3 on   *)
(* nothing else in the enclave is jumped to and every call returns to its   *)
(* caller; at level 4 no jump goes astray at all.  No level prevents the    *)
(* race of two TCSs on the unmeasured buffer; what it costs at level 4 is a *)
(* jump into that buffer, and never one out of the enclave.                 *)
ControlKept ==
    /\ Level(2) => "table" \notin astray
    /\ Level(3) => "frame" \notin astray
    /\ Level(3) /\ ~raced => "enclave" \notin astray
    /\ Level(4) => astray \subseteq IF raced THEN {"enclave"} ELSE {}
=============================================================================
