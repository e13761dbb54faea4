---------------------------- MODULE SancusCorpus ----------------------------
(***************************************************************************)
(* The hand-written MSP430 modules of src/sancus/cfsan and ptrsan, each    *)
(* run by a caller that chooses every register, and the reports the two    *)
(* suites are there for.  A program is its instructions and the words of   *)
(* its secret section; it is "nor" when no report of its own suite may     *)
(* come from it and "rep" when one must.                                   *)
(*                                                                         *)
(* An address is a word number.  Secret sections start at D0, the code at  *)
(* T, one number per instruction, and the public section ends right after  *)
(* the last one.  Only the order and the regions of the addresses the      *)
(* programs were linked at are kept (main.elf: data at 0x200, text above   *)
(* 0x6c00); the odd 0x239 at which nor_asm_1 and nor_asm_2 begin their     *)
(* stack, inside their section, is a word of it.  A register holds a word  *)
(* and whether the caller chose it.                                        *)
(***************************************************************************)
EXTENDS Integers, Sequences

CONSTANTS
    Programs,   \* the programs to run, names of AllPrograms
    Words       \* the words a caller may put into a register or its memory

VARIABLES
    prog,       \* the program that runs
    pc,         \* the number of its next instruction
    reg,        \* registers, [v |-> word, t |-> chosen by the caller]
    mem,        \* the secret section
    cmp,        \* the outcome of the last cmp: destination against source
    flagged,    \* the suites that have something to report
    left,       \* has control left the module?
    given       \* the registers as the caller passed them

vars == <<prog, pc, reg, mem, cmp, flagged, left, given>>

D0 == 20
T == 30
W1234 == 25     \* 0x1234, between the data and the code
W6c0a == T - 1  \* 0x6c0a, the word before the code
Opcode == 28    \* what a word of code reads as; 0x5e0f is outside, executable
Const == 99     \* any other constant of the programs (0xdead, 420, ...)
Registers == {"r1", "r4", "r6", "r7", "r8", "r10", "r11", "r12", "r13", "r14", "r15"}

-----------------------------------------------------------------------------
(* Notation of the programs.  L(k) is the address of instruction k.         *)
L(k) == T + k - 1
Imm(n) == <<"imm", n>>
Reg(r) == <<"reg", r>>
At(r) == <<"at", r>>
Mem(a) == <<"mem", a>>
Nop == <<"nop">>
Mov(s, d) == <<"mov", s, d>>
Add(s, r) == <<"add", s, r>>
Cmp(s, r) == <<"cmp", s, r>>
Jmp(a) == <<"jmp", a>>
Jif(c, a) == <<"jif", a, c>>
Br(s) == <<"br", s>>
Push(r) == <<"push", r>>
Pop(r) == <<"pop", r>>
Call(s) == <<"call", s>>
Ret == <<"ret">>
Program(chosen, data, code) == [chosen |-> chosen, data |-> data, code |-> code]

EQ == {"eq"}
LT == {"lt"}
GE == {"eq", "gt"}

-----------------------------------------------------------------------------
(* src/sancus/cfsan                                                         *)

nor_asm_br_within_encl_0 == Program({"r15"}, <<0>>,
    <<Cmp(Imm(1), "r15"), Jif(EQ, L(6)), Mov(Imm(L(6)), Reg("r15")),
      Br(Reg("r15")), Jmp(L(8)), Mov(Imm(Const), Reg("r15")), Jmp(L(8))>>)

nor_asm_br_within_encl_1 == Program({"r15"}, <<>>,
    <<Mov(Imm(0), Reg("r10")), Mov(Imm(0), Reg("r11")), Mov(Imm(0), Reg("r12")),
      Br(Imm(L(5))), Add(Imm(10), "r15"), Nop, Br(Imm(L(8))), Jmp(L(9))>>)

PrivateStackCall == Program({"r1"}, <<0, 0, 0, 0>>,
    <<Mov(Imm(10), Reg("r14")), Mov(Imm(Const), Reg("r15")), Mov(Reg("r1"), Reg("r4")),
      Mov(Imm(D0 + 3), Reg("r1")), Push("r4"), Call(Imm(L(9))), Pop("r1"),
      Br(Imm(W6c0a)), Add(Reg("r14"), "r15"), Ret>>)

nor_asm_call_c_func_with_priv_stack == PrivateStackCall

(* Mutant: the last jump is missing, as the comment in the file warns.      *)
nor_asm_example_baseEnclave_Silent == Program({"r15"}, <<W1234, 0, Const>>,
    <<Nop, Cmp(Imm(0), "r15"), Jif(EQ, L(6)), Mov(Imm(Const), Reg("r15")), Jmp(L(7)),
      Mov(Imm(Const), Reg("r15"))>>)
nor_asm_example_baseEnclave == Program({"r15"}, <<W1234, 0, Const>>,
    <<Nop, Cmp(Imm(0), "r15"), Jif(EQ, L(6)), Mov(Imm(Const), Reg("r15")), Jmp(L(8)),
      Mov(Imm(Const), Reg("r15")), Jmp(L(8))>>)

nor_asm_if_else == Program({"r1", "r11", "r15"}, <<>>,
    <<Push("r15"), Mov(Imm(99), Reg("r12")), Pop("r15"), Cmp(Imm(0), "r11"),
      Jif(EQ, L(11)), Mov(Imm(Const), Reg("r10")), Cmp(Imm(10), "r15"),
      Jif(GE, L(13)), Add(Imm(420), "r15"), Jmp(L(15)), Add(Imm(1), "r15"),
      Jmp(L(15)), Add(Imm(-1), "r15"), Jmp(L(15))>>)

nor_asm_jmp_within_encl == Program({"r15"}, <<>>,
    <<Mov(Imm(0), Reg("r10")), Mov(Imm(0), Reg("r11")), Mov(Imm(0), Reg("r12")),
      Jmp(L(5)), Add(Imm(10), "r15"), Nop, Jmp(L(8)), Jmp(L(9))>>)

nor_asm_ret_int == Program({"r1"}, <<>>, <<Mov(Imm(Const), Reg("r15")), Jmp(L(3))>>)

nor_asm_test == Program({"r6", "r7", "r8"}, <<>>,
    <<Nop, Nop, Cmp(Imm(0), "r6"), Jif(EQ, L(15)), Cmp(Imm(0), "r7"),
      Jif(EQ, L(15)), Cmp(Imm(0), "r8"), Jif(EQ, L(12)), Nop, Nop, Br(Imm(L(15))),
      Mov(Imm(18), Reg("r8")), Nop, Jmp(L(15))>>)

(* Mutant: the file was copied from nor_asm_example_baseEnclave unchanged.  *)
rep_asm_bb_cross_enclave_boundary_0_Copy == nor_asm_example_baseEnclave
rep_asm_bb_cross_enclave_boundary_0 == Program({"r15"}, <<W1234, 0, Const>>,
    <<Nop, Cmp(Imm(0), "r15"), Jif(EQ, L(6)), Mov(Imm(Const), Reg("r15")),
      Jmp(L(7)), Mov(Imm(Const), Reg("r15"))>>)

FallsThrough == Program({"r1"}, <<>>,
    <<Nop, Nop, Mov(Imm(1), Reg("r15")), Mov(Imm(2), Reg("r14"))>>)

rep_asm_bb_cross_enclave_boundary_1 == FallsThrough
rep_asm_bb_cross_enclave_boundary_2 == FallsThrough
rep_asm_bb_cross_enclave_boundary_3 == FallsThrough
rep_asm_bb_cross_enclave_boundary_4 == FallsThrough

rep_asm_bb_cross_enclave_boundary_5 == Program({"r1"}, <<>>,
    <<Nop, Nop, Mov(Imm(1), Reg("r15")), Mov(Imm(2), Reg("r14")), Call(Mem(L(6))),
      Add(Reg("r14"), "r15")>>)

rep_asm_br_to_attacker_addr == Program({"r15"}, <<0>>,
    <<Cmp(Imm(1), "r15"), Jif(EQ, L(5)), Br(Reg("r15")), Jmp(L(7)),
      Mov(Imm(Const), Reg("r15")), Jmp(L(7))>>)

NoPrivateStackCall == Program({"r1"}, <<0, 0, 0, 0>>,
    <<Mov(Imm(10), Reg("r14")), Mov(Imm(Const), Reg("r15")), Call(Imm(L(5))),
      Br(Imm(W6c0a)), Add(Reg("r14"), "r15"), Ret>>)

rep_asm_call_func_in_encl_no_priv_stack_0 == NoPrivateStackCall

rep_asm_call_func_in_encl_no_priv_stack_1 == Program({"r1"}, <<>>,
    <<Nop, Nop, Mov(Imm(1), Reg("r15")), Mov(Imm(2), Reg("r14")), Call(Mem(L(7))),
      Jmp(L(11)), Add(Reg("r14"), "r15"), Ret>>)

rep_asm_jmp_to_non_exec_mem_0 == Program({"r1"}, <<0>>, <<Br(Imm(D0)), Jmp(L(3))>>)

rep_asm_jmp_to_non_exec_mem_1 == Program({"r1"}, <<>>, <<Br(Imm(0))>>)

rep_asm_ret == Program({"r1", "r15"}, <<0>>,
    <<Cmp(Imm(1), "r15"), Nop, Mov(Imm(10), Reg("r14")), Add(Imm(100), "r14"), Ret>>)

rep_asm_tainted_br_inside_encl == Program({"r15"}, <<>>,
    <<Cmp(Imm(L(6)), "r15"), Jif(LT, L(11)), Cmp(Imm(L(8)), "r15"), Jif(GE, L(11)),
      Br(Reg("r15")), Nop, Nop, Nop, Nop, Jmp(L(11))>>)

-----------------------------------------------------------------------------
(* src/sancus/ptrsan                                                        *)

nor_asm_0 == Program({"r1"}, <<>>, <<Nop, Nop, Jmp(L(4))>>)

(* Mutant: leaves without switching back to the caller's stack.             *)
nor_asm_1_NoPop == Program({"r1"}, <<0, 0, 0, 0>>,
    <<Mov(Imm(W1234 - 1), Reg("r15")), Mov(Reg("r1"), Reg("r11")),
      Mov(Imm(D0 + 3), Reg("r1")), Push("r11"), Call(Imm(L(7))), Jmp(L(9)),
      Add(Imm(1), "r15"), Ret>>)
nor_asm_1 == Program({"r1"}, <<0, 0, 0, 0>>,
    <<Mov(Imm(W1234 - 1), Reg("r15")), Mov(Reg("r1"), Reg("r11")),
      Mov(Imm(D0 + 3), Reg("r1")), Push("r11"), Call(Imm(L(8))), Pop("r1"), Jmp(L(10)),
      Add(Imm(1), "r15"), Ret>>)

nor_asm_2 == Program({"r1", "r14"}, <<0, 0, 0, 0>>,
    <<Mov(Imm(W1234 - 1), Reg("r15")), Mov(Reg("r1"), Reg("r11")),
      Mov(Imm(D0 + 3), Reg("r1")), Push("r11"), Call(Imm(L(10))), Push("r14"), Ret,
      Pop("r1"), Jmp(L(12)), Add(Imm(1), "r15"), Ret>>)

rep_asm_mov_secret_to_attacker_addr == Program({"r1", "r13"}, <<W1234, 0, 0>>,
    <<Mov(Imm(W1234 - 1), Reg("r15")), Mov(Imm(D0), At("r13")), Call(Imm(L(6))),
      Pop("r1"), Jmp(L(8)), Add(Imm(1), "r15"), Ret>>)

rep_asm_non_tainted_read_outside_encl == Program({"r15"}, <<>>,
    <<Nop, Nop, Mov(Imm(W6c0a), Reg("r14")), Mov(At("r14"), Reg("r15")),
      Nop, Nop, Nop, Jmp(L(9))>>)

rep_asm_non_tainted_write_outside_encl == Program({"r15"}, <<>>,
    <<Mov(Imm(W6c0a), Reg("r15")), Mov(Imm(W1234), At("r15")), Nop, Nop, Nop, Jmp(L(7))>>)

rep_asm_tainted_read_inside_encl_absaddr == Program({"r15"}, <<>>,
    <<Cmp(Imm(L(1)), "r15"), Jif(LT, L(7)), Cmp(Imm(L(11)), "r15"), Jif(GE, L(7)),
      Mov(At("r15"), Reg("r14")), Jmp(L(7))>>)

rep_asm_tainted_read_inside_encl_reladdr == Program({"r15"}, <<0, 0, 0, 0>>,
    <<Cmp(Mem(D0), "r15"), Jif(LT, L(9)), Mov(Mem(D0), Reg("r14")),
      Add(Imm(5), "r14"), Cmp(Reg("r14"), "r15"), Jif(GE, L(9)),
      Mov(At("r15"), Reg("r14")), Jmp(L(9))>>)

rep_asm_tainted_write_inside_encl_absaddr == Program({"r13", "r15"}, <<>>,
    <<Cmp(Imm(L(1)), "r15"), Jif(LT, L(9)), Cmp(Imm(L(6)), "r15"), Jif(GE, L(9)),
      Nop, Nop, Mov(Reg("r13"), At("r15")), Jmp(L(9))>>)

rep_asm_tainted_write_inside_encl_reladdr == Program({"r13", "r15"}, <<W1234, 0, Const>>,
    <<Cmp(Mem(D0), "r15"), Jif(LT, L(9)), Mov(Mem(D0), Reg("r14")),
      Add(Imm(5), "r14"), Cmp(Reg("r14"), "r15"), Jif(GE, L(9)),
      Mov(Reg("r13"), At("r15")), Jmp(L(9))>>)

rep_asm_unconstrained_read == Program({"r1"}, <<W1234, 0, Const>>,
    <<Pop("r13"), Nop, Nop, Jmp(L(5))>>)

rep_asm_unconstrained_read_1 == rep_asm_ret

rep_asm_unconstrained_rw == NoPrivateStackCall

rep_asm_unconstrained_write == Program({"r15"}, <<W1234, 0, Const>>,
    <<Mov(Imm(W1234), At("r15")), Nop, Nop, Nop, Jmp(L(6))>>)

ptr_underConst == Program({"r1", "r13"}, <<W1234, 0, Const>>,
    <<Push("r13"), Nop, Nop, Jmp(L(5))>>)

-----------------------------------------------------------------------------
(* The two suites.  A program is in a suite when its directory is.          *)

CfNor == [nor_asm_br_within_encl_0 |-> nor_asm_br_within_encl_0,
    nor_asm_br_within_encl_1 |-> nor_asm_br_within_encl_1,
    nor_asm_call_c_func_with_priv_stack |-> nor_asm_call_c_func_with_priv_stack,
    nor_asm_example_baseEnclave |-> nor_asm_example_baseEnclave,
    nor_asm_if_else |-> nor_asm_if_else,
    nor_asm_jmp_within_encl |-> nor_asm_jmp_within_encl,
    nor_asm_ret_int |-> nor_asm_ret_int, nor_asm_test |-> nor_asm_test]

CfRep == [rep_asm_bb_cross_enclave_boundary_0 |-> rep_asm_bb_cross_enclave_boundary_0,
    rep_asm_bb_cross_enclave_boundary_1 |-> rep_asm_bb_cross_enclave_boundary_1,
    rep_asm_bb_cross_enclave_boundary_2 |-> rep_asm_bb_cross_enclave_boundary_2,
    rep_asm_bb_cross_enclave_boundary_3 |-> rep_asm_bb_cross_enclave_boundary_3,
    rep_asm_bb_cross_enclave_boundary_4 |-> rep_asm_bb_cross_enclave_boundary_4,
    rep_asm_bb_cross_enclave_boundary_5 |-> rep_asm_bb_cross_enclave_boundary_5,
    rep_asm_br_to_attacker_addr |-> rep_asm_br_to_attacker_addr,
    rep_asm_call_func_in_encl_no_priv_stack_0 |-> rep_asm_call_func_in_encl_no_priv_stack_0,
    rep_asm_call_func_in_encl_no_priv_stack_1 |-> rep_asm_call_func_in_encl_no_priv_stack_1,
    rep_asm_jmp_to_non_exec_mem_0 |-> rep_asm_jmp_to_non_exec_mem_0,
    rep_asm_jmp_to_non_exec_mem_1 |-> rep_asm_jmp_to_non_exec_mem_1,
    rep_asm_ret |-> rep_asm_ret,
    rep_asm_tainted_br_inside_encl |-> rep_asm_tainted_br_inside_encl]

PtrNor == [nor_asm_0 |-> nor_asm_0, nor_asm_1 |-> nor_asm_1, nor_asm_2 |-> nor_asm_2,
    nor_asm_call_c_func_with_priv_stack |-> nor_asm_call_c_func_with_priv_stack]

PtrRep == [rep_asm_mov_secret_to_attacker_addr |-> rep_asm_mov_secret_to_attacker_addr,
    rep_asm_non_tainted_read_outside_encl |-> rep_asm_non_tainted_read_outside_encl,
    rep_asm_non_tainted_write_outside_encl |-> rep_asm_non_tainted_write_outside_encl,
    rep_asm_tainted_read_inside_encl_absaddr |-> rep_asm_tainted_read_inside_encl_absaddr,
    rep_asm_tainted_read_inside_encl_reladdr |-> rep_asm_tainted_read_inside_encl_reladdr,
    rep_asm_tainted_write_inside_encl_absaddr |-> rep_asm_tainted_write_inside_encl_absaddr,
    rep_asm_tainted_write_inside_encl_reladdr |-> rep_asm_tainted_write_inside_encl_reladdr,
    rep_asm_unconstrained_read |-> rep_asm_unconstrained_read,
    rep_asm_unconstrained_read_1 |-> rep_asm_unconstrained_read_1,
    rep_asm_unconstrained_rw |-> rep_asm_unconstrained_rw,
    rep_asm_unconstrained_write |-> rep_asm_unconstrained_write,
    ptr_underConst |-> ptr_underConst]

Joined(f, g) == [n \in DOMAIN f \cup DOMAIN g |-> IF n \in DOMAIN f THEN f[n] ELSE g[n]]
AllPrograms == Joined(CfNor, Joined(CfRep, Joined(PtrNor, PtrRep)))

ASSUME CorpusAssumption == Programs \subseteq DOMAIN AllPrograms /\ Words \subseteq Int

-----------------------------------------------------------------------------
(* Memory and operands.  A word the module wrote itself is not chosen by    *)
(* the caller, every word it reads from outside is.                         *)

Code == AllPrograms[prog].code
Text == T .. T + Len(Code) - 1
Data == DOMAIN mem
InEnclave(a) == a \in Text \cup Data
Exec(a) == a >= Opcode      \* the hosts' code lies around the module's

Given(n) == [v |-> n, t |-> FALSE]
Chosen(n) == [v |-> n, t |-> TRUE]
Plus(x, n) == [x EXCEPT !.v = @ + n]

Address(s) == IF s[1] = "at" THEN reg[s[2]] ELSE Given(s[2])
Loads(a) ==
    CASE a \in Data -> {mem[a]}
      [] a \in Text -> {Given(Opcode)}
      [] OTHER -> {Chosen(w) : w \in Words}
Values(s) ==
    CASE s[1] = "imm" -> {Given(s[2])}
      [] s[1] = "reg" -> {reg[s[2]]}
      [] OTHER -> Loads(Address(s).v)
Store(a, x) == mem' = IF a \in Data THEN [mem EXCEPT ![a] = x] ELSE mem

(* The reports of the two suites, for one step of one run: the caller's     *)
(* address used for memory of the module, or an address of the module's     *)
(* own for memory outside it; a jump to the caller's address or to memory   *)
(* that is not executable; leaving without a jump.                          *)
OfPointer(x) == IF x.t = InEnclave(x.v) THEN {"ptr"} ELSE {}
OfOperand(s) == IF s[1] \in {"at", "mem"} THEN OfPointer(Address(s)) ELSE {}
OfTarget(x) == IF x.t \/ ~Exec(x.v) THEN {"cf"} ELSE {}
OfEnd == IF pc = Len(Code) THEN {"cf"} ELSE {}

(* Mutant: the end of the code is not noticed.                              *)
Continue_Endless(reports) ==
    flagged' = flagged \cup reports /\ left' = left /\ pc' = pc + 1
Continue(reports) ==
    /\ flagged' = flagged \cup reports \cup OfEnd
    /\ left' = (pc = Len(Code))
    /\ pc' = IF pc = Len(Code) THEN pc ELSE pc + 1
Goto(x, reports) ==
    /\ flagged' = flagged \cup reports \cup OfTarget(x)
    /\ left' = (x.v \notin Text)
    /\ pc' = IF x.v \in Text THEN x.v - T + 1 ELSE pc

-----------------------------------------------------------------------------
(* One action for every kind of instruction the programs are made of.       *)
(* A run ends when control has left the module, or has been reported:       *)
(* what follows a jump of the caller's choosing is the caller's program.    *)
Ended == left \/ "cf" \in flagged
Ins == Code[pc]
Is(op) == ~Ended /\ Ins[1] = op /\ UNCHANGED <<prog, given>>

DoNop == Is("nop") /\ Continue({}) /\ UNCHANGED <<reg, mem, cmp>>

DoMov ==
    /\ Is("mov")
    /\ \E x \in Values(Ins[2]) :
         IF Ins[3][1] = "reg"
         THEN reg' = [reg EXCEPT ![Ins[3][2]] = x] /\ UNCHANGED mem
         ELSE Store(Address(Ins[3]).v, x) /\ UNCHANGED reg
    /\ Continue(OfOperand(Ins[2]) \cup OfOperand(Ins[3]))
    /\ UNCHANGED cmp

DoAdd ==
    /\ Is("add")
    /\ \E x \in Values(Ins[2]) :
         reg' = [reg EXCEPT ![Ins[3]] = [v |-> @.v + x.v, t |-> @.t \/ x.t]]
    /\ Continue(OfOperand(Ins[2]))
    /\ UNCHANGED <<mem, cmp>>

DoCmp ==
    /\ Is("cmp")
    /\ \E x \in Values(Ins[2]) :
         cmp' = LET d == reg[Ins[3]].v - x.v
                IN IF d = 0 THEN "eq" ELSE IF d < 0 THEN "lt" ELSE "gt"
    /\ Continue(OfOperand(Ins[2]))
    /\ UNCHANGED <<reg, mem>>

DoJump ==
    /\ Is("jmp") \/ (Is("jif") /\ cmp \in Ins[3])
    /\ Goto(Given(Ins[2]), {})
    /\ UNCHANGED <<reg, mem, cmp>>

DoNotJump == Is("jif") /\ cmp \notin Ins[3] /\ Continue({}) /\ UNCHANGED <<reg, mem, cmp>>

DoBr ==
    /\ Is("br")
    /\ \E x \in Values(Ins[2]) : Goto(x, OfOperand(Ins[2]))
    /\ UNCHANGED <<reg, mem, cmp>>

Top == Plus(reg["r1"], -1)

DoPush ==
    /\ Is("push")
    /\ reg' = [reg EXCEPT !["r1"] = Top]
    /\ Store(Top.v, reg[Ins[2]])
    /\ Continue(OfPointer(Top))
    /\ UNCHANGED cmp

DoCall ==
    /\ Is("call")
    /\ \E x \in Values(Ins[2]) : Goto(x, OfOperand(Ins[2]) \cup OfPointer(Top))
    /\ reg' = [reg EXCEPT !["r1"] = Top]
    /\ Store(Top.v, Given(L(pc + 1)))
    /\ UNCHANGED cmp

(* The new r1 is the word read when the popped register is r1 itself.       *)
DoPop ==
    /\ Is("pop")
    /\ \E x \in Loads(reg["r1"].v) :
         reg' = [reg EXCEPT !["r1"] = Plus(@, 1), ![Ins[2]] = x]
    /\ Continue(OfPointer(reg["r1"]))
    /\ UNCHANGED <<mem, cmp>>

DoRet ==
    /\ Is("ret")
    /\ \E x \in Loads(reg["r1"].v) : Goto(x, OfPointer(reg["r1"]))
    /\ reg' = [reg EXCEPT !["r1"] = Plus(@, 1)]
    /\ UNCHANGED <<mem, cmp>>

Init ==
    /\ prog \in Programs
    /\ pc = 1
    /\ \E choice \in [AllPrograms[prog].chosen -> Words] :
         reg = [r \in Registers |-> IF r \in DOMAIN choice THEN Chosen(choice[r]) ELSE Given(0)]
    /\ mem = [a \in D0 .. D0 + Len(AllPrograms[prog].data) - 1
                |-> Given(AllPrograms[prog].data[a - D0 + 1])]
    /\ cmp = "eq"
    /\ flagged = {}
    /\ left = FALSE
    /\ given = [r \in Registers |-> reg[r].v]

Next ==
    DoNop \/ DoMov \/ DoAdd \/ DoCmp \/ DoJump \/ DoNotJump \/ DoBr \/ DoPush \/ DoPop
        \/ DoCall \/ DoRet

Spec == Init /\ [][Next]_vars

-----------------------------------------------------------------------------
Suites == {"cf", "ptr"}
Word == [v : Int, t : BOOLEAN]

(* The state has its types: control stays on an instruction of the program  *)
(* and the secret section keeps its bounds.                                 *)
TypeOK ==
    /\ prog \in Programs
    /\ pc \in 1 .. Len(Code)
    /\ DOMAIN reg = Registers /\ \A r \in Registers : reg[r] \in Word
    /\ \A a \in Data : mem[a] \in Word
    /\ cmp \in {"lt", "eq", "gt"}
    /\ flagged \subseteq Suites
    /\ left \in BOOLEAN

(* The programs named nor never give their suite anything to report, on no  *)
(* path and for no registers of the caller (README.md of the two suites).   *)
NorClean ==
    /\ prog \in DOMAIN CfNor => "cf" \notin flagged
    /\ prog \in DOMAIN PtrNor => "ptr" \notin flagged

(* A nor program leaves the caller's stack pointer behind: those that       *)
(* switch to a stack of their own switch back before they leave (the ret to *)
(* the caller comes after, outside).  The exception is nor_asm_2: it        *)
(* returns to the word the caller passed in r14 before it gets to its pop,  *)
(* and ends on its own stack, always, with the caller's pointer as the next *)
(* word there.                                                              *)
ReturnsOnCallersStack ==
    /\ left /\ prog \in (DOMAIN CfNor \cup DOMAIN PtrNor) \ {"nor_asm_2"}
          => reg["r1"].v = given["r1"]
    /\ Ended /\ prog = "nor_asm_2"
          => reg["r1"] = Given(D0 + 2) /\ mem[D0 + 2].v = given["r1"]

(* The arguments for which a program named rep has to be reported.  There   *)
(* are none for the four whose operand lacks its #: on the processor, the   *)
(* reladdr programs compare r15 with a word of the section, not with its    *)
(* address, and boundary_5 and no_priv_stack_1 call what that word says.    *)
Provoked ==
    \/ prog \in {"rep_asm_bb_cross_enclave_boundary_1", "rep_asm_bb_cross_enclave_boundary_2",
                 "rep_asm_bb_cross_enclave_boundary_3", "rep_asm_bb_cross_enclave_boundary_4",
                 "rep_asm_jmp_to_non_exec_mem_0", "rep_asm_jmp_to_non_exec_mem_1",
                 "rep_asm_non_tainted_read_outside_encl", "rep_asm_non_tainted_write_outside_encl"}
    \/ prog = "rep_asm_bb_cross_enclave_boundary_0" /\ given["r15"] = 0
    \/ prog = "rep_asm_br_to_attacker_addr" /\ given["r15"] # 1
    \/ prog = "rep_asm_tainted_br_inside_encl" /\ given["r15"] \in L(6) .. L(7)
    \/ prog = "rep_asm_call_func_in_encl_no_priv_stack_0" /\ ~InEnclave(given["r1"] - 1)
    \/ prog = "rep_asm_ret" /\ ~InEnclave(given["r1"])
    \/ prog = "rep_asm_mov_secret_to_attacker_addr" /\ InEnclave(given["r13"])
    \/ prog \in {"rep_asm_tainted_read_inside_encl_absaddr", "rep_asm_unconstrained_write"}
         /\ InEnclave(given["r15"])
    \/ prog = "rep_asm_tainted_write_inside_encl_absaddr" /\ given["r15"] \in L(1) .. L(5)
    \/ prog \in {"rep_asm_unconstrained_read", "rep_asm_unconstrained_read_1"}
         /\ InEnclave(given["r1"])
    \/ prog \in {"rep_asm_unconstrained_rw", "ptr_underConst"} /\ InEnclave(given["r1"] - 1)

(* A program named rep does what its suite is to report, on every path on   *)
(* which the caller gives it an argument that provokes it.                  *)
RepFlagged ==
    Ended /\ Provoked =>
        /\ prog \in DOMAIN CfRep => "cf" \in flagged
        /\ prog \in DOMAIN PtrRep => "ptr" \in flagged
=============================================================================
