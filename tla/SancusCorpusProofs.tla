------------------------- MODULE SancusCorpusProofs -------------------------
(***************************************************************************)
(* Theorems about the hand-written MSP430 modules, for any words the       *)
(* caller may put into registers and memory.                               *)
(***************************************************************************)
EXTENDS SancusCorpus, TLAPS

-----------------------------------------------------------------------------
(* What an instruction is.                                                  *)
Immediates == {<<"imm", n>> : n \in Int}
Absolutes == {<<"mem", n>> : n \in Int}
InRegister == {<<"reg", r>> : r \in Registers}
Indirect == {<<"at", r>> : r \in Registers}
Operands == Immediates \cup Absolutes \cup InRegister \cup Indirect

Outcomes == {"lt", "eq", "gt"}
Moves == {<<"mov", s, d>> : s \in Operands, d \in InRegister \cup Indirect}
Arith == {<<"add", s, r>> : s \in Operands, r \in Registers}
Tests == {<<"cmp", s, r>> : s \in Operands, r \in Registers}
Jumps == {<<"jmp", a>> : a \in Int}
Ifs == {<<"jif", a, c>> : a \in Int, c \in SUBSET Outcomes}
Branches == {<<"br", s>> : s \in Operands}
Calls == {<<"call", s>> : s \in Operands}
Pushes == {<<"push", r>> : r \in Registers}
Pops == {<<"pop", r>> : r \in Registers}
Instructions ==
    {<<"nop">>, <<"ret">>} \cup Moves \cup Arith \cup Tests \cup Jumps \cup Ifs
        \cup Branches \cup Calls \cup Pushes \cup Pops

WellFormed(p) ==
    /\ p.code \in Seq(Instructions) /\ Len(p.code) > 0
    /\ p.data \in Seq(Int)
    /\ p.chosen \subseteq Registers

LEMMA Constants ==
    /\ D0 \in Int /\ T \in Int /\ W1234 \in Int /\ W6c0a \in Int /\ Const \in Int
    /\ EQ \in SUBSET Outcomes /\ LT \in SUBSET Outcomes /\ GE \in SUBSET Outcomes
    /\ \A k \in Int : L(k) \in Int
  BY SMT DEF D0, T, W1234, W6c0a, Const, EQ, LT, GE, Outcomes, L

LEMMA OperandForms ==
    /\ \A n \in Int : Imm(n) \in Operands /\ Mem(n) \in Operands
    /\ \A r \in Registers : Reg(r) \in Operands /\ At(r) \in Operands
    /\ \A r \in Registers : Reg(r) \in InRegister \cup Indirect
    /\ \A r \in Registers : At(r) \in InRegister \cup Indirect
  BY Zenon DEF Imm, Reg, At, Mem, Operands, Immediates, Absolutes, InRegister, Indirect

LEMMA Forms ==
    /\ Nop \in Instructions /\ Ret \in Instructions
    /\ \A s \in Operands, r \in Registers :
          Mov(s, Reg(r)) \in Instructions /\ Mov(s, At(r)) \in Instructions
    /\ \A s \in Operands, r \in Registers :
          Add(s, r) \in Instructions /\ Cmp(s, r) \in Instructions
    /\ \A a \in Int : Jmp(a) \in Instructions
    /\ \A a \in Int, c \in SUBSET Outcomes : Jif(c, a) \in Instructions
    /\ \A s \in Operands : Br(s) \in Instructions /\ Call(s) \in Instructions
    /\ \A r \in Registers : Push(r) \in Instructions /\ Pop(r) \in Instructions
<1>1. \A s \in Operands, d \in InRegister \cup Indirect : Mov(s, d) \in Moves
  BY SMT DEF Mov, Moves
<1>2. \A s \in Operands, r \in Registers : Add(s, r) \in Arith /\ Cmp(s, r) \in Tests
  BY SMT DEF Add, Cmp, Arith, Tests
<1>3. /\ \A a \in Int : Jmp(a) \in Jumps
      /\ \A a \in Int, c \in SUBSET Outcomes : Jif(c, a) \in Ifs
  BY SMT DEF Jmp, Jif, Jumps, Ifs
<1>4. /\ \A s \in Operands : Br(s) \in Instructions /\ Call(s) \in Instructions
      /\ \A r \in Registers : Push(r) \in Instructions /\ Pop(r) \in Instructions
      /\ Nop \in Instructions /\ Ret \in Instructions
  BY Zenon DEF Instructions, Br, Call, Push, Pop, Nop, Ret, Branches, Calls, Pushes, Pops
<1> QED
  BY <1>1, <1>2, <1>3, <1>4, OperandForms, Zenon DEF Instructions

LEMMA ProgramsAreWellFormed == \A n \in DOMAIN AllPrograms : WellFormed(AllPrograms[n])
<1>1. WellFormed(nor_asm_br_within_encl_0)
  BY Forms, OperandForms, Constants, SMT DEF nor_asm_br_within_encl_0, Program, WellFormed, Registers
<1>2. WellFormed(nor_asm_br_within_encl_1)
  BY Forms, OperandForms, Constants, SMT DEF nor_asm_br_within_encl_1, Program, WellFormed, Registers
<1>3. WellFormed(PrivateStackCall)
  BY Forms, OperandForms, Constants, SMT DEF PrivateStackCall, Program, WellFormed, Registers
<1>4. WellFormed(nor_asm_example_baseEnclave)
  BY Forms, OperandForms, Constants, SMT DEF nor_asm_example_baseEnclave, Program, WellFormed, Registers
<1>5. WellFormed(nor_asm_if_else)
  BY Forms, OperandForms, Constants, SMT DEF nor_asm_if_else, Program, WellFormed, Registers
<1>6. WellFormed(nor_asm_jmp_within_encl)
  BY Forms, OperandForms, Constants, SMT DEF nor_asm_jmp_within_encl, Program, WellFormed, Registers
<1>7. WellFormed(nor_asm_ret_int)
  BY Forms, OperandForms, Constants, SMT DEF nor_asm_ret_int, Program, WellFormed, Registers
<1>8. WellFormed(nor_asm_test)
  BY Forms, OperandForms, Constants, SMT DEF nor_asm_test, Program, WellFormed, Registers
<1>9. WellFormed(rep_asm_bb_cross_enclave_boundary_0)
  BY Forms, OperandForms, Constants, SMT DEF rep_asm_bb_cross_enclave_boundary_0, Program, WellFormed, Registers
<1>10. WellFormed(FallsThrough)
  BY Forms, OperandForms, Constants, SMT DEF FallsThrough, Program, WellFormed, Registers
<1>11. WellFormed(rep_asm_bb_cross_enclave_boundary_5)
  BY Forms, OperandForms, Constants, SMT DEF rep_asm_bb_cross_enclave_boundary_5, Program, WellFormed, Registers
<1>12. WellFormed(rep_asm_br_to_attacker_addr)
  BY Forms, OperandForms, Constants, SMT DEF rep_asm_br_to_attacker_addr, Program, WellFormed, Registers
<1>13. WellFormed(NoPrivateStackCall)
  BY Forms, OperandForms, Constants, SMT DEF NoPrivateStackCall, Program, WellFormed, Registers
<1>14. WellFormed(rep_asm_call_func_in_encl_no_priv_stack_1)
  BY Forms, OperandForms, Constants, SMT DEF rep_asm_call_func_in_encl_no_priv_stack_1, Program, WellFormed, Registers
<1>15. WellFormed(rep_asm_jmp_to_non_exec_mem_0)
  BY Forms, OperandForms, Constants, SMT DEF rep_asm_jmp_to_non_exec_mem_0, Program, WellFormed, Registers
<1>16. WellFormed(rep_asm_jmp_to_non_exec_mem_1)
  BY Forms, OperandForms, Constants, SMT DEF rep_asm_jmp_to_non_exec_mem_1, Program, WellFormed, Registers
<1>17. WellFormed(rep_asm_ret)
  BY Forms, OperandForms, Constants, SMT DEF rep_asm_ret, Program, WellFormed, Registers
<1>18. WellFormed(rep_asm_tainted_br_inside_encl)
  BY Forms, OperandForms, Constants, SMT DEF rep_asm_tainted_br_inside_encl, Program, WellFormed, Registers
<1>19. WellFormed(nor_asm_0)
  BY Forms, OperandForms, Constants, SMT DEF nor_asm_0, Program, WellFormed, Registers
<1>20. WellFormed(nor_asm_1)
  BY Forms, OperandForms, Constants, SMT DEF nor_asm_1, Program, WellFormed, Registers
<1>21. WellFormed(nor_asm_2)
  BY Forms, OperandForms, Constants, SMT DEF nor_asm_2, Program, WellFormed, Registers
<1>22. WellFormed(rep_asm_mov_secret_to_attacker_addr)
  BY Forms, OperandForms, Constants, SMT DEF rep_asm_mov_secret_to_attacker_addr, Program, WellFormed, Registers
<1>23. WellFormed(rep_asm_non_tainted_read_outside_encl)
  BY Forms, OperandForms, Constants, SMT DEF rep_asm_non_tainted_read_outside_encl, Program, WellFormed, Registers
<1>24. WellFormed(rep_asm_non_tainted_write_outside_encl)
  BY Forms, OperandForms, Constants, SMT DEF rep_asm_non_tainted_write_outside_encl, Program, WellFormed, Registers
<1>25. WellFormed(rep_asm_tainted_read_inside_encl_absaddr)
  BY Forms, OperandForms, Constants, SMT DEF rep_asm_tainted_read_inside_encl_absaddr, Program, WellFormed, Registers
<1>26. WellFormed(rep_asm_tainted_read_inside_encl_reladdr)
  BY Forms, OperandForms, Constants, SMT DEF rep_asm_tainted_read_inside_encl_reladdr, Program, WellFormed, Registers
<1>27. WellFormed(rep_asm_tainted_write_inside_encl_absaddr)
  BY Forms, OperandForms, Constants, SMT DEF rep_asm_tainted_write_inside_encl_absaddr, Program, WellFormed, Registers
<1>28. WellFormed(rep_asm_tainted_write_inside_encl_reladdr)
  BY Forms, OperandForms, Constants, SMT DEF rep_asm_tainted_write_inside_encl_reladdr, Program, WellFormed, Registers
<1>29. WellFormed(rep_asm_unconstrained_read)
  BY Forms, OperandForms, Constants, SMT DEF rep_asm_unconstrained_read, Program, WellFormed, Registers
<1>30. WellFormed(rep_asm_unconstrained_write)
  BY Forms, OperandForms, Constants, SMT DEF rep_asm_unconstrained_write, Program, WellFormed, Registers
<1>31. WellFormed(ptr_underConst)
  BY Forms, OperandForms, Constants, SMT DEF ptr_underConst, Program, WellFormed, Registers
<1>32. \A n \in DOMAIN CfNor : WellFormed(CfNor[n])
  BY <1>1, <1>2, <1>3, <1>4, <1>5, <1>6, <1>7, <1>8, SMT DEF CfNor, nor_asm_call_c_func_with_priv_stack
<1>33. \A n \in DOMAIN CfRep : WellFormed(CfRep[n])
  BY <1>9, <1>10, <1>11, <1>12, <1>13, <1>14, <1>15, <1>16, <1>17, <1>18, SMT DEF CfRep, rep_asm_bb_cross_enclave_boundary_1, rep_asm_bb_cross_enclave_boundary_2, rep_asm_bb_cross_enclave_boundary_3, rep_asm_bb_cross_enclave_boundary_4, rep_asm_call_func_in_encl_no_priv_stack_0
<1>34. \A n \in DOMAIN PtrNor : WellFormed(PtrNor[n])
  BY <1>3, <1>19, <1>20, <1>21, SMT DEF PtrNor, nor_asm_call_c_func_with_priv_stack
<1>35. \A n \in DOMAIN PtrRep : WellFormed(PtrRep[n])
  BY <1>13, <1>17, <1>22, <1>23, <1>24, <1>25, <1>26, <1>27, <1>28, <1>29, <1>30, <1>31, SMT DEF PtrRep, rep_asm_unconstrained_read_1, rep_asm_unconstrained_rw
<1> QED
  BY <1>32, <1>33, <1>34, <1>35, Zenon DEF AllPrograms, Joined

-----------------------------------------------------------------------------
(* Type correctness.                                                        *)
Bounded == Data = D0 .. D0 + Len(AllPrograms[prog].data) - 1
Typed == TypeOK /\ Bounded /\ given \in [Registers -> Int]

LEMMA TheProgram == ASSUME Typed PROVE WellFormed(AllPrograms[prog]) /\ Ins \in Instructions
<1>1. WellFormed(AllPrograms[prog])
  BY CorpusAssumption, ProgramsAreWellFormed, Zenon DEF Typed, TypeOK
<1>2. pc \in 1 .. Len(Code) /\ Code \in Seq(Instructions)
  BY <1>1, Zenon DEF WellFormed, Code, Typed, TypeOK
<1> QED
  BY <1>1, <1>2, SMT DEF Ins

(* The parts of an instruction, by its name.                                *)
LEMMA Parts ==
    ASSUME NEW i \in Instructions
    PROVE  /\ i[1] = "mov" => i[2] \in Operands /\ i[3] \in InRegister \cup Indirect
           /\ i[1] \in {"add", "cmp"} => i[2] \in Operands /\ i[3] \in Registers
           /\ i[1] \in {"jmp", "jif"} => i[2] \in Int
           /\ i[1] \in {"br", "call"} => i[2] \in Operands
           /\ i[1] \in {"push", "pop"} => i[2] \in Registers
<1>1. ASSUME i \in Moves PROVE i[1] = "mov" /\ i[2] \in Operands /\ i[3] \in InRegister \cup Indirect
  BY <1>1, SMT DEF Moves
<1>2. ASSUME i \in Arith \cup Tests
      PROVE  i[1] \in {"add", "cmp"} /\ i[2] \in Operands /\ i[3] \in Registers
  BY <1>2, SMT DEF Arith, Tests
<1>3. ASSUME i \in Jumps \cup Ifs PROVE i[1] \in {"jmp", "jif"} /\ i[2] \in Int
  BY <1>3, SMT DEF Jumps, Ifs
<1>4. ASSUME i \in Branches \cup Calls PROVE i[1] \in {"br", "call"} /\ i[2] \in Operands
  BY <1>4, SMT DEF Branches, Calls
<1>5. ASSUME i \in Pushes \cup Pops PROVE i[1] \in {"push", "pop"} /\ i[2] \in Registers
  BY <1>5, SMT DEF Pushes, Pops
<1>6. ASSUME i \in {<<"nop">>, <<"ret">>} PROVE i[1] \in {"nop", "ret"}
  BY <1>6, SMT
<1> QED
  BY <1>1, <1>2, <1>3, <1>4, <1>5, <1>6, SMT DEF Instructions

LEMMA OperandParts ==
    ASSUME NEW s \in Operands
    PROVE  /\ s[1] \in {"imm", "mem", "reg", "at"}
           /\ s[1] \in {"imm", "mem"} => s[2] \in Int
           /\ s[1] \in {"reg", "at"} => s[2] \in Registers
           /\ s \in InRegister \cup Indirect => s[1] \in {"reg", "at"}
  BY SMT DEF Operands, Immediates, Absolutes, InRegister, Indirect

LEMMA Registers1 == "r1" \in Registers
  BY Zenon DEF Registers

LEMMA WordForms ==
    /\ \A n \in Int : Given(n) \in Word /\ Chosen(n) \in Word
    /\ \A x \in Word : x.v \in Int /\ x.t \in BOOLEAN
    /\ \A x \in Word, n \in Int : Plus(x, n) \in Word /\ Plus(x, n).v = x.v + n /\ Plus(x, n).t = x.t
  BY SMT DEF Given, Chosen, Plus, Word

LEMMA LoadsAreWords == ASSUME Typed, NEW a PROVE Loads(a) \subseteq Word
<1>1. \A w \in Words : Chosen(w) \in Word
  BY WordForms, CorpusAssumption, SMT
<1>2. Given(Opcode) \in Word
  BY WordForms, SMT DEF Opcode
<1>3. a \in Data => mem[a] \in Word
  BY Zenon DEF Typed, TypeOK
<1> QED
  BY <1>1, <1>2, <1>3, SMT DEF Loads

LEMMA ValuesAreWords == ASSUME Typed, NEW s \in Operands PROVE Values(s) \subseteq Word
<1>1. s[1] = "imm" => Given(s[2]) \in Word
  BY OperandParts, WordForms, Zenon
<1>2. s[1] = "reg" => reg[s[2]] \in Word
  BY OperandParts, SMT DEF Typed, TypeOK
<1>3. Loads(Address(s).v) \subseteq Word
  BY LoadsAreWords, Zenon
<1> QED
  BY <1>1, <1>2, <1>3, SMT DEF Values

LEMMA RegistersTyped == ASSUME Typed, NEW r \in Registers PROVE reg[r] \in Word
  BY Zenon DEF Typed, TypeOK

(* Memory keeps its bounds, whatever is stored where.                       *)
MemTyped == DOMAIN mem' = Data /\ \A a \in Data : mem'[a] \in Word
RegTyped == DOMAIN reg' = Registers /\ \A r \in Registers : reg'[r] \in Word
LEMMA Storing == ASSUME Typed, NEW a, NEW x \in Word, Store(a, x) PROVE MemTyped
  BY Zenon DEF Store, Typed, TypeOK, Data, MemTyped
LEMMA Keeping == ASSUME Typed, mem' = mem PROVE MemTyped
  BY Zenon DEF Typed, TypeOK, Data, MemTyped
LEMMA Setting ==
    ASSUME Typed, NEW r \in Registers, NEW x \in Word, reg' = [reg EXCEPT ![r] = x]
    PROVE  RegTyped
  BY Zenon DEF Typed, TypeOK, RegTyped
LEMMA SameRegisters == ASSUME Typed, reg' = reg PROVE RegTyped
  BY Zenon DEF Typed, TypeOK, RegTyped

(* Control stays on an instruction.                                         *)
ControlTyped == pc' \in 1 .. Len(Code) /\ flagged' \subseteq Suites /\ left' \in BOOLEAN
LEMMA Reports ==
    /\ \A x : OfPointer(x) \subseteq Suites /\ OfTarget(x) \subseteq Suites
    /\ \A s : OfOperand(s) \subseteq Suites
    /\ OfEnd \subseteq Suites
<1>1. \A x : OfPointer(x) \subseteq Suites /\ OfTarget(x) \subseteq Suites
  BY Zenon DEF OfPointer, OfTarget, Suites
<1> QED
  BY <1>1, Zenon DEF OfOperand, OfEnd, Suites
LEMMA Continuing == ASSUME Typed, NEW reports \in SUBSET Suites, Continue(reports) PROVE ControlTyped
<1>1. pc \in 1 .. Len(Code) /\ Len(Code) \in Nat
  BY TheProgram, SMT DEF Typed, TypeOK, WellFormed, Code
<1>2. pc' \in 1 .. Len(Code) /\ left' \in BOOLEAN
  BY <1>1, SMT DEF Continue
<1>3. flagged' \subseteq Suites
  BY Reports, Zenon DEF Continue, Typed, TypeOK
<1> QED
  BY <1>2, <1>3, Zenon DEF ControlTyped
LEMMA Going ==
    ASSUME Typed, NEW x \in Word, NEW reports \in SUBSET Suites, Goto(x, reports)
    PROVE  ControlTyped
<1>1. pc \in 1 .. Len(Code) /\ Len(Code) \in Nat
  BY TheProgram, SMT DEF Typed, TypeOK, WellFormed, Code
<1>4. x.v \in Int
  BY WordForms, Zenon
<1>2. pc' \in 1 .. Len(Code) /\ left' \in BOOLEAN
  BY <1>1, <1>4, SMT DEF Goto, Text, T
<1>3. flagged' \subseteq Suites
  BY Reports, Zenon DEF Goto, Typed, TypeOK
<1> QED
  BY <1>2, <1>3, Zenon DEF ControlTyped

LEMMA StepTyped ==
    ASSUME Typed, MemTyped, RegTyped, ControlTyped, UNCHANGED <<prog, given>>, cmp' \in Outcomes
    PROVE  Typed'
<1>1. Code' = Code /\ Data' = Data /\ Bounded' = Bounded
  BY SMT DEF Code, Data, Bounded, MemTyped
<1> QED
  BY <1>1, SMT DEF Typed, TypeOK, MemTyped, RegTyped, ControlTyped, Outcomes

LEMMA TypedStep == ASSUME Typed, Next PROVE Typed'
<1> USE TheProgram, Parts
<1>1. CASE DoNop
  <2>1. RegTyped /\ MemTyped /\ ControlTyped
    BY <1>1, SameRegisters, Keeping, Continuing, Zenon DEF DoNop
  <2> QED
    BY <1>1, <2>1, StepTyped, Zenon DEF DoNop, Is, Typed, TypeOK, Outcomes
<1>2. CASE DoMov
  <2>1. PICK x \in Values(Ins[2]) :
          IF Ins[3][1] = "reg" THEN reg' = [reg EXCEPT ![Ins[3][2]] = x] /\ UNCHANGED mem
          ELSE Store(Address(Ins[3]).v, x) /\ UNCHANGED reg
    BY <1>2, Zenon DEF DoMov
  <2>2. Ins[2] \in Operands /\ Ins[3] \in Operands
    BY <1>2, Zenon DEF DoMov, Is, Operands
  <2>3. Ins[3][1] = "reg" => Ins[3][2] \in Registers
    BY <2>2, OperandParts, SMT
  <2>4. x \in Word
    BY <2>1, <2>2, ValuesAreWords, Zenon
  <2>5. RegTyped /\ MemTyped
    BY <2>1, <2>3, <2>4, SameRegisters, Keeping, Setting, Storing, Zenon
  <2>6. OfOperand(Ins[2]) \cup OfOperand(Ins[3]) \in SUBSET Suites
    BY Reports, Zenon
  <2>7. ControlTyped
    BY <1>2, <2>6, Continuing, Zenon DEF DoMov
  <2> QED
    BY <1>2, <2>5, <2>7, StepTyped, Zenon DEF DoMov, Is, Typed, TypeOK, Outcomes
<1>3. CASE DoAdd
  <2>2. Ins[2] \in Operands /\ Ins[3] \in Registers
    BY <1>3, Zenon DEF DoAdd, Is
  <2>1. PICK x \in Values(Ins[2]) :
          reg' = [reg EXCEPT ![Ins[3]] = [v |-> reg[Ins[3]].v + x.v, t |-> reg[Ins[3]].t \/ x.t]]
    BY <1>3, Zenon DEF DoAdd
  <2> DEFINE y == [v |-> reg[Ins[3]].v + x.v, t |-> reg[Ins[3]].t \/ x.t]
  <2>3. x \in Word /\ reg[Ins[3]] \in Word
    BY <2>1, <2>2, ValuesAreWords, RegistersTyped, Zenon
  <2>4. y \in Word
    <3>1. x.v \in Int /\ reg[Ins[3]].v \in Int
      BY <2>3, WordForms, Zenon
    <3>2. reg[Ins[3]].v + x.v \in Int /\ (reg[Ins[3]].t \/ x.t) \in BOOLEAN
      BY <3>1, SMT
    <3> QED
      BY <3>2, Zenon DEF Word
  <2>5. RegTyped /\ MemTyped
    <3>1. reg' = [reg EXCEPT ![Ins[3]] = y]
      BY <2>1
    <3> HIDE DEF y
    <3> QED
      BY <1>3, <2>2, <2>4, <3>1, Keeping, Setting, Zenon DEF DoAdd
  <2>6. OfOperand(Ins[2]) \in SUBSET Suites
    BY Reports, Zenon
  <2>7. ControlTyped
    BY <1>3, <2>6, Continuing, Zenon DEF DoAdd
  <2> QED
    BY <1>3, <2>5, <2>7, StepTyped, Zenon DEF DoAdd, Is, Typed, TypeOK, Outcomes
<1>4. CASE DoCmp
  <2>1. cmp' \in Outcomes
    BY <1>4, Zenon DEF DoCmp, Outcomes
  <2>2. OfOperand(Ins[2]) \in SUBSET Suites
    BY Reports, Zenon
  <2>3. RegTyped /\ MemTyped /\ ControlTyped
    BY <1>4, <2>2, SameRegisters, Keeping, Continuing, Zenon DEF DoCmp
  <2> QED
    BY <1>4, <2>1, <2>3, StepTyped, Zenon DEF DoCmp, Is
<1>5. CASE DoJump
  <2>1. Ins[2] \in Int
    BY <1>5, Zenon DEF DoJump, Is
  <2>2. Given(Ins[2]) \in Word
    BY <2>1, WordForms, Zenon
  <2>3. Goto(Given(Ins[2]), {}) /\ UNCHANGED <<reg, mem>>
    BY <1>5, Zenon DEF DoJump
  <2>4. {} \in SUBSET Suites
    BY Zenon
  <2>5. RegTyped /\ MemTyped /\ ControlTyped
    BY <2>2, <2>3, <2>4, SameRegisters, Keeping, Going, Zenon
  <2> QED
    BY <1>5, <2>5, StepTyped, Zenon DEF DoJump, Is, Typed, TypeOK, Outcomes
<1>6. CASE DoNotJump
  <2>1. RegTyped /\ MemTyped /\ ControlTyped
    BY <1>6, SameRegisters, Keeping, Continuing, Zenon DEF DoNotJump
  <2> QED
    BY <1>6, <2>1, StepTyped, Zenon DEF DoNotJump, Is, Typed, TypeOK, Outcomes
<1>7. CASE DoBr
  <2>1. PICK x \in Values(Ins[2]) : Goto(x, OfOperand(Ins[2]))
    BY <1>7, Zenon DEF DoBr
  <2>2. x \in Word /\ OfOperand(Ins[2]) \in SUBSET Suites
    BY <1>7, ValuesAreWords, Reports, Zenon DEF DoBr, Is
  <2>3. RegTyped /\ MemTyped /\ ControlTyped
    BY <1>7, <2>1, <2>2, SameRegisters, Keeping, Going, Zenon DEF DoBr
  <2> QED
    BY <1>7, <2>3, StepTyped, Zenon DEF DoBr, Is, Typed, TypeOK, Outcomes
<1> DEFINE r1 == reg["r1"]
<1>8. r1 \in Word /\ Top \in Word /\ Plus(r1, 1) \in Word
  BY RegistersTyped, Registers1, WordForms, SMT DEF Top
<1>9. CASE DoPush
  <2>1. reg[Ins[2]] \in Word
    BY <1>9, RegistersTyped, Zenon DEF DoPush, Is
  <2>2. OfPointer(Top) \in SUBSET Suites
    BY Reports, Zenon
  <2>3. RegTyped /\ MemTyped /\ ControlTyped
    BY <1>8, <1>9, <2>1, <2>2, Registers1, Setting, Storing, Continuing, Zenon DEF DoPush
  <2> QED
    BY <1>9, <2>3, StepTyped, Zenon DEF DoPush, Is, Typed, TypeOK, Outcomes
<1>10. CASE DoCall
  <2>1. PICK x \in Values(Ins[2]) : Goto(x, OfOperand(Ins[2]) \cup OfPointer(Top))
    BY <1>10, Zenon DEF DoCall
  <2>2. x \in Word /\ OfOperand(Ins[2]) \cup OfPointer(Top) \in SUBSET Suites
    BY <1>10, ValuesAreWords, Reports, Zenon DEF DoCall, Is
  <2>3. L(pc + 1) \in Int
    BY SMT DEF Typed, TypeOK, L, T
  <2>4. Given(L(pc + 1)) \in Word
    BY <2>3, WordForms, Zenon
  <2>5. RegTyped /\ MemTyped /\ ControlTyped
    BY <1>8, <1>10, <2>1, <2>2, <2>4, Registers1, Setting, Storing, Going, Zenon DEF DoCall
  <2> QED
    BY <1>10, <2>5, StepTyped, Zenon DEF DoCall, Is, Typed, TypeOK, Outcomes
<1>11. CASE DoPop
  <2>1. PICK x \in Loads(r1.v) : reg' = [reg EXCEPT !["r1"] = Plus(@, 1), ![Ins[2]] = x]
    BY <1>11, Zenon DEF DoPop
  <2>2. x \in Word /\ Ins[2] \in Registers /\ OfPointer(r1) \in SUBSET Suites
    BY <1>11, <2>1, LoadsAreWords, Reports, Zenon DEF DoPop, Is
  <2>3. RegTyped
    <3>1. /\ DOMAIN reg' = DOMAIN reg
          /\ \A r \in DOMAIN reg : reg'[r] \in {x, Plus(r1, 1), reg[r]}
      BY <2>1, Zenon
    <3> QED
      BY <1>8, <2>2, <3>1, RegistersTyped, Zenon DEF RegTyped, Typed, TypeOK
  <2>4. MemTyped /\ ControlTyped
    BY <1>11, <2>2, Keeping, Continuing, Zenon DEF DoPop
  <2> QED
    BY <1>11, <2>3, <2>4, StepTyped, Zenon DEF DoPop, Is, Typed, TypeOK, Outcomes
<1>12. CASE DoRet
  <2>1. PICK x \in Loads(r1.v) : Goto(x, OfPointer(r1))
    BY <1>12, Zenon DEF DoRet
  <2>2. x \in Word /\ OfPointer(r1) \in SUBSET Suites
    BY <2>1, LoadsAreWords, Reports, Zenon
  <2>3. RegTyped /\ MemTyped /\ ControlTyped
    BY <1>8, <1>12, <2>1, <2>2, Registers1, Setting, Keeping, Going, Zenon DEF DoRet
  <2> QED
    BY <1>12, <2>3, StepTyped, Zenon DEF DoRet, Is, Typed, TypeOK, Outcomes
<1> QED
  BY <1>1, <1>2, <1>3, <1>4, <1>5, <1>6, <1>7, <1>9, <1>10, <1>11, <1>12, Zenon DEF Next

LEMMA TypedInit == ASSUME Init PROVE Typed
<1>1. WellFormed(AllPrograms[prog]) /\ prog \in Programs
  BY CorpusAssumption, ProgramsAreWellFormed, Zenon DEF Init
<1>2. \A r \in Registers : reg[r] \in Word
  <2>1. PICK choice \in [AllPrograms[prog].chosen -> Words] :
          reg = [r \in Registers |-> IF r \in DOMAIN choice THEN Chosen(choice[r]) ELSE Given(0)]
    BY Zenon DEF Init
  <2>2. \A r \in DOMAIN choice : Chosen(choice[r]) \in Word
    <3>1. \A r \in DOMAIN choice : choice[r] \in Int
      BY <2>1, CorpusAssumption, Zenon
    <3> QED
      BY <3>1, WordForms, Zenon
  <2>3. Given(0) \in Word
    BY WordForms, SMT
  <2> QED
    BY <2>1, <2>2, <2>3, Zenon
<1>3. given \in [Registers -> Int] /\ DOMAIN reg = Registers
  BY <1>2, WordForms, Zenon DEF Init
<1>4. pc \in 1 .. Len(Code)
  BY <1>1, SMT DEF Init, Code, WellFormed
<1>5. Bounded
  BY Zenon DEF Init, Bounded, Data
<1>6. \A a \in Data : mem[a] \in Word
  <2>1. ASSUME NEW a \in D0 .. D0 + Len(AllPrograms[prog].data) - 1
        PROVE  mem[a] = Given(AllPrograms[prog].data[a - D0 + 1])
    BY SMT DEF Init
  <2>2. ASSUME NEW a \in D0 .. D0 + Len(AllPrograms[prog].data) - 1
        PROVE  AllPrograms[prog].data[a - D0 + 1] \in Int
    BY <1>1, SMT DEF WellFormed, D0
  <2> QED
    BY <1>5, <2>1, <2>2, WordForms, Zenon DEF Bounded
<1>7. cmp \in {"lt", "eq", "gt"} /\ flagged \subseteq Suites /\ left \in BOOLEAN
  BY Zenon DEF Init
<1> QED
  BY <1>1, <1>2, <1>3, <1>4, <1>5, <1>6, <1>7, Zenon DEF Typed, TypeOK

LEMMA TypedSame == ASSUME Typed, UNCHANGED vars PROVE Typed'
  BY Zenon DEF vars, Typed, TypeOK, Bounded, Code, Data

(* Whatever the caller passes and memory outside holds, control stays on an *)
(* instruction of the program, and the secret section keeps its bounds.     *)
THEOREM TypeCorrect == Spec => []TypeOK
<1>1. Typed /\ [Next]_vars => Typed'
  BY TypedStep, TypedSame, Zenon
<1>2. Typed => TypeOK
  BY Zenon DEF Typed
<1> QED
  BY <1>1, <1>2, TypedInit, PTL DEF Spec

-----------------------------------------------------------------------------
(* What the instructions do.                                                *)
LEMMA Dispatch ==
    ASSUME Next
    PROVE  /\ ~Ended /\ UNCHANGED <<prog, given>>
           /\ Ins[1] = "nop" => DoNop
           /\ Ins[1] = "mov" => DoMov
           /\ Ins[1] = "add" => DoAdd
           /\ Ins[1] = "cmp" => DoCmp
           /\ Ins[1] = "jmp" => DoJump
           /\ Ins[1] = "jif" => (DoJump /\ cmp \in Ins[3]) \/ (DoNotJump /\ cmp \notin Ins[3])
           /\ Ins[1] = "br" => DoBr
           /\ Ins[1] = "push" => DoPush
           /\ Ins[1] = "call" => DoCall
           /\ Ins[1] = "pop" => DoPop
           /\ Ins[1] = "ret" => DoRet
<1>1. ~Ended /\ UNCHANGED <<prog, given>>
  BY Zenon DEF Next, Is, DoNop, DoMov, DoAdd, DoCmp, DoJump, DoNotJump, DoBr, DoPush, DoCall,
               DoPop, DoRet
<1>2. /\ DoNop => Ins[1] = "nop"
      /\ DoMov => Ins[1] = "mov"
      /\ DoAdd => Ins[1] = "add"
      /\ DoCmp => Ins[1] = "cmp"
      /\ DoJump => Ins[1] = "jmp" \/ (Ins[1] = "jif" /\ cmp \in Ins[3])
      /\ DoNotJump => Ins[1] = "jif" /\ cmp \notin Ins[3]
      /\ DoBr => Ins[1] = "br"
      /\ DoPush => Ins[1] = "push"
      /\ DoCall => Ins[1] = "call"
      /\ DoPop => Ins[1] = "pop"
      /\ DoRet => Ins[1] = "ret"
  BY Zenon DEF Is, DoNop, DoMov, DoAdd, DoCmp, DoJump, DoNotJump, DoBr, DoPush, DoCall, DoPop,
               DoRet
<1> QED
  BY <1>1, <1>2, SMT DEF Next

LEMMA Onward ==
    ASSUME Typed, NEW reports, Continue(reports), pc < Len(Code)
    PROVE  pc' = pc + 1 /\ left' = FALSE /\ flagged' = flagged \cup reports
<1>1. pc # Len(Code)
  BY TheProgram, SMT DEF Typed, TypeOK, WellFormed, Code
<1> QED
  BY <1>1, Zenon DEF Continue, OfEnd

LEMMA InsHasKind ==
    ASSUME Typed
    PROVE  Ins[1] \in {"nop", "mov", "add", "cmp", "jmp", "jif", "br", "push", "call", "pop", "ret"}
<1>1. Ins \in Instructions
  BY TheProgram, Zenon
<1> QED
  BY <1>1, SMT DEF Instructions, Moves, Arith, Tests, Jumps, Ifs, Branches, Calls, Pushes, Pops

(* An instruction after which no cfsan report is due: it goes on to the     *)
(* next one, or to an executable address that its own operand says.         *)
Direct(i, isLast) ==
    \/ i[1] \in {"nop", "mov", "add", "cmp", "push", "pop"} /\ ~isLast
    \/ i[1] = "jif" /\ Exec(i[2]) /\ ~isLast
    \/ i[1] = "jmp" /\ Exec(i[2])
    \/ i[1] \in {"br", "call"} /\ i[2][1] = "imm" /\ Exec(i[2][2])
DirectProgram(code) == \A k \in 1 .. Len(code) : Direct(code[k], k = Len(code))

LEMMA OwnTarget ==
    ASSUME NEW a \in Int, Exec(a) PROVE OfTarget(Given(a)) = {}
  BY SMT DEF OfTarget, Given

LEMMA PointerReports ==
    /\ \A x : "cf" \notin OfPointer(x)
    /\ \A s : "cf" \notin OfOperand(s)
<1>1. \A x : "cf" \notin OfPointer(x)
  BY SMT DEF OfPointer
<1> QED
  BY <1>1, Zenon DEF OfOperand

LEMMA DirectStep ==
    ASSUME Typed, Next, Direct(Ins, pc = Len(Code)), "cf" \notin flagged
    PROVE  "cf" \notin flagged'
<1>1. ASSUME NEW reports, "cf" \notin reports, Continue(reports), pc # Len(Code)
      PROVE  "cf" \notin flagged'
  BY <1>1, Zenon DEF Continue, OfEnd
<1>2. ASSUME NEW a \in Int, Exec(a), NEW reports, "cf" \notin reports, Goto(Given(a), reports)
      PROVE  "cf" \notin flagged'
  BY <1>2, OwnTarget, Zenon DEF Goto
<1>3. CASE Ins[1] \in {"nop", "mov", "add", "cmp", "push", "pop"} /\ pc # Len(Code)
  <2>1. \E reports : "cf" \notin reports /\ Continue(reports)
    BY <1>3, Dispatch, PointerReports, SMT DEF DoNop, DoMov, DoAdd, DoCmp, DoPush, DoPop
  <2> QED
    BY <1>1, <1>3, <2>1, Zenon
<1>4. CASE Ins[1] \in {"jmp", "jif"} /\ Exec(Ins[2]) /\ (Ins[1] = "jif" => pc # Len(Code))
  <2>1. Ins[2] \in Int
    BY <1>4, TheProgram, Parts, Zenon
  <2>2. "cf" \notin {}
    BY Zenon
  <2>3. Goto(Given(Ins[2]), {}) \/ (Continue({}) /\ Ins[1] = "jif")
    BY <1>4, Dispatch, Zenon DEF DoJump, DoNotJump, Is
  <2> QED
    BY <1>1, <1>2, <1>4, <2>1, <2>2, <2>3, Zenon
<1>5. CASE Ins[1] \in {"br", "call"} /\ Ins[2][1] = "imm" /\ Exec(Ins[2][2])
  <2>1. Ins[2] \in Operands
    BY <1>5, TheProgram, Parts, Zenon
  <2>2. Ins[2][2] \in Int /\ Values(Ins[2]) = {Given(Ins[2][2])}
    BY <1>5, <2>1, OperandParts, Zenon DEF Values
  <2>3. \E reports : "cf" \notin reports /\ Goto(Given(Ins[2][2]), reports)
    <3>1. CASE Ins[1] = "br"
      BY <2>2, <3>1, Dispatch, PointerReports, Zenon DEF DoBr
    <3>2. CASE Ins[1] = "call"
      <4>1. "cf" \notin OfOperand(Ins[2]) \cup OfPointer(Top)
        BY PointerReports, Zenon
      <4> QED
        BY <2>2, <3>2, <4>1, Dispatch, Zenon DEF DoCall
    <3> QED
      BY <1>5, <3>1, <3>2, Zenon
  <2> QED
    BY <1>2, <1>5, <2>2, <2>3, Zenon
<1> QED
  BY <1>3, <1>4, <1>5, Zenon DEF Direct

(* An instruction that uses no memory, after which no ptrsan report is due. *)
NoMemory(s) == s[1] \in {"imm", "reg"}
Quiet(i) ==
    \/ i[1] \in {"nop", "jmp", "jif"}
    \/ i[1] = "mov" /\ NoMemory(i[2]) /\ NoMemory(i[3])
    \/ i[1] \in {"add", "cmp", "br"} /\ NoMemory(i[2])
QuietProgram(code) == \A k \in 1 .. Len(code) : Quiet(code[k])

LEMMA NoMemoryReports == ASSUME NEW s, NoMemory(s) PROVE OfOperand(s) = {}
  BY SMT DEF NoMemory, OfOperand

LEMMA QuietStep ==
    ASSUME Typed, Next, Quiet(Ins) PROVE "ptr" \in flagged' => "ptr" \in flagged
<1>1. ASSUME Continue({}) \/ (\E x : Goto(x, {}))
      PROVE  "ptr" \in flagged' => "ptr" \in flagged
  <2>1. "ptr" \notin OfEnd /\ \A x : "ptr" \notin OfTarget(x)
    BY SMT DEF OfEnd, OfTarget
  <2> QED
    BY <1>1, <2>1, Zenon DEF Continue, Goto
<1>2. CASE Ins[1] = "mov" /\ NoMemory(Ins[2]) /\ NoMemory(Ins[3])
  <2>1. OfOperand(Ins[2]) \cup OfOperand(Ins[3]) = {}
    BY <1>2, NoMemoryReports, Zenon
  <2> QED
    BY <1>1, <1>2, <2>1, Dispatch, Zenon DEF DoMov
<1>3. CASE Ins[1] \in {"add", "cmp", "br"} /\ NoMemory(Ins[2])
  BY <1>1, <1>3, NoMemoryReports, Dispatch, Zenon DEF DoAdd, DoCmp, DoBr
<1>4. CASE Ins[1] \in {"nop", "jmp", "jif"}
  BY <1>1, <1>4, Dispatch, Zenon DEF DoNop, DoJump, DoNotJump
<1> QED
  BY <1>2, <1>3, <1>4, Zenon DEF Quiet

(* An instruction that leaves the stack pointer alone.                      *)
KeepsStack(i) ==
    \/ i[1] \in {"nop", "jmp", "jif", "cmp", "br"}
    \/ i[1] = "mov" /\ (i[3][1] = "reg" => i[3][2] # "r1")
    \/ i[1] = "add" /\ i[3] # "r1"
KeepsStackProgram(code) == \A k \in 1 .. Len(code) : KeepsStack(code[k])

LEMMA KeepsStackStep ==
    ASSUME Typed, Next, KeepsStack(Ins) PROVE reg'["r1"] = reg["r1"]
<1>1. ASSUME NEW r, r # "r1", NEW x, reg' = [reg EXCEPT ![r] = x] PROVE reg'["r1"] = reg["r1"]
  BY <1>1, Registers1, Zenon DEF Typed, TypeOK
<1>2. CASE Ins[1] \in {"nop", "jmp", "jif", "cmp", "br"}
  BY <1>2, Dispatch, Zenon DEF DoNop, DoJump, DoNotJump, DoCmp, DoBr
<1>3. CASE Ins[1] = "mov" /\ (Ins[3][1] = "reg" => Ins[3][2] # "r1")
  BY <1>1, <1>3, Dispatch, Zenon DEF DoMov
<1>4. CASE Ins[1] = "add" /\ Ins[3] # "r1"
  BY <1>1, <1>4, Dispatch, Zenon DEF DoAdd
<1> QED
  BY <1>2, <1>3, <1>4, Zenon DEF KeepsStack

-----------------------------------------------------------------------------
(* One instruction after the other, with what each reports.                 *)
Onto(reports) == pc' = pc + 1 /\ left' = FALSE /\ flagged' = flagged \cup reports
Lands(k, reports) ==
    /\ flagged' = flagged \cup reports
    /\ IF k <= Len(Code) THEN pc' = k /\ left' = FALSE ELSE pc' = pc /\ left' = TRUE

LEMMA Landing ==
    ASSUME Typed, NEW k \in Nat \ {0}, NEW reports, Goto(Given(L(k)), reports)
    PROVE  Lands(k, reports)
<1>1. Exec(L(k)) /\ L(k) \in Int /\ Len(Code) \in Nat /\ L(k) - T + 1 = k
  BY TheProgram, SMT DEF Exec, L, T, Opcode, WellFormed, Code
<1>2. Given(L(k)).v = L(k) /\ OfTarget(Given(L(k))) = {}
  BY <1>1, OwnTarget, SMT DEF Given
<1>3. L(k) \in Text <=> k <= Len(Code)
  BY <1>1, SMT DEF Text, L, T
<1>4. flagged' = flagged \cup reports
  BY <1>2, SMT DEF Goto
<1>5. left' = (L(k) \notin Text) /\ pc' = IF L(k) \in Text THEN k ELSE pc
  BY <1>1, <1>2, Zenon DEF Goto
<1> QED
  BY <1>3, <1>4, <1>5, Zenon DEF Lands

LEMMA Successor ==
    ASSUME Typed, Next, Ins[1] \in {"nop", "mov", "add", "cmp", "push", "pop", "jmp", "jif"}
    PROVE  \/ left' /\ pc' = pc
           \/ ~left' /\ pc' = pc + 1
           \/ ~left' /\ Ins[1] \in {"jmp", "jif"} /\ Ins[2] = L(pc')
<1>1. (\E reports : Continue(reports))
      \/ (Ins[1] \in {"jmp", "jif"} /\ \E reports : Goto(Given(Ins[2]), reports))
  BY Dispatch, Zenon DEF DoNop, DoMov, DoAdd, DoCmp, DoPush, DoPop, DoJump, DoNotJump
<1>2. ASSUME NEW reports, Continue(reports)
      PROVE  (left' /\ pc' = pc) \/ (~left' /\ pc' = pc + 1)
  <2>1. CASE pc = Len(Code)
    BY <1>2, <2>1, Zenon DEF Continue
  <2>2. CASE pc # Len(Code)
    BY <1>2, <2>2, Zenon DEF Continue
  <2> QED
    BY <2>1, <2>2
<1>3. ASSUME NEW reports, Goto(Given(Ins[2]), reports), Ins[1] \in {"jmp", "jif"}
      PROVE  (left' /\ pc' = pc) \/ (~left' /\ Ins[2] = L(pc'))
  <2>1. Ins[2] \in Int
    BY <1>3, TheProgram, Parts, Zenon
  <2>2. Given(Ins[2]).v = Ins[2]
    BY Zenon DEF Given
  <2>3. CASE Ins[2] \in Text
    <3>1. pc' = Ins[2] - T + 1 /\ ~left'
      BY <1>3, <2>2, <2>3, Zenon DEF Goto
    <3> QED
      BY <2>1, <3>1, SMT DEF L, T
  <2>4. CASE Ins[2] \notin Text
    BY <1>3, <2>2, <2>4, Zenon DEF Goto
  <2> QED
    BY <2>3, <2>4
<1> QED
  <2>1. CASE \E reports : Continue(reports)
    BY <1>2, <2>1, Zenon
  <2>2. CASE Ins[1] \in {"jmp", "jif"} /\ \E reports : Goto(Given(Ins[2]), reports)
    BY <1>3, <2>2
  <2> QED
    BY <1>1, <2>1, <2>2, Zenon

LEMMA PlusChosen == ASSUME NEW a \in Int, NEW n \in Int PROVE Plus(Chosen(a), n) = Chosen(a + n)
<1>1. /\ DOMAIN Plus(Chosen(a), n) = {"v", "t"}
      /\ Plus(Chosen(a), n)["v"] = a + n /\ Plus(Chosen(a), n)["t"] = TRUE
  BY SMT DEF Plus, Chosen
<1>2. \A x : (x = [i \in DOMAIN x |-> x[i]] /\ DOMAIN x = {"v", "t"} /\ x["t"] = TRUE)
                => x = Chosen(x["v"])
  BY SMT DEF Chosen
<1>3. Plus(Chosen(a), n) = [i \in DOMAIN Plus(Chosen(a), n) |-> Plus(Chosen(a), n)[i]]
  BY Zenon DEF Plus, Chosen
<1> QED
  BY <1>1, <1>2, <1>3, Zenon

LEMMA AtNop == ASSUME Typed, Next, Ins = Nop, pc < Len(Code)
               PROVE  Onto({}) /\ UNCHANGED <<reg, mem, cmp>>
<1>1. DoNop
  BY Dispatch, SMT DEF Nop
<1> QED
  BY <1>1, Onward, Zenon DEF DoNop, Onto

LEMMA AtMov ==
    ASSUME Typed, Next, NEW s, NEW r \in Registers, NoMemory(s), Ins = Mov(s, Reg(r)),
           pc < Len(Code)
    PROVE  /\ Onto({}) /\ UNCHANGED <<mem, cmp>>
           /\ reg' = [reg EXCEPT ![r] = IF s[1] = "imm" THEN Given(s[2]) ELSE reg[s[2]]]
<1>1. /\ Ins[1] = "mov" /\ Ins[2] = s /\ Ins[3][1] = "reg" /\ Ins[3][2] = r
  BY SMT DEF Mov, Reg
<1>2. DoMov
  BY <1>1, Dispatch, Zenon
<1>6. OfOperand(s) = {} /\ OfOperand(Reg(r)) = {}
  BY NoMemoryReports, SMT DEF NoMemory, Reg
<1>3. OfOperand(Ins[2]) \cup OfOperand(Ins[3]) = {}
  BY <1>6, SMT DEF Mov
<1>4. Onto({})
  BY <1>2, <1>3, Onward, Zenon DEF DoMov, Onto
<1>5. Values(s) = {IF s[1] = "imm" THEN Given(s[2]) ELSE reg[s[2]]}
  BY SMT DEF Values, NoMemory
<1> QED
  BY <1>1, <1>2, <1>4, <1>5, Zenon DEF DoMov

LEMMA AtAdd ==
    ASSUME Typed, Next, NEW s, NEW r \in Registers, NoMemory(s), Ins = Add(s, r), pc < Len(Code)
    PROVE  /\ Onto({}) /\ UNCHANGED <<mem, cmp>>
           /\ \A q \in Registers \ {r} : reg'[q] = reg[q]
<1>1. Ins[1] = "add" /\ Ins[2] = s /\ Ins[3] = r
  BY SMT DEF Add
<1>2. DoAdd
  BY <1>1, Dispatch, Zenon
<1>3. Onto({}) /\ UNCHANGED <<mem, cmp>>
  BY <1>1, <1>2, NoMemoryReports, Onward, Zenon DEF DoAdd, Onto
<1> QED
  BY <1>1, <1>2, <1>3, Zenon DEF DoAdd, Typed, TypeOK

LEMMA AtJmp ==
    ASSUME Typed, Next, NEW k \in Nat \ {0}, Ins = Jmp(L(k))
    PROVE  Lands(k, {}) /\ UNCHANGED <<reg, mem, cmp>>
<1>1. Ins[1] = "jmp" /\ Ins[2] = L(k)
  BY SMT DEF Jmp
<1> QED
  BY <1>1, Dispatch, Landing, Zenon DEF DoJump

LEMMA AtCmp ==
    ASSUME Typed, Next, NEW n, NEW r \in Registers, Ins = Cmp(Imm(n), r), pc < Len(Code)
    PROVE  /\ Onto({}) /\ UNCHANGED <<reg, mem>>
           /\ cmp' = IF reg[r].v - n = 0 THEN "eq" ELSE IF reg[r].v - n < 0 THEN "lt" ELSE "gt"
<1>1. Ins[1] = "cmp" /\ Ins[2] = Imm(n) /\ Ins[3] = r /\ NoMemory(Imm(n))
      /\ Values(Imm(n)) = {Given(n)} /\ Given(n).v = n
  BY SMT DEF Cmp, Imm, NoMemory, Values, Given
<1>2. DoCmp
  BY <1>1, Dispatch, Zenon
<1>3. Onto({}) /\ UNCHANGED <<reg, mem>>
  BY <1>1, <1>2, NoMemoryReports, Onward, Zenon DEF DoCmp, Onto
<1> QED
  BY <1>1, <1>2, <1>3, Zenon DEF DoCmp

LEMMA AtJif ==
    ASSUME Typed, Next, NEW k \in Nat \ {0}, NEW c, Ins = Jif(c, L(k)), pc < Len(Code)
    PROVE  /\ UNCHANGED <<reg, mem, cmp>>
           /\ IF cmp \in c THEN Lands(k, {}) ELSE Onto({})
<1>1. Ins[1] = "jif" /\ Ins[2] = L(k) /\ Ins[3] = c
  BY SMT DEF Jif
<1> QED
  BY <1>1, Dispatch, Landing, Onward, Zenon DEF DoJump, DoNotJump, Onto

LEMMA AtBr ==
    ASSUME Typed, Next, NEW k \in Nat \ {0}, NEW r, reg[r] = Given(L(k)), Ins = Br(Reg(r))
    PROVE  Lands(k, {}) /\ UNCHANGED <<reg, mem, cmp>>
<1>1. Ins[1] = "br" /\ Ins[2] = Reg(r) /\ NoMemory(Reg(r)) /\ Values(Reg(r)) = {reg[r]}
  BY SMT DEF Br, Reg, NoMemory, Values
<1> QED
  <2>1. DoBr /\ OfOperand(Ins[2]) = {}
    BY <1>1, Dispatch, NoMemoryReports, Zenon
  <2>2. UNCHANGED <<reg, mem, cmp>> /\ \E x \in Values(Ins[2]) : Goto(x, OfOperand(Ins[2]))
    BY <2>1, Zenon DEF DoBr
  <2>3. PICK x \in {Given(L(k))} : Goto(x, {})
    BY <1>1, <2>1, <2>2
  <2> QED
    BY <2>2, <2>3, Landing, Zenon

LEMMA BranchTainted ==
    ASSUME Typed, Next, NEW r, reg[r].t, Ins = Br(Reg(r)) PROVE "cf" \in flagged'
<1>1. Ins[1] = "br" /\ Ins[2] = Reg(r) /\ NoMemory(Reg(r)) /\ Values(Reg(r)) = {reg[r]}
  BY SMT DEF Br, Reg, NoMemory, Values
<1>2. DoBr
  BY <1>1, Dispatch, Zenon
<1>3. \E x \in Values(Ins[2]) : Goto(x, OfOperand(Ins[2]))
  BY <1>2, Zenon DEF DoBr
<1>4. PICK x \in {reg[r]} : Goto(x, OfOperand(Ins[2]))
  BY <1>1, <1>3
<1>5. OfTarget(x) = {"cf"}
  BY <1>4, Zenon DEF OfTarget
<1> QED
  BY <1>4, <1>5, Zenon DEF Goto

LEMMA AtBrOut ==
    ASSUME Typed, Next, NEW a \in Int, Exec(a), a \notin Text, Ins = Br(Imm(a))
    PROVE  left' = TRUE /\ pc' = pc /\ UNCHANGED <<reg, mem, cmp, flagged>>
<1>1. Ins[1] = "br" /\ Ins[2] = Imm(a) /\ NoMemory(Imm(a)) /\ Values(Imm(a)) = {Given(a)}
  BY SMT DEF Br, Imm, NoMemory, Values
<1>2. DoBr /\ OfOperand(Ins[2]) = {}
  BY <1>1, Dispatch, NoMemoryReports, Zenon
<1>3. UNCHANGED <<reg, mem, cmp>> /\ \E x \in Values(Ins[2]) : Goto(x, OfOperand(Ins[2]))
  BY <1>2, Zenon DEF DoBr
<1>4. PICK x \in {Given(a)} : Goto(x, {})
  BY <1>1, <1>2, <1>3
<1>5. x.v = a /\ OfTarget(x) = {}
  <2>1. x = Given(a) /\ Given(a).v = a
    BY SMT DEF Given
  <2> QED
    BY <2>1, OwnTarget, Zenon
<1>6. flagged' = flagged
  BY <1>4, <1>5, SMT DEF Goto
<1> QED
  BY <1>3, <1>4, <1>5, <1>6, Zenon DEF Goto

-----------------------------------------------------------------------------
(* A stack of the module's own: the caller's stack pointer is saved in its  *)
(* last word, below it the return address of the call.                      *)
FourWords == Data = D0 .. D0 + 3
OnCallers == reg["r1"].v = given["r1"]
OnOwn == reg["r1"] = Given(D0 + 3)
Saved == reg["r1"] = Given(D0 + 2) /\ mem[D0 + 2].v = given["r1"]
Called(k) ==
    /\ reg["r1"] = Given(D0 + 1)
    /\ mem[D0 + 2].v = given["r1"]
    /\ mem[D0 + 1] = Given(L(k))

LEMMA OwnWord ==
    ASSUME FourWords, NEW a \in D0 .. D0 + 3
    PROVE  /\ a \in Data /\ Loads(a) = {mem[a]} /\ OfPointer(Given(a)) = {}
           /\ Plus(Given(a), 1) = Given(a + 1) /\ Plus(Given(a), -1) = Given(a - 1)
           /\ Given(a).v = a
<1>1. a \in Data /\ a \in Int /\ a \notin Text
  BY SMT DEF FourWords, D0, Text, T
<1>2. Given(a).v = a /\ Given(a).t = FALSE
  BY SMT DEF Given
<1>3. OfPointer(Given(a)) = {}
  <2>1. InEnclave(Given(a).v)
    BY <1>1, <1>2, Zenon DEF InEnclave
  <2> QED
    BY <1>2, <2>1, Zenon DEF OfPointer
<1>4. Plus(Given(a), 1) = Given(a + 1) /\ Plus(Given(a), -1) = Given(a - 1)
  <2>1. ASSUME NEW n \in Int PROVE Plus(Given(a), n) = Given(a + n)
    <3>1. /\ DOMAIN Plus(Given(a), n) = {"v", "t"}
          /\ Plus(Given(a), n)["v"] = a + n /\ Plus(Given(a), n)["t"] = FALSE
      BY SMT DEF Plus, Given
    <3>2. \A x : (x = [i \in DOMAIN x |-> x[i]] /\ DOMAIN x = {"v", "t"} /\ x["t"] = FALSE)
                    => x = Given(x["v"])
      BY SMT DEF Given
    <3>3. Plus(Given(a), n) = [i \in DOMAIN Plus(Given(a), n) |-> Plus(Given(a), n)[i]]
      BY Zenon DEF Plus, Given
    <3> QED
      BY <3>1, <3>2, <3>3, Zenon
  <2>2. a + (-1) = a - 1 /\ 1 \in Int /\ -1 \in Int
    BY <1>1, SMT
  <2> QED
    BY <2>1, <2>2, Zenon
<1>5. Loads(a) = {mem[a]}
  BY <1>1, SMT DEF Loads
<1> QED
  BY <1>1, <1>2, <1>3, <1>4, <1>5, Zenon

LEMMA AtPush ==
    ASSUME Typed, Next, FourWords, NEW a \in D0 + 1 .. D0 + 3, reg["r1"] = Given(a),
           NEW r \in Registers, Ins = Push(r), pc < Len(Code)
    PROVE  /\ Onto({}) /\ UNCHANGED cmp
           /\ reg' = [reg EXCEPT !["r1"] = Given(a - 1)]
           /\ mem' = [mem EXCEPT ![a - 1] = reg[r]]
<1>1. DoPush /\ Ins[2] = r
  BY Dispatch, SMT DEF Push
<1>2. a \in D0 .. D0 + 3 /\ a - 1 \in D0 .. D0 + 3
  BY SMT DEF D0
<1>3. Top = Given(a - 1) /\ OfPointer(Top) = {} /\ Top.v = a - 1 /\ a - 1 \in Data
  BY <1>2, OwnWord, Zenon DEF Top
<1>4. Onto({})
  BY <1>1, <1>3, Onward, Zenon DEF DoPush, Onto
<1> QED
  BY <1>1, <1>3, <1>4, Zenon DEF DoPush, Store

LEMMA AtCall ==
    ASSUME Typed, Next, FourWords, Saved, NEW k \in 1 .. Len(Code), Ins = Call(Imm(L(k))),
           NEW n, n = pc + 1
    PROVE  Called(n)' /\ pc' = k /\ left' = FALSE /\ flagged' = flagged
<1>1. DoCall /\ Ins[2] = Imm(L(k))
  BY Dispatch, SMT DEF Call
<1>2. D0 + 1 \in D0 .. D0 + 3 /\ D0 + 2 \in D0 .. D0 + 3 /\ (D0 + 2) - 1 = D0 + 1
  BY SMT DEF D0
<1>3. Top = Given(D0 + 1) /\ OfPointer(Top) = {} /\ Top.v = D0 + 1 /\ D0 + 1 \in Data
  BY <1>2, OwnWord, Zenon DEF Top, Saved
<1>4. Values(Imm(L(k))) = {Given(L(k))} /\ OfOperand(Imm(L(k))) = {}
  BY SMT DEF Values, Imm, OfOperand
<1>5. Goto(Given(L(k)), {})
  BY <1>1, <1>3, <1>4, Zenon DEF DoCall
<1>6. k \in Nat \ {0} /\ k <= Len(Code) /\ Len(Code) \in Nat
  BY TheProgram, SMT DEF WellFormed, Code
<1>7. Lands(k, {})
  BY <1>5, <1>6, Landing, Zenon
<1>8. mem' = [mem EXCEPT ![D0 + 1] = Given(L(pc + 1))] /\ reg' = [reg EXCEPT !["r1"] = Given(D0 + 1)]
  BY <1>1, <1>3, Zenon DEF DoCall, Store
<1>9. D0 + 1 # D0 + 2 /\ DOMAIN reg = Registers /\ "r1" \in Registers
  BY Registers1, SMT DEF D0, Typed, TypeOK
<1>10. mem'[D0 + 1] = Given(L(pc + 1)) /\ mem'[D0 + 2] = mem[D0 + 2] /\ reg'["r1"] = Given(D0 + 1)
  BY <1>3, <1>8, <1>9, SMT DEF Data
<1> QED
  <2>1. Called(n)'
    <3>1. given' = given
      BY Dispatch, Zenon
    <3>2. mem'[D0 + 2].v = given'["r1"]
      BY <1>10, <3>1, Zenon DEF Saved
    <3> QED
      BY <1>10, <3>2, Zenon DEF Called
  <2>2. flagged \cup {} = flagged
    BY Zenon
  <2> QED
    BY <1>6, <1>7, <2>1, <2>2, Zenon DEF Lands

LEMMA AtRet ==
    ASSUME Typed, Next, FourWords, NEW k \in 1 .. Len(Code), Called(k), Ins = Ret
    PROVE  Saved' /\ pc' = k /\ left' = FALSE /\ flagged' = flagged
<1>1. DoRet
  BY Dispatch, SMT DEF Ret
<1>2. D0 + 1 \in D0 .. D0 + 3 /\ (D0 + 1) + 1 = D0 + 2
  BY SMT DEF D0
<1>3. /\ OfPointer(reg["r1"]) = {} /\ reg["r1"].v = D0 + 1 /\ D0 + 1 \in Data
      /\ Plus(reg["r1"], 1) = Given(D0 + 2)
  BY <1>2, OwnWord, Zenon DEF Called
<1>4. Loads(D0 + 1) = {Given(L(k))}
  BY <1>2, OwnWord, Zenon DEF Called
<1>5. Goto(Given(L(k)), {}) /\ reg' = [reg EXCEPT !["r1"] = Given(D0 + 2)] /\ mem' = mem
  BY <1>1, <1>3, <1>4, Zenon DEF DoRet
<1>6. k \in Nat \ {0} /\ k <= Len(Code) /\ Len(Code) \in Nat
  BY TheProgram, SMT DEF WellFormed, Code
<1>7. Lands(k, {})
  BY <1>5, <1>6, Landing, Zenon
<1>8. DOMAIN reg = Registers /\ "r1" \in Registers
  BY Registers1, SMT DEF Typed, TypeOK
<1> QED
  BY <1>5, <1>6, <1>7, <1>8, Dispatch, Zenon DEF Called, Lands, Saved

LEMMA AtPopStack ==
    ASSUME Typed, Next, FourWords, Saved, Ins = Pop("r1"), pc < Len(Code)
    PROVE  OnCallers' /\ Onto({})
<1>1. DoPop /\ Ins[2] = "r1"
  BY Dispatch, SMT DEF Pop
<1>2. D0 + 2 \in D0 .. D0 + 3
  BY SMT DEF D0
<1>3. OfPointer(reg["r1"]) = {} /\ reg["r1"].v = D0 + 2 /\ D0 + 2 \in Data
  BY <1>2, OwnWord, Zenon DEF Saved
<1>4. Loads(D0 + 2) = {mem[D0 + 2]}
  BY <1>2, OwnWord, Zenon
<1>5. Onto({})
  BY <1>1, <1>3, Onward, Zenon DEF DoPop, Onto
<1>6. reg'["r1"] = mem[D0 + 2]
  BY <1>1, <1>3, <1>4, Registers1, Zenon DEF DoPop, Typed, TypeOK
<1> QED
  BY <1>5, <1>6, Dispatch, Zenon DEF Saved, OnCallers

-----------------------------------------------------------------------------
(* The programs that never report.                                          *)
LEMMA NorCode ==
    /\ prog \in DOMAIN CfNor => AllPrograms[prog] = CfNor[prog]
    /\ prog \in DOMAIN PtrNor \ DOMAIN CfNor => AllPrograms[prog] = PtrNor[prog]
<1>1. prog \in DOMAIN PtrNor => prog \notin DOMAIN CfRep
  BY SMT DEF PtrNor, CfRep
<1> QED
  BY <1>1, Zenon DEF AllPrograms, Joined

LEMMA NorPrograms ==
    /\ prog = "nor_asm_br_within_encl_0" => AllPrograms[prog] = nor_asm_br_within_encl_0
    /\ prog = "nor_asm_br_within_encl_1" => AllPrograms[prog] = nor_asm_br_within_encl_1
    /\ prog = "nor_asm_call_c_func_with_priv_stack" => AllPrograms[prog] = PrivateStackCall
    /\ prog = "nor_asm_example_baseEnclave" => AllPrograms[prog] = nor_asm_example_baseEnclave
    /\ prog = "nor_asm_if_else" => AllPrograms[prog] = nor_asm_if_else
    /\ prog = "nor_asm_jmp_within_encl" => AllPrograms[prog] = nor_asm_jmp_within_encl
    /\ prog = "nor_asm_ret_int" => AllPrograms[prog] = nor_asm_ret_int
    /\ prog = "nor_asm_test" => AllPrograms[prog] = nor_asm_test
    /\ prog = "nor_asm_0" => AllPrograms[prog] = nor_asm_0
    /\ prog = "nor_asm_1" => AllPrograms[prog] = nor_asm_1
    /\ prog = "nor_asm_2" => AllPrograms[prog] = nor_asm_2
<1>1. DOMAIN CfNor = {"nor_asm_br_within_encl_0", "nor_asm_br_within_encl_1",
                      "nor_asm_call_c_func_with_priv_stack", "nor_asm_example_baseEnclave",
                      "nor_asm_if_else", "nor_asm_jmp_within_encl", "nor_asm_ret_int",
                      "nor_asm_test"}
  BY SMT DEF CfNor
<1>2. DOMAIN PtrNor = {"nor_asm_0", "nor_asm_1", "nor_asm_2",
                       "nor_asm_call_c_func_with_priv_stack"}
  BY SMT DEF PtrNor
<1>3. ASSUME prog \in DOMAIN CfNor
      PROVE  /\ prog = "nor_asm_br_within_encl_0" => CfNor[prog] = nor_asm_br_within_encl_0
             /\ prog = "nor_asm_br_within_encl_1" => CfNor[prog] = nor_asm_br_within_encl_1
             /\ prog = "nor_asm_call_c_func_with_priv_stack" => CfNor[prog] = PrivateStackCall
             /\ prog = "nor_asm_example_baseEnclave" => CfNor[prog] = nor_asm_example_baseEnclave
             /\ prog = "nor_asm_if_else" => CfNor[prog] = nor_asm_if_else
             /\ prog = "nor_asm_jmp_within_encl" => CfNor[prog] = nor_asm_jmp_within_encl
             /\ prog = "nor_asm_ret_int" => CfNor[prog] = nor_asm_ret_int
             /\ prog = "nor_asm_test" => CfNor[prog] = nor_asm_test
  BY SMT DEF CfNor, nor_asm_call_c_func_with_priv_stack
<1>4. ASSUME prog \in DOMAIN PtrNor
      PROVE  /\ prog = "nor_asm_0" => PtrNor[prog] = nor_asm_0
             /\ prog = "nor_asm_1" => PtrNor[prog] = nor_asm_1
             /\ prog = "nor_asm_2" => PtrNor[prog] = nor_asm_2
  BY SMT DEF PtrNor
<1> QED
  BY <1>1, <1>2, <1>3, <1>4, NorCode, SMT

(* Those without a branch through a register and without a stack.           *)
Simple == {"nor_asm_br_within_encl_1", "nor_asm_example_baseEnclave", "nor_asm_jmp_within_encl",
           "nor_asm_ret_int", "nor_asm_test", "nor_asm_0"}

Plain(code) == DirectProgram(code) /\ QuietProgram(code) /\ KeepsStackProgram(code)
LEMMA SimpleCode == ASSUME prog \in Simple PROVE Plain(Code)
<1>1. /\ Plain(nor_asm_br_within_encl_1.code)
      /\ Plain(nor_asm_example_baseEnclave.code)
      /\ Plain(nor_asm_jmp_within_encl.code)
      /\ Plain(nor_asm_ret_int.code)
      /\ Plain(nor_asm_test.code)
      /\ Plain(nor_asm_0.code)
  <2> USE DEF Plain, DirectProgram, QuietProgram, KeepsStackProgram, Direct, Quiet, KeepsStack,
              NoMemory, Program, Nop, Mov, Add, Cmp, Jmp, Jif, Br, Imm, Reg, Exec, L, T, Opcode
  <2>1. Plain(nor_asm_br_within_encl_1.code)
    BY SMT DEF nor_asm_br_within_encl_1
  <2>2. Plain(nor_asm_example_baseEnclave.code)
    BY SMT DEF nor_asm_example_baseEnclave
  <2>3. Plain(nor_asm_jmp_within_encl.code)
    BY SMT DEF nor_asm_jmp_within_encl
  <2>4. Plain(nor_asm_ret_int.code)
    BY SMT DEF nor_asm_ret_int
  <2>5. Plain(nor_asm_test.code)
    BY SMT DEF nor_asm_test
  <2>6. Plain(nor_asm_0.code)
    BY SMT DEF nor_asm_0
  <2> QED
    BY <2>1, <2>2, <2>3, <2>4, <2>5, <2>6
<1> QED
  BY <1>1, NorPrograms, Zenon DEF Simple, Code

(* What is true of the other programs before each instruction.              *)
BranchesToItself == pc = 4 => reg["r15"] = Given(L(6))
PushesOnce ==
    /\ reg["r1"].v = IF pc \in {2, 3} THEN given["r1"] - 1 ELSE given["r1"]
    /\ left => pc > 3
SwitchesStack ==
    /\ pc \in {1, 2, 3, 8} => OnCallers
    /\ pc \in {4, 5} => reg["r4"].v = given["r1"]
    /\ pc = 5 => OnOwn
    /\ pc \in {6, 7} => Saved
    /\ pc \in {9, 10} => Called(7)
    /\ left => pc = 8
SwitchesBack ==
    /\ pc \in {1, 2, 7} => OnCallers
    /\ pc \in {3, 4} => reg["r11"].v = given["r1"]
    /\ pc = 4 => OnOwn
    /\ pc \in {5, 6} => Saved
    /\ pc \in {8, 9} => Called(6)
    /\ left => pc = 7
(* The second return takes the address the caller has chosen, and leaves    *)
(* the caller's stack pointer unpopped.                                     *)
ReturnsElsewhere ==
    /\ pc \in {1, 2} => OnCallers
    /\ pc \in {3, 4} => reg["r11"].v = given["r1"]
    /\ pc = 4 => OnOwn
    /\ pc \in {5, 6} => Saved
    /\ pc \in {10, 11} => Called(6)
    /\ pc = 7 => /\ reg["r1"] = Given(D0 + 1) /\ mem[D0 + 1].t
                 /\ mem[D0 + 2].v = given["r1"]
    /\ reg["r14"].t /\ pc \notin {8, 9} /\ ~left

NorInv ==
    /\ prog \in Simple \cup {"nor_asm_br_within_encl_0", "nor_asm_call_c_func_with_priv_stack",
                             "nor_asm_1"} => flagged = {}
    /\ prog = "nor_asm_if_else" => "cf" \notin flagged
    /\ prog = "nor_asm_2" => "ptr" \notin flagged
    /\ prog \in Simple \cup {"nor_asm_br_within_encl_0"} => OnCallers
    /\ prog = "nor_asm_br_within_encl_0" => BranchesToItself
    /\ prog = "nor_asm_if_else" => PushesOnce
    /\ prog = "nor_asm_call_c_func_with_priv_stack" => SwitchesStack
    /\ prog = "nor_asm_1" => SwitchesBack
    /\ prog = "nor_asm_2" /\ "cf" \notin flagged => ReturnsElsewhere
    /\ prog = "nor_asm_2" /\ "cf" \in flagged => Saved

LEMMA NoReports == ASSUME Typed, "cf" \notin flagged, "ptr" \notin flagged PROVE flagged = {}
  BY Zenon DEF Typed, TypeOK, Suites

LEMMA Position == ASSUME Typed PROVE pc \in 1 .. Len(Code) /\ Len(Code) \in Nat /\ Ins = Code[pc]
  BY TheProgram, SMT DEF Typed, TypeOK, WellFormed, Code, Ins

LEMMA SimpleStep ==
    ASSUME Typed, Next, NorInv, prog \in Simple PROVE flagged' = {} /\ OnCallers'
<1>1. Direct(Ins, pc = Len(Code)) /\ Quiet(Ins) /\ KeepsStack(Ins)
  BY SimpleCode, Position, Zenon DEF Plain, DirectProgram, QuietProgram, KeepsStackProgram
<1>2. flagged = {} /\ OnCallers
  BY Zenon DEF NorInv
<1>3. "cf" \notin flagged' /\ "ptr" \notin flagged' /\ reg'["r1"] = reg["r1"]
  BY <1>1, <1>2, DirectStep, QuietStep, KeepsStackStep, Zenon
<1>4. flagged' \subseteq Suites /\ given' = given
  BY TypedStep, Dispatch, Zenon DEF Typed, TypeOK
<1> QED
  BY <1>2, <1>3, <1>4, Zenon DEF Suites, OnCallers

LEMMA BranchesToItselfStep ==
    ASSUME Typed, Next, NorInv, prog = "nor_asm_br_within_encl_0"
    PROVE  flagged' = {} /\ OnCallers' /\ BranchesToItself'
<1> DEFINE c == nor_asm_br_within_encl_0.code
<1>1. Code = c
  BY NorPrograms, Zenon DEF Code
<1>2. Len(c) = 7 /\ KeepsStackProgram(c) /\ QuietProgram(c)
      /\ \A k \in 1 .. 7 : k # 4 => Direct(c[k], k = 7)
  BY SMT DEF nor_asm_br_within_encl_0, KeepsStackProgram, QuietProgram, Direct, Quiet, KeepsStack,
             NoMemory, Program, Cmp, Jif, Mov, Br, Jmp, Imm, Reg, Exec, L, T, Opcode
<1>3. /\ c[1] = Cmp(Imm(1), "r15") /\ c[2] = Jif(EQ, L(6)) /\ c[3] = Mov(Imm(L(6)), Reg("r15"))
      /\ c[4] = Br(Reg("r15")) /\ c[5] = Jmp(L(8)) /\ c[6] = Mov(Imm(Const), Reg("r15"))
      /\ c[7] = Jmp(L(8))
  BY SMT DEF nor_asm_br_within_encl_0, Program
<1> HIDE DEF c
<1>4. pc \in 1 .. 7 /\ Ins = c[pc] /\ Len(Code) = 7
  BY <1>1, <1>2, Position, Zenon
<1>5. flagged = {} /\ OnCallers /\ BranchesToItself
  BY Zenon DEF NorInv
<1>6. "ptr" \notin flagged' /\ reg'["r1"] = reg["r1"]
  BY <1>1, <1>2, <1>4, <1>5, QuietStep, KeepsStackStep, Zenon DEF QuietProgram, KeepsStackProgram
<1>7. CASE pc = 4
  <2>1. Lands(6, {})
    <3>1. 6 \in Nat \ {0} /\ reg["r15"] = Given(L(6)) /\ Ins = Br(Reg("r15"))
      BY <1>3, <1>4, <1>5, <1>7, SMT DEF BranchesToItself
    <3> QED
      BY <3>1, AtBr, Zenon
  <2>2. pc' = 6 /\ flagged' = {}
    BY <1>4, <1>5, <2>1, SMT DEF Lands
  <2> QED
    BY <1>5, <1>6, <2>2, Dispatch, SMT DEF OnCallers, BranchesToItself
<1>8. CASE pc # 4
  <2>1. "cf" \notin flagged'
    BY <1>1, <1>2, <1>4, <1>5, <1>8, DirectStep, Zenon
  <2>2. flagged' = {}
    BY <1>6, <2>1, TypedStep, Zenon DEF Typed, TypeOK, Suites
  <2>3. "r15" \in Registers /\ NoMemory(Imm(1)) /\ NoMemory(Imm(L(6))) /\ NoMemory(Imm(Const))
        /\ 6 \in Nat \ {0} /\ 8 \in Nat \ {0} /\ 1 \in Int
    BY SMT DEF Registers, NoMemory, Imm
  <2>8. BranchesToItself'
    <3>1. CASE pc \in {1, 6}
      <4>1. Onto({})
        BY <1>3, <1>4, <2>3, <3>1, AtCmp, AtMov, SMT
      <4> QED
        BY <3>1, <4>1, SMT DEF Onto, BranchesToItself
    <3>2. CASE pc = 2
      <4>1. Onto({}) \/ Lands(6, {})
        BY <1>3, <1>4, <2>3, <3>2, AtJif, SMT
      <4> QED
        BY <1>4, <3>2, <4>1, SMT DEF Onto, Lands, BranchesToItself
    <3>3. CASE pc = 3
      <4>1. Ins = Mov(Imm(L(6)), Reg("r15")) /\ pc < Len(Code)
            /\ Imm(L(6))[1] = "imm" /\ Imm(L(6))[2] = L(6)
        BY <1>3, <1>4, <3>3, SMT DEF Imm
      <4>2. reg' = [reg EXCEPT !["r15"] = Given(L(6))]
        BY <2>3, <4>1, AtMov, Zenon
      <4> QED
        BY <2>3, <4>2, Zenon DEF BranchesToItself, Typed, TypeOK
    <3>4. CASE pc \in {5, 7}
      <4>1. Lands(8, {})
        BY <1>3, <1>4, <2>3, <3>4, AtJmp, SMT
      <4> QED
        BY <1>4, <3>4, <4>1, SMT DEF Lands, BranchesToItself
    <3> QED
      BY <1>4, <1>8, <3>1, <3>2, <3>3, <3>4, SMT
  <2> QED
    BY <1>5, <1>6, <2>2, <2>8, Dispatch, Zenon DEF OnCallers
<1> QED
  BY <1>7, <1>8

LEMMA PushesOnceStep ==
    ASSUME Typed, Next, NorInv, prog = "nor_asm_if_else"
    PROVE  "cf" \notin flagged' /\ PushesOnce'
<1> DEFINE c == nor_asm_if_else.code
<1>1. Code = c
  BY NorPrograms, Zenon DEF Code
<1>2. Len(c) = 14 /\ DirectProgram(c)
  BY SMT DEF nor_asm_if_else, DirectProgram, Direct, Program, Push, Pop, Cmp, Jif, Mov, Add, Jmp,
             Imm, Reg, Exec, L, T, Opcode
<1>9. /\ c[1][1] = "push" /\ c[2][1] = "mov" /\ c[3][1] = "pop" /\ c[4][1] = "cmp"
      /\ c[5][1] = "jif" /\ c[6][1] = "mov" /\ c[7][1] = "cmp" /\ c[8][1] = "jif"
      /\ c[9][1] = "add" /\ c[10][1] = "jmp" /\ c[11][1] = "add" /\ c[12][1] = "jmp"
      /\ c[13][1] = "add" /\ c[14][1] = "jmp"
  BY SMT DEF nor_asm_if_else, Program, Push, Pop, Cmp, Jif, Mov, Add, Jmp
<1>10. /\ c[2][3] = Reg("r12") /\ c[6][3] = Reg("r10")
       /\ c[5][2] = L(11) /\ c[8][2] = L(13) /\ c[10][2] = L(15) /\ c[12][2] = L(15)
       /\ c[14][2] = L(15) /\ c[9][3] = "r15" /\ c[11][3] = "r15" /\ c[13][3] = "r15"
  BY SMT DEF nor_asm_if_else, Program, Push, Pop, Cmp, Jif, Mov, Add, Jmp
<1>3. c[1] = Push("r15") /\ c[3] = Pop("r15")
  BY SMT DEF nor_asm_if_else, Program
<1> HIDE DEF c
<1>4. pc \in 1 .. 14 /\ Ins = c[pc] /\ Len(Code) = 14
  BY <1>1, <1>2, Position, Zenon
<1>5. "cf" \notin flagged /\ PushesOnce
  BY Zenon DEF NorInv
<1>6. "cf" \notin flagged'
  <2>1. Direct(Ins, pc = Len(Code))
    BY <1>1, <1>2, <1>4, Zenon DEF DirectProgram
  <2> QED
    BY <1>5, <2>1, DirectStep, Zenon
<1>7. reg["r1"].v \in Int /\ reg'["r1"].v \in Int /\ given' = given
  BY TypedStep, RegistersTyped, Registers1, Dispatch, WordForms, Zenon DEF Typed, TypeOK
<1>8. PushesOnce'
  <2>1. CASE pc = 1
    <3>1. Ins[1] = "push" /\ DoPush
      BY <1>3, <1>4, <2>1, Dispatch, SMT DEF Push
    <3>2. reg'["r1"] = Plus(reg["r1"], -1)
      BY <3>1, Registers1, Zenon DEF DoPush, Top, Typed, TypeOK
    <3>3. reg'["r1"].v = reg["r1"].v - 1
      BY <1>7, <3>2, SMT DEF Plus
    <3>4. pc' = 2 /\ ~left'
      <4>1. pc < Len(Code) /\ pc + 1 = 2
        BY <1>4, <2>1, SMT
      <4> QED
        BY <3>1, <4>1, Onward, Zenon DEF DoPush
    <3> QED
      BY <1>5, <1>7, <2>1, <3>3, <3>4, SMT DEF PushesOnce
  <2>2. CASE pc = 3
    <3>1. Ins[1] = "pop" /\ Ins[2] = "r15" /\ DoPop
      BY <1>3, <1>4, <2>2, Dispatch, SMT DEF Pop
    <3>2. PICK x : reg' = [reg EXCEPT !["r1"] = Plus(@, 1), !["r15"] = x]
      BY <3>1, Zenon DEF DoPop
    <3>3. reg'["r1"] = Plus(reg["r1"], 1)
      BY <3>2, Registers1, SMT DEF Typed, TypeOK
    <3>4. reg'["r1"].v = reg["r1"].v + 1
      BY <1>7, <3>3, SMT DEF Plus
    <3>5. pc' = 4 /\ ~left'
      <4>1. pc < Len(Code) /\ pc + 1 = 4
        BY <1>4, <2>2, SMT
      <4> QED
        BY <3>1, <4>1, Onward, Zenon DEF DoPop
    <3>6. given["r1"] \in Int
      BY Registers1, SMT DEF Typed
    <3> QED
      BY <1>5, <1>7, <2>2, <3>4, <3>5, <3>6, SMT DEF PushesOnce
  <2>3. CASE pc \notin {1, 3}
    <3>1. reg'["r1"] = reg["r1"]
      <4>1. KeepsStack(Ins)
        BY <1>4, <1>9, <1>10, <2>3, SMT DEF KeepsStack, Reg
      <4> QED
        BY <4>1, KeepsStackStep, Zenon
    <3>2. \/ left' /\ pc' = pc
          \/ ~left' /\ pc' = pc + 1
          \/ ~left' /\ Ins[1] \in {"jmp", "jif"} /\ Ins[2] = L(pc')
      <4>1. Ins[1] \in {"nop", "mov", "add", "cmp", "push", "pop", "jmp", "jif"}
        BY <1>4, <1>9, SMT
      <4> QED
        BY <4>1, Successor, Zenon
    <3>3. Ins[1] \in {"jmp", "jif"} => pc > 4 /\ Ins[2] >= L(4)
      BY <1>4, <1>9, <1>10, SMT DEF L, T
    <3>4. pc' \in {2, 3} <=> pc \in {2, 3}
      <4>1. pc' \in Int
        BY TypedStep, SMT DEF Typed, TypeOK
      <4>2. pc = 2 => pc' \in {2, 3}
        BY <3>2, <3>3, SMT
      <4>3. pc > 3 => pc' > 3
        BY <1>4, <3>2, <3>3, <4>1, SMT DEF L, T
      <4> QED
        BY <1>4, <2>3, <4>2, <4>3, SMT
    <3>5. left' => pc' > 3
      <4>1. pc = 2 => pc < Len(Code) /\ Ins[1] = "mov"
        BY <1>4, <1>9, SMT
      <4>2. pc = 2 => ~left'
        BY <4>1, Dispatch, Onward, Zenon DEF DoMov
      <4>3. left' => pc' = pc
        BY <3>2, <3>3, Zenon
      <4> QED
        BY <1>4, <2>3, <4>2, <4>3, SMT
    <3> QED
      BY <1>5, <1>7, <3>1, <3>4, <3>5, Zenon DEF PushesOnce
  <2> QED
    BY <2>1, <2>2, <2>3
<1> QED
  BY <1>6, <1>8

LEMMA SwitchesStackStep ==
    ASSUME Typed, Next, NorInv, prog = "nor_asm_call_c_func_with_priv_stack"
    PROVE  flagged' = {} /\ SwitchesStack'
<1> DEFINE c == PrivateStackCall.code
<1>1. Code = c /\ AllPrograms[prog] = PrivateStackCall
  BY NorPrograms, Zenon DEF Code
<1>2. FourWords
  BY <1>1, SMT DEF Typed, Bounded, FourWords, PrivateStackCall, Program, D0
<1>3. /\ Len(c) = 10
      /\ c[1] = Mov(Imm(10), Reg("r14")) /\ c[2] = Mov(Imm(Const), Reg("r15"))
      /\ c[3] = Mov(Reg("r1"), Reg("r4")) /\ c[4] = Mov(Imm(D0 + 3), Reg("r1"))
      /\ c[5] = Push("r4") /\ c[6] = Call(Imm(L(9))) /\ c[7] = Pop("r1")
      /\ c[8] = Br(Imm(W6c0a)) /\ c[9] = Add(Reg("r14"), "r15") /\ c[10] = Ret
  BY SMT DEF PrivateStackCall, Program
<1> HIDE DEF c
<1>4. pc \in 1 .. 10 /\ Ins = c[pc] /\ Len(Code) = 10
  BY <1>1, <1>3, Position, Zenon
<1>5. flagged = {} /\ SwitchesStack /\ flagged \cup {} = {}
  BY Zenon DEF NorInv
<1>6. given' = given /\ DOMAIN reg = Registers
      /\ {"r1", "r4", "r14", "r15"} \subseteq Registers
  BY Dispatch, SMT DEF Registers, Typed, TypeOK
<1>7. /\ NoMemory(Imm(10)) /\ NoMemory(Imm(Const)) /\ NoMemory(Reg("r1")) /\ NoMemory(Imm(D0 + 3))
      /\ NoMemory(Reg("r14")) /\ Reg("r1")[1] = "reg" /\ Reg("r1")[2] = "r1"
      /\ Imm(D0 + 3)[1] = "imm" /\ Imm(D0 + 3)[2] = D0 + 3
  BY SMT DEF NoMemory, Imm, Reg
<1>8. CASE pc \in {1, 2}
  <2>1. PICK r, s : r \in {"r14", "r15"} /\ NoMemory(s) /\ Ins = Mov(s, Reg(r)) /\ pc < Len(Code)
    BY <1>3, <1>4, <1>7, <1>8, SMT
  <2>2. Onto({}) /\ reg'["r1"] = reg["r1"]
    BY <1>6, <2>1, AtMov, SMT
  <2> QED
    BY <1>5, <1>6, <1>8, <2>2, SMT DEF Onto, SwitchesStack, OnCallers
<1>9. CASE pc = 3
  <2>1. Onto({}) /\ reg' = [reg EXCEPT !["r4"] = reg["r1"]]
    BY <1>3, <1>4, <1>6, <1>7, <1>9, AtMov, SMT
  <2> QED
    BY <1>5, <1>6, <1>9, <2>1, SMT DEF Onto, SwitchesStack, OnCallers
<1>10. CASE pc = 4
  <2>1. Onto({}) /\ reg' = [reg EXCEPT !["r1"] = Given(D0 + 3)]
    BY <1>3, <1>4, <1>6, <1>7, <1>10, AtMov, SMT
  <2> QED
    BY <1>5, <1>6, <1>10, <2>1, SMT DEF Onto, SwitchesStack, OnOwn
<1>11. CASE pc = 5
  <2>1. D0 + 3 \in D0 + 1 .. D0 + 3 /\ (D0 + 3) - 1 = D0 + 2 /\ D0 + 2 \in D0 .. D0 + 3
    BY SMT DEF D0
  <2>2. reg["r1"] = Given(D0 + 3) /\ reg["r4"].v = given["r1"]
    BY <1>5, <1>11, SMT DEF SwitchesStack, OnOwn
  <2>3. Ins = Push("r4") /\ pc < Len(Code) /\ "r4" \in Registers
    BY <1>3, <1>4, <1>6, <1>11, SMT
  <2>4. Onto({}) /\ reg' = [reg EXCEPT !["r1"] = Given(D0 + 2)]
                /\ mem' = [mem EXCEPT ![D0 + 2] = reg["r4"]]
    BY <1>2, <2>1, <2>2, <2>3, AtPush, Zenon
  <2>5. Saved'
    BY <1>2, <1>6, <2>1, <2>2, <2>4, OwnWord, Zenon DEF Saved, Data
  <2>6. pc' = 6 /\ left' = FALSE
    BY <1>11, <2>4, SMT DEF Onto
  <2> QED
    BY <1>5, <2>4, <2>5, <2>6, SMT DEF Onto, SwitchesStack
<1>12. CASE pc = 6
  <2>1. Ins = Call(Imm(L(9))) /\ 9 \in 1 .. Len(Code) /\ 7 = pc + 1
    BY <1>3, <1>4, <1>12, SMT
  <2>2. Saved
    BY <1>5, <1>12, SMT DEF SwitchesStack
  <2>3. Called(7)' /\ pc' = 9 /\ left' = FALSE /\ flagged' = flagged
    BY <1>2, <2>1, <2>2, AtCall, Zenon
  <2> QED
    BY <1>5, <2>3, SMT DEF SwitchesStack
<1>13. CASE pc = 7
  <2>1. Ins = Pop("r1") /\ pc < Len(Code)
    BY <1>3, <1>4, <1>13, SMT
  <2>2. Saved
    BY <1>5, <1>13, SMT DEF SwitchesStack
  <2>3. OnCallers' /\ Onto({})
    BY <1>2, <2>1, <2>2, AtPopStack, Zenon
  <2> QED
    BY <1>5, <1>13, <2>3, SMT DEF SwitchesStack, Onto
<1>14. CASE pc = 8
  <2>1. Ins = Br(Imm(W6c0a)) /\ W6c0a \in Int /\ Exec(W6c0a) /\ W6c0a \notin Text
    BY <1>3, <1>4, <1>14, SMT DEF W6c0a, Exec, Opcode, Text, T
  <2>2. left' = TRUE /\ pc' = pc /\ UNCHANGED <<reg, mem, cmp, flagged>>
    BY <2>1, AtBrOut, Zenon
  <2> QED
    BY <1>5, <1>6, <1>14, <2>2, SMT DEF SwitchesStack, OnCallers
<1>15. CASE pc = 9
  <2>1. Onto({}) /\ reg'["r1"] = reg["r1"] /\ mem' = mem
    <3>1. Ins = Add(Reg("r14"), "r15") /\ pc < Len(Code) /\ NoMemory(Reg("r14"))
          /\ "r15" \in Registers /\ "r1" \in Registers \ {"r15"}
      BY <1>3, <1>4, <1>6, <1>7, <1>15, SMT
    <3> QED
      BY <3>1, AtAdd, Zenon
  <2> QED
    BY <1>5, <1>6, <1>15, <2>1, SMT DEF SwitchesStack, Onto, Called
<1>16. CASE pc = 10
  <2>1. Ins = Ret /\ 7 \in 1 .. Len(Code)
    BY <1>3, <1>4, <1>16, SMT
  <2>2. Called(7)
    BY <1>5, <1>16, SMT DEF SwitchesStack
  <2>3. Saved' /\ pc' = 7 /\ left' = FALSE /\ flagged' = flagged
    BY <1>2, <2>1, <2>2, AtRet, Zenon
  <2> QED
    BY <1>5, <2>3, SMT DEF SwitchesStack
<1> QED
  BY <1>4, <1>8, <1>9, <1>10, <1>11, <1>12, <1>13, <1>14, <1>15, <1>16, SMT

LEMMA SwitchesBackStep ==
    ASSUME Typed, Next, NorInv, prog = "nor_asm_1"
    PROVE  flagged' = {} /\ SwitchesBack'
<1> DEFINE c == nor_asm_1.code
<1>1. Code = c /\ AllPrograms[prog] = nor_asm_1
  BY NorPrograms, Zenon DEF Code
<1>2. FourWords
  BY <1>1, SMT DEF Typed, Bounded, FourWords, nor_asm_1, Program, D0
<1>3. /\ Len(c) = 9
      /\ c[1] = Mov(Imm(W1234 - 1), Reg("r15")) /\ c[2] = Mov(Reg("r1"), Reg("r11"))
      /\ c[3] = Mov(Imm(D0 + 3), Reg("r1")) /\ c[4] = Push("r11") /\ c[5] = Call(Imm(L(8)))
      /\ c[6] = Pop("r1") /\ c[7] = Jmp(L(10)) /\ c[8] = Add(Imm(1), "r15") /\ c[9] = Ret
  BY SMT DEF nor_asm_1, Program
<1> HIDE DEF c
<1>4. pc \in 1 .. 9 /\ Ins = c[pc] /\ Len(Code) = 9
  BY <1>1, <1>3, Position, Zenon
<1>5. flagged = {} /\ SwitchesBack /\ flagged \cup {} = {}
  BY Zenon DEF NorInv
<1>6. given' = given /\ DOMAIN reg = Registers
      /\ {"r1", "r11", "r14", "r15"} \subseteq Registers
  BY Dispatch, SMT DEF Registers, Typed, TypeOK
<1>7. /\ NoMemory(Imm(W1234 - 1)) /\ NoMemory(Reg("r1")) /\ NoMemory(Imm(D0 + 3))
      /\ NoMemory(Imm(1)) /\ Reg("r1")[1] = "reg" /\ Reg("r1")[2] = "r1"
      /\ Imm(D0 + 3)[1] = "imm" /\ Imm(D0 + 3)[2] = D0 + 3
  BY SMT DEF NoMemory, Imm, Reg
<1>8. CASE pc = 1
  <2>1. Ins = Mov(Imm(W1234 - 1), Reg("r15")) /\ pc < Len(Code) /\ "r15" \in Registers
    BY <1>3, <1>4, <1>6, <1>8, SMT
  <2>2. Onto({}) /\ \E x : reg' = [reg EXCEPT !["r15"] = x]
    BY <1>7, <2>1, AtMov, Zenon
  <2> QED
    BY <1>5, <1>6, <1>8, <2>2, SMT DEF Onto, SwitchesBack, OnCallers
<1>9. CASE pc = 2
  <2>1. Ins = Mov(Reg("r1"), Reg("r11")) /\ pc < Len(Code) /\ "r11" \in Registers
    BY <1>3, <1>4, <1>6, <1>9, SMT
  <2>2. Onto({}) /\ reg' = [reg EXCEPT !["r11"] = reg["r1"]]
    BY <1>7, <2>1, AtMov, SMT
  <2> QED
    BY <1>5, <1>6, <1>9, <2>2, SMT DEF Onto, SwitchesBack, OnCallers
<1>10. CASE pc = 3
  <2>1. Ins = Mov(Imm(D0 + 3), Reg("r1")) /\ pc < Len(Code) /\ "r1" \in Registers
    BY <1>3, <1>4, <1>6, <1>10, SMT
  <2>2. Onto({}) /\ reg' = [reg EXCEPT !["r1"] = Given(D0 + 3)]
    BY <1>7, <2>1, AtMov, SMT
  <2> QED
    BY <1>5, <1>6, <1>10, <2>2, SMT DEF Onto, SwitchesBack, OnOwn
<1>11. CASE pc = 4
  <2>1. D0 + 3 \in D0 + 1 .. D0 + 3 /\ (D0 + 3) - 1 = D0 + 2 /\ D0 + 2 \in D0 .. D0 + 3
    BY SMT DEF D0
  <2>2. reg["r1"] = Given(D0 + 3) /\ reg["r11"].v = given["r1"]
    BY <1>5, <1>11, SMT DEF SwitchesBack, OnOwn
  <2>3. Ins = Push("r11") /\ pc < Len(Code) /\ "r11" \in Registers
    BY <1>3, <1>4, <1>6, <1>11, SMT
  <2>4. Onto({}) /\ reg' = [reg EXCEPT !["r1"] = Given(D0 + 2)]
                /\ mem' = [mem EXCEPT ![D0 + 2] = reg["r11"]]
    BY <1>2, <2>1, <2>2, <2>3, AtPush, Zenon
  <2>5. Saved'
    BY <1>2, <1>6, <2>1, <2>2, <2>4, OwnWord, Zenon DEF Saved, Data
  <2>6. pc' = 5 /\ left' = FALSE
    BY <1>11, <2>4, SMT DEF Onto
  <2> QED
    BY <1>5, <2>4, <2>5, <2>6, SMT DEF Onto, SwitchesBack
<1>12. CASE pc = 5
  <2>1. Ins = Call(Imm(L(8))) /\ 8 \in 1 .. Len(Code) /\ 6 = pc + 1
    BY <1>3, <1>4, <1>12, SMT
  <2>2. Saved
    BY <1>5, <1>12, SMT DEF SwitchesBack
  <2>3. Called(6)' /\ pc' = 8 /\ left' = FALSE /\ flagged' = flagged
    BY <1>2, <2>1, <2>2, AtCall, Zenon
  <2> QED
    BY <1>5, <2>3, SMT DEF SwitchesBack
<1>13. CASE pc = 6
  <2>1. Ins = Pop("r1") /\ pc < Len(Code)
    BY <1>3, <1>4, <1>13, SMT
  <2>2. Saved
    BY <1>5, <1>13, SMT DEF SwitchesBack
  <2>3. OnCallers' /\ Onto({})
    BY <1>2, <2>1, <2>2, AtPopStack, Zenon
  <2> QED
    BY <1>5, <1>13, <2>3, SMT DEF SwitchesBack, Onto
<1>14. CASE pc = 7
  <2>1. Ins = Jmp(L(10)) /\ 10 \in Nat \ {0}
    BY <1>3, <1>4, <1>14, SMT
  <2>2. Lands(10, {}) /\ UNCHANGED <<reg, mem, cmp>>
    BY <2>1, AtJmp, Zenon
  <2> QED
    BY <1>4, <1>5, <1>6, <1>14, <2>2, SMT DEF SwitchesBack, OnCallers, Lands
<1>15. CASE pc = 8
  <2>1. Ins = Add(Imm(1), "r15") /\ pc < Len(Code) /\ "r15" \in Registers
        /\ "r1" \in Registers \ {"r15"} /\ "r14" \in Registers \ {"r15"}
    BY <1>3, <1>4, <1>6, <1>15, SMT
  <2>2. Onto({}) /\ reg'["r1"] = reg["r1"] /\ reg'["r14"] = reg["r14"] /\ mem' = mem
    BY <1>7, <2>1, AtAdd, Zenon
  <2> QED
    BY <1>5, <1>6, <1>15, <2>2, SMT DEF SwitchesBack, Onto, Called
<1>16. CASE pc = 9
  <2>1. Ins = Ret /\ 6 \in 1 .. Len(Code)
    BY <1>3, <1>4, <1>16, SMT
  <2>2. Called(6)
    BY <1>5, <1>16, SMT DEF SwitchesBack
  <2>3. Saved' /\ pc' = 6 /\ left' = FALSE /\ flagged' = flagged
    BY <1>2, <2>1, <2>2, AtRet, Zenon
  <2> QED
    BY <1>5, <2>3, SMT DEF SwitchesBack
<1> QED
  BY <1>4, <1>8, <1>9, <1>10, <1>11, <1>12, <1>13, <1>14, <1>15, <1>16, SMT

LEMMA ReturnsElsewhereStep ==
    ASSUME Typed, Next, NorInv, prog = "nor_asm_2", "cf" \notin flagged
    PROVE  /\ "ptr" \notin flagged'
           /\ "cf" \notin flagged' => ReturnsElsewhere'
           /\ "cf" \in flagged' => Saved'
<1> DEFINE c == nor_asm_2.code
<1>1. Code = c /\ AllPrograms[prog] = nor_asm_2
  BY NorPrograms, Zenon DEF Code
<1>2. FourWords
  BY <1>1, SMT DEF Typed, Bounded, FourWords, nor_asm_2, Program, D0
<1>3. /\ Len(c) = 11
      /\ c[1] = Mov(Imm(W1234 - 1), Reg("r15")) /\ c[2] = Mov(Reg("r1"), Reg("r11"))
      /\ c[3] = Mov(Imm(D0 + 3), Reg("r1")) /\ c[4] = Push("r11") /\ c[5] = Call(Imm(L(10)))
      /\ c[6] = Push("r14") /\ c[7] = Ret /\ c[8] = Pop("r1") /\ c[9] = Jmp(L(12))
      /\ c[10] = Add(Imm(1), "r15") /\ c[11] = Ret
  BY SMT DEF nor_asm_2, Program
<1> HIDE DEF c
<1>4. pc \in 1 .. 11 /\ Ins = c[pc] /\ Len(Code) = 11
  BY <1>1, <1>3, Position, Zenon
<1>5. "ptr" \notin flagged /\ "cf" \notin flagged /\ ReturnsElsewhere
  BY Zenon DEF NorInv
<1>6. given' = given /\ DOMAIN reg = Registers
      /\ {"r1", "r11", "r14", "r15"} \subseteq Registers
  BY Dispatch, SMT DEF Registers, Typed, TypeOK
<1>7. /\ NoMemory(Imm(W1234 - 1)) /\ NoMemory(Reg("r1")) /\ NoMemory(Imm(D0 + 3))
      /\ NoMemory(Imm(1)) /\ Reg("r1")[1] = "reg" /\ Reg("r1")[2] = "r1"
      /\ Imm(D0 + 3)[1] = "imm" /\ Imm(D0 + 3)[2] = D0 + 3
  BY SMT DEF NoMemory, Imm, Reg
<1>17. reg'["r14"].t
  <2>1. /\ DoPush \/ DoCall \/ DoRet => reg'["r14"] = reg["r14"]
        /\ DoPop /\ Ins[2] = "r1" => reg'["r14"] = reg["r14"]
        /\ DoJump => reg'["r14"] = reg["r14"]
    BY <1>6, SMT DEF DoPush, DoCall, DoRet, DoPop, DoJump
  <2>2. DoMov /\ Ins[3][1] = "reg" /\ Ins[3][2] \in {"r1", "r11", "r15"}
            => reg'["r14"] = reg["r14"]
    BY <1>6, SMT DEF DoMov
  <2>3. DoAdd /\ Ins[3] = "r15" => reg'["r14"] = reg["r14"]
    BY <1>6, SMT DEF DoAdd
  <2>4. \/ Ins[1] = "mov" /\ Ins[3][1] = "reg" /\ Ins[3][2] \in {"r1", "r11", "r15"}
        \/ Ins[1] \in {"push", "call", "ret", "jmp"}
        \/ Ins[1] = "pop" /\ Ins[2] = "r1"
        \/ Ins[1] = "add" /\ Ins[3] = "r15"
    BY <1>3, <1>4, SMT DEF Mov, Push, Call, Ret, Jmp, Pop, Add, Reg
  <2>5. reg'["r14"] = reg["r14"]
    BY <2>1, <2>2, <2>3, <2>4, Dispatch, SMT
  <2> QED
    BY <1>5, <2>5, SMT DEF ReturnsElsewhere
<1>8. CASE pc = 1
  <2>1. Ins = Mov(Imm(W1234 - 1), Reg("r15")) /\ pc < Len(Code) /\ "r15" \in Registers
    BY <1>3, <1>4, <1>6, <1>8, SMT
  <2>2. Onto({}) /\ \E x : reg' = [reg EXCEPT !["r15"] = x]
    BY <1>7, <2>1, AtMov, Zenon
  <2> QED
    BY <1>5, <1>6, <1>17, <1>8, <2>2, SMT DEF Onto, ReturnsElsewhere, OnCallers
<1>9. CASE pc = 2
  <2>1. Ins = Mov(Reg("r1"), Reg("r11")) /\ pc < Len(Code) /\ "r11" \in Registers
    BY <1>3, <1>4, <1>6, <1>9, SMT
  <2>2. Onto({}) /\ reg' = [reg EXCEPT !["r11"] = reg["r1"]]
    BY <1>7, <2>1, AtMov, SMT
  <2> QED
    BY <1>5, <1>6, <1>17, <1>9, <2>2, SMT DEF Onto, ReturnsElsewhere, OnCallers
<1>10. CASE pc = 3
  <2>1. Ins = Mov(Imm(D0 + 3), Reg("r1")) /\ pc < Len(Code) /\ "r1" \in Registers
    BY <1>3, <1>4, <1>6, <1>10, SMT
  <2>2. Onto({}) /\ reg' = [reg EXCEPT !["r1"] = Given(D0 + 3)]
    BY <1>7, <2>1, AtMov, SMT
  <2> QED
    BY <1>5, <1>6, <1>17, <1>10, <2>2, SMT DEF Onto, ReturnsElsewhere, OnOwn
<1>11. CASE pc = 4
  <2>1. D0 + 3 \in D0 + 1 .. D0 + 3 /\ (D0 + 3) - 1 = D0 + 2 /\ D0 + 2 \in D0 .. D0 + 3
    BY SMT DEF D0
  <2>2. reg["r1"] = Given(D0 + 3) /\ reg["r11"].v = given["r1"]
    BY <1>5, <1>11, SMT DEF ReturnsElsewhere, OnOwn
  <2>3. Ins = Push("r11") /\ pc < Len(Code) /\ "r11" \in Registers
    BY <1>3, <1>4, <1>6, <1>11, SMT
  <2>4. Onto({}) /\ reg' = [reg EXCEPT !["r1"] = Given(D0 + 2)]
                /\ mem' = [mem EXCEPT ![D0 + 2] = reg["r11"]]
    BY <1>2, <2>1, <2>2, <2>3, AtPush, Zenon
  <2>5. Saved'
    BY <1>2, <1>6, <2>1, <2>2, <2>4, OwnWord, Zenon DEF Saved, Data
  <2>6. pc' = 5 /\ left' = FALSE
    BY <1>11, <2>4, SMT DEF Onto
  <2> QED
    BY <1>5, <1>17, <2>4, <2>5, <2>6, SMT DEF Onto, ReturnsElsewhere
<1>12. CASE pc = 5
  <2>1. Ins = Call(Imm(L(10))) /\ 10 \in 1 .. Len(Code) /\ 6 = pc + 1
    BY <1>3, <1>4, <1>12, SMT
  <2>2. Saved
    BY <1>5, <1>12, SMT DEF ReturnsElsewhere
  <2>3. Called(6)' /\ pc' = 10 /\ left' = FALSE /\ flagged' = flagged
    BY <1>2, <2>1, <2>2, AtCall, Zenon
  <2> QED
    BY <1>5, <1>17, <2>3, SMT DEF ReturnsElsewhere
<1>13. CASE pc = 6
  <2>1. D0 + 2 \in D0 + 1 .. D0 + 3 /\ (D0 + 2) - 1 = D0 + 1 /\ D0 + 1 \in D0 .. D0 + 3
    BY SMT DEF D0
  <2>2. reg["r1"] = Given(D0 + 2) /\ mem[D0 + 2].v = given["r1"] /\ reg["r14"].t
    BY <1>5, <1>13, SMT DEF ReturnsElsewhere, Saved
  <2>3. Ins = Push("r14") /\ pc < Len(Code) /\ "r14" \in Registers
    BY <1>3, <1>4, <1>6, <1>13, SMT
  <2>4. Onto({}) /\ reg' = [reg EXCEPT !["r1"] = Given(D0 + 1)]
                /\ mem' = [mem EXCEPT ![D0 + 1] = reg["r14"]]
    BY <1>2, <2>1, <2>2, <2>3, AtPush, Zenon
  <2>5. reg'["r1"] = Given(D0 + 1) /\ mem'[D0 + 1].t
    BY <1>2, <1>6, <2>1, <2>2, <2>4, OwnWord, Zenon DEF Data
  <2>6. pc' = 7 /\ left' = FALSE
    BY <1>13, <2>4, SMT DEF Onto
  <2>7. mem'[D0 + 2].v = given'["r1"]
    <3>1. D0 + 2 # D0 + 1 /\ D0 + 2 \in D0 .. D0 + 3
      BY SMT DEF D0
    <3>2. DOMAIN mem = D0 .. D0 + 3
      BY <1>2, Zenon DEF FourWords, Data
    <3> QED
      BY <1>6, <2>2, <2>4, <3>1, <3>2, Zenon
  <2> QED
    BY <1>5, <1>17, <2>4, <2>5, <2>6, <2>7, SMT DEF Onto, ReturnsElsewhere
<1>14. CASE pc = 7
  <2>1. DoRet
    BY <1>3, <1>4, <1>14, Dispatch, SMT DEF Ret
  <2>2. reg["r1"] = Given(D0 + 1) /\ mem[D0 + 1].t /\ D0 + 1 \in D0 .. D0 + 3
    BY <1>5, <1>14, SMT DEF ReturnsElsewhere, D0
  <2>3. OfPointer(reg["r1"]) = {} /\ Loads(reg["r1"].v) = {mem[D0 + 1]}
    BY <1>2, <2>2, OwnWord, Zenon
  <2>4. Goto(mem[D0 + 1], {})
    BY <2>1, <2>3, Zenon DEF DoRet
  <2>5. OfTarget(mem[D0 + 1]) = {"cf"}
    BY <2>2, Zenon DEF OfTarget
  <2>6. flagged' = flagged \cup {} \cup {"cf"}
    BY <2>4, <2>5, Zenon DEF Goto
  <2>7. reg' = [reg EXCEPT !["r1"] = Plus(Given(D0 + 1), 1)] /\ mem' = mem
    BY <2>1, <2>2, Zenon DEF DoRet
  <2>8. Plus(Given(D0 + 1), 1) = Given(D0 + 2)
    <3>1. Plus(Given(D0 + 1), 1) = Given(D0 + 1 + 1)
      BY <1>2, <2>2, OwnWord, Zenon
    <3>2. D0 + 1 + 1 = D0 + 2
      BY SMT DEF D0
    <3> QED
      BY <3>1, <3>2, Zenon
  <2>9. mem[D0 + 2].v = given["r1"]
    BY <1>5, <1>14, SMT DEF ReturnsElsewhere
  <2>10. Saved'
    BY <1>6, <2>7, <2>8, <2>9, Zenon DEF Saved
  <2> QED
    BY <1>5, <2>6, <2>10, SMT
<1>15. CASE pc = 10
  <2>1. Ins = Add(Imm(1), "r15") /\ pc < Len(Code) /\ "r15" \in Registers
        /\ "r1" \in Registers \ {"r15"}
    BY <1>3, <1>4, <1>6, <1>15, SMT
  <2>2. Onto({}) /\ reg'["r1"] = reg["r1"] /\ mem' = mem
    BY <1>7, <2>1, AtAdd, Zenon
  <2> QED
    BY <1>5, <1>6, <1>17, <1>15, <2>2, SMT DEF ReturnsElsewhere, Onto, Called
<1>16. CASE pc = 11
  <2>1. Ins = Ret /\ 6 \in 1 .. Len(Code)
    BY <1>3, <1>4, <1>16, SMT
  <2>2. Called(6)
    BY <1>5, <1>16, SMT DEF ReturnsElsewhere
  <2>3. Saved' /\ pc' = 6 /\ left' = FALSE /\ flagged' = flagged
    BY <1>2, <2>1, <2>2, AtRet, Zenon
  <2> QED
    BY <1>5, <1>17, <2>3, SMT DEF ReturnsElsewhere
<1> QED
  BY <1>4, <1>5, <1>8, <1>9, <1>10, <1>11, <1>12, <1>13, <1>14, <1>15, <1>16, SMT DEF ReturnsElsewhere

LEMMA NorInit == ASSUME Init PROVE NorInv
<1>1. flagged = {} /\ pc = 1 /\ left = FALSE
  BY Zenon DEF Init
<1>2. OnCallers
  BY Registers1, Zenon DEF Init, OnCallers
<1>3. prog = "nor_asm_2" => reg["r14"].t
  <2>1. PICK choice \in [AllPrograms[prog].chosen -> Words] :
          reg = [r \in Registers |-> IF r \in DOMAIN choice THEN Chosen(choice[r]) ELSE Given(0)]
    BY Zenon DEF Init
  <2>2. prog = "nor_asm_2" => "r14" \in AllPrograms[prog].chosen
    BY NorPrograms, SMT DEF nor_asm_2, Program
  <2> QED
    BY <2>1, <2>2, SMT DEF Chosen, Registers
<1> QED
  BY <1>1, <1>2, <1>3, SMT DEF NorInv, BranchesToItself, PushesOnce, SwitchesStack, SwitchesBack,
                               ReturnsElsewhere, OnCallers

LEMMA NorStep == ASSUME Typed, Next, NorInv PROVE NorInv'
<1>1. prog' = prog /\ "cf" \notin flagged
  BY Dispatch, Zenon DEF Ended
<1>2. prog \in Simple => flagged' = {} /\ OnCallers'
  BY SimpleStep, Zenon
<1>3. prog = "nor_asm_br_within_encl_0" => flagged' = {} /\ OnCallers' /\ BranchesToItself'
  BY BranchesToItselfStep, Zenon
<1>4. prog = "nor_asm_if_else" => "cf" \notin flagged' /\ PushesOnce'
  BY PushesOnceStep, Zenon
<1>5. prog = "nor_asm_call_c_func_with_priv_stack" => flagged' = {} /\ SwitchesStack'
  BY SwitchesStackStep, Zenon
<1>6. prog = "nor_asm_1" => flagged' = {} /\ SwitchesBack'
  BY SwitchesBackStep, Zenon
<1>7. prog = "nor_asm_2"
        => /\ "ptr" \notin flagged'
           /\ "cf" \notin flagged' => ReturnsElsewhere'
           /\ "cf" \in flagged' => Saved'
  BY <1>1, ReturnsElsewhereStep, Zenon
<1> QED
  BY <1>1, <1>2, <1>3, <1>4, <1>5, <1>6, <1>7, Zenon DEF NorInv

LEMMA NorSame == ASSUME Typed, NorInv, UNCHANGED vars PROVE NorInv'
<1>1. UNCHANGED <<prog, pc, reg, mem, flagged, left, given>>
  BY Zenon DEF vars
<1>2. OnCallers' = OnCallers /\ OnOwn' = OnOwn /\ Saved' = Saved
      /\ Called(6)' = Called(6) /\ Called(7)' = Called(7)
  BY <1>1, Zenon DEF OnCallers, OnOwn, Saved, Called
<1>3. BranchesToItself' = BranchesToItself /\ PushesOnce' = PushesOnce
  BY <1>1, Zenon DEF BranchesToItself, PushesOnce
<1>4. SwitchesStack' = SwitchesStack /\ SwitchesBack' = SwitchesBack
      /\ ReturnsElsewhere' = ReturnsElsewhere
  BY <1>1, <1>2, Zenon DEF SwitchesStack, SwitchesBack, ReturnsElsewhere
<1> QED
  BY <1>1, <1>2, <1>3, <1>4, Zenon DEF NorInv

LEMMA NorNames ==
    /\ DOMAIN CfNor \subseteq Simple \cup {"nor_asm_br_within_encl_0", "nor_asm_if_else",
                                           "nor_asm_call_c_func_with_priv_stack"}
    /\ DOMAIN PtrNor \subseteq Simple \cup {"nor_asm_1", "nor_asm_2",
                                            "nor_asm_call_c_func_with_priv_stack"}
  BY SMT DEF CfNor, PtrNor, Simple

LEMMA NorInvImplies == ASSUME Typed, NorInv PROVE NorClean /\ ReturnsOnCallersStack
<1>1. NorClean
  BY NorNames, SMT DEF NorInv, NorClean, Simple
<1>2. ASSUME left, prog \in (DOMAIN CfNor \cup DOMAIN PtrNor) \ {"nor_asm_2"}
      PROVE  OnCallers
  <2>1. CASE prog \in Simple \cup {"nor_asm_br_within_encl_0"}
    BY <2>1, Zenon DEF NorInv
  <2>2. CASE prog = "nor_asm_call_c_func_with_priv_stack"
    BY <1>2, <2>2, SMT DEF NorInv, SwitchesStack
  <2>3. CASE prog = "nor_asm_1"
    BY <1>2, <2>3, SMT DEF NorInv, SwitchesBack
  <2>4. CASE prog = "nor_asm_if_else"
    BY <1>2, <2>4, SMT DEF NorInv, PushesOnce, OnCallers
  <2> QED
    BY <1>2, <2>1, <2>2, <2>3, <2>4, NorNames, Zenon
<1>3. ASSUME Ended, prog = "nor_asm_2" PROVE Saved
  BY <1>3, Zenon DEF Ended, NorInv, ReturnsElsewhere
<1> QED
  BY <1>1, <1>2, <1>3, Zenon DEF ReturnsOnCallersStack, OnCallers, Saved

LEMMA NorInvariant == Spec => [](Typed /\ NorInv)
<1>1. Init => Typed /\ NorInv
  BY TypedInit, NorInit, Zenon
<1>2. Typed /\ NorInv /\ [Next]_vars => (Typed /\ NorInv)'
  BY TypedStep, TypedSame, NorStep, NorSame, Zenon
<1> QED
  BY <1>1, <1>2, PTL DEF Spec

(* No program named nor ever gives the suite it belongs to anything to      *)
(* report, for any words the caller passes and any that are read outside    *)
(* the module.                                                              *)
THEOREM NorProgramsAreClean == Spec => []NorClean
<1>1. Typed /\ NorInv => NorClean
  BY NorInvImplies, Zenon
<1> QED
  BY <1>1, NorInvariant, PTL

(* A program named nor other than nor_asm_2 leaves with the stack pointer   *)
(* the caller passed; nor_asm_2 ends on its own stack, one pop away from    *)
(* it.  Both hold for any words.                                            *)
THEOREM NorProgramsReturnTheStack == Spec => []ReturnsOnCallersStack
<1>1. Typed /\ NorInv => ReturnsOnCallersStack
  BY NorInvImplies, Zenon
<1> QED
  BY <1>1, NorInvariant, PTL

-----------------------------------------------------------------------------
(* The programs that have to be reported.                                   *)
FallingThrough == {"rep_asm_bb_cross_enclave_boundary_1", "rep_asm_bb_cross_enclave_boundary_2",
                   "rep_asm_bb_cross_enclave_boundary_3", "rep_asm_bb_cross_enclave_boundary_4"}

LEMMA RepCode ==
    /\ prog \in DOMAIN CfRep => AllPrograms[prog] = CfRep[prog]
    /\ prog \in DOMAIN PtrRep => AllPrograms[prog] = PtrRep[prog] /\ prog \notin DOMAIN CfRep
<1>1. prog \in DOMAIN CfRep => prog \notin DOMAIN CfNor
  BY SMT DEF CfNor, CfRep
<1>2. prog \in DOMAIN PtrRep => prog \notin DOMAIN CfRep
  BY SMT DEF PtrRep, CfRep
<1>3. prog \in DOMAIN PtrRep => prog \notin DOMAIN CfNor \cup DOMAIN PtrNor
  BY SMT DEF PtrRep, CfNor, PtrNor
<1> QED
  BY <1>1, <1>2, <1>3, Zenon DEF AllPrograms, Joined
LEMMA CfRepPrograms ==
    ASSUME NEW n \in DOMAIN CfRep, prog = n
    PROVE  /\ prog = "rep_asm_bb_cross_enclave_boundary_0"
                => AllPrograms[prog] = rep_asm_bb_cross_enclave_boundary_0
           /\ prog \in FallingThrough => AllPrograms[prog] = FallsThrough
           /\ prog = "rep_asm_br_to_attacker_addr"
                => AllPrograms[prog] = rep_asm_br_to_attacker_addr
           /\ prog = "rep_asm_call_func_in_encl_no_priv_stack_0"
                => AllPrograms[prog] = NoPrivateStackCall
           /\ prog = "rep_asm_jmp_to_non_exec_mem_0"
                => AllPrograms[prog] = rep_asm_jmp_to_non_exec_mem_0
           /\ prog = "rep_asm_jmp_to_non_exec_mem_1"
                => AllPrograms[prog] = rep_asm_jmp_to_non_exec_mem_1
           /\ prog = "rep_asm_ret"
                => AllPrograms[prog] = rep_asm_ret
           /\ prog = "rep_asm_tainted_br_inside_encl"
                => AllPrograms[prog] = rep_asm_tainted_br_inside_encl
<1>1. AllPrograms[prog] = CfRep[prog]
  BY RepCode, Zenon
<1> QED
  BY <1>1, SMT DEF CfRep, FallingThrough, rep_asm_bb_cross_enclave_boundary_1,
    rep_asm_bb_cross_enclave_boundary_2, rep_asm_bb_cross_enclave_boundary_3,
    rep_asm_bb_cross_enclave_boundary_4, rep_asm_call_func_in_encl_no_priv_stack_0

LEMMA PtrRepPrograms ==
    ASSUME NEW n \in DOMAIN PtrRep, prog = n
    PROVE  /\ prog = "rep_asm_mov_secret_to_attacker_addr"
                => AllPrograms[prog] = rep_asm_mov_secret_to_attacker_addr
           /\ prog = "rep_asm_non_tainted_read_outside_encl"
                => AllPrograms[prog] = rep_asm_non_tainted_read_outside_encl
           /\ prog = "rep_asm_non_tainted_write_outside_encl"
                => AllPrograms[prog] = rep_asm_non_tainted_write_outside_encl
           /\ prog = "rep_asm_tainted_read_inside_encl_absaddr"
                => AllPrograms[prog] = rep_asm_tainted_read_inside_encl_absaddr
           /\ prog = "rep_asm_tainted_write_inside_encl_absaddr"
                => AllPrograms[prog] = rep_asm_tainted_write_inside_encl_absaddr
           /\ prog = "rep_asm_unconstrained_read"
                => AllPrograms[prog] = rep_asm_unconstrained_read
           /\ prog = "rep_asm_unconstrained_read_1"
                => AllPrograms[prog] = rep_asm_ret
           /\ prog = "rep_asm_unconstrained_rw"
                => AllPrograms[prog] = NoPrivateStackCall
           /\ prog = "rep_asm_unconstrained_write"
                => AllPrograms[prog] = rep_asm_unconstrained_write
           /\ prog = "ptr_underConst"
                => AllPrograms[prog] = ptr_underConst
<1>1. AllPrograms[prog] = PtrRep[prog]
  BY RepCode, Zenon
<1> QED
  BY <1>1, SMT DEF PtrRep, rep_asm_unconstrained_read_1, rep_asm_unconstrained_rw

LEMMA RepNames ==
    /\ prog \in DOMAIN CfRep <=>
         prog \in FallingThrough \cup
           {"rep_asm_bb_cross_enclave_boundary_0", "rep_asm_bb_cross_enclave_boundary_5",
            "rep_asm_br_to_attacker_addr", "rep_asm_call_func_in_encl_no_priv_stack_0",
            "rep_asm_call_func_in_encl_no_priv_stack_1", "rep_asm_jmp_to_non_exec_mem_0",
            "rep_asm_jmp_to_non_exec_mem_1", "rep_asm_ret", "rep_asm_tainted_br_inside_encl"}
    /\ prog \in DOMAIN PtrRep <=>
         prog \in {"rep_asm_mov_secret_to_attacker_addr", "rep_asm_non_tainted_read_outside_encl",
            "rep_asm_non_tainted_write_outside_encl", "rep_asm_tainted_read_inside_encl_absaddr",
            "rep_asm_tainted_read_inside_encl_reladdr",
            "rep_asm_tainted_write_inside_encl_absaddr",
            "rep_asm_tainted_write_inside_encl_reladdr", "rep_asm_unconstrained_read",
            "rep_asm_unconstrained_read_1", "rep_asm_unconstrained_rw",
            "rep_asm_unconstrained_write", "ptr_underConst"}
  BY SMT DEF CfRep, PtrRep, FallingThrough

(* What is true of a program that is provoked and not yet reported, before  *)
(* each of its instructions: control is where the report will be, and what  *)
(* the caller passed is still there.                                        *)
HasGiven(r) == reg[r] = Chosen(given[r])
TowardTheEnd == pc \in {1, 2, 3, 6} /\ HasGiven("r15") /\ (pc = 3 => cmp = "eq")
TowardTheBranch == pc \in 1 .. 3 /\ HasGiven("r15") /\ (pc = 2 => cmp # "eq")
TowardTheCall == pc \in 1 .. 3 /\ HasGiven("r1")
InTheCall == pc \in {5, 6} /\ reg["r1"].v = given["r1"] - 1
TowardTheReturn == HasGiven("r1")
Within(n) ==
    /\ pc \in 1 .. n /\ HasGiven("r15")
    /\ pc = 2 => cmp # "lt"
    /\ pc = 4 => cmp = "lt"
TowardTheStore == pc \in 1 .. 2 /\ HasGiven("r13")
ReadsOutside == pc \in 1 .. 4 /\ (pc = 4 => reg["r14"] = Given(W6c0a))
WritesOutside == pc \in 1 .. 2 /\ (pc = 2 => reg["r15"] = Given(W6c0a))
AtOnce(r) == pc = 1 /\ HasGiven(r)

Pending ==
    /\ prog = "rep_asm_bb_cross_enclave_boundary_0" => TowardTheEnd
    /\ prog = "rep_asm_br_to_attacker_addr" => TowardTheBranch
    /\ prog = "rep_asm_call_func_in_encl_no_priv_stack_0" => TowardTheCall \/ InTheCall
    /\ prog \in {"rep_asm_jmp_to_non_exec_mem_0", "rep_asm_jmp_to_non_exec_mem_1"} => pc = 1
    /\ prog \in {"rep_asm_ret", "rep_asm_unconstrained_read_1"} => TowardTheReturn
    /\ prog \in {"rep_asm_tainted_br_inside_encl", "rep_asm_tainted_read_inside_encl_absaddr"}
         => Within(5)
    /\ prog = "rep_asm_mov_secret_to_attacker_addr" => TowardTheStore
    /\ prog = "rep_asm_non_tainted_read_outside_encl" => ReadsOutside
    /\ prog = "rep_asm_non_tainted_write_outside_encl" => WritesOutside
    /\ prog = "rep_asm_tainted_write_inside_encl_absaddr" => Within(7)
    /\ prog = "rep_asm_unconstrained_write" => AtOnce("r15")
    /\ prog \in {"rep_asm_unconstrained_read", "ptr_underConst"} => AtOnce("r1")
    /\ prog = "rep_asm_unconstrained_rw" => TowardTheCall

Reported ==
    /\ prog \in DOMAIN CfRep => "cf" \in flagged
    /\ prog \in DOMAIN PtrRep => "ptr" \in flagged
RepInv == Provoked /\ ~Reported => ~Ended /\ Pending

LEMMA Monotone == ASSUME Next PROVE flagged \subseteq flagged'
<1>1. (\E reports : Continue(reports)) \/ (\E x, reports : Goto(x, reports))
  BY Zenon DEF Next, DoNop, DoMov, DoAdd, DoCmp, DoJump, DoNotJump, DoBr, DoPush, DoCall, DoPop,
               DoRet
<1> QED
  BY <1>1, Zenon DEF Continue, Goto

(* The program and its addresses stay, and so does what provokes it.        *)
LEMMA StillProvoked == ASSUME Typed, Next PROVE Provoked' = Provoked /\ Text' = Text /\ Data' = Data
<1>1. prog' = prog /\ given' = given
  BY Dispatch, Zenon
<1>2. Text' = Text /\ Code' = Code
  BY <1>1, Zenon DEF Text, Code
<1>3. Data' = Data
  BY <1>1, TypedStep, Zenon DEF Typed, Bounded
<1>4. \A a : InEnclave(a)' = InEnclave(a)
  BY <1>2, <1>3, Zenon DEF InEnclave
<1> QED
  BY <1>1, <1>2, <1>3, <1>4, Zenon DEF Provoked

LEMMA Outside ==
    ASSUME NEW a, ~InEnclave(a), NEW x \in Loads(a)
    PROVE  OfTarget(x) = {"cf"}
<1>1. Loads(a) = {Chosen(n) : n \in Words}
  BY SMT DEF Loads, InEnclave
<1>2. \A n : OfTarget(Chosen(n)) = {"cf"}
  BY SMT DEF OfTarget, Chosen
<1> QED
  BY <1>1, <1>2, Zenon
LEMMA OfChosen == ASSUME NEW n, InEnclave(n) PROVE OfPointer(Chosen(n)) = {"ptr"}
<1>1. Chosen(n).v = n /\ Chosen(n).t = TRUE
  BY SMT DEF Chosen
<1> QED
  BY <1>1, Zenon DEF OfPointer, InEnclave

LEMMA ReportsMade ==
    ASSUME Next
    PROVE  /\ Ins[1] = "mov" => OfOperand(Ins[2]) \cup OfOperand(Ins[3]) \subseteq flagged'
           /\ Ins[1] \in {"push", "call"} => OfPointer(Top) \subseteq flagged'
           /\ Ins[1] \in {"pop", "ret"} => OfPointer(reg["r1"]) \subseteq flagged'
<1>1. ASSUME NEW reports, Continue(reports) PROVE reports \subseteq flagged'
  BY <1>1, Zenon DEF Continue
<1>2. ASSUME NEW x, NEW reports, Goto(x, reports) PROVE reports \subseteq flagged'
  BY <1>2, Zenon DEF Goto
<1>3. Ins[1] = "mov" => OfOperand(Ins[2]) \cup OfOperand(Ins[3]) \subseteq flagged'
  BY <1>1, Dispatch, Zenon DEF DoMov
<1>4. Ins[1] \in {"push", "call"} => OfPointer(Top) \subseteq flagged'
  <2>1. DoCall => \E x, s : Goto(x, s \cup OfPointer(Top))
    BY Zenon DEF DoCall
  <2>2. DoPush => Continue(OfPointer(Top))
    BY Zenon DEF DoPush
  <2> QED
    BY <1>1, <1>2, <2>1, <2>2, Dispatch, Zenon
<1>5. Ins[1] \in {"pop", "ret"} => OfPointer(reg["r1"]) \subseteq flagged'
  <2>1. DoRet => \E x : Goto(x, OfPointer(reg["r1"]))
    BY Zenon DEF DoRet
  <2>2. DoPop => Continue(OfPointer(reg["r1"]))
    BY Zenon DEF DoPop
  <2> QED
    BY <1>1, <1>2, <2>1, <2>2, Dispatch, Zenon
<1> QED
  BY <1>3, <1>4, <1>5, Zenon

(* What goes on after an instruction without a report.                      *)
LEMMA Quietly == ASSUME Onto({}) PROVE pc' = pc + 1 /\ left' = FALSE /\ flagged' = flagged
  BY SMT DEF Onto

LEMMA FallingThroughStep ==
    ASSUME Typed, Next, prog \in FallingThrough
    PROVE  "cf" \in flagged' \/ (left' = FALSE /\ flagged' = flagged)
<1>1. Code = FallsThrough.code
  BY CfRepPrograms, RepNames, Zenon DEF Code
<1>2. Len(Code) = 4 /\ Ins[1] \in {"nop", "mov"}
       /\ (Ins[1] = "mov" => NoMemory(Ins[2]) /\ NoMemory(Ins[3]))
  <2>1. /\ Len(FallsThrough.code) = 4
        /\ FallsThrough.code[1] = Nop /\ FallsThrough.code[2] = Nop
        /\ FallsThrough.code[3] = Mov(Imm(1), Reg("r15"))
        /\ FallsThrough.code[4] = Mov(Imm(2), Reg("r14"))
    BY SMT DEF FallsThrough, Program
  <2> QED
    BY <1>1, <2>1, Position, SMT DEF Nop, Mov, NoMemory, Imm, Reg
<1>3. Continue({})
  <2>1. Ins[1] = "mov" => OfOperand(Ins[2]) \cup OfOperand(Ins[3]) = {}
    BY <1>2, NoMemoryReports, Zenon
  <2> QED
    BY <1>2, <2>1, Dispatch, Zenon DEF DoNop, DoMov
<1>4. CASE pc = Len(Code)
  BY <1>3, <1>4, SMT DEF Continue, OfEnd
<1>5. CASE pc # Len(Code)
  <2>1. pc < Len(Code)
    BY <1>5, Position, SMT
  <2>2. Onto({})
    BY <1>3, <2>1, Onward, Zenon DEF Onto
  <2> QED
    BY <2>2, Quietly, Zenon
<1> QED
  BY <1>4, <1>5

LEMMA TowardTheEndStep ==
    ASSUME Typed, Next, Provoked, Pending, ~Reported, prog = "rep_asm_bb_cross_enclave_boundary_0"
    PROVE  "cf" \in flagged' \/ (left' = FALSE /\ flagged' = flagged /\ TowardTheEnd')
<1> DEFINE c == rep_asm_bb_cross_enclave_boundary_0.code
<1>1. Code = c /\ AllPrograms[prog] = rep_asm_bb_cross_enclave_boundary_0
  BY CfRepPrograms, RepNames, Zenon DEF Code
<1>2. /\ Len(c) = 6
      /\ c[1] = Nop
      /\ c[2] = Cmp(Imm(0), "r15")
      /\ c[3] = Jif(EQ, L(6))
      /\ c[6] = Mov(Imm(Const), Reg("r15"))
  BY SMT DEF rep_asm_bb_cross_enclave_boundary_0, Program
<1> HIDE DEF c
<1>3. pc \in 1 .. 6 /\ Ins = c[pc] /\ Len(Code) = 6
  BY <1>1, <1>2, Position, Zenon
<1>4. TowardTheEnd
  BY Zenon DEF Pending
<1>5. given' = given /\ DOMAIN reg = Registers /\ given \in [Registers -> Int]
      /\ {"r1", "r13", "r14", "r15"} \subseteq Registers
  BY Dispatch, SMT DEF Registers, Typed, TypeOK
<1>6. given["r15"] = 0 /\ reg["r15"].v = given["r15"]
  BY <1>4, SMT DEF Provoked, TowardTheEnd, HasGiven, Chosen
<1>7. CASE pc = 1
  <2>1. Onto({}) /\ UNCHANGED reg
    BY <1>2, <1>3, <1>7, AtNop, SMT
  <2> QED
    BY <1>4, <1>5, <1>7, <2>1, Quietly, SMT DEF TowardTheEnd, HasGiven, Chosen
<1>8. CASE pc = 2
  <2>1. Onto({}) /\ UNCHANGED reg /\ cmp' = "eq"
    BY <1>2, <1>3, <1>5, <1>6, <1>8, AtCmp, SMT
  <2> QED
    BY <1>4, <1>5, <1>8, <2>1, Quietly, SMT DEF TowardTheEnd, HasGiven, Chosen
<1>9. CASE pc = 3
  <2>1. Lands(6, {}) /\ UNCHANGED reg
    BY <1>2, <1>3, <1>4, <1>9, AtJif, SMT DEF TowardTheEnd, EQ
  <2> QED
    BY <1>3, <1>4, <1>5, <2>1, SMT DEF TowardTheEnd, HasGiven, Chosen, Lands
<1>10. CASE pc = 6
  <2>1. DoMov
    BY <1>2, <1>3, <1>10, Dispatch, SMT DEF Mov
  <2> QED
    BY <1>3, <1>10, <2>1, SMT DEF DoMov, Continue, OfEnd
<1>11. pc = 1 \/ pc = 2 \/ pc = 3 \/ pc = 6
  BY <1>4, Zenon DEF TowardTheEnd
<1> QED
  BY <1>7, <1>8, <1>9, <1>10, <1>11, Zenon

LEMMA TowardTheBranchStep ==
    ASSUME Typed, Next, Provoked, Pending, ~Reported, prog = "rep_asm_br_to_attacker_addr"
    PROVE  "cf" \in flagged' \/ (left' = FALSE /\ flagged' = flagged /\ TowardTheBranch')
<1> DEFINE c == rep_asm_br_to_attacker_addr.code
<1>1. Code = c /\ AllPrograms[prog] = rep_asm_br_to_attacker_addr
  BY CfRepPrograms, RepNames, Zenon DEF Code
<1>2. /\ Len(c) = 6
      /\ c[1] = Cmp(Imm(1), "r15")
      /\ c[2] = Jif(EQ, L(5))
      /\ c[3] = Br(Reg("r15"))
  BY SMT DEF rep_asm_br_to_attacker_addr, Program
<1> HIDE DEF c
<1>3. pc \in 1 .. 6 /\ Ins = c[pc] /\ Len(Code) = 6
  BY <1>1, <1>2, Position, Zenon
<1>4. TowardTheBranch
  BY Zenon DEF Pending
<1>5. given' = given /\ DOMAIN reg = Registers /\ given \in [Registers -> Int]
      /\ {"r1", "r13", "r14", "r15"} \subseteq Registers
  BY Dispatch, SMT DEF Registers, Typed, TypeOK
<1>6. given["r15"] # 1 /\ given["r15"] \in Int /\ reg["r15"].v = given["r15"] /\ reg["r15"].t
  BY <1>4, <1>5, SMT DEF Provoked, TowardTheBranch, HasGiven, Chosen
<1>7. CASE pc = 1
  <2>1. Onto({}) /\ UNCHANGED reg /\ cmp' # "eq"
    BY <1>2, <1>3, <1>5, <1>6, <1>7, AtCmp, SMT
  <2> QED
    BY <1>4, <1>5, <1>7, <2>1, Quietly, SMT DEF TowardTheBranch, HasGiven, Chosen
<1>8. CASE pc = 2
  <2>1. Onto({}) /\ UNCHANGED reg
    BY <1>2, <1>3, <1>4, <1>8, AtJif, SMT DEF TowardTheBranch, EQ
  <2> QED
    BY <1>4, <1>5, <1>8, <2>1, Quietly, SMT DEF TowardTheBranch, HasGiven, Chosen
<1>9. CASE pc = 3
  BY <1>2, <1>3, <1>6, <1>9, BranchTainted, SMT
<1>11. pc = 1 \/ pc = 2 \/ pc = 3
  BY <1>4, SMT DEF TowardTheBranch
<1> QED
  BY <1>7, <1>8, <1>9, <1>11, Zenon

LEMMA TowardTheCallStep ==
    ASSUME Typed, Next, Provoked, Pending, ~Reported, prog = "rep_asm_call_func_in_encl_no_priv_stack_0"
    PROVE  "cf" \in flagged' \/ (left' = FALSE /\ flagged' = flagged /\ (TowardTheCall \/ InTheCall)')
<1> DEFINE c == NoPrivateStackCall.code
<1>1. Code = c /\ AllPrograms[prog] = NoPrivateStackCall
  BY CfRepPrograms, RepNames, Zenon DEF Code
<1>2. /\ Len(c) = 6
      /\ c[1] = Mov(Imm(10), Reg("r14"))
      /\ c[2] = Mov(Imm(Const), Reg("r15"))
      /\ c[3] = Call(Imm(L(5)))
      /\ c[5] = Add(Reg("r14"), "r15")
      /\ c[6] = Ret
  BY SMT DEF NoPrivateStackCall, Program
<1> HIDE DEF c
<1>3. pc \in 1 .. 6 /\ Ins = c[pc] /\ Len(Code) = 6
  BY <1>1, <1>2, Position, Zenon
<1>4. TowardTheCall \/ InTheCall
  BY Zenon DEF Pending
<1>5. given' = given /\ DOMAIN reg = Registers /\ given \in [Registers -> Int]
      /\ {"r1", "r13", "r14", "r15"} \subseteq Registers
  BY Dispatch, SMT DEF Registers, Typed, TypeOK
<1>6. TowardTheCall => given["r1"] \in Int /\ reg["r1"].v = given["r1"] /\ reg["r1"].t
                        /\ Top = Chosen(given["r1"] - 1)
  <2>1. given["r1"] \in Int
    BY <1>5, Zenon
  <2>2. TowardTheCall => reg["r1"] = Chosen(given["r1"])
    BY Zenon DEF TowardTheCall, HasGiven
  <2>3. Plus(Chosen(given["r1"]), -1) = Chosen(given["r1"] - 1)
    <3>1. given["r1"] + (-1) = given["r1"] - 1 /\ -1 \in Int
      BY <2>1, SMT
    <3> QED
      BY <2>1, <3>1, PlusChosen, Zenon
  <2> QED
    BY <2>1, <2>2, <2>3, SMT DEF Top, Chosen
<1>7. CASE pc \in {1, 2}
  <2>1. PICK s, r : Ins = Mov(s, Reg(r)) /\ r \in {"r14", "r15"} /\ NoMemory(s) /\ pc < Len(Code)
    BY <1>2, <1>3, <1>7, SMT DEF NoMemory, Imm
  <2>2. Onto({}) /\ reg'["r1"] = reg["r1"]
    BY <1>5, <2>1, AtMov, SMT
  <2>3. TowardTheCall
    BY <1>4, <1>7, SMT DEF TowardTheCall, InTheCall
  <2>4. TowardTheCall'
    BY <1>5, <1>7, <2>2, <2>3, Quietly, SMT DEF TowardTheCall, HasGiven, Chosen
  <2> QED
    BY <2>2, <2>4, Quietly, Zenon
<1>8. CASE pc = 3
  <2>1. TowardTheCall
    BY <1>4, <1>8, SMT DEF InTheCall
  <2>2. ~InEnclave(Top.v) /\ ~InEnclave(given["r1"] - 1)
    BY <1>6, <2>1, SMT DEF Provoked, Chosen
  <2>3. DoCall /\ Ins[2] = Imm(L(5))
    BY <1>2, <1>3, <1>8, Dispatch, SMT DEF Call
  <2>4. Values(Ins[2]) = {Given(L(5))} /\ OfOperand(Ins[2]) = {}
    BY <2>3, SMT DEF Values, Imm, OfOperand
  <2>5. OfPointer(Top) = {}
    BY <1>6, <2>1, <2>2, SMT DEF OfPointer, Chosen
  <2>6. Goto(Given(L(5)), {}) /\ reg' = [reg EXCEPT !["r1"] = Top]
    BY <2>3, <2>4, <2>5, Zenon DEF DoCall
  <2>7. Lands(5, {})
    BY <2>6, Landing, SMT
  <2>8. reg'["r1"].v = given["r1"] - 1
    BY <1>5, <1>6, <2>1, <2>6, SMT DEF Chosen
  <2> QED
    BY <1>3, <1>5, <2>7, <2>8, SMT DEF Lands, InTheCall
<1>9. CASE pc = 5
  <2>1. Ins = Add(Reg("r14"), "r15") /\ pc < Len(Code) /\ NoMemory(Reg("r14"))
        /\ "r15" \in Registers /\ "r1" \in Registers \ {"r15"}
    BY <1>2, <1>3, <1>5, <1>9, SMT DEF NoMemory, Reg
  <2>2. Onto({}) /\ reg'["r1"] = reg["r1"]
    BY <2>1, AtAdd, Zenon
  <2> QED
    BY <1>4, <1>5, <1>9, <2>2, Quietly, SMT DEF TowardTheCall, InTheCall
<1>10. CASE pc = 6
  <2>1. DoRet
    BY <1>2, <1>3, <1>10, Dispatch, SMT DEF Ret
  <2>2. reg["r1"].v = given["r1"] - 1
    BY <1>4, <1>10, SMT DEF TowardTheCall, InTheCall
  <2>3. ~InEnclave(reg["r1"].v)
    BY <2>2, SMT DEF Provoked
  <2>4. PICK x \in Loads(reg["r1"].v) : Goto(x, OfPointer(reg["r1"]))
    BY <2>1, Zenon DEF DoRet
  <2> QED
    BY <2>3, <2>4, Outside, Zenon DEF Goto
<1>11. pc = 1 \/ pc = 2 \/ pc = 3 \/ pc = 5 \/ pc = 6
  BY <1>4, SMT DEF TowardTheCall, InTheCall
<1> QED
  BY <1>7, <1>8, <1>9, <1>10, <1>11, Zenon

LEMMA OnTheCallersStackStep ==
    ASSUME Typed, Next, Provoked, Pending, ~Reported, prog = "rep_asm_unconstrained_rw"
    PROVE  "ptr" \in flagged' \/ (left' = FALSE /\ flagged' = flagged /\ TowardTheCall')
<1> DEFINE c == NoPrivateStackCall.code
<1>1. Code = c /\ AllPrograms[prog] = NoPrivateStackCall
  BY PtrRepPrograms, RepNames, Zenon DEF Code
<1>2. /\ Len(c) = 6
      /\ c[1] = Mov(Imm(10), Reg("r14"))
      /\ c[2] = Mov(Imm(Const), Reg("r15"))
      /\ c[3] = Call(Imm(L(5)))
      /\ c[5] = Add(Reg("r14"), "r15")
      /\ c[6] = Ret
  BY SMT DEF NoPrivateStackCall, Program
<1> HIDE DEF c
<1>3. pc \in 1 .. 6 /\ Ins = c[pc] /\ Len(Code) = 6
  BY <1>1, <1>2, Position, Zenon
<1>4. TowardTheCall
  BY Zenon DEF Pending
<1>5. given' = given /\ DOMAIN reg = Registers /\ given \in [Registers -> Int]
      /\ {"r1", "r13", "r14", "r15"} \subseteq Registers
  BY Dispatch, SMT DEF Registers, Typed, TypeOK
<1>6. TowardTheCall => given["r1"] \in Int /\ reg["r1"].v = given["r1"] /\ reg["r1"].t
                        /\ Top = Chosen(given["r1"] - 1)
  <2>1. given["r1"] \in Int
    BY <1>5, Zenon
  <2>2. TowardTheCall => reg["r1"] = Chosen(given["r1"])
    BY Zenon DEF TowardTheCall, HasGiven
  <2>3. Plus(Chosen(given["r1"]), -1) = Chosen(given["r1"] - 1)
    <3>1. given["r1"] + (-1) = given["r1"] - 1 /\ -1 \in Int
      BY <2>1, SMT
    <3> QED
      BY <2>1, <3>1, PlusChosen, Zenon
  <2> QED
    BY <2>1, <2>2, <2>3, SMT DEF Top, Chosen
<1>7. CASE pc \in {1, 2}
  <2>1. PICK s, r : Ins = Mov(s, Reg(r)) /\ r \in {"r14", "r15"} /\ NoMemory(s) /\ pc < Len(Code)
    BY <1>2, <1>3, <1>7, SMT DEF NoMemory, Imm
  <2>2. Onto({}) /\ reg'["r1"] = reg["r1"]
    BY <1>5, <2>1, AtMov, SMT
  <2>3. TowardTheCall
    BY <1>4, <1>7, SMT DEF TowardTheCall
  <2>4. TowardTheCall'
    BY <1>5, <1>7, <2>2, <2>3, Quietly, SMT DEF TowardTheCall, HasGiven, Chosen
  <2> QED
    BY <2>2, <2>4, Quietly, Zenon
<1>8. CASE pc = 3
  <2>1. InEnclave(given["r1"] - 1) /\ Top = Chosen(given["r1"] - 1)
    BY <1>4, <1>6, SMT DEF Provoked
  <2>2. Ins[1] = "call"
    BY <1>2, <1>3, <1>8, SMT DEF Call
  <2> QED
    BY <2>1, <2>2, OfChosen, ReportsMade, SMT
<1>11. pc = 1 \/ pc = 2 \/ pc = 3
  BY <1>4, SMT DEF TowardTheCall
<1> QED
  BY <1>7, <1>8, <1>11, Zenon

LEMMA NonExecutableStep ==
    ASSUME Typed, Next, Pending,
           prog \in {"rep_asm_jmp_to_non_exec_mem_0", "rep_asm_jmp_to_non_exec_mem_1"}
    PROVE  "cf" \in flagged'
<1>1. Code \in {rep_asm_jmp_to_non_exec_mem_0.code, rep_asm_jmp_to_non_exec_mem_1.code}
  BY CfRepPrograms, RepNames, Zenon DEF Code
<1>2. PICK a \in {D0, 0} : Ins = Br(Imm(a))
  BY <1>1, SMT DEF Pending, Ins, rep_asm_jmp_to_non_exec_mem_0, rep_asm_jmp_to_non_exec_mem_1,
             Program
<1>3. Ins[1] = "br" /\ Ins[2] = Imm(a) /\ Values(Imm(a)) = {Given(a)} /\ ~Exec(a)
  BY <1>2, SMT DEF Br, Imm, Values, Exec, Opcode, D0
<1>4. \E x \in Values(Ins[2]) : Goto(x, OfOperand(Ins[2]))
  BY <1>3, Dispatch, Zenon DEF DoBr
<1>5. PICK x \in {Given(a)} : Goto(x, OfOperand(Ins[2]))
  BY <1>3, <1>4
<1>6. x.v = a
  BY SMT DEF Given
<1>7. OfTarget(x) = {"cf"}
  BY <1>3, <1>6, Zenon DEF OfTarget
<1> QED
  BY <1>5, <1>7, Zenon DEF Goto

LEMMA TowardTheReturnStep ==
    ASSUME Typed, Next, Provoked, Pending, ~Reported, prog = "rep_asm_ret"
    PROVE  "cf" \in flagged' \/ (left' = FALSE /\ flagged' = flagged /\ TowardTheReturn')
<1> DEFINE c == rep_asm_ret.code
<1>1. Code = c /\ AllPrograms[prog] = rep_asm_ret
  BY CfRepPrograms, RepNames, Zenon DEF Code
<1>2. /\ Len(c) = 5
      /\ c[1] = Cmp(Imm(1), "r15")
      /\ c[2] = Nop
      /\ c[3] = Mov(Imm(10), Reg("r14"))
      /\ c[4] = Add(Imm(100), "r14")
      /\ c[5] = Ret
  BY SMT DEF rep_asm_ret, Program
<1> HIDE DEF c
<1>3. pc \in 1 .. 5 /\ Ins = c[pc] /\ Len(Code) = 5
  BY <1>1, <1>2, Position, Zenon
<1>4. TowardTheReturn
  BY Zenon DEF Pending
<1>5. given' = given /\ DOMAIN reg = Registers /\ given \in [Registers -> Int]
      /\ {"r1", "r13", "r14", "r15"} \subseteq Registers
  BY Dispatch, SMT DEF Registers, Typed, TypeOK
<1>6. CASE pc \in 1 .. 4
  <2>1. pc < Len(Code) /\ (pc = 1 \/ pc = 2 \/ pc = 3 \/ pc = 4)
    BY <1>3, <1>6, SMT
  <2>2. /\ NoMemory(Imm(10)) /\ NoMemory(Imm(100)) /\ 1 \in Int
        /\ "r1" \in Registers \ {"r14"} /\ "r14" \in Registers /\ "r15" \in Registers
    BY <1>5, SMT DEF NoMemory, Imm
  <2>3. Onto({}) /\ reg'["r1"] = reg["r1"]
    <3>1. CASE pc = 1
      BY <1>2, <1>3, <2>1, <2>2, <3>1, AtCmp, Zenon
    <3>2. CASE pc = 2
      BY <1>2, <1>3, <2>1, <3>2, AtNop, Zenon
    <3>3. CASE pc = 3
      <4>1. Onto({}) /\ \E x : reg' = [reg EXCEPT !["r14"] = x]
        BY <1>2, <1>3, <2>1, <2>2, <3>3, AtMov, Zenon
      <4> QED
        BY <1>5, <4>1, SMT
    <3>4. CASE pc = 4
      BY <1>2, <1>3, <2>1, <2>2, <3>4, AtAdd, Zenon
    <3> QED
      BY <2>1, <3>1, <3>2, <3>3, <3>4, Zenon
  <2> QED
    BY <1>4, <1>5, <2>3, Quietly, Zenon DEF TowardTheReturn, HasGiven
<1>7. CASE pc = 5
  <2>1. DoRet
    BY <1>2, <1>3, <1>7, Dispatch, SMT DEF Ret
  <2>2. ~InEnclave(reg["r1"].v)
    BY <1>4, SMT DEF Provoked, TowardTheReturn, HasGiven, Chosen
  <2>3. PICK x \in Loads(reg["r1"].v) : Goto(x, OfPointer(reg["r1"]))
    BY <2>1, Zenon DEF DoRet
  <2> QED
    BY <2>2, <2>3, Outside, Zenon DEF Goto
<1>8. pc \in 1 .. 4 \/ pc = 5
  BY <1>3, SMT
<1> QED
  BY <1>6, <1>7, <1>8, Zenon

LEMMA ReturnsFromTheCallersStackStep ==
    ASSUME Typed, Next, Provoked, Pending, ~Reported, prog = "rep_asm_unconstrained_read_1"
    PROVE  "ptr" \in flagged' \/ (left' = FALSE /\ flagged' = flagged /\ TowardTheReturn')
<1> DEFINE c == rep_asm_ret.code
<1>1. Code = c /\ AllPrograms[prog] = rep_asm_ret
  BY PtrRepPrograms, RepNames, Zenon DEF Code
<1>2. /\ Len(c) = 5
      /\ c[1] = Cmp(Imm(1), "r15")
      /\ c[2] = Nop
      /\ c[3] = Mov(Imm(10), Reg("r14"))
      /\ c[4] = Add(Imm(100), "r14")
      /\ c[5] = Ret
  BY SMT DEF rep_asm_ret, Program
<1> HIDE DEF c
<1>3. pc \in 1 .. 5 /\ Ins = c[pc] /\ Len(Code) = 5
  BY <1>1, <1>2, Position, Zenon
<1>4. TowardTheReturn
  BY Zenon DEF Pending
<1>5. given' = given /\ DOMAIN reg = Registers /\ given \in [Registers -> Int]
      /\ {"r1", "r13", "r14", "r15"} \subseteq Registers
  BY Dispatch, SMT DEF Registers, Typed, TypeOK
<1>6. CASE pc \in 1 .. 4
  <2>1. pc < Len(Code) /\ (pc = 1 \/ pc = 2 \/ pc = 3 \/ pc = 4)
    BY <1>3, <1>6, SMT
  <2>2. /\ NoMemory(Imm(10)) /\ NoMemory(Imm(100)) /\ 1 \in Int
        /\ "r1" \in Registers \ {"r14"} /\ "r14" \in Registers /\ "r15" \in Registers
    BY <1>5, SMT DEF NoMemory, Imm
  <2>3. Onto({}) /\ reg'["r1"] = reg["r1"]
    <3>1. CASE pc = 1
      BY <1>2, <1>3, <2>1, <2>2, <3>1, AtCmp, Zenon
    <3>2. CASE pc = 2
      BY <1>2, <1>3, <2>1, <3>2, AtNop, Zenon
    <3>3. CASE pc = 3
      <4>1. Onto({}) /\ \E x : reg' = [reg EXCEPT !["r14"] = x]
        BY <1>2, <1>3, <2>1, <2>2, <3>3, AtMov, Zenon
      <4> QED
        BY <1>5, <4>1, SMT
    <3>4. CASE pc = 4
      BY <1>2, <1>3, <2>1, <2>2, <3>4, AtAdd, Zenon
    <3> QED
      BY <2>1, <3>1, <3>2, <3>3, <3>4, Zenon
  <2> QED
    BY <1>4, <1>5, <2>3, Quietly, Zenon DEF TowardTheReturn, HasGiven
<1>7. CASE pc = 5
  <2>1. Ins[1] = "ret"
    BY <1>2, <1>3, <1>7, SMT DEF Ret
  <2>2. InEnclave(given["r1"]) /\ reg["r1"] = Chosen(given["r1"])
    BY <1>4, SMT DEF Provoked, TowardTheReturn, HasGiven
  <2> QED
    BY <2>1, <2>2, OfChosen, ReportsMade, SMT
<1>8. pc \in 1 .. 4 \/ pc = 5
  BY <1>3, SMT
<1> QED
  BY <1>6, <1>7, <1>8, Zenon

LEMMA BranchesWithinStep ==
    ASSUME Typed, Next, Provoked, Pending, ~Reported, prog = "rep_asm_tainted_br_inside_encl"
    PROVE  "cf" \in flagged' \/ (left' = FALSE /\ flagged' = flagged /\ Within(5)')
<1> DEFINE c == rep_asm_tainted_br_inside_encl.code
<1>1. Code = c /\ AllPrograms[prog] = rep_asm_tainted_br_inside_encl
  BY CfRepPrograms, RepNames, Zenon DEF Code
<1>2. /\ Len(c) = 10
      /\ c[1] = Cmp(Imm(L(6)), "r15")
      /\ c[2] = Jif(LT, L(11))
      /\ c[3] = Cmp(Imm(L(8)), "r15")
      /\ c[4] = Jif(GE, L(11))
      /\ c[5] = Br(Reg("r15"))
  BY SMT DEF rep_asm_tainted_br_inside_encl, Program
<1> HIDE DEF c
<1>3. pc \in 1 .. 10 /\ Ins = c[pc] /\ Len(Code) = 10
  BY <1>1, <1>2, Position, Zenon
<1>4. Within(5)
  BY Zenon DEF Pending
<1>5. given' = given /\ DOMAIN reg = Registers /\ given \in [Registers -> Int]
      /\ {"r1", "r13", "r14", "r15"} \subseteq Registers
  BY Dispatch, SMT DEF Registers, Typed, TypeOK
<1>6. /\ reg["r15"] = Chosen(given["r15"]) /\ reg["r15"].v = given["r15"]
      /\ given["r15"] \in Int /\ given["r15"] >= L(6) /\ given["r15"] < L(8)
  BY <1>4, <1>5, SMT DEF Provoked, Within, HasGiven, Chosen, L, T
<1>7. CASE pc \in {1, 3}
  <2>1. Onto({}) /\ UNCHANGED reg
        /\ (pc = 1 => cmp' # "lt") /\ (pc = 3 => cmp' = "lt")
    <3>1. PICK k \in {6, 8} : /\ Ins = Cmp(Imm(L(k)), "r15") /\ pc < Len(Code)
                            /\ (pc = 1 => k = 6) /\ (pc = 3 => k = 8)
      BY <1>2, <1>3, <1>7, SMT
    <3>2. Onto({}) /\ UNCHANGED reg
          /\ cmp' = IF reg["r15"].v - L(k) = 0 THEN "eq"
                    ELSE IF reg["r15"].v - L(k) < 0 THEN "lt" ELSE "gt"
      BY <1>5, <3>1, AtCmp, SMT
    <3> QED
      BY <1>6, <3>1, <3>2, SMT DEF L, T
  <2> QED
    BY <1>4, <1>5, <1>7, <2>1, Quietly, SMT DEF Within, HasGiven
<1>8. CASE pc \in {2, 4}
  <2>1. Onto({}) /\ UNCHANGED reg
    <3>1. PICK s \in {LT, GE} : Ins = Jif(s, L(11)) /\ pc < Len(Code) /\ cmp \notin s
      BY <1>2, <1>3, <1>4, <1>8, SMT DEF Within, LT, GE
    <3> QED
      BY <3>1, AtJif, SMT
  <2> QED
    BY <1>4, <1>5, <1>8, <2>1, Quietly, SMT DEF Within, HasGiven
<1>10. CASE pc = 5
  <2>1. reg["r15"].t
    BY <1>6, SMT DEF Chosen
  <2> QED
    BY <1>2, <1>3, <1>10, <2>1, BranchTainted, SMT
<1>11. pc \in {1, 3} \/ pc \in {2, 4} \/ pc = 5
  BY <1>4, SMT DEF Within
<1> QED
  BY <1>7, <1>8, <1>10, <1>11, Zenon

LEMMA ReadsWithinStep ==
    ASSUME Typed, Next, Provoked, Pending, ~Reported, prog = "rep_asm_tainted_read_inside_encl_absaddr"
    PROVE  "ptr" \in flagged' \/ (left' = FALSE /\ flagged' = flagged /\ Within(5)')
<1> DEFINE c == rep_asm_tainted_read_inside_encl_absaddr.code
<1>1. Code = c /\ AllPrograms[prog] = rep_asm_tainted_read_inside_encl_absaddr
  BY PtrRepPrograms, RepNames, Zenon DEF Code
<1>2. /\ Len(c) = 6
      /\ c[1] = Cmp(Imm(L(1)), "r15")
      /\ c[2] = Jif(LT, L(7))
      /\ c[3] = Cmp(Imm(L(11)), "r15")
      /\ c[4] = Jif(GE, L(7))
      /\ c[5] = Mov(At("r15"), Reg("r14"))
  BY SMT DEF rep_asm_tainted_read_inside_encl_absaddr, Program
<1> HIDE DEF c
<1>3. pc \in 1 .. 6 /\ Ins = c[pc] /\ Len(Code) = 6
  BY <1>1, <1>2, Position, Zenon
<1>4. Within(5)
  BY Zenon DEF Pending
<1>5. given' = given /\ DOMAIN reg = Registers /\ given \in [Registers -> Int]
      /\ {"r1", "r13", "r14", "r15"} \subseteq Registers
  BY Dispatch, SMT DEF Registers, Typed, TypeOK
<1>6. /\ reg["r15"] = Chosen(given["r15"]) /\ reg["r15"].v = given["r15"]
      /\ given["r15"] \in Int /\ given["r15"] >= L(1) /\ given["r15"] < L(11)
  <2>1. InEnclave(given["r15"]) /\ Data = {}
    BY <1>1, SMT DEF Provoked, Typed, Bounded, rep_asm_tainted_read_inside_encl_absaddr, Program, D0
  <2>2. given["r15"] \in Text
    BY <2>1, SMT DEF InEnclave
  <2> QED
    BY <1>3, <1>4, <1>5, <2>2, SMT DEF Within, HasGiven, Chosen, L, T, Text
<1>7. CASE pc \in {1, 3}
  <2>1. Onto({}) /\ UNCHANGED reg
        /\ (pc = 1 => cmp' # "lt") /\ (pc = 3 => cmp' = "lt")
    <3>1. PICK k \in {1, 11} : /\ Ins = Cmp(Imm(L(k)), "r15") /\ pc < Len(Code)
                            /\ (pc = 1 => k = 1) /\ (pc = 3 => k = 11)
      BY <1>2, <1>3, <1>7, SMT
    <3>2. Onto({}) /\ UNCHANGED reg
          /\ cmp' = IF reg["r15"].v - L(k) = 0 THEN "eq"
                    ELSE IF reg["r15"].v - L(k) < 0 THEN "lt" ELSE "gt"
      BY <1>5, <3>1, AtCmp, SMT
    <3> QED
      BY <1>6, <3>1, <3>2, SMT DEF L, T
  <2> QED
    BY <1>4, <1>5, <1>7, <2>1, Quietly, SMT DEF Within, HasGiven
<1>8. CASE pc \in {2, 4}
  <2>1. Onto({}) /\ UNCHANGED reg
    <3>1. PICK s \in {LT, GE} : Ins = Jif(s, L(7)) /\ pc < Len(Code) /\ cmp \notin s
      BY <1>2, <1>3, <1>4, <1>8, SMT DEF Within, LT, GE
    <3> QED
      BY <3>1, AtJif, SMT
  <2> QED
    BY <1>4, <1>5, <1>8, <2>1, Quietly, SMT DEF Within, HasGiven
<1>10. CASE pc = 5
  <2>1. OfPointer(reg["r15"]) = {"ptr"}
    <3>1. InEnclave(given["r15"])
      BY SMT DEF Provoked
    <3> QED
      BY <1>6, <3>1, OfChosen, SMT
  <2>2. Ins = Mov(At("r15"), Reg("r14")) /\ Ins[1] = "mov" /\ OfOperand(At("r15")) = OfPointer(reg["r15"])
    BY <1>2, <1>3, <1>10, SMT DEF Mov, OfOperand, At, Address
  <2> QED
    BY <2>1, <2>2, ReportsMade, SMT DEF Mov
<1>11. pc \in {1, 3} \/ pc \in {2, 4} \/ pc = 5
  BY <1>4, SMT DEF Within
<1> QED
  BY <1>7, <1>8, <1>10, <1>11, Zenon

LEMMA WritesWithinStep ==
    ASSUME Typed, Next, Provoked, Pending, ~Reported, prog = "rep_asm_tainted_write_inside_encl_absaddr"
    PROVE  "ptr" \in flagged' \/ (left' = FALSE /\ flagged' = flagged /\ Within(7)')
<1> DEFINE c == rep_asm_tainted_write_inside_encl_absaddr.code
<1>1. Code = c /\ AllPrograms[prog] = rep_asm_tainted_write_inside_encl_absaddr
  BY PtrRepPrograms, RepNames, Zenon DEF Code
<1>2. /\ Len(c) = 8
      /\ c[1] = Cmp(Imm(L(1)), "r15")
      /\ c[2] = Jif(LT, L(9))
      /\ c[3] = Cmp(Imm(L(6)), "r15")
      /\ c[4] = Jif(GE, L(9))
      /\ c[5] = Nop
      /\ c[6] = Nop
      /\ c[7] = Mov(Reg("r13"), At("r15"))
  BY SMT DEF rep_asm_tainted_write_inside_encl_absaddr, Program
<1> HIDE DEF c
<1>3. pc \in 1 .. 8 /\ Ins = c[pc] /\ Len(Code) = 8
  BY <1>1, <1>2, Position, Zenon
<1>4. Within(7)
  BY Zenon DEF Pending
<1>5. given' = given /\ DOMAIN reg = Registers /\ given \in [Registers -> Int]
      /\ {"r1", "r13", "r14", "r15"} \subseteq Registers
  BY Dispatch, SMT DEF Registers, Typed, TypeOK
<1>6. /\ reg["r15"] = Chosen(given["r15"]) /\ reg["r15"].v = given["r15"]
      /\ given["r15"] \in Int /\ given["r15"] >= L(1) /\ given["r15"] < L(6)
  BY <1>4, <1>5, SMT DEF Provoked, Within, HasGiven, Chosen, L, T
<1>7. CASE pc \in {1, 3}
  <2>1. Onto({}) /\ UNCHANGED reg
        /\ (pc = 1 => cmp' # "lt") /\ (pc = 3 => cmp' = "lt")
    <3>1. PICK k \in {1, 6} : /\ Ins = Cmp(Imm(L(k)), "r15") /\ pc < Len(Code)
                            /\ (pc = 1 => k = 1) /\ (pc = 3 => k = 6)
      BY <1>2, <1>3, <1>7, SMT
    <3>2. Onto({}) /\ UNCHANGED reg
          /\ cmp' = IF reg["r15"].v - L(k) = 0 THEN "eq"
                    ELSE IF reg["r15"].v - L(k) < 0 THEN "lt" ELSE "gt"
      BY <1>5, <3>1, AtCmp, SMT
    <3> QED
      BY <1>6, <3>1, <3>2, SMT DEF L, T
  <2> QED
    BY <1>4, <1>5, <1>7, <2>1, Quietly, SMT DEF Within, HasGiven
<1>8. CASE pc \in {2, 4}
  <2>1. Onto({}) /\ UNCHANGED reg
    <3>1. PICK s \in {LT, GE} : Ins = Jif(s, L(9)) /\ pc < Len(Code) /\ cmp \notin s
      BY <1>2, <1>3, <1>4, <1>8, SMT DEF Within, LT, GE
    <3> QED
      BY <3>1, AtJif, SMT
  <2> QED
    BY <1>4, <1>5, <1>8, <2>1, Quietly, SMT DEF Within, HasGiven
<1>9. CASE pc \in {5, 6}
  <2>1. Onto({}) /\ UNCHANGED reg
    BY <1>2, <1>3, <1>9, AtNop, SMT
  <2> QED
    BY <1>4, <1>5, <1>9, <2>1, Quietly, SMT DEF Within, HasGiven
<1>10. CASE pc = 7
  <2>1. OfPointer(reg["r15"]) = {"ptr"}
    <3>1. InEnclave(given["r15"])
      BY <1>3, <1>6, SMT DEF InEnclave, Text, L, T
    <3> QED
      BY <1>6, <3>1, OfChosen, SMT
  <2>2. Ins = Mov(Reg("r13"), At("r15")) /\ Ins[1] = "mov" /\ OfOperand(At("r15")) = OfPointer(reg["r15"])
    BY <1>2, <1>3, <1>10, SMT DEF Mov, OfOperand, At, Address
  <2> QED
    BY <2>1, <2>2, ReportsMade, SMT DEF Mov
<1>11. pc \in {1, 3} \/ pc \in {2, 4} \/ pc \in {5, 6} \/ pc = 7
  BY <1>4, SMT DEF Within
<1> QED
  BY <1>7, <1>8, <1>9, <1>10, <1>11, Zenon

LEMMA TowardTheStoreStep ==
    ASSUME Typed, Next, Provoked, Pending, ~Reported, prog = "rep_asm_mov_secret_to_attacker_addr"
    PROVE  "ptr" \in flagged' \/ (left' = FALSE /\ flagged' = flagged /\ TowardTheStore')
<1> DEFINE c == rep_asm_mov_secret_to_attacker_addr.code
<1>1. Code = c /\ AllPrograms[prog] = rep_asm_mov_secret_to_attacker_addr
  BY PtrRepPrograms, RepNames, Zenon DEF Code
<1>2. /\ Len(c) = 7
      /\ c[1] = Mov(Imm(W1234 - 1), Reg("r15"))
      /\ c[2] = Mov(Imm(D0), At("r13"))
  BY SMT DEF rep_asm_mov_secret_to_attacker_addr, Program
<1> HIDE DEF c
<1>3. pc \in 1 .. 7 /\ Ins = c[pc] /\ Len(Code) = 7
  BY <1>1, <1>2, Position, Zenon
<1>4. TowardTheStore
  BY Zenon DEF Pending
<1>5. given' = given /\ DOMAIN reg = Registers /\ given \in [Registers -> Int]
      /\ {"r1", "r13", "r14", "r15"} \subseteq Registers
  BY Dispatch, SMT DEF Registers, Typed, TypeOK
<1>6. CASE pc = 1
  <2>1. Ins = Mov(Imm(W1234 - 1), Reg("r15")) /\ NoMemory(Imm(W1234 - 1)) /\ pc < Len(Code)
        /\ "r15" \in Registers
    BY <1>2, <1>3, <1>5, <1>6, SMT DEF NoMemory, Imm
  <2>2. Onto({}) /\ \E x : reg' = [reg EXCEPT !["r15"] = x]
    BY <2>1, AtMov, Zenon
  <2> QED
    BY <1>4, <1>5, <1>6, <2>2, Quietly, SMT DEF TowardTheStore, HasGiven
<1>7. CASE pc = 2
  <2>1. OfPointer(reg["r13"]) = {"ptr"}
    BY <1>4, OfChosen, SMT DEF Provoked, TowardTheStore, HasGiven
  <2>2. Ins = Mov(Imm(D0), At("r13")) /\ Ins[1] = "mov" /\ OfOperand(At("r13")) = OfPointer(reg["r13"])
    BY <1>2, <1>3, <1>7, SMT DEF Mov, OfOperand, At, Address
  <2> QED
    BY <2>1, <2>2, ReportsMade, SMT DEF Mov
<1>8. pc = 1 \/ pc = 2
  BY <1>4, SMT DEF TowardTheStore
<1> QED
  BY <1>6, <1>7, <1>8, Zenon

LEMMA OutsideWord == ASSUME ~InEnclave(W6c0a) PROVE OfPointer(Given(W6c0a)) = {"ptr"}
<1>1. Given(W6c0a).v = W6c0a /\ Given(W6c0a).t = FALSE
  BY SMT DEF Given
<1>2. ~InEnclave(Given(W6c0a).v)
  BY <1>1, Zenon
<1>3. FALSE = InEnclave(Given(W6c0a).v)
  BY <1>2, SMT DEF InEnclave
<1> QED
  BY <1>1, <1>3, Zenon DEF OfPointer

LEMMA ReadsOutsideStep ==
    ASSUME Typed, Next, Provoked, Pending, ~Reported, prog = "rep_asm_non_tainted_read_outside_encl"
    PROVE  "ptr" \in flagged' \/ (left' = FALSE /\ flagged' = flagged /\ ReadsOutside')
<1> DEFINE c == rep_asm_non_tainted_read_outside_encl.code
<1>1. Code = c /\ AllPrograms[prog] = rep_asm_non_tainted_read_outside_encl
  BY PtrRepPrograms, RepNames, Zenon DEF Code
<1>2. /\ Len(c) = 8
      /\ c[1] = Nop
      /\ c[2] = Nop
      /\ c[3] = Mov(Imm(W6c0a), Reg("r14"))
      /\ c[4] = Mov(At("r14"), Reg("r15"))
  BY SMT DEF rep_asm_non_tainted_read_outside_encl, Program
<1> HIDE DEF c
<1>3. pc \in 1 .. 8 /\ Ins = c[pc] /\ Len(Code) = 8
  BY <1>1, <1>2, Position, Zenon
<1>4. ReadsOutside
  BY Zenon DEF Pending
<1>5. given' = given /\ DOMAIN reg = Registers /\ given \in [Registers -> Int]
      /\ {"r1", "r13", "r14", "r15"} \subseteq Registers
  BY Dispatch, SMT DEF Registers, Typed, TypeOK
<1>6. CASE pc \in {1, 2}
  <2>1. Onto({})
    BY <1>2, <1>3, <1>6, AtNop, SMT
  <2> QED
    BY <1>6, <2>1, Quietly, SMT DEF ReadsOutside
<1>7. CASE pc = 3
  <2>1. Ins = Mov(Imm(W6c0a), Reg("r14")) /\ NoMemory(Imm(W6c0a)) /\ pc < Len(Code)
        /\ "r14" \in Registers
    BY <1>2, <1>3, <1>5, <1>7, SMT DEF NoMemory, Imm
  <2>2. Onto({}) /\ reg' = [reg EXCEPT !["r14"] = Given(W6c0a)]
    BY <2>1, AtMov, SMT DEF Imm
  <2> QED
    BY <1>5, <1>7, <2>2, Quietly, SMT DEF ReadsOutside
<1>8. CASE pc = 4
  <2>1. ~InEnclave(W6c0a) /\ reg["r14"] = Given(W6c0a)
    BY <1>1, <1>4, <1>8, SMT DEF InEnclave, Text, W6c0a, T, Typed, Bounded, ReadsOutside, D0, Program,
       rep_asm_non_tainted_read_outside_encl
  <2>2. Ins = Mov(At("r14"), Reg("r15")) /\ Ins[1] = "mov" /\ OfOperand(At("r14")) = OfPointer(reg["r14"])
    BY <1>2, <1>3, <1>8, SMT DEF Mov, OfOperand, At, Address
  <2> QED
    BY <2>1, <2>2, OutsideWord, ReportsMade, SMT DEF Mov
<1>9. pc \in {1, 2} \/ pc = 3 \/ pc = 4
  BY <1>4, SMT DEF ReadsOutside
<1> QED
  BY <1>6, <1>7, <1>8, <1>9, Zenon

LEMMA WritesOutsideStep ==
    ASSUME Typed, Next, Provoked, Pending, ~Reported, prog = "rep_asm_non_tainted_write_outside_encl"
    PROVE  "ptr" \in flagged' \/ (left' = FALSE /\ flagged' = flagged /\ WritesOutside')
<1> DEFINE c == rep_asm_non_tainted_write_outside_encl.code
<1>1. Code = c /\ AllPrograms[prog] = rep_asm_non_tainted_write_outside_encl
  BY PtrRepPrograms, RepNames, Zenon DEF Code
<1>2. /\ Len(c) = 6
      /\ c[1] = Mov(Imm(W6c0a), Reg("r15"))
      /\ c[2] = Mov(Imm(W1234), At("r15"))
  BY SMT DEF rep_asm_non_tainted_write_outside_encl, Program
<1> HIDE DEF c
<1>3. pc \in 1 .. 6 /\ Ins = c[pc] /\ Len(Code) = 6
  BY <1>1, <1>2, Position, Zenon
<1>4. WritesOutside
  BY Zenon DEF Pending
<1>5. given' = given /\ DOMAIN reg = Registers /\ given \in [Registers -> Int]
      /\ {"r1", "r13", "r14", "r15"} \subseteq Registers
  BY Dispatch, SMT DEF Registers, Typed, TypeOK
<1>7. CASE pc = 1
  <2>1. Ins = Mov(Imm(W6c0a), Reg("r15")) /\ NoMemory(Imm(W6c0a)) /\ pc < Len(Code)
        /\ "r15" \in Registers
    BY <1>2, <1>3, <1>5, <1>7, SMT DEF NoMemory, Imm
  <2>2. Onto({}) /\ reg' = [reg EXCEPT !["r15"] = Given(W6c0a)]
    BY <2>1, AtMov, SMT DEF Imm
  <2> QED
    BY <1>5, <1>7, <2>2, Quietly, SMT DEF WritesOutside
<1>8. CASE pc = 2
  <2>1. ~InEnclave(W6c0a) /\ reg["r15"] = Given(W6c0a)
    BY <1>1, <1>4, <1>8, SMT DEF InEnclave, Text, W6c0a, T, Typed, Bounded, WritesOutside, D0, Program,
       rep_asm_non_tainted_write_outside_encl
  <2>2. Ins = Mov(Imm(W1234), At("r15")) /\ Ins[1] = "mov" /\ OfOperand(At("r15")) = OfPointer(reg["r15"])
    BY <1>2, <1>3, <1>8, SMT DEF Mov, OfOperand, At, Address
  <2> QED
    BY <2>1, <2>2, OutsideWord, ReportsMade, SMT DEF Mov
<1>9. pc = 1 \/ pc = 2
  BY <1>4, SMT DEF WritesOutside
<1> QED
  BY <1>7, <1>8, <1>9, Zenon

LEMMA AtOnceStep ==
    ASSUME Typed, Next, Provoked, Pending,
           prog \in {"rep_asm_unconstrained_write", "rep_asm_unconstrained_read", "ptr_underConst"}
    PROVE  "ptr" \in flagged'
<1>1. CASE prog = "rep_asm_unconstrained_write"
  <2>1. Code = rep_asm_unconstrained_write.code /\ pc = 1
    BY <1>1, PtrRepPrograms, RepNames, Zenon DEF Code, Pending, AtOnce
  <2>2. Ins = Mov(Imm(W1234), At("r15"))
    BY <2>1, SMT DEF Ins, rep_asm_unconstrained_write, Program
  <2>3. Ins[1] = "mov" /\ OfOperand(Ins[3]) = OfPointer(reg["r15"])
    BY <2>2, SMT DEF Mov, OfOperand, At, Address
  <2>4. OfPointer(reg["r15"]) = {"ptr"}
    BY <1>1, OfChosen, SMT DEF Provoked, Pending, AtOnce, HasGiven
  <2> QED
    BY <2>3, <2>4, ReportsMade, SMT
<1>2. CASE prog = "rep_asm_unconstrained_read"
  <2>1. Code = rep_asm_unconstrained_read.code /\ pc = 1
    BY <1>2, PtrRepPrograms, RepNames, Zenon DEF Code, Pending, AtOnce
  <2>2. Ins[1] = "pop"
    BY <2>1, SMT DEF Ins, rep_asm_unconstrained_read, Program, Pop
  <2>3. OfPointer(reg["r1"]) = {"ptr"}
    BY <1>2, OfChosen, SMT DEF Provoked, Pending, AtOnce, HasGiven
  <2> QED
    BY <2>2, <2>3, ReportsMade, SMT
<1>3. CASE prog = "ptr_underConst"
  <2>1. Code = ptr_underConst.code /\ pc = 1
    BY <1>3, PtrRepPrograms, RepNames, Zenon DEF Code, Pending, AtOnce
  <2>2. Ins[1] = "push"
    BY <2>1, SMT DEF Ins, ptr_underConst, Program, Push
  <2>3. InEnclave(given["r1"] - 1) /\ reg["r1"] = Chosen(given["r1"]) /\ given["r1"] \in Int
    BY <1>3, Registers1, SMT DEF Provoked, Pending, AtOnce, HasGiven, Typed
  <2>4. Top = Chosen(given["r1"] - 1)
    <3>1. given["r1"] + (-1) = given["r1"] - 1 /\ -1 \in Int
      BY <2>3, SMT
    <3> QED
      BY <2>3, <3>1, PlusChosen, Zenon DEF Top
  <2> QED
    BY <2>2, <2>3, <2>4, OfChosen, ReportsMade, SMT
<1> QED
  BY <1>1, <1>2, <1>3

LEMMA RepStep == ASSUME Typed, Next, RepInv PROVE RepInv'
<1> SUFFICES ASSUME Provoked', ~Reported'
             PROVE  ~Ended' /\ Pending'
  BY Zenon DEF RepInv
<1>1. Provoked /\ prog' = prog /\ flagged \subseteq flagged'
  BY StillProvoked, Dispatch, Monotone, Zenon
<1>2. ~Reported
  BY <1>1, Zenon DEF Reported
<1>3. ~Ended /\ Pending /\ "cf" \notin flagged
  BY <1>1, <1>2, Zenon DEF RepInv, Ended
<1>4. left' = FALSE /\ flagged' = flagged => ~Ended'
  BY <1>3, Zenon DEF Ended
<1>5. CASE prog \in FallingThrough
  <2>1. "cf" \notin flagged'
    <3>1. prog \in DOMAIN CfRep /\ prog \notin DOMAIN PtrRep
      BY <1>5, RepNames, SMT DEF FallingThrough
    <3> QED
      BY <1>1, <3>1, Zenon DEF Reported
  <2>2. left' = FALSE /\ flagged' = flagged
    BY <2>1, <1>1, <1>5, FallingThroughStep, Zenon
  <2>3. Pending'
    BY <2>2, <1>1, <1>5, SMT DEF Pending, FallingThrough
  <2> QED
    BY <2>2, <2>3, <1>4, Zenon
<1>6. CASE prog = "rep_asm_bb_cross_enclave_boundary_0"
  <2>1. "cf" \notin flagged'
    <3>1. prog \in DOMAIN CfRep /\ prog \notin DOMAIN PtrRep
      BY <1>6, RepNames, SMT DEF FallingThrough
    <3> QED
      BY <1>1, <3>1, Zenon DEF Reported
  <2>2. left' = FALSE /\ flagged' = flagged /\ TowardTheEnd'
    BY <2>1, <1>1, <1>2, <1>3, <1>6, TowardTheEndStep, Zenon
  <2>3. Pending'
    BY <2>2, <1>1, <1>6, SMT DEF Pending
  <2> QED
    BY <2>2, <2>3, <1>4, Zenon
<1>7. CASE prog = "rep_asm_br_to_attacker_addr"
  <2>1. "cf" \notin flagged'
    <3>1. prog \in DOMAIN CfRep /\ prog \notin DOMAIN PtrRep
      BY <1>7, RepNames, SMT DEF FallingThrough
    <3> QED
      BY <1>1, <3>1, Zenon DEF Reported
  <2>2. left' = FALSE /\ flagged' = flagged /\ TowardTheBranch'
    BY <2>1, <1>1, <1>2, <1>3, <1>7, TowardTheBranchStep, Zenon
  <2>3. Pending'
    BY <2>2, <1>1, <1>7, SMT DEF Pending
  <2> QED
    BY <2>2, <2>3, <1>4, Zenon
<1>8. CASE prog = "rep_asm_call_func_in_encl_no_priv_stack_0"
  <2>1. "cf" \notin flagged'
    <3>1. prog \in DOMAIN CfRep /\ prog \notin DOMAIN PtrRep
      BY <1>8, RepNames, SMT DEF FallingThrough
    <3> QED
      BY <1>1, <3>1, Zenon DEF Reported
  <2>2. left' = FALSE /\ flagged' = flagged /\ (TowardTheCall \/ InTheCall)'
    BY <2>1, <1>1, <1>2, <1>3, <1>8, TowardTheCallStep, Zenon
  <2>3. Pending'
    BY <2>2, <1>1, <1>8, SMT DEF Pending
  <2> QED
    BY <2>2, <2>3, <1>4, Zenon
<1>9. CASE prog \in {"rep_asm_jmp_to_non_exec_mem_0", "rep_asm_jmp_to_non_exec_mem_1"}
  <2>1. "cf" \notin flagged'
    <3>1. prog \in DOMAIN CfRep /\ prog \notin DOMAIN PtrRep
      BY <1>9, RepNames, SMT DEF FallingThrough
    <3> QED
      BY <1>1, <3>1, Zenon DEF Reported
  <2> QED
    BY <2>1, <1>3, <1>1, <1>9, NonExecutableStep, Zenon
<1>10. CASE prog = "rep_asm_ret"
  <2>1. "cf" \notin flagged'
    <3>1. prog \in DOMAIN CfRep /\ prog \notin DOMAIN PtrRep
      BY <1>10, RepNames, SMT DEF FallingThrough
    <3> QED
      BY <1>1, <3>1, Zenon DEF Reported
  <2>2. left' = FALSE /\ flagged' = flagged /\ TowardTheReturn'
    BY <2>1, <1>1, <1>2, <1>3, <1>10, TowardTheReturnStep, Zenon
  <2>3. Pending'
    BY <2>2, <1>1, <1>10, SMT DEF Pending
  <2> QED
    BY <2>2, <2>3, <1>4, Zenon
<1>11. CASE prog = "rep_asm_tainted_br_inside_encl"
  <2>1. "cf" \notin flagged'
    <3>1. prog \in DOMAIN CfRep /\ prog \notin DOMAIN PtrRep
      BY <1>11, RepNames, SMT DEF FallingThrough
    <3> QED
      BY <1>1, <3>1, Zenon DEF Reported
  <2>2. left' = FALSE /\ flagged' = flagged /\ Within(5)'
    BY <2>1, <1>1, <1>2, <1>3, <1>11, BranchesWithinStep, Zenon
  <2>3. Pending'
    BY <2>2, <1>1, <1>11, SMT DEF Pending
  <2> QED
    BY <2>2, <2>3, <1>4, Zenon
<1>12. CASE prog = "rep_asm_mov_secret_to_attacker_addr"
  <2>1. "ptr" \notin flagged'
    <3>1. prog \in DOMAIN PtrRep /\ prog \notin DOMAIN CfRep
      BY <1>12, RepNames, SMT DEF FallingThrough
    <3> QED
      BY <1>1, <3>1, Zenon DEF Reported
  <2>2. left' = FALSE /\ flagged' = flagged /\ TowardTheStore'
    BY <2>1, <1>1, <1>2, <1>3, <1>12, TowardTheStoreStep, Zenon
  <2>3. Pending'
    BY <2>2, <1>1, <1>12, SMT DEF Pending
  <2> QED
    BY <2>2, <2>3, <1>4, Zenon
<1>13. CASE prog = "rep_asm_non_tainted_read_outside_encl"
  <2>1. "ptr" \notin flagged'
    <3>1. prog \in DOMAIN PtrRep /\ prog \notin DOMAIN CfRep
      BY <1>13, RepNames, SMT DEF FallingThrough
    <3> QED
      BY <1>1, <3>1, Zenon DEF Reported
  <2>2. left' = FALSE /\ flagged' = flagged /\ ReadsOutside'
    BY <2>1, <1>1, <1>2, <1>3, <1>13, ReadsOutsideStep, Zenon
  <2>3. Pending'
    BY <2>2, <1>1, <1>13, SMT DEF Pending
  <2> QED
    BY <2>2, <2>3, <1>4, Zenon
<1>14. CASE prog = "rep_asm_non_tainted_write_outside_encl"
  <2>1. "ptr" \notin flagged'
    <3>1. prog \in DOMAIN PtrRep /\ prog \notin DOMAIN CfRep
      BY <1>14, RepNames, SMT DEF FallingThrough
    <3> QED
      BY <1>1, <3>1, Zenon DEF Reported
  <2>2. left' = FALSE /\ flagged' = flagged /\ WritesOutside'
    BY <2>1, <1>1, <1>2, <1>3, <1>14, WritesOutsideStep, Zenon
  <2>3. Pending'
    BY <2>2, <1>1, <1>14, SMT DEF Pending
  <2> QED
    BY <2>2, <2>3, <1>4, Zenon
<1>15. CASE prog = "rep_asm_tainted_read_inside_encl_absaddr"
  <2>1. "ptr" \notin flagged'
    <3>1. prog \in DOMAIN PtrRep /\ prog \notin DOMAIN CfRep
      BY <1>15, RepNames, SMT DEF FallingThrough
    <3> QED
      BY <1>1, <3>1, Zenon DEF Reported
  <2>2. left' = FALSE /\ flagged' = flagged /\ Within(5)'
    BY <2>1, <1>1, <1>2, <1>3, <1>15, ReadsWithinStep, Zenon
  <2>3. Pending'
    BY <2>2, <1>1, <1>15, SMT DEF Pending
  <2> QED
    BY <2>2, <2>3, <1>4, Zenon
<1>16. CASE prog = "rep_asm_tainted_write_inside_encl_absaddr"
  <2>1. "ptr" \notin flagged'
    <3>1. prog \in DOMAIN PtrRep /\ prog \notin DOMAIN CfRep
      BY <1>16, RepNames, SMT DEF FallingThrough
    <3> QED
      BY <1>1, <3>1, Zenon DEF Reported
  <2>2. left' = FALSE /\ flagged' = flagged /\ Within(7)'
    BY <2>1, <1>1, <1>2, <1>3, <1>16, WritesWithinStep, Zenon
  <2>3. Pending'
    BY <2>2, <1>1, <1>16, SMT DEF Pending
  <2> QED
    BY <2>2, <2>3, <1>4, Zenon
<1>17. CASE prog = "rep_asm_unconstrained_read_1"
  <2>1. "ptr" \notin flagged'
    <3>1. prog \in DOMAIN PtrRep /\ prog \notin DOMAIN CfRep
      BY <1>17, RepNames, SMT DEF FallingThrough
    <3> QED
      BY <1>1, <3>1, Zenon DEF Reported
  <2>2. left' = FALSE /\ flagged' = flagged /\ TowardTheReturn'
    BY <2>1, <1>1, <1>2, <1>3, <1>17, ReturnsFromTheCallersStackStep, Zenon
  <2>3. Pending'
    BY <2>2, <1>1, <1>17, SMT DEF Pending
  <2> QED
    BY <2>2, <2>3, <1>4, Zenon
<1>18. CASE prog = "rep_asm_unconstrained_rw"
  <2>1. "ptr" \notin flagged'
    <3>1. prog \in DOMAIN PtrRep /\ prog \notin DOMAIN CfRep
      BY <1>18, RepNames, SMT DEF FallingThrough
    <3> QED
      BY <1>1, <3>1, Zenon DEF Reported
  <2>2. left' = FALSE /\ flagged' = flagged /\ TowardTheCall'
    BY <2>1, <1>1, <1>2, <1>3, <1>18, OnTheCallersStackStep, Zenon
  <2>3. Pending'
    BY <2>2, <1>1, <1>18, SMT DEF Pending
  <2> QED
    BY <2>2, <2>3, <1>4, Zenon
<1>19. CASE prog \in {"rep_asm_unconstrained_write", "rep_asm_unconstrained_read", "ptr_underConst"}
  <2>1. "ptr" \notin flagged'
    <3>1. prog \in DOMAIN PtrRep /\ prog \notin DOMAIN CfRep
      BY <1>19, RepNames, SMT DEF FallingThrough
    <3> QED
      BY <1>1, <3>1, Zenon DEF Reported
  <2> QED
    BY <2>1, <1>3, <1>1, <1>19, AtOnceStep, Zenon
<1>20. CASE prog \notin DOMAIN CfRep \cup DOMAIN PtrRep
  BY <1>2, <1>20, Zenon DEF Reported
<1>21. prog \notin {"rep_asm_bb_cross_enclave_boundary_5", "rep_asm_call_func_in_encl_no_priv_stack_1",
                  "rep_asm_tainted_read_inside_encl_reladdr",
                  "rep_asm_tainted_write_inside_encl_reladdr"}
  BY <1>1, SMT DEF Provoked
<1> QED
  BY <1>5, <1>6, <1>7, <1>8, <1>9, <1>10, <1>11, <1>12, <1>13, <1>14, <1>15, <1>16, <1>17, <1>18, <1>19, <1>20, <1>21, RepNames, Zenon

LEMMA RepInit == ASSUME Init PROVE RepInv
<1>1. PICK choice \in [AllPrograms[prog].chosen -> Words] :
        reg = [r \in Registers |-> IF r \in DOMAIN choice THEN Chosen(choice[r]) ELSE Given(0)]
  BY Zenon DEF Init
<1>2. pc = 1 /\ flagged = {} /\ left = FALSE /\ given = [r \in Registers |-> reg[r].v]
  BY Zenon DEF Init
<1>3. ASSUME NEW r \in Registers, r \in AllPrograms[prog].chosen
      PROVE  HasGiven(r)
  <2>1. reg[r] = Chosen(choice[r])
    BY <1>1, <1>3, Zenon
  <2>2. given[r] = Chosen(choice[r]).v
    BY <1>2, <2>1, Zenon
  <2>3. Chosen(choice[r]).v = choice[r]
    BY SMT DEF Chosen
  <2> QED
    BY <2>1, <2>2, <2>3, Zenon DEF HasGiven
<1>4. {"r1", "r13", "r15"} \subseteq Registers
  BY SMT DEF Registers
<1>5. prog = "rep_asm_bb_cross_enclave_boundary_0" => HasGiven("r15")
  BY <1>3, <1>4, CfRepPrograms, RepNames, SMT DEF rep_asm_bb_cross_enclave_boundary_0, Program
<1>6. prog = "rep_asm_br_to_attacker_addr" => HasGiven("r15")
  BY <1>3, <1>4, CfRepPrograms, RepNames, SMT DEF rep_asm_br_to_attacker_addr, Program
<1>7. prog = "rep_asm_call_func_in_encl_no_priv_stack_0" => HasGiven("r1")
  BY <1>3, <1>4, CfRepPrograms, RepNames, SMT DEF NoPrivateStackCall, Program
<1>8. prog = "rep_asm_ret" => HasGiven("r1")
  BY <1>3, <1>4, CfRepPrograms, RepNames, SMT DEF rep_asm_ret, Program
<1>9. prog = "rep_asm_unconstrained_read_1" => HasGiven("r1")
  BY <1>3, <1>4, PtrRepPrograms, RepNames, SMT DEF rep_asm_ret, Program
<1>10. prog = "rep_asm_tainted_br_inside_encl" => HasGiven("r15")
  BY <1>3, <1>4, CfRepPrograms, RepNames, SMT DEF rep_asm_tainted_br_inside_encl, Program
<1>11. prog = "rep_asm_tainted_read_inside_encl_absaddr" => HasGiven("r15")
  BY <1>3, <1>4, PtrRepPrograms, RepNames, SMT DEF rep_asm_tainted_read_inside_encl_absaddr, Program
<1>12. prog = "rep_asm_mov_secret_to_attacker_addr" => HasGiven("r13")
  BY <1>3, <1>4, PtrRepPrograms, RepNames, SMT DEF rep_asm_mov_secret_to_attacker_addr, Program
<1>13. prog = "rep_asm_tainted_write_inside_encl_absaddr" => HasGiven("r15")
  BY <1>3, <1>4, PtrRepPrograms, RepNames, SMT DEF rep_asm_tainted_write_inside_encl_absaddr, Program
<1>14. prog = "rep_asm_unconstrained_write" => HasGiven("r15")
  BY <1>3, <1>4, PtrRepPrograms, RepNames, SMT DEF rep_asm_unconstrained_write, Program
<1>15. prog = "rep_asm_unconstrained_read" => HasGiven("r1")
  BY <1>3, <1>4, PtrRepPrograms, RepNames, SMT DEF rep_asm_unconstrained_read, Program
<1>16. prog = "ptr_underConst" => HasGiven("r1")
  BY <1>3, <1>4, PtrRepPrograms, RepNames, SMT DEF ptr_underConst, Program
<1>17. prog = "rep_asm_unconstrained_rw" => HasGiven("r1")
  BY <1>3, <1>4, PtrRepPrograms, RepNames, SMT DEF NoPrivateStackCall, Program
<1>18. Pending
  BY <1>2, <1>5, <1>6, <1>7, <1>8, <1>9, <1>10, <1>11, <1>12, <1>13, <1>14, <1>15, <1>16, <1>17,
     SMT DEF Pending, TowardTheEnd, TowardTheBranch, TowardTheCall, TowardTheReturn, Within,
             TowardTheStore, ReadsOutside, WritesOutside, AtOnce
<1> QED
  BY <1>2, <1>18, Zenon DEF RepInv, Ended

LEMMA RepSame == ASSUME Typed, RepInv, UNCHANGED vars PROVE RepInv'
<1>1. /\ prog' = prog /\ pc' = pc /\ reg' = reg /\ mem' = mem /\ cmp' = cmp
      /\ flagged' = flagged /\ left' = left /\ given' = given
  BY Zenon DEF vars
<1>2. Provoked' = Provoked /\ Reported' = Reported /\ Ended' = Ended
  <2>1. \A a : InEnclave(a)' = InEnclave(a)
    BY <1>1, Zenon DEF InEnclave, Text, Data, Code
  <2> QED
    BY <1>1, <2>1, Zenon DEF Provoked, Reported, Ended
<1>3. \A r : HasGiven(r)' = HasGiven(r)
  BY <1>1, Zenon DEF HasGiven
<1>4. \A r : AtOnce(r)' = AtOnce(r)
  BY <1>1, <1>3, Zenon DEF AtOnce
<1>5. \A n : Within(n)' = Within(n)
  BY <1>1, <1>3, Zenon DEF Within
<1>6. /\ TowardTheEnd' = TowardTheEnd /\ TowardTheBranch' = TowardTheBranch
      /\ TowardTheCall' = TowardTheCall /\ TowardTheReturn' = TowardTheReturn
      /\ TowardTheStore' = TowardTheStore
  BY <1>1, <1>3, Zenon DEF TowardTheEnd, TowardTheBranch, TowardTheCall, TowardTheReturn,
                           TowardTheStore
<1>7. InTheCall' = InTheCall /\ ReadsOutside' = ReadsOutside /\ WritesOutside' = WritesOutside
  BY <1>1, Zenon DEF InTheCall, ReadsOutside, WritesOutside
<1>8. Pending' = Pending
  BY <1>1, <1>4, <1>5, <1>6, <1>7, Zenon DEF Pending
<1> QED
  BY <1>2, <1>8, Zenon DEF RepInv

(* A program named rep has done what its suite is to report by the time the *)
(* run ends, for every argument of the caller that provokes it and any word *)
(* that is read outside the module.                                         *)
THEOREM ProvokedProgramsAreReported == Spec => []RepFlagged
<1>1. Init => Typed /\ RepInv
  BY TypedInit, RepInit, Zenon
<1>2. Typed /\ RepInv /\ [Next]_vars => (Typed /\ RepInv)'
  BY TypedStep, TypedSame, RepStep, RepSame, Zenon
<1>3. RepInv => RepFlagged
  BY Zenon DEF RepInv, RepFlagged, Reported
<1> QED
  BY <1>1, <1>2, <1>3, PTL DEF Spec
=============================================================================
