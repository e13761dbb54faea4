----------------------------- MODULE SancusStubs -----------------------------
(***************************************************************************)
(* The assembly stubs through which control enters and leaves a Sancus     *)
(* protected module (sm_entry.S, sm_exit.S), and the trampoline through    *)
(* which modules call unprotected functions (unprotected_entry.s).         *)
(*                                                                         *)
(* One CPU runs one thread of control.  Every domain, a module or the      *)
(* unprotected code, has its own stack and one word that remembers its     *)
(* stack pointer while another domain runs.  Control moves between domains *)
(* by plain branches whose arguments are registers: r6 is the entry index, *)
(* a function address or RET, r7 a return address, r8 the entry point to   *)
(* call.                                                                   *)
(*                                                                         *)
(* Each stub is one action.  What the compiler generates around the stubs  *)
(* (prologues, call stubs) is external code and modelled from the registers*)
(* and stack words the stubs expect.  Words are abstracted to what the     *)
(* stubs' correctness tells apart: small numbers, code addresses, and data *)
(* tagged with the activation that produced it.                            *)
(***************************************************************************)
EXTENDS Integers, Sequences, FiniteSets

CONSTANTS SM,          \* the protected modules
          Unprotected, \* the unprotected code
          NEntries,    \* __sm_nentries, the entry points of each module
          RetWords,    \* RetWords[i]: result words of entry point i
          StackWords,  \* bound: words in each stack
          MaxDepth,    \* bound: nested activations
          ResavesSp,   \* TRUE: the trampoline stores r1 after the call
          CallsBack,   \* TRUE: functions a module calls may call modules
          Nobody       \* no activation and no domain

MaxWord == 256 * 256 - 1

Domain == SM \cup {Unprotected}

ASSUME StubsAssumption ==
    /\ Unprotected \notin SM
    /\ NEntries \in Nat \ {0}
    /\ 6 * NEntries < MaxWord   \* the byte offset 6 * r6 fits in a word
    /\ RetWords \in [0..NEntries-1 -> {0, 1, 2, 4}]
    /\ StackWords \in Nat /\ StackWords >= 8   \* room for main's frame
    /\ MaxDepth \in Nat \ {0}
    /\ ResavesSp \in BOOLEAN
    /\ CallsBack \in BOOLEAN
    /\ Nobody \notin Domain \cup (Domain \X Nat)

Saved == {"r4", "r5", "r6", "r7", "r8", "r9", "r10", "r11"}
Arg == {"r12", "r13", "r14", "r15"}
Reg == Saved \cup Arg \cup {"r2"}

\* Code addresses: the global symbols and the return points of the stubs.
Place == {"entry", "fun", "body", "tail", "exit", "cont", "stop"}
Label(l, d) == <<l, d>>
Num(n) == <<"num", n>>
Data(d, k, r) == <<"data", d, k, r>>   \* loaded into r by activation k of d
Zero == Num(0)
RET_Index == Num(0)   \* mutant: the return code is a valid entry index
RET == Num(MaxWord)

Word == ({"num"} \X (0..MaxWord)) \cup (Place \X Domain)
            \cup ({"data"} \X Domain \X Nat \X Reg)

Unset == -1   \* a saved stack pointer of 0: the stack was never used

VARIABLES reg,     \* the registers r2 and r4..r15
          pc,      \* the code address the CPU is about to run
          r1,      \* words in use on the stack of the running domain
          savedSp, \* __sm_sp of each module and __unprotected_sp
          stack,   \* the words of each domain's stack
          calls    \* history: the live activations, innermost last
vars == <<reg, pc, r1, savedSp, stack, calls>>

At(l, d) == pc = Label(l, d)
Depth == Len(calls)
Top == calls[Depth]

(***************************************************************************)
(* Stacks.  Writing does not erase the words beyond: a stale stack pointer *)
(* finds them again.                                                       *)
(***************************************************************************)
Room(p, n) == p + n <= StackWords

Push(s, p, ws) ==
    [i \in 1..StackWords |->
        IF p < i /\ i <= p + Len(ws) THEN ws[i - p] ELSE s[i]]

Words(names) == [i \in 1..Len(names) |-> reg[names[i]]]

\* The registers after popping at p; pops[r] is the place of r in the order.
Popped(s, p, pops) ==
    [r \in Reg |-> IF r \in DOMAIN pops THEN s[p - pops[r]] ELSE reg[r]]

\* Registers R loaded with the constant word w.
Load(f, R, w) == [r \in Reg |-> IF r \in R THEN w ELSE f[r]]

\* Registers R loaded with data of the running activation.
Fresh(f, R, d) == [r \in Reg |-> IF r \in R THEN Data(d, Depth, r) ELSE f[r]]

\* Mutant: the stack is always switched to its start.
CurrentSp_Reset(d) == 0

CurrentSp(d) == IF savedSp[d] = Unset THEN 0 ELSE savedSp[d]

(***************************************************************************)
(* Register usage flags and the clearing chains that test them bit by bit. *)
(***************************************************************************)
NoBit(f, ks) == \A k \in ks : (f \div k) % 2 = 0

\* Third word of a table entry for an entry point with n result words.
TableFlags(n) == CASE n = 0 -> 0 [] n = 1 -> 4 [] n = 2 -> 2 [] n = 4 -> 1

\* Mutant: r13 is forgotten.
RetClears_Short(f) ==
    LET tests == [r12 |-> {1}, r14 |-> {1, 2}, r15 |-> {1, 2, 4}]
    IN {r \in Arg \ {"r13"} : NoBit(f, tests[r])}

RetClears(f) ==
    LET tests == [r12 |-> {1}, r13 |-> {1}, r14 |-> {1, 2}, r15 |-> {1, 2, 4}]
    IN {r \in Arg : NoBit(f, tests[r])}

\* r7 as the compiled call stub sets it for a call with n argument words.
ArgFlags(n) == <<0, 8, 4, 2, 1>>[n + 1]

ExitClears(f) ==
    LET tests == [r12 |-> {1}, r13 |-> {1, 2}, r14 |-> {1, 2, 4},
                  r15 |-> {1, 2, 4, 8}]
    IN {r \in Arg : NoBit(f, tests[r])}

(***************************************************************************)
(* The machine starts in unprotected code, in main.                        *)
(***************************************************************************)
Activation == [dom : Domain, entry : 0..NEntries-1, base : 0..StackWords]

Init ==
    /\ reg = [r \in Reg |-> Data(Unprotected, 1, r)]
    /\ pc = Label("body", Unprotected)
    /\ r1 = 8    \* main's own frame, like that of any compiled function
    /\ savedSp = [d \in Domain |-> Unset]
    /\ stack = [d \in Domain |-> [i \in 1..StackWords |-> Zero]]
    /\ calls = <<[dom |-> Unprotected, entry |-> 0, base |-> 0]>>

(***************************************************************************)
(* Compiled code (external).                                               *)
(***************************************************************************)
PrologueRegs == <<"r4", "r5", "r6", "r7", "r8", "r9", "r10", "r11">>
EpiloguePops == [r11 |-> 0, r10 |-> 1, r9 |-> 2, r8 |-> 3,
                 r7 |-> 4, r6 |-> 5, r5 |-> 6, r4 |-> 7]

\* A function saves the callee-saved registers and uses all of them.
Prologue(d) ==
    /\ At("fun", d)
    /\ Room(r1, 8)
    /\ stack' = [stack EXCEPT ![d] = Push(@, r1, Words(PrologueRegs))]
    /\ r1' = r1 + 8
    /\ reg' = Fresh(reg, Reg, d)
    /\ pc' = Label("body", d)
    /\ UNCHANGED <<savedSp, calls>>

\* A function restores them, leaves data in the result registers and returns.
Epilogue(d) ==
    /\ At("body", d)
    /\ Depth > 1
    /\ r1 >= 9
    /\ reg' = Fresh(Popped(stack[d], r1, EpiloguePops), Arg \cup {"r2"}, d)
    /\ pc' = stack[d][r1 - 8]
    /\ r1' = r1 - 9
    /\ UNCHANGED <<savedSp, stack, calls>>

\* Unprotected code calls entry point i of module m; i = NEntries is the
\* first index no entry point has.
CallStub(m, i) ==
    /\ At("body", Unprotected)
    /\ Depth < MaxDepth
    /\ CallsBack \/ Depth = 1
    /\ Room(r1, 3)
    /\ stack' = [stack EXCEPT ![Unprotected] =
                    Push(@, r1, <<pc, reg["r6"], reg["r7"]>>)]
    /\ r1' = r1 + 3
    /\ savedSp' = [savedSp EXCEPT ![Unprotected] = r1 + 3]
    /\ reg' = [Fresh(reg, Arg \cup {"r2"}, Unprotected) EXCEPT
                  !["r6"] = Num(i), !["r7"] = Label("cont", Unprotected)]
    /\ pc' = Label("entry", m)
    /\ UNCHANGED calls

\* The point in unprotected code a module returns to.
CallStubReturn ==
    LET p == savedSp[Unprotected] IN
    /\ At("cont", Unprotected)
    /\ p >= 3
    /\ reg' = Popped(stack[Unprotected], p, [r7 |-> 0, r6 |-> 1])
    /\ pc' = stack[Unprotected][p - 2]
    /\ r1' = p - 3
    /\ UNCHANGED <<savedSp, stack, calls>>

\* A module calls out: to an unprotected function through the trampoline, or
\* to entry point i of another module, passing n argument words.
OutcallStub(m, t, i, n) ==
    /\ At("body", m)
    /\ Depth < MaxDepth
    /\ Room(r1, 4)
    /\ stack' = [stack EXCEPT ![m] =
                    Push(@, r1, <<pc, reg["r6"], reg["r7"], reg["r8"]>>)]
    /\ r1' = r1 + 4
    /\ reg' = [Fresh(reg, Arg \cup {"r2"}, m) EXCEPT
                  !["r6"] = IF t = Unprotected THEN Label("fun", t) ELSE Num(i),
                  !["r7"] = Num(ArgFlags(n)),
                  !["r8"] = Label("entry", t)]
    /\ pc' = Label("exit", m)
    /\ UNCHANGED <<savedSp, calls>>

(***************************************************************************)
(* sm_entry.S                                                              *)
(***************************************************************************)
EntryRegs == <<"r4", "r5", "r8", "r9", "r10", "r11">>
\* Mutant: r4 and r5 popped in the order they were pushed.
EntryPops_Swapped ==
    [r11 |-> 0, r10 |-> 1, r9 |-> 2, r8 |-> 3, r4 |-> 4, r5 |-> 5]
EntryPops == [r11 |-> 0, r10 |-> 1, r9 |-> 2, r8 |-> 3, r5 |-> 4, r4 |-> 5]

\* A call to entry point i: switch stack, save registers, call the function.
EntryCall(m, i) ==
    LET p == CurrentSp(m) IN
    /\ At("entry", m)
    /\ reg["r6"] = Num(i)
    /\ Room(p, 7)
    /\ stack' = [stack EXCEPT ![m] =
                    Push(@, p, Append(Words(EntryRegs), Label("tail", m)))]
    /\ r1' = p + 7
    /\ reg' = [reg EXCEPT !["r2"] = Zero, !["r6"] = Num(6 * i),
                          !["r11"] = Label("fun", m)]
    /\ pc' = Label("fun", m)
    /\ calls' = Append(calls, [dom |-> m, entry |-> i, base |-> p + 7])
    /\ UNCHANGED savedSp

\* An index beyond the table branches to exit, which never returns.
EntryError(m) ==
    /\ At("entry", m)
    /\ \E n \in NEntries..MaxWord-1 : reg["r6"] = Num(n)
    /\ r1' = CurrentSp(m)
    /\ pc' = Label("stop", m)
    /\ UNCHANGED <<reg, savedSp, stack, calls>>

\* Mutant: the words of the call stub popped before those of the exit stub.
ReturnPops_CallStubFirst ==
    [r8 |-> 0, r7 |-> 1, r6 |-> 2, r11 |-> 3, r10 |-> 4, r9 |-> 5, r5 |-> 6,
     r4 |-> 7]
ReturnPops == [r11 |-> 0, r10 |-> 1, r9 |-> 2, r5 |-> 3, r4 |-> 4,
               r8 |-> 5, r7 |-> 6, r6 |-> 7]

\* A return: switch stack and branch to __ret_entry, which restores the
\* registers the exit stub and the compiled call stub had pushed.
EntryReturn(m) ==
    LET p == CurrentSp(m) IN
    /\ At("entry", m)
    /\ reg["r6"] = RET
    /\ p >= 9
    /\ reg' = [Popped(stack[m], p, ReturnPops) EXCEPT !["r2"] = Zero]
    /\ pc' = stack[m][p - 8]
    /\ r1' = p - 9
    /\ UNCHANGED <<savedSp, stack, calls>>

\* Mutant: one register is left on the stack.
TailSp_OneLeft == r1 - 5
\* Mutant: two registers too many popped.
TailSp_OverPop == r1 - 8
\* r1 after the six registers were popped.
TailSp == r1 - 6

\* After the called function returned: restore, clear, go back through r7.
EntryTail(m) ==
    /\ At("tail", m)
    /\ r1 >= 6
    /\ \E i \in 0..NEntries-1 :
        /\ reg["r6"] = Num(6 * i)
        /\ LET popped == Popped(stack[m], r1, EntryPops)
               clears == RetClears(TableFlags(RetWords[i]))
           IN reg' = [Load(popped, clears \cup {"r2"}, Zero) EXCEPT
                         !["r6"] = RET]
    /\ savedSp' = [savedSp EXCEPT ![m] = TailSp]
    /\ r1' = TailSp
    /\ pc' = reg["r7"]
    /\ calls' = SubSeq(calls, 1, Depth - 1)
    /\ UNCHANGED stack

(***************************************************************************)
(* sm_exit.S                                                               *)
(***************************************************************************)
ExitRegs_Swapped == <<"r5", "r4", "r9", "r10", "r11">>   \* mutant
ExitRegs == <<"r4", "r5", "r9", "r10", "r11">>

\* The registers the exit stub clears after pushing them.
ExitClearsSaved == {"r4", "r5", "r9", "r10", "r11"}

Exit(m) ==
    /\ At("exit", m)
    /\ Room(r1, 5)
    /\ stack' = [stack EXCEPT ![m] = Push(@, r1, Words(ExitRegs))]
    /\ r1' = r1 + 5
    /\ savedSp' = [savedSp EXCEPT ![m] = r1 + 5]
    /\ \E n \in 0..4 :
        /\ reg["r7"] = Num(ArgFlags(n))
        /\ reg' = [Load(reg, ExitClearsSaved \cup ExitClears(ArgFlags(n))
                             \cup {"r2"}, Zero) EXCEPT
                      !["r7"] = Label("entry", m)]
    /\ pc' = reg["r8"]
    /\ UNCHANGED calls

(***************************************************************************)
(* unprotected_entry.s                                                     *)
(***************************************************************************)
TrampolineCall ==
    LET p == CurrentSp(Unprotected) IN
    /\ At("entry", Unprotected)
    /\ Room(p, 1)
    /\ stack' = [stack EXCEPT ![Unprotected] =
                    Push(@, p, <<Label("tail", Unprotected)>>)]
    /\ r1' = p + 1
    /\ pc' = reg["r6"]
    /\ calls' = Append(calls,
                       [dom |-> Unprotected, entry |-> 0, base |-> p + 1])
    /\ UNCHANGED <<reg, savedSp>>

\* The file returns at once.  The copy linked into the shipped main.elf
\* images stores r1 to __unprotected_sp first (ResavesSp).
TrampolineTail ==
    /\ At("tail", Unprotected)
    /\ savedSp' = IF ResavesSp THEN [savedSp EXCEPT ![Unprotected] = r1]
                               ELSE savedSp
    /\ reg' = [reg EXCEPT !["r6"] = RET]
    /\ pc' = reg["r7"]
    /\ calls' = SubSeq(calls, 1, Depth - 1)
    /\ UNCHANGED <<r1, stack>>

\* exit is the C library's: the CPU stays there.
Stopped == /\ \E d \in Domain : At("stop", d)
           /\ UNCHANGED vars

Next ==
    \/ \E d \in Domain : Prologue(d) \/ Epilogue(d)
    \/ \E m \in SM, i \in 0..NEntries : CallStub(m, i)
    \/ CallStubReturn
    \/ \E m \in SM, n \in 0..4 : OutcallStub(m, Unprotected, 0, n)
    \/ \E m \in SM : \E t \in SM \ {m}, i \in 0..NEntries-1, n \in 0..4 :
            OutcallStub(m, t, i, n)
    \/ \E m \in SM, i \in 0..NEntries-1 : EntryCall(m, i)
    \/ \E m \in SM : EntryError(m) \/ EntryReturn(m) \/ EntryTail(m) \/ Exit(m)
    \/ TrampolineCall
    \/ TrampolineTail
    \/ Stopped

Spec == Init /\ [][Next]_vars

\* The CPU never stops executing instructions.
FairSpec == Spec /\ WF_vars(Next)

-----------------------------------------------------------------------------
(***************************************************************************)
(* Properties                                                              *)
(***************************************************************************)

\* Every register and stack word, and the program counter, holds a number, a
\* code address or tagged data; stack pointers stay inside the stacks.
TypeOK ==
    /\ reg \in [Reg -> Word]
    /\ pc \in Word
    /\ r1 \in 0..StackWords
    /\ savedSp \in [Domain -> Unset..StackWords]
    /\ stack \in [Domain -> [1..StackWords -> Word]]
    /\ calls \in Seq(Activation)

\* Whenever compiled code runs, it is the innermost activation, on its own
\* frame, with its own values in all the callee-saved registers: no stub on
\* the way out or back lost, swapped or leaked one of them, however deeply
\* the domains call back into each other.
CallerStateRestored ==
    \A d \in Domain : At("body", d) =>
        /\ Top.dom = d
        /\ r1 = Top.base + 8
        /\ \A r \in Saved : reg[r] = Data(d, Depth, r)

Activations(m) == {k \in 1..Depth : calls[k].dom = m}

\* While control is outside a module, the stack pointer it will switch back
\* to is that of an empty stack when none of its functions is active, and
\* otherwise that of the innermost one waiting for its outcall: the stack of
\* a module leaks no word and loses none over any nesting of calls.
SavedSpExact ==
    \A m \in SM : pc[2] # m =>
        \/ Activations(m) = {} /\ CurrentSp(m) = 0
        \/ \E k \in Activations(m) :
              /\ \A j \in Activations(m) : j <= k
              /\ savedSp[m] = calls[k].base + 8 + 9

\* Words that n activations of domain d keep on its stack: 24 each in a module,
\* of which the stubs push 12, and 12 each in the unprotected code, but 11 for
\* main, which nobody returns from.
Need(d, n) == IF d # Unprotected THEN 24 * n ELSE IF n = 0 THEN 0 ELSE 12 * n - 1

\* The stubs compare r1 with no limit: what bounds a stack is how many of its
\* domain's activations are alive, whatever calls and returns came before.  A
\* domain that waits uses exactly their words, and one that runs no more than
\* those of one activation beyond the waiting ones.
StackUse ==
    \A d \in Domain :
        LET n == Cardinality(Activations(d)) IN
        IF pc[2] = d /\ pc[1] \in {"fun", "body", "tail", "exit"}
        THEN r1 \in Need(d, n - 1) .. Need(d, n)
        ELSE CurrentSp(d) = Need(d, n)

\* The registers in which n words are passed.
Passing(n) == CASE n = 0 -> {} [] n = 1 -> {"r15"} [] n = 2 -> {"r14", "r15"}
                [] n = 3 -> {"r13", "r14", "r15"} [] n = 4 -> Arg

IsDataOf(w, m) == w[1] = "data" /\ w[2] = m

\* A step that leaves a module leaves none of the module's data in a
\* register, the status register included, except in the registers that pass
\* the declared arguments (on the way out) or results (on the way back).
LeavesNothing(m) ==
    /\ At("exit", m) => \E n \in 0..4 :
          /\ reg["r7"] = Num(ArgFlags(n))
          /\ \A r \in Reg \ Passing(n) : ~IsDataOf(reg'[r], m)
    /\ At("tail", m) =>
          \A r \in Reg \ Passing(RetWords[Top.entry]) : ~IsDataOf(reg'[r], m)
NoResidue == [][\A m \in SM : pc[2] = m /\ pc'[2] # m => LeavesNothing(m)]_vars

\* Stubs and prologues that may still run before compiled code does.
StubsLeft == IF pc[1] \in {"exit", "tail"} THEN 3 ELSE IF pc[1] = "entry" THEN 2
             ELSE IF pc[1] \in {"fun", "cont"} THEN 1 ELSE 0

\* The way from compiled code to compiled code leads through at most three
\* stubs: no address a stub pops or finds in a register leads back to a stub
\* that has run, or to no code at all.
StubsShorten ==
    [][pc[1] \notin {"body", "stop"} =>
          pc'[1] \in Place /\ StubsLeft' < StubsLeft]_vars

\* The stubs always come to an end: control reaches compiled code or exit.
StubsTerminate ==
    pc[1] \notin {"body", "stop"} ~> pc[1] \in {"body", "stop"}

\* The stubs implement subroutine calls between domains.  The activation that
\* runs is read off the registers; the one that should run is in "calls".
Calls == INSTANCE AbstractCalls WITH
    Main <- Unprotected,
    calls <- [k \in 1..Depth |-> calls[k].dom],
    who <- IF pc[1] = "body" THEN <<pc[2], reg["r4"][3]>> ELSE Nobody,
    request <- IF pc[1] = "exit" THEN reg["r8"][2]
               ELSE IF pc[1] = "stop" \/ (pc[1] = "entry" /\ reg["r6"] # RET)
                    THEN pc[2] ELSE Nobody
ImplementsCalls == Calls!Spec
=============================================================================
