------------------------ MODULE SancusStubsInvProofs ------------------------
(* Machine-checked facts about the Sancus stubs, for every set of modules,  *)
(* entry table, stack size and nesting depth: the types, the invariant of   *)
(* SancusStubsInv, which is inductive provided the trampoline stores r1     *)
(* after the call or functions called by modules call no module back, what  *)
(* follows from it, and that the stubs implement AbstractCalls.             *)
EXTENDS SancusStubsInv, SequenceTheorems, FiniteSetTheorems, Induction, TLAPS

-----------------------------------------------------------------------------
(* Types.                                                                   *)

LEMMA WordTypes ==
    /\ \A d \in Domain, l \in Place : Label(l, d) \in Word
    /\ \A n \in 0..MaxWord : Num(n) \in Word
    /\ \A d \in Domain, k \in Nat, r \in Reg : Data(d, k, r) \in Word
    /\ Zero \in Word /\ RET \in Word
<1>1. \A d \in Domain, l \in Place : Label(l, d) \in Word
  BY DEF Word, Label
<1>2. \A n \in 0..MaxWord : Num(n) \in Word
  BY DEF Word, Num
<1>3. \A d \in Domain, k \in Nat, r \in Reg : Data(d, k, r) \in Word
  BY DEF Word, Data
<1>4. Zero \in Word /\ RET \in Word
  <2>1. 0 \in 0..MaxWord /\ MaxWord \in 0..MaxWord
    BY DEF MaxWord
  <2> QED BY <1>2, <2>1, Zenon DEF Zero, RET
<1> QED BY <1>1, <1>2, <1>3, <1>4

\* Writing words at p keeps a stack a stack.
LEMMA PushType ==
    ASSUME NEW s \in [1..StackWords -> Word], NEW p \in Nat,
           NEW ws \in Seq(Word)
    PROVE  Push(s, p, ws) \in [1..StackWords -> Word]
<1>1. Len(ws) \in Nat /\ \A j \in 1..Len(ws) : ws[j] \in Word
  OBVIOUS
<1>2. ASSUME NEW i \in 1..StackWords, p < i, i <= p + Len(ws)
      PROVE  ws[i - p] \in Word
  <2>1. i - p \in 1..Len(ws)
    BY <1>1, <1>2, StubsAssumption, SMTT(30) DEF StubsAssumption
  <2> QED BY <1>1, <2>1
<1> QED BY <1>2 DEF Push

\* The registers a stub pushes are words.
LEMMA WordsType ==
    ASSUME TypeOK, NEW names \in Seq(Reg)
    PROVE  Words(names) \in Seq(Word)
<1> USE DEF TypeOK
<1>1. Len(names) \in Nat /\ \A i \in 1..Len(names) : names[i] \in Reg
  OBVIOUS
<1> QED BY <1>1 DEF Words

LEMMA PushedNames ==
    /\ PrologueRegs \in Seq(Reg) /\ EntryRegs \in Seq(Reg) /\ ExitRegs \in Seq(Reg)
    /\ Len(PrologueRegs) = 8 /\ Len(EntryRegs) = 6 /\ Len(ExitRegs) = 5
BY DEF PrologueRegs, EntryRegs, ExitRegs, Reg, Saved

\* Popping at most p words at p loads the registers with words.
LEMMA PoppedType ==
    ASSUME TypeOK, NEW s \in [1..StackWords -> Word], NEW p \in 0..StackWords,
           NEW pops, \A r \in DOMAIN pops : pops[r] \in 0..p-1
    PROVE  Popped(s, p, pops) \in [Reg -> Word]
<1>1. ASSUME NEW r \in Reg, r \in DOMAIN pops
      PROVE  s[p - pops[r]] \in Word
  BY <1>1, StubsAssumption, SMTT(30) DEF StubsAssumption
<1> QED BY <1>1 DEF Popped, TypeOK

LEMMA LoadType ==
    ASSUME NEW f \in [Reg -> Word], NEW R, NEW w \in Word
    PROVE  Load(f, R, w) \in [Reg -> Word]
BY DEF Load

LEMMA FreshType ==
    ASSUME TypeOK, NEW f \in [Reg -> Word], NEW R, NEW d \in Domain
    PROVE  Fresh(f, R, d) \in [Reg -> Word]
<1>1. Depth \in Nat
  BY DEF TypeOK, Depth
<1> QED BY <1>1, WordTypes DEF Fresh

LEMMA SpType ==
    ASSUME TypeOK, NEW d \in Domain
    PROVE  CurrentSp(d) \in 0..StackWords
BY StubsAssumption DEF TypeOK, CurrentSp, Unset, StubsAssumption

LEMMA RegNames ==
    /\ Saved \subseteq Reg /\ Arg \subseteq Reg
    /\ "r2" \in Reg /\ "r4" \in Reg /\ "r6" \in Reg /\ "r7" \in Reg
    /\ "r8" \in Reg /\ "r11" \in Reg
BY DEF Reg, Saved, Arg

LEMMA FlagsType == \A n \in 0..4 : ArgFlags(n) \in 0..8
BY DEF ArgFlags

LEMMA IndexType ==
    /\ MaxWord \in Nat /\ MaxWord > 8
    /\ \A i \in 0..NEntries : i \in 0..MaxWord /\ 6 * i \in 0..MaxWord
                             /\ i < MaxWord /\ 6 * i < MaxWord
<1>1. MaxWord \in Nat /\ MaxWord > 8
  BY DEF MaxWord
<1> QED BY <1>1, StubsAssumption, SMTT(30) DEF StubsAssumption

LEMMA PopsType ==
    ASSUME NEW p \in Nat
    PROVE  /\ p >= 8 => \A r \in DOMAIN EpiloguePops : EpiloguePops[r] \in 0..p-1
           /\ p >= 6 => \A r \in DOMAIN EntryPops : EntryPops[r] \in 0..p-1
           /\ p >= 8 => \A r \in DOMAIN ReturnPops : ReturnPops[r] \in 0..p-1
<1>1. ASSUME p >= 8
      PROVE  \A r \in DOMAIN EpiloguePops : EpiloguePops[r] \in 0..p-1
  BY <1>1 DEF EpiloguePops
<1>2. ASSUME p >= 6 PROVE \A r \in DOMAIN EntryPops : EntryPops[r] \in 0..p-1
  BY <1>2 DEF EntryPops
<1>3. ASSUME p >= 8 PROVE \A r \in DOMAIN ReturnPops : ReturnPops[r] \in 0..p-1
  BY <1>3 DEF ReturnPops
<1> QED BY <1>1, <1>2, <1>3

LEMMA ShorterType ==
    ASSUME TypeOK
    PROVE  /\ SubSeq(calls, 1, Depth - 1) \in Seq(Activation)
           /\ Depth > 0 => Len(SubSeq(calls, 1, Depth - 1)) = Depth - 1
           /\ \A i \in 1..Depth-1 : SubSeq(calls, 1, Depth - 1)[i] = calls[i]
<1>1. Depth \in Nat /\ \A i \in 1..Depth-1 : calls[i] \in Activation
  BY DEF TypeOK, Depth
<1> DEFINE n == Depth - 1
<1>2. n \in Int /\ 1 \in Int /\ \A i \in 1..n : calls[i] \in Activation
  BY <1>1
<1>3. /\ SubSeq(calls, 1, n) \in Seq(Activation)
      /\ Len(SubSeq(calls, 1, n)) = IF 1 <= n THEN n - 1 + 1 ELSE 0
      /\ \A i \in 1..n-1+1 : SubSeq(calls, 1, n)[i] = calls[1+i-1]
  <2> HIDE DEF n
  <2> QED BY <1>2, SubSeqProperties
<1> QED BY <1>1, <1>3

LEMMA InitType == Init => TypeOK
<1> SUFFICES ASSUME Init PROVE TypeOK
  OBVIOUS
<1>1. Unprotected \in Domain /\ 0 \in 0..NEntries-1 /\ Unset \in Int
  BY StubsAssumption DEF Domain, StubsAssumption, Unset
<1>2. reg \in [Reg -> Word]
  BY <1>1, WordTypes DEF Init
<1>3. pc \in Word
  BY <1>1, WordTypes DEF Init, Place
<1>4. savedSp \in [Domain -> Unset..StackWords]
  BY StubsAssumption DEF Init, StubsAssumption, Unset
<1>5. stack \in [Domain -> [1..StackWords -> Word]]
  BY WordTypes DEF Init
<1>6. calls \in Seq(Activation)
  BY <1>1, StubsAssumption DEF Init, Activation, StubsAssumption
<1>7. r1 \in 0..StackWords
  BY StubsAssumption DEF Init, StubsAssumption
<1> QED BY <1>2, <1>3, <1>4, <1>5, <1>6, <1>7 DEF TypeOK

\* Every step keeps the types; a stub pops only what was pushed.
LEMMA TypeStep == TypeOK /\ [Next]_vars => TypeOK'
<1> SUFFICES ASSUME TypeOK, [Next]_vars PROVE TypeOK'
  OBVIOUS
<1>0. /\ StackWords \in Nat /\ r1 \in 0..StackWords /\ pc \in Word
      /\ reg \in [Reg -> Word] /\ savedSp \in [Domain -> Unset..StackWords]
      /\ stack \in [Domain -> [1..StackWords -> Word]]
      /\ calls \in Seq(Activation) /\ Depth \in Nat
      /\ Unprotected \in Domain /\ SM \subseteq Domain /\ Unset \in Int
  BY StubsAssumption, SMTT(30) DEF TypeOK, StubsAssumption, Depth, Domain, Unset
<1>1. ASSUME NEW d \in Domain, Prologue(d) PROVE TypeOK'
  <2>1. Push(stack[d], r1, Words(PrologueRegs)) \in [1..StackWords -> Word]
    <3>1. /\ stack[d] \in [1..StackWords -> Word] /\ r1 \in Nat
          /\ Words(PrologueRegs) \in Seq(Word)
      BY <1>0, PushedNames, WordsType
    <3> QED BY <3>1, PushType, SMTT(30)
  <2>2. stack' \in [Domain -> [1..StackWords -> Word]]
    BY <1>0, <1>1, <2>1 DEF Prologue
  <2>3. reg' \in [Reg -> Word]
    BY <1>0, <1>1, FreshType DEF Prologue
  <2>4. pc' \in Word
    BY <1>1, WordTypes DEF Prologue, Place
  <2> QED BY <1>0, <1>1, <2>2, <2>3, <2>4 DEF Prologue, Room, TypeOK
<1>2. ASSUME NEW d \in Domain, Epilogue(d) PROVE TypeOK'
  <2>0. \A r \in DOMAIN EpiloguePops : EpiloguePops[r] \in 0..r1-1
    <3>1. r1 \in Nat /\ r1 >= 8
      BY <1>0, <1>2 DEF Epilogue
    <3> QED BY <3>1, PopsType
  <2>1. Popped(stack[d], r1, EpiloguePops) \in [Reg -> Word]
    BY <1>0, <2>0, PoppedType
  <2>2. reg' \in [Reg -> Word]
    BY <1>2, <2>1, FreshType DEF Epilogue
  <2>3. pc' \in Word /\ r1' \in 0..StackWords
    BY <1>0, <1>2 DEF Epilogue
  <2> QED BY <1>0, <1>2, <2>2, <2>3 DEF Epilogue, TypeOK
<1>3. ASSUME NEW m \in SM, NEW i \in 0..NEntries, CallStub(m, i) PROVE TypeOK'
  <2>1. <<pc, reg["r6"], reg["r7"]>> \in Seq(Word)
    BY <1>0, RegNames
  <2>2. stack' \in [Domain -> [1..StackWords -> Word]]
    <3>1. Push(stack[Unprotected], r1, <<pc, reg["r6"], reg["r7"]>>)
              \in [1..StackWords -> Word]
      <4>1. stack[Unprotected] \in [1..StackWords -> Word] /\ r1 \in Nat
        BY <1>0
      <4> QED BY <2>1, <4>1, PushType
    <3> QED BY <1>0, <1>3, <3>1 DEF CallStub
  <2>3. Fresh(reg, Arg \cup {"r2"}, Unprotected) \in [Reg -> Word]
    BY <1>0, FreshType
  <2>4. Num(i) \in Word /\ Label("cont", Unprotected) \in Word /\ pc' \in Word
    BY <1>0, <1>3, WordTypes, IndexType DEF CallStub, Place
  <2>5. reg' \in [Reg -> Word]
    BY <1>3, <2>3, <2>4 DEF CallStub
  <2>6. r1' \in 0..StackWords /\ savedSp' \in [Domain -> Unset..StackWords]
    BY <1>0, <1>3 DEF CallStub, Room, Unset
  <2> QED BY <1>0, <1>3, <2>2, <2>4, <2>5, <2>6 DEF CallStub, TypeOK
<1>4. ASSUME CallStubReturn PROVE TypeOK'
  <2> DEFINE p == savedSp[Unprotected]
  <2>1. p \in 3..StackWords
    BY <1>0, <1>4 DEF CallStubReturn, Unset
  <2>2. reg' \in [Reg -> Word]
    <3> DEFINE pops == [r7 |-> 0, r6 |-> 1]
    <3>1. \A r \in DOMAIN pops : pops[r] \in 0..p-1
      BY <2>1
    <3>2. Popped(stack[Unprotected], p, pops) \in [Reg -> Word]
      <4> HIDE DEF pops, p
      <4>1. /\ stack[Unprotected] \in [1..StackWords -> Word]
            /\ p \in 0..StackWords
        BY <1>0, <2>1
      <4> QED BY <3>1, <4>1, PoppedType
    <3> QED BY <1>4, <3>2 DEF CallStubReturn
  <2>3. pc' \in Word /\ r1' \in 0..StackWords
    BY <1>0, <1>4, <2>1 DEF CallStubReturn
  <2> QED BY <1>0, <1>4, <2>2, <2>3 DEF CallStubReturn, TypeOK
<1>5. ASSUME NEW m \in SM, NEW t \in Domain, NEW i \in 0..NEntries-1,
             NEW n \in 0..4, OutcallStub(m, t, i, n)
      PROVE  TypeOK'
  <2>1. <<pc, reg["r6"], reg["r7"], reg["r8"]>> \in Seq(Word)
    BY <1>0, RegNames
  <2>2. stack' \in [Domain -> [1..StackWords -> Word]]
    <3>1. Push(stack[m], r1, <<pc, reg["r6"], reg["r7"], reg["r8"]>>)
              \in [1..StackWords -> Word]
      <4>1. stack[m] \in [1..StackWords -> Word] /\ r1 \in Nat
        BY <1>0
      <4> QED BY <2>1, <4>1, PushType
    <3> QED BY <1>0, <1>5, <3>1 DEF OutcallStub
  <2>3. Fresh(reg, Arg \cup {"r2"}, m) \in [Reg -> Word]
    BY <1>0, FreshType
  <2>4. ArgFlags(n) \in 0..MaxWord /\ i \in 0..MaxWord
    <3>1. NEntries \in Nat /\ 0..8 \subseteq 0..MaxWord
      BY IndexType, StubsAssumption, SMTT(30) DEF StubsAssumption
    <3>2. ArgFlags(n) \in 0..8
      BY FlagsType, Zenon
    <3>3. i \in 0..NEntries
      BY <3>1
    <3>4. i \in 0..MaxWord
      BY <3>3, IndexType, Zenon
    <3> QED BY <3>1, <3>2, <3>4, Zenon
  <2>5. /\ Num(i) \in Word /\ Num(ArgFlags(n)) \in Word /\ pc' \in Word
        /\ Label("fun", t) \in Word /\ Label("entry", t) \in Word
    BY <1>0, <1>5, <2>4, WordTypes DEF OutcallStub, Place
  <2>6. reg' \in [Reg -> Word]
    BY <1>5, <2>3, <2>5 DEF OutcallStub
  <2>7. r1' \in 0..StackWords
    BY <1>0, <1>5 DEF OutcallStub, Room
  <2> QED BY <1>0, <1>5, <2>2, <2>5, <2>6, <2>7 DEF OutcallStub, TypeOK
<1>6. ASSUME NEW m \in SM, NEW i \in 0..NEntries-1, EntryCall(m, i) PROVE TypeOK'
  <2> DEFINE p == CurrentSp(m)
             ws == Append(Words(EntryRegs), Label("tail", m))
  <2>1. p \in 0..StackWords
    BY <1>0, SpType
  <2>2. Label("tail", m) \in Word /\ Label("fun", m) \in Word
    BY <1>0, WordTypes DEF Place
  <2>3. ws \in Seq(Word)
    BY <2>2, PushedNames, WordsType
  <2>4. stack' \in [Domain -> [1..StackWords -> Word]]
    <3>1. Push(stack[m], p, ws) \in [1..StackWords -> Word]
      <4> HIDE DEF ws, p
      <4>1. stack[m] \in [1..StackWords -> Word] /\ p \in Nat
        BY <1>0, <2>1
      <4> QED BY <2>3, <4>1, PushType
    <3> QED BY <1>0, <1>6, <3>1 DEF EntryCall
  <2>5. Num(6 * i) \in Word
    BY WordTypes, IndexType, StubsAssumption DEF StubsAssumption
  <2>6. reg' \in [Reg -> Word]
    BY <1>0, <1>6, <2>2, <2>5, WordTypes DEF EntryCall
  <2>7. r1' \in 0..StackWords /\ pc' \in Word
    BY <1>0, <1>6, <2>1, <2>2, SMTT(30) DEF EntryCall, Room
  <2>8. calls' \in Seq(Activation)
    BY <1>0, <1>6, <2>1 DEF EntryCall, Room, Activation
  <2> QED BY <1>0, <1>6, <2>4, <2>6, <2>7, <2>8 DEF EntryCall, TypeOK
<1>7. ASSUME NEW m \in SM, EntryError(m) PROVE TypeOK'
  <2>1. CurrentSp(m) \in 0..StackWords /\ Label("stop", m) \in Word
    BY <1>0, SpType, WordTypes DEF Place
  <2> QED BY <1>0, <1>7, <2>1 DEF EntryError, TypeOK
<1>8. ASSUME NEW m \in SM, EntryReturn(m) PROVE TypeOK'
  <2> DEFINE p == CurrentSp(m)
  <2>1. p \in 9..StackWords
    BY <1>0, <1>8, SpType DEF EntryReturn
  <2>2. Popped(stack[m], p, ReturnPops) \in [Reg -> Word]
    <3> HIDE DEF p
    <3>1. /\ \A r \in DOMAIN ReturnPops : ReturnPops[r] \in 0..p-1
          /\ stack[m] \in [1..StackWords -> Word] /\ p \in 0..StackWords
      <4>1. p \in Nat /\ p >= 8
        BY <1>0, <2>1
      <4>2. \A r \in DOMAIN ReturnPops : ReturnPops[r] \in 0..p-1
        BY <4>1, PopsType
      <4> QED BY <1>0, <2>1, <4>2
    <3> QED BY <3>1, PoppedType
  <2>3. reg' \in [Reg -> Word]
    BY <1>8, <2>2, WordTypes DEF EntryReturn
  <2>4. pc' \in Word /\ r1' \in 0..StackWords
    BY <1>0, <1>8, <2>1, SMTT(30) DEF EntryReturn
  <2> QED BY <1>0, <1>8, <2>3, <2>4 DEF EntryReturn, TypeOK
<1>9. ASSUME NEW m \in SM, EntryTail(m) PROVE TypeOK'
  <2>0. /\ \A r \in DOMAIN EntryPops : EntryPops[r] \in 0..r1-1
        /\ stack[m] \in [1..StackWords -> Word]
    <3>1. r1 \in Nat /\ r1 >= 6
      BY <1>0, <1>9 DEF EntryTail
    <3> QED BY <1>0, <3>1, PopsType
  <2>1. Popped(stack[m], r1, EntryPops) \in [Reg -> Word]
    BY <1>0, <2>0, PoppedType
  <2>2. \A R : Load(Popped(stack[m], r1, EntryPops), R, Zero) \in [Reg -> Word]
    BY <2>1, LoadType, WordTypes
  <2>3. reg' \in [Reg -> Word]
    BY <1>9, <2>2, WordTypes DEF EntryTail
  <2>4. pc' \in Word
    BY <1>0, <1>9, RegNames DEF EntryTail
  <2>5. r1' \in 0..StackWords /\ savedSp' \in [Domain -> Unset..StackWords]
    BY <1>0, <1>9 DEF EntryTail, TailSp, Unset
  <2>6. calls' \in Seq(Activation)
    BY <1>0, <1>9, ShorterType DEF EntryTail
  <2> QED BY <1>0, <1>9, <2>3, <2>4, <2>5, <2>6 DEF EntryTail, TypeOK
<1>10. ASSUME NEW m \in SM, Exit(m) PROVE TypeOK'
  <2>1. stack' \in [Domain -> [1..StackWords -> Word]]
    <3>1. Push(stack[m], r1, Words(ExitRegs)) \in [1..StackWords -> Word]
      <4>1. stack[m] \in [1..StackWords -> Word] /\ r1 \in Nat
        BY <1>0
      <4>2. Words(ExitRegs) \in Seq(Word)
        BY PushedNames, WordsType
      <4> QED BY <4>1, <4>2, PushType
    <3> QED BY <1>0, <1>10, <3>1 DEF Exit
  <2>2. \A R : Load(reg, R, Zero) \in [Reg -> Word]
    BY <1>0, LoadType, WordTypes
  <2>3. Label("entry", m) \in Word
    BY <1>0, WordTypes DEF Place
  <2>4. reg' \in [Reg -> Word]
    BY <1>10, <2>2, <2>3 DEF Exit
  <2>5. r1' \in 0..StackWords /\ savedSp' \in [Domain -> Unset..StackWords]
    BY <1>0, <1>10 DEF Exit, Room, Unset
  <2>6. pc' \in Word
    BY <1>0, <1>10, RegNames DEF Exit
  <2> QED BY <1>0, <1>10, <2>1, <2>4, <2>5, <2>6 DEF Exit, TypeOK
<1>11. ASSUME TrampolineCall PROVE TypeOK'
  <2> DEFINE p == CurrentSp(Unprotected)
             ws == <<Label("tail", Unprotected)>>
  <2>1. p \in 0..StackWords
    BY <1>0, SpType
  <2>2. ws \in Seq(Word)
    BY <1>0, WordTypes DEF Place
  <2>3. Push(stack[Unprotected], p, ws) \in [1..StackWords -> Word]
    <3> HIDE DEF ws, p
    <3> QED BY <1>0, <2>1, <2>2, PushType, SMTT(30)
  <2>4. stack' \in [Domain -> [1..StackWords -> Word]]
    BY <1>0, <1>11, <2>3 DEF TrampolineCall
  <2>5. r1' \in 0..StackWords /\ pc' \in Word
    BY <1>0, <1>11, <2>1, RegNames DEF TrampolineCall, Room
  <2>6. calls' \in Seq(Activation)
    BY <1>0, <1>11, <2>1, StubsAssumption, SMTT(30)
    DEF TrampolineCall, Room, Activation, StubsAssumption
  <2> QED BY <1>0, <1>11, <2>4, <2>5, <2>6 DEF TrampolineCall, TypeOK
<1>12. ASSUME TrampolineTail PROVE TypeOK'
  <2>1. savedSp' \in [Domain -> Unset..StackWords]
    BY <1>0, <1>12 DEF TrampolineTail, Unset
  <2>2. reg' \in [Reg -> Word] /\ pc' \in Word
    BY <1>0, <1>12, RegNames, WordTypes DEF TrampolineTail
  <2>3. calls' \in Seq(Activation)
    BY <1>0, <1>12, ShorterType DEF TrampolineTail
  <2> QED BY <1>0, <1>12, <2>1, <2>2, <2>3 DEF TrampolineTail, TypeOK
<1>13. ASSUME UNCHANGED vars PROVE TypeOK'
  BY <1>13 DEF TypeOK, vars, Depth
<1>14. 0 \in 0..NEntries-1 /\ \A m \in SM : Unprotected \notin SM \ {m}
  BY StubsAssumption DEF StubsAssumption
<1> QED
  BY <1>0, <1>14, <1>1, <1>2, <1>3, <1>4, <1>5, <1>6, <1>7, <1>8, <1>9, <1>10, <1>11,
     <1>12, <1>13 DEF Next, Stopped

\* For every set of modules, entry table, stack size and nesting depth, every
\* register and stack word stays a word and every stack pointer stays inside
\* its stack.
THEOREM TypeCorrect == Spec => []TypeOK
BY InitType, TypeStep, PTL DEF Spec

-----------------------------------------------------------------------------
(* What a step leaves alone.                                                *)

\* The step leaves activations 1..n, and the words of stack d up to p, alone.
SameCalls(n) == \A k \in 1..n : calls'[k] = calls[k]
Kept(d, p) == \A i \in 1..StackWords : i <= p => stack'[d][i] = stack[d][i]

\* The step leaves the words ws on stack d, from p on.
Pushed(d, p, ws) == \A j \in 1..Len(ws) : stack'[d][p+j] = ws[j]

-----------------------------------------------------------------------------
(* Activations and where they lie on the stacks.                            *)

LEMMA ActivationTypes ==
    ASSUME TypeOK, NEW n, n = Depth
    PROVE  /\ n \in Nat
           /\ \A k \in 1..n : /\ dom(k) \in Domain
                              /\ base(k) \in 0..StackWords
                              /\ calls[k].entry \in 0..NEntries-1
<1>1. n \in Nat /\ \A k \in 1..n : calls[k] \in Activation
  BY DEF TypeOK, Depth
<1> QED BY <1>1 DEF Activation, dom, base

LEMMA Bounds ==
    ASSUME TypeOK, NEW n, n = Depth, Chain(n), NEW k \in 1..n
    PROVE  /\ dom(k) \in Domain /\ base(k) \in Nat /\ base(k) <= StackWords
           /\ Start(k) \in Nat /\ Start(k) <= base(k)
           /\ k > 1 => Start(k) = IF dom(k) = Unprotected THEN base(k) - 1
                                                          ELSE base(k) - 7
           /\ End(k) = IF dom(k) = Unprotected THEN base(k) + 11
                                               ELSE base(k) + 17
<1>1. n \in Nat /\ dom(k) \in Domain /\ base(k) \in 0..StackWords
  BY ActivationTypes
<1>2. StackWords \in Nat
  BY StubsAssumption DEF StubsAssumption
<1>3. k # 1 => Start(k) >= 0
  BY <1>1 DEF Chain
<1> QED BY <1>1, <1>2, <1>3 DEF Start, End

\* Every activation of a domain ends below where the domain's stack stands.
LEMMA EndsBelow ==
    ASSUME TypeOK, NEW n, n = Depth, Chain(n), NEW d, NEW p, EndsAt(d, n, p),
           NEW k \in 1..n, dom(k) = d
    PROVE  End(k) <= p
<1>1. PICK j \in 1..n : /\ dom(j) = d /\ p = End(j)
                        /\ \A i \in j+1..n : dom(i) # d
  BY DEF EndsAt
<1>2. n \in Nat
  BY ActivationTypes
<1>3. k <= j
  BY <1>1, <1>2
<1>4. ASSUME k < j PROVE End(k) <= End(j)
  <2>1. End(k) <= Start(j)
    BY <1>1, <1>4 DEF Chain
  <2>2. Start(j) <= End(j) /\ Start(j) \in Nat /\ End(j) \in Nat /\ End(k) \in Nat
    BY Bounds
  <2> QED BY <2>1, <2>2
<1>5. End(j) \in Nat
  BY Bounds
<1> QED BY <1>1, <1>3, <1>4, <1>5

LEMMA EndsOwn ==
    ASSUME NEW n \in Nat \ {0}
    PROVE  EndsAt(dom(n), n, End(n))
BY DEF EndsAt

\* The innermost activation ends where its domain's stack stands.
LEMMA EndsTop ==
    ASSUME NEW n \in Nat \ {0}, NEW p, EndsAt(dom(n), n, p)
    PROVE  p = End(n)
<1>1. PICK j \in 1..n : /\ dom(j) = dom(n) /\ p = End(j)
                        /\ \A i \in j+1..n : dom(i) # dom(n)
  BY DEF EndsAt
<1>2. j = n
  BY <1>1
<1> QED BY <1>1, <1>2

LEMMA EndsGrow ==
    ASSUME NEW n \in Nat, NEW d, NEW p, EndsAt(d, n, p), SameCalls(n), dom(n+1)' # d
    PROVE  EndsAt(d, n+1, p)'
<1>1. \A j \in 1..n : dom(j)' = dom(j) /\ base(j)' = base(j) /\ End(j)' = End(j)
  BY DEF SameCalls, dom, base, End
<1>2. CASE p = 0 /\ \A j \in 1..n : dom(j) # d
  <2>1. \A j \in 1..n+1 : j \in 1..n \/ j = n+1
    OBVIOUS
  <2>2. \A j \in 1..n+1 : dom(j)' # d
    BY <1>1, <1>2, <2>1
  <2> QED BY <1>2, <2>2 DEF EndsAt
<1>3. CASE \E j \in 1..n : /\ dom(j) = d /\ p = End(j)
                           /\ \A i \in j+1..n : dom(i) # d
  <2>1. PICK j \in 1..n : /\ dom(j) = d /\ p = End(j)
                          /\ \A i \in j+1..n : dom(i) # d
    BY <1>3
  <2>2. \A i \in j+1..n+1 : i \in j+1..n \/ i = n+1
    OBVIOUS
  <2>3. j \in 1..n+1 /\ \A i \in j+1..n+1 : dom(i)' # d
    BY <1>1, <2>1, <2>2
  <2>4. dom(j)' = d /\ p = End(j)'
    BY <1>1, <2>1
  <2> QED BY <2>3, <2>4 DEF EndsAt
<1> QED BY <1>2, <1>3 DEF EndsAt

LEMMA EndsShrink ==
    ASSUME NEW n \in Nat \ {0}, NEW d, NEW p, EndsAt(d, n, p), dom(n) # d
    PROVE  EndsAt(d, n-1, p)
<1>1. CASE p = 0 /\ \A j \in 1..n : dom(j) # d
  BY <1>1 DEF EndsAt
<1>2. CASE \E j \in 1..n : /\ dom(j) = d /\ p = End(j)
                           /\ \A i \in j+1..n : dom(i) # d
  <2>1. PICK j \in 1..n : /\ dom(j) = d /\ p = End(j)
                          /\ \A i \in j+1..n : dom(i) # d
    BY <1>2
  <2>2. j \in 1..n-1
    BY <2>1
  <2>3. \A i \in j+1..n-1 : dom(i) # d
    BY <2>1
  <2> QED BY <2>1, <2>2, <2>3 DEF EndsAt
<1> QED BY <1>1, <1>2 DEF EndsAt

LEMMA EndsKept ==
    ASSUME NEW n \in Nat, NEW d, NEW p, EndsAt(d, n, p), SameCalls(n)
    PROVE  EndsAt(d, n, p)'
<1>1. \A j \in 1..n : dom(j)' = dom(j) /\ base(j)' = base(j) /\ End(j)' = End(j)
  BY DEF SameCalls, dom, base, End
<1> QED BY <1>1 DEF EndsAt

-----------------------------------------------------------------------------
(* Words on the stacks.                                                     *)

\* Writing words at p leaves the words below p and the other stacks alone.
LEMMA PushKept ==
    ASSUME TypeOK, NEW d \in Domain, NEW p \in Nat, NEW ws \in Seq(Word),
           stack' = [stack EXCEPT ![d] = Push(@, p, ws)]
    PROVE  /\ Kept(d, p)
           /\ \A e \in Domain \ {d} : \A q : Kept(e, q)
           /\ \A j \in 1..Len(ws) : p + j <= StackWords => stack'[d][p+j] = ws[j]
<1>1. /\ stack \in [Domain -> [1..StackWords -> Word]]
      /\ StackWords \in Nat /\ Len(ws) \in Nat
  BY StubsAssumption, SMTT(30) DEF TypeOK, StubsAssumption
<1>2. stack'[d] = Push(stack[d], p, ws) /\ \A e \in Domain \ {d} : stack'[e] = stack[e]
  BY <1>1
<1>3. Kept(d, p)
  BY <1>1, <1>2 DEF Kept, Push
<1>4. \A e \in Domain \ {d} : \A q : Kept(e, q)
  BY <1>2 DEF Kept
<1>5. ASSUME NEW j \in 1..Len(ws), p + j <= StackWords
      PROVE  stack'[d][p+j] = ws[j]
  <2>1. p + j \in 1..StackWords /\ p < p + j /\ p + j <= p + Len(ws) /\ (p + j) - p = j
    BY <1>1, <1>5
  <2>2. stack'[d][p+j] = ws[(p + j) - p]
    BY <1>2, <2>1 DEF Push
  <2> QED BY <2>1, <2>2
<1> QED BY <1>3, <1>4, <1>5

\* The place of activation k: what the frame lemmas need of Bounds.
Placed(k) == /\ StackWords \in Nat /\ base(k) \in Nat /\ base(k) <= StackWords
             /\ k > 1 /\ dom(k) # Unprotected => base(k) >= 7
             /\ k > 1 => base(k) >= 1

LEMMA ActivationsPlaced ==
    ASSUME TypeOK, NEW n, n = Depth, Chain(n), NEW k \in 1..n
    PROVE  Placed(k)
<1>1. StackWords \in Nat /\ n \in Nat
  BY StubsAssumption, ActivationTypes DEF StubsAssumption
<1>2. /\ base(k) \in Nat /\ base(k) <= StackWords /\ Start(k) \in Nat
      /\ k > 1 => Start(k) = IF dom(k) = Unprotected THEN base(k) - 1
                                                     ELSE base(k) - 7
  BY Bounds
<1> QED BY <1>1, <1>2 DEF Placed

\* What an activation was called with depends on itself and its caller.
LEMMA CallerKept ==
    ASSUME NEW k \in Nat, k > 1, SameCalls(k)
    PROVE  /\ dom(k)' = dom(k) /\ base(k)' = base(k)
           /\ \A r : CallerReg(k, r)' = CallerReg(k, r)
           /\ \A r : FunReg(k, r)' = FunReg(k, r)
<1>1. calls'[k] = calls[k] /\ calls'[k-1] = calls[k-1]
  BY DEF SameCalls
<1> QED BY <1>1 DEF dom, base, CallerReg, FunReg, Given

LEMMA EntryFrameKept ==
    ASSUME NEW k \in Nat, k > 1, SameCalls(k), Placed(k), EntryFrame(k),
           Kept(dom(k), base(k))
    PROVE  EntryFrame(k)'
<1>1. \A i \in 1..StackWords : i <= base(k) => stack'[dom(k)][i] = stack[dom(k)][i]
  BY DEF Kept
<1>2. base(k) \in 1..StackWords
  BY DEF Placed
<1>3. CASE dom(k) = Unprotected
  BY <1>1, <1>2, <1>3, CallerKept DEF EntryFrame
<1>4. CASE dom(k) # Unprotected
  <2>1. /\ base(k)-1 \in 1..StackWords /\ base(k)-2 \in 1..StackWords
        /\ base(k)-3 \in 1..StackWords /\ base(k)-4 \in 1..StackWords
        /\ base(k)-5 \in 1..StackWords /\ base(k)-6 \in 1..StackWords
        /\ \A j \in 1..6 : base(k)-j <= base(k)
    BY <1>4 DEF Placed
  <2>2. /\ stack'[dom(k)][base(k)-1] = stack[dom(k)][base(k)-1]
        /\ stack'[dom(k)][base(k)-2] = stack[dom(k)][base(k)-2]
        /\ stack'[dom(k)][base(k)-3] = stack[dom(k)][base(k)-3]
        /\ stack'[dom(k)][base(k)-4] = stack[dom(k)][base(k)-4]
        /\ stack'[dom(k)][base(k)-5] = stack[dom(k)][base(k)-5]
        /\ stack'[dom(k)][base(k)-6] = stack[dom(k)][base(k)-6]
        /\ stack'[dom(k)][base(k)] = stack[dom(k)][base(k)]
    BY <1>1, <1>2, <2>1
  <2> QED BY <2>2, CallerKept DEF EntryFrame
<1> QED BY <1>3, <1>4

LEMMA FunFrameKept ==
    ASSUME NEW k \in Nat, k > 1, SameCalls(k), Placed(k), FunFrame(k),
           base(k) + 8 <= StackWords, Kept(dom(k), base(k) + 8)
    PROVE  FunFrame(k)'
<1>1. \A j \in 1..8 : stack'[dom(k)][base(k)+j] = stack[dom(k)][base(k)+j]
  BY DEF Kept, Placed
<1> QED BY <1>1, CallerKept DEF FunFrame

LEMMA StubFrameKept ==
    ASSUME NEW k \in Nat \ {0}, SameCalls(k), Placed(k), StubFrame(k),
           NEW q, q = base(k) + (IF dom(k) = Unprotected THEN 11 ELSE 12),
           q <= StackWords, Kept(dom(k), q)
    PROVE  StubFrame(k)'
<1>1. dom(k)' = dom(k) /\ base(k)' = base(k)
  BY DEF SameCalls, dom, base
<1>2. /\ \A j \in 9..11 : stack'[dom(k)][base(k)+j] = stack[dom(k)][base(k)+j]
      /\ dom(k) # Unprotected
            => stack'[dom(k)][base(k)+12] = stack[dom(k)][base(k)+12]
  BY DEF Kept, Placed
<1> QED BY <1>1, <1>2 DEF StubFrame

LEMMA ExitFrameKept ==
    ASSUME NEW k \in Nat \ {0}, SameCalls(k), Placed(k), ExitFrame(k),
           End(k) <= StackWords, Kept(dom(k), End(k))
    PROVE  ExitFrame(k)'
<1>1. dom(k)' = dom(k) /\ base(k)' = base(k)
  BY DEF SameCalls, dom, base
<1>2. dom(k) # Unprotected =>
         \A j \in 13..17 : stack'[dom(k)][base(k)+j] = stack[dom(k)][base(k)+j]
  BY DEF Kept, Placed, End
<1> QED BY <1>1, <1>2 DEF ExitFrame

\* A waiting activation keeps its words when nothing below its end is written.
LEMMA CompleteKept ==
    ASSUME NEW k \in Nat \ {0}, SameCalls(k), Placed(k), Complete(k),
           Kept(dom(k), End(k))
    PROVE  Complete(k)'
<1>1. /\ base(k) \in Nat /\ End(k) <= StackWords
      /\ End(k) = IF dom(k) = Unprotected THEN base(k) + 11 ELSE base(k) + 17
  BY DEF Placed, Complete, End
<1>2. /\ \A q \in Nat : q <= End(k) => Kept(dom(k), q)
      /\ End(k) \in Nat /\ StackWords \in Nat
  BY <1>1 DEF Kept, Placed
<1>3. k > 1 => EntryFrame(k)' /\ FunFrame(k)'
  <2> SUFFICES ASSUME k > 1 PROVE EntryFrame(k)' /\ FunFrame(k)'
    OBVIOUS
  <2>1. /\ EntryFrame(k) /\ FunFrame(k) /\ base(k) + 8 <= StackWords
        /\ Kept(dom(k), base(k)) /\ Kept(dom(k), base(k) + 8)
    BY <1>1, <1>2 DEF Complete
  <2> QED BY <2>1, EntryFrameKept, FunFrameKept
<1>4. StubFrame(k)' /\ ExitFrame(k)'
  <2> DEFINE q == base(k) + (IF dom(k) = Unprotected THEN 11 ELSE 12)
  <2>1. q <= StackWords /\ Kept(dom(k), q)
    BY <1>1, <1>2
  <2> QED BY <1>1, <2>1, StubFrameKept, ExitFrameKept DEF Complete
<1>5. End(k)' = End(k)
  BY DEF SameCalls, dom, base, End
<1> QED BY <1>1, <1>3, <1>4, <1>5 DEF Complete

\* A push above the base of the innermost activation, on its stack, leaves the
\* frames of the others alone.
LEMMA OwnPush ==
    ASSUME TypeOK, NEW n, n = Depth, Chain(n), NEW d, d = dom(n), NEW p \in Nat,
           base(n) <= p, Kept(d, p), \A e \in Domain \ {d} : \A q : Kept(e, q)
    PROVE  \A k \in 1..n-1 : Kept(dom(k), End(k))
<1>0. n \in Nat \ {0}
  BY ActivationTypes DEF Chain
<1> SUFFICES ASSUME NEW k \in 1..n-1 PROVE Kept(dom(k), End(k))
  OBVIOUS
<1>1. CASE dom(k) = d
  <2>1. End(k) <= Start(n)
    BY <1>0, <1>1 DEF Chain
  <2>2. Start(n) <= base(n) /\ Start(n) \in Nat /\ base(n) \in Nat
    BY <1>0, Bounds
  <2>3. k \in 1..n
    BY <1>0
  <2>4. base(k) \in Nat /\ End(k) = IF dom(k) = Unprotected THEN base(k) + 11
                                                            ELSE base(k) + 17
    BY <2>3, Bounds
  <2>5. End(k) \in Nat /\ End(k) <= p
    BY <2>1, <2>2, <2>4
  <2> QED BY <1>1, <2>5, StubsAssumption DEF Kept, StubsAssumption
<1>2. CASE dom(k) # d
  BY <1>0, <1>2, ActivationTypes
<1> QED BY <1>1, <1>2

\* A push where a stack stands leaves the frames of all activations alone.
LEMMA OutsidePush ==
    ASSUME TypeOK, NEW n, n = Depth, Chain(n), NEW d, NEW p \in Nat,
           EndsAt(d, n, p), Kept(d, p), \A e \in Domain \ {d} : \A q : Kept(e, q)
    PROVE  \A k \in 1..n : Kept(dom(k), End(k))
<1> SUFFICES ASSUME NEW k \in 1..n PROVE Kept(dom(k), End(k))
  OBVIOUS
<1>1. CASE dom(k) = d
  <2>1. base(k) \in Nat /\ End(k) = IF dom(k) = Unprotected THEN base(k) + 11
                                                            ELSE base(k) + 17
    BY Bounds
  <2>2. End(k) \in Nat /\ End(k) <= p
    BY <1>1, <2>1, EndsBelow
  <2> QED BY <1>1, <2>2, StubsAssumption DEF Kept, StubsAssumption
<1>2. CASE dom(k) # d
  BY <1>2, ActivationTypes
<1> QED BY <1>1, <1>2

LEMMA FramesBelow ==
    ASSUME TypeOK, NEW n, n = Depth, Chain(n), NEW m \in 0..n, SameCalls(m),
           \A k \in 1..m : Complete(k) /\ Kept(dom(k), End(k))
    PROVE  \A k \in 1..m : Complete(k)'
<1> SUFFICES ASSUME NEW k \in 1..m PROVE Complete(k)'
  OBVIOUS
<1>1. n \in Nat
  BY ActivationTypes
<1>2. k \in 1..n /\ k \in Nat \ {0} /\ SameCalls(k)
  BY <1>1 DEF SameCalls
<1>3. Placed(k)
  BY <1>2, ActivationsPlaced
<1> QED BY <1>2, <1>3, CompleteKept

-----------------------------------------------------------------------------
(* The chain of activations over calls and returns.                         *)

LEMMA ChainKept ==
    ASSUME NEW n \in Nat, NEW m \in 1..n, Chain(n), SameCalls(m)
    PROVE  Chain(m)'
<1>1. \A k \in 1..m : /\ dom(k)' = dom(k) /\ base(k)' = base(k)
                      /\ Start(k)' = Start(k) /\ End(k)' = End(k)
  BY DEF SameCalls, dom, base, Start, End
<1>2. calls'[1] = [dom |-> Unprotected, entry |-> 0, base |-> 0]
  BY DEF Chain, SameCalls
<1>3. ASSUME NEW k \in 2..m
      PROVE  /\ dom(k)' # dom(k-1)' /\ Start(k)' >= 0
             /\ EndsAt(dom(k), k-1, Start(k))'
  <2>1. k \in 1..m /\ k-1 \in 1..m /\ k \in 2..n /\ k-1 \in Nat
    OBVIOUS
  <2>2. dom(k) # dom(k-1) /\ Start(k) >= 0 /\ EndsAt(dom(k), k-1, Start(k))
    BY <2>1 DEF Chain
  <2>3. SameCalls(k-1)
    BY <2>1 DEF SameCalls
  <2>4. PICK e, p : e = dom(k) /\ p = Start(k)
    OBVIOUS
  <2>5. EndsAt(e, k-1, p)'
    BY <2>1, <2>2, <2>3, <2>4, EndsKept
  <2> QED BY <1>1, <2>1, <2>2, <2>4, <2>5 DEF EndsAt
<1>4. ASSUME NEW j \in 1..m, NEW k \in 1..m, j < k, dom(j)' = dom(k)'
      PROVE  End(j)' <= Start(k)'
  <2>1. j \in 1..n /\ k \in 1..n
    OBVIOUS
  <2> QED BY <1>1, <1>4, <2>1 DEF Chain
<1> QED BY <1>2, <1>3, <1>4 DEF Chain

\* A new activation starts where its domain's stack stands.
LEMMA ChainGrows ==
    ASSUME TypeOK, NEW n, n = Depth, Chain(n), SameCalls(n),
           NEW d, NEW p \in Nat, EndsAt(d, n, p), dom(n) # d,
           dom(n+1)' = d, Start(n+1)' = p
    PROVE  Chain(n+1)'
<1>0. n \in Nat \ {0}
  BY ActivationTypes DEF Chain
<1>1. \A k \in 1..n : /\ dom(k)' = dom(k) /\ base(k)' = base(k)
                      /\ Start(k)' = Start(k) /\ End(k)' = End(k)
  BY DEF SameCalls, dom, base, Start, End
<1>2. Chain(n)'
  BY <1>0, ChainKept
<1>3. ASSUME NEW k \in 2..n+1
      PROVE  /\ dom(k)' # dom(k-1)' /\ Start(k)' >= 0
             /\ EndsAt(dom(k), k-1, Start(k))'
  <2>1. CASE k \in 2..n
    BY <1>2, <2>1 DEF Chain
  <2>2. CASE k = n+1
    <3>1. EndsAt(d, n, p)'
      BY <1>0, EndsKept
    <3>2. k-1 = n /\ dom(n)' = dom(n)
      BY <1>0, <1>1, <2>2
    <3> QED BY <2>2, <3>1, <3>2 DEF EndsAt
  <2> QED BY <1>0, <2>1, <2>2
<1>4. ASSUME NEW j \in 1..n+1, NEW k \in 1..n+1, j < k, dom(j)' = dom(k)'
      PROVE  End(j)' <= Start(k)'
  <2>1. CASE k \in 1..n
    BY <1>0, <1>2, <1>4, <2>1 DEF Chain
  <2>2. CASE k = n+1
    <3>1. j \in 1..n
      BY <1>0, <1>4, <2>2
    <3>2. dom(j) = d
      BY <1>1, <1>4, <2>2, <3>1
    <3>3. End(j) <= p
      BY <3>1, <3>2, EndsBelow
    <3> QED BY <1>1, <2>2, <3>1, <3>3
  <2> QED BY <1>0, <2>1, <2>2
<1> QED BY <1>0, <1>2, <1>3, <1>4 DEF Chain

-----------------------------------------------------------------------------
(* Saved stack pointers.                                                    *)

LEMMA PointerNext ==
    ASSUME NEW n, NEW d, NEW p, EndsAt(d, n, p)', CurrentSp(d)' = p
    PROVE  EndsAt(d, n, CurrentSp(d))'
BY DEF EndsAt

LEMMA PointersKept ==
    ASSUME NEW n \in Nat, SameCalls(n), n > 0, savedSp' = savedSp,
           SavedPointers(n), Running => Running'
    PROVE  SavedPointers(n)'
<1>1. dom(n)' = dom(n)
  BY DEF SameCalls, dom
<1>2. ASSUME NEW d \in Domain, EndsAt(d, n, CurrentSp(d))
      PROVE  EndsAt(d, n, CurrentSp(d))'
  <2>1. PICK p : p = CurrentSp(d)
    OBVIOUS
  <2>2. CurrentSp(d)' = p
    BY <2>1 DEF CurrentSp
  <2> QED BY <1>2, <2>1, <2>2, EndsKept, PointerNext
<1> QED BY <1>1, <1>2 DEF SavedPointers

-----------------------------------------------------------------------------
(* One lemma per action: it leads from a consistent state to another.       *)

LEMMA Control ==
    ASSUME NEW n, Registers(n), NEW l, NEW d, At(l, d)
    PROVE  /\ pc[1] = l /\ pc[2] = d
           /\ Running <=> l \in {"fun", "body", "tail", "exit"}
           /\ l \in {"fun", "body", "tail", "exit"} => dom(n) = d
BY DEF At, Label, Running, Registers

LEMMA ControlNext ==
    ASSUME NEW l \in Place, NEW d \in Domain, pc' = Label(l, d)
    PROVE  /\ pc'[1] = l /\ pc'[2] = d /\ pc' \in Place \X Domain
           /\ Running' <=> l \in {"fun", "body", "tail", "exit"}
BY DEF Label, Running

LEMMA Basics ==
    ASSUME TypeOK, NEW n, n = Depth, Chain(n)
    PROVE  /\ n \in Nat \ {0} /\ n \in 1..n /\ n-1 \in 0..n
           /\ StackWords \in Nat /\ r1 \in 0..StackWords
           /\ Unprotected \in Domain /\ Unprotected \notin SM
           /\ SM \subseteq Domain /\ Domain = SM \cup {Unprotected}
           /\ reg \in [Reg -> Word]
           /\ stack \in [Domain -> [1..StackWords -> Word]]
           /\ savedSp \in [Domain -> Unset..StackWords]
<1>1. n \in Nat \ {0}
  BY ActivationTypes DEF Chain
<1> QED BY <1>1, StubsAssumption, SMTT(30) DEF TypeOK, StubsAssumption, Domain

LEMMA UnchangedCalls ==
    ASSUME calls' = calls, NEW n, n = Depth
    PROVE  SameCalls(n) /\ Depth' = n
BY DEF SameCalls, Depth

\* A push by the innermost activation, beyond its base, keeps all other frames
\* and those words of its own that lie below.
LEMMA RunningPush ==
    ASSUME TypeOK, NEW n, n = Depth, Chain(n), Frames(n), SameCalls(n),
           NEW d, d = dom(n), base(n) <= r1,
           NEW ws \in Seq(Word), r1 + Len(ws) <= StackWords,
           stack' = [stack EXCEPT ![d] = Push(@, r1, ws)]
    PROVE  /\ \A k \in 1..n-1 : Complete(k)'
           /\ Pushed(d, r1, ws)
           /\ n > 1 => EntryFrame(n)'
           /\ n > 1 /\ FunFrame(n) /\ r1 >= base(n) + 8 => FunFrame(n)'
           /\ StubFrame(n) /\ r1 >= base(n) + 12 => StubFrame(n)'
<1>0. /\ n \in Nat \ {0} /\ n \in 1..n /\ n-1 \in 0..n /\ StackWords \in Nat
      /\ r1 \in Nat /\ r1 <= StackWords /\ Len(ws) \in Nat /\ d \in Domain
  BY Basics, ActivationTypes
<1>1. /\ Kept(d, r1) /\ \A e \in Domain \ {d} : \A q : Kept(e, q)
      /\ \A j \in 1..Len(ws) : r1 + j <= StackWords => stack'[d][r1+j] = ws[j]
  BY <1>0, PushKept
<1>2. Pushed(d, r1, ws)
  <2> SUFFICES ASSUME NEW j \in 1..Len(ws) PROVE stack'[d][r1+j] = ws[j]
    BY DEF Pushed
  <2>1. r1 + j <= StackWords
    BY <1>0
  <2> QED BY <1>1, <2>1
<1>3. SameCalls(n-1)
  BY <1>0 DEF SameCalls
<1>4. \A k \in 1..n-1 : Complete(k) /\ Kept(dom(k), End(k))
  BY <1>0, <1>1, OwnPush DEF Frames
<1>5. \A k \in 1..n-1 : Complete(k)'
  BY <1>0, <1>3, <1>4, FramesBelow
<1>6. Placed(n) /\ base(n) \in Nat
  BY <1>0, ActivationsPlaced DEF Placed
<1>7. \A q \in Nat : q <= r1 => Kept(d, q)
  BY <1>0, <1>1 DEF Kept
<1>8. n > 1 => EntryFrame(n)'
  BY <1>0, <1>6, <1>7, EntryFrameKept DEF Frames
<1>9. n > 1 /\ FunFrame(n) /\ r1 >= base(n) + 8 => FunFrame(n)'
  <2> SUFFICES ASSUME n > 1, FunFrame(n), r1 >= base(n) + 8 PROVE FunFrame(n)'
    OBVIOUS
  <2>1. base(n) + 8 <= StackWords /\ Kept(dom(n), base(n) + 8)
    BY <1>0, <1>6, <1>7
  <2> QED BY <1>0, <1>6, <2>1, FunFrameKept
<1>10. StubFrame(n) /\ r1 >= base(n) + 12 => StubFrame(n)'
  <2> SUFFICES ASSUME StubFrame(n), r1 >= base(n) + 12 PROVE StubFrame(n)'
    OBVIOUS
  <2> DEFINE q == base(n) + (IF dom(n) = Unprotected THEN 11 ELSE 12)
  <2>1. q \in Nat /\ q <= r1 /\ q <= StackWords
    BY <1>0, <1>6
  <2>2. Kept(dom(n), q)
    BY <1>7, <2>1
  <2> QED BY <1>0, <1>6, <2>1, <2>2, StubFrameKept
<1> QED BY <1>2, <1>5, <1>8, <1>9, <1>10

\* A step that writes no stack keeps the frames of the remaining activations.
LEMMA NoPush ==
    ASSUME TypeOK, NEW n, n = Depth, Chain(n), stack' = stack,
           NEW m \in 1..n, SameCalls(m), \A k \in 1..m-1 : Complete(k)
    PROVE  /\ \A k \in 1..m-1 : Complete(k)'
           /\ m > 1 /\ EntryFrame(m) => EntryFrame(m)'
           /\ m > 1 /\ FunFrame(m) => FunFrame(m)'
           /\ StubFrame(m) => StubFrame(m)'
           /\ ExitFrame(m) => ExitFrame(m)'
           /\ End(m)' = End(m)
<1>1. n \in Nat /\ \A d, q : Kept(d, q)
  BY Basics DEF Kept
<1>2. SameCalls(m-1)
  BY <1>1 DEF SameCalls
<1>3. \A k \in 1..m-1 : Complete(k)'
  <2>1. m-1 \in 0..n
    BY <1>1
  <2> QED BY <1>1, <1>2, <2>1, FramesBelow
<1>4. calls'[m] = calls[m] /\ (m > 1 => calls'[m-1] = calls[m-1])
  BY <1>1 DEF SameCalls
<1>5. dom(m)' = dom(m) /\ base(m)' = base(m)
  BY <1>4 DEF dom, base
<1>6. m > 1 => /\ \A r : CallerReg(m, r)' = CallerReg(m, r)
               /\ \A r : FunReg(m, r)' = FunReg(m, r)
  BY <1>1, CallerKept
<1>7. m > 1 /\ EntryFrame(m) => EntryFrame(m)'
  BY <1>5, <1>6 DEF EntryFrame
<1>8. m > 1 /\ FunFrame(m) => FunFrame(m)'
  BY <1>5, <1>6 DEF FunFrame
<1>9. (StubFrame(m) => StubFrame(m)') /\ (ExitFrame(m) => ExitFrame(m)')
  BY <1>5 DEF StubFrame, ExitFrame
<1>10. End(m)' = End(m)
  BY <1>5 DEF End
<1> QED BY <1>3, <1>7, <1>8, <1>9, <1>10

LEMMA PrologueStep ==
    ASSUME TypeOK, NEW n, n = Depth, Consistent(n), NEW d \in Domain, Prologue(d)
    PROVE  Consistent(n)' /\ Depth' = n
<1> USE DEF Consistent
<1>0. /\ n \in Nat \ {0} /\ n \in 1..n /\ n-1 \in 0..n /\ StackWords \in Nat
      /\ r1 \in Nat /\ stack \in [Domain -> [1..StackWords -> Word]]
  BY Basics
<1>1. SameCalls(n) /\ Depth' = n /\ dom(n)' = dom(n) /\ base(n)' = base(n)
  <2>1. SameCalls(n) /\ Depth' = n
    BY UnchangedCalls DEF Prologue
  <2> QED BY <1>0, <2>1 DEF SameCalls, dom, base
<1>2. pc[1] = "fun" /\ pc[2] = d /\ dom(n) = d /\ Running /\ AtFun(n)
  <2>1. pc[1] = "fun" /\ pc[2] = d /\ dom(n) = d /\ Running
    BY Control DEF Prologue
  <2> QED BY <2>1 DEF Registers
<1>3. pc'[1] = "body" /\ pc'[2] = d /\ pc' \in Place \X Domain /\ Running'
  BY ControlNext DEF Prologue, Place
<1>4. Chain(n)'
  BY <1>0, <1>1, ChainKept
<1>5. /\ \A k \in 1..n-1 : Complete(k)'
      /\ \A j \in 1..8 : stack'[d][r1+j] = reg[PrologueRegs[j]]
      /\ EntryFrame(n)'
  <2> DEFINE ws == Words(PrologueRegs)
  <2>1. ws \in Seq(Word) /\ Len(ws) = 8 /\ \A j \in 1..8 : ws[j] = reg[PrologueRegs[j]]
    <3>1. ws \in Seq(Word) /\ Len(PrologueRegs) = 8
      BY PushedNames, WordsType
    <3> QED BY <3>1 DEF Words
  <2>2. stack' = [stack EXCEPT ![d] = Push(@, r1, ws)] /\ r1 + 8 <= StackWords
    BY DEF Prologue, Room
  <2>3. n > 1 /\ base(n) <= r1
    BY <1>0, <1>2 DEF AtFun
  <2>4. PICK w \in Seq(Word) : w = ws
    BY <2>1
  <2>5. /\ \A k \in 1..n-1 : Complete(k)'
        /\ Pushed(d, r1, w) /\ EntryFrame(n)'
    <3>1. r1 + Len(w) <= StackWords /\ stack' = [stack EXCEPT ![d] = Push(@, r1, w)]
      BY <2>1, <2>2, <2>4
    <3>2. Chain(n) /\ Frames(n) /\ SameCalls(n) /\ d = dom(n)
      BY <1>1, <1>2
    <3> HIDE DEF Consistent, ws
    <3> QED BY <2>3, <3>1, <3>2, RunningPush
  <2> HIDE DEF ws
  <2> QED BY <2>1, <2>4, <2>5 DEF Pushed
<1>6. Frames(n)'
  <2>1. FunFrame(n)'
    <3>1. /\ stack'[d][r1+1] = FunReg(n, "r4") /\ stack'[d][r1+2] = FunReg(n, "r5")
          /\ stack'[d][r1+3] = FunReg(n, "r6") /\ stack'[d][r1+4] = FunReg(n, "r7")
          /\ stack'[d][r1+5] = FunReg(n, "r8") /\ stack'[d][r1+6] = FunReg(n, "r9")
          /\ stack'[d][r1+7] = FunReg(n, "r10") /\ stack'[d][r1+8] = FunReg(n, "r11")
      BY <1>2, <1>5 DEF PrologueRegs, AtFun, Saved
    <3>2. \A r : FunReg(n, r)' = FunReg(n, r)
      BY <1>0, <1>1, <1>2, CallerKept DEF AtFun
    <3> QED BY <1>1, <1>2, <3>1, <3>2 DEF FunFrame, AtFun
  <2> QED BY <1>3, <1>5, <2>1 DEF Frames
<1>7. SavedPointers(n)'
  BY <1>0, <1>1, <1>3, PointersKept DEF Prologue
<1>8. Registers(n)'
  <2>1. AtBody(n)'
    <3>1. r1' = base(n)' + 8
      BY <1>1, <1>2 DEF Prologue, AtFun
    <3>2. \A r \in Saved : reg'[r] = Data(d, n, r)
      BY RegNames DEF Prologue, Fresh
    <3> QED BY <1>3, <3>1, <3>2 DEF AtBody
  <2> QED BY <1>1, <1>2, <1>3, <2>1 DEF Registers
<1>9. NoCallBack(n)'
  BY <1>1, <1>2, <1>3 DEF NoCallBack, Prologue, SameCalls, dom, base
<1> QED BY <1>1, <1>4, <1>6, <1>7, <1>8, <1>9

LEMMA EpilogueStep ==
    ASSUME TypeOK, NEW n, n = Depth, Consistent(n), NEW d \in Domain, Epilogue(d)
    PROVE  Consistent(n)' /\ Depth' = n /\ pc' = Label("tail", d)
<1> USE DEF Consistent
<1>0. n \in Nat \ {0} /\ n \in 1..n /\ r1 \in Nat /\ base(n) \in Nat
  BY Basics, Bounds
<1>1. SameCalls(n) /\ Depth' = n /\ dom(n)' = dom(n) /\ base(n)' = base(n)
  <2>1. SameCalls(n) /\ Depth' = n
    BY UnchangedCalls DEF Epilogue
  <2> QED BY <1>0, <2>1 DEF SameCalls, dom, base
<1>2. /\ pc[1] = "body" /\ pc[2] = d /\ dom(n) = d /\ Running /\ n > 1
      /\ r1 = base(n) + 8
  <2>1. pc[1] = "body" /\ pc[2] = d /\ dom(n) = d /\ Running
    BY Control DEF Epilogue
  <2> QED BY <2>1 DEF Registers, AtBody, Epilogue
<1>3. EntryFrame(n) /\ FunFrame(n)
  BY <1>2 DEF Frames
<1>4. pc' = Label("tail", d)
  BY <1>0, <1>2, <1>3 DEF Epilogue, EntryFrame
<1>5. pc'[1] = "tail" /\ pc'[2] = d /\ pc' \in Place \X Domain /\ Running'
  BY <1>4, ControlNext DEF Place
<1>6. Chain(n)'
  BY <1>0, <1>1, ChainKept
<1>7. Frames(n)'
  <2>1. (\A k \in 1..n-1 : Complete(k)') /\ EntryFrame(n)'
    BY <1>0, <1>1, <1>2, <1>3, NoPush DEF Frames, Epilogue
  <2> QED BY <1>5, <2>1 DEF Frames
<1>8. SavedPointers(n)'
  BY <1>0, <1>1, <1>5, PointersKept DEF Epilogue
<1>9. AtTail(n)'
  <2>1. r1' = base(n)' - 1
    BY <1>0, <1>1, <1>2 DEF Epilogue
  <2>2. \A r \in Saved : reg'[r] = Popped(stack[d], r1, EpiloguePops)[r]
    BY RegNames DEF Epilogue, Fresh, Reg, Saved, Arg
  <2>3. \A r \in Saved : reg'[r] = stack[d][r1 - EpiloguePops[r]]
    BY <2>2 DEF Popped, EpiloguePops, Saved, Reg
  <2>4. \A r \in Saved : stack[d][r1 - EpiloguePops[r]] = FunReg(n, r)
    BY <1>0, <1>2, <1>3 DEF EpiloguePops, Saved, FunFrame
  <2>5. \A r : FunReg(n, r)' = FunReg(n, r)
    BY <1>0, <1>1, <1>2, CallerKept
  <2> QED BY <1>2, <2>1, <2>3, <2>4, <2>5 DEF AtTail
<1>10. Registers(n)'
  BY <1>1, <1>2, <1>5, <1>9 DEF Registers
<1>11. NoCallBack(n)'
  BY <1>1, <1>2, <1>5 DEF NoCallBack, Epilogue, SameCalls, dom, base
<1> QED BY <1>1, <1>4, <1>6, <1>7, <1>8, <1>10, <1>11

LEMMA CallStubStep ==
    ASSUME TypeOK, NEW n, n = Depth, Consistent(n), ResavesSp \/ ~CallsBack,
           NEW m \in SM, NEW i \in 0..NEntries, CallStub(m, i)
    PROVE  Consistent(n)' /\ Depth' = n
<1> USE DEF Consistent
<1>0. /\ n \in Nat \ {0} /\ n \in 1..n /\ r1 \in Nat /\ base(n) \in Nat
      /\ Unprotected \in Domain /\ m \in Domain /\ m # Unprotected
      /\ savedSp \in [Domain -> Unset..StackWords] /\ StackWords \in Nat
      /\ reg \in [Reg -> Word]
  BY Basics, Bounds, SMTT(30)
<1>1. SameCalls(n) /\ Depth' = n /\ dom(n)' = dom(n) /\ base(n)' = base(n)
  <2>1. SameCalls(n) /\ Depth' = n
    BY UnchangedCalls DEF CallStub
  <2> QED BY <1>0, <2>1 DEF SameCalls, dom, base
<1>2. /\ pc[1] = "body" /\ pc[2] = Unprotected /\ dom(n) = Unprotected /\ Running
      /\ r1 = base(n) + 8
      /\ \A r \in Saved : reg[r] = Data(Unprotected, n, r)
  <2>1. pc[1] = "body" /\ pc[2] = Unprotected /\ dom(n) = Unprotected /\ Running
    BY Control DEF CallStub
  <2> QED BY <2>1 DEF Registers, AtBody
<1>3. pc'[1] = "entry" /\ pc'[2] = m /\ pc' \in Place \X Domain /\ ~Running'
  BY <1>0, ControlNext DEF Place, CallStub
<1>4. Chain(n)'
  BY <1>0, <1>1, ChainKept
<1>5. PICK w \in Seq(Word) : w = <<pc, reg["r6"], reg["r7"]>>
  <2>1. pc \in Word /\ reg["r6"] \in Word /\ reg["r7"] \in Word
    BY RegNames DEF TypeOK
  <2>2. <<pc, reg["r6"], reg["r7"]>> \in Seq(Word)
    BY <2>1
  <2> QED BY <2>2
<1>6. /\ Len(w) = 3 /\ r1 + 3 <= StackWords
      /\ stack' = [stack EXCEPT ![Unprotected] = Push(@, r1, w)]
  BY <1>5 DEF CallStub, Room
<1>7. /\ \A k \in 1..n-1 : Complete(k)'
      /\ Pushed(Unprotected, r1, w)
      /\ n > 1 => EntryFrame(n)' /\ FunFrame(n)'
  <2>1. n > 1 => FunFrame(n)
    BY <1>2 DEF Frames
  <2>2. /\ r1 + Len(w) <= StackWords /\ base(n) <= r1 /\ r1 >= base(n) + 8
        /\ Chain(n) /\ Frames(n) /\ SameCalls(n) /\ Unprotected = dom(n)
    BY <1>0, <1>1, <1>2, <1>6, SMTT(30)
  <2> HIDE DEF Consistent
  <2> QED BY <1>6, <2>1, <2>2, RunningPush
<1>8. Frames(n)'
  <2>1. /\ stack'[Unprotected][r1+1] = Label("body", Unprotected)
        /\ stack'[Unprotected][r1+2] = Data(Unprotected, n, "r6")
        /\ stack'[Unprotected][r1+3] = Data(Unprotected, n, "r7")
    <3>1. \A j \in 1..3 : stack'[Unprotected][r1+j] = w[j]
      BY <1>6, <1>7 DEF Pushed
    <3> QED BY <1>2, <1>5, <3>1 DEF Saved, CallStub, At
  <2>2. StubFrame(n)' /\ ExitFrame(n)'
    <3>1. /\ r1 + 1 = base(n) + 9 /\ r1 + 2 = base(n) + 10
          /\ r1 + 3 = base(n) + 11
      BY <1>0, <1>2, SMTT(30)
    <3> QED BY <1>1, <1>2, <2>1, <3>1 DEF StubFrame, ExitFrame
  <2>3. End(n)' <= StackWords
    BY <1>0, <1>1, <1>2, <1>6, SMTT(30) DEF End
  <2> QED BY <1>7, <2>2, <2>3 DEF Frames
<1>9. SavedPointers(n)'
  <2>1. CurrentSp(Unprotected)' = End(n)
    BY <1>0, <1>2, SMTT(30) DEF CallStub, CurrentSp, Unset, End
  <2>2. EndsAt(Unprotected, n, CurrentSp(Unprotected))'
    <3>1. PICK p : p = End(n)
      OBVIOUS
    <3>2. EndsAt(Unprotected, n, p)
      BY <1>0, <1>2, <3>1, EndsOwn
    <3>3. CurrentSp(Unprotected)' = p
      BY <2>1, <3>1
    <3> QED BY <1>0, <1>1, <3>2, <3>3, EndsKept, PointerNext
  <2>3. ASSUME NEW e \in Domain \ {Unprotected} PROVE EndsAt(e, n, CurrentSp(e))'
    <3>1. PICK p : p = CurrentSp(e)
      OBVIOUS
    <3>2. EndsAt(e, n, p) /\ CurrentSp(e)' = p
      BY <1>0, <1>2, <3>1 DEF SavedPointers, CallStub, CurrentSp
    <3> QED BY <1>0, <1>1, <3>2, EndsKept, PointerNext
  <2> QED BY <2>2, <2>3 DEF SavedPointers
<1>10. AtCall(n)'
  <2>1. Target(m)'
    BY <1>0, RegNames DEF Target, CallStub, Fresh
  <2>2. \A r \in Saved \ {"r6"} : reg'[r] = Given(Unprotected, n, m, r)
    BY <1>0, <1>2 DEF CallStub, Fresh, Given, Saved, Arg, Reg
  <2>3. \A r : Given(dom(n), n, pc[2], r)' = Given(Unprotected, n, m, r)
    BY <1>1, <1>2, <1>3 DEF Given
  <2> QED BY <1>0, <1>1, <1>2, <1>3, <2>1, <2>2, <2>3 DEF AtCall, Target
<1>11. Registers(n)'
  BY <1>1, <1>3, <1>10 DEF Registers
<1>12. NoCallBack(n)'
  BY <1>0, <1>3 DEF NoCallBack, CallStub
<1> QED BY <1>1, <1>4, <1>8, <1>9, <1>11, <1>12

\* The saved stack pointer of the domain of the innermost activation, while
\* that activation waits, points to its end.
LEMMA TopPointer ==
    ASSUME TypeOK, NEW n, n = Depth, Consistent(n), ~Running,
           NEW d \in Domain, dom(n) = d
    PROVE  /\ Complete(n) /\ EndsAt(d, n, CurrentSp(d))
           /\ CurrentSp(d) = End(n) /\ savedSp[d] = End(n)
<1>0. n \in Nat \ {0} /\ n \in 1..n
  BY Basics DEF Consistent
<1>1. EndsAt(d, n, CurrentSp(d))
  BY DEF Consistent, SavedPointers
<1>2. CurrentSp(d) = End(n)
  BY <1>0, <1>1, EndsTop
<1>3. End(n) # 0
  <2>1. base(n) \in Nat
    BY <1>0, Bounds DEF Consistent
  <2> QED BY <2>1 DEF End
<1>4. savedSp[d] = End(n)
  BY <1>2, <1>3 DEF CurrentSp
<1>5. Complete(n)
  BY <1>0 DEF Consistent, Frames, Complete, Running
<1> QED BY <1>1, <1>2, <1>4, <1>5

LEMMA CallStubReturnStep ==
    ASSUME TypeOK, NEW n, n = Depth, Consistent(n), CallStubReturn
    PROVE  Consistent(n)' /\ Depth' = n /\ pc' = Label("body", Unprotected)
<1> USE DEF Consistent
<1>0. n \in Nat \ {0} /\ n \in 1..n /\ Unprotected \in Domain /\ base(n) \in Nat
  BY Basics, Bounds
<1>1. SameCalls(n) /\ Depth' = n /\ dom(n)' = dom(n) /\ base(n)' = base(n)
  <2>1. SameCalls(n) /\ Depth' = n
    BY UnchangedCalls DEF CallStubReturn
  <2> QED BY <1>0, <2>1 DEF SameCalls, dom, base
<1>2. /\ pc[1] = "cont" /\ pc[2] = Unprotected /\ ~Running
      /\ dom(n) = Unprotected /\ AtCont(n)
  <2>1. pc[1] = "cont" /\ pc[2] = Unprotected /\ ~Running
    BY Control DEF CallStubReturn
  <2> QED BY <2>1 DEF Registers, AtCont
<1>3. Complete(n) /\ savedSp[Unprotected] = base(n) + 11
  BY <1>0, <1>2, TopPointer DEF End
<1>4. /\ stack[Unprotected][base(n)+9] = Label("body", Unprotected)
      /\ stack[Unprotected][base(n)+10] = Data(Unprotected, n, "r6")
      /\ stack[Unprotected][base(n)+11] = Data(Unprotected, n, "r7")
  BY <1>2, <1>3 DEF Complete, StubFrame
<1>5. pc' = Label("body", Unprotected) /\ r1' = base(n) + 8
  BY <1>0, <1>3, <1>4 DEF CallStubReturn
<1>6. /\ pc'[1] = "body" /\ pc'[2] = Unprotected /\ pc' \in Place \X Domain
      /\ Running'
  BY <1>0, <1>5, ControlNext DEF Place
<1>7. Chain(n)'
  BY <1>0, <1>1, ChainKept
<1>8. Frames(n)'
  <2>1. /\ \A k \in 1..n-1 : Complete(k)'
        /\ n > 1 => EntryFrame(n)' /\ FunFrame(n)'
    BY <1>0, <1>1, <1>3, NoPush DEF Frames, CallStubReturn, Complete
  <2> QED BY <1>6, <2>1 DEF Frames
<1>9. SavedPointers(n)'
  BY <1>0, <1>1, <1>6, PointersKept DEF CallStubReturn
<1>10. AtBody(n)'
  <2>1. /\ reg'["r7"] = Data(Unprotected, n, "r7")
        /\ reg'["r6"] = Data(Unprotected, n, "r6")
    <3> DEFINE pops == [r7 |-> 0, r6 |-> 1]
    <3>1. reg' = Popped(stack[Unprotected], base(n) + 11, pops)
      BY <1>3 DEF CallStubReturn
    <3>2. \A r \in {"r6", "r7"} :
             reg'[r] = stack[Unprotected][base(n) + 11 - pops[r]]
      BY <1>0, <3>1, RegNames DEF Popped
    <3>3. /\ base(n) + 11 - pops["r7"] = base(n) + 11
          /\ base(n) + 11 - pops["r6"] = base(n) + 10
      BY <1>0
    <3> QED BY <1>4, <3>2, <3>3
  <2>2. \A r \in Saved \ {"r6", "r7"} : reg'[r] = reg[r]
    BY RegNames DEF CallStubReturn, Popped
  <2>3. \A r \in Saved : reg'[r] = Data(Unprotected, n, r)
    BY <1>2, <2>1, <2>2 DEF AtCont
  <2> QED BY <1>1, <1>5, <1>6, <2>3 DEF AtBody
<1>11. Registers(n)'
  BY <1>1, <1>2, <1>6, <1>10 DEF Registers
<1>12. NoCallBack(n)'
  <2> SUFFICES ASSUME ~ResavesSp PROVE NoCallBack(n)'
    BY DEF NoCallBack
  <2>1. n = 1
    BY <1>0, <1>2 DEF NoCallBack
  <2> QED BY <2>1 DEF NoCallBack
<1> QED BY <1>1, <1>5, <1>7, <1>8, <1>9, <1>11, <1>12

LEMMA OutcallStubStep ==
    ASSUME TypeOK, NEW n, n = Depth, Consistent(n),
           NEW m \in SM, NEW t \in Domain \ {m}, NEW i \in 0..NEntries-1,
           NEW a \in 0..4, OutcallStub(m, t, i, a)
    PROVE  Consistent(n)' /\ Depth' = n
<1> USE DEF Consistent
<1>0. /\ n \in Nat \ {0} /\ n \in 1..n /\ r1 \in Nat /\ base(n) \in Nat
      /\ m \in Domain /\ m # Unprotected /\ StackWords \in Nat
      /\ reg \in [Reg -> Word]
  BY Basics, Bounds, SMTT(30)
<1>1. SameCalls(n) /\ Depth' = n /\ dom(n)' = dom(n) /\ base(n)' = base(n)
  <2>1. SameCalls(n) /\ Depth' = n
    BY UnchangedCalls DEF OutcallStub
  <2> QED BY <1>0, <2>1 DEF SameCalls, dom, base
<1>2. /\ pc[1] = "body" /\ pc[2] = m /\ dom(n) = m /\ Running
      /\ r1 = base(n) + 8
      /\ \A r \in Saved : reg[r] = Data(m, n, r)
  <2>1. pc[1] = "body" /\ pc[2] = m /\ dom(n) = m /\ Running
    BY Control DEF OutcallStub
  <2> QED BY <2>1 DEF Registers, AtBody
<1>3. pc'[1] = "exit" /\ pc'[2] = m /\ pc' \in Place \X Domain /\ Running'
  BY <1>0, ControlNext DEF Place, OutcallStub
<1>4. Chain(n)'
  BY <1>0, <1>1, ChainKept
<1>5. PICK w \in Seq(Word) : w = <<pc, reg["r6"], reg["r7"], reg["r8"]>>
  <2>1. pc \in Word /\ reg["r6"] \in Word /\ reg["r7"] \in Word /\ reg["r8"] \in Word
    BY RegNames DEF TypeOK
  <2>2. <<pc, reg["r6"], reg["r7"], reg["r8"]>> \in Seq(Word)
    BY <2>1
  <2> QED BY <2>2
<1>6. /\ Len(w) = 4 /\ r1 + 4 <= StackWords
      /\ stack' = [stack EXCEPT ![m] = Push(@, r1, w)]
  BY <1>5 DEF OutcallStub, Room
<1>7. /\ \A k \in 1..n-1 : Complete(k)'
      /\ Pushed(m, r1, w)
      /\ n > 1 => EntryFrame(n)' /\ FunFrame(n)'
  <2>1. n > 1 => FunFrame(n)
    BY <1>2 DEF Frames
  <2>2. /\ r1 + Len(w) <= StackWords /\ base(n) <= r1 /\ r1 >= base(n) + 8
        /\ Chain(n) /\ Frames(n) /\ SameCalls(n) /\ m = dom(n)
    BY <1>0, <1>1, <1>2, <1>6, SMTT(30)
  <2> HIDE DEF Consistent
  <2> QED BY <1>6, <2>1, <2>2, RunningPush
<1>8. Frames(n)'
  <2>1. /\ stack'[m][r1+1] = Label("body", m)
        /\ stack'[m][r1+2] = Data(m, n, "r6")
        /\ stack'[m][r1+3] = Data(m, n, "r7")
        /\ stack'[m][r1+4] = Data(m, n, "r8")
    <3>1. \A j \in 1..4 : stack'[m][r1+j] = w[j]
      BY <1>6, <1>7 DEF Pushed
    <3> QED BY <1>2, <1>5, <3>1 DEF Saved, OutcallStub, At
  <2>2. StubFrame(n)'
    <3>1. /\ r1 + 1 = base(n) + 9 /\ r1 + 2 = base(n) + 10
          /\ r1 + 3 = base(n) + 11 /\ r1 + 4 = base(n) + 12
      BY <1>0, <1>2, SMTT(30)
    <3> QED BY <1>1, <1>2, <2>1, <3>1 DEF StubFrame
  <2> QED BY <1>3, <1>7, <2>2 DEF Frames
<1>9. SavedPointers(n)'
  BY <1>0, <1>1, <1>3, PointersKept DEF OutcallStub
<1>10. AtExit(n)'
  <2>1. r1' = base(n)' + 12
    BY <1>0, <1>1, <1>2 DEF OutcallStub
  <2>2. \A r \in ExitClearsSaved : reg'[r] = Data(m, n, r)
    <3>1. \A r \in ExitClearsSaved : reg'[r] = reg[r] /\ r \in Saved
      BY <1>0 DEF OutcallStub, Fresh, ExitClearsSaved, Saved, Arg, Reg
    <3> QED BY <1>2, <3>1
  <2>3. reg'["r8"] = Label("entry", t)
    BY <1>0, RegNames DEF OutcallStub, Fresh
  <2>4. Target(t)'
    <3>1. reg'["r6"] = IF t = Unprotected THEN Label("fun", t) ELSE Num(i)
      BY <1>0, RegNames DEF OutcallStub, Fresh
    <3>2. i \in 0..NEntries
      BY StubsAssumption DEF StubsAssumption
    <3> QED BY <3>1, <3>2 DEF Target
  <2> QED BY <1>0, <1>3, <2>1, <2>2, <2>3, <2>4 DEF AtExit
<1>11. Registers(n)'
  BY <1>1, <1>2, <1>3, <1>10 DEF Registers
<1>12. NoCallBack(n)'
  BY <1>0, <1>1, <1>2, <1>3 DEF NoCallBack, OutcallStub, SameCalls, dom, base
<1> QED BY <1>1, <1>4, <1>8, <1>9, <1>11, <1>12

\* A call pushes where the stack of the called domain stands.
LEMMA OutsidePushed ==
    ASSUME TypeOK, NEW n, n = Depth, Chain(n), Frames(n), ~Running, SameCalls(n),
           NEW d \in Domain, NEW p \in Nat, EndsAt(d, n, p),
           NEW ws \in Seq(Word), p + Len(ws) <= StackWords,
           stack' = [stack EXCEPT ![d] = Push(@, p, ws)]
    PROVE  (\A k \in 1..n : Complete(k)') /\ Pushed(d, p, ws)
<1>0. n \in Nat \ {0} /\ n \in 1..n /\ n \in 0..n /\ StackWords \in Nat
  BY Basics
<1>1. /\ Kept(d, p) /\ \A e \in Domain \ {d} : \A q : Kept(e, q)
      /\ \A j \in 1..Len(ws) : p + j <= StackWords => stack'[d][p+j] = ws[j]
  BY PushKept
<1>2. Pushed(d, p, ws)
  <2> SUFFICES ASSUME NEW j \in 1..Len(ws) PROVE stack'[d][p+j] = ws[j]
    BY DEF Pushed
  <2>1. p + j <= StackWords
    BY <1>0
  <2> QED BY <1>1, <2>1
<1>3. \A k \in 1..n : Kept(dom(k), End(k))
  BY <1>1, OutsidePush
<1>4. Complete(n)
  BY <1>0 DEF Frames, Complete, Running
<1>5. \A k \in 1..n : Complete(k)
  BY <1>0, <1>4 DEF Frames
<1>6. \A k \in 1..n : Complete(k)'
  BY <1>0, <1>3, <1>5, FramesBelow
<1> QED BY <1>2, <1>6

LEMMA PointersGrow ==
    ASSUME NEW n \in Nat, SameCalls(n), ~Running, Running', savedSp' = savedSp,
           SavedPointers(n), NEW d, dom(n+1)' = d
    PROVE  SavedPointers(n+1)'
<1> SUFFICES ASSUME NEW e \in Domain \ {d} PROVE EndsAt(e, n+1, CurrentSp(e))'
  BY DEF SavedPointers
<1>1. PICK p : p = CurrentSp(e)
  OBVIOUS
<1>2. EndsAt(e, n, p) /\ CurrentSp(e)' = p
  BY <1>1 DEF SavedPointers, CurrentSp
<1>3. EndsAt(e, n+1, p)'
  BY <1>2, EndsGrow
<1> QED BY <1>2, <1>3, PointerNext

LEMMA NewCall ==
    ASSUME TypeOK, NEW n, n = Depth, NEW a, calls' = Append(calls, a)
    PROVE  SameCalls(n) /\ Depth' = n + 1 /\ calls'[n+1] = a
<1>1. calls \in Seq(Activation)
  BY DEF TypeOK
<1> QED BY <1>1 DEF SameCalls, Depth

LEMMA IndexIsNoRET == \A i \in 0..NEntries : Num(i) # RET
<1> SUFFICES ASSUME NEW i \in 0..NEntries PROVE Num(i) # RET
  OBVIOUS
<1>1. i # MaxWord
  BY IndexType
<1> QED BY <1>1 DEF Num, RET

LEMMA EntryCallStep ==
    ASSUME TypeOK, NEW n, n = Depth, Consistent(n),
           NEW m \in SM, NEW i \in 0..NEntries-1, EntryCall(m, i)
    PROVE  Consistent(n+1)' /\ Depth' = n+1
<1> USE DEF Consistent
<1>0. /\ n \in Nat \ {0} /\ n \in 1..n /\ base(n) \in Nat
      /\ m \in Domain /\ m # Unprotected /\ StackWords \in Nat
      /\ reg \in [Reg -> Word]
  BY Basics, Bounds
<1>1. PICK p \in 0..StackWords : p = CurrentSp(m)
  BY <1>0, SpType
<1>2. /\ SameCalls(n) /\ Depth' = n+1
      /\ dom(n+1)' = m /\ base(n+1)' = p+7 /\ calls'[n+1].entry = i
  <2>1. PICK a : a = [dom |-> m, entry |-> i, base |-> p+7]
    OBVIOUS
  <2>2. calls' = Append(calls, a)
    BY <1>1, <2>1 DEF EntryCall
  <2>3. SameCalls(n) /\ Depth' = n + 1 /\ calls'[n+1] = a
    BY <2>2, NewCall
  <2> QED BY <2>1, <2>3 DEF dom, base
<1>3. pc[1] = "entry" /\ pc[2] = m /\ ~Running
  BY Control DEF EntryCall
<1>4. AtCall(n) /\ dom(n) # m
  <2>1. reg["r6"] # RET
    <3>1. i \in 0..NEntries /\ reg["r6"] = Num(i)
      BY StubsAssumption DEF EntryCall, StubsAssumption
    <3> QED BY <3>1, IndexIsNoRET
  <2> QED BY <1>3, <2>1 DEF Registers, AtReturn, AtCall
<1>5. EndsAt(m, n, p)
  BY <1>0, <1>1, <1>3 DEF SavedPointers
<1>6. pc'[1] = "fun" /\ pc'[2] = m /\ pc' \in Place \X Domain /\ Running'
  BY <1>0, ControlNext DEF Place, EntryCall
<1>7. Chain(n+1)'
  <2>1. Start(n+1)' = p
    BY <1>0, <1>2 DEF Start
  <2> QED BY <1>2, <1>4, <1>5, <2>1, ChainGrows
<1>8. PICK v \in Seq(Word) : /\ v = Words(EntryRegs) /\ Len(v) = 6
                             /\ \A j \in 1..6 : v[j] = reg[EntryRegs[j]]
  <2>1. Words(EntryRegs) \in Seq(Word)
    BY PushedNames, WordsType
  <2>2. Len(Words(EntryRegs)) = 6
    BY PushedNames DEF Words
  <2>3. \A j \in 1..6 : Words(EntryRegs)[j] = reg[EntryRegs[j]]
    BY PushedNames DEF Words
  <2> QED BY <2>1, <2>2, <2>3
<1>9. PICK w \in Seq(Word) : /\ w = Append(v, Label("tail", m)) /\ Len(w) = 7
                             /\ w[7] = Label("tail", m)
                             /\ \A j \in 1..6 : w[j] = reg[EntryRegs[j]]
  <2>1. PICK x \in Word : x = Label("tail", m)
    BY <1>0, WordTypes DEF Place
  <2>2. /\ Append(v, x) \in Seq(Word) /\ Len(Append(v, x)) = 7
        /\ Append(v, x)[7] = x /\ \A j \in 1..6 : Append(v, x)[j] = v[j]
    <3>1. /\ Append(v, x) \in Seq(Word) /\ Len(Append(v, x)) = Len(v) + 1
          /\ \A j \in 1..Len(v) : Append(v, x)[j] = v[j]
          /\ Append(v, x)[Len(v)+1] = x
      BY AppendProperties
    <3>2. Len(v) = 6
      BY <1>8
    <3> QED BY <3>1, <3>2
  <2> QED BY <1>8, <2>1, <2>2
<1>10. (\A k \in 1..n : Complete(k)') /\ Pushed(m, p, w)
  <2>1. p + Len(w) <= StackWords /\ p \in Nat
    BY <1>1, <1>9 DEF EntryCall, Room
  <2>2. stack' = [stack EXCEPT ![m] = Push(@, p, w)]
    BY <1>1, <1>8, <1>9 DEF EntryCall
  <2>3. Chain(n) /\ Frames(n) /\ m \in Domain
    BY <1>0
  <2> HIDE DEF Consistent
  <2> QED BY <1>2, <1>3, <1>5, <2>1, <2>2, <2>3, OutsidePushed
<1>11. /\ \A r : CallerReg(n+1, r)' = Given(dom(n), n, m, r)
       /\ \A r : FunReg(n+1, r)' =
                   IF r = "r6" THEN Num(6 * i)
                   ELSE IF r = "r11" THEN Label("fun", m)
                   ELSE Given(dom(n), n, m, r)
  <2>1. dom(n)' = dom(n) /\ (n+1)-1 = n
    BY <1>0, <1>2, SMTT(30) DEF SameCalls, dom
  <2> QED BY <1>0, <1>2, <2>1 DEF CallerReg, FunReg, Given
<1>12. EntryFrame(n+1)'
  <2>1. /\ stack'[m][p+1] = reg["r4"] /\ stack'[m][p+2] = reg["r5"]
        /\ stack'[m][p+3] = reg["r8"] /\ stack'[m][p+4] = reg["r9"]
        /\ stack'[m][p+5] = reg["r10"] /\ stack'[m][p+6] = reg["r11"]
        /\ stack'[m][p+7] = Label("tail", m)
    <3>1. \A j \in 1..7 : stack'[m][p+j] = w[j]
      BY <1>9, <1>10 DEF Pushed
    <3>2. ASSUME NEW j \in 1..6 PROVE stack'[m][p+j] = reg[EntryRegs[j]]
      <4>1. w[j] = reg[EntryRegs[j]]
        BY <1>9
      <4>2. j \in 1..7
        OBVIOUS
      <4>3. stack'[m][p+j] = w[j]
        BY <3>1, <4>2, Zenon
      <4> QED BY <4>1, <4>3
    <3>3. stack'[m][p+7] = Label("tail", m)
      BY <1>9, <3>1, SMTT(30)
    <3> QED BY <1>1, <3>2, <3>3 DEF EntryRegs
  <2>2. \A r \in Saved \ {"r6"} : reg[r] = CallerReg(n+1, r)'
    BY <1>3, <1>4, <1>11 DEF AtCall
  <2>3. /\ (p+7)-6 = p+1 /\ (p+7)-5 = p+2 /\ (p+7)-4 = p+3
        /\ (p+7)-3 = p+4 /\ (p+7)-2 = p+5 /\ (p+7)-1 = p+6
    BY <1>1, SMTT(30)
  <2> QED BY <1>2, <2>1, <2>2, <2>3 DEF EntryFrame, Saved
<1>13. Frames(n+1)'
  BY <1>0, <1>6, <1>10, <1>12 DEF Frames
<1>14. SavedPointers(n+1)'
  BY <1>0, <1>2, <1>3, <1>6, PointersGrow DEF EntryCall
<1>15. AtFun(n+1)'
  <2>1. r1' = p+7
    BY <1>1 DEF EntryCall
  <2>2. /\ reg'["r6"] = Num(6 * i) /\ reg'["r11"] = Label("fun", m)
        /\ \A r \in Saved \ {"r6", "r11"} : reg'[r] = reg[r]
    BY <1>0, RegNames DEF EntryCall, Saved
  <2>3. \A r \in Saved \ {"r6", "r11"} : reg[r] = Given(dom(n), n, m, r)
    BY <1>3, <1>4 DEF AtCall
  <2>4. \A r \in Saved : reg'[r] = FunReg(n+1, r)'
    BY <1>11, <2>2, <2>3
  <2> QED BY <1>0, <1>2, <2>1, <2>4 DEF AtFun
<1>16. Registers(n+1)'
  BY <1>2, <1>6, <1>15 DEF Registers
<1>17. NoCallBack(n+1)'
  <2> SUFFICES ASSUME ~ResavesSp PROVE NoCallBack(n+1)'
    BY DEF NoCallBack
  <2>1. \A k \in 2..n : dom(k)' # Unprotected
    BY <1>2, <1>3 DEF NoCallBack, SameCalls, dom
  <2>2. \A k \in 2..n+1 : k \in 2..n \/ k = n+1
    BY <1>0
  <2> QED BY <1>0, <1>2, <2>1, <2>2 DEF NoCallBack
<1> QED BY <1>2, <1>7, <1>13, <1>14, <1>16, <1>17

LEMMA EntryErrorStep ==
    ASSUME TypeOK, NEW n, n = Depth, Consistent(n), NEW m \in SM, EntryError(m)
    PROVE  Consistent(n)' /\ Depth' = n
<1> USE DEF Consistent
<1>0. n \in Nat \ {0} /\ n \in 1..n /\ m \in Domain /\ m # Unprotected
  BY Basics
<1>1. SameCalls(n) /\ Depth' = n /\ dom(n)' = dom(n)
  <2>1. SameCalls(n) /\ Depth' = n
    BY UnchangedCalls DEF EntryError
  <2> QED BY <1>0, <2>1 DEF SameCalls, dom
<1>2. pc[1] = "entry" /\ pc[2] = m /\ ~Running
  BY Control DEF EntryError
<1>3. pc'[1] = "stop" /\ pc'[2] = m /\ pc' \in Place \X Domain /\ ~Running'
  BY <1>0, ControlNext DEF Place, EntryError
<1>4. Chain(n)'
  BY <1>0, <1>1, ChainKept
<1>5. Frames(n)'
  <2>1. /\ n > 1 => EntryFrame(n) /\ FunFrame(n)
        /\ StubFrame(n) /\ ExitFrame(n) /\ End(n) <= StackWords
    BY <1>2 DEF Frames
  <2>2. /\ \A k \in 1..n-1 : Complete(k)'
        /\ n > 1 => EntryFrame(n)' /\ FunFrame(n)'
        /\ StubFrame(n)' /\ ExitFrame(n)' /\ End(n)' <= StackWords
    BY <1>0, <1>1, <2>1, NoPush DEF Frames, EntryError
  <2> QED BY <2>2 DEF Frames
<1>6. SavedPointers(n)'
  BY <1>0, <1>1, <1>2, PointersKept DEF EntryError
<1>7. Registers(n)'
  BY <1>0, <1>3 DEF Registers
<1>8. NoCallBack(n)'
  BY <1>1, <1>2, <1>3 DEF NoCallBack, SameCalls, dom
<1> QED BY <1>1, <1>4, <1>5, <1>6, <1>7, <1>8

LEMMA EntryReturnStep ==
    ASSUME TypeOK, NEW n, n = Depth, Consistent(n), NEW m \in SM, EntryReturn(m)
    PROVE  Consistent(n)' /\ Depth' = n /\ pc' = Label("body", m)
<1> USE DEF Consistent
<1>0. /\ n \in Nat \ {0} /\ n \in 1..n /\ m \in Domain /\ m # Unprotected
      /\ base(n) \in Nat
  BY Basics, Bounds
<1>1. SameCalls(n) /\ Depth' = n /\ dom(n)' = dom(n) /\ base(n)' = base(n)
  <2>1. SameCalls(n) /\ Depth' = n
    BY UnchangedCalls DEF EntryReturn
  <2> QED BY <1>0, <2>1 DEF SameCalls, dom, base
<1>2. pc[1] = "entry" /\ pc[2] = m /\ ~Running /\ dom(n) = m
  <2>1. pc[1] = "entry" /\ pc[2] = m /\ ~Running
    BY Control DEF EntryReturn
  <2>2. ~AtCall(n)
    BY <1>0, <2>1, IndexIsNoRET DEF AtCall, Target, EntryReturn
  <2> QED BY <2>1, <2>2 DEF Registers, AtReturn
<1>3. Complete(n) /\ CurrentSp(m) = base(n) + 17
  BY <1>0, <1>2, TopPointer DEF End
<1>4. /\ stack[m][base(n)+9] = Label("body", m)
      /\ stack[m][base(n)+10] = Data(m, n, "r6")
      /\ stack[m][base(n)+11] = Data(m, n, "r7")
      /\ stack[m][base(n)+12] = Data(m, n, "r8")
      /\ stack[m][base(n)+13] = Data(m, n, "r4")
      /\ stack[m][base(n)+14] = Data(m, n, "r5")
      /\ stack[m][base(n)+15] = Data(m, n, "r9")
      /\ stack[m][base(n)+16] = Data(m, n, "r10")
      /\ stack[m][base(n)+17] = Data(m, n, "r11")
  BY <1>0, <1>2, <1>3 DEF Complete, StubFrame, ExitFrame
<1>5. pc' = Label("body", m) /\ r1' = base(n) + 8
  BY <1>0, <1>3, <1>4 DEF EntryReturn
<1>6. /\ pc'[1] = "body" /\ pc'[2] = m /\ pc' \in Place \X Domain /\ Running'
  BY <1>0, <1>5, ControlNext DEF Place
<1>7. Chain(n)'
  BY <1>0, <1>1, ChainKept
<1>8. Frames(n)'
  <2>1. /\ \A k \in 1..n-1 : Complete(k)'
        /\ n > 1 => EntryFrame(n)' /\ FunFrame(n)'
    BY <1>0, <1>1, <1>3, NoPush DEF Frames, EntryReturn, Complete
  <2> QED BY <1>6, <2>1 DEF Frames
<1>9. SavedPointers(n)'
  BY <1>0, <1>1, <1>6, PointersKept DEF EntryReturn
<1>10. AtBody(n)'
  <2>1. \A r \in Saved : reg'[r] = Popped(stack[m], base(n)+17, ReturnPops)[r]
    BY <1>3, RegNames DEF EntryReturn, Popped, Reg, Saved
  <2>2. \A r \in Saved : reg'[r] = stack[m][base(n) + 17 - ReturnPops[r]]
    BY <1>0, <2>1 DEF Popped, ReturnPops, Saved, Reg
  <2>3. \A r \in Saved : stack[m][base(n) + 17 - ReturnPops[r]] = Data(m, n, r)
    BY <1>0, <1>4 DEF ReturnPops, Saved
  <2> QED BY <1>1, <1>5, <1>6, <2>2, <2>3 DEF AtBody
<1>11. Registers(n)'
  BY <1>1, <1>2, <1>6, <1>10 DEF Registers
<1>12. NoCallBack(n)'
  BY <1>0, <1>1, <1>2, <1>6 DEF NoCallBack, SameCalls, dom
<1> QED BY <1>1, <1>5, <1>7, <1>8, <1>9, <1>11, <1>12

\* Back from a call, the stack pointers of the other domains are as they were.
LEMMA PointersShrink ==
    ASSUME NEW n \in Nat, n > 1, SameCalls(n-1), ~Running',
           NEW d, dom(n) = d, SavedPointers(n),
           \A e \in Domain \ {d} : savedSp'[e] = savedSp[e],
           NEW p \in Nat, EndsAt(d, n-1, p), savedSp'[d] = p
    PROVE  SavedPointers(n-1)'
<1>1. ASSUME NEW e \in Domain \ {d} PROVE EndsAt(e, n-1, CurrentSp(e))'
  <2>1. PICK q : q = CurrentSp(e)
    OBVIOUS
  <2>2. EndsAt(e, n, q) /\ CurrentSp(e)' = q
    BY <2>1 DEF SavedPointers, CurrentSp
  <2>3. EndsAt(e, n-1, q)
    BY <2>2, EndsShrink
  <2>4. EndsAt(e, n-1, q)'
    BY <2>3, EndsKept
  <2> QED BY <2>2, <2>4, PointerNext
<1>2. EndsAt(d, n-1, CurrentSp(d))'
  <2>1. EndsAt(d, n-1, p)'
    BY EndsKept
  <2>2. CurrentSp(d)' = p
    BY DEF CurrentSp, Unset
  <2> QED BY <2>1, <2>2, PointerNext
<1> QED BY <1>1, <1>2 DEF SavedPointers

\* A return: the frames of the activations that remain, all of them waiting.
LEMMA Returned ==
    ASSUME TypeOK, NEW n, n = Depth, n > 1, Chain(n), Frames(n), stack' = stack,
           calls' = SubSeq(calls, 1, Depth - 1)
    PROVE  /\ SameCalls(n-1) /\ Depth' = n-1 /\ n-1 \in 1..n /\ Chain(n-1)'
           /\ Frames(n-1)'
<1>0. n \in Nat \ {0} /\ n-1 \in 1..n /\ n-1 \in 0..n
  BY Basics
<1>1. SameCalls(n-1) /\ Depth' = n-1
  BY <1>0, ShorterType DEF SameCalls, Depth
<1>2. Chain(n-1)'
  BY <1>0, <1>1, ChainKept
<1>3. \A k \in 1..n-1 : Complete(k)'
  <2>1. \A k \in 1..n-1 : Complete(k) /\ Kept(dom(k), End(k))
    BY DEF Frames, Kept
  <2> QED BY <1>0, <1>1, <2>1, FramesBelow
<1>4. Frames(n-1)'
  <2>1. Complete(n-1)' /\ \A k \in 1..(n-1)-1 : Complete(k)'
    BY <1>0, <1>3
  <2> QED BY <1>0, <2>1 DEF Frames, Complete
<1> QED BY <1>0, <1>1, <1>2, <1>4

LEMMA EntryTailStep ==
    ASSUME TypeOK, NEW n, n = Depth, Consistent(n), NEW m \in SM, EntryTail(m)
    PROVE  /\ Consistent(n-1)' /\ Depth' = n-1 /\ reg'["r6"] = RET
           /\ pc'[1] \in {"cont", "entry"}
<1> USE DEF Consistent
<1>0. /\ n \in Nat \ {0} /\ n \in 1..n /\ m \in Domain /\ m # Unprotected
      /\ base(n) \in Nat /\ savedSp \in [Domain -> Unset..StackWords]
  BY Basics, Bounds
<1>1. pc[1] = "tail" /\ pc[2] = m /\ dom(n) = m /\ Running /\ AtTail(n) /\ n > 1
  <2>1. pc[1] = "tail" /\ pc[2] = m /\ dom(n) = m /\ Running
    BY Control DEF EntryTail
  <2> QED BY <2>1 DEF Registers, AtTail
<1>2. PICK e \in Domain : e = dom(n-1) /\ e # m
  BY <1>0, <1>1, ActivationTypes DEF Chain
<1>3. /\ SameCalls(n-1) /\ Depth' = n-1 /\ n-1 \in 1..n /\ Chain(n-1)'
      /\ Frames(n-1)' /\ dom(n-1)' = e
  <2>1. /\ SameCalls(n-1) /\ Depth' = n-1 /\ n-1 \in 1..n /\ Chain(n-1)'
        /\ Frames(n-1)'
    BY <1>1, Returned DEF EntryTail
  <2> QED BY <1>0, <1>1, <1>2, <2>1 DEF SameCalls, dom
<1>4. \A r \in Saved \ {"r6", "r11"} : FunReg(n, r) = Given(e, n-1, m, r)
  BY <1>1, <1>2 DEF FunReg, CallerReg
<1>5. \A r : CallerReg(n, r) = Given(e, n-1, m, r)
  BY <1>1, <1>2 DEF CallerReg
<1>6. \A r \in {"r4", "r5", "r8", "r9", "r10", "r11"} :
          reg'[r] = Given(e, n-1, m, r)
  <2>1. EntryFrame(n) /\ r1 = base(n) - 1
    BY <1>1 DEF Frames, AtTail
  <2>2. /\ stack[m][base(n)-6] = CallerReg(n, "r4")
        /\ stack[m][base(n)-5] = CallerReg(n, "r5")
        /\ stack[m][base(n)-4] = CallerReg(n, "r8")
        /\ stack[m][base(n)-3] = CallerReg(n, "r9")
        /\ stack[m][base(n)-2] = CallerReg(n, "r10")
        /\ stack[m][base(n)-1] = CallerReg(n, "r11")
    BY <1>0, <1>1, <2>1 DEF EntryFrame
  <2>3. \A r \in DOMAIN EntryPops : reg'[r] = Popped(stack[m], r1, EntryPops)[r]
    BY DEF EntryTail, Load, EntryPops, Reg, Saved, Arg, RetClears
  <2>4. \A r \in DOMAIN EntryPops : reg'[r] = stack[m][r1 - EntryPops[r]]
    BY <2>3 DEF Popped, EntryPops, Reg, Saved
  <2>5. \A r \in {"r4", "r5", "r8", "r9", "r10", "r11"} :
           r \in DOMAIN EntryPops /\ stack[m][r1 - EntryPops[r]] = CallerReg(n, r)
    BY <1>0, <2>1, <2>2 DEF EntryPops
  <2> QED BY <1>5, <2>4, <2>5
<1>7. reg'["r6"] = RET
  BY RegNames DEF EntryTail, Load
<1>8. pc' = IF e = Unprotected THEN Label("cont", e) ELSE Label("entry", e)
  <2>1. reg["r7"] = Given(e, n-1, m, "r7")
    BY <1>1, <1>4 DEF AtTail, Saved
  <2> QED BY <2>1 DEF EntryTail, Given
<1>9. /\ pc' \in Place \X Domain /\ pc'[2] = e /\ ~Running'
      /\ pc'[1] = IF e = Unprotected THEN "cont" ELSE "entry"
  BY <1>8, ControlNext DEF Place
<1>10. SavedPointers(n-1)'
  <2>1. PICK p \in Nat : p = Start(n) /\ p = base(n) - 7
    BY <1>0, <1>1, Bounds
  <2>2. EndsAt(m, n-1, p)
    <3>1. n \in 2..n
      BY <1>0, <1>1
    <3>2. EndsAt(dom(n), n-1, Start(n))
      BY <3>1 DEF Chain
    <3> QED BY <1>1, <2>1, <3>2
  <2>3. savedSp'[m] = p /\ \A d \in Domain \ {m} : savedSp'[d] = savedSp[d]
    BY <1>0, <1>1, <2>1, SMTT(30) DEF EntryTail, TailSp, AtTail
  <2> QED BY <1>0, <1>1, <1>3, <1>9, <2>2, <2>3, PointersShrink
<1>11. Registers(n-1)'
  <2>1. CASE e = Unprotected
    <3>1. AtCont(n-1)'
      BY <1>3, <1>6, <1>9, <2>1 DEF AtCont, Given, Saved
    <3> QED BY <1>9, <2>1, <3>1 DEF Registers
  <2>2. CASE e # Unprotected
    <3>1. AtReturn(n-1)'
      BY <1>3, <1>7, <1>9, <2>2 DEF AtReturn
    <3> QED BY <1>9, <2>2, <3>1 DEF Registers
  <2> QED BY <2>1, <2>2
<1>12. NoCallBack(n-1)'
  <2> SUFFICES ASSUME ~ResavesSp PROVE NoCallBack(n-1)'
    BY DEF NoCallBack
  <2>1. ASSUME NEW k \in 2..n-1 PROVE dom(k)' # Unprotected
    <3>1. k \in 2..n /\ k # n /\ calls'[k] = calls[k]
      BY <1>0, <1>3 DEF SameCalls
    <3> QED BY <3>1 DEF NoCallBack, dom
  <2> QED BY <1>9, <2>1 DEF NoCallBack
<1> QED BY <1>3, <1>7, <1>9, <1>10, <1>11, <1>12

LEMMA ExitStep ==
    ASSUME TypeOK, NEW n, n = Depth, Consistent(n), NEW m \in SM, Exit(m)
    PROVE  /\ Consistent(n)' /\ Depth' = n
           /\ \E t \in Domain : pc' = Label("entry", t) /\ Target(t)'
<1> USE DEF Consistent
<1>0. /\ n \in Nat \ {0} /\ n \in 1..n /\ r1 \in Nat /\ base(n) \in Nat
      /\ m \in Domain /\ m # Unprotected /\ StackWords \in Nat
      /\ savedSp \in [Domain -> Unset..StackWords]
  BY Basics, Bounds, SMTT(30)
<1>1. SameCalls(n) /\ Depth' = n /\ dom(n)' = dom(n) /\ base(n)' = base(n)
  <2>1. SameCalls(n) /\ Depth' = n
    BY UnchangedCalls DEF Exit
  <2> QED BY <1>0, <2>1 DEF SameCalls, dom, base
<1>2. /\ pc[1] = "exit" /\ pc[2] = m /\ dom(n) = m /\ Running
      /\ r1 = base(n) + 12 /\ AtExit(n)
      /\ \A r \in ExitClearsSaved : reg[r] = Data(m, n, r)
  <2>1. pc[1] = "exit" /\ pc[2] = m /\ dom(n) = m /\ Running
    BY Control DEF Exit
  <2> QED BY <2>1 DEF Registers, AtExit
<1>3. PICK t \in Domain \ {m} : reg["r8"] = Label("entry", t) /\ Target(t)
  BY <1>2 DEF AtExit
<1>4. pc'[1] = "entry" /\ pc'[2] = t /\ pc' \in Place \X Domain /\ ~Running'
  <2>1. pc' = Label("entry", t)
    BY <1>3 DEF Exit
  <2> QED BY <2>1, ControlNext DEF Place
<1>5. Chain(n)'
  BY <1>0, <1>1, ChainKept
<1>6. PICK w \in Seq(Word) : /\ w = Words(ExitRegs) /\ Len(w) = 5
                             /\ \A j \in 1..5 : w[j] = reg[ExitRegs[j]]
  <2>1. Words(ExitRegs) \in Seq(Word)
    BY PushedNames, WordsType
  <2>2. Len(Words(ExitRegs)) = 5
    BY PushedNames DEF Words
  <2>3. \A j \in 1..5 : Words(ExitRegs)[j] = reg[ExitRegs[j]]
    BY PushedNames DEF Words
  <2> QED BY <2>1, <2>2, <2>3
<1>7. /\ r1 + 5 <= StackWords
      /\ stack' = [stack EXCEPT ![m] = Push(@, r1, w)]
  BY <1>6 DEF Exit, Room
<1>8. /\ \A k \in 1..n-1 : Complete(k)'
      /\ Pushed(m, r1, w)
      /\ n > 1 => EntryFrame(n)' /\ FunFrame(n)'
      /\ StubFrame(n)'
  <2>1. StubFrame(n) /\ (n > 1 => FunFrame(n))
    BY <1>2 DEF Frames
  <2>2. /\ r1 + Len(w) <= StackWords /\ base(n) <= r1 /\ r1 >= base(n) + 8
        /\ r1 >= base(n) + 12
        /\ Chain(n) /\ Frames(n) /\ SameCalls(n) /\ m = dom(n)
    BY <1>0, <1>1, <1>2, <1>6, <1>7, SMTT(30)
  <2> HIDE DEF Consistent
  <2> QED BY <1>7, <2>1, <2>2, RunningPush
<1>9. Frames(n)'
  <2>1. \A j \in 1..5 : stack'[m][r1+j] = w[j]
    BY <1>6, <1>8 DEF Pushed
  <2>2. /\ w[1] = Data(m, n, "r4") /\ w[2] = Data(m, n, "r5")
        /\ w[3] = Data(m, n, "r9") /\ w[4] = Data(m, n, "r10")
        /\ w[5] = Data(m, n, "r11")
    BY <1>2, <1>6 DEF ExitRegs, ExitClearsSaved
  <2>3. /\ r1 + 1 = base(n) + 13 /\ r1 + 2 = base(n) + 14
        /\ r1 + 3 = base(n) + 15 /\ r1 + 4 = base(n) + 16
        /\ r1 + 5 = base(n) + 17
    <3>1. r1 = base(n) + 12 /\ base(n) \in Nat
      BY <1>0, <1>2
    <3> QED BY <3>1, SMTT(30)
  <2>4. ExitFrame(n)'
    <3>1. /\ stack'[m][r1+1] = w[1] /\ stack'[m][r1+2] = w[2]
          /\ stack'[m][r1+3] = w[3] /\ stack'[m][r1+4] = w[4]
          /\ stack'[m][r1+5] = w[5]
      BY <1>0, <2>1
    <3>2. dom(n)' = m /\ base(n)' = base(n)
      BY <1>1, <1>2
    <3> QED BY <2>2, <2>3, <3>1, <3>2 DEF ExitFrame
  <2>5. End(n)' <= StackWords
    BY <1>0, <1>1, <1>2, <1>7, <2>3 DEF End
  <2> QED BY <1>8, <2>4, <2>5 DEF Frames
<1>10. SavedPointers(n)'
  <2>1. CurrentSp(m)' = End(n)
    BY <1>0, <1>2, SMTT(30) DEF Exit, CurrentSp, Unset, End
  <2>2. EndsAt(m, n, CurrentSp(m))'
    <3>1. PICK p : p = End(n)
      OBVIOUS
    <3>2. EndsAt(m, n, p)
      BY <1>0, <1>2, <3>1, EndsOwn
    <3>3. CurrentSp(m)' = p
      BY <2>1, <3>1
    <3> QED BY <1>0, <1>1, <3>2, <3>3, EndsKept, PointerNext
  <2>3. ASSUME NEW e \in Domain \ {m} PROVE EndsAt(e, n, CurrentSp(e))'
    <3>1. PICK p : p = CurrentSp(e)
      OBVIOUS
    <3>2. EndsAt(e, n, p) /\ CurrentSp(e)' = p
      BY <1>0, <1>2, <3>1 DEF SavedPointers, Exit, CurrentSp
    <3> QED BY <1>0, <1>1, <3>2, EndsKept, PointerNext
  <2> QED BY <2>2, <2>3 DEF SavedPointers
<1>14. pc' = Label("entry", t) /\ Target(t)'
  <2>1. reg'["r6"] = reg["r6"]
    BY RegNames DEF Exit, Load, ExitClearsSaved, ExitClears, Arg
  <2> QED BY <1>3, <2>1 DEF Target, Exit
<1>11. AtCall(n)'
  <2>2. /\ reg'["r7"] = Label("entry", m) /\ reg'["r8"] = Label("entry", t)
        /\ \A r \in ExitClearsSaved : reg'[r] = Zero
    BY <1>3, RegNames DEF Exit, Load, ExitClearsSaved, ExitClears, Arg, Reg, Saved
  <2>3. \A r \in Saved \ {"r6"} : reg'[r] = Given(m, n, t, r)
    BY <1>0, <2>2 DEF Given, Saved, ExitClearsSaved
  <2>4. \A r : Given(dom(n), n, pc[2], r)' = Given(m, n, t, r)
    BY <1>1, <1>2, <1>4 DEF Given
  <2> QED BY <1>1, <1>2, <1>3, <1>4, <1>14, <2>3, <2>4 DEF AtCall, Target
<1>12. Registers(n)'
  BY <1>1, <1>4, <1>11 DEF Registers
<1>13. NoCallBack(n)'
  BY <1>0, <1>1, <1>2, <1>4, SMTT(30) DEF NoCallBack, SameCalls, dom
<1> QED BY <1>1, <1>3, <1>4, <1>5, <1>9, <1>10, <1>12, <1>13, <1>14

LEMMA TrampolineCallStep ==
    ASSUME TypeOK, NEW n, n = Depth, Consistent(n), TrampolineCall
    PROVE  Consistent(n+1)' /\ Depth' = n+1
<1> USE DEF Consistent
<1>0. /\ n \in Nat \ {0} /\ n \in 1..n /\ Unprotected \in Domain
      /\ StackWords \in Nat /\ reg \in [Reg -> Word]
  BY Basics
<1>1. PICK p \in 0..StackWords : p = CurrentSp(Unprotected)
  BY <1>0, SpType
<1>2. /\ SameCalls(n) /\ Depth' = n+1
      /\ dom(n+1)' = Unprotected /\ base(n+1)' = p+1
  <2>1. PICK a : a = [dom |-> Unprotected, entry |-> 0, base |-> p+1]
    OBVIOUS
  <2>2. calls' = Append(calls, a)
    BY <1>1, <2>1 DEF TrampolineCall
  <2>3. SameCalls(n) /\ Depth' = n + 1 /\ calls'[n+1] = a
    BY <2>2, NewCall
  <2> QED BY <2>1, <2>3 DEF dom, base
<1>3. pc[1] = "entry" /\ pc[2] = Unprotected /\ ~Running
  BY Control DEF TrampolineCall
<1>4. AtCall(n) /\ dom(n) # Unprotected /\ reg["r6"] = Label("fun", Unprotected)
  BY <1>3 DEF Registers, AtReturn, AtCall, Target
<1>5. EndsAt(Unprotected, n, p)
  BY <1>0, <1>1, <1>3 DEF SavedPointers
<1>6. /\ pc'[1] = "fun" /\ pc'[2] = Unprotected /\ pc' \in Place \X Domain
      /\ Running'
  <2>1. pc' = Label("fun", Unprotected)
    BY <1>4 DEF TrampolineCall
  <2> QED BY <1>0, <2>1, ControlNext DEF Place
<1>7. Chain(n+1)'
  <2>1. Start(n+1)' = p
    BY <1>0, <1>2 DEF Start
  <2> QED BY <1>2, <1>4, <1>5, <2>1, ChainGrows
<1>8. PICK w \in Seq(Word) : w = <<Label("tail", Unprotected)>>
  <2>1. Label("tail", Unprotected) \in Word
    BY <1>0, WordTypes DEF Place
  <2>2. <<Label("tail", Unprotected)>> \in Seq(Word)
    BY <2>1
  <2> QED BY <2>2
<1>9. Len(w) = 1 /\ w[1] = Label("tail", Unprotected)
  BY <1>8
<1>10. (\A k \in 1..n : Complete(k)') /\ Pushed(Unprotected, p, w)
  <2>1. p + Len(w) <= StackWords /\ p \in Nat
    BY <1>1, <1>9 DEF TrampolineCall, Room
  <2>2. stack' = [stack EXCEPT ![Unprotected] = Push(@, p, w)]
    BY <1>1, <1>8 DEF TrampolineCall
  <2>3. Chain(n) /\ Frames(n) /\ Unprotected \in Domain
    BY <1>0
  <2> HIDE DEF Consistent
  <2> QED BY <1>2, <1>3, <1>5, <2>1, <2>2, <2>3, OutsidePushed
<1>11. \A r : FunReg(n+1, r)' =
                 IF r = "r6" THEN Label("fun", Unprotected)
                 ELSE Given(dom(n), n, Unprotected, r)
  <2>1. dom(n)' = dom(n) /\ (n+1)-1 = n
    BY <1>0, <1>2 DEF SameCalls, dom
  <2> QED BY <1>0, <1>2, <2>1 DEF CallerReg, FunReg, Given
<1>12. EntryFrame(n+1)'
  <2>1. stack'[Unprotected][p+1] = Label("tail", Unprotected)
    BY <1>9, <1>10 DEF Pushed
  <2> QED BY <1>2, <2>1 DEF EntryFrame
<1>13. Frames(n+1)'
  BY <1>0, <1>6, <1>10, <1>12 DEF Frames
<1>14. SavedPointers(n+1)'
  BY <1>0, <1>2, <1>3, <1>6, PointersGrow DEF TrampolineCall
<1>15. AtFun(n+1)'
  <2>1. r1' = p+1 /\ reg' = reg
    BY <1>1 DEF TrampolineCall
  <2>2. \A r \in Saved : reg'[r] = FunReg(n+1, r)'
    BY <1>3, <1>4, <1>11, <2>1 DEF AtCall
  <2> QED BY <1>0, <1>2, <2>1, <2>2 DEF AtFun
<1>16. Registers(n+1)'
  BY <1>2, <1>6, <1>15 DEF Registers
<1>17. NoCallBack(n+1)'
  <2> SUFFICES ASSUME ~ResavesSp PROVE NoCallBack(n+1)'
    BY DEF NoCallBack
  <2>1. \A k \in 2..n : dom(k)' # Unprotected
    BY <1>2, <1>3 DEF NoCallBack, SameCalls, dom
  <2>2. \A k \in 2..n+1 : k \in 2..n \/ k = n+1
    BY <1>0
  <2>3. savedSp'[Unprotected] = base(n+1)' - 1
    <3>1. dom(1) = Unprotected /\ 1 \in 1..n /\ base(1) = 0
      BY <1>0 DEF Chain, dom, base
    <3>2. End(1) <= p /\ End(1) = 11
      BY <1>5, <3>1, EndsBelow DEF End
    <3>3. savedSp[Unprotected] = p
      BY <1>1, <3>2 DEF CurrentSp
    <3> QED BY <1>1, <1>2, <3>3 DEF TrampolineCall
  <2> QED BY <1>6, <2>1, <2>2, <2>3 DEF NoCallBack
<1> QED BY <1>2, <1>7, <1>13, <1>14, <1>16, <1>17

LEMMA TrampolineTailStep ==
    ASSUME TypeOK, NEW n, n = Depth, Consistent(n), TrampolineTail
    PROVE  /\ Consistent(n-1)' /\ Depth' = n-1 /\ reg'["r6"] = RET
           /\ pc'[1] = "entry"
<1> USE DEF Consistent
<1>0. /\ n \in Nat \ {0} /\ n \in 1..n /\ Unprotected \in Domain
      /\ base(n) \in Nat /\ savedSp \in [Domain -> Unset..StackWords]
  BY Basics, Bounds
<1>1. /\ pc[1] = "tail" /\ pc[2] = Unprotected /\ dom(n) = Unprotected
      /\ Running /\ AtTail(n) /\ n > 1
  <2>1. pc[1] = "tail" /\ pc[2] = Unprotected /\ dom(n) = Unprotected /\ Running
    BY Control DEF TrampolineTail
  <2> QED BY <2>1 DEF Registers, AtTail
<1>2. PICK e \in Domain : e = dom(n-1) /\ e # Unprotected
  BY <1>0, <1>1, ActivationTypes DEF Chain
<1>3. /\ SameCalls(n-1) /\ Depth' = n-1 /\ n-1 \in 1..n /\ Chain(n-1)'
      /\ Frames(n-1)' /\ dom(n-1)' = e
  <2>1. /\ SameCalls(n-1) /\ Depth' = n-1 /\ n-1 \in 1..n /\ Chain(n-1)'
        /\ Frames(n-1)'
    BY <1>1, Returned DEF TrampolineTail
  <2> QED BY <1>0, <1>1, <1>2, <2>1 DEF SameCalls, dom
<1>4. pc' = Label("entry", e)
  <2>1. reg["r7"] = FunReg(n, "r7")
    BY <1>1 DEF AtTail, Saved
  <2>2. FunReg(n, "r7") = Label("entry", e)
    BY <1>2 DEF FunReg, CallerReg, Given
  <2> QED BY <2>1, <2>2 DEF TrampolineTail
<1>5. pc' \in Place \X Domain /\ pc'[2] = e /\ ~Running' /\ pc'[1] = "entry"
  BY <1>4, ControlNext DEF Place
<1>6. SavedPointers(n-1)'
  <2>1. PICK p \in Nat : p = Start(n) /\ p = base(n) - 1
    BY <1>0, <1>1, Bounds
  <2>2. EndsAt(Unprotected, n-1, p)
    <3>1. n \in 2..n
      BY <1>0, <1>1
    <3>2. EndsAt(dom(n), n-1, Start(n))
      BY <3>1 DEF Chain
    <3> QED BY <1>1, <2>1, <3>2
  <2>3. /\ savedSp'[Unprotected] = p
        /\ \A d \in Domain \ {Unprotected} : savedSp'[d] = savedSp[d]
    BY <1>0, <1>1, <2>1 DEF TrampolineTail, AtTail, NoCallBack
  <2> QED BY <1>0, <1>1, <1>3, <1>5, <2>2, <2>3, PointersShrink
<1>9. reg'["r6"] = RET
  BY RegNames DEF TrampolineTail, TypeOK
<1>7. Registers(n-1)'
  <2>1. AtReturn(n-1)'
    BY <1>0, <1>2, <1>3, <1>5, <1>9 DEF AtReturn
  <2> QED BY <1>2, <1>5, <2>1 DEF Registers
<1>8. NoCallBack(n-1)'
  <2> SUFFICES ASSUME ~ResavesSp PROVE NoCallBack(n-1)'
    BY DEF NoCallBack
  <2>1. ASSUME NEW k \in 2..n-1 PROVE dom(k)' # Unprotected
    <3>1. k \in 2..n /\ k # n /\ calls'[k] = calls[k]
      BY <1>0, <1>3 DEF SameCalls
    <3> QED BY <3>1 DEF NoCallBack, dom
  <2> QED BY <1>5, <2>1 DEF NoCallBack
<1> QED BY <1>3, <1>5, <1>6, <1>7, <1>8, <1>9

LEMMA StutterStep ==
    ASSUME TypeOK, NEW n, n = Depth, Consistent(n), UNCHANGED vars
    PROVE  Consistent(n)' /\ Depth' = n
<1> USE DEF vars
<1>1. Depth' = n /\ SameCalls(n) /\ n \in Nat \ {0} /\ n \in 1..n
  BY UnchangedCalls, Basics DEF Consistent
<1>2. Chain(n)' /\ SavedPointers(n)'
  BY <1>1, ChainKept, PointersKept DEF Consistent, Running
<1>3. Frames(n)'
  <2>1. /\ \A k \in 1..n-1 : Complete(k)'
        /\ n > 1 /\ EntryFrame(n) => EntryFrame(n)'
        /\ n > 1 /\ FunFrame(n) => FunFrame(n)'
        /\ StubFrame(n) => StubFrame(n)'
        /\ ExitFrame(n) => ExitFrame(n)'
        /\ End(n)' = End(n)
    BY <1>1, NoPush DEF Consistent, Frames
  <2> QED BY <2>1 DEF Consistent, Frames, Running
<1>4. Registers(n)'
  BY DEF Consistent, Registers, Running, AtFun, AtBody, AtTail, AtExit, AtReturn,
     AtCall, AtCont, Target, FunReg, CallerReg, dom, base
<1>5. NoCallBack(n)'
  BY DEF Consistent, NoCallBack, Running, dom, base
<1> QED BY <1>1, <1>2, <1>3, <1>4, <1>5 DEF Consistent

-----------------------------------------------------------------------------
(* The theorems.                                                            *)

LEMMA InvNext ==
    ASSUME TypeOK', NEW m, Consistent(m)', Depth' = m
    PROVE  IInv'
BY DEF IInv

LEMMA InitInv == Init => IInv
<1> SUFFICES ASSUME Init PROVE IInv
  OBVIOUS
<1>1. TypeOK
  BY InitType
<1>2. Depth = 1
  BY DEF Init, Depth
<1>3. /\ pc[1] = "body" /\ pc[2] = Unprotected /\ Running
      /\ dom(1) = Unprotected /\ base(1) = 0
      /\ Unprotected \in Domain /\ Unprotected \notin SM
  BY StubsAssumption DEF Init, Label, Running, dom, base, Domain, StubsAssumption
<1>4. Chain(1)
  BY DEF Init, Chain
<1>5. Frames(1)
  BY <1>3 DEF Frames
<1>6. SavedPointers(1)
  <2> SUFFICES ASSUME NEW d \in Domain, d # Unprotected
               PROVE  EndsAt(d, 1, CurrentSp(d))
    BY <1>3 DEF SavedPointers
  <2>1. CurrentSp(d) = 0
    BY DEF Init, CurrentSp
  <2> QED BY <1>3, <2>1 DEF EndsAt
<1>7. Registers(1)
  <2>1. AtBody(1)
    BY <1>3, RegNames DEF AtBody, Init
  <2>2. pc \in Place \X Domain
    BY <1>3 DEF Init, Label, Place
  <2> QED BY <1>3, <2>1, <2>2 DEF Registers
<1>8. NoCallBack(1)
  BY DEF NoCallBack
<1> QED BY <1>1, <1>2, <1>4, <1>5, <1>6, <1>7, <1>8 DEF IInv, Consistent

LEMMA InvStep ==
    ASSUME ResavesSp \/ ~CallsBack, IInv, [Next]_vars
    PROVE  IInv'
<1>1. TypeOK /\ TypeOK'
  BY TypeStep DEF IInv
<1>2. PICK n : n = Depth
  OBVIOUS
<1>3. Consistent(n)
  BY <1>2 DEF IInv
<1>4. ASSUME NEW d \in Domain, Prologue(d) PROVE IInv'
  BY <1>1, <1>2, <1>3, <1>4, PrologueStep, InvNext
<1>5. ASSUME NEW d \in Domain, Epilogue(d) PROVE IInv'
  BY <1>1, <1>2, <1>3, <1>5, EpilogueStep, InvNext
<1>6. ASSUME NEW m \in SM, NEW i \in 0..NEntries, CallStub(m, i) PROVE IInv'
  BY <1>1, <1>2, <1>3, <1>6, CallStubStep, InvNext
<1>7. ASSUME CallStubReturn PROVE IInv'
  BY <1>1, <1>2, <1>3, <1>7, CallStubReturnStep, InvNext
<1>8. ASSUME NEW m \in SM, NEW t \in Domain \ {m}, NEW i \in 0..NEntries-1,
             NEW a \in 0..4, OutcallStub(m, t, i, a)
      PROVE  IInv'
  BY <1>1, <1>2, <1>3, <1>8, OutcallStubStep, InvNext
<1>9. ASSUME NEW m \in SM, NEW i \in 0..NEntries-1, EntryCall(m, i) PROVE IInv'
  BY <1>1, <1>2, <1>3, <1>9, EntryCallStep, InvNext
<1>10. ASSUME NEW m \in SM, EntryError(m) PROVE IInv'
  BY <1>1, <1>2, <1>3, <1>10, EntryErrorStep, InvNext
<1>11. ASSUME NEW m \in SM, EntryReturn(m) PROVE IInv'
  BY <1>1, <1>2, <1>3, <1>11, EntryReturnStep, InvNext
<1>12. ASSUME NEW m \in SM, EntryTail(m) PROVE IInv'
  BY <1>1, <1>2, <1>3, <1>12, EntryTailStep, InvNext
<1>13. ASSUME NEW m \in SM, Exit(m) PROVE IInv'
  BY <1>1, <1>2, <1>3, <1>13, ExitStep, InvNext
<1>14. ASSUME TrampolineCall PROVE IInv'
  BY <1>1, <1>2, <1>3, <1>14, TrampolineCallStep, InvNext
<1>15. ASSUME TrampolineTail PROVE IInv'
  BY <1>1, <1>2, <1>3, <1>15, TrampolineTailStep, InvNext
<1>16. ASSUME UNCHANGED vars PROVE IInv'
  BY <1>1, <1>2, <1>3, <1>16, StutterStep, InvNext
<1>17. ASSUME NEW m \in SM, NEW a \in 0..4, OutcallStub(m, Unprotected, 0, a)
       PROVE  IInv'
  <2>1. Unprotected \in Domain \ {m} /\ 0 \in 0..NEntries-1
    BY StubsAssumption DEF StubsAssumption, Domain
  <2> QED BY <1>8, <1>17, <2>1
<1>18. ASSUME NEW m \in SM, NEW t \in SM \ {m}, NEW i \in 0..NEntries-1,
              NEW a \in 0..4, OutcallStub(m, t, i, a)
       PROVE  IInv'
  BY <1>8, <1>18 DEF Domain
<1> QED
  BY <1>4, <1>5, <1>6, <1>7, <1>9, <1>10, <1>11, <1>12, <1>13, <1>14, <1>15,
     <1>16, <1>17, <1>18 DEF Next, Stopped

LEMMA InvRestores == IInv => CallerStateRestored
<1> SUFFICES ASSUME IInv, NEW d \in Domain, At("body", d)
             PROVE  /\ Top.dom = d /\ r1 = Top.base + 8
                    /\ \A r \in Saved : reg[r] = Data(d, Depth, r)
  BY DEF CallerStateRestored
<1>1. PICK n : n = Depth
  OBVIOUS
<1>2. Consistent(n)
  BY <1>1 DEF IInv
<1>3. pc[1] = "body" /\ pc[2] = d /\ dom(n) = d
  BY <1>2, Control DEF Consistent
<1>4. AtBody(n)
  BY <1>2, <1>3 DEF Consistent, Registers
<1> QED BY <1>1, <1>3, <1>4 DEF AtBody, Top, dom, base

LEMMA InvSpExact == IInv => SavedSpExact
<1> SUFFICES ASSUME IInv, NEW m \in SM, pc[2] # m
             PROVE  \/ Activations(m) = {} /\ CurrentSp(m) = 0
                    \/ \E k \in Activations(m) :
                          /\ \A j \in Activations(m) : j <= k
                          /\ savedSp[m] = calls[k].base + 8 + 9
  BY DEF SavedSpExact
<1>1. PICK n : n = Depth
  OBVIOUS
<1>2. TypeOK /\ Consistent(n)
  BY <1>1 DEF IInv
<1>3. m \in Domain /\ m # Unprotected /\ n \in Nat
  BY <1>1, <1>2, Basics DEF Consistent
<1>4. EndsAt(m, n, CurrentSp(m))
  BY <1>2, <1>3 DEF Consistent, SavedPointers, Registers
<1>5. Activations(m) = {k \in 1..n : dom(k) = m}
  BY <1>1 DEF Activations, dom
<1>6. CASE CurrentSp(m) = 0 /\ \A j \in 1..n : dom(j) # m
  BY <1>5, <1>6
<1>7. CASE \E k \in 1..n : /\ dom(k) = m /\ CurrentSp(m) = End(k)
                           /\ \A i \in k+1..n : dom(i) # m
  <2>1. PICK k \in 1..n : /\ dom(k) = m /\ CurrentSp(m) = End(k)
                          /\ \A i \in k+1..n : dom(i) # m
    BY <1>7
  <2>2. \A j \in Activations(m) : j <= k
    BY <1>3, <1>5, <2>1
  <2>3. base(k) \in Nat
    BY <1>1, <1>2, Bounds DEF Consistent
  <2>4. savedSp[m] = base(k) + 17
    BY <1>3, <2>1, <2>3 DEF CurrentSp, End
  <2>5. savedSp[m] = calls[k].base + 8 + 9
    BY <2>3, <2>4 DEF base
  <2> QED BY <1>5, <2>1, <2>2, <2>5
<1> QED BY <1>4, <1>6, <1>7 DEF EndsAt

\* The inductive invariant holds in every reachable state.
THEOREM StubsInvariant ==
    ASSUME ResavesSp \/ ~CallsBack
    PROVE  Spec => []IInv
BY InitInv, InvStep, PTL DEF Spec

\* However deeply modules and unprotected code call each other, compiled code
\* always runs on its own frame with its own callee-saved registers.
THEOREM CallersRestored ==
    ASSUME ResavesSp \/ ~CallsBack
    PROVE  Spec => []CallerStateRestored
BY StubsInvariant, InvRestores, PTL

\* The stack pointer a module switches back to is that of its innermost
\* waiting activation, or that of an empty stack.
THEOREM SavedSpsExact ==
    ASSUME ResavesSp \/ ~CallsBack
    PROVE  Spec => []SavedSpExact
BY StubsInvariant, InvSpExact, PTL

-----------------------------------------------------------------------------
(* What a module leaves in the registers when control leaves it.            *)

LEMMA NotData ==
    /\ \A l \in Place : \A d, m : ~IsDataOf(Label(l, d), m)
    /\ \A n, m : ~IsDataOf(Num(n), m)
    /\ \A d, k, r, m : d # m => ~IsDataOf(Data(d, k, r), m)
    /\ \A m : ~IsDataOf(Zero, m) /\ ~IsDataOf(RET, m)
<1>1. \A l \in Place : \A d, m : ~IsDataOf(Label(l, d), m)
  BY DEF IsDataOf, Label, Place
<1>2. \A n, m : ~IsDataOf(Num(n), m)
  BY DEF IsDataOf, Num
<1>3. \A d, k, r, m : d # m => ~IsDataOf(Data(d, k, r), m)
  BY DEF IsDataOf, Data
<1>4. \A m : ~IsDataOf(Zero, m) /\ ~IsDataOf(RET, m)
  BY <1>2 DEF Zero, RET
<1> QED BY <1>1, <1>2, <1>3, <1>4

\* The chains clear every argument register that passes no word.
LEMMA RetChain ==
    ASSUME NEW n \in {0, 1, 2, 4}
    PROVE  Arg \ RetClears(TableFlags(n)) \subseteq Passing(n)
<1>1. CASE n = 0
  BY <1>1 DEF RetClears, TableFlags, Passing, NoBit, Arg
<1>2. CASE n = 1
  BY <1>2 DEF RetClears, TableFlags, Passing, NoBit, Arg
<1>3. CASE n = 2
  BY <1>3 DEF RetClears, TableFlags, Passing, NoBit, Arg
<1>4. CASE n = 4
  BY <1>4 DEF RetClears, TableFlags, Passing, NoBit, Arg
<1> QED BY <1>1, <1>2, <1>3, <1>4

LEMMA ExitChain ==
    ASSUME NEW n \in 0..4
    PROVE  Arg \ ExitClears(ArgFlags(n)) \subseteq Passing(n)
<1>1. CASE n = 0
  BY <1>1 DEF ExitClears, ArgFlags, Passing, NoBit, Arg
<1>2. CASE n = 1
  BY <1>2 DEF ExitClears, ArgFlags, Passing, NoBit, Arg
<1>3. CASE n = 2
  BY <1>3 DEF ExitClears, ArgFlags, Passing, NoBit, Arg
<1>4. CASE n = 3
  BY <1>4 DEF ExitClears, ArgFlags, Passing, NoBit, Arg
<1>5. CASE n = 4
  BY <1>5 DEF ExitClears, ArgFlags, Passing, NoBit, Arg
<1> QED BY <1>1, <1>2, <1>3, <1>4, <1>5

LEMMA ExitLeaves ==
    ASSUME IInv, NEW m \in SM, Exit(m)
    PROVE  LeavesNothing(m)
<1>1. PICK n : n = Depth
  OBVIOUS
<1>2. TypeOK /\ Consistent(n)
  BY <1>1 DEF IInv
<1>3. pc[1] = "exit" /\ pc[2] = m
  BY <1>2, Control DEF Consistent, Exit
<1>4. PICK t \in Domain : reg["r8"] = Label("entry", t) /\ Target(t)
  BY <1>2, <1>3 DEF Consistent, Registers, AtExit
<1>5. PICK a \in 0..4 :
          /\ reg["r7"] = Num(ArgFlags(a))
          /\ reg' = [Load(reg, ExitClearsSaved \cup ExitClears(ArgFlags(a))
                               \cup {"r2"}, Zero) EXCEPT
                        !["r7"] = Label("entry", m)]
  BY DEF Exit
<1>6. ASSUME NEW r \in Reg \ Passing(a) PROVE ~IsDataOf(reg'[r], m)
  <2>1. CASE r = "r7"
    BY <1>5, <2>1, NotData DEF Load, Place
  <2>2. CASE r = "r8"
    <3>1. reg'[r] = reg["r8"]
      BY <1>5, <2>2, RegNames DEF Load, ExitClearsSaved, ExitClears, Arg
    <3> QED BY <1>4, <3>1, NotData DEF Place
  <2>3. CASE r = "r6"
    <3>1. reg'[r] = reg["r6"]
      BY <1>5, <2>3, RegNames DEF Load, ExitClearsSaved, ExitClears, Arg
    <3> QED BY <1>4, <3>1, NotData DEF Place, Target
  <2>4. CASE r \in ExitClearsSaved \cup ExitClears(ArgFlags(a)) \cup {"r2"}
    <3>1. reg'[r] = Zero \/ reg'[r] = Label("entry", m)
      BY <1>5, <2>4 DEF Load
    <3> QED BY <3>1, NotData DEF Place
  <2>5. CASE r \in Arg
    BY <2>4, <2>5, ExitChain
  <2> QED BY <2>1, <2>2, <2>3, <2>4, <2>5 DEF Reg, Saved, ExitClearsSaved
<1>7. At("exit", m) /\ ~At("tail", m)
  BY DEF Exit, At, Label
<1> QED BY <1>5, <1>6, <1>7 DEF LeavesNothing

LEMMA TailLeaves ==
    ASSUME IInv, NEW m \in SM, EntryTail(m)
    PROVE  LeavesNothing(m)
<1>1. PICK n : n = Depth
  OBVIOUS
<1>2. TypeOK /\ Consistent(n)
  BY <1>1 DEF IInv
<1>3. pc[1] = "tail" /\ pc[2] = m /\ dom(n) = m
  BY <1>2, Control DEF Consistent, EntryTail
<1>4. /\ n \in Nat \ {0} /\ n \in 1..n /\ m # Unprotected
      /\ base(n) \in Nat /\ calls[n].entry \in 0..NEntries-1
      /\ AtTail(n)
  <2>1. n \in Nat \ {0} /\ n \in 1..n /\ m # Unprotected /\ AtTail(n)
    BY <1>1, <1>2, <1>3, Basics DEF Consistent, Registers
  <2> QED BY <1>1, <1>2, <2>1, Bounds, ActivationTypes DEF Consistent
<1>5. PICK e \in Domain : e = dom(n-1) /\ e # m
  BY <1>1, <1>2, <1>3, <1>4, ActivationTypes DEF Chain, Consistent, AtTail
<1>6. \A r : CallerReg(n, r) = Given(e, n-1, m, r)
  BY <1>3, <1>5 DEF CallerReg
<1>7. \A r : ~IsDataOf(Given(e, n-1, m, r), m)
  BY <1>5, NotData DEF Given, Place
<1>8. PICK i \in 0..NEntries-1 :
          /\ reg["r6"] = Num(6 * i)
          /\ LET popped == Popped(stack[m], r1, EntryPops)
                 clears == RetClears(TableFlags(RetWords[i]))
             IN reg' = [Load(popped, clears \cup {"r2"}, Zero) EXCEPT
                           !["r6"] = RET]
  BY DEF EntryTail
<1>9. i = calls[n].entry
  <2>1. reg["r6"] = Num(6 * calls[n].entry)
    BY <1>3, <1>4 DEF AtTail, FunReg, Saved
  <2>2. 6 * i = 6 * calls[n].entry
    BY <1>8, <2>1 DEF Num
  <2> QED BY <1>4, <2>2, StubsAssumption, SMTT(30) DEF StubsAssumption
<1>10. RetWords[i] \in {0, 1, 2, 4}
  BY StubsAssumption DEF StubsAssumption
<1> DEFINE clears == RetClears(TableFlags(RetWords[i]))
           popped == Popped(stack[m], r1, EntryPops)
<1>11. ASSUME NEW r \in Reg \ Passing(RetWords[i]) PROVE ~IsDataOf(reg'[r], m)
  <2>1. CASE r = "r6"
    BY <1>8, <2>1, NotData DEF Load
  <2>2. CASE r \in clears \cup {"r2"}
    <3>1. reg'[r] = Zero \/ reg'[r] = RET
      <4> HIDE DEF popped
      <4> QED BY <1>8, <2>2 DEF Load, popped
    <3> QED BY <3>1, NotData
  <2>3. CASE r \in Arg
    BY <1>10, <2>2, <2>3, RetChain
  <2>4. CASE r \in DOMAIN EntryPops
    <3>1. r # "r6" /\ r \notin clears \cup {"r2"}
      BY <2>4 DEF EntryPops, RetClears, Arg
    <3>2. reg'[r] = popped[r]
      BY <1>8, <3>1 DEF Load
    <3>3. popped[r] = stack[m][r1 - EntryPops[r]]
      BY <2>4 DEF Popped
    <3>4. EntryFrame(n) /\ r1 = base(n) - 1
      BY <1>2, <1>4 DEF Consistent, Frames, AtTail
    <3>5. stack[m][r1 - EntryPops[r]] = CallerReg(n, r)
      BY <1>3, <1>4, <2>4, <3>4 DEF EntryPops, EntryFrame
    <3> QED BY <1>6, <1>7, <3>2, <3>3, <3>5
  <2>5. CASE r = "r7"
    <3>1. reg'[r] = reg["r7"]
      BY <1>8, <2>5, RegNames DEF Load, Popped, EntryPops, RetClears, Arg
    <3>2. reg["r7"] = CallerReg(n, "r7")
      BY <1>3, <1>4 DEF AtTail, FunReg, Saved
    <3> QED BY <1>6, <1>7, <3>1, <3>2
  <2> QED BY <2>1, <2>2, <2>3, <2>4, <2>5 DEF Reg, Saved, EntryPops
<1>12. At("tail", m) /\ ~At("exit", m) /\ Top.entry = i
  BY <1>1, <1>9 DEF EntryTail, At, Label, Top
<1> QED BY <1>11, <1>12 DEF LeavesNothing

LEMMA LeavesStep ==
    ASSUME IInv, [Next]_vars, NEW m \in SM, pc[2] = m, pc'[2] # m
    PROVE  LeavesNothing(m)
<1> SUFFICES ASSUME At("exit", m) \/ At("tail", m) PROVE LeavesNothing(m)
  BY DEF LeavesNothing
<1>1. Exit(m) \/ EntryTail(m)
  <2>1. m # Unprotected /\ pc \in {Label("exit", m), Label("tail", m)}
    BY StubsAssumption DEF StubsAssumption, At
  <2>2. /\ \A d \in Domain : ~Prologue(d) /\ ~Epilogue(d)
        /\ \A t \in SM, i \in 0..NEntries : ~CallStub(t, i)
        /\ ~CallStubReturn
    BY <2>1 DEF Prologue, Epilogue, CallStub, CallStubReturn, At, Label
  <2>3. \A o, t, i, a : ~OutcallStub(o, t, i, a)
    BY <2>1 DEF OutcallStub, At, Label
  <2>4. /\ \A t, i : ~EntryCall(t, i)
        /\ \A t : ~EntryError(t) /\ ~EntryReturn(t)
        /\ ~TrampolineCall /\ ~TrampolineTail
    BY <2>1 DEF EntryCall, EntryError, EntryReturn, TrampolineCall,
                TrampolineTail, At, Label
  <2>5. ~(UNCHANGED vars) /\ ~Stopped
    BY DEF vars, Stopped
  <2>6. \A t \in SM \ {m} : ~Exit(t) /\ ~EntryTail(t)
    BY <2>1 DEF Exit, EntryTail, At, Label
  <2> QED BY <2>2, <2>3, <2>4, <2>5, <2>6 DEF Next
<1> QED BY <1>1, ExitLeaves, TailLeaves

\* Whatever a module computes, control leaves it with none of its data in a
\* register but those of the declared arguments or results.
THEOREM NothingLeft ==
    ASSUME ResavesSp \/ ~CallsBack
    PROVE  Spec => NoResidue
<1>1. ASSUME IInv, [Next]_vars
      PROVE  [\A m \in SM : pc[2] = m /\ pc'[2] # m => LeavesNothing(m)]_vars
  BY <1>1, LeavesStep
<1> QED BY <1>1, StubsInvariant, PTL DEF Spec, NoResidue
-----------------------------------------------------------------------------
(* How many words of each stack are in use.                                 *)

\* The activations among the first m that run in domain d.
Live(d, m) == {k \in 1..m : dom(k) = d}

LEMMA LiveFinite ==
    ASSUME NEW d, NEW m \in Nat
    PROVE  /\ IsFiniteSet(Live(d, m)) /\ Cardinality(Live(d, m)) \in Nat
           /\ Cardinality(Live(d, m)) = 0 <=> Live(d, m) = {}
<1>1. IsFiniteSet(1..m) /\ Live(d, m) \subseteq 1..m
  BY FS_Interval DEF Live
<1>2. IsFiniteSet(Live(d, m))
  BY <1>1, FS_Subset
<1> QED BY <1>2, FS_CardinalityType, FS_EmptySet

\* Activation k is one more than those before it, and the last of its domain
\* where no later activation runs there.
LEMMA LiveGrows ==
    ASSUME NEW d, NEW m \in Nat, NEW k \in 1..m, dom(k) = d,
           \A i \in k+1..m : dom(i) # d
    PROVE  Cardinality(Live(d, m)) = Cardinality(Live(d, k-1)) + 1
<1>1. k-1 \in Nat
  OBVIOUS
<1>2. Live(d, m) = Live(d, k-1) \cup {k} /\ k \notin Live(d, k-1)
  BY DEF Live
<1> QED BY <1>1, <1>2, LiveFinite, FS_AddElement

LEMMA NeedGrows ==
    ASSUME NEW d, NEW c \in Nat, d = Unprotected => c > 0
    PROVE  Need(d, c + 1) = Need(d, c) + IF d = Unprotected THEN 12 ELSE 24
BY DEF Need

\* A stack that ends with the innermost of the first m activations holds the
\* words of all of them.
LEMMA EndIsNeed ==
    ASSUME TypeOK, NEW n, n = Depth, Chain(n), NEW d \in Domain
    PROVE  \A m \in 1..n : \A p : EndsAt(d, m, p) => p = Need(d, Cardinality(Live(d, m)))
<1> DEFINE Sound(m) == \A p : EndsAt(d, m, p) => p = Need(d, Cardinality(Live(d, m)))
           S == {m \in Nat : m \in 1..n => Sound(m)}
<1>0. n \in Nat \ {0} /\ dom(1) = Unprotected /\ base(1) = 0
  BY Basics DEF Chain, dom, base
<1>1. ASSUME NEW m \in Nat, \A l \in 0..m-1 : l \in S PROVE m \in S
  <2> SUFFICES ASSUME m \in 1..n, NEW p, EndsAt(d, m, p)
               PROVE  p = Need(d, Cardinality(Live(d, m)))
    OBVIOUS
  <2>1. CASE p = 0 /\ \A j \in 1..m : dom(j) # d
    <3>1. Live(d, m) = {} /\ d # Unprotected
      BY <1>0, <2>1 DEF Live
    <3> QED BY <2>1, <3>1, FS_EmptySet DEF Need
  <2>2. ASSUME NEW j \in 1..m, dom(j) = d, p = End(j), \A i \in j+1..m : dom(i) # d
        PROVE  p = Need(d, Cardinality(Live(d, m)))
    <3>1. Cardinality(Live(d, m)) = Cardinality(Live(d, j-1)) + 1
      BY <2>2, LiveGrows
    <3>2. CASE j = 1
      <4>1. Live(d, j-1) = {} /\ d = Unprotected /\ p = 11
        BY <1>0, <2>2, <3>2 DEF Live, End
      <4>2. Cardinality(Live(d, m)) = 1
        BY <3>1, <4>1, FS_EmptySet
      <4> QED BY <4>1, <4>2 DEF Need
    <3>3. CASE j > 1
      <4>1. j \in 2..n /\ j-1 \in 0..m-1 /\ j-1 \in 1..n
        BY <1>0, <3>3
      <4>2. EndsAt(d, j-1, Start(j))
        BY <2>2, <4>1 DEF Chain
      <4>3. Sound(j-1)
        BY <1>1, <4>1
      <4>4. Start(j) = Need(d, Cardinality(Live(d, j-1)))
        BY <4>2, <4>3
      <4>5. /\ Start(j) \in Nat /\ base(j) \in Nat
            /\ End(j) = Start(j) + IF d = Unprotected THEN 12 ELSE 24
        BY <2>2, <4>1, Bounds
      <4>6. Cardinality(Live(d, j-1)) \in Nat
        BY <4>1, LiveFinite
      <4>7. d = Unprotected => Cardinality(Live(d, j-1)) > 0
        <5> SUFFICES ASSUME d = Unprotected PROVE Cardinality(Live(d, j-1)) > 0
          OBVIOUS
        <5>1. 1 \in Live(d, j-1)
          BY <1>0, <4>1 DEF Live
        <5>2. Cardinality(Live(d, j-1)) # 0
          BY <4>1, <5>1, LiveFinite
        <5> QED BY <4>6, <5>2
      <4> QED BY <2>2, <3>1, <4>4, <4>5, <4>6, <4>7, NeedGrows
    <3> QED BY <3>2, <3>3
  <2> QED BY <2>1, <2>2 DEF EndsAt
<1> HIDE DEF Sound
<1>2. S = Nat
  <2> HIDE DEF S
  <2>1. S \in SUBSET Nat
    BY DEF S
  <2> QED BY <1>1, <2>1, Inductive, Zenon
<1>3. \A m \in 1..n : Sound(m)
  BY <1>0, <1>2
<1> QED BY <1>3 DEF Sound

LEMMA InvStackUse == IInv => StackUse
<1> SUFFICES ASSUME IInv, NEW d \in Domain
             PROVE  LET n == Cardinality(Activations(d)) IN
                    IF pc[2] = d /\ pc[1] \in {"fun", "body", "tail", "exit"}
                    THEN r1 \in Need(d, n - 1) .. Need(d, n)
                    ELSE CurrentSp(d) = Need(d, n)
  BY DEF StackUse
<1>1. PICK n : n = Depth
  OBVIOUS
<1>2. TypeOK /\ Consistent(n) /\ Chain(n)
  BY <1>1 DEF IInv, Consistent
<1>3. n \in Nat \ {0} /\ n \in 1..n /\ r1 \in Nat
  BY <1>1, <1>2, Basics
<1>4. Activations(d) = Live(d, n)
  BY <1>1 DEF Activations, Live, dom
<1>5. ASSUME NEW m \in 1..n, NEW p, EndsAt(d, m, p)
      PROVE  p = Need(d, Cardinality(Live(d, m)))
  BY <1>1, <1>2, <1>5, EndIsNeed
<1>6. CASE ~(pc[2] = d /\ Running)
  <2>1. EndsAt(d, n, CurrentSp(d))
    BY <1>2, <1>6 DEF Consistent, SavedPointers, Registers
  <2> QED BY <1>3, <1>4, <1>5, <1>6, <2>1 DEF Running
<1>7. CASE pc[2] = d /\ Running
  <2>1. dom(n) = d
    BY <1>2, <1>7 DEF Consistent, Registers
  <2>2. EndsAt(d, n, End(n))
    BY <1>3, <2>1 DEF EndsAt
  <2>3. End(n) = Need(d, Cardinality(Live(d, n)))
    BY <1>3, <1>5, <2>2
  <2>4. Cardinality(Live(d, n)) = Cardinality(Live(d, n-1)) + 1
    BY <1>3, <2>1, LiveGrows
  <2>5. Cardinality(Live(d, n-1)) \in Nat
    BY <1>3, LiveFinite
  <2>6. Start(n) = Need(d, Cardinality(Live(d, n-1)))
    <3>1. CASE n = 1
      <4>1. Live(d, n-1) = {} /\ Start(n) = 0
        BY <3>1 DEF Live, Start
      <4> QED BY <4>1, FS_EmptySet DEF Need
    <3>2. CASE n > 1
      <4>1. n \in 2..n /\ n-1 \in 1..n
        BY <1>3, <3>2
      <4>2. EndsAt(d, n-1, Start(n))
        BY <1>2, <2>1, <4>1 DEF Chain
      <4> QED BY <1>5, <4>1, <4>2
    <3> QED BY <1>3, <3>1, <3>2
  <2>7. r1 \in Start(n) .. End(n)
    <3>1. /\ base(n) \in Nat /\ Start(n) \in Nat
          /\ n > 1 => Start(n) = IF d = Unprotected THEN base(n) - 1 ELSE base(n) - 7
          /\ n = 1 => Start(n) = 0 /\ base(n) = 0
          /\ End(n) = IF d = Unprotected THEN base(n) + 11 ELSE base(n) + 17
      BY <1>1, <1>2, <1>3, <2>1, Bounds DEF Chain, base, Start
    <3>2. \/ n > 1 /\ r1 = base(n)
          \/ r1 = base(n) + 8
          \/ n > 1 /\ r1 = base(n) - 1
          \/ d # Unprotected /\ r1 = base(n) + 12
      BY <1>2, <1>7 DEF Running, Consistent, Registers, AtFun, AtBody, AtTail, AtExit
    <3> QED BY <1>3, <3>1, <3>2
  <2>8. Cardinality(Live(d, n)) - 1 = Cardinality(Live(d, n-1))
    BY <2>4, <2>5
  <2> QED BY <1>4, <1>7, <2>3, <2>6, <2>7, <2>8 DEF Running
<1> QED BY <1>6, <1>7

\* However deeply and often modules and unprotected code call each other, a
\* stack holds exactly the words of the activations of its domain that are
\* alive: what every module needs is 24 words for each nested call into it.
THEOREM StacksExact ==
    ASSUME ResavesSp \/ ~CallsBack
    PROVE  Spec => []StackUse
BY StubsInvariant, InvStackUse, PTL

-----------------------------------------------------------------------------
(* Where the stubs branch to.                                               *)

LEMMA Shorter ==
    ASSUME NEW l, NEW d, NEW l1, NEW d1, At(l, d), pc' = Label(l1, d1),
           \/ l \in {"exit", "tail"} /\ l1 \in {"entry", "cont"}
           \/ l = "entry" /\ l1 \in {"fun", "body", "stop"}
           \/ l \in {"fun", "cont"} /\ l1 = "body"
    PROVE  pc'[1] \in Place /\ StubsLeft' < StubsLeft
<1>1. pc[1] = l /\ pc'[1] = l1
  BY DEF At, Label
<1> QED BY <1>1 DEF StubsLeft, Place

LEMMA ShortensStep ==
    ASSUME ResavesSp \/ ~CallsBack, IInv, [Next]_vars
    PROVE  [pc[1] \notin {"body", "stop"} =>
               pc'[1] \in Place /\ StubsLeft' < StubsLeft]_vars
<1> SUFFICES ASSUME Next, pc[1] \notin {"body", "stop"}, vars' # vars
             PROVE  pc'[1] \in Place /\ StubsLeft' < StubsLeft
  OBVIOUS
<1>1. PICK n : n = Depth
  OBVIOUS
<1>2. TypeOK /\ Consistent(n)
  BY <1>1 DEF IInv
<1>3. ~Stopped /\ \A d : ~At("body", d)
  BY DEF Stopped, At, Label
<1>4. \A d \in Domain : ~Epilogue(d)
  BY <1>3 DEF Epilogue
<1>5. \A m \in SM, i \in 0..NEntries : ~CallStub(m, i)
  BY <1>3 DEF CallStub
<1>6. \A m, t, i, a : ~OutcallStub(m, t, i, a)
  BY <1>3 DEF OutcallStub
<1>7. ASSUME NEW d \in Domain, Prologue(d)
      PROVE  pc'[1] \in Place /\ StubsLeft' < StubsLeft
  <2>1. At("fun", d) /\ pc' = Label("body", d)
    BY <1>7 DEF Prologue
  <2> QED BY <2>1, Shorter
<1>8. CASE CallStubReturn
  <2>1. At("cont", Unprotected) /\ pc' = Label("body", Unprotected)
    BY <1>1, <1>2, <1>8, CallStubReturnStep DEF CallStubReturn
  <2> QED BY <2>1, Shorter
<1>9. ASSUME NEW m \in SM, NEW i \in 0..NEntries-1, EntryCall(m, i)
      PROVE  pc'[1] \in Place /\ StubsLeft' < StubsLeft
  <2>1. At("entry", m) /\ pc' = Label("fun", m)
    BY <1>9 DEF EntryCall
  <2> QED BY <2>1, Shorter
<1>10. ASSUME NEW m \in SM, EntryError(m)
       PROVE  pc'[1] \in Place /\ StubsLeft' < StubsLeft
  <2>1. At("entry", m) /\ pc' = Label("stop", m)
    BY <1>10 DEF EntryError
  <2> QED BY <2>1, Shorter
<1>11. ASSUME NEW m \in SM, EntryReturn(m)
       PROVE  pc'[1] \in Place /\ StubsLeft' < StubsLeft
  <2>1. At("entry", m) /\ pc' = Label("body", m)
    BY <1>1, <1>2, <1>11, EntryReturnStep DEF EntryReturn
  <2> QED BY <2>1, Shorter
<1>12. ASSUME NEW m \in SM, EntryTail(m)
       PROVE  pc'[1] \in Place /\ StubsLeft' < StubsLeft
  <2>1. At("tail", m) /\ pc'[1] \in {"cont", "entry"}
    BY <1>1, <1>2, <1>12, EntryTailStep DEF EntryTail
  <2>2. pc[1] = "tail"
    BY <2>1 DEF At, Label
  <2> QED BY <2>1, <2>2 DEF StubsLeft, Place
<1>13. ASSUME NEW m \in SM, Exit(m)
       PROVE  pc'[1] \in Place /\ StubsLeft' < StubsLeft
  <2>1. PICK t \in Domain : pc' = Label("entry", t)
    BY <1>1, <1>2, <1>13, ExitStep
  <2>2. At("exit", m)
    BY <1>13 DEF Exit
  <2> QED BY <2>1, <2>2, Shorter
<1>14. CASE TrampolineCall
  <2>1. At("entry", Unprotected) /\ pc' = reg["r6"]
    BY <1>14 DEF TrampolineCall
  <2>2. reg["r6"] = Label("fun", Unprotected)
    BY <1>2, <2>1 DEF Consistent, Registers, AtReturn, AtCall, Target, At, Label
  <2> QED BY <2>1, <2>2, Shorter
<1>15. CASE TrampolineTail
  <2>1. At("tail", Unprotected) /\ pc'[1] \in {"cont", "entry"}
    BY <1>1, <1>2, <1>15, TrampolineTailStep DEF TrampolineTail
  <2>2. pc[1] = "tail"
    BY <2>1 DEF At, Label
  <2> QED BY <2>1, <2>2 DEF StubsLeft, Place
<1> QED
  BY <1>3, <1>4, <1>5, <1>6, <1>7, <1>8, <1>9, <1>10, <1>11, <1>12, <1>13,
     <1>14, <1>15 DEF Next

\* At most three stubs run between two pieces of compiled code, in whatever
\* order and depth the domains call each other.
THEOREM StubsAreShort ==
    ASSUME ResavesSp \/ ~CallsBack
    PROVE  Spec => StubsShorten
<1>1. ASSUME IInv, [Next]_vars
      PROVE  [pc[1] \notin {"body", "stop"} =>
                 pc'[1] \in Place /\ StubsLeft' < StubsLeft]_vars
  BY <1>1, ShortensStep
<1> QED BY <1>1, StubsInvariant, PTL DEF Spec, StubsShorten

-----------------------------------------------------------------------------
(* The stubs implement the subroutine calls of AbstractCalls: every step of *)
(* the stubs is a step of AbstractCalls or leaves its variables alone.      *)

\* The variables of AbstractCalls, as the refinement mapping reads them.
Doms == [k \in 1..Depth |-> calls[k].dom]
Who == IF pc[1] = "body" THEN <<pc[2], reg["r4"][3]>> ELSE Nobody
Request == IF pc[1] = "exit" THEN reg["r8"][2]
           ELSE IF pc[1] = "stop" \/ (pc[1] = "entry" /\ reg["r6"] # RET)
                THEN pc[2] ELSE Nobody

LEMMA MapInit ==
    ASSUME Doms = <<Unprotected>>, Who = <<Unprotected, 1>>, Request = Nobody
    PROVE  Calls!Init
BY DEF Calls!Init, Doms, Who, Request

LEMMA MapCall ==
    ASSUME NEW t \in Domain, Who # Nobody, t # Who[1], Request' = t,
           Who' = Nobody, Doms' = Doms
    PROVE  Calls!Call(t)
BY DEF Calls!Call, Doms, Who, Request

LEMMA MapAccept ==
    ASSUME Request # Nobody, Doms' = Append(Doms, Request), Request' = Nobody,
           Who' = Who
    PROVE  Calls!Accept
BY DEF Calls!Accept, Doms, Who, Request

LEMMA MapFinish ==
    ASSUME Who # Nobody, Len(Doms) > 1, Who' = Nobody, Doms' = Doms,
           Request' = Request
    PROVE  Calls!Finish
BY DEF Calls!Finish, Doms, Who, Request

LEMMA MapReturn ==
    ASSUME Who = Nobody, Request = Nobody, Len(Doms) > 1,
           Doms' = SubSeq(Doms, 1, Len(Doms) - 1), Who' = Who, Request' = Request
    PROVE  Calls!Return
BY DEF Calls!Return, Doms, Who, Request

LEMMA MapResume ==
    ASSUME Who = Nobody, Request = Nobody,
           Who' = <<Doms[Len(Doms)], Len(Doms)>>, Doms' = Doms, Request' = Request
    PROVE  Calls!Resume
BY DEF Calls!Resume, Calls!Innermost, Doms, Who, Request

LEMMA MapStutter ==
    ASSUME Doms' = Doms, Who' = Who, Request' = Request
    PROVE  UNCHANGED Calls!vars
BY DEF Calls!vars, Doms, Who, Request

-----------------------------------------------------------------------------
(* What the mapping shows of a state.                                       *)

LEMMA DomsType ==
    ASSUME TypeOK, NEW n, n = Depth
    PROVE  /\ n \in Nat /\ Doms \in Seq(Domain) /\ Len(Doms) = n
           /\ \A k \in 1..n : Doms[k] = dom(k)
<1>1. n \in Nat /\ \A k \in 1..n : dom(k) \in Domain
  BY ActivationTypes
<1>2. Doms = [k \in 1..n |-> dom(k)]
  BY DEF Doms, dom
<1> QED BY <1>1, <1>2

LEMMA DomsSame ==
    ASSUME calls' = calls
    PROVE  Doms' = Doms
BY DEF Doms, Depth

LEMMA DomsPlus ==
    ASSUME TypeOK, TypeOK', NEW n, n = Depth, NEW d \in Domain,
           SameCalls(n), Depth' = n+1, dom(n+1)' = d
    PROVE  Doms' = Append(Doms, d)
<1>1. /\ n \in Nat /\ Doms \in Seq(Domain) /\ Len(Doms) = n
      /\ \A k \in 1..n : Doms[k] = dom(k)
  BY DomsType
<1>2. \A k \in 1..n : dom(k)' = dom(k)
  BY DEF SameCalls, dom
<1>3. Doms' = [k \in 1..n+1 |-> dom(k)']
  BY DEF Doms, dom
<1>4. \A k \in 1..n+1 : dom(k)' \in Domain
  <2>1. \A k \in 1..n+1 : k \in 1..n \/ k = n+1
    BY <1>1
  <2>2. \A k \in 1..n : dom(k) \in Domain
    BY ActivationTypes
  <2> QED BY <1>2, <2>1, <2>2
<1>5. /\ Doms' \in Seq(Domain) /\ Len(Doms') = n+1
      /\ \A k \in 1..n+1 : Doms'[k] = dom(k)'
  BY <1>1, <1>3, <1>4
<1> DEFINE s == Append(Doms, d)
<1>6. /\ s \in Seq(Domain) /\ Len(s) = n+1
      /\ \A k \in 1..n : s[k] = Doms[k]
      /\ s[n+1] = d
  <2>1. /\ Append(Doms, d) \in Seq(Domain) /\ Len(Append(Doms, d)) = Len(Doms)+1
        /\ \A k \in 1..Len(Doms) : Append(Doms, d)[k] = Doms[k]
        /\ Append(Doms, d)[Len(Doms)+1] = d
    BY <1>1, AppendProperties
  <2> QED BY <1>1, <2>1
<1>7. \A k \in 1..n+1 : Doms'[k] = s[k]
  <2> SUFFICES ASSUME NEW k \in 1..n+1 PROVE Doms'[k] = s[k]
    OBVIOUS
  <2>1. CASE k \in 1..n
    <3> HIDE DEF s
    <3> QED BY <1>1, <1>2, <1>5, <1>6, <2>1
  <2>2. CASE k = n+1
    <3> HIDE DEF s
    <3> QED BY <1>5, <1>6, <2>2
  <2> QED BY <1>1, <2>1, <2>2
<1> HIDE DEF s
<1>8. Doms' = s
  BY <1>5, <1>6, <1>7, SeqEqual
<1> QED BY <1>8 DEF s

LEMMA DomsMinus ==
    ASSUME TypeOK, NEW n, n = Depth, n > 1, SameCalls(n-1), Depth' = n-1
    PROVE  Doms' = SubSeq(Doms, 1, n-1)
<1>1. /\ n \in Nat /\ Doms \in Seq(Domain) /\ Len(Doms) = n
      /\ \A k \in 1..n : Doms[k] = dom(k)
  BY DomsType
<1>2. /\ \A k \in 1..n-1 : dom(k)' = dom(k)
      /\ \A k \in 1..n-1 : dom(k) \in Domain
  BY <1>1, ActivationTypes DEF SameCalls, dom
<1>3. Doms' = [k \in 1..n-1 |-> dom(k)']
  BY DEF Doms, dom
<1>4. /\ Doms' \in Seq(Domain) /\ Len(Doms') = n-1
      /\ \A k \in 1..n-1 : Doms'[k] = Doms[k]
  <2>1. n-1 \in Nat
    BY <1>1
  <2> QED BY <1>1, <1>2, <1>3, <2>1
<1>5. PICK s : s = SubSeq(Doms, 1, n-1)
  OBVIOUS
<1>6. /\ s \in Seq(Domain) /\ Len(s) = n-1
      /\ \A k \in 1..n-1 : s[k] = Doms[k]
  <2> DEFINE m == n-1
  <2>1. /\ 1 \in Int /\ m \in Int /\ \A i \in 1..m : Doms[i] \in Domain
    BY <1>1
  <2>2. /\ SubSeq(Doms, 1, m) \in Seq(Domain)
        /\ Len(SubSeq(Doms, 1, m)) = IF 1 <= m THEN m - 1 + 1 ELSE 0
        /\ \A i \in 1..m-1+1 : SubSeq(Doms, 1, m)[i] = Doms[1+i-1]
    <3> HIDE DEF m
    <3> QED BY <2>1, SubSeqProperties
  <2> QED BY <1>1, <1>5, <2>2
<1>7. Doms' = s
  BY <1>4, <1>6, SeqEqual
<1> QED BY <1>5, <1>7

\* While compiled code runs, the registers name the innermost activation.
LEMMA WhoRuns ==
    ASSUME TypeOK, NEW n, n = Depth, Consistent(n), NEW d, At("body", d)
    PROVE  /\ Who = <<d, n>> /\ Who # Nobody /\ d = dom(n) /\ Request = Nobody
           /\ d \in Domain
<1>1. pc[1] = "body" /\ pc[2] = d /\ dom(n) = d
  BY Control DEF Consistent
<1>2. reg["r4"] = Data(d, n, "r4")
  BY <1>1 DEF Consistent, Registers, AtBody, Saved
<1>3. Who = <<d, n>>
  BY <1>1, <1>2 DEF Who, Data
<1>4. <<d, n>> \in Domain \X Nat
  <2>1. n \in Nat \ {0} /\ n \in 1..n
    BY Basics DEF Consistent
  <2> QED BY <1>1, <2>1, ActivationTypes
<1>5. Who # Nobody
  BY <1>3, <1>4, StubsAssumption DEF StubsAssumption
<1>6. Request = Nobody
  BY <1>1 DEF Request
<1> QED BY <1>1, <1>3, <1>4, <1>5, <1>6

\* The same of the state after a step.
LEMMA WhoRunsNext ==
    ASSUME NEW n \in Nat, Consistent(n)', NEW d, pc' = Label("body", d)
    PROVE  Who' = <<d, n>> /\ Request' = Nobody
<1>1. pc'[1] = "body" /\ pc'[2] = d
  BY DEF Label
<1>2. reg'["r4"] = Data(d, n, "r4")
  BY <1>1 DEF Consistent, Registers, AtBody, Saved
<1> QED BY <1>1, <1>2 DEF Who, Request, Data

LEMMA NotNobody == \A d \in Domain : d # Nobody
BY StubsAssumption DEF StubsAssumption

LEMMA Elsewhere ==
    /\ \A l, d : At(l, d) /\ l # "body" => Who = Nobody
    /\ \A l, d : pc' = Label(l, d) /\ l # "body" => Who' = Nobody
    /\ \A l, d : At(l, d) /\ l \notin {"exit", "stop", "entry"} => Request = Nobody
    /\ \A l, d : pc' = Label(l, d) /\ l \notin {"exit", "stop", "entry"}
            => Request' = Nobody
    /\ \A d : At("entry", d) /\ reg["r6"] # RET => Request = d
    /\ \A d : pc' = Label("entry", d) /\ reg'["r6"] # RET => Request' = d
    /\ \A d : At("entry", d) /\ reg["r6"] = RET => Request = Nobody
BY DEF At, Label, Who, Request

\* r6 tells a call from a return.
LEMMA TargetIsNoRET ==
    \A t : (Target(t) => reg["r6"] # RET) /\ (Target(t)' => reg'["r6"] # RET)
<1>1. Label("fun", Unprotected) # RET
  BY DEF Label, RET, Num
<1> QED BY <1>1, IndexIsNoRET DEF Target

-----------------------------------------------------------------------------
(* The steps.                                                               *)

LEMMA RefCall ==
    ASSUME TypeOK, NEW n, n = Depth, Consistent(n), NEW d, At("body", d),
           calls' = calls, NEW t \in Domain, t # d, Who' = Nobody, Request' = t
    PROVE  Calls!Next
<1>1. Who = <<d, n>> /\ Who # Nobody
  BY WhoRuns
<1>2. Doms' = Doms /\ t # Who[1]
  BY <1>1, DomsSame
<1>3. Calls!Call(t)
  BY <1>1, <1>2, MapCall
<1> QED BY <1>3 DEF Calls!Next

LEMMA RefResume ==
    ASSUME TypeOK, NEW n, n = Depth, Consistent(n), calls' = calls,
           Who = Nobody, Request = Nobody,
           Consistent(n)', NEW d, pc' = Label("body", d), d = dom(n)
    PROVE  Calls!Next
<1>1. n \in Nat \ {0} /\ n \in 1..n
  BY Basics DEF Consistent
<1>2. Who' = <<d, n>> /\ Request' = Nobody
  BY <1>1, WhoRunsNext
<1>3. Doms' = Doms /\ Len(Doms) = n /\ Doms[n] = d
  BY <1>1, DomsSame, DomsType
<1>4. Calls!Resume
  BY <1>2, <1>3, MapResume
<1> QED BY <1>4 DEF Calls!Next

LEMMA RefAccept ==
    ASSUME TypeOK, TypeOK', NEW n, n = Depth, Consistent(n),
           NEW d \in Domain, At("entry", d), reg["r6"] # RET,
           SameCalls(n), Depth' = n+1, dom(n+1)' = d, pc' = Label("fun", d)
    PROVE  Calls!Next
<1>1. Request = d /\ Request # Nobody /\ Request' = Nobody
  BY Elsewhere, NotNobody
<1>2. Who = Nobody /\ Who' = Nobody
  BY Elsewhere
<1>3. Doms' = Append(Doms, d)
  BY DomsPlus
<1>4. Calls!Accept
  BY <1>1, <1>2, <1>3, MapAccept
<1> QED BY <1>4 DEF Calls!Next

LEMMA RefReturn ==
    ASSUME TypeOK, NEW n, n = Depth, Consistent(n), NEW d, At("tail", d),
           calls' = SubSeq(calls, 1, Depth - 1), stack' = stack,
           reg'["r6"] = RET, pc'[1] \in {"cont", "entry"}
    PROVE  Calls!Next
<1>1. n > 1
  <2>1. pc[1] = "tail"
    BY DEF At, Label
  <2> QED BY <2>1 DEF Consistent, Registers, AtTail
<1>2. SameCalls(n-1) /\ Depth' = n-1
  BY <1>1, Returned DEF Consistent
<1>3. Doms' = SubSeq(Doms, 1, n-1) /\ Len(Doms) = n
  BY <1>1, <1>2, DomsMinus, DomsType
<1>4. Who = Nobody /\ Request = Nobody
  BY Elsewhere
<1>5. Who' = Nobody /\ Request' = Nobody
  BY DEF Who, Request
<1>6. Calls!Return
  BY <1>1, <1>3, <1>4, <1>5, MapReturn
<1> QED BY <1>6 DEF Calls!Next

\* Every step of the stubs is a step of AbstractCalls or stutters.
LEMMA RefStep ==
    ASSUME ResavesSp \/ ~CallsBack, IInv, IInv', [Next]_vars
    PROVE  [Calls!Next]_(Calls!vars)
<1>1. TypeOK /\ TypeOK'
  BY DEF IInv
<1>2. PICK n : n = Depth
  OBVIOUS
<1>3. Consistent(n) /\ n \in Nat \ {0} /\ n \in 1..n
  BY <1>1, <1>2, Basics DEF IInv, Consistent
<1>4. ASSUME NEW d \in Domain, Prologue(d) PROVE Calls!Next
  <2>1. Consistent(n)' /\ At("fun", d) /\ pc' = Label("body", d) /\ calls' = calls
    BY <1>1, <1>2, <1>3, <1>4, PrologueStep DEF Prologue
  <2>2. Who = Nobody /\ Request = Nobody /\ d = dom(n)
    BY <1>3, <2>1, Elsewhere, Control DEF Consistent
  <2> QED BY <1>1, <1>2, <1>3, <2>1, <2>2, RefResume
<1>5. ASSUME NEW d \in Domain, Epilogue(d) PROVE Calls!Next
  <2>1. pc' = Label("tail", d) /\ At("body", d) /\ calls' = calls
    BY <1>1, <1>2, <1>3, <1>5, EpilogueStep DEF Epilogue
  <2>2. Who # Nobody /\ Request = Nobody /\ Who' = Nobody /\ Request' = Nobody
    BY <1>1, <1>2, <1>3, <2>1, WhoRuns, Elsewhere
  <2>3. Doms' = Doms /\ Len(Doms) = n /\ n > 1
    BY <1>1, <1>2, <1>5, <2>1, DomsSame, DomsType DEF Epilogue
  <2>4. Calls!Finish
    BY <2>2, <2>3, MapFinish
  <2> QED BY <2>4 DEF Calls!Next
<1>6. ASSUME NEW m \in SM, NEW i \in 0..NEntries, CallStub(m, i)
      PROVE  Calls!Next
  <2>1. /\ At("body", Unprotected) /\ calls' = calls /\ pc' = Label("entry", m)
        /\ m \in Domain /\ m # Unprotected
    BY <1>6, StubsAssumption DEF CallStub, Domain, StubsAssumption
  <2>2. reg'["r6"] = Num(i)
    BY <1>6, RegNames DEF CallStub, Fresh
  <2>3. Who' = Nobody /\ Request' = m
    BY <2>1, <2>2, Elsewhere, IndexIsNoRET
  <2> QED BY <1>1, <1>2, <1>3, <2>1, <2>3, RefCall
<1>7. ASSUME CallStubReturn PROVE Calls!Next
  <2>1. /\ Consistent(n)' /\ pc' = Label("body", Unprotected)
        /\ At("cont", Unprotected) /\ calls' = calls
    BY <1>1, <1>2, <1>3, <1>7, CallStubReturnStep DEF CallStubReturn
  <2>2. Who = Nobody /\ Request = Nobody
    BY <2>1, Elsewhere
  <2>3. Unprotected = dom(n)
    BY <2>1, <1>3 DEF Consistent, Registers, AtCont, At, Label
  <2> QED BY <1>1, <1>2, <1>3, <2>1, <2>2, <2>3, RefResume
<1>8. ASSUME NEW m \in SM, NEW t \in Domain \ {m}, NEW i \in 0..NEntries-1,
             NEW a \in 0..4, OutcallStub(m, t, i, a)
      PROVE  Calls!Next
  <2>1. At("body", m) /\ calls' = calls /\ pc' = Label("exit", m)
    BY <1>8 DEF OutcallStub
  <2>2. reg'["r8"] = Label("entry", t)
    BY <1>8, RegNames DEF OutcallStub, Fresh
  <2>3. Who' = Nobody /\ Request' = t
    BY <2>1, <2>2 DEF Who, Request, Label
  <2> QED BY <1>1, <1>2, <1>3, <2>1, <2>3, RefCall
<1>9. ASSUME NEW m \in SM, NEW i \in 0..NEntries-1, EntryCall(m, i)
      PROVE  Calls!Next
  <2>1. /\ At("entry", m) /\ reg["r6"] # RET /\ pc' = Label("fun", m)
        /\ m \in Domain
    <3>1. reg["r6"] = Num(i) /\ i \in 0..NEntries
      BY <1>9, StubsAssumption DEF EntryCall, StubsAssumption
    <3> QED BY <1>9, <3>1, IndexIsNoRET DEF EntryCall, Domain
  <2>2. SameCalls(n) /\ Depth' = n+1 /\ dom(n+1)' = m
    <3>1. PICK c : c = [dom |-> m, entry |-> i, base |-> CurrentSp(m)+7]
      OBVIOUS
    <3>2. calls' = Append(calls, c)
      BY <1>9, <3>1 DEF EntryCall
    <3>3. SameCalls(n) /\ Depth' = n+1 /\ calls'[n+1] = c
      BY <1>1, <1>2, <3>2, NewCall
    <3> QED BY <3>1, <3>3 DEF dom
  <2> QED BY <1>1, <1>2, <1>3, <2>1, <2>2, RefAccept
<1>10. ASSUME NEW m \in SM, EntryError(m) PROVE UNCHANGED Calls!vars
  <2>1. /\ At("entry", m) /\ pc' = Label("stop", m) /\ calls' = calls
        /\ reg["r6"] # RET
    <3>1. PICK k \in NEntries..MaxWord-1 : reg["r6"] = Num(k)
      BY <1>10 DEF EntryError
    <3>2. k # MaxWord
      BY IndexType, StubsAssumption DEF StubsAssumption
    <3>3. Num(k) # RET
      BY <3>2 DEF Num, RET
    <3> QED BY <1>10, <3>1, <3>3 DEF EntryError
  <2>2. Who = Nobody /\ Who' = Nobody /\ Request = m
    BY <2>1, Elsewhere
  <2>3. Request' = m
    BY <2>1 DEF Request, Label
  <2> QED BY <2>1, <2>2, <2>3, DomsSame, MapStutter
<1>11. ASSUME NEW m \in SM, EntryReturn(m) PROVE Calls!Next
  <2>1. /\ Consistent(n)' /\ pc' = Label("body", m) /\ At("entry", m)
        /\ calls' = calls /\ reg["r6"] = RET
    BY <1>1, <1>2, <1>3, <1>11, EntryReturnStep DEF EntryReturn
  <2>2. Who = Nobody /\ Request = Nobody
    BY <2>1, Elsewhere
  <2>3. m = dom(n)
    <3>1. pc'[1] = "body" /\ pc'[2] = m
      BY <2>1 DEF Label
    <3>2. dom(n)' = m
      BY <2>1, <3>1 DEF Consistent, Registers, Running
    <3> QED BY <2>1, <3>2 DEF dom
  <2> QED BY <1>1, <1>2, <1>3, <2>1, <2>2, <2>3, RefResume
<1>12. ASSUME NEW m \in SM, EntryTail(m) PROVE Calls!Next
  <2>1. reg'["r6"] = RET /\ pc'[1] \in {"cont", "entry"}
    BY <1>1, <1>2, <1>3, <1>12, EntryTailStep
  <2>2. /\ At("tail", m) /\ calls' = SubSeq(calls, 1, Depth - 1)
        /\ stack' = stack
    BY <1>12 DEF EntryTail
  <2> QED BY <1>1, <1>2, <1>3, <2>1, <2>2, RefReturn
<1>13. ASSUME NEW m \in SM, Exit(m) PROVE UNCHANGED Calls!vars
  <2>1. PICK t \in Domain : pc' = Label("entry", t) /\ Target(t)'
    BY <1>1, <1>2, <1>3, <1>13, ExitStep
  <2>2. At("exit", m) /\ calls' = calls /\ pc' = reg["r8"]
    BY <1>13 DEF Exit
  <2>3. Who = Nobody /\ Who' = Nobody /\ Request' = t
    BY <2>1, <2>2, Elsewhere, TargetIsNoRET
  <2>4. Request = t
    BY <2>1, <2>2 DEF Request, At, Label
  <2> QED BY <2>2, <2>3, <2>4, DomsSame, MapStutter
<1>14. ASSUME TrampolineCall PROVE Calls!Next
  <2>1. At("entry", Unprotected) /\ pc' = reg["r6"] /\ Unprotected \in Domain
    BY <1>14 DEF TrampolineCall, Domain
  <2>2. reg["r6"] = Label("fun", Unprotected)
    BY <1>3, <2>1 DEF Consistent, Registers, AtReturn, AtCall, Target, At, Label
  <2>3. reg["r6"] # RET
    BY <2>2 DEF Label, RET, Num
  <2>4. SameCalls(n) /\ Depth' = n+1 /\ dom(n+1)' = Unprotected
    <3>1. PICK c : c = [dom |-> Unprotected, entry |-> 0,
                        base |-> CurrentSp(Unprotected)+1]
      OBVIOUS
    <3>2. calls' = Append(calls, c)
      BY <1>14, <3>1 DEF TrampolineCall
    <3>3. SameCalls(n) /\ Depth' = n+1 /\ calls'[n+1] = c
      BY <1>1, <1>2, <3>2, NewCall
    <3> QED BY <3>1, <3>3 DEF dom
  <2>5. pc' = Label("fun", Unprotected)
    BY <2>1, <2>2
  <2> QED BY <1>1, <1>2, <1>3, <2>1, <2>3, <2>4, <2>5, RefAccept
<1>15. ASSUME TrampolineTail PROVE Calls!Next
  <2>1. reg'["r6"] = RET /\ pc'[1] \in {"cont", "entry"}
    BY <1>1, <1>2, <1>3, <1>15, TrampolineTailStep
  <2>2. /\ At("tail", Unprotected) /\ calls' = SubSeq(calls, 1, Depth - 1)
        /\ stack' = stack
    BY <1>15 DEF TrampolineTail
  <2> QED BY <1>1, <1>2, <1>3, <2>1, <2>2, RefReturn
<1>16. ASSUME UNCHANGED vars PROVE UNCHANGED Calls!vars
  BY <1>16, DomsSame, MapStutter DEF vars, Who, Request
<1>17. ASSUME NEW m \in SM, NEW a \in 0..4, OutcallStub(m, Unprotected, 0, a)
       PROVE  Calls!Next
  <2>1. Unprotected \in Domain \ {m} /\ 0 \in 0..NEntries-1
    BY StubsAssumption DEF StubsAssumption, Domain
  <2> QED BY <1>8, <1>17, <2>1
<1>18. ASSUME NEW m \in SM, NEW t \in SM \ {m}, NEW i \in 0..NEntries-1,
              NEW a \in 0..4, OutcallStub(m, t, i, a)
       PROVE  Calls!Next
  BY <1>8, <1>18 DEF Domain
<1> QED
  BY <1>4, <1>5, <1>6, <1>7, <1>9, <1>10, <1>11, <1>12, <1>13, <1>14, <1>15,
     <1>16, <1>17, <1>18 DEF Next, Stopped

LEMMA RefInit == Init => Calls!Init
<1> SUFFICES ASSUME Init PROVE Calls!Init
  OBVIOUS
<1>1. Doms = <<Unprotected>>
  <2>1. Depth = 1 /\ calls[1].dom = Unprotected
    BY DEF Init, Depth
  <2>2. \A k \in 1..1 : k = 1
    OBVIOUS
  <2>3. Doms = [k \in 1..1 |-> Unprotected]
    BY <2>1, <2>2 DEF Doms
  <2> QED BY <2>3
<1>2. Who = <<Unprotected, 1>> /\ Request = Nobody
  BY RegNames DEF Init, Who, Request, Label, Data
<1> QED BY <1>1, <1>2, MapInit

\* The stubs implement subroutine calls: a call is accepted by the domain it
\* was made to or stops the machine, returns are last-in first-out, and the
\* activation that runs is the innermost one.
THEOREM StubsImplementCalls ==
    ASSUME ResavesSp \/ ~CallsBack
    PROVE  Spec => ImplementsCalls
<1>1. IInv /\ IInv' /\ [Next]_vars => [Calls!Next]_(Calls!vars)
  BY RefStep
<1> QED BY <1>1, StubsInvariant, RefInit, PTL DEF Spec, ImplementsCalls, Calls!Spec
=============================================================================
