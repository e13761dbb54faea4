---------------------------- MODULE SelftestProofs ----------------------------
(***************************************************************************)
(* What the builds of the selftest enclave protect, for every memory       *)
(* layout, every number of TCSs and every choice of the host.  All three   *)
(* properties rest on the invariant IInv: between the check of an address  *)
(* and its use nothing may change it, and what a level protects is not     *)
(* written by any operation of any TCS.                                    *)
(***************************************************************************)
EXTENDS SelftestEnclave, TLAPS

-----------------------------------------------------------------------------
(* Two cells that an operation may write to, or read from.                  *)
OutsideTwo(a) == a \notin Enclave /\ Plus(a, 1) \notin Enclave
Safe(a) == a = Buf \/ OutsideTwo(a)

Offset == {"zero", "nop"}
Owned(t) == pc[t] # "idle" => mem[Frame[t]] = t

(* Level 3 and beyond: the ranges that are about to be written.             *)
Inv3 == Level(3) =>
    /\ PrivateIntact
    /\ \A t \in Tcs : Owned(t)
    /\ \A t \in Tcs : pc[t] = "memcpy" => Safe(dst[t])
    /\ \A t \in Tcs : pc[t] = "move" => OutsideTwo(dst[t])
    /\ \A t \in Tcs : pc[t] = "offset" => OutsideTwo(ValueAt(op[t]))

(* Level 4: the ranges that are about to be read.                           *)
Inv4 == Level(4) =>
    /\ mem[Buf] \in {"data", "host"} /\ mem[Buf + 1] \in {"data", "host"}
    /\ \A t \in Tcs : pc[t] \in {"memcpy", "move"} => Safe(src[t])
    /\ \A t \in Tcs : pc[t] = "offset" => mem[Unm] \in Offset /\ mem[Unm + 1] \in Offset
    /\ ~leaked

(* The loop of call_unmeasured, unless another TCS interferes.              *)
FilledSoFar(t) ==
    /\ pc[t] = "fill" /\ i[t] = 1 => mem[Unm] = "nop"
    /\ pc[t] = "run" => Filled
InvC ==
    /\ \A t \in Tcs : Level(2) => pc[t] # "index"
    /\ \A t \in Tcs : pc[t] \notin {"memcpy", "fill"} => i[t] = 0
    /\ Level(3) /\ ~raced => \A t \in Tcs : FilledSoFar(t)
    /\ ControlKept

IInv == TypeOK /\ Inv3 /\ Inv4 /\ InvC

-----------------------------------------------------------------------------
(* The test of sgx_is_outside_enclave is right for every range shorter than *)
(* the address space: no byte of a range that passes wraps around or lies   *)
(* in the enclave, the last one and the one behind the borders included.    *)
THEOREM OutsideIsOutside ==
    ASSUME NEW a \in Cell, NEW n \in 1 .. M, Outside(a, n), NEW k \in 0 .. n - 1
    PROVE  a + k < M /\ Plus(a, k) = a + k /\ Plus(a, k) \notin Enclave
<1>1. M \in Nat /\ Base \in Nat /\ End \in Nat /\ End < M
  BY SelftestAssumption
<1>2. Plus(a, n - 1) = a + n - 1 /\ a + n - 1 < M
  BY <1>1, SMT DEF Outside, Plus, Cell
<1>3. a + n - 1 < Base \/ a > End
  BY <1>1, <1>2, SMT DEF Outside
<1>4. a + k < M /\ Plus(a, k) = a + k
  BY <1>1, <1>2, SMT DEF Plus, Cell
<1> QED
  BY <1>1, <1>3, <1>4, SMT DEF Enclave, Cell

(* The layout in numbers.                                                   *)
LEMMA Layout ==
    /\ M \in Nat /\ Base \in Nat /\ End \in Nat /\ Base + 6 <= End /\ End < M
    /\ {Buf, Buf + 1, Unm, Unm + 1, Unm + 2, NopFn} \subseteq Enclave
    /\ Enclave \subseteq Cell
    /\ \A t \in Tcs : Frame[t] \in Private /\ Frame[t] # NopFn
    /\ NopFn \in Private
    /\ Buf \notin Private /\ Buf + 1 \notin Private
    /\ Unm \notin Private /\ Unm + 1 \notin Private /\ Unm + 2 \notin Private
    /\ Private \subseteq Enclave
    /\ Buf # Buf + 1 /\ Unm # Unm + 1 /\ Unm # Unm + 2 /\ Unm + 1 # Unm + 2
    /\ Buf # Unm /\ Buf # Unm + 1 /\ Buf # Unm + 2
    /\ Buf + 1 # Unm /\ Buf + 1 # Unm + 1 /\ Buf + 1 # Unm + 2
    /\ Plus(Buf, 1) = Buf + 1
<1>1. M \in Nat /\ Base \in Nat /\ End \in Nat /\ Base + 6 <= End /\ End < M
  BY SelftestAssumption
<1>2. \A t \in Tcs : Frame[t] \in Base + 7 .. End
  BY SelftestAssumption
<1>3. ASSUME NEW a \in Base + 7 .. End PROVE a \in Private /\ a # NopFn
  BY <1>1, SMT DEF Private, Enclave, NopFn, Buf, Unm
<1>4. \A t \in Tcs : Frame[t] \in Private /\ Frame[t] # NopFn
  BY <1>2, <1>3, Zenon
<1> QED
  BY <1>1, <1>4, SMT DEF Private, Enclave, NopFn, Buf, Unm, Cell, Plus

LEMMA PlusType == ASSUME NEW a \in Cell, NEW n \in 0 .. 6 PROVE Plus(a, n) \in Cell
  BY Layout, SMT DEF Plus, Cell

LEMMA PlusZero == ASSUME NEW a \in Cell PROVE Plus(a, 0) = a
  BY Layout, SMT DEF Plus, Cell

(* What the checks give: of a struct that lies outside the value does, and  *)
(* so do the 8 bytes at an address that passes.                             *)
LEMMA ValueOutside ==
    ASSUME NEW a \in Cell, NEW n \in 4 .. 6, Outside(a, n)
    PROVE  OutsideTwo(ValueAt(a))
<1>1. n \in 1 .. M
  BY Layout, SMT
<1>2. Plus(a, 2) = a + 2 /\ Plus(a, 2) \notin Enclave
  BY <1>1, OutsideIsOutside, SMT
<1>3. a + 3 < M /\ Plus(a, 3) = a + 3 /\ Plus(a, 3) \notin Enclave
  BY <1>1, OutsideIsOutside, SMT
<1>4. Plus(a + 2, 1) = a + 3
  BY <1>3, Layout, SMT DEF Plus, Cell
<1> QED
  BY <1>2, <1>3, <1>4, Zenon DEF OutsideTwo, ValueAt

LEMMA AddressOutside ==
    ASSUME NEW a \in Cell, Outside(a, 2)
    PROVE  OutsideTwo(a)
<1>1. 2 \in 1 .. M
  BY Layout, SMT
<1>2. Plus(a, 0) \notin Enclave /\ Plus(a, 1) \notin Enclave
  BY <1>1, OutsideIsOutside, SMT
<1> QED
  BY <1>2, PlusZero DEF OutsideTwo

-----------------------------------------------------------------------------
LEMMA Structs ==
    /\ DOMAIN Sizes = {"put_to_buf", "get_from_buf", "put_to_addr", "get_from_addr",
                       "get_from_unmeasured", "call_addr"}
    /\ \A o \in DOMAIN Sizes : Sizes[o] \in 4 .. 6
  BY SMT DEF Sizes

LEMMA LevelType == TypeOK => build.level \in 0 .. 4
  BY SelftestAssumption, SMT DEF TypeOK

LEMMA Levels ==
    TypeOK => (Level(4) => Level(3)) /\ (Level(3) => Level(2))
  BY LevelType, SMT DEF Level

LEMMA SameLevel ==
    build' = build => \A n : Level(n)' <=> Level(n)
  BY Zenon DEF Level

LEMMA OpsAreLabels == Ops \subseteq Labels \ {"idle", "memcpy", "move", "offset", "fill",
                                              "run", "index", "leave", "lost"}
  BY Structs, SMT DEF Ops, Labels

(* One TCS moves on: what the types of an action come down to.              *)
LEMMA OneMoves ==
    ASSUME TypeOK, NEW t \in Tcs, NEW l \in Labels, Go(t, l)
    PROVE  pc' \in [Tcs -> Labels] /\ pc'[t] = l /\ \A u \in Tcs \ {t} : pc'[u] = pc[u]
  BY DEF TypeOK, Go

LEMMA StepType ==
    ASSUME TypeOK, NEW t \in Tcs, NEW from, NEW l \in Labels, Step(t, from, l)
    PROVE  TypeOK'
  BY OneMoves, SMT DEF Step, TypeOK

LEMMA StrayType ==
    ASSUME TypeOK, NEW t \in Tcs, NEW k \in {"frame", "table", "enclave", "outside"},
           Stray(t, k)
    PROVE  TypeOK'
<1>1. "lost" \in Labels
  BY DEF Labels
<1> QED
  BY <1>1, OneMoves, SMT DEF Stray, TypeOK

LEMMA MemcpyType ==
    ASSUME TypeOK, NEW t \in Tcs, NEW a \in Cell, NEW b \in Cell, Memcpy(t, a, b)
    PROVE  TypeOK'
<1>1. "memcpy" \in Labels
  BY DEF Labels
<1> QED
  BY <1>1, OneMoves, SMT DEF Memcpy, TypeOK

LEMMA ContentType == ASSUME TypeOK, NEW a PROVE Content(a) \in Kinds
  BY SMT DEF TypeOK, Content, Kinds, Public

LEMMA InitInv == Init => IInv
<1> SUFFICES ASSUME Init PROVE IInv
  OBVIOUS
<1>1. TypeOK
  <2>1. mem \in [Enclave -> Kinds]
    BY SMT DEF Init, Kinds, Public
  <2>2. 0 \in Cell /\ "idle" \in Labels
    BY Layout, SMT DEF Cell, Labels
  <2>3. /\ build \in Builds /\ astray = {} /\ leaked = FALSE /\ raced = FALSE
        /\ pc = [t \in Tcs |-> "idle"] /\ i = [t \in Tcs |-> 0]
        /\ op = [t \in Tcs |-> 0] /\ src = [t \in Tcs |-> 0] /\ dst = [t \in Tcs |-> 0]
    BY DEF Init
  <2>4. pc \in [Tcs -> Labels] /\ i \in [Tcs -> 0 .. 1]
    BY <2>2, <2>3, SMT
  <2>5. op \in [Tcs -> Cell] /\ src \in [Tcs -> Cell] /\ dst \in [Tcs -> Cell]
    BY <2>2, <2>3, Zenon
  <2>6. pc \in [Tcs -> Labels] /\ leaked \in BOOLEAN /\ raced \in BOOLEAN
    BY <2>3, <2>4, Zenon
  <2>7. astray \subseteq {"frame", "table", "enclave", "outside"}
    BY <2>3, Zenon
  <2> QED
    BY <2>1, <2>3, <2>4, <2>5, <2>6, <2>7, Zenon DEF TypeOK
<1>2. /\ mem[NopFn] = "code" /\ mem[Buf] = "data" /\ mem[Buf + 1] = "data"
      /\ \A a \in Private \ {NopFn} : mem[a] = "secret"
  BY Layout, SMT DEF Init, Private
<1>3. \A t \in Tcs : pc[t] = "idle" /\ i[t] = 0
  BY Zenon DEF Init
<1>4. PrivateIntact
  BY <1>2, Zenon DEF PrivateIntact
<1>5. Inv3
  BY <1>3, <1>4, Zenon DEF Inv3, Owned
<1>6. Inv4
  <2>1. ~leaked
    BY DEF Init
  <2> QED
    BY <1>2, <1>3, <2>1, SMT DEF Inv4
<1>7. InvC
  <2>1. astray = {}
    BY DEF Init
  <2>2. ControlKept
    BY <2>1, SMT DEF ControlKept
  <2> QED
    BY <1>3, <2>2, SMT DEF InvC, FilledSoFar
<1> QED
  BY <1>1, <1>5, <1>6, <1>7 DEF IInv

-----------------------------------------------------------------------------
(* The fields an operation uses are cells: its own, and the host's.         *)
LEMMA Fields ==
    ASSUME TypeOK, NEW t \in Tcs
    PROVE  /\ op[t] \in Cell /\ ValueAt(op[t]) \in Cell /\ Buf \in Cell
           /\ Addresses \subseteq Cell /\ Pointers \subseteq Cell /\ 0 \in Cell
<1>1. op[t] \in Cell
  BY DEF TypeOK
<1>2. ValueAt(op[t]) \in Cell
  BY <1>1, PlusType, SMT DEF ValueAt
<1>3. Addresses \subseteq Cell /\ Pointers \subseteq Cell
  BY SelftestAssumption DEF Cell
<1>4. 0 \in Cell /\ Buf \in Cell
  BY Layout, SMT DEF Cell, Buf, Enclave
<1> QED
  BY <1>1, <1>2, <1>3, <1>4

LEMMA Put ==
    ASSUME NEW D, NEW S, NEW f \in [D -> S], NEW a, NEW v \in S
    PROVE  [f EXCEPT ![a] = v] \in [D -> S]
  OBVIOUS

LEMMA PutTwo ==
    ASSUME NEW D, NEW S, NEW f \in [D -> S], NEW a, NEW b, NEW v \in S, NEW w \in S
    PROVE  [f EXCEPT ![a] = v, ![b] = w] \in [D -> S]
  OBVIOUS

LEMMA TypeStep == TypeOK /\ [Next]_vars => TypeOK'
<1> SUFFICES ASSUME TypeOK, [Next]_vars PROVE TypeOK'
  OBVIOUS
<1>l. {"idle", "header", "type", "index", "memcpy", "move", "offset", "fill", "run", "leave",
       "lost", "nop", "call_unmeasured", "call_non_exec"} \cup DOMAIN Sizes \subseteq Labels
  BY Zenon DEF Labels
<1>o. Ops \subseteq Labels
  BY OpsAreLabels
<1>k. /\ "nop" \in Kinds /\ "ret" \in Kinds /\ "zero" \in Kinds /\ "one" \in Kinds
      /\ Tcs \subseteq Kinds
  BY SMT DEF Kinds, Public
<1>1. ASSUME NEW t \in Tcs, Enter(t) PROVE TypeOK'
  <2>1. PICK p \in Pointers : op' = [op EXCEPT ![t] = p]
    BY <1>1 DEF Enter
  <2>2. op' \in [Tcs -> Cell]
    BY <2>1, Fields, SMT DEF TypeOK
  <2>3. mem' \in [Enclave -> Kinds]
    BY <1>1, <1>k, Put, Zenon DEF Enter, TypeOK
  <2>4. pc' \in [Tcs -> Labels]
    BY <1>1, <1>l, SMT DEF Enter, Go, TypeOK
  <2>5. UNCHANGED <<build, src, dst, i, astray, leaked, raced>>
    BY <1>1 DEF Enter
  <2> QED
    BY <2>2, <2>3, <2>4, <2>5, Zenon DEF TypeOK
<1>2. ASSUME NEW t \in Tcs, Leave(t) PROVE TypeOK'
  <2>1. pc' \in [Tcs -> Labels]
    BY <1>2, <1>l, SMT DEF Leave, Go, TypeOK
  <2>2. op' \in [Tcs -> Cell] /\ src' \in [Tcs -> Cell] /\ dst' \in [Tcs -> Cell]
    BY <1>2, Fields, SMT DEF Leave, TypeOK
  <2>3. i' \in [Tcs -> 0 .. 1]
    BY <1>2, SMT DEF Leave, TypeOK
  <2>4. astray' \subseteq {"frame", "table", "enclave", "outside"}
    BY <1>2, Zenon DEF Leave, TypeOK
  <2>5. UNCHANGED <<build, mem, leaked, raced>>
    BY <1>2, Zenon DEF Leave
  <2> QED
    BY <2>1, <2>2, <2>3, <2>4, <2>5, Zenon DEF TypeOK
<1>3. ASSUME NEW t \in Tcs, CheckHeader(t) PROVE TypeOK'
  BY <1>3, <1>l, StepType, Zenon DEF CheckHeader
<1>4. ASSUME NEW t \in Tcs, ReadType(t) PROVE TypeOK'
  BY <1>4, <1>l, <1>o, StepType, Zenon DEF ReadType
<1>5. ASSUME NEW t \in Tcs, ReadIndex(t) PROVE TypeOK'
  BY <1>5, <1>o, StepType, Zenon DEF ReadIndex
<1>6. ASSUME NEW t \in Tcs, ReadIndexBeyond(t) PROVE TypeOK'
  BY <1>6, StrayType, Zenon DEF ReadIndexBeyond
<1>7. ASSUME NEW t \in Tcs, Refuse(t) PROVE TypeOK'
  BY <1>7, <1>l, StepType, Zenon DEF Refuse
<1>8. ASSUME NEW t \in Tcs, PutToBuf(t) PROVE TypeOK'
  BY <1>8, Fields, MemcpyType, Zenon DEF PutToBuf
<1>9. ASSUME NEW t \in Tcs, GetFromBuf(t) PROVE TypeOK'
  BY <1>9, Fields, MemcpyType, Zenon DEF GetFromBuf
<1>10. ASSUME NEW t \in Tcs, PutToAddr(t) PROVE TypeOK'
  <2>1. PICK a \in Addresses : Step(t, "put_to_addr", "leave") \/ Memcpy(t, a, ValueAt(op[t]))
    BY <1>10, Zenon DEF PutToAddr
  <2> QED
    BY <2>1, <1>l, Fields, StepType, MemcpyType, Zenon
<1>11. ASSUME NEW t \in Tcs, GetFromAddr(t) PROVE TypeOK'
  <2>1. PICK b \in Addresses : Step(t, "get_from_addr", "leave") \/ Memcpy(t, ValueAt(op[t]), b)
    BY <1>11, Zenon DEF GetFromAddr
  <2> QED
    BY <2>1, <1>l, Fields, StepType, MemcpyType, Zenon
<1>12. ASSUME NEW t \in Tcs, CopyCell(t) PROVE TypeOK'
  <2>1. mem' \in [Enclave -> Kinds]
    BY <1>12, ContentType, SMT DEF CopyCell, TypeOK
  <2>2. pc' \in [Tcs -> Labels] /\ i' \in [Tcs -> 0 .. 1]
    BY <1>12, <1>l, SMT DEF CopyCell, Go, TypeOK
  <2>3. leaked' \in BOOLEAN /\ UNCHANGED <<build, op, src, dst, astray, raced>>
    BY <1>12, Zenon DEF CopyCell
  <2> QED
    BY <2>1, <2>2, <2>3, Zenon DEF TypeOK
<1>13. ASSUME NEW t \in Tcs, MoveWord(t) PROVE TypeOK'
  <2>1. mem' \in [Enclave -> Kinds]
    BY <1>13, ContentType, SMT DEF MoveWord, TypeOK
  <2>2. pc' \in [Tcs -> Labels]
    BY <1>13, <1>l, SMT DEF MoveWord, Go, TypeOK
  <2>3. leaked' \in BOOLEAN /\ UNCHANGED <<build, op, src, dst, i, astray, raced>>
    BY <1>13, Zenon DEF MoveWord
  <2> QED
    BY <2>1, <2>2, <2>3, Zenon DEF TypeOK
<1>14. ASSUME NEW t \in Tcs, ResetUnmeasured(t) PROVE TypeOK'
  <2>1. mem' \in [Enclave -> Kinds]
    <3>1. mem \in [Enclave -> Kinds] /\ mem' = Reset
      BY <1>14, Zenon DEF ResetUnmeasured, TypeOK
    <3> QED
      BY <3>1, <1>k, Put, PutTwo, Zenon DEF Reset
  <2>2. pc' \in [Tcs -> Labels]
    BY <1>14, <1>l, SMT DEF ResetUnmeasured, Go, TypeOK
  <2>3. raced' \in BOOLEAN /\ UNCHANGED <<build, op, src, dst, i, astray, leaked>>
    BY <1>14, Zenon DEF ResetUnmeasured
  <2> QED
    BY <2>1, <2>2, <2>3, Zenon DEF TypeOK
<1>15. ASSUME NEW t \in Tcs, ReadOffset(t) PROVE TypeOK'
  <2>1. Sources \subseteq Cell
    BY Fields, Zenon DEF Sources
  <2>2. src' \in [Tcs -> Cell] /\ dst' \in [Tcs -> Cell]
    BY <1>15, <2>1, Fields, SMT DEF ReadOffset, TypeOK
  <2>3. pc' \in [Tcs -> Labels]
    BY <1>15, <1>l, SMT DEF ReadOffset, Go, TypeOK
  <2>4. UNCHANGED <<build, mem, op, i, astray, leaked, raced>>
    BY <1>15 DEF ReadOffset
  <2> QED
    BY <2>2, <2>3, <2>4, Zenon DEF TypeOK
<1>16. ASSUME NEW t \in Tcs, ReadOffsetFaults(t) PROVE TypeOK'
  BY <1>16, <1>l, StepType, Zenon DEF ReadOffsetFaults
<1>17. ASSUME NEW t \in Tcs, CallAddr(t) PROVE TypeOK'
  <2>1. \/ Step(t, "call_addr", "leave")
        \/ Stray(t, "enclave") \/ Stray(t, "outside")
    BY <1>17, SMT DEF CallAddr, JumpTo
  <2> QED
    BY <2>1, <1>l, StepType, StrayType, Zenon
<1>18. ASSUME NEW t \in Tcs, CallUnmeasured(t) PROVE TypeOK'
  BY <1>18, <1>l, StepType, Zenon DEF CallUnmeasured
<1>19. ASSUME NEW t \in Tcs, Fill(t) PROVE TypeOK'
  <2>1. mem' \in [Enclave -> Kinds]
    <3>1. /\ mem \in [Enclave -> Kinds]
          /\ mem' = [mem EXCEPT ![Unm + i[t]] = "nop", ![Unm + 2] = "ret"]
      BY <1>19, Zenon DEF Fill, TypeOK
    <3> QED
      BY <3>1, <1>k, PutTwo, Zenon
  <2>2. pc' \in [Tcs -> Labels] /\ i' \in [Tcs -> 0 .. 1]
    BY <1>19, <1>l, SMT DEF Fill, Go, TypeOK
  <2>3. UNCHANGED <<build, op, src, dst, astray, leaked, raced>>
    BY <1>19 DEF Fill
  <2> QED
    BY <2>1, <2>2, <2>3, Zenon DEF TypeOK
<1>20. ASSUME NEW t \in Tcs, Run(t) PROVE TypeOK'
  BY <1>20, <1>l, StepType, Zenon DEF Run
<1>21. ASSUME NEW t \in Tcs, RunAnything(t) PROVE TypeOK'
  BY <1>21, StrayType, Zenon DEF RunAnything
<1>22. ASSUME NEW t \in Tcs, Nop(t) PROVE TypeOK'
  BY <1>22, <1>l, StepType, Zenon DEF Nop
<1>23. ASSUME NEW t \in Tcs, CallNonExec(t) PROVE TypeOK'
  BY <1>23, <1>l, StepType, Zenon DEF CallNonExec
<1>24. CASE UNCHANGED vars
  BY <1>24, SMT DEF vars, TypeOK
<1> QED
  BY <1>1, <1>2, <1>3, <1>4, <1>5, <1>6, <1>7, <1>8, <1>9, <1>10, <1>11, <1>12, <1>13, <1>14,
     <1>15, <1>16, <1>17, <1>18, <1>19, <1>20, <1>21, <1>22, <1>23, <1>24, Zenon DEF Next

-----------------------------------------------------------------------------
(* One TCS acts.  What it owes the others: the private cells but its own    *)
(* frame, encl_buffer free of other content, and the unmeasured buffer      *)
(* while they are using it.                                                 *)
MemKept3(t) == Level(3) =>
    \A a \in Private : mem'[a] = mem[a] \/ (a = Frame[t] /\ mem'[a] = t)
MemKept4 == Level(4) =>
    /\ mem'[Buf] \in {"data", "host"} /\ mem'[Buf + 1] \in {"data", "host"}
    /\ mem[Unm] \in Offset /\ mem[Unm + 1] \in Offset =>
         mem'[Unm] \in Offset /\ mem'[Unm + 1] \in Offset
    /\ ~leaked'
OthersFilled(t) == Level(3) /\ ~raced' =>
    ~raced /\ \A u \in Tcs \ {t} : FilledSoFar(u) => FilledSoFar(u)'
OthersKept(t) == \A u \in Tcs \ {t} :
    /\ pc'[u] = pc[u] /\ op'[u] = op[u] /\ i'[u] = i[u]
    /\ src'[u] = src[u] /\ dst'[u] = dst[u]

(* And what holds of its own next step.                                     *)
Own3(t) == Level(3) =>
    /\ pc'[t] # "idle" => mem'[Frame[t]] = t
    /\ pc'[t] = "memcpy" => Safe(dst'[t])
    /\ pc'[t] = "move" => OutsideTwo(dst'[t])
    /\ pc'[t] = "offset" => OutsideTwo(ValueAt(op'[t]))
Own4(t) == Level(4) =>
    /\ pc'[t] \in {"memcpy", "move"} => Safe(src'[t])
    /\ pc'[t] = "offset" => mem'[Unm] \in Offset /\ mem'[Unm + 1] \in Offset
OwnC(t) ==
    /\ Level(2) => pc'[t] # "index"
    /\ pc'[t] \notin {"memcpy", "fill"} => i'[t] = 0
    /\ Level(3) /\ ~raced' => FilledSoFar(t)'
    /\ ControlKept'

LEMMA FrameLemma ==
    ASSUME IInv, TypeOK', build' = build, NEW t \in Tcs,
           OthersKept(t), MemKept3(t), MemKept4, OthersFilled(t), Own3(t), Own4(t), OwnC(t)
    PROVE  IInv'
<1>1. \A n : Level(n)' <=> Level(n)
  BY SameLevel
<1>2. TypeOK
  BY DEF IInv
<1>3. Inv3'
  <2> SUFFICES ASSUME Level(3) PROVE
        /\ PrivateIntact'
        /\ \A u \in Tcs : Owned(u)'
        /\ \A u \in Tcs : pc'[u] = "memcpy" => Safe(dst'[u])
        /\ \A u \in Tcs : pc'[u] = "move" => OutsideTwo(dst'[u])
        /\ \A u \in Tcs : pc'[u] = "offset" => OutsideTwo(ValueAt(op'[u]))
    BY <1>1, Zenon DEF Inv3, Safe, OutsideTwo, ValueAt
  <2>0. /\ PrivateIntact /\ \A u \in Tcs : Owned(u)
        /\ \A u \in Tcs : pc[u] = "memcpy" => Safe(dst[u])
        /\ \A u \in Tcs : pc[u] = "move" => OutsideTwo(dst[u])
        /\ \A u \in Tcs : pc[u] = "offset" => OutsideTwo(ValueAt(op[u]))
    BY Zenon DEF IInv, Inv3
  <2>1. \A a \in Private : mem'[a] = mem[a] \/ (a = Frame[t] /\ mem'[a] = t)
    BY Zenon DEF MemKept3
  <2>2. PrivateIntact'
    <3>1. mem'[NopFn] = "code"
      BY <2>0, <2>1, Layout, Zenon DEF PrivateIntact
    <3>2. ASSUME NEW a \in Private \ {NopFn}
          PROVE  mem'[a] = "secret" \/ \E u \in Tcs : a = Frame[u] /\ mem'[a] = u
      BY <2>0, <2>1, <3>2, Zenon DEF PrivateIntact
    <3> QED
      BY <3>1, <3>2, Zenon DEF PrivateIntact
  <2>3. ASSUME NEW u \in Tcs PROVE Owned(u)'
    <3>1. CASE u = t
      BY <3>1, Zenon DEF Own3, Owned
    <3>2. CASE u # t
      <4>1. Frame[u] # Frame[t] /\ Frame[u] \in Private
        BY <3>2, SelftestAssumption, Layout, Zenon
      <4> QED
        BY <3>2, <4>1, <2>0, <2>1, Zenon DEF OthersKept, Owned
    <3> QED
      BY <3>1, <3>2
  <2>4. ASSUME NEW u \in Tcs
        PROVE  /\ pc'[u] = "memcpy" => Safe(dst'[u])
               /\ pc'[u] = "move" => OutsideTwo(dst'[u])
               /\ pc'[u] = "offset" => OutsideTwo(ValueAt(op'[u]))
    <3>1. CASE u = t
      BY <3>1, Zenon DEF Own3
    <3>2. CASE u # t
      <4>1. pc'[u] = pc[u] /\ dst'[u] = dst[u] /\ op'[u] = op[u]
        BY <3>2, Zenon DEF OthersKept
      <4> QED
        BY <4>1, <2>0, Zenon
    <3> QED
      BY <3>1, <3>2
  <2> QED
    BY <2>2, <2>3, <2>4, Zenon
<1>4. Inv4'
  <2> SUFFICES ASSUME Level(4) PROVE
        /\ mem'[Buf] \in {"data", "host"} /\ mem'[Buf + 1] \in {"data", "host"}
        /\ \A u \in Tcs : pc'[u] \in {"memcpy", "move"} => Safe(src'[u])
        /\ \A u \in Tcs : pc'[u] = "offset" => mem'[Unm] \in Offset /\ mem'[Unm + 1] \in Offset
        /\ ~leaked'
    BY <1>1, Zenon DEF Inv4, Safe, OutsideTwo, Offset
  <2>0. /\ \A u \in Tcs : pc[u] \in {"memcpy", "move"} => Safe(src[u])
        /\ \A u \in Tcs : pc[u] = "offset" => mem[Unm] \in Offset /\ mem[Unm + 1] \in Offset
    BY Zenon DEF IInv, Inv4
  <2>1. ASSUME NEW u \in Tcs
        PROVE  /\ pc'[u] \in {"memcpy", "move"} => Safe(src'[u])
               /\ pc'[u] = "offset" => mem'[Unm] \in Offset /\ mem'[Unm + 1] \in Offset
    <3>1. CASE u = t
      BY <3>1, Zenon DEF Own4
    <3>2. CASE u # t
      <4>1. pc'[u] = pc[u] /\ src'[u] = src[u]
        BY <3>2, Zenon DEF OthersKept
      <4> QED
        BY <4>1, <2>0, Zenon DEF MemKept4
    <3> QED
      BY <3>1, <3>2
  <2> QED
    BY <2>1, Zenon DEF MemKept4
<1>5. InvC'
  <2>1. ASSUME NEW u \in Tcs
        PROVE  /\ Level(2) => pc'[u] # "index"
               /\ pc'[u] \notin {"memcpy", "fill"} => i'[u] = 0
    <3>1. CASE u = t
      BY <3>1, Zenon DEF OwnC
    <3>2. CASE u # t
      <4>1. pc'[u] = pc[u] /\ i'[u] = i[u]
        BY <3>2, Zenon DEF OthersKept
      <4> QED
        BY <4>1, Zenon DEF IInv, InvC
    <3> QED
      BY <3>1, <3>2
  <2>2. ASSUME Level(3), ~raced', NEW u \in Tcs PROVE FilledSoFar(u)'
    <3>1. CASE u = t
      BY <2>2, <3>1, Zenon DEF OwnC
    <3>2. CASE u # t
      BY <2>2, <3>2, Zenon DEF OthersFilled, IInv, InvC
    <3> QED
      BY <3>1, <3>2
  <2>3. ControlKept'
    BY Zenon DEF OwnC
  <2> QED
    BY <1>1, <2>1, <2>2, <2>3, Zenon DEF InvC
<1> QED
  BY <1>3, <1>4, <1>5, Zenon DEF IInv

(* An action that writes to no memory and leaves its own frame as it is.    *)
LEMMA QuietLemma ==
    ASSUME IInv, TypeOK', NEW t \in Tcs, pc[t] # "idle",
           UNCHANGED <<build, mem, op, leaked, raced>>, OthersKept(t),
           Level(3) => /\ pc'[t] = "memcpy" => Safe(dst'[t])
                       /\ pc'[t] = "move" => OutsideTwo(dst'[t])
                       /\ pc'[t] # "offset",
           Level(4) => (pc'[t] \in {"memcpy", "move"} => Safe(src'[t])),
           OwnC(t)
    PROVE  IInv'
<1>1. mem' = mem /\ op' = op /\ (leaked' <=> leaked) /\ (raced' <=> raced) /\ build' = build
  BY Zenon
<1>2. MemKept3(t)
  BY <1>1, Zenon DEF MemKept3
<1>3. MemKept4
  BY <1>1, Zenon DEF MemKept4, IInv, Inv4
<1>4. OthersFilled(t)
  BY <1>1, Zenon DEF OthersFilled, OthersKept, FilledSoFar, Filled
<1>5. Own3(t)
  BY <1>1, Zenon DEF Own3, IInv, Inv3, Owned
<1>6. Level(4) => Level(3)
  BY Levels, Zenon DEF IInv
<1>7. Own4(t)
  BY <1>6, Zenon DEF Own4
<1> QED
  BY <1>1, <1>2, <1>3, <1>4, <1>5, <1>7, FrameLemma, Zenon

LEMMA StepKeeps ==
    ASSUME IInv, NEW t \in Tcs, NEW from, NEW l \in Labels, Step(t, from, l),
           from \notin {"idle", "memcpy", "fill"},
           l \notin {"memcpy", "move", "offset"}, Level(2) => l \notin {"index", "run"}
    PROVE  IInv'
<1>1. TypeOK
  BY DEF IInv
<1>2. TypeOK'
  BY <1>1, StepType, Zenon
<1>3. pc[t] = from /\ UNCHANGED <<build, mem, op, src, dst, i, astray, leaked, raced>>
  BY DEF Step
<1>4. pc'[t] = l /\ \A u \in Tcs \ {t} : pc'[u] = pc[u]
  BY <1>1, OneMoves, Zenon DEF Step
<1>5. OthersKept(t)
  BY <1>3, <1>4, Zenon DEF OthersKept
<1>6. i'[t] = 0
  BY <1>3, Zenon DEF IInv, InvC
<1>7. OwnC(t)
  <2>1. Level(2) => FilledSoFar(t)'
    BY <1>4, <1>6, SMT DEF FilledSoFar
  <2>2. ControlKept'
    BY <1>3, SMT DEF IInv, InvC, ControlKept, Level
  <2>3. Level(3) => Level(2)
    BY <1>1, Levels
  <2>4. (raced' <=> raced) /\ (Level(2) => pc'[t] # "index")
    BY <1>3, <1>4, SMT
  <2> QED
    BY <1>6, <2>1, <2>2, <2>3, <2>4, Zenon DEF OwnC
<1> QED
  BY <1>2, <1>3, <1>4, <1>5, <1>7, QuietLemma, Zenon

LEMMA StrayKeeps ==
    ASSUME IInv, NEW t \in Tcs, NEW k \in {"table", "enclave", "outside"}, Stray(t, k),
           pc[t] \notin {"idle", "memcpy", "fill"},
           Level(2) => k # "table", Level(3) /\ ~raced => k # "enclave",
           Level(4) => k = "enclave" /\ raced
    PROVE  IInv'
<1>1. TypeOK
  BY DEF IInv
<1>2. TypeOK'
  BY <1>1, StrayType, Zenon
<1>3. UNCHANGED <<build, mem, op, src, dst, i, leaked, raced>> /\ astray' = astray \cup {k}
  BY DEF Stray
<1>4. pc'[t] = "lost" /\ \A u \in Tcs \ {t} : pc'[u] = pc[u]
  BY <1>1, OneMoves, Zenon DEF Stray, Labels
<1>5. OthersKept(t)
  BY <1>3, <1>4, Zenon DEF OthersKept
<1>6. i'[t] = 0
  BY <1>3, Zenon DEF IInv, InvC
<1>7. OwnC(t)
  <2>1. FilledSoFar(t)'
    BY <1>4, SMT DEF FilledSoFar
  <2>2. ControlKept'
    BY <1>3, SMT DEF IInv, InvC, ControlKept, Level
  <2> QED
    BY <1>4, <1>6, <2>1, <2>2, SMT DEF OwnC
<1>8. pc'[t] \notin {"memcpy", "move", "offset"}
  BY <1>4, SMT
<1> QED
  BY <1>2, <1>3, <1>5, <1>7, <1>8, QuietLemma, Zenon

LEMMA MemcpyKeeps ==
    ASSUME IInv, NEW t \in Tcs, NEW a \in Cell, NEW b \in Cell, Memcpy(t, a, b),
           pc[t] \notin {"idle", "memcpy", "fill"},
           Level(3) => Safe(a), Level(4) => Safe(b)
    PROVE  IInv'
<1>1. TypeOK
  BY DEF IInv
<1>2. TypeOK'
  BY <1>1, MemcpyType, Zenon
<1>3. /\ UNCHANGED <<build, mem, op, i, astray, leaked, raced>>
      /\ dst' = [dst EXCEPT ![t] = a] /\ src' = [src EXCEPT ![t] = b]
  BY DEF Memcpy
<1>4. pc'[t] = "memcpy" /\ \A u \in Tcs \ {t} : pc'[u] = pc[u]
  BY <1>1, OneMoves, Zenon DEF Memcpy, Labels
<1>5. /\ dst'[t] = a /\ src'[t] = b
      /\ \A u \in Tcs \ {t} : dst'[u] = dst[u] /\ src'[u] = src[u]
  BY <1>1, <1>3, SMT DEF TypeOK
<1>6. OthersKept(t)
  BY <1>3, <1>4, <1>5, Zenon DEF OthersKept
<1>7. OwnC(t)
  <2>1. FilledSoFar(t)'
    BY <1>4, SMT DEF FilledSoFar
  <2>2. ControlKept'
    BY <1>3, SMT DEF IInv, InvC, ControlKept, Level
  <2> QED
    BY <1>4, <2>1, <2>2, SMT DEF OwnC
<1>8. pc'[t] \notin {"move", "offset"}
  BY <1>4, SMT
<1> QED
  BY <1>2, <1>3, <1>5, <1>6, <1>7, <1>8, QuietLemma, Zenon

-----------------------------------------------------------------------------
(* The struct of an operation that goes on has passed its check.            *)
LEMMA BeginOutside ==
    ASSUME TypeOK, NEW t \in Tcs, NEW o \in DOMAIN Sizes, Begin(t, o), Level(2)
    PROVE  OutsideTwo(ValueAt(op[t]))
<1>1. Outside(op[t], Sizes[o])
  BY Zenon DEF Begin, Refused
<1>2. op[t] \in Cell /\ Sizes[o] \in 4 .. 6
  BY Fields, Structs, Zenon
<1> QED
  BY <1>1, <1>2, ValueOutside, Zenon

LEMMA SafeOutside == ASSUME NEW a, OutsideTwo(a) PROVE Safe(a)
  BY DEF Safe

LEMMA PutToBufKeeps ==
    ASSUME IInv, NEW t \in Tcs, PutToBuf(t) PROVE IInv'
<1>1. TypeOK /\ (Level(4) => Level(3)) /\ (Level(3) => Level(2))
  BY Levels, Zenon DEF IInv
<1>2. Begin(t, "put_to_buf") /\ Memcpy(t, Buf, ValueAt(op[t]))
  BY DEF PutToBuf
<1>3. Level(4) => Safe(ValueAt(op[t]))
  BY <1>1, <1>2, Structs, BeginOutside, SafeOutside, Zenon
<1>4. Safe(Buf) /\ Buf \in Cell /\ ValueAt(op[t]) \in Cell
  BY <1>1, Fields, Zenon DEF Safe
<1>5. pc[t] \notin {"idle", "memcpy", "fill"}
  BY <1>2, SMT DEF Begin
<1> QED
  BY <1>2, <1>3, <1>4, <1>5, MemcpyKeeps, Zenon

LEMMA GetFromBufKeeps ==
    ASSUME IInv, NEW t \in Tcs, GetFromBuf(t) PROVE IInv'
<1>1. TypeOK /\ (Level(4) => Level(3)) /\ (Level(3) => Level(2))
  BY Levels, Zenon DEF IInv
<1>2. Begin(t, "get_from_buf") /\ Memcpy(t, ValueAt(op[t]), Buf)
  BY DEF GetFromBuf
<1>3. Level(3) => Safe(ValueAt(op[t]))
  BY <1>1, <1>2, Structs, BeginOutside, SafeOutside, Zenon
<1>4. Safe(Buf) /\ Buf \in Cell /\ ValueAt(op[t]) \in Cell
  BY <1>1, Fields, Zenon DEF Safe
<1>5. pc[t] \notin {"idle", "memcpy", "fill"}
  BY <1>2, SMT DEF Begin
<1> QED
  BY <1>2, <1>3, <1>4, <1>5, MemcpyKeeps, Zenon

LEMMA PutToAddrKeeps ==
    ASSUME IInv, NEW t \in Tcs, PutToAddr(t) PROVE IInv'
<1>1. TypeOK /\ (Level(4) => Level(3)) /\ (Level(3) => Level(2))
  BY Levels, Zenon DEF IInv
<1>2. Begin(t, "put_to_addr")
  BY DEF PutToAddr
<1>3. PICK a \in Addresses :
         IF Level(3) /\ ~Outside(a, 2)
         THEN Step(t, "put_to_addr", "leave") ELSE Memcpy(t, a, ValueAt(op[t]))
  BY DEF PutToAddr
<1>4. CASE Level(3) /\ ~Outside(a, 2)
  <2>1. Step(t, "put_to_addr", "leave") /\ "leave" \in Labels
    BY <1>3, <1>4, Zenon DEF Labels
  <2> QED
    BY <2>1, StepKeeps, SMT
<1>5. CASE ~(Level(3) /\ ~Outside(a, 2))
  <2>1. Memcpy(t, a, ValueAt(op[t])) /\ a \in Cell /\ ValueAt(op[t]) \in Cell
    BY <1>1, <1>3, <1>5, Fields, Zenon
  <2>2. Level(3) => Safe(a)
    BY <1>5, <2>1, AddressOutside, SafeOutside, Zenon
  <2>3. Level(4) => Safe(ValueAt(op[t]))
    BY <1>1, <1>2, Structs, BeginOutside, SafeOutside, Zenon
  <2>4. pc[t] \notin {"idle", "memcpy", "fill"}
    BY <1>2, SMT DEF Begin
  <2> QED
    BY <2>1, <2>2, <2>3, <2>4, MemcpyKeeps, Zenon
<1> QED
  BY <1>4, <1>5

LEMMA GetFromAddrKeeps ==
    ASSUME IInv, NEW t \in Tcs, GetFromAddr(t) PROVE IInv'
<1>1. TypeOK /\ (Level(4) => Level(3)) /\ (Level(3) => Level(2))
  BY Levels, Zenon DEF IInv
<1>2. Begin(t, "get_from_addr")
  BY DEF GetFromAddr
<1>3. PICK a \in Addresses, b \in Addresses :
         /\ (Level(3) /\ ~Level(4)) \/ a = b
         /\ IF Level(3) /\ ~Outside(a, 2)
            THEN Step(t, "get_from_addr", "leave") ELSE Memcpy(t, ValueAt(op[t]), b)
  BY DEF GetFromAddr
<1>4. CASE Level(3) /\ ~Outside(a, 2)
  <2>1. Step(t, "get_from_addr", "leave") /\ "leave" \in Labels
    BY <1>3, <1>4, Zenon DEF Labels
  <2> QED
    BY <2>1, StepKeeps, SMT
<1>5. CASE ~(Level(3) /\ ~Outside(a, 2))
  <2>1. Memcpy(t, ValueAt(op[t]), b) /\ b \in Cell /\ ValueAt(op[t]) \in Cell
    BY <1>1, <1>3, <1>5, Fields, Zenon
  <2>2. Level(4) => Safe(b)
    BY <1>1, <1>3, <1>5, <2>1, AddressOutside, SafeOutside, Zenon
  <2>3. Level(3) => Safe(ValueAt(op[t]))
    BY <1>1, <1>2, Structs, BeginOutside, SafeOutside, Zenon
  <2>4. pc[t] \notin {"idle", "memcpy", "fill"}
    BY <1>2, SMT DEF Begin
  <2> QED
    BY <2>1, <2>2, <2>3, <2>4, MemcpyKeeps, Zenon
<1> QED
  BY <1>4, <1>5

LEMMA CallAddrKeeps ==
    ASSUME IInv, NEW t \in Tcs, CallAddr(t) PROVE IInv'
<1>1. TypeOK /\ (Level(4) => Level(3)) /\ (Level(3) => Level(2))
  BY Levels, Zenon DEF IInv
<1>2. PICK a \in Addresses :
         IF Callable(a) THEN JumpTo(t, "call_addr", a) ELSE Step(t, "call_addr", "leave")
  BY DEF CallAddr
<1>3. CASE Step(t, "call_addr", "leave")
  <2>1. "leave" \in Labels
    BY Zenon DEF Labels
  <2> QED
    BY <1>3, <2>1, StepKeeps, SMT
<1>4. CASE Callable(a) /\ a # NopFn
  <2>1. pc[t] = "call_addr" /\ Stray(t, IF a \in Enclave THEN "enclave" ELSE "outside")
    BY <1>2, <1>4, Zenon DEF JumpTo
  <2>2. ~Level(4) /\ (Level(3) => a \notin Enclave)
    <3>1. a \in Cell
      BY <1>1, Fields, Zenon
    <3> QED
      BY <1>4, <3>1, AddressOutside, Zenon DEF Callable, OutsideTwo
  <2>3. CASE a \in Enclave
    BY <2>1, <2>2, <2>3, StrayKeeps, SMT
  <2>4. CASE a \notin Enclave
    BY <2>1, <2>2, <2>4, StrayKeeps, SMT
  <2> QED
    BY <2>3, <2>4
<1> QED
  BY <1>2, <1>3, <1>4, Zenon DEF JumpTo

-----------------------------------------------------------------------------
(* The entry code pushes onto the frame of its own TCS.                     *)
LEMMA EnterKeeps ==
    ASSUME IInv, NEW t \in Tcs, Enter(t), TypeOK' PROVE IInv'
<1>1. TypeOK /\ pc[t] = "idle" /\ UNCHANGED <<build, src, dst, i, astray, leaked, raced>>
  BY Zenon DEF IInv, Enter
<1>2. PICK l \in {"leave", "header"} : Go(t, l)
  BY Zenon DEF Enter
<1>3. pc'[t] = l /\ \A u \in Tcs \ {t} : pc'[u] = pc[u]
  BY <1>1, <1>2, OneMoves, Zenon DEF Labels
<1>4. \A u \in Tcs \ {t} : op'[u] = op[u]
  BY <1>1, SMT DEF Enter, TypeOK
<1>5. mem'[Frame[t]] = t /\ \A a \in Enclave \ {Frame[t]} : mem'[a] = mem[a]
  BY <1>1, Layout, SMT DEF Enter, StackOf, TypeOK
<1>6. Frame[t] \in Private /\ Private \subseteq Enclave
  BY Layout, Zenon
<1>7. \A a \in {Buf, Buf + 1, Unm, Unm + 1, Unm + 2} : mem'[a] = mem[a]
  BY <1>5, <1>6, Layout, Zenon
<1>8. OthersKept(t)
  BY <1>1, <1>3, <1>4, Zenon DEF OthersKept
<1>9. MemKept3(t)
  BY <1>5, <1>6, Zenon DEF MemKept3
<1>10. MemKept4
  BY <1>1, <1>7, Zenon DEF MemKept4, IInv, Inv4
<1>11. OthersFilled(t)
  BY <1>1, <1>3, <1>7, Zenon DEF OthersFilled, FilledSoFar, Filled
<1>12. l \notin {"memcpy", "move", "offset", "index", "fill", "run"}
  BY <1>2, SMT
<1>13. Own3(t) /\ Own4(t)
  BY <1>3, <1>5, <1>12, Zenon DEF Own3, Own4
<1>14. ControlKept'
  BY <1>1, SMT DEF IInv, InvC, ControlKept, Level
<1>15. i'[t] = 0
  <2>1. pc[t] \notin {"memcpy", "fill"}
    BY <1>1, SMT
  <2> QED
    BY <1>1, <2>1, Zenon DEF IInv, InvC
<1>16. OwnC(t)
  BY <1>3, <1>12, <1>14, <1>15, Zenon DEF OwnC, FilledSoFar
<1> QED
  BY <1>1, <1>8, <1>9, <1>10, <1>11, <1>13, <1>16, FrameLemma, Zenon

(* And finds there what it needs to come back.                              *)
LEMMA LeaveKeeps ==
    ASSUME IInv, NEW t \in Tcs, Leave(t), TypeOK' PROVE IInv'
<1>1. TypeOK /\ pc[t] = "leave" /\ UNCHANGED <<build, mem, leaked, raced>>
  BY Zenon DEF IInv, Leave
<1>2. Level(3) => mem[StackOf(t)] = t
  <2>1. pc[t] # "idle"
    BY <1>1, SMT
  <2> QED
    BY <2>1, Zenon DEF IInv, Inv3, Owned, StackOf
<1>3. PICK l \in {"idle", "lost"} : Go(t, l)
  BY Zenon DEF Leave
<1>4. pc'[t] = l /\ \A u \in Tcs \ {t} : pc'[u] = pc[u]
  BY <1>1, <1>3, OneMoves, Zenon DEF Labels
<1>5. \A u \in Tcs \ {t} : op'[u] = op[u] /\ src'[u] = src[u] /\ dst'[u] = dst[u] /\ i'[u] = i[u]
  BY <1>1, SMT DEF Leave, TypeOK
<1>6. i'[t] = 0
  BY <1>1, SMT DEF Leave, TypeOK
<1>7. Level(4) => ~leaked'
  BY <1>1, Zenon DEF IInv, Inv4
<1>8. OthersKept(t)
  BY <1>4, <1>5, Zenon DEF OthersKept
<1>9. MemKept3(t) /\ MemKept4
  BY <1>1, <1>7, Zenon DEF MemKept3, MemKept4, IInv, Inv4
<1>10. OthersFilled(t)
  BY <1>1, <1>4, <1>5, Zenon DEF OthersFilled, FilledSoFar, Filled
<1>11. l \notin {"memcpy", "move", "offset", "index", "fill", "run"}
  BY <1>3, SMT
<1>12. Own3(t) /\ Own4(t)
  BY <1>1, <1>2, <1>4, <1>11, Zenon DEF Own3, Own4, StackOf
<1>13. (Level(3) => astray' = astray) /\ astray' \subseteq astray \cup {"frame"}
  BY <1>2, Zenon DEF Leave
<1>14. ControlKept'
  <2>1. (Level(3) => Level(2)) /\ (Level(4) => Level(3)) /\ ControlKept
    BY <1>1, Levels, Zenon DEF IInv, InvC
  <2>2. \A n : Level(n)' <=> Level(n)
    BY <1>1, SameLevel
  <2>3. "table" # "frame" /\ (raced' <=> raced)
    BY <1>1
  <2>4. Level(2) => "table" \notin astray'
    BY <1>13, <2>1, <2>3, Zenon DEF ControlKept
  <2> QED
    BY <1>13, <2>1, <2>2, <2>3, <2>4, Zenon DEF ControlKept
<1>15. OwnC(t)
  BY <1>4, <1>6, <1>11, <1>14, Zenon DEF OwnC, FilledSoFar
<1> QED
  BY <1>1, <1>8, <1>9, <1>10, <1>12, <1>15, FrameLemma, Zenon

-----------------------------------------------------------------------------
(* What a safe range holds at level 4 is data or the host's.                *)
LEMMA SafeContent ==
    ASSUME IInv, Level(4), NEW a \in Cell, Safe(a), NEW k \in {0, 1}
    PROVE  Content(Plus(a, k)) \in {"data", "host"}
<1>1. mem[Buf] \in {"data", "host"} /\ mem[Buf + 1] \in {"data", "host"}
  BY Zenon DEF IInv, Inv4
<1>2. Plus(a, 0) = a /\ Plus(Buf, 1) = Buf + 1
  BY PlusZero, Layout, Zenon
<1>3. CASE a = Buf
  BY <1>1, <1>2, <1>3, Layout, Zenon DEF Content
<1>4. CASE OutsideTwo(a)
  BY <1>2, <1>4, Zenon DEF Content, OutsideTwo
<1> QED
  BY <1>3, <1>4, Zenon DEF Safe

LEMMA CopyCellKeeps ==
    ASSUME IInv, NEW t \in Tcs, CopyCell(t), TypeOK' PROVE IInv'
<1> DEFINE to == Plus(dst[t], i[t])
           from == Plus(src[t], i[t])
<1>1. /\ TypeOK /\ pc[t] = "memcpy" /\ UNCHANGED <<build, op, src, dst, astray, raced>>
      /\ (Level(4) => Level(3)) /\ (Level(3) => Level(2))
  BY Levels, Zenon DEF IInv, CopyCell
<1>2. i[t] \in {0, 1} /\ dst[t] \in Cell /\ src[t] \in Cell
  BY <1>1, SMT DEF TypeOK
<1>3. mem' = IF to \in Enclave THEN [mem EXCEPT ![to] = Content(from)] ELSE mem
  BY DEF CopyCell
<1>4. leaked' <=> (leaked \/ Leaks(to, from))
  BY Zenon DEF CopyCell
<1>5. /\ pc'[t] \in {"memcpy", "leave"} /\ (pc'[t] = "leave" => i'[t] = 0)
      /\ \A u \in Tcs \ {t} : pc'[u] = pc[u] /\ i'[u] = i[u]
  BY <1>1, SMT DEF CopyCell, Go, TypeOK
<1>6. Level(3) => to \notin Enclave \/ to \in {Buf, Buf + 1}
  <2> SUFFICES ASSUME Level(3) PROVE to \notin Enclave \/ to \in {Buf, Buf + 1}
    OBVIOUS
  <2>1. Safe(dst[t])
    BY <1>1, Zenon DEF IInv, Inv3
  <2>2. Plus(dst[t], 0) = dst[t] /\ Plus(Buf, 1) = Buf + 1
    BY <1>2, PlusZero, Layout, Zenon
  <2>3. CASE i[t] = 0
    BY <2>1, <2>2, <2>3, Zenon DEF Safe, OutsideTwo
  <2>4. CASE i[t] = 1
    BY <2>1, <2>2, <2>4, Zenon DEF Safe, OutsideTwo
  <2> QED
    BY <1>2, <2>3, <2>4, Zenon
<1>7. Level(4) => Content(from) \in {"data", "host"} /\ Safe(src[t])
  <2>1. Level(4) => Safe(src[t])
    BY <1>1, Zenon DEF IInv, Inv4
  <2> QED
    BY <1>2, <2>1, SafeContent, Zenon
<1>8. mem \in [Enclave -> Kinds]
  BY <1>1 DEF TypeOK
<1>9. Level(3) => \A a \in Enclave \ {Buf, Buf + 1} : mem'[a] = mem[a]
  BY <1>3, <1>6, <1>8, Layout, SMT
<1>10. Level(3) => /\ \A a \in Private : mem'[a] = mem[a]
                   /\ mem'[Unm] = mem[Unm] /\ mem'[Unm + 1] = mem[Unm + 1]
                   /\ mem'[Unm + 2] = mem[Unm + 2]
  BY <1>9, Layout, Zenon
<1>11. Level(4) => mem'[Buf] \in {"data", "host"} /\ mem'[Buf + 1] \in {"data", "host"}
  <2> SUFFICES ASSUME Level(4), NEW a \in {Buf, Buf + 1} PROVE mem'[a] \in {"data", "host"}
    BY Zenon
  <2>1. mem[a] \in {"data", "host"} /\ a \in Enclave
    BY Layout, Zenon DEF IInv, Inv4
  <2>2. mem'[a] \in {mem[a], Content(from)}
    BY <1>3, <1>8, <2>1, SMT
  <2> QED
    BY <1>7, <2>1, <2>2, Zenon
<1>12. OthersKept(t)
  BY <1>1, <1>5, Zenon DEF OthersKept
<1>13. MemKept3(t)
  BY <1>10, Zenon DEF MemKept3
<1>14. MemKept4
  <2>1. Level(4) => ~leaked'
    <3>1. Level(4) => ~Leaks(to, from)
      BY <1>7, Zenon DEF Leaks, Public
    <3>2. Level(4) => ~leaked
      BY Zenon DEF IInv, Inv4
    <3> QED
      BY <1>4, <3>1, <3>2, Zenon
  <2> QED
    BY <1>1, <1>10, <1>11, <2>1, Zenon DEF MemKept4
<1>15. OthersFilled(t)
  BY <1>1, <1>5, <1>10, Zenon DEF OthersFilled, FilledSoFar, Filled
<1>16. pc'[t] \notin {"idle", "move", "offset", "index", "fill", "run"}
  BY <1>5, SMT
<1>17. Own3(t)
  <2>1. Level(3) => mem'[Frame[t]] = mem[Frame[t]]
    BY <1>10, Layout, Zenon
  <2>2. pc[t] # "idle"
    BY <1>1, SMT
  <2>3. Level(3) => mem[Frame[t]] = t /\ Safe(dst[t])
    BY <1>1, <2>2, Zenon DEF IInv, Inv3, Owned
  <2> QED
    BY <1>1, <1>16, <2>1, <2>3, Zenon DEF Own3
<1>18. Own4(t)
  BY <1>1, <1>7, <1>16, Zenon DEF Own4
<1>19. ControlKept'
  BY <1>1, SMT DEF IInv, InvC, ControlKept, Level
<1>20. OwnC(t)
  BY <1>5, <1>16, <1>19, Zenon DEF OwnC, FilledSoFar
<1> QED
  BY <1>1, <1>12, <1>13, <1>14, <1>15, <1>17, <1>18, <1>20, FrameLemma, Zenon

LEMMA MoveWordKeeps ==
    ASSUME IInv, NEW t \in Tcs, MoveWord(t), TypeOK' PROVE IInv'
<1> DEFINE to == dst[t]
           from == src[t]
<1>1. /\ TypeOK /\ pc[t] = "move" /\ UNCHANGED <<build, op, src, dst, i, astray, raced>>
      /\ (Level(4) => Level(3)) /\ (Level(3) => Level(2))
  BY Levels, Zenon DEF IInv, MoveWord
<1>2. Level(3) => mem' = mem
  <2> SUFFICES ASSUME Level(3) PROVE mem' = mem
    OBVIOUS
  <2>1. to \notin Enclave /\ Plus(to, 1) \notin Enclave
    BY <1>1, Zenon DEF IInv, Inv3, OutsideTwo
  <2>2. mem' = [a \in Enclave |->
                  IF a = to THEN Content(from)
                  ELSE IF a = Plus(to, 1) THEN Content(Plus(from, 1)) ELSE mem[a]]
    BY DEF MoveWord
  <2>3. mem \in [Enclave -> Kinds]
    BY <1>1 DEF TypeOK
  <2> QED
    BY <2>1, <2>2, <2>3, SMT
<1>3. Level(4) => ~leaked'
  <2> SUFFICES ASSUME Level(4) PROVE ~leaked'
    OBVIOUS
  <2>1. Safe(from) /\ from \in Cell
    BY <1>1, SMT DEF IInv, Inv4, TypeOK
  <2>2. Content(Plus(from, 0)) \in {"data", "host"} /\ Content(Plus(from, 1)) \in {"data", "host"}
    BY <2>1, SafeContent, Zenon
  <2>3. Plus(from, 0) = from
    BY <2>1, PlusZero, Zenon
  <2>4. ~Leaks(to, from) /\ ~Leaks(Plus(to, 1), Plus(from, 1))
    BY <2>2, <2>3, Zenon DEF Leaks, Public
  <2>5. ~leaked
    BY Zenon DEF IInv, Inv4
  <2> QED
    BY <2>4, <2>5, Zenon DEF MoveWord
<1>4. pc'[t] = "leave" /\ \A u \in Tcs \ {t} : pc'[u] = pc[u]
  BY <1>1, OneMoves, Zenon DEF MoveWord, Labels
<1>5. OthersKept(t)
  BY <1>1, <1>4, Zenon DEF OthersKept
<1>6. MemKept3(t) /\ MemKept4
  BY <1>1, <1>2, <1>3, Zenon DEF MemKept3, MemKept4, IInv, Inv4
<1>7. OthersFilled(t)
  BY <1>1, <1>2, <1>4, Zenon DEF OthersFilled, FilledSoFar, Filled
<1>8. pc'[t] \notin {"idle", "memcpy", "move", "offset", "index", "fill", "run"}
  BY <1>4, SMT
<1>9. Own3(t)
  <2>1. pc[t] # "idle"
    BY <1>1, SMT
  <2> QED
    BY <1>2, <1>8, <2>1, Zenon DEF Own3, IInv, Inv3, Owned
<1>10. Own4(t)
  BY <1>8, Zenon DEF Own4
<1>11. ControlKept'
  BY <1>1, SMT DEF IInv, InvC, ControlKept, Level
<1>12. i'[t] = 0
  <2>1. pc[t] \notin {"memcpy", "fill"}
    BY <1>1, SMT
  <2> QED
    BY <1>1, <2>1, Zenon DEF IInv, InvC
<1>13. OwnC(t)
  BY <1>8, <1>11, <1>12, Zenon DEF OwnC, FilledSoFar
<1> QED
  BY <1>1, <1>5, <1>6, <1>7, <1>9, <1>10, <1>13, FrameLemma, Zenon

-----------------------------------------------------------------------------
(* The unmeasured buffer: written by two operations only.                   *)
LEMMA UnmeasuredWrite ==
    ASSUME IInv, TypeOK, NEW t \in Tcs, mem' \in [Enclave -> Kinds],
           \A a \in Enclave \ {Unm, Unm + 1, Unm + 2} : mem'[a] = mem[a],
           UNCHANGED <<build, leaked>>
    PROVE  /\ MemKept3(t)
           /\ Level(4) => mem'[Buf] \in {"data", "host"} /\ mem'[Buf + 1] \in {"data", "host"}
           /\ Level(4) => ~leaked'
           /\ Level(3) /\ pc[t] # "idle" => mem'[Frame[t]] = t
<1>1. \A a \in Private \cup {Buf, Buf + 1} : mem'[a] = mem[a]
  BY Layout, Zenon
<1>2. Frame[t] \in Private
  BY Layout, Zenon
<1> QED
  BY <1>1, <1>2, Zenon DEF MemKept3, IInv, Inv3, Inv4, Owned

LEMMA ResetUnmeasuredKeeps ==
    ASSUME IInv, NEW t \in Tcs, ResetUnmeasured(t), TypeOK' PROVE IInv'
<1>1. /\ TypeOK /\ Begin(t, "get_from_unmeasured") /\ pc[t] = "get_from_unmeasured"
      /\ UNCHANGED <<build, op, src, dst, i, astray, leaked>>
      /\ (Level(4) => Level(3)) /\ (Level(3) => Level(2))
  BY Levels, Zenon DEF IInv, ResetUnmeasured, Begin
<1>2. mem' = Reset /\ mem \in [Enclave -> Kinds] /\ mem' \in [Enclave -> Kinds]
  BY <1>1, Zenon DEF ResetUnmeasured, TypeOK
<1>3. \A a \in Enclave \ {Unm, Unm + 1, Unm + 2} : mem'[a] = mem[a]
  BY <1>2, SMT DEF Reset
<1>4. Level(4) => mem'[Unm] = "zero" /\ mem'[Unm + 1] = "zero"
  BY <1>2, Layout, SMT DEF Reset
<1>5. ~raced' => ~raced /\ (mem' = mem \/ \A u \in Tcs : pc[u] \notin {"fill", "run"})
  BY Zenon DEF ResetUnmeasured
<1>6. pc'[t] = "offset" /\ \A u \in Tcs \ {t} : pc'[u] = pc[u]
  BY <1>1, OneMoves, Zenon DEF ResetUnmeasured, Labels
<1>7. OthersKept(t)
  BY <1>1, <1>6, Zenon DEF OthersKept
<1>8. MemKept3(t) /\ MemKept4
  BY <1>1, <1>2, <1>3, <1>4, UnmeasuredWrite, Zenon DEF MemKept4, Offset
<1>9. OthersFilled(t)
  <2> SUFFICES ASSUME ~raced', NEW u \in Tcs \ {t}, FilledSoFar(u) PROVE FilledSoFar(u)'
    BY <1>5, Zenon DEF OthersFilled
  <2>1. CASE mem' = mem
    BY <1>1, <1>6, <2>1, Zenon DEF FilledSoFar, Filled
  <2>2. CASE pc[u] \notin {"fill", "run"}
    BY <1>6, <2>2, Zenon DEF FilledSoFar
  <2> QED
    BY <1>5, <2>1, <2>2, Zenon
<1>10. Own3(t)
  <2>1. Level(3) => OutsideTwo(ValueAt(op[t]))
    BY <1>1, Structs, BeginOutside, Zenon
  <2>2. Level(3) => mem'[Frame[t]] = t
    <3>1. pc[t] # "idle"
      BY <1>1, SMT
    <3> QED
      BY <1>1, <1>2, <1>3, <3>1, UnmeasuredWrite, Zenon
  <2>3. pc'[t] \notin {"memcpy", "move"}
    BY <1>6, SMT
  <2> QED
    BY <1>1, <2>1, <2>2, <2>3, Zenon DEF Own3
<1>11. Own4(t)
  <2>1. pc'[t] \notin {"memcpy", "move"}
    BY <1>6, SMT
  <2> QED
    BY <1>4, <2>1, Zenon DEF Own4, Offset
<1>12. ControlKept'
  BY <1>1, <1>5, SMT DEF IInv, InvC, ControlKept, Level
<1>13. i'[t] = 0
  <2>1. pc[t] \notin {"memcpy", "fill"}
    BY <1>1, SMT
  <2> QED
    BY <1>1, <2>1, Zenon DEF IInv, InvC
<1>14. pc'[t] \notin {"index", "fill", "run"}
  BY <1>6, SMT
<1>15. OwnC(t)
  BY <1>12, <1>13, <1>14, Zenon DEF OwnC, FilledSoFar
<1> QED
  BY <1>1, <1>7, <1>8, <1>9, <1>10, <1>11, <1>15, FrameLemma, Zenon

LEMMA ReadOffsetKeeps ==
    ASSUME IInv, NEW t \in Tcs, ReadOffset(t), TypeOK' PROVE IInv'
<1>1. /\ TypeOK /\ pc[t] = "offset" /\ UNCHANGED <<build, mem, op, i, astray, leaked, raced>>
      /\ (Level(4) => Level(3)) /\ (Level(3) => Level(2))
  BY Levels, Zenon DEF IInv, ReadOffset
<1>2. PICK a \in Sources : src' = [src EXCEPT ![t] = a]
  BY DEF ReadOffset
<1>3. Level(4) => Safe(a)
  <2> SUFFICES ASSUME Level(4) PROVE Safe(a)
    OBVIOUS
  <2>1. mem[Unm] \in Offset /\ mem[Unm + 1] \in Offset /\ mem[Unm + 1] # "nop"
    BY <1>1, Zenon DEF IInv, Inv4, ReadOffset, FaultyOffset
  <2>2. mem[Unm + 1] = "zero"
    BY <2>1, Zenon DEF Offset
  <2>3. a = Buf \/ (a \in Addresses /\ Outside(a, 2))
    BY <1>2, <2>2, Zenon DEF Sources
  <2> QED
    BY <1>1, <2>3, Fields, AddressOutside, Zenon DEF Safe
<1>4. /\ src'[t] = a /\ dst'[t] = ValueAt(op[t])
      /\ \A u \in Tcs \ {t} : src'[u] = src[u] /\ dst'[u] = dst[u]
  BY <1>1, <1>2, SMT DEF ReadOffset, TypeOK
<1>5. pc'[t] = "move" /\ \A u \in Tcs \ {t} : pc'[u] = pc[u]
  BY <1>1, OneMoves, Zenon DEF ReadOffset, Labels
<1>6. OthersKept(t)
  BY <1>1, <1>4, <1>5, Zenon DEF OthersKept
<1>7. Level(3) => OutsideTwo(dst'[t])
  BY <1>1, <1>4, Zenon DEF IInv, Inv3
<1>8. pc'[t] \notin {"memcpy", "offset", "index", "fill", "run"} /\ pc[t] # "idle"
  BY <1>1, <1>5, SMT
<1>9. ControlKept'
  BY <1>1, SMT DEF IInv, InvC, ControlKept, Level
<1>10. i'[t] = 0
  <2>1. pc[t] \notin {"memcpy", "fill"}
    BY <1>1, SMT
  <2> QED
    BY <1>1, <2>1, Zenon DEF IInv, InvC
<1>11. OwnC(t)
  BY <1>8, <1>9, <1>10, Zenon DEF OwnC, FilledSoFar
<1> QED
  BY <1>1, <1>3, <1>4, <1>6, <1>7, <1>8, <1>11, QuietLemma, Zenon

LEMMA FillKeeps ==
    ASSUME IInv, NEW t \in Tcs, Fill(t), TypeOK' PROVE IInv'
<1>1. /\ TypeOK /\ pc[t] = "fill" /\ UNCHANGED <<build, op, src, dst, astray, leaked, raced>>
      /\ (Level(4) => Level(3)) /\ (Level(3) => Level(2))
  BY Levels, Zenon DEF IInv, Fill
<1>2. /\ mem \in [Enclave -> Kinds] /\ mem' \in [Enclave -> Kinds] /\ i[t] \in {0, 1}
      /\ mem' = [mem EXCEPT ![Unm + i[t]] = "nop", ![Unm + 2] = "ret"]
  BY <1>1, SMT DEF Fill, TypeOK
<1>3. Unm + 0 = Unm
  BY Layout, SMT DEF Unm
<1>4. /\ \A a \in Enclave \ {Unm, Unm + 1, Unm + 2} : mem'[a] = mem[a]
      /\ mem'[Unm + 2] = "ret"
      /\ i[t] = 0 => mem'[Unm] = "nop" /\ mem'[Unm + 1] = mem[Unm + 1]
      /\ i[t] = 1 => mem'[Unm] = mem[Unm] /\ mem'[Unm + 1] = "nop"
  BY <1>2, <1>3, Layout, SMT
<1>5. /\ i[t] = 0 => pc'[t] = "fill" /\ i'[t] = 1
      /\ i[t] = 1 => pc'[t] = "run" /\ i'[t] = 0
      /\ \A u \in Tcs \ {t} : pc'[u] = pc[u] /\ i'[u] = i[u]
  BY <1>1, SMT DEF Fill, Go, TypeOK
<1>6. OthersKept(t)
  BY <1>1, <1>5, Zenon DEF OthersKept
<1>7. MemKept3(t) /\ MemKept4
  <2>1. mem[Unm] \in Offset /\ mem[Unm + 1] \in Offset =>
          mem'[Unm] \in Offset /\ mem'[Unm + 1] \in Offset
    BY <1>2, <1>4, Zenon DEF Offset
  <2> QED
    BY <1>1, <1>2, <1>4, <2>1, UnmeasuredWrite, Zenon DEF MemKept4
<1>8. OthersFilled(t)
  <2>1. /\ mem[Unm] = "nop" => mem'[Unm] = "nop"
        /\ Filled => mem'[Unm] = "nop" /\ mem'[Unm + 1] = "nop"
    BY <1>2, <1>4, Zenon DEF Filled
  <2> QED
    BY <1>1, <1>4, <1>5, <2>1, Zenon DEF OthersFilled, FilledSoFar, Filled
<1>9. pc'[t] \notin {"memcpy", "move", "offset", "index"} /\ pc[t] # "idle"
  BY <1>1, <1>2, <1>5, SMT
<1>10. Own3(t)
  <2>1. Level(3) => mem'[Frame[t]] = t
    BY <1>1, <1>2, <1>4, <1>9, UnmeasuredWrite, Zenon
  <2> QED
    BY <1>9, <2>1, Zenon DEF Own3
<1>11. Own4(t)
  BY <1>9, Zenon DEF Own4
<1>12. Level(3) /\ ~raced' => FilledSoFar(t)'
  <2> SUFFICES ASSUME Level(3), ~raced' PROVE FilledSoFar(t)'
    OBVIOUS
  <2>1. i[t] = 1 => mem[Unm] = "nop"
    BY <1>1, Zenon DEF IInv, InvC, FilledSoFar
  <2>2. CASE i[t] = 0
    BY <1>4, <1>5, <2>2, SMT DEF FilledSoFar
  <2>3. CASE i[t] = 1
    BY <1>4, <1>5, <2>1, <2>3, SMT DEF FilledSoFar, Filled
  <2> QED
    BY <1>2, <2>2, <2>3, Zenon
<1>13. ControlKept'
  BY <1>1, SMT DEF IInv, InvC, ControlKept, Level
<1>14. pc'[t] \notin {"memcpy", "fill"} => i'[t] = 0
  BY <1>2, <1>5, SMT
<1>15. OwnC(t)
  BY <1>9, <1>12, <1>13, <1>14, Zenon DEF OwnC
<1> QED
  BY <1>1, <1>6, <1>7, <1>8, <1>10, <1>11, <1>15, FrameLemma, Zenon

LEMMA RunAnythingKeeps ==
    ASSUME IInv, NEW t \in Tcs, RunAnything(t) PROVE IInv'
<1>1. ~Filled /\ pc[t] = "run" /\ Stray(t, "enclave")
  BY DEF RunAnything
<1>2. Level(3) => raced
  BY <1>1, Zenon DEF IInv, InvC, FilledSoFar
<1>3. Level(4) => Level(3)
  BY Levels, Zenon DEF IInv
<1>4. pc[t] \notin {"idle", "memcpy", "fill"}
  BY <1>1, SMT
<1>5. "enclave" # "table"
  OBVIOUS
<1> QED
  BY <1>1, <1>2, <1>3, <1>4, <1>5, StrayKeeps, Zenon

-----------------------------------------------------------------------------
LEMMA NextInv == IInv /\ [Next]_vars => IInv'
<1> SUFFICES ASSUME IInv, [Next]_vars PROVE IInv'
  OBVIOUS
<1>t. TypeOK /\ TypeOK'
  BY TypeStep, Zenon DEF IInv
<1>l. {"type", "index", "fill", "run", "leave", "lost"} \cup Ops \subseteq Labels
  BY OpsAreLabels, Zenon DEF Labels
<1>1. ASSUME NEW t \in Tcs, NEW from, NEW to \in {"type", "fill", "leave", "lost"},
             Step(t, from, to), from \notin {"idle", "memcpy", "fill"}
      PROVE  IInv'
  <2>1. to \notin {"memcpy", "move", "offset"} /\ to \notin {"index", "run"}
    BY SMT
  <2> QED
    BY <1>1, <1>l, <2>1, StepKeeps, Zenon
<1>2. ASSUME NEW t \in Tcs, CheckHeader(t) PROVE IInv'
  BY <1>1, <1>2, SMT DEF CheckHeader
<1>3. ASSUME NEW t \in Tcs, NEW from \in {"type", "index"}, NEW o \in Ops, Step(t, from, o)
      PROVE  IInv'
  <2>1. o \in Labels /\ o \notin {"memcpy", "move", "offset"} /\ o \notin {"index", "run"}
    BY OpsAreLabels, Zenon
  <2>2. from \notin {"idle", "memcpy", "fill"}
    BY SMT
  <2> QED
    BY <1>3, <2>1, <2>2, StepKeeps, Zenon
<1>4. ASSUME NEW t \in Tcs, ReadType(t) PROVE IInv'
  <2>1. CASE Step(t, "type", "leave")
    BY <1>1, <2>1, SMT
  <2>2. CASE ReadTwice /\ Step(t, "type", "index")
    <3>1. "index" \in Labels /\ ~Level(2)
      BY <1>l, <2>2, Zenon DEF ReadTwice
    <3>2. "index" \notin {"memcpy", "move", "offset"} /\ "type" \notin {"idle", "memcpy", "fill"}
      BY SMT
    <3> QED
      BY <2>2, <3>1, <3>2, StepKeeps, Zenon
  <2>3. CASE \E o \in Ops : Step(t, "type", o)
    BY <1>3, <2>3, Zenon
  <2> QED
    BY <1>4, <2>1, <2>2, <2>3, Zenon DEF ReadType
<1>5. ASSUME NEW t \in Tcs, ReadIndex(t) PROVE IInv'
  BY <1>3, <1>5, Zenon DEF ReadIndex
<1>6. ASSUME NEW t \in Tcs, ReadIndexBeyond(t) PROVE IInv'
  <2>1. pc[t] = "index" /\ Stray(t, "table")
    BY <1>6 DEF ReadIndexBeyond
  <2>2. ~Level(2)
    BY <2>1, Zenon DEF IInv, InvC
  <2>3. ~Level(3) /\ ~Level(4)
    BY <1>t, <2>2, Levels, Zenon
  <2>4. pc[t] \notin {"idle", "memcpy", "fill"}
    BY <2>1, SMT
  <2> QED
    BY <2>1, <2>2, <2>3, <2>4, StrayKeeps, Zenon
<1>7. ASSUME NEW t \in Tcs, Refuse(t) PROVE IInv'
  <2>1. pc[t] \in DOMAIN Sizes /\ Step(t, pc[t], "leave")
    BY <1>7 DEF Refuse
  <2>2. pc[t] \notin {"idle", "memcpy", "fill"}
    BY <2>1, Structs, SMT
  <2> QED
    BY <1>1, <2>1, <2>2, Zenon
<1>8. ASSUME NEW t \in Tcs, ReadOffsetFaults(t) PROVE IInv'
  BY <1>1, <1>8, SMT DEF ReadOffsetFaults
<1>9. ASSUME NEW t \in Tcs, CallUnmeasured(t) PROVE IInv'
  <2>1. CASE Level(2)
    BY <1>1, <1>9, <2>1, SMT DEF CallUnmeasured
  <2>2. CASE ~Level(2)
    <3>1. Step(t, "call_unmeasured", "run") /\ "run" \in Labels
      BY <1>9, <1>l, <2>2, Zenon DEF CallUnmeasured
    <3>2. /\ "run" \notin {"memcpy", "move", "offset"}
          /\ "call_unmeasured" \notin {"idle", "memcpy", "fill"}
      BY SMT
    <3> QED
      BY <2>2, <3>1, <3>2, StepKeeps, Zenon
  <2> QED
    BY <2>1, <2>2
<1>10. ASSUME NEW t \in Tcs, Run(t) PROVE IInv'
  BY <1>1, <1>10, SMT DEF Run
<1>11. ASSUME NEW t \in Tcs, Nop(t) PROVE IInv'
  BY <1>1, <1>11, SMT DEF Nop
<1>12. ASSUME NEW t \in Tcs, CallNonExec(t) PROVE IInv'
  BY <1>1, <1>12, SMT DEF CallNonExec
<1>13. CASE UNCHANGED vars
  <2>1. /\ build' = build /\ mem' = mem /\ pc' = pc /\ op' = op /\ src' = src /\ dst' = dst
        /\ i' = i /\ astray' = astray /\ (leaked' <=> leaked) /\ (raced' <=> raced)
    BY <1>13, Zenon DEF vars
  <2>2. \A n : Level(n)' <=> Level(n)
    BY <2>1, SameLevel
  <2>3. Inv3'
    BY <2>1, <2>2, Zenon DEF IInv, Inv3, PrivateIntact, Owned, Safe, OutsideTwo, ValueAt
  <2>4. Inv4'
    BY <2>1, <2>2, Zenon DEF IInv, Inv4, Safe, OutsideTwo, Offset
  <2>5. InvC'
    BY <2>1, <2>2, Zenon DEF IInv, InvC, FilledSoFar, Filled, ControlKept
  <2> QED
    BY <1>t, <2>3, <2>4, <2>5, Zenon DEF IInv
<1> QED
  BY <1>t, <1>2, <1>4, <1>5, <1>6, <1>7, <1>8, <1>9, <1>10, <1>11, <1>12, <1>13,
     EnterKeeps, LeaveKeeps, PutToBufKeeps, GetFromBufKeeps, PutToAddrKeeps, GetFromAddrKeeps,
     CopyCellKeeps, MoveWordKeeps, ResetUnmeasuredKeeps, ReadOffsetKeeps, CallAddrKeeps,
     FillKeeps, RunAnythingKeeps, Zenon DEF Next

THEOREM Invariance == Spec => []IInv
<1> QED
  BY InitInv, NextInv, PTL DEF Spec

(* The state keeps its types.                                               *)
THEOREM TypeCorrect == Spec => []TypeOK
<1>1. IInv => TypeOK
  BY DEF IInv
<1> QED
  BY Invariance, <1>1, PTL

(* From level 3 on nothing of the enclave but its buffers is ever written,  *)
(* for any layout, any number of TCSs and any behaviour of the host.        *)
THEOREM PrivateStaysIntact == Spec => []PrivateIntact
<1>1. IInv => PrivateIntact
  BY Zenon DEF IInv, Inv3, PrivateIntact
<1> QED
  BY Invariance, <1>1, PTL

(* At level 4 nothing private is ever copied to the host.                   *)
THEOREM NothingLeaks == Spec => []NoSecretOut
<1>1. IInv => NoSecretOut
  BY Zenon DEF IInv, Inv4, NoSecretOut
<1> QED
  BY Invariance, <1>1, PTL

(* Control stays where each level promises it, and the race on the          *)
(* unmeasured buffer costs level 4 no more than a jump into that buffer.    *)
THEOREM ControlIsKept == Spec => []ControlKept
<1>1. IInv => ControlKept
  BY DEF IInv, InvC
<1> QED
  BY Invariance, <1>1, PTL
=============================================================================
