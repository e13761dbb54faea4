------------------------------- MODULE CmacProofs -------------------------------
(***************************************************************************)
(* The MAC of cmac.c for every block size and every length of a message.   *)
(* TagIsCmac and the types depend on each other: that the rest fits into   *)
(* its block follows from where the loop stops, and the loop invariant     *)
(* Absorbed says where it is.                                              *)
(***************************************************************************)
EXTENDS Cmac, SequenceTheorems, TLAPS

Passed(m) == (m - 1) * B

(* The loop over the blocks: what has been absorbed, and that the last      *)
(* block, complete or not, is still to come.                                *)
Absorbed ==
    /\ j \in 1 .. Rounds(len) /\ n = BlockCount(len)
    /\ input = Passed(j) /\ ilen = len - input
    /\ Len(state) = j - 1
    /\ \A m \in 1 .. j - 1 : state[m] = InputBlock(Passed(m))

(* After it: the state and the rest are those of the definition.            *)
Kept ==
    /\ state = Reference(len).state
    /\ blen = len - Passed(Rounds(len))
    /\ \A b \in Bytes : b < blen => block[b] = Passed(Rounds(len)) + b + 1

Early == {"setkey", "update"}
Late == {"subkeys", "K1", "K2", "last"}

TagInv ==
    /\ pc \in Early => input = 0 /\ ilen = len /\ state = <<>> /\ blen = 0
    /\ pc = "blocks" => Absorbed /\ blen = 0
    /\ pc \in Late => Kept
    /\ pc = "encrypt" => state = Reference(len).state /\ last = Reference(len).last
    /\ TagIsCmac

WipeInv ==
    /\ pc \in {"last", "encrypt", "wipe", "exit", "done"} => L = ZeroKey
    /\ pc \in {"exit", "done"} =>
         K1 = ZeroKey /\ K2 = ZeroKey /\ blen = 0 /\ block = Zero /\ state = <<>>
    /\ pc = "done" => ~keys

(* One round of cmac_multiply_by_u for every byte: the shift with carries,  *)
(* and the product after the reduction.                                     *)
CarryIn(f, b) == IF b = B - 1 THEN {} ELSE Carry(f[b + 1])
Doubled(f) == [b \in Bytes |-> Shifted(f[b]) \cup CarryIn(f, b)]
Product(f) == Reduced(Doubled(f), f)

(* A loop of cmac_multiply_by_u: the bytes behind i are done, and the bit   *)
(* handed on is the one the next byte needs.                                *)
Multiplying(f, p) ==
    /\ \A b \in Bytes : b > i => p[b] = Doubled(f)[b]
    /\ overflow = IF i = B - 1 THEN {} ELSE Carry(f[i + 1])

SubkeyInv ==
    /\ pc = "K1" => L = ek0 /\ Multiplying(L, K1)
    /\ pc = "K2" => K1 = Product(ek0) /\ Multiplying(K1, K2)
    /\ pc = "last" => K1 = Product(ek0) /\ K2 = Product(K1)

IInv == TypeOK /\ TagInv /\ WipeInv /\ SubkeyInv

-----------------------------------------------------------------------------
(* Arithmetic with the block size.                                          *)
LEMMA Next1 == ASSUME NEW a \in Int PROVE (a + 1) * B = a * B + B
  BY CmacAssumption, SMT

LEMMA Monotone == ASSUME NEW a \in Nat, NEW b \in Nat, a <= b PROVE a * B <= b * B
  BY CmacAssumption, SMT

LEMMA Division ==
    ASSUME NEW k \in Nat
    PROVE  /\ BlockCount(k) \in Nat
           /\ BlockCount(k) * B <= k + B - 1
           /\ k + B - 1 < BlockCount(k) * B + B
  BY CmacAssumption, SMT DEF BlockCount

(* Where the loop stops: the rest of the message is never more than a block,*)
(* and there is always a whole block to take before.                        *)
LEMMA RoundsFacts ==
    ASSUME NEW k \in Nat
    PROVE  /\ Rounds(k) \in Nat /\ Rounds(k) >= 1
           /\ k - Passed(Rounds(k)) \in 0 .. B
           /\ k = 0 => BlockCount(k) = 0
           /\ k # 0 => BlockCount(k) = Rounds(k)
           /\ \A m \in 1 .. Rounds(k) - 1 : k - Passed(m) - B \in Nat
<1> DEFINE q == BlockCount(k)
<1>1. q \in Nat /\ q * B <= k + B - 1 /\ k + B - 1 < q * B + B
  BY Division
<1>2. B \in Nat /\ B >= 1
  BY CmacAssumption, SMT
<1>3. CASE k = 0
  <2>1. q = 0
    <3>1. q >= 1 => 1 * B <= q * B
      BY <1>1, Monotone, SMT
    <3> HIDE DEF q
    <3> QED
      BY <1>1, <1>2, <1>3, <3>1, SMT
  <2>2. Rounds(k) = 1 /\ Passed(1) = 0
    BY <1>2, <1>3, SMT DEF Rounds, Passed
  <2> QED
    BY <1>2, <1>3, <2>1, <2>2, SMT
<1>4. CASE k # 0
  <2>1. q >= 1
    <3>1. q = 0 => q * B = 0
      BY <1>2, SMT
    <3> HIDE DEF q
    <3> QED
      BY <1>1, <1>2, <1>4, <3>1, SMT
  <2>2. Rounds(k) = q
    BY <1>4 DEF Rounds, BlockCount
  <2>3. Passed(q) + B = q * B
    <3> HIDE DEF q
    <3>1. (q - 1 + 1) * B = (q - 1) * B + B /\ q - 1 + 1 = q
      BY <1>1, Next1, SMT
    <3> QED
      BY <3>1, SMT DEF Passed
  <2>4. Passed(q) \in Int
    BY <1>1, <1>2, SMT DEF Passed
  <2>5. k - Passed(q) \in 0 .. B
    <3> HIDE DEF q
    <3> QED
      BY <1>1, <1>2, <2>3, <2>4, SMT
  <2>6. ASSUME NEW m \in 1 .. q - 1 PROVE k - Passed(m) - B \in Nat
    <3> HIDE DEF q
    <3>1. (m + 1) * B <= q * B /\ m * B + B = (m + 1) * B
      BY <1>1, Monotone, Next1, SMT
    <3>2. Passed(m) + B = m * B
      <4>1. (m - 1 + 1) * B = (m - 1) * B + B /\ m - 1 + 1 = m
        BY Next1, SMT
      <4> QED
        BY <4>1, SMT DEF Passed
    <3>3. Passed(m) \in Int /\ m * B \in Int /\ q * B \in Int
      BY <1>1, <1>2, SMT DEF Passed
    <3> QED
      BY <1>1, <1>2, <3>1, <3>2, <3>3, SMT
  <2> HIDE DEF q
  <2>7. BlockCount(k) = q
    BY DEF q
  <2> QED
    BY <1>1, <1>4, <2>1, <2>2, <2>5, <2>6, <2>7, SMT
<1> QED
  BY <1>3, <1>4

(* Blocks of the message are blocks.                                        *)
LEMMA BlockTypes ==
    /\ Zero \in Blocks /\ ZeroKey \in KeyBlocks
    /\ \A a \in Int : InputBlock(a) \in Blocks
    /\ NoLast \in [block : Blocks, key : {"none", "K1", "K2"}]
    /\ ZeroBlocks \subseteq KeyBlocks
<1>1. B \in Nat /\ B >= 1
  BY CmacAssumption, SMT
<1>2. Zero \in Blocks
  BY SMT DEF Zero, Blocks
<1>3. ZeroKey \in KeyBlocks
  BY Zenon DEF ZeroKey, KeyBlocks
<1>4. \A a \in Int : InputBlock(a) \in Blocks
  BY <1>1, SMT DEF InputBlock, Blocks, Bytes
<1>5. NoLast \in [block : Blocks, key : {"none", "K1", "K2"}]
  BY <1>2, Zenon DEF NoLast
<1>6. ZeroBlocks \subseteq KeyBlocks
  BY CmacAssumption, Zenon DEF KeyBlocks, Bytes
<1> QED
  BY <1>2, <1>3, <1>4, <1>5, <1>6

LEMMA InitInv == Init => IInv
<1> SUFFICES ASSUME Init PROVE IInv
  OBVIOUS
<1>1. len \in Nat /\ B \in Nat /\ B >= 1
  BY CmacAssumption, SMT DEF Init
<1>2. TypeOK
  <2>1. /\ len \in Lengths /\ ek0 \in ZeroBlocks /\ keys \in BOOLEAN
        /\ pc \in {"setkey", "update", "blocks", "subkeys", "K1", "K2", "last", "encrypt",
                   "wipe", "exit", "done"}
    BY Zenon DEF Init
  <2>2. input \in Nat /\ ilen \in Nat /\ n \in Nat /\ j \in Nat /\ blen \in 0 .. B
    BY <1>1, SMT DEF Init
  <2>3. <<>> \in Seq(Blocks)
    BY EmptySeq
  <2>4. state \in Seq(Blocks) /\ block \in Blocks
    BY <2>3, BlockTypes, Zenon DEF Init
  <2>5. L \in KeyBlocks /\ K1 \in KeyBlocks /\ K2 \in KeyBlocks
    BY BlockTypes, Zenon DEF Init
  <2>6. i \in -1 .. B - 1 /\ overflow \in SUBSET {0}
    BY <1>1, SMT DEF Init
  <2>7. last \in [block : Blocks, key : {"none", "K1", "K2"}]
    BY BlockTypes, Zenon DEF Init
  <2>8. output \in [state : Seq(Blocks), last : [block : Blocks, key : {"none", "K1", "K2"}]]
    BY <2>3, BlockTypes, Zenon DEF Init, NoTag
  <2> QED
    BY <2>1, <2>2, <2>4, <2>5, <2>6, <2>7, <2>8, Zenon DEF TypeOK
<1>3. TagInv
  BY SMT DEF Init, TagInv, TagIsCmac, Late
<1>4. WipeInv
  BY SMT DEF Init, WipeInv
<1>5. SubkeyInv
  BY SMT DEF Init, SubkeyInv
<1> QED
  BY <1>2, <1>3, <1>4, <1>5 DEF IInv

-----------------------------------------------------------------------------
(* Types.                                                                   *)
Labels == {"setkey", "update", "blocks", "subkeys", "K1", "K2", "last", "encrypt", "wipe",
           "exit", "done"}
LastBlocks == [block : Blocks, key : {"none", "K1", "K2"}]
Tags == [state : Seq(Blocks), last : LastBlocks]

(* A byte of a product is a byte, and so is the reduced one.                *)
LEMMA ShiftType ==
    ASSUME NEW f \in KeyBlocks, NEW p \in KeyBlocks, NEW o \in SUBSET {0}, NEW k \in Bytes
    PROVE  /\ [p EXCEPT ![k] = Shifted(f[k]) \cup o] \in KeyBlocks
           /\ Carry(f[k]) \in SUBSET {0}
<1>1. W \in Nat /\ W >= 1
  BY CmacAssumption, SMT
<1>2. Shifted(f[k]) \cup o \in SUBSET (0 .. W - 1)
  <2>1. 1 .. W - 1 \subseteq 0 .. W - 1 /\ 0 \in 0 .. W - 1
    BY <1>1, SMT
  <2>2. Shifted(f[k]) \subseteq 1 .. W - 1
    BY Zenon DEF Shifted
  <2> QED
    BY <2>1, <2>2, Zenon
<1>3. [p EXCEPT ![k] = Shifted(f[k]) \cup o] \in KeyBlocks
  BY <1>2, SMT DEF KeyBlocks
<1> QED
  BY <1>3, Zenon DEF Carry

LEMMA ReduceType ==
    ASSUME NEW f \in KeyBlocks, NEW p \in KeyBlocks
    PROVE  Reduced(p, f) \in KeyBlocks
<1>1. B - 1 \in Bytes /\ R \in SUBSET (0 .. W - 1)
  BY CmacAssumption, SMT DEF Bytes
<1>2. p[B - 1] \in SUBSET (0 .. W - 1)
  BY <1>1, Zenon DEF KeyBlocks
<1>3. \A r \in SUBSET (0 .. W - 1) : Xor(p[B - 1], r) \in SUBSET (0 .. W - 1)
  BY <1>2, Zenon DEF Xor
<1>4. {} \in SUBSET (0 .. W - 1)
  BY Zenon
<1> DEFINE mask == IF W - 1 \in f[0] THEN R ELSE {}
<1>5. Xor(p[B - 1], mask) \in SUBSET (0 .. W - 1)
  BY <1>1, <1>3, <1>4, Zenon
<1>6. Reduced(p, f) = [p EXCEPT ![B - 1] = Xor(p[B - 1], mask)]
  BY <1>1, Zenon DEF Reduced, KeyBlocks
<1> HIDE DEF mask
<1> QED
  BY <1>1, <1>5, <1>6, SMT DEF KeyBlocks

LEMMA LastType ==
    ASSUME block \in Blocks, blen \in 0 .. B PROVE LastBlock \in LastBlocks
<1>1. Padded(block, blen) \in Blocks
  BY SMT DEF Padded, Blocks
<1> QED
  BY <1>1, Zenon DEF LastBlock, LastBlocks

LEMMA AbsorbType ==
    ASSUME TypeOK, TagInv, AbsorbBlock
    PROVE  /\ j < Rounds(len) /\ n = Rounds(len)
           /\ ilen' \in Nat /\ input' \in Nat /\ j' \in Nat /\ state' \in Seq(Blocks)
<1>1. Absorbed /\ j < n /\ len \in Nat
  BY CmacAssumption, SMT DEF AbsorbBlock, TagInv, TypeOK
<1>2. len # 0 /\ n = Rounds(len)
  <2>1. j \in Nat /\ n = BlockCount(len) /\ j >= 1
    BY <1>1, RoundsFacts, SMT DEF Absorbed, TypeOK
  <2> QED
    BY <1>1, <2>1, RoundsFacts, SMT
<1>3. len - Passed(j) - B \in Nat
  <2>1. j \in 1 .. Rounds(len) - 1
    BY <1>1, <1>2, RoundsFacts, SMT DEF Absorbed
  <2> QED
    BY <1>1, <2>1, RoundsFacts, Zenon
<1>4. ilen' \in Nat
  BY <1>1, <1>3, SMT DEF AbsorbBlock, Absorbed
<1>5. input' \in Nat /\ j' \in Nat
  BY CmacAssumption, SMT DEF AbsorbBlock, TypeOK
<1>6. state' \in Seq(Blocks)
  <2>1. InputBlock(input) \in Blocks
    BY BlockTypes, SMT DEF TypeOK
  <2> QED
    BY <2>1, AppendProperties, Zenon DEF AbsorbBlock, TypeOK
<1> QED
  BY <1>1, <1>2, <1>4, <1>5, <1>6, SMT

(* The rest of the message fits: it is what RoundsFacts says.               *)
LEMMA KeepsRest ==
    ASSUME TypeOK, TagInv, KeepRest
    PROVE  /\ j = Rounds(len) /\ ilen \in 0 .. B /\ blen' = ilen
           /\ block' \in Blocks
<1>1. Absorbed /\ j >= n /\ blen = 0 /\ len \in Nat
  BY CmacAssumption, SMT DEF KeepRest, TagInv, TypeOK
<1>2. j = Rounds(len)
  <2>1. CASE len = 0
    <3>1. Rounds(len) = 1
      BY <2>1 DEF Rounds
    <3> QED
      BY <1>1, <3>1, SMT DEF Absorbed
  <2>2. CASE len # 0
    <3>1. n = Rounds(len) /\ Rounds(len) \in Nat
      BY <1>1, <2>2, RoundsFacts, Zenon DEF Absorbed
    <3> QED
      BY <1>1, <3>1, SMT DEF Absorbed
  <2> QED
    BY <2>1, <2>2
<1>3. ilen \in 0 .. B
  BY <1>1, <1>2, RoundsFacts, SMT DEF Absorbed
<1>4. blen' = ilen
  BY <1>1, <1>3, CmacAssumption, SMT DEF KeepRest
<1>5. block' \in Blocks
  BY CmacAssumption, SMT DEF KeepRest, TypeOK, Blocks, Bytes
<1> QED
  BY <1>2, <1>3, <1>4, <1>5

LEMMA TypeStep == TypeOK /\ TagInv /\ [Next]_vars => TypeOK'
<1> SUFFICES ASSUME TypeOK, TagInv, [Next]_vars PROVE TypeOK'
  OBVIOUS
<1>b. B \in Nat /\ B >= 1 /\ B - 1 \in -1 .. B - 1 /\ 0 \in 0 .. B
  BY CmacAssumption, SMT
<1>1. CASE SetKey
  BY <1>1, Zenon DEF TypeOK, LastBlocks, Tags, SetKey, message, reading, context, subkeys, Labels
<1>2. CASE StartUpdate
  <2>1. n' \in Nat /\ j' \in Nat
    <3>1. BlockCount(ilen) \in Nat
      BY Division, Zenon DEF TypeOK
    <3> QED
      BY <1>2, <3>1, SMT DEF StartUpdate
  <2> QED
    BY <1>2, <2>1, Zenon DEF TypeOK, LastBlocks, Tags, StartUpdate, message, context, subkeys, Labels
<1>3. CASE AbsorbBlock
  <2>1. ilen' \in Nat /\ input' \in Nat /\ j' \in Nat /\ state' \in Seq(Blocks)
    BY <1>3, AbsorbType, Zenon
  <2> QED
    BY <1>3, <2>1, Zenon DEF TypeOK, Labels, LastBlocks, Tags, AbsorbBlock, message, subkeys
<1>4. CASE KeepRest
  <2>1. blen' \in 0 .. B /\ block' \in Blocks
    BY <1>4, KeepsRest, Zenon
  <2> QED
    BY <1>4, <2>1, Zenon DEF TypeOK, LastBlocks, Tags, KeepRest, message, reading, subkeys, Labels
<1>5. CASE StartSubkeys
  <2>1. L' \in KeyBlocks /\ K1' \in KeyBlocks /\ K2' \in KeyBlocks
    BY <1>5, BlockTypes, Zenon DEF StartSubkeys, TypeOK
  <2>2. i' \in -1 .. B - 1 /\ overflow' \in SUBSET {0}
    BY <1>5, <1>b, Zenon DEF StartSubkeys
  <2> QED
    BY <1>5, <2>1, <2>2, Zenon DEF TypeOK, LastBlocks, Tags, StartSubkeys, message, reading, context, Labels
<1>6. CASE MultiplyK1
  <2>1. CASE i >= 0 /\ ShiftByte(L, K1)
    <3>1. i \in Bytes /\ i - 1 \in -1 .. B - 1
      BY <2>1, <1>b, SMT DEF TypeOK, Bytes
    <3>2. K1' \in KeyBlocks /\ overflow' \in SUBSET {0}
      BY <2>1, <3>1, ShiftType, Zenon DEF ShiftByte, TypeOK
    <3>3. i' \in -1 .. B - 1 /\ pc' = pc
      BY <2>1, <3>1, Zenon DEF ShiftByte
    <3> QED
      BY <1>6, <3>2, <3>3, Zenon DEF TypeOK, Labels, LastBlocks, Tags, MultiplyK1, message, reading, context
  <2>2. CASE i < 0 /\ Reduce(L, K1, "K2")
    <3>1. K1' \in KeyBlocks /\ overflow' \in SUBSET {0} /\ i' \in -1 .. B - 1 /\ pc' \in Labels
      BY <2>2, <1>b, ReduceType, Zenon DEF Reduce, TypeOK, Labels
    <3> QED
      BY <1>6, <3>1, Zenon DEF TypeOK, Labels, LastBlocks, Tags, MultiplyK1, message, reading, context
  <2> QED
    BY <1>6, <2>1, <2>2, Zenon DEF MultiplyK1
<1>7. CASE MultiplyK2
  <2>1. CASE i >= 0 /\ ShiftByte(K1, K2) /\ UNCHANGED L
    <3>1. i \in Bytes /\ i - 1 \in -1 .. B - 1
      BY <2>1, <1>b, SMT DEF TypeOK, Bytes
    <3>2. K2' \in KeyBlocks /\ overflow' \in SUBSET {0}
      BY <2>1, <3>1, ShiftType, Zenon DEF ShiftByte, TypeOK
    <3>3. i' \in -1 .. B - 1 /\ pc' = pc /\ L' = L
      BY <2>1, <3>1, Zenon DEF ShiftByte
    <3> QED
      BY <1>7, <3>2, <3>3, Zenon DEF TypeOK, Labels, LastBlocks, Tags, MultiplyK2, message, reading, context
  <2>2. CASE i < 0 /\ Reduce(K1, K2, "last") /\ L' = ZeroKey
    <3>1. K2' \in KeyBlocks /\ overflow' \in SUBSET {0} /\ i' \in -1 .. B - 1 /\ pc' \in Labels
      BY <2>2, <1>b, ReduceType, Zenon DEF Reduce, TypeOK, Labels
    <3>2. L' \in KeyBlocks
      BY <2>2, BlockTypes, Zenon
    <3> QED
      BY <1>7, <3>1, <3>2, Zenon DEF TypeOK, Labels, LastBlocks, Tags, MultiplyK2, message, reading, context
  <2> QED
    BY <1>7, <2>1, <2>2, Zenon DEF MultiplyK2
<1>8. CASE TakeLast
  <2>1. last' \in LastBlocks
    BY <1>8, LastType, Zenon DEF TakeLast, TypeOK
  <2> QED
    BY <1>8, <2>1, Zenon DEF TypeOK, LastBlocks, Tags, TakeLast, message, reading, context, subkeys, Labels
<1>9. CASE Encrypt
  <2>1. output' \in Tags
    BY <1>9, Zenon DEF TypeOK, Labels, LastBlocks, Encrypt, Tags
  <2> QED
    BY <1>9, <2>1, Zenon DEF TypeOK, LastBlocks, Tags, Encrypt, message, reading, context, subkeys, Labels
<1>10. CASE Wipe
  <2>1. K1' \in KeyBlocks /\ K2' \in KeyBlocks /\ block' \in Blocks /\ blen' \in 0 .. B
    BY <1>10, <1>b, BlockTypes, Zenon DEF Wipe
  <2>2. state' \in Seq(Blocks)
    <3>1. <<>> \in Seq(Blocks)
      BY EmptySeq
    <3> QED
      BY <1>10, <3>1, Zenon DEF Wipe
  <2> QED
    BY <1>10, <2>1, <2>2, Zenon DEF TypeOK, LastBlocks, Tags, Wipe, message, reading, Labels
<1>11. CASE WipeContexts
  BY <1>11, Zenon DEF TypeOK, LastBlocks, Tags, WipeContexts, message, reading, context, subkeys, Labels
<1>12. CASE UNCHANGED vars
  BY <1>12, Zenon DEF TypeOK, Labels, LastBlocks, Tags, vars
<1> QED
  BY <1>1, <1>2, <1>3, <1>4, <1>5, <1>6, <1>7, <1>8, <1>9, <1>10, <1>11, <1>12, Zenon DEF Next

-----------------------------------------------------------------------------
(* The three steps that matter to the MAC: one round of the loop,           *)
LEMMA AbsorbKeeps ==
    ASSUME TypeOK, TagInv, AbsorbBlock PROVE Absorbed' /\ blen' = 0 /\ pc' = "blocks"
<1>1. /\ Absorbed /\ pc = "blocks" /\ blen = 0
      /\ UNCHANGED <<pc, len, n, blen>>
      /\ state' = Append(state, InputBlock(input)) /\ ilen' = ilen - B
      /\ input' = input + B /\ j' = j + 1
  BY Zenon DEF AbsorbBlock, TagInv, message, context
<1>2. j < Rounds(len) /\ Rounds(len) \in Nat /\ j \in Nat /\ j >= 1 /\ B \in Nat /\ len \in Nat
  <2>1. len \in Nat
    BY CmacAssumption, Zenon DEF TypeOK
  <2> QED
    BY <1>1, <2>1, AbsorbType, RoundsFacts, CmacAssumption, SMT DEF Absorbed
<1>3. Passed(j + 1) = Passed(j) + B /\ Passed(j) \in Int
  <2>1. (j - 1 + 1) * B = (j - 1) * B + B /\ j - 1 + 1 = j /\ (j + 1) - 1 = j
    BY <1>2, Next1, SMT
  <2> QED
    BY <1>2, <2>1, SMT DEF Passed
<1>4. input' = Passed(j') /\ ilen' = len - input' /\ j' \in 1 .. Rounds(len)
  BY <1>1, <1>2, <1>3, SMT DEF Absorbed
<1>5. /\ Len(state') = Len(state) + 1
      /\ \A m \in 1 .. Len(state) : state'[m] = state[m]
      /\ state'[Len(state) + 1] = InputBlock(input)
  <2>1. InputBlock(input) \in Blocks /\ state \in Seq(Blocks)
    BY BlockTypes, SMT DEF TypeOK
  <2> QED
    BY <1>1, <2>1, AppendProperties, SMT
<1>6. Len(state') = j' - 1
  BY <1>1, <1>2, <1>5, SMT DEF Absorbed
<1>7. ASSUME NEW m \in 1 .. j' - 1 PROVE state'[m] = InputBlock(Passed(m))
  <2>1. CASE m = j
    BY <1>1, <1>2, <1>5, <2>1, SMT DEF Absorbed
  <2>2. CASE m # j
    BY <1>1, <1>2, <1>5, <2>2, SMT DEF Absorbed
  <2> QED
    BY <2>1, <2>2
<1>8. (Absorbed' <=>
         /\ j' \in 1 .. Rounds(len) /\ n = BlockCount(len)
         /\ input' = Passed(j') /\ ilen' = len - input'
         /\ Len(state') = j' - 1
         /\ \A m \in 1 .. j' - 1 : state'[m] = InputBlock(Passed(m)))
  BY <1>1, Zenon DEF Absorbed, Rounds, BlockCount, InputBlock, Passed
<1> QED
  BY <1>1, <1>4, <1>6, <1>7, <1>8, Zenon DEF Absorbed

(* what is kept after it,                                                   *)
LEMMA KeepRestKeeps ==
    ASSUME TypeOK, TagInv, KeepRest PROVE Kept'
<1>1. /\ Absorbed /\ blen = 0 /\ UNCHANGED <<len, state>> /\ len \in Nat
      /\ block' = [b \in Bytes |-> IF b < ilen THEN input + b + 1 ELSE block[b]]
  BY CmacAssumption, Zenon DEF KeepRest, TagInv, message, TypeOK
<1>2. j = Rounds(len) /\ ilen \in 0 .. B /\ blen' = ilen
  BY KeepsRest
<1>3. state = [m \in 1 .. Rounds(len) - 1 |-> InputBlock((m - 1) * B)]
  <2>1. state \in [1 .. Len(state) -> Blocks]
    BY LenProperties, Zenon DEF TypeOK
  <2>2. Len(state) = Rounds(len) - 1
    BY <1>1, <1>2, Zenon DEF Absorbed
  <2>3. \A m \in 1 .. Rounds(len) - 1 : state[m] = InputBlock((m - 1) * B)
    BY <1>1, <1>2, Zenon DEF Absorbed, Passed
  <2> QED
    BY <2>1, <2>2, <2>3, Zenon
<1>4. state' = Reference(len).state
  BY <1>1, <1>3, Zenon DEF Reference
<1>5. blen' = len - Passed(Rounds(len))
  BY <1>1, <1>2, Zenon DEF Absorbed
<1>6. \A b \in Bytes : b < blen' => block'[b] = Passed(Rounds(len)) + b + 1
  BY <1>1, <1>2, SMT DEF Absorbed
<1>7. Reference(len)' = Reference(len) /\ Rounds(len)' = Rounds(len)
  BY <1>1, Zenon DEF Reference, Rounds, InputBlock
<1>8. Passed(Rounds(len))' = Passed(Rounds(len))
  BY <1>1, Zenon DEF Passed, Rounds
<1> QED
  BY <1>1, <1>4, <1>5, <1>6, <1>7, <1>8, Zenon DEF Kept

(* and what is made of it.                                                  *)
LEMMA LastIsReference ==
    ASSUME TypeOK, Kept PROVE LastBlock = Reference(len).last
<1> DEFINE rest == len - (Rounds(len) - 1) * B
           whole == [block |-> InputBlock(len - B), key |-> "K1"]
           padded == [block |-> [b \in Bytes |->
                        IF b < rest THEN len - rest + b + 1 ELSE IF b = rest THEN -1 ELSE 0],
                      key |-> "K2"]
<1>1. len \in Nat /\ B \in Nat /\ block \in [Bytes -> Int]
  BY CmacAssumption, Zenon DEF TypeOK, Blocks
<1>2. /\ blen = rest /\ rest \in 0 .. B
      /\ \A b \in Bytes : b < blen => block[b] = Passed(Rounds(len)) + b + 1
  BY <1>1, RoundsFacts, Zenon DEF Kept, Passed
<1>3. Passed(Rounds(len)) \in Int
  BY <1>1, RoundsFacts, SMT DEF Passed
<1>4. len - rest = Passed(Rounds(len))
  BY <1>1, <1>3, SMT DEF Passed
<1>5. Reference(len).last = IF rest = B THEN whole ELSE padded
  BY Zenon DEF Reference
<1> HIDE DEF rest
<1>6. CASE rest = B
  <2>1. block = InputBlock(len - B)
    BY <1>1, <1>2, <1>4, <1>6, SMT DEF InputBlock, Bytes
  <2>2. ~(blen < B)
    BY <1>1, <1>2, <1>6, SMT
  <2> QED
    BY <1>5, <1>6, <2>1, <2>2, Zenon DEF LastBlock
<1>7. CASE rest # B
  <2>1. blen < B
    BY <1>1, <1>2, <1>7, SMT
  <2>2. Padded(block, blen) = padded.block
    BY <1>1, <1>2, <1>4, SMT DEF Padded, Bytes
  <2> QED
    BY <1>5, <1>7, <2>1, <2>2, Zenon DEF LastBlock
<1> QED
  BY <1>6, <1>7

-----------------------------------------------------------------------------
LEMMA SameLength ==
    len' = len => /\ Reference(len)' = Reference(len) /\ Rounds(len)' = Rounds(len)
                  /\ Passed(Rounds(len))' = Passed(Rounds(len))
  BY Zenon DEF Reference, Rounds, InputBlock, Passed

(* The steps between the loop and the last block leave the context alone.   *)
LEMMA KeptStays ==
    ASSUME Kept, UNCHANGED <<len, state, block, blen>> PROVE Kept'
  BY SameLength, Zenon DEF Kept

LEMMA TagStep == TypeOK /\ TagInv /\ [Next]_vars => TagInv'
<1> SUFFICES ASSUME TypeOK, TagInv, [Next]_vars PROVE TagInv'
  OBVIOUS
<1>t. ASSUME pc' \notin {"wipe", "exit", "done"} PROVE TagIsCmac'
  BY <1>t, Zenon DEF TagIsCmac
<1>e. ASSUME pc' = "update", input' = 0, ilen' = len', state' = <<>>, blen' = 0 PROVE TagInv'
  <2>1. pc' \notin {"wipe", "exit", "done"} /\ pc' # "blocks" /\ pc' \notin Late /\ pc' # "encrypt"
    BY <1>e, SMT DEF Late
  <2> QED
    BY <1>e, <1>t, <2>1, Zenon DEF TagInv
<1>l. ASSUME pc' \in Late, Kept' PROVE TagInv'
  <2>1. pc' \notin {"wipe", "exit", "done"} /\ pc' # "blocks" /\ pc' \notin Early /\ pc' # "encrypt"
    BY <1>l, SMT DEF Late, Early
  <2> QED
    BY <1>l, <1>t, <2>1, Zenon DEF TagInv
<1>b. ASSUME pc' = "blocks", Absorbed', blen' = 0 PROVE TagInv'
  <2>1. pc' \notin {"wipe", "exit", "done"} /\ pc' \notin Late /\ pc' \notin Early /\ pc' # "encrypt"
    BY <1>b, SMT DEF Late, Early
  <2> QED
    BY <1>b, <1>t, <2>1, Zenon DEF TagInv
<1>w. ASSUME pc' \in {"wipe", "exit", "done"}, TagIsCmac' PROVE TagInv'
  <2>1. pc' # "blocks" /\ pc' \notin Late /\ pc' \notin Early /\ pc' # "encrypt"
    BY <1>w, SMT DEF Late, Early
  <2> QED
    BY <1>w, <2>1, Zenon DEF TagInv
<1>1. CASE SetKey
  <2>1. pc \in Early
    BY <1>1, Zenon DEF SetKey, Early
  <2> QED
    BY <1>1, <2>1, <1>e, Zenon DEF SetKey, TagInv, message, reading, context
<1>2. CASE StartUpdate
  <2>1. input = 0 /\ ilen = len /\ state = <<>> /\ blen = 0
    BY <1>2, Zenon DEF StartUpdate, TagInv, Early
  <2>2. /\ pc' = "blocks" /\ n' = BlockCount(len) /\ j' = 1
        /\ UNCHANGED <<len, input, ilen, state, blen>>
    BY <1>2, <2>1, Zenon DEF StartUpdate, message, context
  <2>3. len \in Nat /\ Rounds(len) \in Nat /\ Rounds(len) >= 1
    BY RoundsFacts, CmacAssumption, Zenon DEF TypeOK
  <2>4. Passed(1) = 0
    BY CmacAssumption, SMT DEF Passed
  <2>5. j' \in 1 .. Rounds(len) /\ len - 0 = len /\ j' - 1 = 0 /\ 1 .. j' - 1 = {}
    BY <2>2, <2>3, SMT
  <2>6. Len(state') = 0
    BY <2>1, <2>2, EmptySeq, Zenon
  <2>7. BlockCount(len)' = BlockCount(len) /\ Rounds(len)' = Rounds(len)
    BY <2>2, Zenon DEF BlockCount, Rounds
  <2>8. Passed(j)' = 0
    BY <2>2, <2>4, Zenon DEF Passed
  <2>9. Absorbed'
    BY <2>1, <2>2, <2>5, <2>6, <2>7, <2>8, Zenon DEF Absorbed
  <2> QED
    BY <2>1, <2>2, <2>9, <1>b, Zenon
<1>3. CASE AbsorbBlock
  BY <1>3, <1>b, AbsorbKeeps, Zenon
<1>4. CASE KeepRest
  <2>1. pc' \in Late
    BY <1>4, Zenon DEF KeepRest, Late
  <2> QED
    BY <1>4, <2>1, <1>l, KeepRestKeeps, Zenon
<1>5. CASE StartSubkeys \/ MultiplyK1 \/ MultiplyK2
  <2>1. pc \in Late /\ pc' \in Late
    BY <1>5, SMT DEF StartSubkeys, MultiplyK1, MultiplyK2, ShiftByte, Reduce, Late
  <2>2. UNCHANGED <<len, state, block, blen>>
    BY <1>5, Zenon DEF StartSubkeys, MultiplyK1, MultiplyK2, message, context
  <2>3. Kept
    BY <2>1, Zenon DEF TagInv
  <2> QED
    BY <2>1, <2>2, <2>3, <1>l, KeptStays, Zenon
<1>6. CASE TakeLast
  <2>1. Kept
    BY <1>6, Zenon DEF TakeLast, TagInv, Late
  <2>2. pc' = "encrypt" /\ last' = Reference(len).last /\ UNCHANGED <<len, state>>
    BY <1>6, <2>1, LastIsReference, Zenon DEF TakeLast, message, context
  <2>3. state' = Reference(len)'.state /\ last' = Reference(len)'.last
    BY <2>1, <2>2, SameLength, Zenon DEF Kept
  <2>4. pc' \notin {"wipe", "exit", "done"} /\ pc' # "blocks" /\ pc' \notin Late /\ pc' \notin Early
    BY <2>2, SMT DEF Late, Early
  <2> QED
    BY <1>t, <2>2, <2>3, <2>4, Zenon DEF TagInv
<1>7. CASE Encrypt
  <2>1. state = Reference(len).state /\ last = Reference(len).last
    BY <1>7, Zenon DEF Encrypt, TagInv
  <2>2. pc' = "wipe" /\ output' = [state |-> state, last |-> last] /\ len' = len
    BY <1>7, Zenon DEF Encrypt, message
  <2>3. output' = Reference(len)
    BY <2>1, <2>2, Zenon DEF Reference
  <2>4. TagIsCmac'
    BY <2>2, <2>3, SameLength, Zenon DEF TagIsCmac
  <2> QED
    BY <2>2, <2>4, <1>w, Zenon
<1>8. CASE Wipe \/ WipeContexts
  <2>1. /\ pc \in {"wipe", "exit", "done"} /\ pc' \in {"wipe", "exit", "done"}
        /\ UNCHANGED <<len, output>>
    BY <1>8, Zenon DEF Wipe, WipeContexts, message
  <2>2. TagIsCmac'
    BY <2>1, SameLength, Zenon DEF TagInv, TagIsCmac
  <2> QED
    BY <2>1, <2>2, <1>w, Zenon
<1>9. CASE UNCHANGED vars
  <2>1. UNCHANGED <<pc, len, input, ilen, n, j, state, block, blen, last, output>>
    BY <1>9, Zenon DEF vars
  <2>2. Reference(len)' = Reference(len) /\ (Kept => Kept')
    BY <2>1, SameLength, KeptStays, Zenon
  <2>3. Absorbed' <=> Absorbed
    BY <2>1, Zenon DEF Absorbed, Rounds, BlockCount, Passed, InputBlock
  <2> QED
    BY <2>1, <2>2, <2>3, Zenon DEF TagInv, TagIsCmac
<1> QED
  BY <1>1, <1>2, <1>3, <1>4, <1>5, <1>6, <1>7, <1>8, <1>9, Zenon DEF Next

LEMMA WipeStep == WipeInv /\ [Next]_vars => WipeInv'
<1> SUFFICES ASSUME WipeInv, [Next]_vars PROVE WipeInv'
  OBVIOUS
<1>1. CASE SetKey \/ StartUpdate \/ AbsorbBlock \/ KeepRest \/ StartSubkeys \/ MultiplyK1
  <2>1. pc' \in {"update", "blocks", "subkeys", "K1", "K2"}
    BY <1>1, SMT DEF SetKey, StartUpdate, AbsorbBlock, KeepRest, StartSubkeys, MultiplyK1,
                     ShiftByte, Reduce
  <2> QED
    BY <2>1, SMT DEF WipeInv
<1>2. CASE MultiplyK2
  <2>1. pc' = "K2" \/ (pc' = "last" /\ L' = ZeroKey)
    BY <1>2, SMT DEF MultiplyK2, ShiftByte, Reduce
  <2> QED
    BY <2>1, SMT DEF WipeInv
<1>3. CASE TakeLast \/ Encrypt
  <2>1. pc \in {"last", "encrypt"} /\ pc' \in {"encrypt", "wipe"} /\ L' = L
    BY <1>3, Zenon DEF TakeLast, Encrypt, subkeys
  <2> QED
    BY <2>1, SMT DEF WipeInv
<1>4. CASE Wipe
  <2>1. /\ pc = "wipe" /\ pc' = "exit" /\ L' = L
        /\ K1' = ZeroKey /\ K2' = ZeroKey /\ blen' = 0 /\ block' = Zero /\ state' = <<>>
    BY <1>4, Zenon DEF Wipe
  <2> QED
    BY <2>1, SMT DEF WipeInv
<1>5. CASE WipeContexts
  <2>1. /\ pc = "exit" /\ pc' = "done" /\ ~keys'
        /\ UNCHANGED <<L, K1, K2, blen, block, state>>
    BY <1>5, Zenon DEF WipeContexts, context, subkeys
  <2>2. L = ZeroKey /\ K1 = ZeroKey /\ K2 = ZeroKey /\ blen = 0 /\ block = Zero /\ state = <<>>
    BY <2>1, Zenon DEF WipeInv
  <2> QED
    BY <2>1, <2>2, Zenon DEF WipeInv
<1>6. CASE UNCHANGED vars
  BY <1>6, Zenon DEF vars, WipeInv
<1> QED
  BY <1>1, <1>2, <1>3, <1>4, <1>5, <1>6, Zenon DEF Next

-----------------------------------------------------------------------------
(* Bytes and bits as positions in a block: every position is that of one    *)
(* bit of one byte, and the next position that of the next bit or of the    *)
(* lowest one of the byte before.                                           *)
Pos(b, x) == (B - 1 - b) * W + x

LEMMA Positions ==
    ASSUME NEW b \in Bytes, NEW x \in 0 .. W - 1
    PROVE  /\ Pos(b, x) \in Nat
           /\ x < W - 1 => Pos(b, x) + 1 = Pos(b, x + 1)
           /\ b > 0 => Pos(b, W - 1) + 1 = Pos(b - 1, 0)
           /\ Pos(0, W - 1) = B * W - 1
           /\ Pos(B - 1, x) = x
<1>1. B \in Nat /\ W \in Nat /\ B >= 1 /\ W >= 1 /\ b \in Nat /\ B - 1 - b \in Nat
  BY CmacAssumption, SMT DEF Bytes
<1>2. \A k \in Int : (k + 1) * W = k * W + W /\ k * W \in Int
  BY <1>1, SMT
<1>3. (B - 1 - b) * W \in Nat
  BY <1>1, SMT
<1>4. Pos(b, x) \in Nat /\ (x < W - 1 => Pos(b, x) + 1 = Pos(b, x + 1))
  BY <1>1, <1>3, SMT DEF Pos
<1>5. b > 0 => Pos(b, W - 1) + 1 = Pos(b - 1, 0)
  <2>1. (B - 1 - b + 1) * W = (B - 1 - b) * W + W /\ B - 1 - b + 1 = B - 1 - (b - 1)
    BY <1>1, <1>2, SMT
  <2> QED
    BY <1>1, <1>3, <2>1, SMT DEF Pos
<1>6. Pos(0, W - 1) = B * W - 1
  <2>1. (B - 1 + 1) * W = (B - 1) * W + W /\ B - 1 + 1 = B /\ B - 1 - 0 = B - 1
        /\ (B - 1) * W \in Int
    BY <1>1, <1>2, SMT
  <2> QED
    BY <1>1, <2>1, SMT DEF Pos
<1>7. Pos(B - 1, x) = x
  <2>1. B - 1 - (B - 1) = 0 /\ 0 * W = 0
    BY <1>1, SMT
  <2> QED
    BY <1>1, <2>1, SMT DEF Pos
<1> QED
  BY <1>4, <1>5, <1>6, <1>7

LEMMA PosCarry ==
    ASSUME NEW b \in Bytes, b + 1 \in Bytes
    PROVE  Pos(b + 1, W - 1) + 1 = Pos(b, 0)
<1>1. B \in Nat /\ W \in Nat /\ W >= 1 /\ b \in Nat
  BY CmacAssumption, SMT DEF Bytes
<1> DEFINE k == B - 1 - (b + 1)
<1>2. k \in Int /\ B - 1 - b = k + 1
  BY <1>1, SMT
<1> HIDE DEF k
<1>3. (k + 1) * W = k * W + W /\ k * W \in Int
  BY <1>1, <1>2, SMT
<1>4. k * W + (W - 1) + 1 = (k + 1) * W + 0
  BY <1>1, <1>3, SMT
<1> QED
  BY <1>2, <1>4 DEF Pos, k

LEMMA PosBefore ==
    ASSUME NEW b \in Bytes, NEW c \in Bytes, b < c, NEW x \in 0 .. W - 1, NEW y \in 0 .. W - 1
    PROVE  Pos(b, x) # Pos(c, y)
<1>1. B \in Nat /\ W \in Nat /\ W >= 1 /\ b \in Nat /\ c \in Nat /\ B - 1 - c \in Nat
  BY CmacAssumption, SMT DEF Bytes
<1> DEFINE k == B - 1 - b
           l == B - 1 - c
<1>2. k \in Nat /\ l \in Nat /\ l + 1 <= k
  BY <1>1, SMT
<1> HIDE DEF k, l
<1>3. (l + 1) * W <= k * W /\ (l + 1) * W = l * W + W /\ l * W \in Nat /\ k * W \in Nat
  BY <1>1, <1>2, SMT
<1>4. k * W + x # l * W + y
  BY <1>1, <1>3, SMT
<1> QED
  BY <1>4 DEF Pos, k, l

LEMMA PosUnique ==
    ASSUME NEW b \in Bytes, NEW c \in Bytes, NEW x \in 0 .. W - 1, NEW y \in 0 .. W - 1,
           Pos(b, x) = Pos(c, y)
    PROVE  b = c /\ x = y
<1>1. b = c
  <2>1. ~(b < c) /\ ~(c < b)
    BY PosBefore, Zenon
  <2> QED
    BY <2>1, CmacAssumption, SMT DEF Bytes
<1>2. (B - 1 - b) * W \in Int
  BY CmacAssumption, SMT DEF Bytes
<1>3. x = y
  BY <1>1, <1>2, CmacAssumption, SMT DEF Pos
<1> QED
  BY <1>1, <1>3

LEMMA InOnes ==
    ASSUME NEW blk \in KeyBlocks
    PROVE  /\ \A b \in Bytes, x \in 0 .. W - 1 : Pos(b, x) \in Ones(blk) <=> x \in blk[b]
           /\ \A q \in Ones(blk) : \E b \in Bytes, x \in 0 .. W - 1 : q = Pos(b, x)
<1>1. \A b \in Bytes : blk[b] \subseteq 0 .. W - 1
  BY Zenon DEF KeyBlocks
<1>2. \A q : q \in Ones(blk) <=> \E b \in Bytes : \E x \in blk[b] : q = Pos(b, x)
  <2> DEFINE row(b) == {Pos(b, x) : x \in blk[b]}
  <2>1. Ones(blk) = UNION {row(b) : b \in Bytes}
    BY DEF Ones, Pos
  <2>2. \A b \in Bytes : \A q : q \in row(b) <=> \E x \in blk[b] : q = Pos(b, x)
    OBVIOUS
  <2> HIDE DEF row
  <2>3. \A q : q \in Ones(blk) <=> \E b \in Bytes : q \in row(b)
    BY <2>1, Zenon
  <2>4. ASSUME NEW q \in Ones(blk) PROVE \E b \in Bytes : \E x \in blk[b] : q = Pos(b, x)
    <3>1. PICK b \in Bytes : q \in row(b)
      BY <2>3, <2>4
    <3> QED
      BY <2>2, <3>1
  <2>5. ASSUME NEW q, NEW b \in Bytes, NEW x \in blk[b], q = Pos(b, x) PROVE q \in Ones(blk)
    BY <2>2, <2>3, <2>5
  <2> QED
    BY <2>4, <2>5
<1>3. ASSUME NEW b \in Bytes, NEW x \in 0 .. W - 1
      PROVE  Pos(b, x) \in Ones(blk) <=> x \in blk[b]
  <2>1. ASSUME Pos(b, x) \in Ones(blk) PROVE x \in blk[b]
    <3>0. PICK c \in Bytes : \E y \in blk[c] : Pos(b, x) = Pos(c, y)
      BY <1>2, <2>1, Zenon
    <3>1. PICK y \in blk[c] : Pos(b, x) = Pos(c, y)
      BY <3>0
    <3>2. b = c /\ x = y
      <4>1. y \in 0 .. W - 1
        BY <1>1, <3>1, Zenon
      <4> QED
        BY <3>1, <4>1, PosUnique, SMT
    <3> QED
      BY <3>1, <3>2
  <2> QED
    BY <1>2, <2>1, Zenon
<1>4. ASSUME NEW q \in Ones(blk) PROVE \E b \in Bytes, x \in 0 .. W - 1 : q = Pos(b, x)
  BY <1>1, <1>2, <1>4, Zenon
<1> QED
  BY <1>3, <1>4, Zenon

LEMMA DoubledBits ==
    ASSUME NEW f \in KeyBlocks
    PROVE  /\ Doubled(f) \in KeyBlocks
           /\ \A b \in Bytes, x \in 0 .. W - 1 :
                x \in Doubled(f)[b] <=>
                  (x >= 1 /\ x - 1 \in f[b]) \/ (x = 0 /\ b < B - 1 /\ W - 1 \in f[b + 1])
<1>1. W \in Nat /\ W >= 1 /\ B \in Nat /\ B >= 1
  BY CmacAssumption, SMT
<1>2. \A b \in Bytes : Shifted(f[b]) \cup CarryIn(f, b) \in SUBSET (0 .. W - 1)
  <2>1. 1 .. W - 1 \subseteq 0 .. W - 1 /\ 0 \in 0 .. W - 1
    BY <1>1, SMT
  <2> QED
    BY <2>1, Zenon DEF Shifted, CarryIn, Carry
<1>3. Doubled(f) \in KeyBlocks
  BY <1>2, Zenon DEF Doubled, KeyBlocks
<1>4. ASSUME NEW b \in Bytes, NEW x \in 0 .. W - 1
      PROVE  x \in Doubled(f)[b] <=>
               (x >= 1 /\ x - 1 \in f[b]) \/ (x = 0 /\ b < B - 1 /\ W - 1 \in f[b + 1])
  <2>1. Doubled(f)[b] = Shifted(f[b]) \cup CarryIn(f, b)
    BY Zenon DEF Doubled
  <2>2. x \in Shifted(f[b]) <=> x >= 1 /\ x - 1 \in f[b]
    BY <1>1, SMT DEF Shifted
  <2>3. x \in CarryIn(f, b) <=> x = 0 /\ b < B - 1 /\ W - 1 \in f[b + 1]
    BY <1>1, SMT DEF CarryIn, Carry, Bytes
  <2> QED
    BY <2>1, <2>2, <2>3, Zenon
<1> QED
  BY <1>3, <1>4, Zenon

LEMMA OnesDoubled ==
    ASSUME NEW f \in KeyBlocks
    PROVE  Ones(Doubled(f)) = {p + 1 : p \in Ones(f) \ {B * W - 1}}
<1> DEFINE D == Doubled(f)
           top == B * W - 1
<1>1. W \in Nat /\ W >= 1 /\ B \in Nat /\ B >= 1 /\ 0 \in Bytes /\ W - 1 \in 0 .. W - 1
      /\ 0 \in 0 .. W - 1
  BY CmacAssumption, SMT DEF Bytes
<1>2. top = Pos(0, W - 1)
  BY <1>1, Positions, Zenon
<1>3. /\ D \in KeyBlocks
      /\ \A b \in Bytes, x \in 0 .. W - 1 :
           x \in D[b] <=>
             (x >= 1 /\ x - 1 \in f[b]) \/ (x = 0 /\ b < B - 1 /\ W - 1 \in f[b + 1])
  BY DoubledBits, Zenon
<1> HIDE DEF D, top
<1>4. ASSUME NEW q \in Ones(D) PROVE \E p \in Ones(f) \ {top} : q = p + 1
  <2>1. PICK b \in Bytes, x \in 0 .. W - 1 : q = Pos(b, x)
    BY <1>3, <1>4, InOnes, Zenon
  <2>2. x \in D[b]
    BY <1>3, <1>4, <2>1, InOnes, Zenon
  <2>3. CASE x >= 1 /\ x - 1 \in f[b]
    <3>1. x - 1 \in 0 .. W - 1 /\ x - 1 < W - 1 /\ x - 1 + 1 = x /\ x - 1 # W - 1
      BY <1>1, <2>3, SMT
    <3>2. Pos(b, x - 1) \in Ones(f)
      BY <2>3, <3>1, InOnes, Zenon
    <3>3. Pos(b, x - 1) + 1 = Pos(b, x)
      BY <3>1, Positions, SMT
    <3>4. Pos(b, x - 1) # top
      BY <1>1, <1>2, <3>1, PosUnique, SMT
    <3> QED
      BY <2>1, <3>2, <3>3, <3>4, Zenon
  <2>4. CASE x = 0 /\ b < B - 1 /\ W - 1 \in f[b + 1]
    <3>1. b + 1 \in Bytes /\ b + 1 > 0 /\ b + 1 # 0 /\ b + 1 - 1 = b
      BY <1>1, <2>4, SMT DEF Bytes
    <3>2. Pos(b + 1, W - 1) \in Ones(f)
      BY <1>1, <2>4, <3>1, InOnes, Zenon
    <3>3. Pos(b + 1, W - 1) + 1 = Pos(b, 0)
      BY <3>1, PosCarry, Zenon
    <3>4. Pos(b + 1, W - 1) # top
      BY <1>1, <1>2, <3>1, PosUnique, SMT
    <3> QED
      BY <2>1, <2>4, <3>2, <3>3, <3>4, Zenon
  <2> QED
    BY <1>3, <2>2, <2>3, <2>4, Zenon
<1>5. ASSUME NEW p \in Ones(f) \ {top} PROVE p + 1 \in Ones(D)
  <2>1. PICK b \in Bytes, x \in 0 .. W - 1 : p = Pos(b, x)
    BY <1>5, InOnes, Zenon
  <2>2. x \in f[b]
    BY <1>5, <2>1, InOnes, Zenon
  <2>3. CASE x < W - 1
    <3>1. x + 1 \in 0 .. W - 1 /\ x + 1 >= 1 /\ x + 1 - 1 = x
      BY <1>1, <2>3, SMT
    <3>2. x + 1 \in D[b]
      BY <1>3, <2>2, <3>1, SMT
    <3>3. p + 1 = Pos(b, x + 1)
      BY <2>1, <2>3, Positions, SMT
    <3> QED
      BY <1>3, <3>1, <3>2, <3>3, InOnes, SMT
  <2>4. CASE x = W - 1
    <3>1. b # 0
      BY <1>2, <1>5, <2>1, <2>4, Zenon
    <3>2. b > 0 /\ b - 1 \in Bytes /\ b - 1 < B - 1 /\ b - 1 + 1 = b
      BY <1>1, <3>1, SMT DEF Bytes
    <3>3. 0 \in D[b - 1]
      BY <1>1, <1>3, <2>2, <2>4, <3>2, SMT
    <3>4. p + 1 = Pos(b - 1, 0)
      BY <2>1, <2>4, <3>2, Positions, SMT
    <3> QED
      BY <1>1, <1>3, <3>2, <3>3, <3>4, InOnes, SMT
  <2> QED
    BY <1>1, <2>3, <2>4, SMT
<1>6. Ones(D) = {p + 1 : p \in Ones(f) \ {top}}
  BY <1>4, <1>5, SMT
<1> QED
  BY <1>6 DEF D, top

LEMMA Put ==
    ASSUME NEW D, NEW T, NEW f \in [D -> T], NEW a, NEW v \in T
    PROVE  [f EXCEPT ![a] = v] \in [D -> T]
  OBVIOUS

LEMMA OnesReduced ==
    ASSUME NEW S \in KeyBlocks, NEW m \in SUBSET (0 .. W - 1)
    PROVE  Ones([S EXCEPT ![B - 1] = Xor(S[B - 1], m)]) = Xor(Ones(S), m)
<1> DEFINE P == [S EXCEPT ![B - 1] = Xor(S[B - 1], m)]
<1>1. B \in Nat /\ B >= 1 /\ W \in Nat /\ W >= 1 /\ B - 1 \in Bytes
  BY CmacAssumption, SMT DEF Bytes
<1>2. \A x \in 0 .. W - 1 : Pos(B - 1, x) = x
  BY <1>1, Positions, Zenon
<1>3. /\ P[B - 1] = Xor(S[B - 1], m)
      /\ \A b \in Bytes \ {B - 1} : P[b] = S[b]
  BY <1>1, SMT DEF KeyBlocks
<1>4. P \in KeyBlocks
  <2>1. S[B - 1] \in SUBSET (0 .. W - 1)
    BY <1>1, Zenon DEF KeyBlocks
  <2>2. Xor(S[B - 1], m) \in SUBSET (0 .. W - 1)
    BY <2>1, Zenon DEF Xor
  <2> QED
    BY <2>2, Put DEF KeyBlocks
<1> HIDE DEF P
<1>5. ASSUME NEW b \in Bytes, NEW x \in 0 .. W - 1
      PROVE  Pos(b, x) \in Ones(P) <=> Pos(b, x) \in Xor(Ones(S), m)
  <2>1. /\ Pos(b, x) \in Ones(P) <=> x \in P[b]
        /\ Pos(b, x) \in Ones(S) <=> x \in S[b]
    BY <1>4, InOnes, Zenon
  <2>2. CASE b = B - 1
    <3>1. Pos(b, x) = x
      BY <1>2, <2>2, Zenon
    <3> QED
      BY <1>3, <2>1, <2>2, <3>1, Zenon DEF Xor
  <2>3. CASE b # B - 1
    <3>1. Pos(b, x) \notin m
      <4>1. ASSUME Pos(b, x) \in m PROVE FALSE
        <5>1. PICK y \in 0 .. W - 1 : Pos(b, x) = y
          BY <4>1, Zenon
        <5>2. Pos(b, x) = Pos(B - 1, y)
          BY <1>2, <5>1, Zenon
        <5> QED
          BY <1>1, <2>3, <5>2, PosUnique, SMT
      <4> QED
        BY <4>1
    <3>2. P[b] = S[b]
      BY <1>3, <2>3, Zenon
    <3> QED
      BY <2>1, <3>1, <3>2, Zenon DEF Xor
  <2> QED
    BY <2>2, <2>3
<1>6. ASSUME NEW q \in Ones(P) \cup Xor(Ones(S), m)
      PROVE  \E b \in Bytes, x \in 0 .. W - 1 : q = Pos(b, x)
  <2>1. CASE q \in Ones(P)
    BY <1>4, <2>1, InOnes, Zenon
  <2>2. CASE q \in Ones(S)
    BY <2>2, InOnes, Zenon
  <2>3. CASE q \in m
    BY <1>1, <1>2, <2>3, Zenon
  <2> QED
    BY <1>6, <2>1, <2>2, <2>3, Zenon DEF Xor
<1>7. Ones(P) = Xor(Ones(S), m)
  <2>1. ASSUME NEW q \in Ones(P) PROVE q \in Xor(Ones(S), m)
    BY <1>5, <1>6, <2>1
  <2>2. ASSUME NEW q \in Xor(Ones(S), m) PROVE q \in Ones(P)
    BY <1>5, <1>6, <2>2
  <2> QED
    BY <2>1, <2>2
<1> QED
  BY <1>7 DEF P

(* Read as a polynomial, what the two loops compute is the product with u.  *)
LEMMA ProductIsTimesU ==
    ASSUME NEW f \in KeyBlocks
    PROVE  Ones(Product(f)) = TimesU(Ones(f)) /\ Product(f) \in KeyBlocks
<1> DEFINE mask == IF W - 1 \in f[0] THEN R ELSE {}
<1>1. R \in SUBSET (0 .. W - 1) /\ {} \in SUBSET (0 .. W - 1) /\ B - 1 \in Bytes /\ 0 \in Bytes
      /\ W - 1 \in 0 .. W - 1
  BY CmacAssumption, SMT DEF Bytes
<1>2. mask \in SUBSET (0 .. W - 1)
  BY <1>1, Zenon
<1>3. Doubled(f) \in KeyBlocks
  BY DoubledBits, Zenon
<1>4. Product(f) = [Doubled(f) EXCEPT ![B - 1] = Xor(Doubled(f)[B - 1], mask)]
  BY <1>1, <1>3, Zenon DEF Product, Reduced, KeyBlocks
<1>5. B * W - 1 \in Ones(f) <=> W - 1 \in f[0]
  <2>1. Pos(0, W - 1) = B * W - 1
    BY <1>1, Positions, Zenon
  <2>2. Pos(0, W - 1) \in Ones(f) <=> W - 1 \in f[0]
    BY <1>1, InOnes, Zenon
  <2> QED
    BY <2>1, <2>2
<1>6. mask = IF B * W - 1 \in Ones(f) THEN R ELSE {}
  BY <1>5, Zenon
<1> HIDE DEF mask
<1>7. Ones(Product(f)) = Xor(Ones(Doubled(f)), mask)
  BY <1>2, <1>3, <1>4, OnesReduced, Zenon
<1>8. Ones(Product(f)) = TimesU(Ones(f))
  BY <1>6, <1>7, OnesDoubled, Zenon DEF TimesU
<1>9. Product(f) \in KeyBlocks
  BY <1>3, ReduceType, Zenon DEF Product
<1> QED
  BY <1>8, <1>9

-----------------------------------------------------------------------------
LEMMA LoopShifts ==
    ASSUME NEW f \in KeyBlocks, NEW p \in KeyBlocks, NEW q \in KeyBlocks,
           i \in Bytes, Multiplying(f, p),
           q = [p EXCEPT ![i] = Shifted(f[i]) \cup overflow]
    PROVE  \A b \in Bytes : b > i - 1 => q[b] = Doubled(f)[b]
<1> SUFFICES ASSUME NEW b \in Bytes, b > i - 1
             PROVE  q[b] = Doubled(f)[b]
  OBVIOUS
<1>1. CASE b = i
  <2>1. overflow = CarryIn(f, i)
    BY Zenon DEF Multiplying, CarryIn
  <2>2. Doubled(f)[i] = Shifted(f[i]) \cup overflow
    BY <2>1, Zenon DEF Doubled
  <2> QED
    BY <1>1, <2>2, Zenon DEF KeyBlocks
<1>2. CASE b # i
  <2>1. b > i
    BY <1>2, CmacAssumption, SMT DEF Bytes
  <2>2. q[b] = p[b]
    BY <1>2, Zenon DEF KeyBlocks
  <2> QED
    BY <2>1, <2>2, Zenon DEF Multiplying
<1> QED
  BY <1>1, <1>2

LEMMA LoopEnds ==
    ASSUME NEW f \in KeyBlocks, NEW p \in KeyBlocks, TypeOK, i < 0, Multiplying(f, p)
    PROVE  Reduced(p, f) = Product(f)
<1>1. \A b \in Bytes : b > i
  BY CmacAssumption, SMT DEF Bytes, TypeOK
<1>2. \A b \in Bytes : p[b] = Doubled(f)[b]
  BY <1>1, Zenon DEF Multiplying
<1>3. Doubled(f) \in KeyBlocks
  BY DoubledBits, Zenon
<1> DEFINE d == Doubled(f)
<1>4. \A b \in Bytes : p[b] = d[b]
  BY <1>2
<1>5. p \in KeyBlocks /\ d \in KeyBlocks
  BY <1>3
<1>6. p = d
  <2> HIDE DEF d
  <2> QED
    BY <1>4, <1>5, SMT DEF KeyBlocks
<1> QED
  BY <1>6, Zenon DEF Product

LEMMA SubkeyStep == TypeOK /\ TypeOK' /\ SubkeyInv /\ [Next]_vars => SubkeyInv'
<1> SUFFICES ASSUME TypeOK, TypeOK', SubkeyInv, [Next]_vars PROVE SubkeyInv'
  OBVIOUS
<1>b. B \in Nat /\ B >= 1
  BY CmacAssumption, SMT
<1>1. CASE SetKey \/ StartUpdate \/ AbsorbBlock \/ KeepRest \/ TakeLast \/ Encrypt \/ Wipe
           \/ WipeContexts
  <2>1. pc' \notin {"K1", "K2", "last"}
    BY <1>1, SMT DEF SetKey, StartUpdate, AbsorbBlock, KeepRest, TakeLast, Encrypt, Wipe,
                     WipeContexts
  <2> QED
    BY <2>1, SMT DEF SubkeyInv
<1>2. CASE StartSubkeys
  <2>1. pc' = "K1" /\ L' = ek0 /\ ek0' = ek0 /\ i' = B - 1 /\ overflow' = {}
    BY <1>2, Zenon DEF StartSubkeys, message
  <2>2. Multiplying(L, K1)'
    BY <1>b, <2>1, SMT DEF Multiplying, Bytes
  <2> QED
    BY <2>1, <2>2, SMT DEF SubkeyInv
<1>3. CASE MultiplyK1
  <2>0. pc = "K1" /\ L = ek0 /\ Multiplying(L, K1) /\ ek0' = ek0 /\ L' = L
    BY <1>3, Zenon DEF MultiplyK1, SubkeyInv, message
  <2>t. L \in KeyBlocks /\ K1 \in KeyBlocks
    BY DEF TypeOK
  <2>1. CASE i >= 0 /\ ShiftByte(L, K1)
    <3>1. i \in Bytes /\ i' = i - 1 /\ pc' = "K1" /\ i - 1 # B - 1 /\ i - 1 + 1 = i
      BY <1>b, <2>0, <2>1, SMT DEF ShiftByte, TypeOK, Bytes
    <3>2. K1' = [K1 EXCEPT ![i] = Shifted(L[i]) \cup overflow] /\ overflow' = Carry(L[i])
      BY <2>1, Zenon DEF ShiftByte
    <3>3. \A b \in Bytes : b > i - 1 => K1'[b] = Doubled(L)[b]
      <4>1. K1' \in KeyBlocks
        BY DEF TypeOK
      <4>2. i \in Bytes /\ Multiplying(L, K1)
        BY <2>0, <3>1
      <4>3. K1' = [K1 EXCEPT ![i] = Shifted(L[i]) \cup overflow]
        BY <3>2
      <4> QED
        BY <2>t, <4>1, <4>2, <4>3, LoopShifts, Zenon
    <3>4. Multiplying(L, K1)'
      BY <2>0, <3>1, <3>2, <3>3, Zenon DEF Multiplying, Doubled, CarryIn
    <3> QED
      BY <2>0, <3>1, <3>4, SMT DEF SubkeyInv
  <2>2. CASE i < 0 /\ Reduce(L, K1, "K2")
    <3>1. K1' = Product(L) /\ pc' = "K2" /\ i' = B - 1 /\ overflow' = {}
      BY <2>0, <2>t, <2>2, LoopEnds, Zenon DEF Reduce
    <3>2. Multiplying(K1, K2)'
      BY <1>b, <3>1, SMT DEF Multiplying, Bytes
    <3>3. K1' = Product(ek0)'
      BY <2>0, <3>1, Zenon DEF Product, Reduced, Doubled, CarryIn
    <3> QED
      BY <3>1, <3>2, <3>3, SMT DEF SubkeyInv
  <2> QED
    BY <1>3, <2>1, <2>2, Zenon DEF MultiplyK1
<1>4. CASE MultiplyK2
  <2>0. pc = "K2" /\ K1 = Product(ek0) /\ Multiplying(K1, K2) /\ ek0' = ek0 /\ K1' = K1
    BY <1>4, Zenon DEF MultiplyK2, SubkeyInv, message
  <2>t. K1 \in KeyBlocks /\ K2 \in KeyBlocks
    BY DEF TypeOK
  <2>3. Product(ek0)' = Product(ek0)
    BY <2>0, Zenon DEF Product, Reduced, Doubled, CarryIn
  <2>1. CASE i >= 0 /\ ShiftByte(K1, K2)
    <3>1. i \in Bytes /\ i' = i - 1 /\ pc' = "K2" /\ i - 1 # B - 1 /\ i - 1 + 1 = i
      BY <1>b, <2>0, <2>1, SMT DEF ShiftByte, TypeOK, Bytes
    <3>2. K2' = [K2 EXCEPT ![i] = Shifted(K1[i]) \cup overflow] /\ overflow' = Carry(K1[i])
      BY <2>1, Zenon DEF ShiftByte
    <3>3. \A b \in Bytes : b > i - 1 => K2'[b] = Doubled(K1)[b]
      <4>1. K2' \in KeyBlocks
        BY DEF TypeOK
      <4>2. i \in Bytes /\ Multiplying(K1, K2)
        BY <2>0, <3>1
      <4>3. K2' = [K2 EXCEPT ![i] = Shifted(K1[i]) \cup overflow]
        BY <3>2
      <4> QED
        BY <2>t, <4>1, <4>2, <4>3, LoopShifts, Zenon
    <3>4. Multiplying(K1, K2)'
      BY <2>0, <3>1, <3>2, <3>3, Zenon DEF Multiplying, Doubled, CarryIn
    <3> QED
      BY <2>0, <2>3, <3>1, <3>4, SMT DEF SubkeyInv
  <2>2. CASE i < 0 /\ Reduce(K1, K2, "last")
    <3>1. K2' = Product(K1) /\ pc' = "last"
      BY <2>0, <2>t, <2>2, LoopEnds, Zenon DEF Reduce
    <3>2. Product(K1)' = Product(K1)
      BY <2>0, Zenon DEF Product, Reduced, Doubled, CarryIn
    <3> QED
      BY <2>0, <2>3, <3>1, <3>2, SMT DEF SubkeyInv
  <2> QED
    BY <1>4, <2>1, <2>2, Zenon DEF MultiplyK2
<1>5. CASE UNCHANGED vars
  <2>1. UNCHANGED <<pc, L, K1, K2, i, overflow, ek0>>
    BY <1>5, Zenon DEF vars
  <2> QED
    BY <2>1, Zenon DEF SubkeyInv, Multiplying, Product, Reduced, Doubled, CarryIn
<1> QED
  BY <1>1, <1>2, <1>3, <1>4, <1>5, Zenon DEF Next

THEOREM Invariance == Spec => []IInv
<1>1. IInv /\ [Next]_vars => IInv'
  BY TypeStep, TagStep, WipeStep, SubkeyStep, Zenon DEF IInv
<1> QED
  BY InitInv, <1>1, PTL DEF Spec

(* The types; for every message the rest that is kept fits into its block.  *)
THEOREM TypeCorrect == Spec => []TypeOK
<1>1. IInv => TypeOK
  BY DEF IInv
<1> QED
  BY Invariance, <1>1, PTL

(* The MAC of cmac.c is the one of RFC 4493, whatever the size of a block   *)
(* and the length of the message.                                           *)
THEOREM TagCorrect == Spec => []TagIsCmac
<1>1. IInv => TagIsCmac
  BY DEF IInv, TagInv
<1> QED
  BY Invariance, <1>1, PTL

(* No key, subkey or state is left in the contexts when the call returns.   *)
THEOREM WipedCorrect == Spec => []ContextsWiped
<1>1. IInv => ContextsWiped
  BY Zenon DEF IInv, WipeInv, ContextsWiped
<1> QED
  BY Invariance, <1>1, PTL

(* The subkeys are L times u and L times u squared in GF(2^n), for every    *)
(* block size, width of a byte and polynomial.                              *)
THEOREM SubkeysCorrect == Spec => []SubkeysAreMultiples
<1>1. IInv => SubkeysAreMultiples
  <2> SUFFICES ASSUME IInv, pc = "last"
               PROVE  Ones(K1) = TimesU(Ones(ek0)) /\ Ones(K2) = TimesU(Ones(K1))
    BY DEF SubkeysAreMultiples
  <2>1. K1 = Product(ek0) /\ K2 = Product(K1)
    BY Zenon DEF IInv, SubkeyInv
  <2>2. ek0 \in KeyBlocks /\ K1 \in KeyBlocks
    BY BlockTypes, Zenon DEF IInv, TypeOK
  <2> QED
    BY <2>1, <2>2, ProductIsTimesU, Zenon
<1> QED
  BY Invariance, <1>1, PTL
=============================================================================
