-------------------------------- MODULE Cmac --------------------------------
(***************************************************************************)
(* mbedtls_cipher_cmac of src/dcap-le/cmac.c, by which the launch enclave  *)
(* signs a token: the message is absorbed block by block, the subkeys are  *)
(* derived bit by bit, and the last block, complete or padded, is combined *)
(* with one of them.  The result is compared with what RFC 4493 defines.   *)
(*                                                                         *)
(* A byte of the message is its position, from 1; 0 is a zero byte and -1  *)
(* the byte 0x80 of the padding.  AES under the key of the call is a free  *)
(* constructor: the chaining state is the sequence of the blocks that were *)
(* xored into it and encrypted.  Only its value for the zero block, from   *)
(* which the subkeys come, has bits: a byte of it is the set of its ones.  *)
(***************************************************************************)
EXTENDS Integers, Sequences

CONSTANTS
    B,          \* MBEDTLS_AES_BLOCK_SIZE
    W, R,       \* the width of a byte, and the ones of R_n
    Lengths,    \* the lengths of the messages
    ZeroBlocks  \* the values AES may have for the zero block

ASSUME CmacAssumption ==
    /\ B \in Nat /\ B > 0
    /\ W \in Nat /\ W > 0 /\ R \subseteq 0 .. W - 1
    /\ Lengths \subseteq Nat
    /\ ZeroBlocks \subseteq [0 .. B - 1 -> SUBSET (0 .. W - 1)]

VARIABLES
    pc,
    len,        \* the length of the message
    ek0,        \* AES of the zero block
    keys,       \* does the AES context hold the round keys?
    input,      \* how many bytes input has been advanced by
    ilen,       \* the length that is left
    n, j,       \* the number of blocks and the loop index of the update
    state,      \* the chaining state
    block, blen,    \* unprocessed_block and unprocessed_len
    L, K1, K2,  \* the value the subkeys are derived from, and the subkeys
    i, overflow,    \* the loop of cmac_multiply_by_u
    last,       \* M_last: the block and the subkey it was xored with
    output

vars == <<pc, len, ek0, keys, input, ilen, n, j, state, block, blen, L, K1, K2, i, overflow,
          last, output>>
message == <<len, ek0>>
reading == <<input, ilen, n, j>>
context == <<state, block, blen>>
subkeys == <<L, K1, K2, i, overflow>>

Bytes == 0 .. B - 1
Zero == [b \in Bytes |-> 0]             \* a block of the message
ZeroKey == [b \in Bytes |-> {}]         \* a block that depends on the key
NoLast == [block |-> Zero, key |-> "none"]
NoTag == [state |-> <<>>, last |-> NoLast]

InputBlock(at) == [b \in Bytes |-> at + b + 1]
Xor(s, t) == (s \ t) \cup (t \ s)

-----------------------------------------------------------------------------
Init ==
    /\ pc = "setkey"
    /\ len \in Lengths
    /\ ek0 \in ZeroBlocks
    /\ keys = FALSE
    /\ input = 0 /\ ilen = len /\ n = 0 /\ j = 0
    /\ state = <<>> /\ block = Zero /\ blen = 0
    /\ L = ZeroKey /\ K1 = ZeroKey /\ K2 = ZeroKey /\ i = 0 /\ overflow = {}
    /\ last = NoLast
    /\ output = NoTag

SetKey ==
    /\ pc = "setkey"
    /\ keys' = TRUE
    /\ pc' = "update"
    /\ UNCHANGED <<message, reading, context, subkeys, last, output>>

(* Mutant: rounded down.                                                    *)
BlockCount_Down(k) == k \div B
(* The number of blocks, including any final partial block.  Nothing is     *)
(* left over from an earlier update: the contexts are those of this call.   *)
BlockCount(k) == (k + B - 1) \div B

StartUpdate ==
    /\ pc = "update"
    /\ n' = BlockCount(ilen)
    /\ j' = 1
    /\ pc' = "blocks"
    /\ UNCHANGED <<message, keys, input, ilen, context, subkeys, last, output>>

AbsorbBlock ==
    /\ pc = "blocks"
    /\ j < n
    /\ state' = Append(state, InputBlock(input))
    /\ ilen' = ilen - B
    /\ input' = input + B
    /\ j' = j + 1
    /\ UNCHANGED <<pc, message, keys, n, block, blen, subkeys, last, output>>

KeepRest ==
    /\ pc = "blocks"
    /\ j >= n
    /\ block' = [b \in Bytes |-> IF b < ilen THEN input + b + 1 ELSE block[b]]
    /\ blen' = blen + ilen
    /\ pc' = "subkeys"
    /\ UNCHANGED <<message, keys, reading, state, subkeys, last, output>>

-----------------------------------------------------------------------------
(* cmac_generate_subkeys: K1 is L times u and K2 is K1 times u.  A round of *)
(* the loop takes one byte, from the last one on, and the bit it hands on.  *)
Shifted(byte) == {b \in 1 .. W - 1 : b - 1 \in byte}
Carry(byte) == IF W - 1 \in byte THEN {0} ELSE {}
(* Mutant: the mask is always all ones.                                     *)
Reduced_Always(product, factor) == [product EXCEPT ![B - 1] = Xor(@, R)]
Reduced(product, factor) ==
    [product EXCEPT ![B - 1] = Xor(@, IF W - 1 \in factor[0] THEN R ELSE {})]

StartSubkeys ==
    /\ pc = "subkeys"
    /\ L' = ek0
    /\ K1' = ZeroKey /\ K2' = ZeroKey
    /\ i' = B - 1 /\ overflow' = {}
    /\ pc' = "K1"
    /\ UNCHANGED <<message, keys, reading, context, last, output>>

ShiftByte(factor, product) ==
    /\ product' = [product EXCEPT ![i] = Shifted(factor[i]) \cup overflow]
    /\ overflow' = Carry(factor[i])
    /\ i' = i - 1
    /\ UNCHANGED pc
Reduce(factor, product, next) ==
    /\ product' = Reduced(product, factor)
    /\ i' = B - 1 /\ overflow' = {}
    /\ pc' = next

MultiplyK1 ==
    /\ pc = "K1"
    /\ \/ i >= 0 /\ ShiftByte(L, K1)
       \/ i < 0 /\ Reduce(L, K1, "K2")
    /\ UNCHANGED <<message, keys, reading, context, L, K2, last, output>>

(* Mutant: L is left on the stack.                                          *)
MultiplyK2_KeepsL ==
    /\ pc = "K2"
    /\ \/ i >= 0 /\ ShiftByte(K1, K2) /\ UNCHANGED L
       \/ i < 0 /\ Reduce(K1, K2, "last") /\ UNCHANGED L
    /\ UNCHANGED <<message, keys, reading, context, K1, last, output>>
(* L is wiped at the end of the function.                                   *)
MultiplyK2 ==
    /\ pc = "K2"
    /\ \/ i >= 0 /\ ShiftByte(K1, K2) /\ UNCHANGED L
       \/ i < 0 /\ Reduce(K1, K2, "last") /\ L' = ZeroKey
    /\ UNCHANGED <<message, keys, reading, context, K1, last, output>>

-----------------------------------------------------------------------------
Padded(blk, k) == [b \in Bytes |-> IF b < k THEN blk[b] ELSE IF b = k THEN -1 ELSE 0]

(* Mutant: a complete block is padded, too.                                 *)
LastBlock_Padded == [block |-> Padded(block, blen), key |-> "K2"]
LastBlock ==
    IF blen < B
    THEN [block |-> Padded(block, blen), key |-> "K2"]
    ELSE [block |-> block, key |-> "K1"]

TakeLast ==
    /\ pc = "last"
    /\ last' = LastBlock
    /\ pc' = "encrypt"
    /\ UNCHANGED <<message, keys, reading, context, subkeys, output>>

(* The state holds the same value until it is wiped.                        *)
Encrypt ==
    /\ pc = "encrypt"
    /\ output' = [state |-> state, last |-> last]
    /\ pc' = "wipe"
    /\ UNCHANGED <<message, keys, reading, context, subkeys, last>>

(* The end of the two functions: cmac_finish, mbedtls_cipher_cmac.  M_last  *)
(* stays as it is.                                                          *)
Wipe ==
    /\ pc = "wipe"
    /\ K1' = ZeroKey /\ K2' = ZeroKey
    /\ blen' = 0 /\ block' = Zero /\ state' = <<>>
    /\ pc' = "exit"
    /\ UNCHANGED <<message, keys, reading, L, i, overflow, last, output>>
WipeContexts ==
    /\ pc = "exit"
    /\ keys' = FALSE
    /\ pc' = "done"
    /\ UNCHANGED <<message, reading, context, subkeys, last, output>>

Next ==
    SetKey \/ StartUpdate \/ AbsorbBlock \/ KeepRest \/ StartSubkeys \/ MultiplyK1 \/ MultiplyK2
        \/ TakeLast \/ Encrypt \/ Wipe \/ WipeContexts

Spec == Init /\ [][Next]_vars

-----------------------------------------------------------------------------
(* RFC 4493: the message is n blocks, at least one, of which the last is    *)
(* used as it is with K1 if it is complete, and padded with K2 if not.      *)
Rounds(k) == IF k = 0 THEN 1 ELSE (k + B - 1) \div B
Reference(k) ==
    LET rest == k - (Rounds(k) - 1) * B
    IN [state |-> [m \in 1 .. Rounds(k) - 1 |-> InputBlock((m - 1) * B)],
        last |->
          IF rest = B
          THEN [block |-> InputBlock(k - B), key |-> "K1"]
          ELSE [block |-> [b \in Bytes |->
                             IF b < rest THEN k - rest + b + 1 ELSE IF b = rest THEN -1 ELSE 0],
                key |-> "K2"]]

(* A block as the set of its ones, the last byte holding the lowest ones,   *)
(* and the product with u in GF(2^n): a shift, and R if a one falls out.    *)
Ones(blk) == UNION {{(B - 1 - b) * W + bit : bit \in blk[b]} : b \in Bytes}
TimesU(ones) ==
    Xor({p + 1 : p \in ones \ {B * W - 1}}, IF B * W - 1 \in ones THEN R ELSE {})

Blocks == [Bytes -> Int]
KeyBlocks == [Bytes -> SUBSET (0 .. W - 1)]

(* The types; in particular the rest that is kept fits into its block.      *)
TypeOK ==
    /\ pc \in {"setkey", "update", "blocks", "subkeys", "K1", "K2", "last", "encrypt", "wipe",
               "exit", "done"}
    /\ len \in Lengths /\ ek0 \in ZeroBlocks /\ keys \in BOOLEAN
    /\ input \in Nat /\ ilen \in Nat /\ n \in Nat /\ j \in Nat
    /\ state \in Seq(Blocks) /\ block \in Blocks /\ blen \in 0 .. B
    /\ L \in KeyBlocks /\ K1 \in KeyBlocks /\ K2 \in KeyBlocks
    /\ i \in -1 .. B - 1 /\ overflow \in SUBSET {0}
    /\ last \in [block : Blocks, key : {"none", "K1", "K2"}]
    /\ output \in [state : Seq(Blocks), last : [block : Blocks, key : {"none", "K1", "K2"}]]

(* Whatever the length of the message, the MAC is the one RFC 4493 defines: *)
(* in particular a last block that is complete is neither absorbed early    *)
(* nor padded.                                                              *)
TagIsCmac == pc \in {"wipe", "exit", "done"} => output = Reference(len)

(* The subkeys the last block is combined with are L times u and L times u  *)
(* squared, the carries of the shift going from byte to byte.               *)
SubkeysAreMultiples ==
    pc = "last" => Ones(K1) = TimesU(Ones(ek0)) /\ Ones(K2) = TimesU(Ones(K1))

(* Nothing is left of the round keys, of the subkeys and of the state when  *)
(* the call returns, apart from M_last.                                     *)
ContextsWiped ==
    pc = "done" =>
        /\ ~keys /\ state = <<>> /\ block = Zero /\ blen = 0
        /\ L = ZeroKey /\ K1 = ZeroKey /\ K2 = ZeroKey

(* The comment at the end of cmac_finish: the keys and any other transients *)
(* are wiped.  M_last is one: with the message it gives the subkey.         *)
TransientsWiped == pc = "done" => last = NoLast
=============================================================================
