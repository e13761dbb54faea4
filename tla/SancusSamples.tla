---------------------------- MODULE SancusSamples ----------------------------
(***************************************************************************)
(* The sample modules in C of src/sancus/full_encl and t2w, one at a time, *)
(* entered by the main function of their file or by any caller, which      *)
(* passes what it likes to the entry points in any order.  What the        *)
(* compiler puts around an entry point is the subject of SancusStubs.      *)
(*                                                                         *)
(* Arithmetic is that of the MSP430: words of WordSize values, which wrap  *)
(* around, and a pointer to an int that is odd reads the word it lies in   *)
(* (both as in the shipped main.elf).                                      *)
(***************************************************************************)
EXTENDS Integers, Sequences

CONSTANTS
    WordSize,                   \* number of words, 65536 on the MSP430
    PublicStart, PublicEnd,     \* the text section of the module
    SecretStart, SecretEnd,     \* its data section
    Samples,                    \* the samples to run, names of AllSamples
    Pointers,                   \* what a caller passes for a pointer,
    Numbers,                    \* a number or a signed length,
    Lengths,                    \* the length of do_loop,
    FibNumbers                  \* or the argument of fib, which is recursive

VARIABLES
    sample,     \* the module that runs
    who,        \* its caller, "main" or "any"
    step,       \* calls main has made
    id,         \* sancus_get_id of the module, 0 when it is not enabled
    pc,         \* where control is; "caller" between calls
    entry,      \* the entry point of the current or last call
    x, y,       \* its arguments
    data,       \* the module's private variable
    i, j,       \* loop counters
    a, b, r,    \* locals of fib and fibonacci in fib2
    read,       \* the word last read through the caller's pointer
    frames,     \* activations of fib
    result,     \* what the last call returned
    total       \* what main returns

vars == <<sample, who, step, id, pc, entry, x, y, data, i, j, a, b, r, read, frames,
          result, total>>

-----------------------------------------------------------------------------
Word == 0 .. WordSize - 1
\* The int that is stored as w.
Signed(w) == IF 2 * w < WordSize THEN w ELSE w - WordSize
(* Mutant: sums do not wrap around.                                         *)
Plus_NoWrap(v, w) == v + w
Plus(v, w) == IF v + w < WordSize THEN v + w ELSE (v + w) - WordSize
Minus(v, w) == IF v >= w THEN v - w ELSE (v + WordSize) - w

NoRead == -1
Num(w) == <<"word", w>>
Text(s) == <<"text", s>>
Nothing == <<"nothing">>

Module == (PublicStart .. PublicEnd - 1) \cup (SecretStart .. SecretEnd - 1)

-----------------------------------------------------------------------------
(* The files.  data: the initial private variable; main: its calls; value:  *)
(* does main return their results?                                          *)
Call(f, v, w) == <<f, v, w>>
Sample(entries, init, main, value) ==
    [entries |-> entries, data |-> init, main |-> main, value |-> value]

comp_gen_test_1 == Sample({"enter_encl", "another_entry"}, 0, <<>>, FALSE)
comp_gen_test_2 == Sample({"do_loop", "set_number"}, 3,
    <<Call("set_number", 5, 0), Call("do_loop", 764, 1280)>>, FALSE)
fib == Sample({"fib"}, 0, <<Call("fib", 9, 0)>>, TRUE)
fib2 == Sample({"fibonacci"}, 4, <<Call("fibonacci", 0, 0)>>, TRUE)
hello == Sample({"hello_enclave", "disable_enclave"}, 0,
    <<Call("hello_enclave", 0, 0), Call("disable_enclave", 0, 0)>>, FALSE)
minimal == Sample({"plus_one"}, 0, <<Call("plus_one", 1, 0)>>, TRUE)
minimal_3entries == Sample({"plus_one", "plus_two", "plus_three"}, 0,
    <<Call("plus_one", 1, 0), Call("plus_two", 1, 0)>>, TRUE)
minimal_v1_0_0 == Sample({"foo_c_fct"}, 0, <<Call("foo_c_fct", 1, 0)>>, FALSE)
SimpleEncl == Sample({"basic_function"}, 0,
    <<Call("basic_function", WordSize - 5, 0), Call("basic_function", 10, 0)>>, FALSE)
simple_encl_v1_0_0 == SimpleEncl
simple_encl_v2_0_0 == SimpleEncl
simple_encl_v2_1_0 == SimpleEncl
CopyFromBuffer == Sample({"copy_data_from_buffer"}, 0,
    <<Call("copy_data_from_buffer", 764, 1280)>>, FALSE)
t2w_with_programming_error == CopyFromBuffer
t2w_4_vulnerable == CopyFromBuffer
t2w_4_fixed == CopyFromBuffer
EnterEncl == Sample({"enter_encl"}, 0, <<Call("enter_encl", 0, 0)>>, FALSE)
t2w_1_improper == EnterEncl
t2w_1_fixed == EnterEncl
t2w_3_soteria_loader == Sample({"sm_loader_load"}, 0, <<Call("sm_loader_load", 948, 0)>>, FALSE)

AllSamples == [
    comp_gen_test_1 |-> comp_gen_test_1, comp_gen_test_2 |-> comp_gen_test_2,
    fib |-> fib, fib2 |-> fib2, hello |-> hello, minimal |-> minimal,
    minimal_3entries |-> minimal_3entries, minimal_v1_0_0 |-> minimal_v1_0_0,
    simple_encl_v1_0_0 |-> simple_encl_v1_0_0, simple_encl_v2_0_0 |-> simple_encl_v2_0_0,
    simple_encl_v2_1_0 |-> simple_encl_v2_1_0,
    t2w_with_programming_error |-> t2w_with_programming_error,
    t2w_4_vulnerable |-> t2w_4_vulnerable, t2w_4_fixed |-> t2w_4_fixed,
    t2w_1_improper |-> t2w_1_improper, t2w_1_fixed |-> t2w_1_fixed,
    t2w_3_soteria_loader |-> t2w_3_soteria_loader]
ASSUME SamplesAssumption ==
    /\ Samples \subseteq DOMAIN AllSamples
    /\ WordSize \in Nat \ (0 .. 1280) /\ WordSize % 2 = 0
    /\ PublicStart \in Word /\ PublicEnd \in Word /\ PublicStart < PublicEnd
    /\ SecretStart \in Word /\ SecretEnd \in Word /\ SecretStart < SecretEnd
    /\ \A e \in {PublicStart, PublicEnd, SecretStart, SecretEnd} : e % 2 = 0
    /\ Pointers \subseteq Word /\ Numbers \subseteq Word /\ Lengths \subseteq Word
    /\ FibNumbers \subseteq Word

This == AllSamples[sample]

-----------------------------------------------------------------------------
(* Calls.  The arguments are what the parameter of the entry point holds.   *)
Given(f) ==
    CASE f = "copy_data_from_buffer" -> Pointers \X Numbers
      [] f = "do_loop" -> Pointers \X Lengths
      [] f = "sm_loader_load" -> Pointers \X {0}
      [] f = "fib" -> FibNumbers \X {0}
      [] f \in {"fibonacci", "enter_encl", "hello_enclave", "disable_enclave"} -> {<<0, 0>>}
      [] OTHER -> Numbers \X {0}

Enter(f, v, w) ==
    /\ pc = "caller"
    /\ pc' = "body" /\ entry' = f /\ x' = v /\ y' = w /\ result' = Nothing
    /\ UNCHANGED <<sample, who, id, data, i, j, a, b, r, read, frames, total>>

\* The stack frame is gone; main adds up what it returns in the end.
Return(v) ==
    /\ pc' = "caller" /\ result' = v
    /\ i' = 0 /\ j' = 0 /\ a' = 0 /\ b' = 0 /\ r' = 0 /\ read' = NoRead /\ frames' = <<>>
    /\ total' = IF who = "main" /\ This.value THEN Plus(total, v[2]) ELSE total
    /\ UNCHANGED <<sample, who, step, entry, x, y>>

Goto(l) == pc' = l /\ UNCHANGED <<sample, who, step, id, entry, x, y, data, result, total>>

\* sancus_enable, the first thing every main does.
Enable ==
    /\ pc = "enable"
    /\ id' = 1 /\ pc' = "caller"
    /\ UNCHANGED <<sample, who, step, entry, x, y, data, i, j, a, b, r, read, frames,
                   result, total>>

MainCalls ==
    /\ who = "main" /\ step < Len(This.main)
    /\ LET c == This.main[step + 1] IN Enter(c[1], c[2], c[3])
    /\ step' = step + 1

MainEnds ==
    /\ who = "main" /\ pc = "caller" /\ step = Len(This.main)
    /\ Goto("exited") /\ UNCHANGED <<i, j, a, b, r, read, frames>>

AnyCalls ==
    /\ who = "any"
    /\ \E f \in This.entries : \E c \in Given(f) : Enter(f, c[1], c[2])
    /\ UNCHANGED step

-----------------------------------------------------------------------------
(* Entry points that compute their result from the argument.                *)
In(f) == pc = "body" /\ entry = f

enter_encl == In("enter_encl") /\ Return(Num(97)) /\ UNCHANGED <<id, data>>
another_entry == In("another_entry") /\ Return(Text("Enclave")) /\ UNCHANGED <<id, data>>
hello_enclave == In("hello_enclave") /\ Return(Nothing) /\ UNCHANGED <<id, data>>
plus(f, n) == In(f) /\ Return(Num(Plus(x, n))) /\ UNCHANGED <<id, data>>
foo_c_fct == In("foo_c_fct") /\ Return(Num(x)) /\ UNCHANGED <<id, data>>
basic_function ==
    /\ In("basic_function")
    /\ Return(Num(IF Signed(x) < 0 THEN 0 ELSE 1)) /\ UNCHANGED <<id, data>>

(* The struct is in the caller's memory.  The second check compares what is *)
(* the same by construction; the function has no return at its end.         *)
sm_loader_load ==
    /\ In("sm_loader_load")
    /\ \E public_start, public_end \in Pointers, junk \in Numbers :
          Return(Num(IF public_end < public_start THEN 0 ELSE junk))
    /\ UNCHANGED <<id, data>>

Settable(n) == Signed(n) > 0
set_number ==
    /\ In("set_number")
    /\ data' = IF Settable(x) THEN x ELSE data
    /\ Return(Text(IF Settable(x) THEN "Number set" ELSE "Number not set"))
    /\ UNCHANGED id

(* sancus_disable: the module is gone, and control at its continuation.     *)
disable_enclave ==
    /\ In("disable_enclave")
    /\ id' = 0 /\ pc' = "exit_success"
    /\ UNCHANGED <<sample, who, step, entry, x, y, data, i, j, a, b, r, read, frames,
                   result, total>>
exit_success ==
    /\ pc = "exit_success"
    /\ Goto(IF id = 0 THEN "exited" ELSE "assert_failed")
    /\ UNCHANGED <<i, j, a, b, r, read, frames>>

-----------------------------------------------------------------------------
(* Buffers.  sancus_is_outside_sm is the runtime's, as linked into main.elf.*)
OutsideRegion(start, end, p, len) ==
    LET last == IF len = 0 THEN p ELSE Minus(Plus(p, len), 1)
    IN  start < end /\ p <= last /\ (end <= p \/ last < start)
sancus_is_outside_sm(p, len) ==
    OutsideRegion(PublicStart, PublicEnd, p, len) /\ OutsideRegion(SecretStart, SecretEnd, p, len)

\* The macro adds the length in bytes to a pointer to int.
sancus_is_outside_sm_vulnerable(p, len) ==
    p \notin Module /\ Minus(Plus(p, Plus(len, len)), 2) \notin Module

Bytes(n) == Plus(n, n)

(* Mutant: the number of elements is taken for the size.                    *)
CheckFixed_Elements == sancus_is_outside_sm(x, y)
(* Mutant: the size is converted to bytes once more.                        *)
CheckFixed_Twice == sancus_is_outside_sm(x, Bytes(Bytes(y)))
CheckFixed == sancus_is_outside_sm(x, Bytes(y))
CheckProgrammingError == sancus_is_outside_sm(x, y)
CheckVulnerable == sancus_is_outside_sm_vulnerable(x, Bytes(y))
Admitted ==
    \/ sample = "t2w_4_fixed" /\ CheckFixed
    \/ sample = "t2w_with_programming_error" /\ CheckProgrammingError
    \/ sample = "t2w_4_vulnerable" /\ CheckVulnerable

\* The word element k of the caller's array is read from.
Element(k) == LET e == Plus(x, Bytes(k)) IN e - (e % 2)

(* Mutant: the counter stands still.                                        *)
Increment_Not(k) == k
Increment(k) == Plus(k, 1)

CopyRefused ==
    /\ In("copy_data_from_buffer") /\ ~Admitted
    /\ Return(Nothing) /\ UNCHANGED <<id, data>>
CopyAdmitted ==
    /\ In("copy_data_from_buffer") /\ Admitted
    /\ Goto("copy") /\ UNCHANGED <<i, j, a, b, r, read, frames>>
Copy ==
    /\ pc = "copy" /\ Signed(i) < Signed(y)
    /\ read' = Element(i) /\ i' = Increment(i)
    /\ Goto("copy") /\ UNCHANGED <<j, a, b, r, frames>>
CopyEnd == pc = "copy" /\ Signed(i) >= Signed(y) /\ Return(Nothing) /\ UNCHANGED <<id, data>>

(* do_loop checks no pointer; its counter is unsigned.  A sum of words of   *)
(* memory may be any word.                                                  *)
Loop ==
    /\ In("do_loop") /\ i < y
    /\ read' = Element(i) /\ i' = Increment(i)
    /\ Goto("body") /\ UNCHANGED <<j, a, b, r, frames>>
LoopEnd ==
    /\ In("do_loop") /\ i >= y
    /\ \E sum \in Numbers : Return(Num(sum))
    /\ UNCHANGED <<id, data>>

-----------------------------------------------------------------------------
(* The recursive fib.  C leaves the order of the two calls open.            *)
Activation(n) == [n |-> n, todo |-> {1, 2}, sum |-> 0]
FibTop == frames[Len(frames)]

FibBegin ==
    /\ In("fib") /\ frames' = <<Activation(x)>>
    /\ Goto("fib") /\ UNCHANGED <<i, j, a, b, r, read>>
(* Mutant: the first call is made with the argument itself.                 *)
FibCall_Same(k) ==
    /\ pc = "fib" /\ Signed(FibTop.n) > 1 /\ k \in FibTop.todo
    /\ frames' = Append([frames EXCEPT ![Len(frames)].todo = @ \ {k}],
                        Activation(Minus(FibTop.n, k - 1)))
    /\ Goto("fib") /\ UNCHANGED <<i, j, a, b, r, read>>
FibCall(k) ==
    /\ pc = "fib" /\ Signed(FibTop.n) > 1 /\ k \in FibTop.todo
    /\ frames' = Append([frames EXCEPT ![Len(frames)].todo = @ \ {k}],
                        Activation(Minus(FibTop.n, k)))
    /\ Goto("fib") /\ UNCHANGED <<i, j, a, b, r, read>>

(* Mutant: the sequence starts with 0.                                      *)
FibValue_Zero ==
    IF Signed(FibTop.n) < 0 THEN WordSize - 1 ELSE IF FibTop.n < 2 THEN FibTop.n ELSE FibTop.sum
FibValue ==
    IF Signed(FibTop.n) < 0 THEN WordSize - 1 ELSE IF FibTop.n < 2 THEN 1 ELSE FibTop.sum
FibComputed == pc = "fib" /\ (Signed(FibTop.n) < 2 \/ FibTop.todo = {})
FibReturn ==
    /\ FibComputed /\ Len(frames) > 1
    /\ LET k == Len(frames) - 1
       IN  frames' = [SubSeq(frames, 1, k) EXCEPT ![k].sum = Plus(@, FibValue)]
    /\ Goto("fib") /\ UNCHANGED <<i, j, a, b, r, read>>
FibEnd == FibComputed /\ Len(frames) = 1 /\ Return(Num(FibValue)) /\ UNCHANGED <<id, data>>

(* The iterative fib of fib2 and the sum over it.                           *)
(* Mutant: the inner loop counts from 1.                                    *)
Fib2Begin_FromOne ==
    /\ In("fibonacci") /\ Signed(i) < Signed(data)
    /\ a' = 0 /\ b' = 1 /\ j' = 1
    /\ Goto("fib2") /\ UNCHANGED <<i, r, read, frames>>
Fib2Begin ==
    /\ In("fibonacci") /\ Signed(i) < Signed(data)
    /\ a' = 0 /\ b' = 1 /\ j' = 2
    /\ Goto("fib2") /\ UNCHANGED <<i, r, read, frames>>
Fib2Loop ==
    /\ pc = "fib2" /\ Signed(j) <= Signed(i)
    /\ a' = b /\ b' = Plus(a, b) /\ j' = Increment(j)
    /\ Goto("fib2") /\ UNCHANGED <<i, r, read, frames>>
Fib2End ==
    /\ pc = "fib2" /\ Signed(j) > Signed(i)
    /\ r' = Plus(r, b) /\ i' = Increment(i)
    /\ Goto("body") /\ UNCHANGED <<j, a, b, read, frames>>
fibonacci ==
    /\ In("fibonacci") /\ Signed(i) >= Signed(data)
    /\ Return(Num(r)) /\ UNCHANGED <<id, data>>

-----------------------------------------------------------------------------
Init ==
    /\ sample \in Samples /\ who \in {"main", "any"}
    /\ step = 0 /\ id = 0 /\ pc = "enable"
    /\ entry = "none" /\ x = 0 /\ y = 0 /\ data = This.data
    /\ i = 0 /\ j = 0 /\ a = 0 /\ b = 0 /\ r = 0 /\ read = NoRead /\ frames = <<>>
    /\ result = Nothing /\ total = 0

Caller == Enable \/ MainCalls \/ MainEnds \/ AnyCalls
Sancus ==
    \/ enter_encl \/ another_entry \/ hello_enclave \/ foo_c_fct \/ basic_function
    \/ plus("plus_one", 1) \/ plus("plus_two", 2) \/ plus("plus_three", 3)
    \/ sm_loader_load \/ set_number \/ disable_enclave \/ exit_success
    \/ CopyRefused \/ CopyAdmitted \/ Copy \/ CopyEnd \/ Loop \/ LoopEnd
    \/ FibBegin \/ (\E k \in {1, 2} : FibCall(k)) \/ FibReturn \/ FibEnd
    \/ Fib2Begin \/ Fib2Loop \/ Fib2End \/ fibonacci

Next == Caller \/ Sancus
Spec == Init /\ [][Next]_vars

\* The processor goes on with the code of the module.
FairSpec == Spec /\ WF_vars(Sancus)

-----------------------------------------------------------------------------
Labels == {"enable", "caller", "body", "copy", "fib", "fib2", "exit_success", "exited",
           "assert_failed"}

(* The types of the state; what is read is an aligned word.                 *)
TypeOK ==
    /\ sample \in Samples /\ who \in {"main", "any"}
    /\ step \in 0 .. Len(This.main) /\ entry \in This.entries \cup {"none"}
    /\ id \in {0, 1} /\ pc \in Labels
    /\ x \in Word /\ y \in Word /\ data \in Word /\ i \in Word /\ j \in Word
    /\ a \in Word /\ b \in Word /\ r \in Word /\ total \in Word
    /\ read = NoRead \/ (read \in Word /\ read % 2 = 0)
    /\ frames \in Seq([n : Word, todo : SUBSET {1, 2}, sum : Word])
    /\ pc = "fib" => frames # <<>>

(* How many elements the check of a sample vouches for: the fixed one for   *)
(* all of them, the one that forgets the size of an int for half of them,   *)
(* the vulnerable one for the first.                                        *)
Vouched(k) ==
    \/ sample = "t2w_4_fixed"
    \/ sample = "t2w_with_programming_error" /\ 2 * k < y
    \/ sample = "t2w_4_vulnerable" /\ k = 0

(* An element the check of copy_data_from_buffer vouches for is read from   *)
(* outside the module, whatever pointer and length the caller passes: also  *)
(* when the buffer wraps around, spans the module, or starts at an odd      *)
(* address.                                                                 *)
ReadsOutside ==
    pc = "copy" /\ read # NoRead /\ Vouched(i - 1) => {read, read + 1} \cap Module = {}

(* The fixed check refuses no buffer it could copy: one that it turns away  *)
(* runs over the end of the memory or has a byte inside the module.         *)
RefusesOnlyInside ==
    [][sample = "t2w_4_fixed" /\ CopyRefused /\ Signed(y) > 0
         => x + 2 * y > WordSize \/ (x .. x + 2 * y - 1) \cap Module # {}]_vars

Fibonacci[n \in Nat] == IF n < 2 THEN 1 ELSE Fibonacci[n - 1] + Fibonacci[n - 2]

(* The calls of the recursive fib return the number it is named for, in     *)
(* whatever order it adds; main returns that of 9.                          *)
Results ==
    /\ pc = "caller" /\ entry = "fib" =>
          result = Num(IF Signed(x) < 0 THEN WordSize - 1 ELSE Fibonacci[x] % WordSize)
    /\ pc = "exited" /\ sample = "fib" => total = 55

(* All activations lie on the private stack of the module, and none checks  *)
(* it: fib(n) never nests deeper than n, although it is called exponentially*)
(* often, and a negative argument makes no call.                            *)
DepthBounded == pc = "fib" => Len(frames) <= IF Signed(x) < 2 THEN 1 ELSE x

(* The sum of the iterative one is 1 + 1 + 1 + 2, however often it is       *)
(* called; and main returns the results of its calls, each one once.        *)
Sums ==
    /\ pc = "caller" /\ entry = "fibonacci" => result = Num(5)
    /\ pc = "exited" /\ sample \in {"fib2", "minimal_3entries"} => total = 5

(* Every call comes back or disables the module.                            *)
CallsEnd == pc \in {"body", "copy", "fib", "fib2"} ~> pc \in {"caller", "exited"}
=============================================================================
