-------------------------- MODULE SancusSamplesProofs --------------------------
(* The sample modules in C, for every word size, every place of the two     *)
(* sections and every set of arguments: their types, what the versions of   *)
(* copy_data_from_buffer read and refuse, what the calls that add up        *)
(* return, and that fib computes the Fibonacci numbers and how deeply its   *)
(* calls nest.                                                              *)
EXTENDS SancusSamples, SequenceTheorems, Induction, TLAPS

-----------------------------------------------------------------------------
(* The table of the samples.                                                *)
LEMMA Entries ==
    ASSUME NEW s \in Samples
    PROVE  /\ "set_number" \in AllSamples[s].entries => s = "comp_gen_test_2"
           /\ AllSamples[s].value =>
                AllSamples[s].entries \subseteq
                    {"fib", "fibonacci", "plus_one", "plus_two", "plus_three"}
           /\ "none" \notin AllSamples[s].entries
           /\ AllSamples[s].data \in {0, 3, 4}
           /\ s = "fib2" => AllSamples[s].data = 4
<1>1. s \in DOMAIN AllSamples
  BY SamplesAssumption DEF SamplesAssumption
<1>2. "set_number" \in AllSamples[s].entries => s = "comp_gen_test_2"
  BY <1>1, SMTT(60) DEF AllSamples, Sample, comp_gen_test_1, comp_gen_test_2, fib, fib2, hello,
     minimal, minimal_3entries, minimal_v1_0_0, SimpleEncl, simple_encl_v1_0_0,
     simple_encl_v2_0_0, simple_encl_v2_1_0, CopyFromBuffer, t2w_with_programming_error,
     t2w_4_vulnerable, t2w_4_fixed, EnterEncl, t2w_1_improper, t2w_1_fixed,
     t2w_3_soteria_loader
<1>3. AllSamples[s].value =>
        AllSamples[s].entries \in
            {{"fib"}, {"fibonacci"}, {"plus_one"}, {"plus_one", "plus_two", "plus_three"}}
  BY <1>1, SMTT(60) DEF AllSamples, Sample, comp_gen_test_1, comp_gen_test_2, fib, fib2, hello,
     minimal, minimal_3entries, minimal_v1_0_0, SimpleEncl, simple_encl_v1_0_0,
     simple_encl_v2_0_0, simple_encl_v2_1_0, CopyFromBuffer, t2w_with_programming_error,
     t2w_4_vulnerable, t2w_4_fixed, EnterEncl, t2w_1_improper, t2w_1_fixed,
     t2w_3_soteria_loader
<1>4. "none" \notin AllSamples[s].entries
  BY <1>1, SMTT(60) DEF AllSamples, Sample, comp_gen_test_1, comp_gen_test_2, fib, fib2, hello,
     minimal, minimal_3entries, minimal_v1_0_0, SimpleEncl, simple_encl_v1_0_0,
     simple_encl_v2_0_0, simple_encl_v2_1_0, CopyFromBuffer, t2w_with_programming_error,
     t2w_4_vulnerable, t2w_4_fixed, EnterEncl, t2w_1_improper, t2w_1_fixed,
     t2w_3_soteria_loader
<1>5. /\ AllSamples[s].data \in {0, 3, 4}
      /\ s = "fib2" => AllSamples[s].data = 4
  BY <1>1, SMTT(60) DEF AllSamples, Sample, comp_gen_test_1, comp_gen_test_2, fib, fib2, hello,
     minimal, minimal_3entries, minimal_v1_0_0, SimpleEncl, simple_encl_v1_0_0,
     simple_encl_v2_0_0, simple_encl_v2_1_0, CopyFromBuffer, t2w_with_programming_error,
     t2w_4_vulnerable, t2w_4_fixed, EnterEncl, t2w_1_improper, t2w_1_fixed,
     t2w_3_soteria_loader
<1> QED
  BY <1>2, <1>3, <1>4, <1>5

LEMMA Mains ==
    ASSUME NEW s \in Samples
    PROVE  /\ Len(AllSamples[s].main) \in Nat
           /\ \A k \in 1 .. Len(AllSamples[s].main) :
                /\ AllSamples[s].main[k][1] \in AllSamples[s].entries
                /\ AllSamples[s].main[k][2] \in Word
                /\ AllSamples[s].main[k][3] \in Word
<1>1. s \in DOMAIN AllSamples /\ WordSize \in Nat /\ WordSize > 1280
  BY SamplesAssumption DEF SamplesAssumption
<1> QED
  BY <1>1, SMTT(60) DEF AllSamples, Sample, comp_gen_test_1, comp_gen_test_2, fib, fib2, hello,
     minimal, minimal_3entries, minimal_v1_0_0, SimpleEncl, simple_encl_v1_0_0,
     simple_encl_v2_0_0, simple_encl_v2_1_0, CopyFromBuffer, t2w_with_programming_error,
     t2w_4_vulnerable, t2w_4_fixed, EnterEncl, t2w_1_improper, t2w_1_fixed,
     t2w_3_soteria_loader, Call, Word

LEMMA Arithmetic ==
    ASSUME NEW v \in Word, NEW w \in Word
    PROVE  Plus(v, w) \in Word /\ Minus(v, w) \in Word
  BY SamplesAssumption DEF SamplesAssumption, Word, Plus, Minus

LEMMA Elements ==
    ASSUME x \in Word, NEW k \in Word
    PROVE  /\ Element(k) \in Word /\ Element(k) % 2 = 0
           /\ Element(k) # NoRead
<1>1. Plus(x, Plus(k, k)) \in Word
  BY Arithmetic
<1> QED
  BY <1>1, SamplesAssumption DEF SamplesAssumption, Element, Bytes, Word, NoRead

LEMMA Arguments ==
    ASSUME NEW f, NEW c \in Given(f)
    PROVE  c[1] \in Word /\ c[2] \in Word
<1>1. 0 \in Word
  BY SamplesAssumption DEF SamplesAssumption, Word
<1> QED
  BY <1>1, SamplesAssumption DEF SamplesAssumption, Given

-----------------------------------------------------------------------------
(* The invariant: an entry point begins with nothing read, and inside the   *)
(* loop of copy_data_from_buffer the check has let the call through, the    *)
(* counter is at most the length, which is not negative, and what was read  *)
(* last is the element before the counter.                                  *)
Started ==
    pc \in {"enable", "caller"} \/ (pc = "body" /\ entry = "copy_data_from_buffer")
        => i = 0 /\ read = NoRead

Copying ==
    pc = "copy" =>
        /\ entry = "copy_data_from_buffer" /\ Admitted
        /\ i = 0 => read = NoRead
        /\ i > 0 => 2 * y < WordSize /\ i <= y /\ read = Element(i - 1)

InFib2 == pc = "fib2" => entry = "fibonacci"

IInv == TypeOK /\ Started /\ Copying /\ InFib2

LEMMA InitHolds == Init => IInv
<1> SUFFICES ASSUME Init PROVE IInv
  OBVIOUS
<1>1. This.data \in Word /\ Len(This.main) \in Nat /\ 0 \in Word
  <2>1. sample \in Samples
    BY Zenon DEF Init
  <2>2. AllSamples[sample].data \in {0, 3, 4}
    BY <2>1, Entries, Zenon
  <2>3. Len(AllSamples[sample].main) \in Nat
    BY <2>1, Mains, Zenon
  <2>4. {0, 3, 4} \subseteq Word
    BY SamplesAssumption, SMT DEF SamplesAssumption, Word
  <2> QED
    BY <2>2, <2>3, <2>4, Zenon DEF This
<1>2. <<>> \in Seq([n : Word, todo : SUBSET {1, 2}, sum : Word])
  BY EmptySeq
<1> QED
  BY <1>1, <1>2 DEF Init, IInv, TypeOK, Started, Copying, InFib2, Labels, NoRead

(* Return leaves the state as an entry point expects it, if the call leaves *)
(* words behind.                                                            *)
LEMMA ReturnKeeps ==
    ASSUME IInv, NEW v, Return(v), id' \in {0, 1}, data' \in Word,
           This.value => v[2] \in Word
    PROVE  IInv'
<1>1. This' = This
  BY DEF Return, This
<1>2. 0 \in Word
  BY SamplesAssumption DEF SamplesAssumption, Word
<1>3. total' \in Word
  BY Arithmetic DEF Return, IInv, TypeOK
<1>4. frames' \in Seq([n : Word, todo : SUBSET {1, 2}, sum : Word])
  BY EmptySeq DEF Return
<1> QED
  BY <1>1, <1>2, <1>3, <1>4
     DEF Return, IInv, TypeOK, Started, Copying, InFib2, Labels, NoRead

(* What the entry points of a sample whose main adds up the results return  *)
(* are numbers.                                                             *)
LEMMA NumberedEntries ==
    ASSUME IInv, entry \in {"enter_encl", "another_entry", "hello_enclave", "foo_c_fct",
              "basic_function", "sm_loader_load", "set_number", "copy_data_from_buffer",
              "do_loop"}
    PROVE  ~This.value
<1>1. sample \in Samples /\ entry \in This.entries
  BY DEF IInv, TypeOK
<1> QED
  BY <1>1, Entries DEF This

-----------------------------------------------------------------------------
(* Every step of the caller.                                                *)
LEMMA CallerKeeps ==
    ASSUME IInv, Caller
    PROVE  IInv'
<1>0. sample \in Samples /\ This' = This /\ sample' = sample
  BY DEF IInv, TypeOK, Caller, Enable, MainCalls, MainEnds, AnyCalls, Enter, Goto, This
<1>1. CASE Enable
  BY <1>0, <1>1 DEF Enable, IInv, TypeOK, Started, Copying, InFib2, Labels
<1>2. CASE MainCalls
  <2> DEFINE c == This.main[step + 1]
  <2>1. Len(This.main) \in Nat /\ step + 1 \in 1 .. Len(This.main)
    BY <1>0, <1>2, Mains DEF IInv, TypeOK, MainCalls, This
  <2>2. c[1] \in This.entries /\ c[2] \in Word /\ c[3] \in Word
    BY <1>0, <2>1, Mains DEF This
  <2>3. Enter(c[1], c[2], c[3]) /\ step' = step + 1
    BY <1>2 DEF MainCalls
  <2> HIDE DEF c
  <2> QED
    BY <1>0, <2>1, <2>2, <2>3 DEF Enter, IInv, TypeOK, Started, Copying, InFib2, Labels
<1>3. CASE MainEnds
  BY <1>0, <1>3 DEF MainEnds, Goto, IInv, TypeOK, Started, Copying, InFib2, Labels
<1>4. CASE AnyCalls
  <2>0. PICK f \in This.entries : \E c \in Given(f) : Enter(f, c[1], c[2])
    BY <1>4 DEF AnyCalls
  <2>1. PICK c \in Given(f) : Enter(f, c[1], c[2])
    BY <2>0
  <2>2. c[1] \in Word /\ c[2] \in Word
    BY Arguments
  <2> QED
    BY <1>0, <1>4, <2>1, <2>2
       DEF AnyCalls, Enter, IInv, TypeOK, Started, Copying, InFib2, Labels
<1> QED
  BY <1>1, <1>2, <1>3, <1>4 DEF Caller

-----------------------------------------------------------------------------
(* The entry points, one step each.                                         *)
LEMMA Goes ==
    ASSUME IInv, NEW l, Goto(l)
    PROVE  /\ This' = This
           /\ sample' \in Samples /\ who' \in {"main", "any"} /\ step' \in 0 .. Len(This.main)
           /\ entry' \in This.entries \cup {"none"} /\ id' \in {0, 1}
           /\ x' \in Word /\ y' \in Word /\ data' \in Word /\ total' \in Word
  BY DEF Goto, IInv, TypeOK, This

LEMMA SimpleKeeps ==
    ASSUME IInv,
           \/ enter_encl \/ another_entry \/ hello_enclave \/ foo_c_fct \/ basic_function
           \/ sm_loader_load \/ set_number
    PROVE  IInv'
<1>1. /\ ~This.value
      /\ id' \in {0, 1}
  BY NumberedEntries DEF enter_encl, another_entry, hello_enclave, foo_c_fct, basic_function,
     sm_loader_load, set_number, In, IInv, TypeOK
<1>2. data' \in Word
  BY DEF enter_encl, another_entry, hello_enclave, foo_c_fct, basic_function,
     sm_loader_load, set_number, IInv, TypeOK
<1>3. PICK v : Return(v)
  BY Zenon DEF enter_encl, another_entry, hello_enclave, foo_c_fct, basic_function,
     sm_loader_load, set_number
<1> QED
  BY <1>1, <1>2, <1>3, ReturnKeeps

LEMMA PlusKeeps ==
    ASSUME IInv, NEW f, NEW n \in Word, plus(f, n)
    PROVE  IInv'
<1>1. Num(Plus(x, n))[2] \in Word
  BY Arithmetic DEF Num, IInv, TypeOK
<1> QED
  BY <1>1, ReturnKeeps DEF plus, IInv, TypeOK

LEMMA DisableKeeps ==
    ASSUME IInv, disable_enclave \/ exit_success
    PROVE  IInv'
<1>1. This' = This
  BY DEF disable_enclave, exit_success, Goto, This
<1> QED
  BY <1>1 DEF disable_enclave, exit_success, Goto, IInv, TypeOK, Started, Copying, InFib2,
     Labels

LEMMA CopyKeeps ==
    ASSUME IInv, CopyRefused \/ CopyAdmitted \/ Copy \/ CopyEnd
    PROVE  IInv'
<1>0. x \in Word /\ y \in Word /\ i \in Word /\ WordSize \in Nat /\ WordSize > 1280
  BY SamplesAssumption DEF SamplesAssumption, IInv, TypeOK
<1>1. ~This.value
  BY NumberedEntries DEF CopyRefused, CopyAdmitted, Copy, CopyEnd, In, IInv, Copying
<1>2. CASE CopyRefused \/ CopyEnd
  BY <1>1, <1>2, ReturnKeeps DEF CopyRefused, CopyEnd, IInv, TypeOK
<1>3. CASE CopyAdmitted
  <2>1. Admitted'
    BY <1>3 DEF CopyAdmitted, Goto, Admitted, CheckFixed, CheckProgrammingError,
       CheckVulnerable, sancus_is_outside_sm, sancus_is_outside_sm_vulnerable, OutsideRegion,
       Module, Bytes
  <2>2. i' = 0 /\ read' = NoRead /\ entry' = "copy_data_from_buffer" /\ pc' = "copy"
    BY <1>3 DEF CopyAdmitted, In, Goto, IInv, Started
  <2> QED
    BY <1>3, <2>1, <2>2, Goes DEF CopyAdmitted, IInv, TypeOK, Started, Copying, InFib2, Labels
<1>4. CASE Copy
  <2>1. Admitted'
    BY <1>4 DEF Copy, Goto, IInv, Copying, Admitted, CheckFixed, CheckProgrammingError,
       CheckVulnerable, sancus_is_outside_sm, sancus_is_outside_sm_vulnerable, OutsideRegion,
       Module, Bytes
  <2>2. 2 * y < WordSize /\ i < y /\ i' = i + 1 /\ i' \in Word
    BY <1>0, <1>4 DEF Copy, IInv, Copying, Signed, Increment, Plus, Word
  <2>3. read' = Element(i) /\ read' \in Word /\ read' % 2 = 0
    BY <1>0, <1>4, <2>2, Elements DEF Copy
  <2>4. Element(i) = Element(i - 1)'
    <3>1. i' - 1 = i /\ x' = x
      BY <1>0, <1>4, <2>2 DEF Copy, Goto, Word
    <3> QED
      BY <3>1, Zenon DEF Element
  <2>5. entry' = "copy_data_from_buffer" /\ pc' = "copy" /\ y' = y
    BY <1>4 DEF Copy, Goto, IInv, Copying
  <2> QED
    BY <1>0, <1>4, <2>1, <2>2, <2>3, <2>4, <2>5, Goes
       DEF Copy, IInv, TypeOK, Started, Copying, InFib2, Labels, Word
<1> QED
  BY <1>2, <1>3, <1>4

LEMMA LoopKeeps ==
    ASSUME IInv, Loop \/ LoopEnd
    PROVE  IInv'
<1>0. x \in Word /\ i \in Word /\ entry = "do_loop" /\ pc = "body"
  BY DEF IInv, TypeOK, Loop, LoopEnd, In
<1>1. CASE Loop
  <2>1. i' \in Word /\ 1 \in Word
    BY <1>0, <1>1, Arithmetic, SamplesAssumption
       DEF SamplesAssumption, Loop, Increment, Word, Plus
  <2>2. read' \in Word /\ read' % 2 = 0
    BY <1>0, <1>1, Elements DEF Loop
  <2>3. entry' = "do_loop" /\ pc' = "body"
    BY <1>0, <1>1 DEF Loop, Goto
  <2> QED
    BY <1>1, <2>1, <2>2, <2>3, Goes DEF Loop, IInv, TypeOK, Started, Copying, InFib2, Labels
<1>2. CASE LoopEnd
  <2>1. PICK sum \in Numbers : Return(Num(sum))
    BY <1>2 DEF LoopEnd
  <2> QED
    BY <1>0, <1>2, <2>1, NumberedEntries, ReturnKeeps DEF LoopEnd, IInv, TypeOK
<1> QED
  BY <1>1, <1>2

-----------------------------------------------------------------------------
(* The recursive fib keeps a stack of activations.                          *)
Activations == [n : Word, todo : SUBSET {1, 2}, sum : Word]

LEMMA Top ==
    ASSUME IInv, pc = "fib"
    PROVE  /\ Len(frames) \in 1 .. Len(frames) /\ Len(frames) \in Nat
           /\ FibTop \in Activations
<1>1. frames \in Seq(Activations) /\ frames # <<>>
  BY DEF IInv, TypeOK, Activations
<1>2. Len(frames) \in Nat /\ Len(frames) \in 1 .. Len(frames)
  BY <1>1
<1> QED
  BY <1>1, <1>2 DEF FibTop

LEMMA Words == {0, 1, 2} \subseteq Word
  BY SamplesAssumption DEF SamplesAssumption, Word

LEMMA FibValues ==
    ASSUME IInv, pc = "fib"
    PROVE  FibValue \in Word
<1>1. FibTop.n \in Word /\ FibTop.sum \in Word /\ WordSize - 1 \in Word
  BY Top, SamplesAssumption DEF SamplesAssumption, Activations, Word
<1> QED
  BY <1>1, Words DEF FibValue

LEMMA FibKeeps ==
    ASSUME IInv, FibBegin \/ (\E k \in {1, 2} : FibCall(k)) \/ FibReturn \/ FibEnd
    PROVE  IInv'
<1>0. x \in Word /\ frames \in Seq(Activations)
  BY DEF IInv, TypeOK, Activations
<1>1. CASE FibBegin
  <2>1. frames' = <<Activation(x)>> /\ Activation(x) \in Activations
    BY <1>0, <1>1, Words DEF FibBegin, Activation, Activations
  <2>2. frames' \in Seq(Activations) /\ frames' # <<>>
    BY <2>1
  <2> QED
    BY <1>1, <2>2, Goes
       DEF FibBegin, Goto, IInv, TypeOK, Started, Copying, InFib2, Labels, Activations
<1>2. CASE \E k \in {1, 2} : FibCall(k)
  <2>1. PICK k \in {1, 2} : FibCall(k)
    BY <1>2
  <2> DEFINE f == [frames EXCEPT ![Len(frames)].todo = @ \ {k}]
             g == Activation(Minus(FibTop.n, k))
  <2>2. pc = "fib" /\ frames' = Append(f, g)
    BY <2>1 DEF FibCall
  <2>3. g \in Activations
    BY <2>2, Top, Words, Arithmetic DEF Activation, Activations
  <2>4. f \in Seq(Activations)
    BY <1>0, <2>2, Top DEF Activations, FibTop
  <2> HIDE DEF f, g
  <2>5. frames' \in Seq(Activations) /\ frames' # <<>>
    BY <2>2, <2>3, <2>4
  <2> QED
    BY <2>1, <2>5, Goes
       DEF FibCall, Goto, IInv, TypeOK, Started, Copying, InFib2, Labels, Activations
<1>3. CASE FibReturn
  <2> DEFINE k == Len(frames) - 1
             f == SubSeq(frames, 1, k)
  <2>1. pc = "fib" /\ k \in Nat /\ k > 0 /\ k < Len(frames)
    BY <1>0, <1>3 DEF FibReturn, FibComputed
  <2>2. f \in Seq(Activations) /\ Len(f) = k
    BY <1>0, <2>1
  <2>3. FibValue \in Word
    BY <2>1, Top, FibValues
  <2> DEFINE g == [f[k] EXCEPT !.sum = Plus(f[k].sum, FibValue)]
  <2>4. frames' = [f EXCEPT ![k].sum = Plus(@, FibValue)]
    BY <1>3 DEF FibReturn
  <2> HIDE DEF f, k
  <2>5. f[k] \in Activations /\ Plus(f[k].sum, FibValue) \in Word
    <3>1. f[k] \in Activations
      BY <2>1, <2>2
    <3> QED
      BY <2>3, <3>1, Arithmetic DEF Activations
  <2>6. g \in Activations
    BY <2>5 DEF Activations
  <2>7. frames' = [f EXCEPT ![k] = g]
    BY <2>1, <2>2, <2>4
  <2> HIDE DEF g
  <2>8. frames' \in Seq(Activations) /\ frames' # <<>>
    BY <2>1, <2>2, <2>6, <2>7
  <2> QED
    BY <1>3, <2>1, <2>8, Goes
       DEF FibReturn, Goto, IInv, TypeOK, Started, Copying, InFib2, Labels, Activations
<1>4. CASE FibEnd
  <2>1. FibValue \in Word /\ Num(FibValue)[2] = FibValue
    BY <1>4, FibValues DEF FibEnd, FibComputed, Num
  <2> QED
    BY <1>4, <2>1, ReturnKeeps DEF FibEnd, IInv, TypeOK
<1> QED
  BY <1>1, <1>2, <1>3, <1>4

LEMMA Fib2Keeps ==
    ASSUME IInv, Fib2Begin \/ Fib2Loop \/ Fib2End \/ fibonacci
    PROVE  IInv'
<1>0. /\ i \in Word /\ j \in Word /\ a \in Word /\ b \in Word /\ r \in Word /\ data \in Word
      /\ entry = "fibonacci"
  BY DEF IInv, TypeOK, InFib2, Fib2Begin, Fib2Loop, Fib2End, fibonacci, In
<1>1. /\ Plus(a, b) \in Word /\ Plus(r, b) \in Word
      /\ Increment(i) \in Word /\ Increment(j) \in Word
  BY <1>0, Words, Arithmetic DEF Increment
<1>2. CASE Fib2Begin \/ Fib2Loop \/ Fib2End
  BY <1>0, <1>1, <1>2, Words, Goes
     DEF Fib2Begin, Fib2Loop, Fib2End, Goto, IInv, TypeOK, Started, Copying, InFib2, Labels
<1>3. CASE fibonacci
  BY <1>0, <1>3, ReturnKeeps DEF fibonacci, Num, IInv, TypeOK
<1> QED
  BY <1>2, <1>3

-----------------------------------------------------------------------------
LEMMA StepKeeps == IInv /\ [Next]_vars => IInv'
<1> SUFFICES ASSUME IInv, [Next]_vars PROVE IInv'
  OBVIOUS
<1>1. CASE Caller
  BY <1>1, CallerKeeps
<1>2. CASE Sancus
  <2>1. CASE plus("plus_one", 1) \/ plus("plus_two", 2) \/ plus("plus_three", 3)
    <3>1. {1, 2, 3} \subseteq Word
      BY SamplesAssumption DEF SamplesAssumption, Word
    <3> QED
      BY <2>1, <3>1, PlusKeeps
  <2> QED
    BY <1>2, <2>1, SimpleKeeps, DisableKeeps, CopyKeeps, LoopKeeps, FibKeeps, Fib2Keeps
       DEF Sancus
<1>3. CASE UNCHANGED vars
  BY <1>3 DEF vars, IInv, TypeOK, Started, Copying, InFib2, This, Admitted, CheckFixed,
     CheckProgrammingError, CheckVulnerable, sancus_is_outside_sm,
     sancus_is_outside_sm_vulnerable, OutsideRegion, Module, Bytes, Element
<1> QED
  BY <1>1, <1>2, <1>3 DEF Next

(* The types of the sample modules' state hold in every reachable state,    *)
(* whoever calls: every number stays a word, what is read is an aligned     *)
(* word, and an entry point is one of the module that runs.                 *)
THEOREM TypeCorrect == Spec => []TypeOK
<1>1. IInv => TypeOK
  BY DEF IInv
<1> QED
  BY <1>1, InitHolds, StepKeeps, PTL DEF Spec

-----------------------------------------------------------------------------
(* What the three checks promise.                                           *)
LEMMA Borders ==
    /\ PublicStart \in Nat /\ PublicEnd \in Nat /\ SecretStart \in Nat /\ SecretEnd \in Nat
    /\ PublicStart % 2 = 0 /\ PublicEnd % 2 = 0 /\ SecretStart % 2 = 0 /\ SecretEnd % 2 = 0
    /\ WordSize \in Nat /\ WordSize > 1280
  BY SamplesAssumption DEF SamplesAssumption, Word

(* An even border of a section that an address is beyond, the aligned word  *)
(* it lies in is beyond, too.                                               *)
LEMMA AlignedBelow ==
    ASSUME NEW e \in Nat, NEW s \in Nat, s % 2 = 0, e < s
    PROVE  (e - (e % 2)) + 1 < s
  OBVIOUS

LEMMA AlignedAbove ==
    ASSUME NEW e \in Nat, NEW s \in Nat, s % 2 = 0, s <= e
    PROVE  s <= e - (e % 2)
  OBVIOUS

LEMMA AlignedOutside ==
    ASSUME NEW e \in Nat, NEW s \in Nat, NEW t \in Nat, s % 2 = 0, t % 2 = 0,
           e < s \/ t <= e
    PROVE  {e - (e % 2), (e - (e % 2)) + 1} \cap (s .. t - 1) = {}
  BY AlignedBelow, AlignedAbove

(* A range of bytes that OutsideRegion accepts does not wrap around, and    *)
(* each of its bytes is outside.                                            *)
LEMMA RangeOutside ==
    ASSUME NEW s \in Nat, NEW t \in Nat, NEW p \in Word, NEW len \in Word,
           0 < len, OutsideRegion(s, t, p, len),
           NEW k \in Nat, k < len
    PROVE  /\ p + len <= WordSize
           /\ p + k < s \/ t <= p + k
  BY Borders DEF OutsideRegion, Plus, Minus, Word

LEMMA CheckedOutside ==
    ASSUME NEW p \in Word, NEW len \in Word, 0 < len, sancus_is_outside_sm(p, len),
           NEW k \in Nat, k < len
    PROVE  /\ p + len <= WordSize
           /\ {(p + k) - ((p + k) % 2), ((p + k) - ((p + k) % 2)) + 1} \cap Module = {}
<1>1. /\ p + len <= WordSize /\ p + k \in Nat
      /\ p + k < PublicStart \/ PublicEnd <= p + k
      /\ p + k < SecretStart \/ SecretEnd <= p + k
  <2>1. /\ OutsideRegion(PublicStart, PublicEnd, p, len)
        /\ OutsideRegion(SecretStart, SecretEnd, p, len)
    BY Zenon DEF sancus_is_outside_sm
  <2>2. p + len <= WordSize /\ (p + k < PublicStart \/ PublicEnd <= p + k)
    BY <2>1, RangeOutside, Borders
  <2>3. p + k < SecretStart \/ SecretEnd <= p + k
    BY <2>1, RangeOutside, Borders
  <2> QED
    BY <2>2, <2>3, Borders DEF Word
<1> DEFINE e == p + k
<1>2. {e - (e % 2), (e - (e % 2)) + 1} \cap (PublicStart .. PublicEnd - 1) = {}
  BY <1>1, AlignedOutside, Borders
<1>3. {e - (e % 2), (e - (e % 2)) + 1} \cap (SecretStart .. SecretEnd - 1) = {}
  BY <1>1, AlignedOutside, Borders
<1> QED
  BY <1>1, <1>2, <1>3 DEF Module

(* Whatever pointer and length the caller of copy_data_from_buffer passes,  *)
(* what the loop reads of the elements its sample's check vouches for is    *)
(* outside the module: all of them in the fixed version, the first half and *)
(* the first one in the other two.                                          *)
LEMMA VouchedOutside == IInv => ReadsOutside
<1> SUFFICES ASSUME IInv, pc = "copy", read # NoRead, Vouched(i - 1)
             PROVE  {read, read + 1} \cap Module = {}
  BY DEF ReadsOutside
<1> DEFINE k == i - 1
<1>1. /\ x \in Word /\ y \in Word /\ Admitted
      /\ k \in Nat /\ k < y /\ 2 * y < WordSize /\ read = Element(k)
  BY DEF IInv, TypeOK, Copying, Word
<1> HIDE DEF k
<1>2. CASE sample = "t2w_4_fixed"
  <2>1. Bytes(y) = 2 * y /\ Bytes(y) \in Word /\ Bytes(k) = 2 * k
    BY <1>1, Borders DEF Bytes, Plus, Word
  <2>2. sancus_is_outside_sm(x, Bytes(y))
    BY <1>1, <1>2 DEF Admitted, CheckFixed
  <2> DEFINE m == 2 * k
  <2>3. m \in Nat /\ 0 < Bytes(y) /\ m < Bytes(y)
    BY <1>1, <2>1, Borders DEF Word
  <2> HIDE DEF m
  <2>4. /\ x + Bytes(y) <= WordSize
        /\ {(x + m) - ((x + m) % 2), ((x + m) - ((x + m) % 2)) + 1} \cap Module = {}
    BY <1>1, <2>1, <2>2, <2>3, CheckedOutside
  <2>5. /\ x + 2 * y <= WordSize
        /\ {(x + 2 * k) - ((x + 2 * k) % 2), ((x + 2 * k) - ((x + 2 * k) % 2)) + 1}
             \cap Module = {}
    BY <2>1, <2>4 DEF m
  <2>6. Plus(x, Bytes(k)) = x + 2 * k
    BY <1>1, <2>1, <2>5, Borders DEF Plus, Word
  <2> QED
    BY <1>1, <2>5, <2>6 DEF Element
<1>3. CASE sample = "t2w_with_programming_error"
  <2>1. Bytes(k) = 2 * k /\ 2 * k < y
    BY <1>1, <1>3, Borders DEF Bytes, Plus, Word, Vouched, k
  <2>2. sancus_is_outside_sm(x, y)
    BY <1>1, <1>3 DEF Admitted, CheckProgrammingError
  <2> DEFINE m == 2 * k
  <2>3. m \in Nat /\ 0 < y /\ m < y
    BY <1>1, <2>1, Borders DEF Word
  <2> HIDE DEF m
  <2>4. /\ x + y <= WordSize
        /\ {(x + m) - ((x + m) % 2), ((x + m) - ((x + m) % 2)) + 1} \cap Module = {}
    BY <1>1, <2>1, <2>2, <2>3, CheckedOutside
  <2>5. /\ x + y <= WordSize
        /\ {(x + 2 * k) - ((x + 2 * k) % 2), ((x + 2 * k) - ((x + 2 * k) % 2)) + 1}
             \cap Module = {}
    BY <2>1, <2>4 DEF m
  <2>6. Plus(x, Bytes(k)) = x + 2 * k
    BY <1>1, <2>1, <2>5, Borders DEF Plus, Word
  <2> QED
    BY <1>1, <2>5, <2>6 DEF Element
<1>4. CASE sample = "t2w_4_vulnerable"
  <2>1. k = 0 /\ x \notin Module
    BY <1>1, <1>4
       DEF Vouched, k, Admitted, CheckVulnerable, sancus_is_outside_sm_vulnerable
  <2>2. Element(k) = x - (x % 2) /\ x \in Nat
    BY <1>1, <2>1, Borders DEF Element, Bytes, Plus, Word
  <2>3. /\ x < PublicStart \/ PublicEnd <= x
        /\ x < SecretStart \/ SecretEnd <= x
    BY <2>1, <2>2, Borders DEF Module
  <2>4. {x - (x % 2), (x - (x % 2)) + 1} \cap (PublicStart .. PublicEnd - 1) = {}
    BY <2>2, <2>3, AlignedOutside, Borders
  <2>5. {x - (x % 2), (x - (x % 2)) + 1} \cap (SecretStart .. SecretEnd - 1) = {}
    BY <2>2, <2>3, AlignedOutside, Borders
  <2> QED
    BY <1>1, <2>2, <2>4, <2>5 DEF Module
<1> QED
  BY <1>2, <1>3, <1>4 DEF Vouched

(* In every reachable state, for every word size and every place of the     *)
(* sections: the check of t2w_4_fixed keeps the whole copy out of the       *)
(* module, also where pointer and length wrap around, span the module or    *)
(* are odd; the other two keep what they vouch for.                         *)
THEOREM CopiesFromOutside == Spec => []ReadsOutside
  BY VouchedOutside, InitHolds, StepKeeps, PTL DEF Spec

(* A range of bytes that OutsideRegion does not accept wraps around or has  *)
(* a byte inside.                                                           *)
LEMMA RangeRefused ==
    ASSUME NEW s \in Nat, NEW t \in Nat, s < t, NEW p \in Word, NEW len \in Word,
           0 < len, p + len <= WordSize, ~OutsideRegion(s, t, p, len)
    PROVE  \E e \in p .. p + len - 1 : e \in s .. t - 1
<1>1. (IF len = 0 THEN p ELSE Minus(Plus(p, len), 1)) = p + len - 1
  BY Borders DEF Plus, Minus, Word
<1>2. p \in Nat /\ len \in Nat /\ p < t /\ s <= p + len - 1
  BY <1>1, Borders DEF OutsideRegion, Word
<1>3. CASE s <= p
  <2>1. p \in p .. p + len - 1 /\ p \in s .. t - 1
    BY <1>2, <1>3
  <2> QED
    BY <2>1
<1>4. CASE p < s
  <2>1. s \in p .. p + len - 1 /\ s \in s .. t - 1
    BY <1>2, <1>4
  <2> QED
    BY <2>1
<1> QED
  BY <1>2, <1>3, <1>4

LEMMA RefusedInside ==
    ASSUME IInv, sample = "t2w_4_fixed", CopyRefused, Signed(y) > 0,
           ~(x + 2 * y > WordSize)
    PROVE  (x .. x + 2 * y - 1) \cap Module # {}
<1>1. /\ x \in Word /\ y \in Word /\ 0 < y /\ 2 * y < WordSize
      /\ WordSize \in Nat
  BY Borders DEF IInv, TypeOK, Signed, Word
<1>2. Bytes(y) = 2 * y /\ Bytes(y) \in Word /\ 0 < Bytes(y)
  BY <1>1 DEF Bytes, Plus, Word
<1>3. x + Bytes(y) <= WordSize
  BY <1>1, <1>2 DEF Word
<1>4. \/ ~OutsideRegion(PublicStart, PublicEnd, x, Bytes(y))
      \/ ~OutsideRegion(SecretStart, SecretEnd, x, Bytes(y))
  BY DEF CopyRefused, Admitted, CheckFixed, sancus_is_outside_sm
<1>5. PublicStart < PublicEnd /\ SecretStart < SecretEnd
  BY SamplesAssumption DEF SamplesAssumption
<1>6. \E e \in x .. x + Bytes(y) - 1 :
         e \in PublicStart .. PublicEnd - 1 \/ e \in SecretStart .. SecretEnd - 1
  BY <1>1, <1>2, <1>3, <1>4, <1>5, RangeRefused, Borders
<1>7. PICK e \in x .. x + Bytes(y) - 1 : e \in Module
  BY <1>6 DEF Module
<1> QED
  BY <1>2, <1>7

(* For every word size and every place of the sections, a buffer that       *)
(* t2w_4_fixed refuses could not be copied: it does not fit into the memory *)
(* or has a byte in the module.                                             *)
THEOREM NothingElseRefused == Spec => RefusesOnlyInside
<1>1. IInv /\ [Next]_vars
        => [sample = "t2w_4_fixed" /\ CopyRefused /\ Signed(y) > 0
              => x + 2 * y > WordSize \/ (x .. x + 2 * y - 1) \cap Module # {}]_vars
  BY RefusedInside
<1> QED
  BY <1>1, InitHolds, StepKeeps, PTL DEF Spec, RefusesOnlyInside

-----------------------------------------------------------------------------
(* fib_number, the bound of the outer loop of fibonacci.                    *)
FourRounds == sample = "fib2" => data = 4

LEMMA InitRounds == Init => FourRounds
  BY Entries DEF Init, FourRounds, This

LEMMA StepRounds == IInv /\ FourRounds /\ [Next]_vars => FourRounds'
<1> SUFFICES ASSUME IInv, FourRounds, [Next]_vars PROVE FourRounds'
  OBVIOUS
<1>1. CASE set_number
  <2>1. sample = "comp_gen_test_2" /\ sample' = sample
    BY <1>1, Entries DEF set_number, In, Return, IInv, TypeOK, This
  <2> QED
    BY <2>1 DEF FourRounds
<1>2. CASE UNCHANGED <<sample, data>>
  BY <1>2 DEF FourRounds
<1>3. set_number \/ UNCHANGED <<sample, data>>
  BY DEF Next, vars, Caller, Sancus, Enable, MainCalls, MainEnds, AnyCalls, Enter, Goto, Return,
     enter_encl, another_entry, hello_enclave, foo_c_fct, basic_function, plus, sm_loader_load,
     disable_enclave, exit_success, CopyRefused, CopyAdmitted, Copy, CopyEnd, Loop, LoopEnd,
     FibBegin, FibCall, FibReturn, FibEnd, Fib2Begin, Fib2Loop, Fib2End, fibonacci
<1> QED
  BY <1>1, <1>2, <1>3

-----------------------------------------------------------------------------
(* The sums.  Where control can be depends on the entry point.              *)
Places ==
    /\ pc = "fib" => entry = "fib"
    /\ pc = "exit_success" => entry = "disable_enclave" /\ id = 0
    /\ pc = "exited" => who = "main" \/ entry = "disable_enclave"
    /\ pc # "assert_failed"
    /\ pc = "body" => entry # "none"
    /\ pc = "enable" => entry = "none" /\ step = 0

(* fibonacci: i rounds are done, and the inner loop is in one of three      *)
(* states.                                                                  *)
Between == pc \in {"enable", "caller"} => i = 0 /\ r = 0
Adding ==
    entry = "fibonacci" =>
        /\ pc \in {"body", "fib2"} => i <= 4 /\ r = IF i < 4 THEN i ELSE 5
        /\ pc = "fib2" =>
              /\ i < 4 /\ (j = 2 \/ j <= i + 1)
              /\ <<j, a, b>> \in {<<2, 0, 1>>, <<3, 1, 1>>, <<4, 1, 2>>}
        /\ pc = "caller" => result = Num(5)

(* main: what it has added up after its calls.                              *)
AfterCalls(n) == IF n = 0 THEN 0 ELSE IF n = 1 THEN 2 ELSE 5
Adds ==
    who = "main" =>
        /\ sample = "fib2" =>
              /\ pc \in {"body", "fib2", "exited"} => step = 1
              /\ total = IF step = 1 /\ pc \in {"caller", "exited"} THEN 5 ELSE 0
        /\ sample = "minimal_3entries" =>
              /\ pc = "body" => /\ step \in {1, 2} /\ x = 1
                                /\ entry = IF step = 1 THEN "plus_one" ELSE "plus_two"
              /\ total = AfterCalls(IF pc = "body" THEN step - 1 ELSE step)
              /\ pc = "exited" => step = 2

SInv == Places /\ Between /\ Adding /\ Adds

LEMMA SumTable ==
    ASSUME NEW s \in Samples
    PROVE  /\ "fibonacci" \in AllSamples[s].entries => s = "fib2"
           /\ "disable_enclave" \in AllSamples[s].entries => s = "hello"
           /\ s = "fib2" => /\ AllSamples[s].entries = {"fibonacci"} /\ AllSamples[s].value
                            /\ AllSamples[s].main = <<<<"fibonacci", 0, 0>>>>
           /\ s = "minimal_3entries" =>
                 /\ AllSamples[s].entries = {"plus_one", "plus_two", "plus_three"}
                 /\ AllSamples[s].value
                 /\ AllSamples[s].main = <<<<"plus_one", 1, 0>>, <<"plus_two", 1, 0>>>>
<1>1. s \in DOMAIN AllSamples
  BY SamplesAssumption DEF SamplesAssumption
<1>2. /\ "fibonacci" \in AllSamples[s].entries => s = "fib2"
      /\ "disable_enclave" \in AllSamples[s].entries => s = "hello"
  BY <1>1, SMTT(60) DEF AllSamples, Sample, comp_gen_test_1, comp_gen_test_2, fib, fib2, hello,
     minimal, minimal_3entries, minimal_v1_0_0, SimpleEncl, simple_encl_v1_0_0,
     simple_encl_v2_0_0, simple_encl_v2_1_0, CopyFromBuffer, t2w_with_programming_error,
     t2w_4_vulnerable, t2w_4_fixed, EnterEncl, t2w_1_improper, t2w_1_fixed,
     t2w_3_soteria_loader
<1>3. s = "fib2" => AllSamples[s] = fib2
  BY <1>1 DEF AllSamples
<1>4. s = "minimal_3entries" => AllSamples[s] = minimal_3entries
  BY <1>1 DEF AllSamples
<1> QED
  BY <1>2, <1>3, <1>4 DEF fib2, minimal_3entries, Sample, Call

LEMMA SumNumbers ==
    /\ \A k \in 0 .. 5 : Signed(k) = k /\ \A l \in 0 .. 3 : Plus(l, k) = l + k
    /\ \A k \in 0 .. 4 : Increment(k) = k + 1
  BY Borders DEF Signed, Plus, Increment

(* A sample that main runs is where its entry point says.                   *)
LEMMA WhereSums ==
    ASSUME IInv, Places, sample \in {"fib2", "minimal_3entries"}
    PROVE  /\ pc \in {"enable", "caller", "body", "fib2", "exited"}
           /\ sample = "minimal_3entries" => pc # "fib2"
           /\ pc = "exited" => who = "main"
           /\ pc = "body" => entry \in This.entries
<1>1. /\ sample \in Samples /\ pc \in Labels /\ entry \in This.entries \cup {"none"}
      /\ entry # "disable_enclave" /\ entry # "copy_data_from_buffer" /\ entry # "fib"
  BY SumTable DEF IInv, TypeOK, This
<1> QED
  BY <1>1, SumTable DEF IInv, Places, Copying, InFib2, Labels, This, TypeOK

LEMMA InitSums == Init => SInv
  BY Entries, SumTable DEF Init, SInv, Places, Between, Adding, Adds, AfterCalls, This

LEMMA CallEnters ==
    ASSUME IInv, MainCalls \/ AnyCalls
    PROVE  pc' = "body" /\ entry' \in This.entries /\ entry' # "none"
<1>0. sample \in Samples
  BY DEF IInv, TypeOK
<1>1. CASE MainCalls
  <2>1. step + 1 \in 1 .. Len(This.main)
    BY <1>0, <1>1, Mains DEF IInv, TypeOK, MainCalls, This
  <2>2. This.main[step + 1][1] \in This.entries
    BY <1>0, <2>1, Mains DEF This
  <2> QED
    BY <1>0, <1>1, <2>2, Entries DEF MainCalls, Enter, This
<1>2. CASE AnyCalls
  BY <1>0, <1>2, Entries DEF AnyCalls, Enter, This
<1> QED
  BY <1>1, <1>2

LEMMA PlacesKept == IInv /\ Places /\ [Next]_vars => Places'
<1> SUFFICES ASSUME IInv, Places, [Next]_vars PROVE Places'
  OBVIOUS
<1>1. CASE Enable \/ MainEnds
  BY <1>1 DEF Enable, MainEnds, Goto, Places
<1>2. CASE MainCalls \/ AnyCalls
  BY <1>2, CallEnters DEF Places
<1>3. ASSUME NEW v, Return(v) PROVE Places'
  BY <1>3 DEF Return, Places
<1>4. CASE disable_enclave \/ exit_success
  BY <1>4 DEF disable_enclave, exit_success, In, Goto, Places
<1>5. CASE \/ CopyAdmitted \/ Copy \/ Loop \/ FibBegin \/ (\E k \in {1, 2} : FibCall(k))
           \/ FibReturn \/ Fib2Begin \/ Fib2Loop \/ Fib2End
  BY <1>5 DEF CopyAdmitted, Copy, Loop, FibBegin, FibCall, FibReturn, FibComputed, Fib2Begin,
     Fib2Loop, Fib2End, In, Goto, Places, IInv, InFib2
<1>6. CASE Sancus
  <2>1. \/ CopyAdmitted \/ Copy \/ Loop \/ FibBegin \/ (\E k \in {1, 2} : FibCall(k))
        \/ FibReturn \/ Fib2Begin \/ Fib2Loop \/ Fib2End
        \/ disable_enclave \/ exit_success
        \/ \E v : Return(v)
    BY <1>6, Zenon DEF Sancus, enter_encl, another_entry, hello_enclave, foo_c_fct,
       basic_function, plus, sm_loader_load, set_number, CopyRefused, CopyEnd, LoopEnd,
       FibEnd, fibonacci
  <2> QED
    BY <1>3, <1>4, <1>5, <2>1
<1>7. CASE UNCHANGED vars
  BY <1>7 DEF vars, Places
<1> QED
  BY <1>1, <1>2, <1>6, <1>7 DEF Next, Caller

LEMMA BetweenKept == IInv /\ Between /\ [Next]_vars => Between'
<1> SUFFICES ASSUME IInv, Between, [Next]_vars PROVE Between'
  OBVIOUS
<1>1. CASE Caller
  BY <1>1 DEF Caller, Enable, MainCalls, MainEnds, AnyCalls, Enter, Goto, Between
<1>2. CASE Sancus
  BY <1>2 DEF Sancus, Return, Goto, In, Between,
     enter_encl, another_entry, hello_enclave, foo_c_fct, basic_function, plus, sm_loader_load,
     set_number, disable_enclave, exit_success, CopyRefused, CopyAdmitted, Copy, CopyEnd, Loop,
     LoopEnd, FibBegin, FibCall, FibReturn, FibEnd, Fib2Begin, Fib2Loop, Fib2End, fibonacci
<1>3. CASE UNCHANGED vars
  BY <1>3 DEF vars, Between
<1> QED
  BY <1>1, <1>2, <1>3 DEF Next

LEMMA FibonacciIs5 ==
    ASSUME IInv, FourRounds, Adding, fibonacci
    PROVE  r = 5
<1>1. i \in Nat /\ sample \in Samples /\ entry \in This.entries /\ entry = "fibonacci"
  BY Borders DEF IInv, TypeOK, Word, fibonacci, In
<1>2. data = 4
  BY <1>1, SumTable DEF FourRounds, This
<1> QED
  BY <1>1, <1>2, SumNumbers DEF fibonacci, In, Adding

LEMMA AddingKept == IInv /\ FourRounds /\ Places /\ Between /\ Adding /\ [Next]_vars => Adding'
<1> SUFFICES ASSUME IInv, FourRounds, Places, Between, Adding, [Next]_vars,
                    entry' = "fibonacci"
             PROVE  Adding'
  BY DEF Adding
<1>0. /\ i \in Nat /\ j \in Nat /\ a \in Nat /\ b \in Nat /\ r \in Nat /\ data \in Nat
      /\ sample \in Samples /\ entry \in This.entries \cup {"none"}
  BY Borders DEF IInv, TypeOK, Word
<1>1. CASE MainCalls \/ AnyCalls
  <2>1. pc' = "body" /\ i' = 0 /\ r' = 0
    BY <1>1, CallEnters DEF MainCalls, AnyCalls, Enter, Between
  <2> QED
    BY <2>1 DEF Adding
<1>2. CASE Enable
  BY <1>2 DEF Enable, Places
<1>3. CASE MainEnds
  BY <1>3 DEF MainEnds, Goto, Adding
<1>4. CASE Sancus
  <2>1. entry = "fibonacci"
    BY <1>4 DEF Sancus, Return, Goto,
       enter_encl, another_entry, hello_enclave, foo_c_fct, basic_function, plus,
       sm_loader_load, set_number, disable_enclave, exit_success, CopyRefused, CopyAdmitted,
       Copy, CopyEnd, Loop, LoopEnd, FibBegin, FibCall, FibReturn, FibEnd, Fib2Begin,
       Fib2Loop, Fib2End, fibonacci
  <2>2. data = 4 /\ sample = "fib2"
    BY <1>0, <2>1, SumTable DEF FourRounds, This
  <2>3. CASE Fib2Begin
    BY <1>0, <2>1, <2>2, <2>3, SumNumbers DEF Fib2Begin, In, Goto, Adding
  <2>4. CASE Fib2Loop
    <3>1. /\ i \in 0 .. 3 /\ j \in 2 .. 4 /\ Signed(j) = j /\ Signed(i) = i
          /\ pc = "fib2" /\ r = i /\ j <= i /\ j \in 2 .. 3
      BY <1>0, <2>1, <2>4, SumNumbers DEF Fib2Loop, Adding
    <3>2. /\ pc' = "fib2" /\ i' = i /\ r' = r /\ j' = j + 1 /\ a' = b
          /\ b' = a + b
      BY <2>1, <2>4, <3>1, SumNumbers DEF Fib2Loop, Goto, Adding
    <3> QED
      BY <2>1, <3>1, <3>2 DEF Adding
  <2>5. CASE Fib2End
    <3>1. /\ i \in 0 .. 3 /\ j \in 2 .. 4 /\ Signed(j) = j /\ Signed(i) = i
          /\ pc = "fib2" /\ r = i /\ j > i
      BY <1>0, <2>1, <2>5, SumNumbers DEF Fib2End, Adding
    <3>2. b = IF i < 3 THEN 1 ELSE 2
      BY <2>1, <3>1 DEF Adding
    <3>3. i' = i + 1 /\ r' = r + b /\ pc' = "body"
      BY <2>5, <3>1, <3>2, SumNumbers DEF Fib2End, Goto
    <3> QED
      BY <3>1, <3>2, <3>3 DEF Adding
  <2>6. CASE fibonacci
    BY <2>6, FibonacciIs5 DEF fibonacci, Return, Adding
  <2>7. Fib2Begin \/ Fib2Loop \/ Fib2End \/ fibonacci
    BY <1>4, <2>1 DEF Sancus, In, Places, IInv, Copying,
       enter_encl, another_entry, hello_enclave, foo_c_fct, basic_function, plus,
       sm_loader_load, set_number, disable_enclave, exit_success, CopyRefused, CopyAdmitted,
       Copy, CopyEnd, Loop, LoopEnd, FibBegin, FibCall, FibReturn, FibEnd, FibComputed
  <2> QED
    BY <2>3, <2>4, <2>5, <2>6, <2>7
<1>5. CASE UNCHANGED vars
  BY <1>5 DEF vars, Adding
<1> QED
  BY <1>1, <1>2, <1>3, <1>4, <1>5 DEF Next, Caller

(* What a step of main's fib2 and sancus-minimal_3entries may be.           *)
LEMMA AddingSteps ==
    ASSUME IInv, Places, sample \in {"fib2", "minimal_3entries"}, Sancus
    PROVE  \/ sample = "fib2" /\ (Fib2Begin \/ Fib2Loop \/ Fib2End \/ fibonacci)
           \/ /\ sample = "minimal_3entries"
              /\ plus("plus_one", 1) \/ plus("plus_two", 2) \/ plus("plus_three", 3)
<1>1. /\ pc \in {"enable", "caller", "body", "fib2", "exited"}
      /\ sample = "minimal_3entries" => pc # "fib2"
      /\ pc = "body" => entry \in This.entries
  BY WhereSums
<1>2. pc = "body" => IF sample = "fib2" THEN entry = "fibonacci"
                     ELSE entry \in {"plus_one", "plus_two", "plus_three"}
  BY <1>1, SumTable DEF This, IInv, TypeOK
<1> QED
  BY <1>1, <1>2 DEF Sancus, In,
     enter_encl, another_entry, hello_enclave, foo_c_fct, basic_function, plus,
     sm_loader_load, set_number, disable_enclave, exit_success, CopyRefused, CopyAdmitted,
     Copy, CopyEnd, Loop, LoopEnd, FibBegin, FibCall, FibReturn, FibEnd, FibComputed,
     Fib2Begin, Fib2Loop, Fib2End, fibonacci

LEMMA SampleStays == [Next]_vars => sample' = sample /\ who' = who
<1>1. CASE Caller \/ UNCHANGED vars
  BY <1>1 DEF vars, Caller, Enable, MainCalls, MainEnds, AnyCalls, Enter, Goto
<1>2. CASE Sancus
  BY <1>2 DEF Sancus, Goto, Return,
     enter_encl, another_entry, hello_enclave, foo_c_fct, basic_function, plus, sm_loader_load,
     set_number, disable_enclave, exit_success, CopyRefused, CopyAdmitted, Copy, CopyEnd, Loop,
     LoopEnd, FibBegin, FibCall, FibReturn, FibEnd, Fib2Begin, Fib2Loop, Fib2End, fibonacci
<1> QED
  BY <1>1, <1>2 DEF Next

LEMMA AddsKept ==
    IInv /\ FourRounds /\ Places /\ Between /\ Adding /\ Adds /\ [Next]_vars => Adds'
<1> SUFFICES ASSUME IInv, FourRounds, Places, Between, Adding, Adds, [Next]_vars,
                    who' = "main", sample' \in {"fib2", "minimal_3entries"}
             PROVE  Adds'
  BY DEF Adds
<1>0. /\ who = "main" /\ sample' = sample /\ sample \in Samples
      /\ sample \in {"fib2", "minimal_3entries"}
      /\ step \in Nat /\ total \in Nat
  BY SampleStays, Mains, Borders DEF IInv, TypeOK, Word, This
<1>1. /\ This.value
      /\ sample = "fib2" => This.main = <<<<"fibonacci", 0, 0>>>>
      /\ sample = "minimal_3entries" =>
            This.main = <<<<"plus_one", 1, 0>>, <<"plus_two", 1, 0>>>>
  BY <1>0, SumTable DEF This
<1>2. CASE Enable
  BY <1>0, <1>2 DEF Enable, Places, Adds, AfterCalls
<1>3. CASE MainEnds
  <2>1. step = IF sample = "fib2" THEN 1 ELSE 2
    BY <1>0, <1>1, <1>3 DEF MainEnds
  <2> QED
    BY <1>0, <1>3, <2>1 DEF MainEnds, Goto, Adds, AfterCalls
<1>4. CASE MainCalls
  <2>1. /\ pc = "caller" /\ pc' = "body" /\ step' = step + 1 /\ total' = total
        /\ step < Len(This.main)
        /\ entry' = This.main[step + 1][1] /\ x' = This.main[step + 1][2]
    BY <1>4 DEF MainCalls, Enter
  <2>2. CASE sample = "fib2"
    BY <1>0, <1>1, <2>1, <2>2 DEF Adds
  <2>3. CASE sample = "minimal_3entries"
    <3>1. step \in {0, 1}
      BY <1>0, <1>1, <2>1, <2>3
    <3> QED
      BY <1>0, <1>1, <2>1, <2>3, <3>1 DEF Adds, AfterCalls
  <2> QED
    BY <1>0, <2>2, <2>3
<1>5. CASE Sancus
  <2>1. CASE sample = "fib2" /\ (Fib2Begin \/ Fib2Loop \/ Fib2End)
    BY <1>0, <2>1 DEF Fib2Begin, Fib2Loop, Fib2End, Goto, In, Adds
  <2>2. CASE sample = "fib2" /\ fibonacci
    <3>1. total' = Plus(total, r) /\ pc' = "caller" /\ step' = step /\ pc = "body"
      BY <1>0, <1>1, <2>2 DEF fibonacci, In, Return, Num
    <3> QED
      BY <1>0, <2>2, <3>1, FibonacciIs5, SumNumbers DEF Adds
  <2>3. CASE /\ sample = "minimal_3entries"
             /\ plus("plus_one", 1) \/ plus("plus_two", 2) \/ plus("plus_three", 3)
    <3>1. PICK n \in {1, 2, 3} : /\ pc = "body" /\ Return(Num(Plus(x, n)))
                                 /\ entry = IF n = 1 THEN "plus_one" ELSE IF n = 2
                                            THEN "plus_two" ELSE "plus_three"
      BY <2>3 DEF plus, In
    <3>2. x = 1 /\ step = n /\ n \in {1, 2} /\ total = IF n = 1 THEN 0 ELSE 2
      BY <1>0, <2>3, <3>1 DEF Adds, AfterCalls
    <3>3. Plus(x, n) = 1 + n /\ Plus(total, 1 + n) = total + 1 + n
      BY <3>2, SumNumbers
    <3>4. total' = Plus(total, 1 + n) /\ pc' = "caller" /\ step' = step
      BY <1>0, <1>1, <3>1, <3>3 DEF Return, Num
    <3> QED
      BY <1>0, <2>3, <3>2, <3>3, <3>4 DEF Adds, AfterCalls
  <2> QED
    BY <1>0, <1>5, <2>1, <2>2, <2>3, AddingSteps
<1>6. CASE UNCHANGED vars
  BY <1>6 DEF vars, Adds
<1>7. ~AnyCalls
  BY <1>0 DEF AnyCalls
<1> QED
  BY <1>2, <1>3, <1>4, <1>5, <1>6, <1>7 DEF Next, Caller

LEMMA SumsFollow == IInv /\ SInv => Sums
<1> SUFFICES ASSUME IInv, SInv PROVE Sums
  OBVIOUS
<1>1. sample \in Samples /\ entry \in This.entries \cup {"none"}
  BY DEF IInv, TypeOK
<1>2. pc = "exited" /\ sample \in {"fib2", "minimal_3entries"} => who = "main"
  BY WhereSums DEF SInv
<1> QED
  BY <1>2 DEF SInv, Places, Adding, Adds, AfterCalls, Sums

(* However often and in whatever order the entry points are called, the     *)
(* iterative fibonacci returns 5, and main of fib2 and of the three entries *)
(* return the results of their calls, each one once.                        *)
THEOREM SumsAreRight == Spec => []Sums
<1>1. Spec => [](IInv /\ FourRounds /\ SInv)
  <2>1. Init => IInv /\ FourRounds /\ SInv
    BY InitHolds, InitRounds, InitSums
  <2>2. IInv /\ FourRounds /\ SInv /\ [Next]_vars => (IInv /\ FourRounds /\ SInv)'
    BY StepKeeps, StepRounds, PlacesKept, BetweenKept, AddingKept, AddsKept DEF SInv
  <2> QED
    BY <2>1, <2>2, PTL DEF Spec
<1> QED
  BY <1>1, SumsFollow, PTL

-----------------------------------------------------------------------------
(* The numbers that the recursive fib is named for.                         *)
LEMMA FibonacciValues ==
    /\ Fibonacci \in [Nat -> Nat]
    /\ \A n \in Nat : Fibonacci[n] = IF n < 2 THEN 1 ELSE Fibonacci[n - 1] + Fibonacci[n - 2]
<1> DEFINE Step == [p \in Nat \X [Nat -> Nat] |->
                       IF p[1] < 2 THEN 1 ELSE p[2][p[1] - 1] + p[2][p[1] - 2]]
<1>1. \A n \in Nat : \A f \in [Nat -> Nat] :
         Step[<<n, f>>] = IF n < 2 THEN 1 ELSE f[n - 1] + f[n - 2]
  OBVIOUS
<1>2. Step \in [Nat \X [Nat -> Nat] -> Nat]
  OBVIOUS
<1> HIDE DEF Step
<1>3. Local(Step, Nat)
  BY <1>1 DEF Local
<1>4. PICK F \in [Nat -> Nat] : \A n \in Nat : F[n] = Step[<<n, F>>]
  <2>1. 0 \in Nat
    OBVIOUS
  <2> QED
    BY <1>2, <1>3, <2>1, RecursiveFunction, Zenon
<1>5. \A n \in Nat : F[n] = IF n < 2 THEN 1 ELSE F[n - 1] + F[n - 2]
  <2> SUFFICES ASSUME NEW n \in Nat PROVE F[n] = IF n < 2 THEN 1 ELSE F[n - 1] + F[n - 2]
    OBVIOUS
  <2>1. F[n] = Step[<<n, F>>]
    BY <1>4
  <2>2. Step[<<n, F>>] = IF n < 2 THEN 1 ELSE F[n - 1] + F[n - 2]
    BY <1>1
  <2> QED
    BY <2>1, <2>2, Zenon
<1>6. F = [n \in Nat |-> IF n < 2 THEN 1 ELSE F[n - 1] + F[n - 2]]
  BY <1>5
<1>7. Fibonacci = [n \in Nat |-> IF n < 2 THEN 1 ELSE Fibonacci[n - 1] + Fibonacci[n - 2]]
  BY <1>6, Zenon DEF Fibonacci
<1>8. \A n \in Nat : Fibonacci[n] = IF n < 2 THEN 1 ELSE Fibonacci[n - 1] + Fibonacci[n - 2]
  BY <1>7, Zenon
<1>9. \A n \in Nat : Fibonacci[n] = F[n]
  <2> DEFINE S == {n \in Nat : Fibonacci[n] = F[n]}
  <2>1. ASSUME NEW n \in Nat, \A m \in 0 .. n - 1 : m \in S PROVE n \in S
    <3>1. n >= 2 => n - 1 \in S /\ n - 2 \in S
      BY <2>1
    <3> QED
      BY <1>5, <1>8, <3>1
  <2>2. S = Nat
    <3> HIDE DEF S
    <3>1. S \in SUBSET Nat
      BY DEF S
    <3> QED
      BY <2>1, <3>1, Inductive, Zenon
  <2> QED
    BY <2>2
<1>10. Fibonacci = F
  <2>1. Fibonacci = [n \in Nat |-> Fibonacci[n]]
    BY <1>7, Zenon
  <2> QED
    BY <1>9, <2>1
<1> QED
  BY <1>8, <1>10

-----------------------------------------------------------------------------
(* The recursive fib.  Fib(n) is what an activation for n returns, Done(n,  *)
(* ks) the sum of what those of its calls return that are in ks.            *)
Fib(n) == IF Signed(n) < 0 THEN WordSize - 1 ELSE Fibonacci[n] % WordSize
Done(n, ks) ==
    Plus(IF 1 \in ks THEN Fib(Minus(n, 1)) ELSE 0, IF 2 \in ks THEN Fib(Minus(n, 2)) ELSE 0)

(* The first activation is for the argument of the call.  One that waits    *)
(* has added up the calls that are over, and the next activation is for the *)
(* one that is not; the last one waits for none.                            *)
Waiting(f, g) ==
    /\ Signed(f.n) > 1
    /\ \E k \in {1, 2} \ f.todo :
          g.n = Minus(f.n, k) /\ f.sum = Done(f.n, {1, 2} \ (f.todo \cup {k}))
Computing(f) == Signed(f.n) > 1 => f.sum = Done(f.n, {1, 2} \ f.todo)
Stack ==
    /\ frames[1].n = x
    /\ \A k \in 1 .. Len(frames) - 1 : Waiting(frames[k], frames[k + 1])
    /\ Computing(frames[Len(frames)])

Recursion ==
    /\ pc = "fib" => Stack
    /\ pc = "caller" /\ entry = "fib" => result = Num(Fib(x))
MainOfFib ==
    who = "main" /\ sample = "fib" =>
        /\ pc \in {"enable", "caller", "body", "fib", "exited"}
        /\ pc \in {"body", "fib"} => step = 1 /\ x = 9
        /\ total = IF step = 1 /\ pc \in {"caller", "exited"} THEN 55 ELSE 0
        /\ pc = "exited" => step = 1
        /\ step = 1 => entry = "fib" /\ x = 9
RInv == Recursion /\ MainOfFib

(* What mains and entry points of fib are.                                  *)
LEMMA FibTable ==
    ASSUME NEW s \in Samples
    PROVE  /\ "fib" \in AllSamples[s].entries => s = "fib"
           /\ s = "fib" => /\ AllSamples[s].entries = {"fib"} /\ AllSamples[s].value
                           /\ AllSamples[s].main = <<<<"fib", 9, 0>>>>
<1>1. s \in DOMAIN AllSamples
  BY SamplesAssumption DEF SamplesAssumption
<1>2. "fib" \in AllSamples[s].entries => s = "fib"
  BY <1>1, SMTT(60) DEF AllSamples, Sample, comp_gen_test_1, comp_gen_test_2, fib, fib2, hello,
     minimal, minimal_3entries, minimal_v1_0_0, SimpleEncl, simple_encl_v1_0_0,
     simple_encl_v2_0_0, simple_encl_v2_1_0, CopyFromBuffer, t2w_with_programming_error,
     t2w_4_vulnerable, t2w_4_fixed, EnterEncl, t2w_1_improper, t2w_1_fixed,
     t2w_3_soteria_loader
<1>3. s = "fib" => AllSamples[s] = fib
  BY <1>1 DEF AllSamples
<1> QED
  BY <1>2, <1>3 DEF fib, Sample, Call

LEMMA ModType == \A n \in Nat : n % WordSize \in Word
  BY SamplesAssumption, SMT DEF SamplesAssumption, Word

LEMMA Remainder ==
    ASSUME NEW d \in Nat \ {0}, NEW q \in Nat, NEW s \in 0 .. d - 1
    PROVE  (q * d + s) % d = s
  BY SMT

(* Sums of words are sums modulo the word size.                             *)
LEMMA PlusIsModular ==
    ASSUME NEW m \in Nat, NEW n \in Nat
    PROVE  Plus(m % WordSize, n % WordSize) = (m + n) % WordSize
<1> DEFINE d == WordSize
           p == m \div d
           q == n \div d
           s == m % d
           t == n % d
<1>1. d \in Nat \ {0}
  BY SamplesAssumption DEF SamplesAssumption
<1>2. p \in Nat /\ q \in Nat /\ s \in 0 .. d - 1 /\ t \in 0 .. d - 1
  BY <1>1, SMT
<1>3. m = p * d + s /\ n = q * d + t
  BY <1>1, SMT
<1>4. d = WordSize /\ s = m % WordSize /\ t = n % WordSize
  OBVIOUS
<1> HIDE DEF p, q, s, t, d
<1>5. m + n = (p + q) * d + (s + t)
  BY <1>1, <1>2, <1>3, SMT
<1>6. CASE s + t < d
  <2>1. ((p + q) * d + (s + t)) % d = s + t
    BY <1>1, <1>2, <1>6, Remainder
  <2> QED
    BY <1>4, <1>5, <1>6, <2>1 DEF Plus
<1>7. CASE s + t >= d
  <2>1. m + n = (p + q + 1) * d + (s + t - d)
    BY <1>1, <1>2, <1>5, SMT
  <2>2. s + t - d \in 0 .. d - 1 /\ p + q + 1 \in Nat
    BY <1>1, <1>2, <1>7
  <2>3. ((p + q + 1) * d + (s + t - d)) % d = s + t - d
    BY <1>1, <2>2, Remainder
  <2>4. (m + n) % WordSize = s + t - WordSize
    BY <1>4, <2>1, <2>3
  <2> QED
    BY <1>1, <1>2, <1>4, <1>7, <2>4 DEF Plus
<1> QED
  BY <1>1, <1>2, <1>6, <1>7

LEMMA FibType == \A n \in Word : Fib(n) \in Word
<1>1. WordSize - 1 \in Word /\ Word \subseteq Nat
  BY SamplesAssumption DEF SamplesAssumption, Word
<1> QED
  BY <1>1, FibonacciValues, ModType, Zenon DEF Fib

(* An activation that has its two results has the number of its argument.   *)
LEMMA FibAdds ==
    ASSUME NEW n \in Word, Signed(n) > 1
    PROVE  /\ Done(n, {1, 2}) = Fib(n)
           /\ Done(n, {}) = 0
           /\ \A k \in {1, 2} : Minus(n, k) \in Word /\ Minus(n, k) = n - k
           /\ \A k \in {1, 2} : Plus(Done(n, {}), Fib(Minus(n, k))) = Done(n, {k})
           /\ \A k \in {1, 2} : Plus(Done(n, {k}), Fib(Minus(n, 3 - k))) = Done(n, {1, 2})
<1>1. n \in Nat /\ n > 1 /\ 2 * n < WordSize /\ WordSize \in Nat
  BY Borders DEF Signed, Word
<1>2. /\ Minus(n, 1) = n - 1 /\ Minus(n, 2) = n - 2
      /\ n - 1 \in Word /\ n - 2 \in Word /\ n - 1 \in Nat /\ n - 2 \in Nat
  BY <1>1 DEF Minus, Word
<1>3. /\ Signed(n) = n /\ Signed(n - 1) = n - 1 /\ Signed(n - 2) = n - 2
  BY <1>1 DEF Signed
<1> DEFINE f == Fib(n - 1)
           g == Fib(n - 2)
<1>4. /\ f = Fibonacci[n - 1] % WordSize /\ g = Fibonacci[n - 2] % WordSize
      /\ Fib(n) = Fibonacci[n] % WordSize
  BY <1>1, <1>2, <1>3 DEF Fib
<1>5. /\ Fibonacci[n - 1] \in Nat /\ Fibonacci[n - 2] \in Nat
      /\ Fibonacci[n] = Fibonacci[n - 1] + Fibonacci[n - 2]
  BY <1>1, <1>2, FibonacciValues
<1>6. Plus(f, g) = Fib(n)
  BY <1>4, <1>5, PlusIsModular
<1>7. f \in Word /\ g \in Word
  BY <1>2, FibType
<1> HIDE DEF f, g
<1>8. /\ Plus(f, 0) = f /\ Plus(0, g) = g /\ Plus(0, f) = f /\ Plus(g, f) = Plus(f, g)
      /\ Plus(0, 0) = 0
  BY <1>1, <1>7 DEF Plus, Word
<1>9. /\ Done(n, {}) = 0 /\ Done(n, {1}) = f /\ Done(n, {2}) = g
      /\ Done(n, {1, 2}) = Plus(f, g)
  <2>1. /\ Done(n, {}) = Plus(0, 0) /\ Done(n, {1}) = Plus(f, 0)
        /\ Done(n, {2}) = Plus(0, g) /\ Done(n, {1, 2}) = Plus(f, g)
    BY <1>2 DEF Done, f, g
  <2> QED
    BY <1>8, <2>1
<1>10. Fib(Minus(n, 1)) = f /\ Fib(Minus(n, 2)) = g
  BY <1>2 DEF f, g
<1> QED
  BY <1>2, <1>6, <1>8, <1>9, <1>10

(* A result that is computed is the number of the activation's argument.    *)
LEMMA FibComputes ==
    ASSUME IInv, Stack, FibComputed
    PROVE  FibTop.n \in Word /\ FibValue = Fib(FibTop.n)
<1>1. FibTop \in Activations /\ Computing(FibTop)
  BY Top DEF FibComputed, Stack, FibTop
<1>2. FibTop.n \in Word
  BY <1>1 DEF Activations
<1>3. CASE Signed(FibTop.n) > 1
  <2>1. FibTop.todo = {}
    BY <1>2, <1>3, Borders DEF FibComputed, Signed, Word
  <2>2. FibTop.sum = Done(FibTop.n, {1, 2})
    BY <1>1, <1>3, <2>1 DEF Computing
  <2>3. ~(Signed(FibTop.n) < 0) /\ ~(FibTop.n < 2)
    BY <1>2, <1>3, Borders DEF Signed, Word
  <2> QED
    BY <1>2, <1>3, <2>2, <2>3, FibAdds DEF FibValue
<1>4. CASE ~(Signed(FibTop.n) > 1)
  <2>1. Signed(FibTop.n) < 0 \/ (FibTop.n \in Nat /\ FibTop.n < 2 /\ ~(Signed(FibTop.n) < 0))
    BY <1>2, <1>4, Borders DEF Signed, Word
  <2>2. 1 % WordSize = 1
    BY Borders
  <2>3. FibTop.n \in Nat /\ FibTop.n < 2 => Fibonacci[FibTop.n] = 1
    BY FibonacciValues
  <2> QED
    BY <1>2, <2>1, <2>2, <2>3 DEF FibValue, Fib
<1> QED
  BY <1>2, <1>3, <1>4

(* The stack of activations.                                                *)
LEMMA CallKeepsStack ==
    ASSUME IInv, Stack, NEW k \in {1, 2}, FibCall(k)
    PROVE  Stack'
<1> DEFINE m == Len(frames)
           f == [FibTop EXCEPT !.todo = @ \ {k}]
           g == Activation(Minus(FibTop.n, k))
           h == [frames EXCEPT ![m] = f]
<1>0. pc = "fib" /\ frames \in Seq(Activations) /\ m \in Nat /\ m > 0
  BY Top DEF FibCall, IInv, TypeOK, Activations
<1>1. FibTop \in Activations /\ FibTop = frames[m]
  BY <1>0, Top DEF FibTop
<1>2. frames' = Append(h, g)
  BY <1>0, <1>1 DEF FibCall
<1>3. f \in Activations /\ f.n = FibTop.n /\ f.todo = FibTop.todo \ {k} /\ f.sum = FibTop.sum
  BY <1>1 DEF Activations
<1>4. h \in Seq(Activations) /\ Len(h) = m /\ h[m] = f /\ \A l \in 1 .. m - 1 : h[l] = frames[l]
  BY <1>0, <1>3
<1>5. Minus(FibTop.n, k) \in Word
  BY <1>1, Words, Arithmetic DEF Activations
<1>6. g \in Activations /\ g.n = Minus(FibTop.n, k) /\ g.todo = {1, 2} /\ g.sum = 0
  BY <1>5, Words DEF Activation, Activations
<1> HIDE DEF m, f, g, h
<1>7. /\ Len(frames') = m + 1 /\ frames'[m + 1] = g /\ frames'[m] = f
      /\ \A l \in 1 .. m - 1 : frames'[l] = frames[l]
  BY <1>0, <1>2, <1>4, <1>6
<1>8. Waiting(f, g)
  <2>1. Signed(FibTop.n) > 1 /\ k \in FibTop.todo
    BY DEF FibCall
  <2>2. FibTop.sum = Done(FibTop.n, {1, 2} \ FibTop.todo)
    BY <1>1, <2>1 DEF Stack, Computing, m
  <2>3. f.todo \cup {k} = FibTop.todo /\ k \notin f.todo
    BY <1>3, <2>1
  <2> QED
    BY <1>3, <1>6, <2>1, <2>2, <2>3 DEF Waiting
<1>9. Computing(g)
  <2>1. g.n \in Word /\ {1, 2} \ g.todo = {}
    BY <1>5, <1>6
  <2> QED
    BY <1>6, <2>1, FibAdds DEF Computing
<1>10. \A l \in 1 .. m : Waiting(frames'[l], frames'[l + 1])
  <2>1. ASSUME NEW l \in 1 .. m - 1 PROVE Waiting(frames'[l], frames'[l + 1])
    <3>1. Waiting(frames[l], frames[l + 1])
      BY <2>1 DEF Stack, m
    <3>2. frames'[l] = frames[l] /\ frames'[l + 1].n = frames[l + 1].n
      <4>1. CASE l + 1 = m
        BY <1>1, <1>3, <1>7, <4>1
      <4>2. CASE l + 1 # m
        BY <1>0, <1>7, <4>2
      <4> QED
        BY <1>7, <4>1, <4>2
    <3> QED
      BY <3>1, <3>2, Zenon DEF Waiting
  <2>2. Waiting(frames'[m], frames'[m + 1])
    BY <1>7, <1>8
  <2> QED
    BY <1>0, <2>1, <2>2
<1>11. frames'[1].n = x'
  <2>1. x' = x /\ frames[1].n = x
    BY DEF FibCall, Goto, Stack
  <2> QED
    BY <1>0, <1>1, <1>3, <1>7, <2>1
<1> QED
  BY <1>0, <1>7, <1>9, <1>10, <1>11 DEF Stack

LEMMA ReturnKeepsStack ==
    ASSUME IInv, Stack, FibReturn
    PROVE  Stack'
<1> DEFINE m == Len(frames) - 1
           f == frames[m]
           g == [f EXCEPT !.sum = Plus(@, FibValue)]
           h == SubSeq(frames, 1, m)
<1>0. /\ pc = "fib" /\ frames \in Seq(Activations) /\ m \in Nat /\ m > 0
      /\ Len(frames) = m + 1
  <2>1. pc = "fib" /\ Len(frames) > 1
    BY DEF FibReturn, FibComputed
  <2>2. frames \in Seq(Activations) /\ Len(frames) \in Nat
    BY DEF IInv, TypeOK, Activations
  <2> QED
    BY <2>1, <2>2
<1>1. f \in Activations
  BY <1>0
<1>2. h \in Seq(Activations) /\ Len(h) = m /\ \A l \in 1 .. m : h[l] = frames[l]
  BY <1>0
<1>3. frames' = [h EXCEPT ![m] = g]
  <2>1. frames' = [h EXCEPT ![m].sum = Plus(@, FibValue)]
    BY DEF FibReturn
  <2>2. h[m] = f
    BY <1>0, <1>2
  <2> HIDE DEF h, m
  <2> QED
    BY <2>1, <2>2
<1>4. g.n = f.n /\ g.todo = f.todo /\ g.sum = Plus(f.sum, FibValue)
  BY <1>1 DEF Activations
<1>5. Waiting(f, frames[m + 1]) /\ FibTop = frames[m + 1]
  BY <1>0 DEF Stack, FibTop
<1>6. FibValue = Fib(FibTop.n)
  BY FibComputes DEF FibReturn
<1>7. \A l \in 1 .. m - 1 : Waiting(frames[l], frames[l + 1])
  BY <1>0 DEF Stack
<1> HIDE DEF m, f, g, h
<1>8. Len(frames') = m /\ frames'[m] = g /\ \A l \in 1 .. m - 1 : frames'[l] = frames[l]
  BY <1>0, <1>2, <1>3
<1>9. Computing(g)
  <2>1. PICK k \in {1, 2} \ f.todo :
            FibTop.n = Minus(f.n, k) /\ f.sum = Done(f.n, {1, 2} \ (f.todo \cup {k}))
    BY <1>5 DEF Waiting
  <2>2. f.n \in Word /\ Signed(f.n) > 1 /\ f.todo \in SUBSET {1, 2}
    BY <1>1, <1>5 DEF Activations, Waiting
  <2>3. Plus(f.sum, FibValue) = Done(f.n, {1, 2} \ f.todo)
    <3>1. CASE f.todo = {}
      <4>1. {1, 2} \ (f.todo \cup {k}) = {3 - k} /\ {1, 2} \ f.todo = {1, 2}
        BY <3>1
      <4>2. f.sum = Done(f.n, {3 - k}) /\ FibValue = Fib(Minus(f.n, k))
        BY <1>6, <2>1, <4>1
      <4>3. 3 - k \in {1, 2} /\ k = 3 - (3 - k)
        OBVIOUS
      <4>4. Plus(Done(f.n, {3 - k}), Fib(Minus(f.n, k))) = Done(f.n, {1, 2})
        BY <2>2, <4>3, FibAdds
      <4> QED
        BY <4>1, <4>2, <4>4
    <3>2. CASE f.todo # {}
      <4>1. {1, 2} \ (f.todo \cup {k}) = {} /\ {1, 2} \ f.todo = {k}
        BY <2>2, <3>2
      <4>2. f.sum = Done(f.n, {}) /\ FibValue = Fib(Minus(f.n, k))
        BY <1>6, <2>1, <4>1
      <4>3. Plus(Done(f.n, {}), Fib(Minus(f.n, k))) = Done(f.n, {k})
        BY <2>2, FibAdds
      <4> QED
        BY <4>1, <4>2, <4>3
    <3> QED
      BY <3>1, <3>2
  <2> QED
    BY <1>4, <2>3 DEF Computing
<1>10. \A l \in 1 .. m - 1 : Waiting(frames'[l], frames'[l + 1])
  <2> SUFFICES ASSUME NEW l \in 1 .. m - 1 PROVE Waiting(frames'[l], frames'[l + 1])
    OBVIOUS
  <2>1. Waiting(frames[l], frames[l + 1])
    BY <1>7
  <2>2. frames'[l] = frames[l] /\ frames'[l + 1].n = frames[l + 1].n
    <3>1. CASE l + 1 = m
      BY <1>4, <1>8, <3>1 DEF f
    <3>2. CASE l + 1 # m
      BY <1>0, <1>8, <3>2
    <3> QED
      BY <1>8, <3>1, <3>2
  <2> QED
    BY <2>1, <2>2, Zenon DEF Waiting
<1>11. frames'[1].n = x'
  <2>1. x' = x /\ frames[1].n = x
    BY DEF FibReturn, Goto, Stack
  <2>2. CASE m = 1
    BY <1>4, <1>8, <2>1, <2>2 DEF f
  <2>3. CASE m # 1
    BY <1>0, <1>8, <2>1, <2>3
  <2> QED
    BY <2>2, <2>3
<1> QED
  BY <1>8, <1>9, <1>10, <1>11 DEF Stack

LEMMA FibEndsWith ==
    ASSUME IInv, Recursion, FibEnd
    PROVE  Return(Num(Fib(x))) /\ x \in Word
<1>1. Stack /\ FibComputed /\ Len(frames) = 1 /\ Return(Num(FibValue))
  BY DEF FibEnd, FibComputed, Recursion
<1>2. FibTop.n = x
  BY <1>1 DEF Stack, FibTop
<1> QED
  BY <1>1, <1>2, FibComputes

LEMMA RecursionKept == IInv /\ Places /\ Recursion /\ [Next]_vars => Recursion'
<1> SUFFICES ASSUME IInv, Places, Recursion, [Next]_vars PROVE Recursion'
  OBVIOUS
<1>1. CASE Enable \/ MainEnds
  BY <1>1 DEF Enable, MainEnds, Goto, Recursion, Places
<1>2. CASE MainCalls \/ AnyCalls
  BY <1>2, CallEnters DEF Recursion
<1>3. CASE FibBegin
  <2>1. /\ pc' = "fib" /\ x' = x /\ frames' = <<Activation(x)>> /\ x \in Word
    BY <1>3 DEF FibBegin, Goto, IInv, TypeOK
  <2>2. /\ Len(frames') = 1 /\ frames'[1].n = x
        /\ frames'[1].todo = {1, 2} /\ frames'[1].sum = 0
    BY <2>1 DEF Activation
  <2>3. Computing(frames'[1])
    <3>1. {1, 2} \ frames'[1].todo = {}
      BY <2>2
    <3> QED
      BY <2>1, <2>2, <3>1, FibAdds DEF Computing
  <2>4. Stack'
    BY <2>1, <2>2, <2>3 DEF Stack
  <2> QED
    BY <2>1, <2>4 DEF Recursion
<1>4. CASE (\E k \in {1, 2} : FibCall(k)) \/ FibReturn
  <2>1. pc = "fib" /\ pc' = "fib"
    BY <1>4 DEF FibCall, FibReturn, FibComputed, Goto
  <2>2. Stack'
    BY <1>4, <2>1, CallKeepsStack, ReturnKeepsStack DEF Recursion
  <2> QED
    BY <2>1, <2>2 DEF Recursion
<1>5. CASE FibEnd
  <2>1. pc' = "caller" /\ result' = Num(Fib(x)) /\ x' = x
    BY <1>5, FibEndsWith DEF Return
  <2> QED
    BY <2>1 DEF Recursion, Fib
<1>6. CASE Sancus /\ ~FibBegin /\ ~(\E k \in {1, 2} : FibCall(k)) /\ ~FibReturn /\ ~FibEnd
  <2>1. /\ pc' # "fib"
        /\ entry' = entry
        /\ pc' = "caller" => entry # "fib"
    BY <1>6 DEF Sancus, Return, Goto, In, Places, IInv, InFib2, Copying,
       enter_encl, another_entry, hello_enclave, foo_c_fct, basic_function, plus,
       sm_loader_load, set_number, disable_enclave, exit_success, CopyRefused, CopyAdmitted,
       Copy, CopyEnd, Loop, LoopEnd, Fib2Begin, Fib2Loop, Fib2End, fibonacci
  <2> QED
    BY <2>1 DEF Recursion
<1>7. CASE UNCHANGED vars
  BY <1>7 DEF vars, Recursion, Stack, Fib
<1> QED
  BY <1>1, <1>2, <1>3, <1>4, <1>5, <1>6, <1>7 DEF Next, Caller

-----------------------------------------------------------------------------
(* main of fib.                                                             *)
LEMMA FibOf9 == Fib(9) = 55 /\ Plus(0, 55) = 55
<1>1. Fibonacci[0] = 1 /\ Fibonacci[1] = 1
  BY FibonacciValues
<1>2. Fibonacci[2] = 2 /\ Fibonacci[3] = 3
  BY <1>1, FibonacciValues
<1>3. Fibonacci[4] = 5 /\ Fibonacci[5] = 8
  BY <1>2, FibonacciValues
<1>4. Fibonacci[6] = 13 /\ Fibonacci[7] = 21
  BY <1>3, FibonacciValues
<1>5. Fibonacci[8] = 34 /\ Fibonacci[9] = 55
  BY <1>4, FibonacciValues
<1>6. Signed(9) = 9 /\ 55 % WordSize = 55
  BY Borders DEF Signed
<1> QED
  BY <1>5, <1>6, Borders DEF Fib, Plus

LEMMA MainKept == IInv /\ Places /\ Recursion /\ MainOfFib /\ [Next]_vars => MainOfFib'
<1> SUFFICES ASSUME IInv, Places, Recursion, MainOfFib, [Next]_vars,
                    who' = "main", sample' = "fib"
             PROVE  MainOfFib'
  BY DEF MainOfFib
<1>0. /\ who = "main" /\ sample = "fib" /\ sample \in Samples /\ step \in 0 .. Len(This.main)
      /\ entry \in This.entries \cup {"none"}
  BY SampleStays DEF IInv, TypeOK
<1>1. /\ This.value /\ This.entries = {"fib"} /\ This.main = <<<<"fib", 9, 0>>>>
      /\ step \in {0, 1}
  <2>1. This.value /\ This.entries = {"fib"} /\ This.main = <<<<"fib", 9, 0>>>>
    BY <1>0, FibTable DEF This
  <2>2. Len(This.main) = 1
    BY <2>1
  <2> QED
    BY <1>0, <2>1, <2>2
<1>2. CASE Enable
  BY <1>0, <1>2 DEF Enable, Places, MainOfFib
<1>3. CASE MainEnds
  BY <1>0, <1>1, <1>3 DEF MainEnds, Goto, MainOfFib
<1>4. CASE MainCalls
  BY <1>0, <1>1, <1>4 DEF MainCalls, Enter, MainOfFib
<1>5. CASE Sancus
  <2>1. CASE FibBegin \/ (\E k \in {1, 2} : FibCall(k)) \/ FibReturn
    BY <1>0, <2>1 DEF FibBegin, FibCall, FibReturn, FibComputed, In, Goto, MainOfFib
  <2>2. CASE FibEnd
    <3>1. /\ pc = "fib" /\ pc' = "caller" /\ step' = step /\ entry' = entry /\ x' = x
          /\ total' = Plus(total, Fib(x))
      BY <1>0, <1>1, <2>2, FibEndsWith DEF FibEnd, FibComputed, Return, Num
    <3> QED
      BY <1>0, <3>1, FibOf9 DEF MainOfFib
  <2>3. FibBegin \/ (\E k \in {1, 2} : FibCall(k)) \/ FibReturn \/ FibEnd
    BY <1>0, <1>1, <1>5 DEF MainOfFib, Sancus, In, Places, IInv, Copying,
       enter_encl, another_entry, hello_enclave, foo_c_fct, basic_function, plus,
       sm_loader_load, set_number, disable_enclave, exit_success, CopyRefused, CopyAdmitted,
       Copy, CopyEnd, Loop, LoopEnd, Fib2Begin, Fib2Loop, Fib2End, fibonacci
  <2> QED
    BY <2>1, <2>2, <2>3
<1>6. CASE UNCHANGED vars
  BY <1>6 DEF vars, MainOfFib
<1>7. ~AnyCalls
  BY <1>0 DEF AnyCalls
<1> QED
  BY <1>2, <1>3, <1>4, <1>5, <1>6, <1>7 DEF Next, Caller

LEMMA InitRecursion == Init => RInv
  BY DEF Init, RInv, Recursion, MainOfFib, Nothing

LEMMA ResultsFollow == IInv /\ Places /\ RInv => Results
<1> SUFFICES ASSUME IInv, Places, RInv PROVE Results
  OBVIOUS
<1>1. sample \in Samples /\ entry \in This.entries \cup {"none"}
  BY DEF IInv, TypeOK
<1>2. sample = "fib" => entry # "disable_enclave"
  BY <1>1, FibTable DEF This
<1>3. pc = "exited" /\ sample = "fib" => total = 55
  BY <1>2 DEF Places, RInv, MainOfFib
<1> QED
  BY <1>3 DEF RInv, Recursion, Results, Fib

LEMMA RecursionInvariant == Spec => [](IInv /\ Places /\ RInv)
<1>1. Init => IInv /\ Places /\ RInv
  BY InitHolds, InitSums, InitRecursion DEF SInv
<1>2. IInv /\ Places /\ RInv /\ [Next]_vars => (IInv /\ Places /\ RInv)'
  BY StepKeeps, PlacesKept, RecursionKept, MainKept DEF RInv
<1> QED
  BY <1>1, <1>2, PTL DEF Spec

(* In every reachable state, for every word size and every argument: when   *)
(* the recursive fib has returned, its result is the Fibonacci number of    *)
(* the argument modulo the word size, whichever of the two calls each of    *)
(* its activations made first, and main has returned that of 9.             *)
THEOREM ResultsAreRight == Spec => []Results
  BY RecursionInvariant, ResultsFollow, PTL

(* Each activation waits for one with a smaller argument.                   *)
LEMMA DepthFollows == IInv /\ RInv => DepthBounded
<1> SUFFICES ASSUME IInv, RInv, pc = "fib"
             PROVE  Len(frames) <= IF Signed(x) < 2 THEN 1 ELSE x
  BY DEF DepthBounded
<1> DEFINE m == Len(frames)
           S == {k \in Nat : k \in 1 .. m => frames[k].n <= x - (k - 1)}
<1>1. /\ Stack /\ frames \in Seq(Activations) /\ m \in Nat \ {0} /\ x \in Word
      /\ \A k \in 1 .. m : frames[k].n \in Word
  <2>1. Stack /\ frames \in Seq(Activations) /\ frames # <<>> /\ x \in Word
    BY DEF RInv, Recursion, IInv, TypeOK, Activations
  <2> HIDE DEF m, S
  <2>2. m = Len(frames)
    BY DEF m
  <2>3. frames \in Seq(Activations)
    BY <2>1
  <2>4. m \in Nat \ {0}
    BY <2>1, <2>2, <2>3
  <2>5. \A k \in 1 .. m : frames[k] \in Activations
    BY <2>2, <2>3
  <2>6. \A k \in 1 .. m : frames[k].n \in Word
    BY <2>5 DEF Activations
  <2> QED
    BY <2>1, <2>3, <2>4, <2>6
<1>2. \A n \in Word : n \in Nat
  BY Borders DEF Word
<1>3. ASSUME NEW k \in 1 .. m - 1
      PROVE  /\ frames[k].n > 1 /\ Signed(frames[k].n) > 1
             /\ frames[k + 1].n < frames[k].n
  <2>1. Waiting(frames[k], frames[k + 1]) /\ frames[k].n \in Word
    BY <1>1 DEF Stack
  <2>2. PICK c \in {1, 2} : frames[k + 1].n = Minus(frames[k].n, c)
    BY <2>1 DEF Waiting
  <2>3. Signed(frames[k].n) > 1
    BY <2>1 DEF Waiting
  <2>4. Minus(frames[k].n, c) = frames[k].n - c
    BY <2>1, <2>3, FibAdds
  <2>5. frames[k].n > 1
    BY <1>2, <2>1, <2>3, Borders DEF Signed, Word
  <2> QED
    BY <1>2, <2>1, <2>2, <2>3, <2>4, <2>5
<1>4. ASSUME NEW k \in Nat, \A l \in 0 .. k - 1 : l \in S PROVE k \in S
  <2> SUFFICES ASSUME k \in 1 .. m PROVE frames[k].n <= x - (k - 1)
    OBVIOUS
  <2>1. CASE k = 1
    BY <1>1, <1>2, <2>1 DEF Stack
  <2>2. CASE k > 1
    <3>1. k - 1 \in S /\ k - 1 \in 1 .. m - 1 /\ k - 1 \in 1 .. m
      BY <1>1, <1>4, <2>2
    <3>2. frames[k - 1].n <= x - (k - 2) /\ frames[k].n < frames[k - 1].n
      BY <1>3, <2>2, <3>1
    <3>3. frames[k].n \in Nat /\ frames[k - 1].n \in Nat /\ x \in Nat
      BY <1>1, <1>2, <3>1
    <3> QED
      BY <2>2, <3>2, <3>3
  <2> QED
    BY <2>1, <2>2
<1>5. S = Nat
  <2> HIDE DEF S
  <2>1. S \in SUBSET Nat
    BY DEF S
  <2> QED
    BY <1>4, <2>1, Inductive, Zenon
<1>6. CASE m = 1
  BY <1>1, <1>2, <1>6, Borders DEF Signed, Word
<1>7. CASE m > 1
  <2>1. frames[1].n = x /\ 1 \in 1 .. m - 1
    BY <1>1, <1>7 DEF Stack
  <2>2. Signed(x) > 1
    BY <1>3, <2>1
  <2>3. m - 1 \in 1 .. m - 1 /\ m - 1 \in 1 .. m /\ m - 1 \in S
    <3> HIDE DEF m, S
    <3> QED
      BY <1>1, <1>5, <1>7
  <2>4. frames[m - 1].n <= x - (m - 2) /\ frames[m - 1].n > 1
    BY <1>3, <2>3
  <2>5. frames[m - 1].n \in Nat /\ x \in Nat
    BY <1>1, <1>2, <2>3
  <2>6. m <= x
    BY <1>1, <2>4, <2>5
  <2>7. ~(Signed(x) < 2)
    BY <1>1, <1>2, <2>2, Borders DEF Signed, Word
  <2> QED
    BY <2>6, <2>7
<1>8. m = 1 \/ m > 1
  <2> HIDE DEF m
  <2> QED
    BY <1>1
<1> QED
  BY <1>6, <1>7, <1>8

(* In every reachable state, for every word size and every argument, the    *)
(* activations of the recursive fib nest no deeper than its argument.       *)
THEOREM DepthIsBounded == Spec => []DepthBounded
  BY RecursionInvariant, DepthFollows, PTL

=============================================================================
