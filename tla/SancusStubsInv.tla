--------------------------- MODULE SancusStubsInv ---------------------------
(***************************************************************************)
(* The inductive invariant behind the properties of SancusStubs: what every*)
(* live activation keeps on its domain's stack, where the saved stack      *)
(* pointers point, and what the registers hold at each code address.       *)
(***************************************************************************)
EXTENDS SancusStubs

dom(k) == calls[k].dom
base(k) == calls[k].base

\* Stack words of activation k lie in Start(k)+1 .. End(k) once it waits for
\* an outcall: the entry stub's words up to base(k), eight words of the
\* function, then the words of the call stub and of the exit stub.
Start(k) == IF k = 1 THEN 0
            ELSE IF dom(k) = Unprotected THEN base(k) - 1 ELSE base(k) - 7
End(k) == IF dom(k) = Unprotected THEN base(k) + 11 ELSE base(k) + 17

\* Where the stack of domain d stands when activations 1..n wait: at its start
\* or at the end of the innermost of them that runs in d.
EndsAt(d, n, p) ==
    \/ p = 0 /\ \A j \in 1..n : dom(j) # d
    \/ \E j \in 1..n : /\ dom(j) = d /\ p = End(j)
                       /\ \A i \in j+1..n : dom(i) # d

\* Below, n is the number of live activations, the depth of the calls.

\* Domains alternate, and each activation starts on its domain's stack where
\* the previous activation of that domain ended.
Chain(n) ==
    /\ n >= 1
    /\ calls[1] = [dom |-> Unprotected, entry |-> 0, base |-> 0]
    /\ \A k \in 2..n : /\ dom(k) # dom(k-1)
                       /\ Start(k) >= 0
                       /\ EndsAt(dom(k), k-1, Start(k))
    /\ \A j, k \in 1..n : j < k /\ dom(j) = dom(k) => End(j) <= Start(k)

\* What register r other than r6 holds when activation k of domain e calls
\* domain d; what activation k was called with; and what its function finds
\* there after the entry stub used r6 and r11.
Given(e, k, d, r) ==
    IF r = "r7" THEN IF e = Unprotected THEN Label("cont", e) ELSE Label("entry", e)
    ELSE IF e = Unprotected THEN Data(e, k, r)
    ELSE IF r = "r8" THEN Label("entry", d) ELSE Zero
CallerReg(k, r) == Given(dom(k-1), k-1, dom(k), r)
FunReg(k, r) ==
    IF r = "r6" THEN IF dom(k) = Unprotected THEN Label("fun", Unprotected)
                     ELSE Num(6 * calls[k].entry)
    ELSE IF r = "r11" /\ dom(k) # Unprotected THEN Label("fun", dom(k))
    ELSE CallerReg(k, r)

\* The words the entry stub and the trampoline keep for activation k.
EntryFrame(k) ==
    LET s == stack[dom(k)] IN
    /\ s[base(k)] = Label("tail", dom(k))
    /\ dom(k) # Unprotected =>
         /\ s[base(k)-6] = CallerReg(k, "r4")
         /\ s[base(k)-5] = CallerReg(k, "r5")
         /\ s[base(k)-4] = CallerReg(k, "r8")
         /\ s[base(k)-3] = CallerReg(k, "r9")
         /\ s[base(k)-2] = CallerReg(k, "r10")
         /\ s[base(k)-1] = CallerReg(k, "r11")

\* The words of the function's prologue.
FunFrame(k) ==
    LET s == stack[dom(k)] IN
    /\ s[base(k)+1] = FunReg(k, "r4")
    /\ s[base(k)+2] = FunReg(k, "r5")
    /\ s[base(k)+3] = FunReg(k, "r6")
    /\ s[base(k)+4] = FunReg(k, "r7")
    /\ s[base(k)+5] = FunReg(k, "r8")
    /\ s[base(k)+6] = FunReg(k, "r9")
    /\ s[base(k)+7] = FunReg(k, "r10")
    /\ s[base(k)+8] = FunReg(k, "r11")

\* The words of the call stub, from base(k)+9 on, and of the exit stub.
StubFrame(k) ==
    LET s == stack[dom(k)] IN
       /\ s[base(k)+9] = Label("body", dom(k))
       /\ s[base(k)+10] = Data(dom(k), k, "r6")
       /\ s[base(k)+11] = Data(dom(k), k, "r7")
       /\ dom(k) # Unprotected => s[base(k)+12] = Data(dom(k), k, "r8")
ExitFrame(k) ==
    LET s == stack[dom(k)] IN
    dom(k) # Unprotected =>
        /\ s[base(k)+13] = Data(dom(k), k, "r4")
        /\ s[base(k)+14] = Data(dom(k), k, "r5")
        /\ s[base(k)+15] = Data(dom(k), k, "r9")
        /\ s[base(k)+16] = Data(dom(k), k, "r10")
        /\ s[base(k)+17] = Data(dom(k), k, "r11")

Complete(k) ==
    /\ k > 1 => EntryFrame(k) /\ FunFrame(k)
    /\ StubFrame(k) /\ ExitFrame(k)
    /\ End(k) <= StackWords

Running == pc[1] \in {"fun", "body", "tail", "exit"}

\* Activations that wait have all their words on the stack, the innermost one
\* as many as the code has pushed.
Frames(n) ==
    /\ \A k \in 1..n-1 : Complete(k)
    /\ n > 1 => EntryFrame(n)
    /\ n > 1 /\ pc[1] \notin {"fun", "tail"} => FunFrame(n)
    /\ pc[1] \notin {"fun", "tail", "body"} => StubFrame(n)
    /\ ~Running => ExitFrame(n) /\ End(n) <= StackWords

\* The saved stack pointer of a domain that does not run is the end of its
\* innermost activation.
SavedPointers(n) ==
    \A d \in Domain : (Running /\ d = dom(n)) \/ EndsAt(d, n, CurrentSp(d))

\* Registers and stack pointer at each code address.
AtFun(n) == /\ n > 1 /\ r1 = base(n)
            /\ \A r \in Saved : reg[r] = FunReg(n, r)
AtBody(n) == /\ r1 = base(n) + 8
             /\ \A r \in Saved : reg[r] = Data(pc[2], n, r)
AtTail(n) == /\ n > 1 /\ r1 = base(n) - 1
             /\ \A r \in Saved : reg[r] = FunReg(n, r)
Target(t) ==   \* r6 tells domain t what to run
    IF t = Unprotected THEN reg["r6"] = Label("fun", t)
    ELSE \E i \in 0..NEntries : reg["r6"] = Num(i)
AtExit(n) ==
    /\ pc[2] # Unprotected
    /\ r1 = base(n) + 12
    /\ \A r \in ExitClearsSaved : reg[r] = Data(pc[2], n, r)
    /\ \E t \in Domain \ {pc[2]} : reg["r8"] = Label("entry", t) /\ Target(t)
AtReturn(n) == reg["r6"] = RET /\ dom(n) = pc[2] /\ pc[2] # Unprotected
AtCall(n) ==
    /\ dom(n) # pc[2]
    /\ Target(pc[2])
    /\ \A r \in Saved \ {"r6"} : reg[r] = Given(dom(n), n, pc[2], r)
AtCont(n) ==
    /\ pc[2] = Unprotected /\ dom(n) = Unprotected
    /\ \A r \in Saved \ {"r6", "r7"} : reg[r] = Data(Unprotected, n, r)

Registers(n) ==
    /\ pc \in Place \X Domain
    /\ Running => dom(n) = pc[2]
    /\ pc[1] = "fun" => AtFun(n)
    /\ pc[1] = "body" => AtBody(n)
    /\ pc[1] = "tail" => AtTail(n)
    /\ pc[1] = "exit" => AtExit(n)
    /\ pc[1] = "entry" => AtReturn(n) \/ AtCall(n)
    /\ pc[1] = "cont" => AtCont(n)
    /\ pc[1] = "stop" => pc[2] # Unprotected

\* Without the store of r1 after the call, the unprotected functions that
\* modules call must not call modules themselves.
NoCallBack(n) ==
    ~ResavesSp =>
        /\ \A k \in 2..n : dom(k) = Unprotected => k = n /\ Running
        /\ Running /\ n > 1 /\ dom(n) = Unprotected
              => savedSp[Unprotected] = base(n) - 1

Consistent(n) == /\ Chain(n) /\ Frames(n) /\ SavedPointers(n)
                 /\ Registers(n) /\ NoCallBack(n)

IInv == TypeOK /\ \A n \in {Depth} : Consistent(n)
=============================================================================
