# Verification of the Pandora example enclaves

This directory holds TLA+ models of the programs in this repository, the TLC
configurations that check them on small instances, and theorems checked by
TLAPS. The repository is a collection of enclave programs for two trusted
execution environments, Sancus (MSP430) and Intel SGX. Most of the directories
are small programs kept as input for a validation tool, and many are wrong on
purpose. The code that has to be right for any of them to work is the runtime
that switches between protection domains, the production launch enclave in
`dcap-le`, and its signing tool. The models start there.

## Inventory

| Component | State | Operations | Interacts with |
|---|---|---|---|
| Sancus stubs (`sm_entry.S`, `sm_exit.S`, `unprotected_entry.s`) | registers, one stack per module, `__sm_sp` of each module, `__unprotected_sp` | entry, return through `__ret_entry`, tail after the called function, exit, trampoline | compiled functions and call stubs, by registers and stack words |
| Launch enclave (`dcap-le/main.c`) | local copy of the request, token under construction; request and output in shared memory | `encl_body`, `create_einittoken`, `sign_einittoken`, `rdrand_uint32` | host process (shared memory), EREPORT, EGETKEY, EINIT |
| CMAC (`dcap-le/cmac.c`) | round keys, chaining state, unprocessed block and its length, subkeys | `mbedtls_cipher_cmac` with setkey, update, subkeys, finish | called by the launch enclave |
| SGX entry code (bootstraps of the SGX enclaves) | registers, stack of a TCS | enter, exit | EENTER, EEXIT, C functions |
| Signing tool (`dcap-le/sgxsign.c`) | files, SIGSTRUCT | measure, sign, gendata, usesig | file system, external signer |
| `dcap-le/bin2c.c` | input and output file | convert | make |
| Selftest enclaves (`test_encl.c` of Pandora and of Linux) | `encl_buffer`, unmeasured buffer, two TCSs | nine put, get, call and nop operations; `sgx_is_outside_enclave` | host (operation struct in shared memory) |
| Inclavare runtime (`encl.c`) | call table | `encl_init`, `encl_get_report` | host, EREPORT |
| Intel SDK sample | enclave id | initialize, ecall, ocall, destroy | SDK |
| Sancus sample modules in C (`main.c` of `full_encl`) | private variable of a module, calls of main | entry points, enable, disable | stubs, Sancus library, caller's memory |
| Sancus case studies (`t2w`) | arguments, private data | range checks, `sm_loader_load`, `enter_encl`, `__sm_handle_input` | stubs, Sancus library, caller's memory |
| Sancus assembly corpora (`cfsan`, `ptrsan`) | registers, secret section, in some a stack of their own | one entry point each | the caller's registers and memory |

What makes each correct, and what is hard about it:

* **Stubs.** A call between domains must behave like a subroutine call:
  callee-saved registers and stack pointers come back, returns are last-in
  first-out, nothing of a module stays in a register it does not pass. It is
  hard because one call is spread over six pieces of code that agree only on
  registers and pushed words, because a module can be entered again while one of
  its functions waits, and because a return and a call arrive at the same entry
  point.
* **Launch enclave.** A token is signed only for what the checks allow, a
  reported success means a usable token, a refusal of the provisioning key leaves
  none, and every call returns. It is hard because the request and the answer live in memory that
  other threads write, and because the masks in three places have to agree.
* **CMAC.** The MAC is the one RFC 4493 defines for every length: the last block
  is held back, complete or not, and gets the right subkey. The subkeys are
  products in a field, computed byte by byte. Nothing of the keys stays behind.
* **Signing tool.** A SIGSTRUCT is written only if it measures the enclave that
  was signed, also when files change between or during the steps.
* **Selftest.** Each level of FIX_SANITIZATION protects something: the struct of
  an operation lies outside, the table of operations is not left, a checked
  address is the address used, nothing private gets out. It is hard because the
  structs stay in memory the host writes, addresses wrap around, and two TCSs
  share the buffers.
* **Sample modules.** What a check of a buffer lets through is read outside of the
  module, what it turns away is not, the loops and recursions end and compute what
  they are named for, for any caller. It is hard because words wrap around,
  a size in bytes is not a number of elements, and lengths have a sign.
* **Corpora.** A program named `nor_` gives its suite nothing to report on any
  path, a program named `rep_` does what its suite is to report. It is hard
  because that depends on a final jump, a comparison, or one `#`.

The list `hazards` of `PROJECT.json` names the lines where each of these bites.

## Modules

| Module | Contents |
|---|---|
| `AbstractCalls` | what the stubs promise: subroutine calls between domains |
| `SancusStubs` | the stubs, one action per stub |
| `SancusStubsInv` | the inductive invariant of the stubs |
| `SancusStubsInvProofs` | types; the invariant is inductive; what follows from it; the stubs implement `AbstractCalls` |
| `SancusStubsMC` | constants for TLC |
| `LaunchEnclave` | the launch enclave and the threads of its host; its inductive invariant |
| `LaunchEnclaveProofs` | theorems about the launch enclave |
| `LaunchEnclaveMC` | constants for TLC |
| `Sgxsign` | the signing tool, the header converter and the make recipes around them |
| `SgxsignProofs` | types; undisturbed success means headers that EINIT accepts; the size of the enclave |
| `SgxsignMC` | constants for TLC |
| `SelftestEnclave` | the selftest enclaves at every level, with two TCSs and their host |
| `SelftestProofs` | the range check, and what the levels protect |
| `SelftestEnclaveMC` | constants for TLC |
| `Cmac` | the CMAC of the launch enclave, and the definition of RFC 4493 |
| `CmacProofs` | the MAC, the subkeys and the wiping, for every block size and length |
| `CmacMC` | constants for TLC |
| `SancusCorpus` | the programs of the two assembly suites and the instructions they use |
| `SancusCorpusProofs` | what the programs' names promise, for any words |
| `SancusCorpusMC` | constants for TLC |
| `SancusSamples` | the sample modules and case studies in C, with their callers |
| `SancusSamplesProofs` | types, what is read and refused, sums, and the recursion of `fib` |
| `SancusSamplesMC` | constants for TLC |
| `Induction` | induction over the natural numbers, and the functions it defines |

### SancusStubs

State: `reg` (r2 and r4..r15), `pc` (the code address that runs next), `r1` (the
stack pointer, counted in words of the running domain's stack), `savedSp`
(`__sm_sp` of each module, `__unprotected_sp`), `stack`, and the history variable
`calls`, the list of live activations, which no action's guard depends on except
for the nesting bound.

Each stub runs without a branch back, and modules run with one thread and no
interrupts (`sm_isr.S` is empty), so a stub is one atomic action:

| Action | Code |
|---|---|
| `EntryCall` | `sm_entry.S` from the stack switch to `call r11` |
| `EntryError`, `Stopped` | `.Lerror`: branch to `exit`, which stops the CPU |
| `EntryReturn` | the stack switch and `__ret_entry` in `sm_exit.S` |
| `EntryTail` | `sm_entry.S` after `call r11`: pops, clearing chain, `br r7` |
| `Exit` | `__sm_exit` |
| `TrampolineCall`, `TrampolineTail` | `__unprotected_entry` before and after `call r6` |
| `Prologue`, `Epilogue` | external: a compiled function saves and restores r4..r11 |
| `CallStub`, `CallStubReturn`, `OutcallStub` | external: the call stubs the Sancus compiler generates |

The external actions follow what the stubs demand of their surroundings, and
were compared with the code in the `main.elf` images the repository ships: the
unprotected call stub pushes r6 and r7 and stores r1 to `__unprotected_sp`; the
call stub in a module pushes r6, r7 and r8; r7 carries one flag bit for the
number of argument words; the third word of a table entry one for the number of
result words.

Data is abstract: a word is a number, a code address or data tagged with the
domain, the activation and the register that produced it. That is enough to see
whether a register of one activation ends up in another one, or in another
register, or leaves a module. Writing a stack word does not erase the words
beyond the stack pointer, so a stale stack pointer finds the words of a finished
call, as it would in memory.

Assumptions of the model, all visible in the code or its documentation:

* Callers respect the calling convention. In particular the return code is used
  only to answer an outstanding outcall. The READMEs of the two `t2w_1`
  directories describe what happens otherwise; the stubs do not check it.
* A module's function does not run out of stack. The stubs have no check.
  `StackWords` and `MaxDepth` bound the model instead and appear as guards
  (`Room`, `Depth < MaxDepth`).
* `CallsBack = FALSE` restricts the unprotected functions that modules call to
  those that do not call modules themselves. See the finding below.

### LaunchEnclave

State: `req` (the `sgx_launch_request` in shared memory: the input fields, the
output token and the result), `loc` (the local copies in `encl_body`), `token`
(the local token), `words` and `tries` (the two loops around rdrand), `ret`, the
program counter, and `writes`, which counts the writes of other host threads in
the current call. Each access to shared memory is a step: the four fetches, the
two writes of a refusal, the write of the result, and the read of the result
with the copy of the token. One call runs at a time, because the enclave has one
TCS with one state save area.

The host may set up any request between calls and keeps the output of the
previous one, and its other threads may write a field of the request or clear
the output at any point of a call. A fetch of a field is one step although it
copies bytes; a torn copy is one more value of the field, which the checks see
like any other. The cryptography is abstract: a MAC is the pair of key and
payload. EGETKEY and EINIT derive the key as the architecture defines it from
the fields this code fills in, which is what makes the masks matter. EREPORT
leaves 0 in rax or faults, and the CMAC function fails only for null pointers,
so these two error branches cannot be taken and are left out; so is the return
for a null request, which changes nothing.

One assumption is the caller's: the request lies in memory of the host. `encl_body`
copies from and to the pointer it is given (`main.c:196` to 217) and does not
check that it leads outside of the enclave. `Call` starts from a request that does.

### Sgxsign

State: `files` (the enclave file, the signing material, the external signature,
the SIGSTRUCT and the two C headers) and `mtime`; the recipe that runs (`job`,
`pc`, `status`); the variables of the process it runs (`open`, `src`, `size`,
`offset`, `ctx`, `ss`, `hdr`), which are reset when it exits. A recipe is a
sequence of processes that only share files: `sgxsign sign` or `sgxsign usesig`
followed by two runs of `bin2c`, or `sgxsign gendata` alone.

Every fopen, stat, fread and fwrite of the enclave file, of the tools' outputs and of
the headers is a step (`OpenEnclave`, `StatEnclave`, `MeasurePage`, `OpenOutput`,
`WriteOutput`, `OpenHeader`, `OpenInput`, `StatInput`, `ConvertPage`,
`CloseHeader`). The key is loaded in one step, and the signature too: the stat, open
and read of `load_sig` are one (`LoadSig`), so that a signature is delivered before
or after them. Between any two of them the enclave
file may be replaced by another one, removed, or overwritten in place, the
external signer may deliver a signature, a read or write may fail, and the user
may interrupt make. `stat` looks at what the path names now, `fread` at the file
that was opened (`Opened`), as in the code.

A digest is the sequence of its updates, so two measurements are equal only if
they come from the same ECREATE, EADDs and EEXTENDs. A number stored as bytes
carries its byte order: RSA_sign, BN_bn2bin and calc_q1q2 work on big-endian
numbers, EINIT on little-endian ones. `Measured` is what the driver makes of the
blob in the header and is written independently of the tool's own operators.
calc_q1q2 may refuse a signature that was made with another key. Opening an
output file may fail; that it truncates the old contents is modelled.

The comment on `measure_encl` says that it does not measure the contents of the
enclave. It does (`sgxsign.c:372`), and the model follows the code.

### SelftestEnclave

One module for three programs, told apart by `build`: the Pandora selftest
enclave at FIX_SANITIZATION 0 to 4 (`prog = "test"`, always built with
EEXIT_SANITIZATION 2), the older Linux one (`"linux"`), and `nop_encl.c`. State: `mem` (the kind of content of each cell of the enclave),
and per TCS `pc`, `op` (its argument) and the arguments and index of its memcpy.
`astray`, `leaked` and `raced` are history variables that no guard reads.

| Action | Code |
|---|---|
| `Enter`, `Leave` | `encl_entry`: stack of the TCS, pushed words, EEXIT |
| `CheckHeader`, `ReadType`, `ReadIndex` | `encl_body`: the header check and the dispatch, where the levels below 2 read the type twice |
| `Refuse` | the struct check at the head of each operation |
| `PutToBuf` ... `CallNonExec` | the nine operations |
| `CopyCell`, `MoveWord` | one round of memcpy; the one move of `get_from_unmeasured` |
| `Fill`, `Run` | the loop that fills the unmeasured buffer, and the call into it |

Memory is a row of `M` cells of 4 bytes that wraps around, so that a field of 8
bytes can lie across a border. A host cell has no state: what the enclave reads
there is any number, which is what a host with other threads can do. A jump out
of the code ends what is followed of a TCS (`lost`). What an offset into
`src[offset]` reaches depends only on what the two halves of the offset hold,
which `Sources` says. What a call leaves in registers is not followed: neither the
volatile ones, the flags and the extended state that the entry code cleans, nor
the three values of EEXIT_SANITIZATION that `nop_encl.c` is built with.

### Cmac

One call of `mbedtls_cipher_cmac`, the only exported function, step by step. A
byte of the message is its position, AES a free constructor, so that the
chaining state is the list of the blocks encrypted into it, and two MACs are
equal only if the same blocks went in, in the same order and with the same
subkey. Only the value of the zero block, from which the subkeys come, has
bits: a byte is the set of its ones, and the constants `B`, `W` and `R` (block
size, byte width, the ones of R_n) are free. The branch of the update for the
rest of an earlier update (`cmac.c:299`) cannot be reached: the function's one
caller calls it once, on an empty context. Null checks are left out, too.

### SancusCorpus

The programs are data, a sequence of instructions each, and the actions are the
instructions, which are external. A program is run for every choice of words in
the registers it takes from its caller and in the memory it reads outside of its
own. The reports of the tool the suites were written for are external as well
and follow the README of each suite: an address the caller chose used for memory
of the module, or one of the module's own for memory outside; a jump to an
address the caller chose or to memory that is not executable; the end of the
code reached without a jump. Addresses keep their order and the regions they lie
in, not their distances.

The programs are modelled as they are, which is not always what their comments
say:

* The two `reladdr` programs compare with the word at the start of the section
  and not with its address, because the operand lacks its `#`
  (`foo.S:14`, comment in lines 12 and 13).
* `bb_cross_enclave_boundary_5` (`foo.S:15`) and `no_priv_stack_1` (line 15)
  call through memory for the same reason.
* In `nor_asm_br_within_encl_0` the number that a comment calls the address of
  `__sm_foo_public_end` is that of label 1.
* Both READMEs say that `nor_` and `rep_` programs produce no report. The names,
  and the reports kept with the programs, say that `rep_` programs do.

`RepFlagged` asks nothing of the four programs that lack a `#`.

### SancusSamples

The C modules of `full_encl` and `t2w`, one of them (`sample`) at a time. An entry
point with a loop or a recursion takes one action per round, any other one is a
single action; the module runs with one thread. Its caller (`who`) is either the
main of its file, whose calls are listed in `AllSamples`, or any code, which calls
any entry point with anything, as often as it likes. State: `data` (`priv_data`,
`fib_number`), `id` (is the module enabled?), the arguments `x` and `y`, the loop
counters and locals, the activations of the recursive `fib`, what the call
returned, what main has added up, and `read`, the word last read through the
caller's pointer.

A number is a word of `WordSize` values that wraps around; the code decides where
it is compared as signed. A pointer to an int may be odd: the processor then reads
the aligned word, as the shipped `main.elf` would. What lies at the caller's
pointers has no state, so the sum of `do_loop` and the fields that the loader
reads are any words. `sancus_is_outside_sm` is code of the Sancus runtime and
modelled as it is linked into the `main.elf` of `t2w_4_fixed`. What is read
beyond what a check vouches for is followed, too, and nothing is said of it:
`Vouched` is all of the buffer for the fixed version, half of it where the size of
an int is forgotten, and its first element where the bytes are added to a
pointer to int (`t2w_4_vulnerable`).

Two functions of `comp_gen_test_1` that are no entry points and that nobody calls
are left out, and so is `t2w_2` (see below).

## Runs

| Run | Question | Bounds and why they are enough |
|---|---|---|
| `stubs_nested` | Do the stubs implement subroutine calls, restore registers and stack pointers exactly, use no more stack than the live calls need, and terminate, when modules and unprotected code call each other in any order? | Two modules and depth 4: unprotected, module, the other module or unprotected, and back into the first module that still waits, which is the shape of every re-entry. One entry point, plus one index beyond the table. |
| `stubs_flags` | Does a module leave data in an unused register? | Entry points with 0, 1, 2 and 4 result words and calls with 0 to 4 argument words: every path of both clearing chains. Trampoline as in the source file, no callbacks. |
| `stubs_stale_sp` | Does the trampoline of `unprotected_entry.s` survive a function that calls a module? (violated) | as `stubs_nested` |
| `launch_policy` | Can concurrent host writes, failing rdrand or EGETKEY, or a reused request make the enclave sign what it refuses, leave a token after a refusal, report success without a usable token, take more than its bound of steps, or not return? | Two measurements, a listed and an unlisted signer, the provisioning bit and a reserved bit in all combinations; one concurrent write per call, at any point and to any field, over any sequence of calls; 2 words and 3 tries. One write is enough to change a value between any two accesses. |
| `launch_no_key` | What does a failing EGETKEY lead to? (violated) | as `launch_policy`, without concurrent writes |
| `sign_pipeline` | Does a recipe that succeeds leave a pair of headers that EINIT accepts? | Two recipes (a gendata needs a usesig after it), one disturbance at any step, images of one and of three pages (the second is no power of two) and a file that is no whole number of pages; pages of two chunks, so that the order within a page shows; two keys, dates and vendors, so that gendata and usesig may disagree on each. |
| `sign_read_error` | What does a read of nothing lead to? (violated) | One image, one recipe, one disturbance |
| `selftest` | What does each level protect, for any struct and any interleaving of two TCSs? | All builds. 22 cells: the enclave between two stretches of host memory. Structs outside, half inside, inside, and wrapping around; addresses on both borders, in both stacks, on the function, and at the end of memory. Below level 3 nearly everything can be overwritten and next to nothing is promised: there, the constraint `Followed` keeps one TCS in the enclave at a time and stops after the first damage. From level 3 on nothing is cut. |
| `cmac` | Is the MAC right for every length, are the subkeys, is everything wiped? | Blocks of 3 bytes of 2 bits, all 64 values of the zero block, 0 to 13 bytes: no block, one to four blocks, complete or not; carries over both borders of bytes. |
| `cmac_wipe` | Are all transients wiped? (violated) | as `cmac` |
| `corpus` | Do the programs of the suites do what their names say? | All programs, and 14 words on both sides of every border they compare with or lie at |
| `sancus_samples` | Do the sample modules read only what they may, refuse only what they must, compute what they are named for, and end, whoever calls? | All samples. Words of 12 bits, which hold every argument a main passes; sections of the sizes and at the places of the shipped `t2w_4_fixed`, the text section moved down; pointers on and next to their borders, even and odd; lengths that reach into a section, end before it, span one, wrap around or are negative; `fib` up to 7, and 9 in its main, in every order of its recursive calls. |

### Properties

* `CallerStateRestored`: whenever compiled code runs, it is the innermost
  activation, on its own frame, with its own values in r4..r11.
* `SavedSpExact`: the stack pointer saved for a module that does not run is the
  end of the innermost frame that waits there, or the empty stack.
* `NoResidue`: a step that leaves a module leaves data of the module only in the
  registers that pass declared arguments or results.
* `StackUse`: a stack holds the words of the live activations of its domain, 24 for
  each in a module and 12 in unprotected code, and none left behind by a call that
  is over; the stubs compare r1 with no limit.
* `StubsShorten`: compiled code is at most three stubs away.
* `StubsTerminate`: control always comes back to compiled code, or to `exit`.
* `ImplementsCalls`: `SancusStubs` refines `AbstractCalls`. The refinement
  mapping reads the running activation off the tag of register r4, so a stub
  that resumed the wrong activation would not refine.
* `SignedAllowed`: no token EINIT accepts exists for refused attributes.
* `SuccessVerifies`: success on an untouched request means a token EINIT accepts
  for exactly that request, or, in a call in which EGETKEY failed, a token without
  a MAC (see the finding).
* `RefusalClears`: a call that refuses the provisioning key leaves no token EINIT
  accepts, also none of an earlier call. It speaks of no other error: when rdrand
  gives up or an attribute is reserved, the code leaves in the output what was
  there (`main.c:214`), and the result alone says that it is not the answer.
* `CallsBounded`: each step of a call leaves fewer to take, at most `Tries` for
  each word that rdrand has to provide.
* `CallsReturn`: every call returns.
* `SuccessMeansLoadable`: a recipe that succeeds undisturbed leaves headers EINIT
  accepts; after usesig exactly when the signature was made with that key for
  this content, date and vendor. That usesig succeeds for a signature that does
  not fit is what the code does: it never verifies one.
* `PrivateIntact`: from level 3 on the enclave outside of its two buffers stays
  as it is.
* `NoSecretOut`: at level 4 nothing private is written to the host's memory, also
  when the two TCSs use the unmeasured buffer at the same time.
* `ControlKept`: which jumps stay on course at which level. The race of two TCSs
  on the unmeasured buffer (one resets it between the other's `Fill` and `Run`)
  happens at levels 3 and 4 and is recorded in `raced`: nothing in the code
  prevents it, and no property could demand its absence. At level 4 it costs a jump
  into that buffer and nothing else: the stacks and the table stay in order.
* `TagIsCmac`, `SubkeysAreMultiples`, `ContextsWiped`: the MAC of RFC 4493, the
  subkeys as products with u, and nothing left of the keys. The reference is
  written independently: `Reference` from the RFC's definition, `TimesU` on the
  block as one set of bit positions.
* `NorClean`, `RepFlagged`: reports of the corpora's programs, on every path.
* `ReturnsOnCallersStack`: `nor_` programs with a stack of their own leave on the
  caller's, except for `nor_asm_2`. That one returns to a word of its caller's
  from its own stack, before it reaches its `pop r1` (`foo.S:17` to 19), and the
  property says where it ends: one pop away from the caller's stack pointer.
* `ReadsOutside`: an element that the check of `copy_data_from_buffer` vouches for
  is read outside of both sections.
* `RefusesOnlyInside`: a buffer that the check of `t2w_4_fixed` refuses runs over
  the end of memory or has a byte in one of the sections.
* `Results`, `Sums`: `fib` returns the Fibonacci number of its argument modulo the
  word size, in whatever order it adds; `fibonacci` returns 5 however often it is
  called; the mains return the sum of their calls.
* `DepthBounded`: the activations of `fib`, all on the private stack, nest no deeper
  than its argument, although there are exponentially many calls.
* `CallsEnd`: every call of a sample comes back or disables the module.

### Fairness

`SancusStubs` assumes weak fairness of the next-state relation: a CPU does not
stop executing instructions. `LaunchEnclave` assumes weak fairness of the steps
of the enclave: a thread that was interrupted inside the enclave is resumed.
Nothing is assumed of the host's other threads, and none of rdrand: the code's
own bound must make a call return. `SancusSamples` assumes weak fairness of the
module's steps, not of its callers': the CPU goes on. The other modules state safety only and
assume none.

### Findings

* `stubs_stale_sp`: `unprotected_entry.s` does not store r1 to
  `__unprotected_sp` after its call. When the function it called has itself
  called a module, the pointer is that of a finished frame, and the next return
  into unprotected code uses it. The `main.elf` in the same directory was linked
  with a copy that has the store; with it (`ResavesSp`) the property holds.
* `launch_no_key`: `sign_einittoken` answers an error of EGETKEY with
  `return false`, which its callers read as `SGX_SUCCESS`, and the enclave hands
  out a token without a MAC.
* `sign_read_error`: a read of 0 bytes ends the measuring loop of `sgxsign`
  without an error, and the tool saves the measurement of no enclave.
* `cmac_wipe`: `cmac_finish` says that it wipes the generated keys and any other
  transients, and leaves `M_last`, the last block xored with a subkey.

Neither tool checks all of its output operations: `save_output` ignores fwrite,
and bin2c exits with 0 when it cannot open a file. `WriteOutput`, `OpenHeader`
and `OpenInput` model this; `SuccessMeansLoadable` says nothing of a recipe in
which it happens.

## Proofs

All theorems hold for every value of the constants that meets the assumptions
named in the modules.

### Stubs

Assumptions: `StubsAssumption` (names differ, the entry table fits in a word,
functions return 0, 1, 2 or 4 words, main's frame fits on the stack) and, for
everything but the types, `ResavesSp \/ ~CallsBack`: the trampoline stores r1
after its call, as in the linked images, or the functions modules call do not
call modules. Without it `CallerStateRestored` is false (`stubs_stale_sp`).

| Theorem | Statement |
|---|---|
| `TypeCorrect` | the types, for every nesting depth and stack size |
| `StubsInvariant` | the inductive invariant `IInv` |
| `CallersRestored` | `CallerStateRestored` |
| `SavedSpsExact` | `SavedSpExact` |
| `NothingLeft` | `NoResidue` |
| `StacksExact` | `StackUse` |
| `StubsAreShort` | `StubsShorten` |
| `StubsImplementCalls` | `ImplementsCalls`, the refinement of `AbstractCalls` |

`CallerStateRestored` is not inductive: what a register holds after a return was
popped from a stack word that was pushed many calls ago. `IInv` says where those
words are. `Chain`: an activation of a domain starts on the domain's stack where
the previous activation of that domain ended (`Start`, `End`), so frames never
overlap. `Frames`: an activation that waits has all its words there, each with
the value its register had; the innermost one has as many as the code has
pushed. `SavedPointers`: the saved stack pointer of a domain that does not run is
the end of its innermost activation. `Registers`: what r1, r6, r7, r8 and the
callee-saved registers hold at each code address, which tells a call from a
return at the entry point. `NoCallBack` is the extra fact that holds when the
trampoline does not store r1. There is one lemma per action. A push happens on
the frame of the innermost activation or where a stack stands; `RunningPush` and
`OutsidePushed` show that either leaves every other frame alone. `NothingLeft`
needs `Registers` for r6 to r8 and `Frames` for the words the entry stub
restores. In the
refinement the entry stub, the exit stub and their tails
map to accepting, stuttering and returning, and prologues, `__ret_entry` and
call stubs to resuming and calling.

`StacksExact` counts: `Chain` puts each activation where the previous one of its
domain ends, so by induction over the activations (`Inductive` of module
`Induction`) the stack pointer is the sum of the frames of the activations alive,
each of which has its full size when another one was entered above it.
`StubsAreShort` reads from `Registers` and `Frames` to which stub or code each
popped address leads; `StubsLeft` is the variant that makes `StubsTerminate` true.

### Launch enclave

Assumption: `LaunchAssumption`. EGETKEY may fail, and rdrand as often as it likes.

| Theorem | Statement |
|---|---|
| `TypeCorrect` | the types |
| `OnlyAllowedSigned` | `SignedAllowed`, whatever the host's threads write |
| `RefusalLeavesNoToken` | `RefusalClears` |
| `SuccessIsUsable` | `SuccessVerifies` |
| `CallsAreBounded` | `CallsBounded`, with a bound in `KeyWords` and `Tries` |

The argument for `SignedAllowed` is that the checks and the token use the same
local copies: `Allowed` holds of the token under construction and of every token
in shared memory that EINIT accepts. The other two relate the answer to the
request it is about. `Agrees` says that the local copies equal the request while
the host has not written to it, `Filled` and `Signed` what the token contains at
each line, `Answers` and `Refuses` what is in shared memory between the write of
the result and the exit. `CallsAreBounded` needs `Trying` of the loop around
rdrand: tries are left to the word that is being drawn, and none was made for a
word that is not needed.

### Signing tool

Assumption: `SgxsignAssumption`, and for `SuccessIsLoadable` that `NoFile`, the
value of a name without a file, is not a sequence of one part. Images may have
any number of pages and need not be whole pages.

| Theorem | Statement |
|---|---|
| `TypeCorrect` | the types, for any images, keys, dates and number of disturbances |
| `SuccessIsLoadable` | `SuccessMeansLoadable` |
| `EnclaveFits` | the loop of `mrenclave_ecreate` chooses an enclave that holds the pages and is less than twice as large, for every number of pages |

`Sized` strengthens the types: every file is a sequence, also one that an
interrupted tool left empty or that bin2c padded, so that what stat reports is a
size. `Started` says that a tool runs for one of the three recipes.

`SuccessMeansLoadable` speaks of the last step of a recipe, and what makes it true
was done many steps earlier, by another process. `Progress` says for each place in
a recipe what has been achieved when control is there and nothing has disturbed
it yet (`Achieved`): the key and vendor are in the SIGSTRUCT, so many pages have
been measured, the measurement is that of the blob, the file holds a SIGSTRUCT
that is final (`IsFinal`), the header holds the first so many bytes of its
source. Nothing has to be said of a disturbed recipe but that the blob is one of
the images or what is left of one, which is why failures and interruptions of
earlier recipes do no harm. There is one lemma per action. That the pages
measured add up to the measurement the driver makes is shown position by
position: both are sequences of updates of which each one is determined by its
position, so no induction over the pages is needed.

`EnclaveFits` does need one: `Doubled`, the sizes that the loop runs through, is a
recursive function; that it has a value everywhere is `RecursiveFunction` of
`Induction`, and that it exceeds any number of pages is `Inductive`.

### Selftest enclave

Assumption: `SelftestAssumption`: the enclave fits between the ends of memory and
holds its buffers, one function and a stack for each TCS, no two of them the
same.

| Theorem | Statement |
|---|---|
| `OutsideIsOutside` | `sgx_is_outside_enclave` accepts a range only if it neither wraps around nor meets the enclave, for every range no longer than memory |
| `TypeCorrect` | the types |
| `PrivateStaysIntact` | `PrivateIntact` |
| `NothingLeaks` | `NoSecretOut` |
| `ControlIsKept` | `ControlKept` |

They hold for any number of TCSs and any enclave. The invariant says of each TCS
that is between a check and the copy it guards what the check established:
`Inv3` that from level 3 on the target of a copy is a cell of the buffers or
outside, `Inv4` that at level 4 its source is too and that an offset about to be read is
one a reset or a fill leaves, and `InvC` what the unmeasured
buffer holds while a TCS fills it and no other one has reset it. Private cells
keep their content because no copy ends in one, and so every call pops what it
pushed. Two lemmas carry the interleaving: a step of one TCS changes nothing of
what the invariant says of another (`FrameLemma`), and a step that writes no
memory keeps the rest (`QuietLemma`).

### CMAC

Assumption: `CmacAssumption`; block size, byte width, R_n, the lengths and the
values of the zero block are arbitrary.

| Theorem | Statement |
|---|---|
| `TypeCorrect` | the types; the rest that is kept fits into its block |
| `TagCorrect` | `TagIsCmac` |
| `SubkeysCorrect` | `SubkeysAreMultiples` |
| `WipedCorrect` | `ContextsWiped` |

The loop invariant of the update is that the blocks before j are absorbed and
that at least one byte is left unless the message is empty; with the number of
blocks as a rounded quotient it leaves exactly the reference's last block. For
the subkeys, `Multiplying` says that behind the index the product is that of
all bytes shifted at once, and that the bit handed on is the one the next byte
needs. `ProductIsTimesU` then relates bytes to the block as a set of positions:
a position has one byte and one bit (`PosUnique`), a shift of all bytes moves
each position up by one (`OnesDoubled`), and the mask acts on the last byte only
(`OnesReduced`). It needs that R_n lies within one byte.

### Corpora

Assumption: `CorpusAssumption`: the programs are those of the suites and words are
integers. The words that the caller passes and that memory outside holds are
arbitrary, where the run takes 14 of them.

| Theorem | Statement |
|---|---|
| `TypeCorrect` | the types; control stays on an instruction of the program |
| `NorProgramsAreClean` | `NorClean` |
| `NorProgramsReturnTheStack` | `ReturnsOnCallersStack`, with `nor_asm_2` as the exception it names |
| `ProvokedProgramsAreReported` | `RepFlagged` |

What they do not say: `NorClean` is about the reports of a program's own suite, so
`nor_asm_2` of `ptrsan` may and does leave through a word of the caller's, which
`cfsan` would report; `RepFlagged` is about the arguments that provoke a program
(`Provoked`), which for the four programs that lack a `#` is none.

Each program that branches, pushes or stores has an assertion per instruction, as
in a proof by Floyd's method: `NorInv` and `RepInv` are the conjunctions of these
over the programs. `NorInv` keeps where the stack pointer is, what the saved words
contain and which words are still the module's own (`SwitchesStack`,
`PushesOnce`, `BranchesToItself`). `RepInv` says that as long as the program has
not been reported, the run has not ended and what will be reported still lies
ahead (`Pending`), with the register that will provoke it unchanged since the
entry.

### Sample modules

Assumption: `SamplesAssumption`: an even word size above 1280, the largest
argument of a main; sections that are not empty and have even borders; any
arguments.

| Theorem | Statement |
|---|---|
| `TypeCorrect` | the types; what is read is an aligned word |
| `CopiesFromOutside` | `ReadsOutside`, for every pointer, length and place of the sections |
| `NothingElseRefused` | `RefusesOnlyInside`, for the same |
| `SumsAreRight` | `Sums` |
| `ResultsAreRight` | `Results` |
| `DepthIsBounded` | `DepthBounded` |

`ReadsOutside` is not inductive: it speaks of the word read last, and the check
was made before the loop. `Copying` says that in the loop the check holds of the
arguments, the length is not negative and what was read is the element before
the counter. `RangeOutside` and `CheckedOutside` show that a range which the
check accepts does not wrap around and that each of its elements lies outside; an
odd pointer reads one byte below the range, and `AlignedBelow` and `AlignedAbove`
show that this byte is outside, too, because the borders are even. `RangeRefused`
is the converse: a range that does not wrap and is refused shares its first byte
or the section's first byte with the section. `SInv`
carries the sums: which entry point control is in (`Places`), that locals are
reset between calls (`Between`), the values of the loops of `fib2` per round
(`Adding`) and what a main has added up (`Adds`).

`ResultsAreRight` needs `RInv`, which speaks of every activation of the recursion at
once: one that waits has added, modulo the word size, the Fibonacci numbers of the
calls that are over, in whichever order it makes its two calls; the one above it
has the argument of the call it waits for; and the innermost one has added what
its `todo` no longer names. So its result is the number it was called for
(`FibEndsWith`), and popping it keeps the others' sums right. `Fibonacci` is a
recursive function: that it satisfies its own equation for every number follows
from `RecursiveFunction` of `Induction`. `DepthIsBounded` follows from the same
invariant by induction over the activations: each has a smaller argument than
the one that waits for it.

### Induction

The library states induction with an operator as a parameter, which cannot be
instantiated here. `Induction` therefore restates it for sets (`Least`, `Inductive`),
from the well-foundedness of the natural numbers, and proves from it that a function
defined by a step that looks only at smaller arguments exists and satisfies its
equation (`RecursiveFunction`). A property is then proved of every number by
collecting the numbers that have it in a set.

### Left to TLC

* `StubsTerminate`, `CallsReturn` and `CallsEnd`: liveness under fairness is out of
  the prover's reach. What is proved is that a variant decreases with each step of
  the stubs (`StubsShorten`) and of a launch call (`CallsBounded`); that a step is
  enabled there as long as the variant is positive, which liveness needs besides,
  is up to TLC. `fib` makes exponentially many calls, and of its
  termination only the depth is proved.
* `SuccessHasMac`, `EveryPageMeasured`, `TransientsWiped` and the run
  `stubs_stale_sp` are refutations.

## Not modelled

* **Entry code of `dcap-le` and `inclavare`.** A straight line of register moves
  around one call, with one TCS, one state save area and no state that survives
  a call. Nothing can interleave, and a model would restate the instructions.
  The entry code that two TCSs share is in `SelftestEnclave`.
* **Inclavare runtime.** Two calls that copy between pointers of the host without
  a check.
* **`t2w_2_authentic_execution`.** Its keys are set by nobody in the repository, and
  the length it computes goes to alloca and to an instruction of the processor.
* **Loader support (`sm_support`).** Wrappers of two instructions of the processor,
  protect and unprotect.
* **The main functions of the corpora.** They call what `SancusCorpus` runs.
* **`indirect-jump.c`, `pointer-deref.c`.** One jump and one dereference through a
  pointer of the host, written to be reported.
* **`string.c`.** Loops over bytes without state.
* **Intel SDK sample, Open Enclave containers, build files, linker scripts,
  reports.** The protocol of the first is in the SDK; the others have no state.
