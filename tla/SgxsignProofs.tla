---------------------------- MODULE SgxsignProofs ----------------------------
(***************************************************************************)
(* The signing tool, for any images, keys, dates and bounds: its types,    *)
(* and that a recipe which reports success and was not disturbed leaves    *)
(* headers that EINIT accepts.  What stat reports is a size only because   *)
(* every file is a sequence, whatever state an interrupted or failed tool  *)
(* left it in.  The size that ECREATE is told fits the pages.              *)
(***************************************************************************)
EXTENDS Sgxsign, TLAPS, SequenceTheorems, Induction

Sized == \A f \in FileName : files[f] # NoFile => Len(files[f]) \in Nat
(* A tool runs for one of the three recipes.                                *)
Started == pc # "idle" => job.target # "none"
IInv == TypeOK /\ Sized /\ Started

(* What bin2c declares is an array of that many elements.                   *)
LEMMA PaddedLen == ASSUME NEW s, NEW m \in Nat PROVE Len(Padded(s, m)) \in Nat
<1> DEFINE p == Padded(s, m)
           S == {p[k] : k \in 1 .. m}
<1>1. p \in [1 .. m -> S]
  BY DEF Padded
<1>2. p \in Seq(S)
  BY <1>1
<1> QED
  BY <1>2

LEMMA Lengths == /\ Len(<<>>) \in Nat
                 /\ \A e : Len(<<e>>) \in Nat
  BY SMT

LEMMA PutFile ==
    ASSUME DOMAIN files = FileName, Sized, NEW f \in FileName, NEW c,
           c # NoFile => Len(c) \in Nat, files' = [files EXCEPT ![f] = c]
    PROVE  DOMAIN files' = FileName /\ Sized'
  BY Zenon DEF Sized

(* A process that ends leaves no variables behind.                          *)
LEMMA Ending ==
    ASSUME Exit
    PROVE  size' \in Nat /\ offset' \in Nat /\ DOMAIN ss' = Kinds
  BY SMT DEF Exit, InitSigstruct, Kinds

-----------------------------------------------------------------------------
(* Files are changed in one place at a time, or not at all.                 *)
LEMMA WorldStep ==
    ASSUME IInv,
           \/ \E c \in Images \cup {NoFile}, d \in Dates : Replace(c, d)
           \/ \E c \in Images \cup {<<>>}, d \in Dates : Overwrite(c, d)
           \/ \E k \in Keys, whole \in BOOLEAN : ExternalSign(k, whole)
    PROVE  IInv'
<1>1. ASSUME NEW c \in Images \cup {NoFile, <<>>}, NEW d \in Dates,
             Replace(c, d) \/ Overwrite(c, d)
      PROVE  IInv'
  <2>1. files' = [files EXCEPT !["blob"] = c] /\ "blob" \in FileName
    BY <1>1, Zenon DEF Replace, Overwrite, FileName
  <2>2. c # NoFile => Len(c) \in Nat
    BY SgxsignAssumption, Lengths, Zenon
  <2>3. DOMAIN files' = FileName /\ Sized'
    BY <2>1, <2>2, PutFile, Zenon DEF IInv, TypeOK
  <2>4. /\ mtime' \in Dates /\ steady' \in BOOLEAN
        /\ UNCHANGED <<job, pc, src, size, offset, ss, status, jobs>>
    BY <1>1, Zenon DEF Replace, Overwrite, tool
  <2>5. changes < MaxChanges /\ changes' = changes + 1
    BY <1>1, Zenon DEF Replace, Overwrite
  <2>6. changes' \in 0 .. MaxChanges
    BY <2>5, SgxsignAssumption, SMT DEF IInv, TypeOK
  <2> QED
    BY <2>3, <2>4, <2>6, SMT DEF IInv, TypeOK, Started
<1>2. ASSUME NEW k \in Keys, NEW whole \in BOOLEAN, ExternalSign(k, whole)
      PROVE  IInv'
  <2> DEFINE c == IF whole THEN <<[key |-> k, payload |-> files["material"][1]]>> ELSE <<>>
  <2>1. files' = [files EXCEPT !["signature"] = c] /\ "signature" \in FileName
    BY <1>2, Zenon DEF ExternalSign, FileName
  <2>2. Len(c) \in Nat
    BY Lengths, Zenon
  <2>3. DOMAIN files' = FileName /\ Sized'
    <3> HIDE DEF c
    <3> QED
      BY <2>1, <2>2, PutFile, Zenon DEF IInv, TypeOK
  <2>4. UNCHANGED <<mtime, job, pc, src, size, offset, ss, status, steady, changes, jobs>>
    BY <1>2, Zenon DEF ExternalSign, tool
  <2> QED
    BY <2>3, <2>4, SMT DEF IInv, TypeOK, Started
<1> QED
  BY <1>1, <1>2, Zenon

LEMMA StartStep ==
    ASSUME IInv, NEW t \in {"sign", "gendata", "usesig"}, NEW k \in Keys, NEW b \in BOOLEAN,
           Start(t, k, b)
    PROVE  IInv'
<1>1. /\ job' \in [target : {"none", "sign", "gendata", "usesig"},
                   key : Keys \cup {"none"}, intel : BOOLEAN]
      /\ jobs' \in 0 .. MaxJobs /\ job'.target # "none"
  BY SgxsignAssumption, SMT DEF Start, IInv, TypeOK
<1>2. DOMAIN ss' = Kinds /\ pc' \in {"fopen", "key"} /\ status' = "running" /\ steady' = TRUE
      /\ UNCHANGED <<files, mtime, src, size, offset, changes>>
  BY SMT DEF Start, InitSigstruct, Kinds
<1> QED
  BY <1>1, <1>2, SMT DEF IInv, TypeOK, Sized, Started

-----------------------------------------------------------------------------
(* A step of a tool, told by what it may change.                            *)
Healed == steady' \in BOOLEAN /\ changes' \in 0 .. MaxChanges
Framed == UNCHANGED <<mtime, job, jobs>> /\ Healed
FilesKept == DOMAIN files' = FileName /\ Sized'
Locals == size' \in Nat /\ offset' \in Nat /\ DOMAIN ss' = Kinds
Labels == {"key", "fopen", "sign", "load", "commit", "save", "fwrite", "b_output", "b_input",
           "stat", "page", "b_stat", "b_page"}
Moves ==
    /\ src' \in {"blob", "sigstruct"}
    /\ \/ pc' \in Labels /\ status' = "running"
       \/ pc' = "idle" /\ status' \in {"ok", "failed"}

LEMMA ToolStep ==
    ASSUME IInv, pc \in Labels, Framed, FilesKept, Locals, Moves
    PROVE  IInv'
<1>1. pc' \in {"idle"} \cup Labels /\ status' \in {"running", "ok", "failed"}
      /\ (pc' = "idle") = (status' # "running")
  BY SMT DEF Moves, Labels
<1>2. job' = job /\ job.target # "none"
  BY Zenon DEF Framed, IInv, Started, Labels
<1> QED
  BY <1>1, <1>2, SMT DEF IInv, TypeOK, Started, Framed, Healed, FilesKept, Locals, Moves, Labels,
                         Reading

LEMMA Running == ASSUME IInv, pc \in Labels PROVE status = "running" /\ src \in {"blob", "sigstruct"}
  BY SMT DEF IInv, TypeOK, Labels

LEMMA Going ==
    ASSUME IInv, pc \in Labels, NEW l \in Labels, Go(l)
    PROVE  Moves
  BY Running, Zenon DEF Go, Moves

LEMMA Steady == ASSUME IInv, Healthy PROVE Healed
  BY Zenon DEF IInv, TypeOK, Healthy, Healed
LEMMA Disturbed == ASSUME IInv, Faulty PROVE Healed
<1>1. changes < MaxChanges /\ changes' = changes + 1 /\ steady' = FALSE
  BY Zenon DEF Faulty
<1>2. changes' \in 0 .. MaxChanges
  BY <1>1, SgxsignAssumption, SMT DEF IInv, TypeOK
<1> QED
  BY <1>1, <1>2, Zenon DEF Healed

LEMMA SameFiles == ASSUME IInv, files' = files PROVE FilesKept
  BY Zenon DEF IInv, TypeOK, FilesKept, Sized
LEMMA NewFile ==
    ASSUME IInv, NEW f \in FileName, NEW c, c # NoFile => Len(c) \in Nat,
           files' = [files EXCEPT ![f] = c]
    PROVE  FilesKept
  BY PutFile, Zenon DEF IInv, TypeOK, FilesKept

LEMMA Failing ==
    ASSUME IInv, Fail
    PROVE  FilesKept /\ Locals /\ Moves
<1>1. Exit /\ files' = files /\ pc' = "idle" /\ status' = "failed" /\ src' = "blob"
  BY Zenon DEF Fail, EndRecipe
<1> QED
  BY <1>1, Ending, SameFiles, Zenon DEF Locals, Moves

-----------------------------------------------------------------------------
(* sgxsign.                                                                 *)
LEMMA KeptLocals == ASSUME IInv, UNCHANGED <<size, offset, ss>> PROVE Locals
  BY Zenon DEF IInv, TypeOK, Locals

LEMMA LoadKeyStep == ASSUME IInv, LoadKey PROVE IInv'
<1>0. Framed /\ pc = "key" /\ pc \in Labels /\ "fopen" \in Labels
  BY Steady, Zenon DEF LoadKey, At, Framed, Labels
<1>1. CASE /\ ss' = [ss EXCEPT !.modulus = Number(job.key)]
           /\ Go("fopen") /\ UNCHANGED <<files, open, size, offset, ctx, hdr>>
  <2>1. Locals
    BY <1>1, SMT DEF Locals, IInv, TypeOK
  <2> QED
    BY <1>0, <1>1, <2>1, Going, SameFiles, ToolStep, Zenon
<1>2. CASE Fail
  BY <1>0, <1>2, Failing, ToolStep, Zenon
<1> QED
  BY <1>1, <1>2, Zenon DEF LoadKey

LEMMA OpenEnclaveStep == ASSUME IInv, OpenEnclave PROVE IInv'
<1>0. Framed /\ pc \in Labels /\ "stat" \in Labels
  BY Steady, Zenon DEF OpenEnclave, At, Framed, Labels
<1>1. CASE Go("stat") /\ UNCHANGED <<files, size, offset, ctx, ss, hdr>>
  BY <1>0, <1>1, Going, SameFiles, KeptLocals, ToolStep, Zenon
<1>2. CASE Fail
  BY <1>0, <1>2, Failing, ToolStep, Zenon
<1> QED
  BY <1>1, <1>2, Zenon DEF OpenEnclave

LEMMA StatEnclaveStep == ASSUME IInv, StatEnclave PROVE IInv'
<1>0. Framed /\ pc \in Labels /\ "page" \in Labels
  BY Steady, Zenon DEF StatEnclave, At, Framed, Labels
<1>1. CASE /\ WholePages(files["blob"])
           /\ size' = Len(files["blob"])
           /\ ss' = [ss EXCEPT !.date = mtime]
           /\ Go("page") /\ UNCHANGED <<files, open, offset, hdr>>
  <2>1. size' \in Nat
    BY <1>1, Zenon DEF WholePages, IInv, Sized, FileName
  <2>2. Locals
    BY <1>1, <2>1, SMT DEF Locals, IInv, TypeOK
  <2> QED
    BY <1>0, <1>1, <2>2, Going, SameFiles, ToolStep, Zenon
<1>2. CASE Fail
  BY <1>0, <1>2, Failing, ToolStep, Zenon
<1> QED
  BY <1>1, <1>2, Zenon DEF StatEnclave

LEMMA MeasurePageStep == ASSUME IInv, MeasurePage PROVE IInv'
<1>1. PICK data \in Prefixes(PageAt(offset)) :
          /\ Fread(offset, data)
          /\ \/ Go("commit") /\ UNCHANGED <<files, open, size, offset, ss, hdr>>
             \/ Fail
             \/ offset' = offset + Page /\ Go("page") /\ UNCHANGED <<files, open, size, ss, hdr>>
  BY Zenon DEF MeasurePage
<1>0. Framed /\ pc \in Labels /\ "commit" \in Labels /\ "page" \in Labels
  BY <1>1, Steady, Disturbed, Zenon DEF MeasurePage, At, Framed, Labels, Fread
<1>2. CASE Go("commit") /\ UNCHANGED <<files, open, size, offset, ss, hdr>>
  BY <1>0, <1>2, Going, SameFiles, KeptLocals, ToolStep, Zenon
<1>3. CASE Fail
  BY <1>0, <1>3, Failing, ToolStep, Zenon
<1>4. CASE offset' = offset + Page /\ Go("page") /\ UNCHANGED <<files, open, size, ss, hdr>>
  <2>1. Locals
    BY <1>4, SgxsignAssumption, SMT DEF Locals, IInv, TypeOK
  <2> QED
    BY <1>0, <1>4, <2>1, Going, SameFiles, ToolStep, Zenon
<1> QED
  BY <1>1, <1>2, <1>3, <1>4, Zenon

LEMMA CommitMeasureStep == ASSUME IInv, CommitMeasure PROVE IInv'
<1>0. Framed /\ pc \in Labels
  BY Steady, Zenon DEF CommitMeasure, At, Framed, Labels
<1>1. AfterMeasuring \in Labels
  BY <1>0, SMT DEF AfterMeasuring, Labels, IInv, TypeOK, Started
<1>2. Locals /\ files' = files /\ Go(AfterMeasuring)
  BY SMT DEF CommitMeasure, Locals, IInv, TypeOK
<1> QED
  BY <1>0, <1>1, <1>2, Going, SameFiles, ToolStep, Zenon

LEMMA SignEnclStep == ASSUME IInv, SignEncl PROVE IInv'
<1>0. Framed /\ pc \in Labels /\ "save" \in Labels
  BY Steady, Zenon DEF SignEncl, At, Framed, Labels
<1>1. Locals
  BY SMT DEF SignEncl, Completed, Locals, IInv, TypeOK
<1> QED
  BY <1>0, <1>1, Going, SameFiles, ToolStep, Zenon DEF SignEncl

LEMMA LoadSigStep == ASSUME IInv, LoadSig PROVE IInv'
<1>0. Framed /\ pc \in Labels /\ "save" \in Labels
  BY Steady, Zenon DEF LoadSig, At, Framed, Labels
<1>1. CASE /\ ss' = Completed([ss EXCEPT !.signature = Number(files["signature"][1])])
           /\ Go("save") /\ UNCHANGED <<files, open, size, offset, ctx, hdr>>
  <2>1. Locals
    BY <1>1, SMT DEF Completed, Locals, IInv, TypeOK
  <2> QED
    BY <1>0, <1>1, <2>1, Going, SameFiles, ToolStep, Zenon
<1>2. CASE Fail
  BY <1>0, <1>2, Failing, ToolStep, Zenon
<1> QED
  BY <1>1, <1>2, Zenon DEF LoadSig

LEMMA OpenOutputStep == ASSUME IInv, OpenOutput PROVE IInv'
<1>0. Framed /\ pc \in Labels /\ "fwrite" \in Labels
  BY Steady, Zenon DEF OpenOutput, At, Framed, Labels
<1>1. CASE /\ files' = [files EXCEPT ![Output] = <<>>]
           /\ Go("fwrite") /\ UNCHANGED <<open, size, offset, ctx, ss, hdr>>
  <2>1. Output \in FileName
    BY Zenon DEF Output, FileName
  <2>2. FilesKept
    BY <1>1, <2>1, NewFile, Lengths, Zenon
  <2> QED
    BY <1>0, <1>1, <2>2, Going, KeptLocals, ToolStep, Zenon
<1>2. CASE Fail
  BY <1>0, <1>2, Failing, ToolStep, Zenon
<1> QED
  BY <1>1, <1>2, Zenon DEF OpenOutput

LEMMA WriteOutputStep == ASSUME IInv, WriteOutput PROVE IInv'
<1>0. Framed /\ pc \in Labels
  BY Steady, Disturbed, Zenon DEF WriteOutput, At, Framed, Labels
<1>1. FilesKept
  <2>1. CASE files' = [files EXCEPT ![Output] =
                          <<IF Output = "material" THEN Payload(ss) ELSE ss>>]
    <3>1. Output \in FileName
      BY Zenon DEF Output, FileName
    <3> QED
      BY <2>1, <3>1, NewFile, Lengths, Zenon
  <2>2. CASE files' = files
    BY <2>2, SameFiles
  <2> QED
    BY <2>1, <2>2, Zenon DEF WriteOutput
<1>2. Locals
  BY Ending, Zenon DEF WriteOutput, EndRecipe, Locals
<1>3. Moves
  <2>1. status = "running"
    BY <1>0, Running, Zenon
  <2> QED
    BY <2>1, SMT DEF WriteOutput, EndRecipe, Moves, Labels
<1> QED
  BY <1>0, <1>1, <1>2, <1>3, ToolStep, Zenon

-----------------------------------------------------------------------------
(* bin2c.                                                                   *)
LEMMA Converting ==
    ASSUME IInv, pc \in Labels, Converted
    PROVE  Locals /\ Moves
<1>1. Locals
  BY Ending, Zenon DEF Converted, EndRecipe, Locals
<1>2. Moves
  <2>1. status = "running"
    BY Running, Zenon
  <2> QED
    BY <2>1, SMT DEF Converted, EndRecipe, Moves, Labels
<1> QED
  BY <1>1, <1>2

LEMMA HeaderName == Header \in FileName
  BY Zenon DEF Header, FileName

LEMMA OpenHeaderStep == ASSUME IInv, OpenHeader PROVE IInv'
<1>0. Framed /\ pc \in Labels /\ "b_input" \in Labels
  BY Steady, Disturbed, Zenon DEF OpenHeader, At, Framed, Labels
<1>1. CASE /\ files' = [files EXCEPT ![Header] = <<>>]
           /\ Go("b_input") /\ UNCHANGED <<open, size, offset, ctx, ss, hdr>>
  <2>1. FilesKept
    BY <1>1, HeaderName, NewFile, Lengths, Zenon
  <2> QED
    BY <1>0, <1>1, <2>1, Going, KeptLocals, ToolStep, Zenon
<1>2. CASE Converted /\ UNCHANGED files
  BY <1>0, <1>2, Converting, SameFiles, ToolStep, Zenon
<1> QED
  BY <1>1, <1>2, Zenon DEF OpenHeader

LEMMA OpenInputStep == ASSUME IInv, OpenInput PROVE IInv'
<1>0. Framed /\ pc \in Labels /\ "b_stat" \in Labels
  BY Steady, Zenon DEF OpenInput, At, Framed, Labels
<1>1. CASE Go("b_stat") /\ UNCHANGED <<files, size, offset, ctx, ss, hdr>>
  BY <1>0, <1>1, Going, SameFiles, KeptLocals, ToolStep, Zenon
<1>2. CASE Converted /\ UNCHANGED files
  BY <1>0, <1>2, Converting, SameFiles, ToolStep, Zenon
<1> QED
  BY <1>1, <1>2, Zenon DEF OpenInput

LEMMA StatInputStep == ASSUME IInv, StatInput PROVE IInv'
<1>0. Framed /\ pc \in Labels /\ "b_page" \in Labels
  BY Steady, Zenon DEF StatInput, At, Framed, Labels
<1>1. CASE /\ files[src] # NoFile
           /\ size' = Len(files[src])
           /\ Go("b_page") /\ UNCHANGED <<files, open, offset, ctx, ss, hdr>>
  <2>1. src \in FileName
    BY <1>0, Running, Zenon DEF FileName
  <2>2. size' \in Nat
    BY <1>1, <2>1, Zenon DEF IInv, Sized
  <2>3. Locals
    BY <1>1, <2>2, Zenon DEF Locals, IInv, TypeOK
  <2> QED
    BY <1>0, <1>1, <2>3, Going, SameFiles, ToolStep, Zenon
<1>2. CASE Fail
  BY <1>0, <1>2, Failing, ToolStep, Zenon
<1> QED
  BY <1>1, <1>2, Zenon DEF StatInput

LEMMA ConvertPageStep == ASSUME IInv, ConvertPage PROVE IInv'
<1>1. PICK data \in Prefixes(PageAt(Len(hdr))) :
          /\ Fread(Len(hdr), data)
          /\ offset' = IF NothingRead(data) THEN size ELSE offset + Page
  BY Zenon DEF ConvertPage
<1>0. Framed /\ pc \in Labels /\ "b_page" \in Labels
  BY <1>1, Steady, Disturbed, Zenon DEF ConvertPage, At, Framed, Labels, Fread
<1>2. offset' \in Nat
  BY <1>1, SgxsignAssumption, SMT DEF IInv, TypeOK
<1>3. Locals
  BY <1>2, Zenon DEF ConvertPage, Locals, IInv, TypeOK
<1> QED
  BY <1>0, <1>3, Going, SameFiles, ToolStep, Zenon DEF ConvertPage

LEMMA CloseHeaderStep == ASSUME IInv, CloseHeader PROVE IInv'
<1>0. Framed /\ pc \in Labels
  BY Steady, Zenon DEF CloseHeader, At, Framed, Labels
<1> DEFINE c == IF size = 0 \/ Len(hdr) > size THEN <<>> ELSE Padded(hdr, size)
<1>1. Len(c) \in Nat
  BY Lengths, PaddedLen, Zenon DEF IInv, TypeOK
<1>2. files' = [files EXCEPT ![Header] = c]
  BY Zenon DEF CloseHeader
<1>3. FilesKept
  <2> HIDE DEF c
  <2> QED
    BY <1>1, <1>2, HeaderName, NewFile, Zenon
<1>4. CASE Converted
  BY <1>0, <1>3, <1>4, Converting, ToolStep, Zenon
<1>5. CASE EndRecipe("failed")
  <2>1. Locals /\ Moves
    BY <1>5, Ending, Zenon DEF EndRecipe, Locals, Moves
  <2> QED
    BY <1>0, <1>3, <2>1, ToolStep, Zenon
<1> QED
  BY <1>4, <1>5, Zenon DEF CloseHeader

LEMMA InterruptStep == ASSUME IInv, Interrupt PROVE IInv'
<1>1. pc \in Labels
  BY SMT DEF Interrupt, IInv, TypeOK, Labels, Reading
<1>2. Framed /\ Fail
  BY Zenon DEF Interrupt, Framed, Healed, IInv, TypeOK
<1> QED
  BY <1>1, <1>2, Failing, ToolStep, Zenon

-----------------------------------------------------------------------------
LEMMA Initially == Init => IInv
<1> SUFFICES ASSUME Init PROVE IInv
  OBVIOUS
<1>1. PICK b \in Images \cup {NoFile} :
         files = [f \in FileName |-> IF f = "blob" THEN b ELSE NoFile]
  BY Zenon DEF Init
<1>2. Sized /\ DOMAIN files = FileName
  BY <1>1, SgxsignAssumption, SMT DEF Sized
<1>3. DOMAIN ss = Kinds
  BY SMT DEF Init, InitSigstruct, Kinds
<1>4. changes \in 0 .. MaxChanges /\ jobs \in 0 .. MaxJobs
  BY SgxsignAssumption, SMT DEF Init
<1>5. job \in [target : {"none", "sign", "gendata", "usesig"}, key : Keys \cup {"none"},
               intel : BOOLEAN]
  BY SMT DEF Init
<1>6. /\ mtime \in Dates /\ pc = "idle" /\ src = "blob" /\ size = 0 /\ offset = 0
      /\ status = "none" /\ steady = TRUE
  BY Zenon DEF Init
<1> QED
  BY <1>2, <1>3, <1>4, <1>5, <1>6, SMT DEF IInv, TypeOK, Started

LEMMA Stutter == IInv /\ UNCHANGED vars => IInv'
  BY Zenon DEF IInv, TypeOK, Sized, Started, vars

(* The invariant holds in every state: the types, the lengths of the files, *)
(* and that a tool runs for a recipe.                                       *)
THEOREM Invariance == Spec => []IInv
<1>1. IInv /\ [Next]_vars => IInv'
  <2> SUFFICES ASSUME IInv, Next PROVE IInv'
    BY Stutter, Zenon
  <2>1. CASE \E t \in {"sign", "gendata", "usesig"}, k \in Keys, i \in BOOLEAN : Start(t, k, i)
    BY <2>1, StartStep, Zenon
  <2> QED
    BY <2>1, WorldStep, InterruptStep, LoadKeyStep, OpenEnclaveStep, StatEnclaveStep,
       MeasurePageStep, CommitMeasureStep, SignEnclStep, LoadSigStep, OpenOutputStep,
       WriteOutputStep, OpenHeaderStep, OpenInputStep, StatInputStep, ConvertPageStep,
       CloseHeaderStep, Zenon DEF Next
<1> QED
  BY <1>1, Initially, PTL DEF Spec

(* The state of the tools has its types (sgxsign.c, bin2c.c), also after    *)
(* interruptions, failures and changes of the enclave file in any number.   *)
THEOREM TypeCorrect == Spec => []TypeOK
<1>1. IInv => TypeOK
  BY DEF IInv
<1> QED
  BY <1>1, Invariance, PTL

-----------------------------------------------------------------------------
(* What a sign or usesig recipe has achieved when control is at pc, as long *)
(* as nothing has disturbed it.                                             *)
Blob == files["blob"]
BlobKept == Blob \in Images \cup {<<>>, NoFile}
Undisturbed == pc # "idle" /\ steady /\ job.target \in {"sign", "usesig"}
Fresh == size = 0 /\ offset = 0 /\ ctx = <<>> /\ hdr = <<>>
Idle == pc = "idle" => open = Linked /\ src = "blob" /\ Fresh

Signing == {"key", "fopen", "stat", "page", "sign", "load", "save", "fwrite"}
Bin2c == {"b_output", "b_input", "b_stat", "b_page"}
Vendor == IF job.intel THEN "8086" ELSE "0"
Keyed == ss.vendor = Vendor /\ ss.modulus = Number(job.key)
Measuring ==
    /\ Keyed /\ ss.date = mtime /\ hdr = <<>> /\ size = Len(Blob)
    /\ \E n \in 0 .. Len(Blob) \div Page : offset = n * Page /\ ctx = Loaded(Blob, n)
HasMeasured == Keyed /\ ss.date = mtime /\ ss.mrenclave = Measured(Blob)
(* A SIGSTRUCT for this recipe.  Whether its signature is the one that is   *)
(* due is up to the tool for sign and to the holder of the key for usesig.  *)
IsFinal(s) ==
    /\ s.vendor = Vendor /\ s.date = mtime /\ s.mrenclave = Measured(Blob)
    /\ s.modulus = <<job.key, "little">>
    /\ s.signature = <<s.signature[1], "little">>
    /\ s.q1 = <<Q(1, s.signature[1], job.key), "little">>
    /\ s.q2 = <<Q(2, s.signature[1], job.key), "little">>
    /\ job.target = "sign" => s.signature[1] = [key |-> job.key, payload |-> Payload(s)]
Written ==
    /\ files["sigstruct"] \notin {NoFile, <<>>}
    /\ files["sigstruct"] = <<files["sigstruct"][1]>>
    /\ IsFinal(files["sigstruct"][1])
Copying ==
    /\ size = Len(files[src])
    /\ hdr = SubSeq(files[src], 1, IF offset < size THEN offset ELSE size)

Achieved ==
    /\ open = Linked
    /\ pc \in Signing \cup Bin2c
    /\ pc \in Signing => src = "blob"
    /\ pc \notin {"page", "b_page"} => Fresh
    /\ pc = "key" => ss.vendor = Vendor
    /\ pc \in {"fopen", "stat"} => Keyed
    /\ pc \notin {"key", "fopen", "stat"} => WholePages(Blob)
    /\ pc = "page" => Measuring
    /\ pc \in {"sign", "load"} => HasMeasured
    /\ pc = "sign" => job.target = "sign"
    /\ pc = "load" => job.target = "usesig"
    /\ pc \in {"save", "fwrite"} => IsFinal(ss)
    /\ pc \in Bin2c => Written /\ (src = "sigstruct" => files["blob_h"] = Blob)
    /\ pc = "b_page" => Copying
Progress == BlobKept /\ Idle /\ (Undisturbed => Achieved)

-----------------------------------------------------------------------------
(* Arithmetic of pages and of the updates that measure one.                 *)
LEMMA DivMod ==
    ASSUME NEW d \in Nat \ {0}, NEW q \in Nat, NEW r \in 0 .. d - 1
    PROVE  (q * d + r) \div d = q /\ (q * d + r) % d = r
  BY SMT
LEMMA Whole ==
    ASSUME NEW d \in Nat \ {0}, NEW n \in Nat, n % d = 0
    PROVE  n \div d \in Nat /\ n = (n \div d) * d
  BY SMT
LEMMA NextMultiple ==
    ASSUME NEW d \in Nat \ {0}, NEW p \in Nat, NEW n \in Nat, p * d < n * d
    PROVE  p + 1 \in 0 .. n /\ p * d + d <= n * d /\ (p + 1) * d = p * d + d
  BY SMT
LEMMA LastMultiple ==
    ASSUME NEW d \in Nat \ {0}, NEW p \in Nat, NEW n \in Nat, p <= n, p * d >= n * d
    PROVE  p = n
  BY SMT

(* The room the tool announces and the room the measurement starts with.    *)
LEMMA SameRoom == ASSUME NEW n PROVE
    EnclavePages(n) =
      CHOOSE r \in {Doubled[i] : i \in 0..n} :
         n <= r /\ \A q \in {Doubled[i] : i \in 0..n} : n <= q => r <= q
  BY Zenon DEF EnclavePages, Powers

LEMMA LoadedParts ==
    ASSUME NEW image, NEW n \in Nat
    PROVE  /\ 1 + n * (Page + 1) \in Nat
           /\ Len(Loaded(image, n)) = 1 + n * (Page + 1)
           /\ Loaded(image, n) = [k \in 1 .. 1 + n * (Page + 1) |-> Loaded(image, n)[k]]
<1>1. 1 + n * (Page + 1) \in Nat
  BY SgxsignAssumption, SMT
<1> QED
  BY <1>1, SMT DEF Loaded

LEMMA LoadedPart ==
    ASSUME NEW image, NEW n \in Nat, NEW p \in 0 .. n - 1, NEW i \in 0 .. Page
    PROVE  /\ 2 + p * (Page + 1) + i \in 1 .. 1 + n * (Page + 1)
           /\ Loaded(image, n)[2 + p * (Page + 1) + i] =
                IF i = 0 THEN Eadd(p) ELSE <<"EEXTEND", p * Page + i - 1, image[p * Page + i]>>
<1> DEFINE d == Page + 1
           k == 2 + p * d + i
<1>1. d \in Nat \ {0} /\ p \in Nat /\ i \in 0 .. d - 1 /\ p + 1 <= n
  BY SgxsignAssumption, SMT
<1>2. (k - 2) \div d = p /\ (k - 2) % d = i
  <2>1. k - 2 = p * d + i
    BY <1>1, SMT
  <2> HIDE DEF k, d
  <2> QED
    BY <1>1, <2>1, DivMod, SMT
<1>3. (p + 1) * d <= n * d /\ (p + 1) * d = p * d + d
  <2> HIDE DEF d
  <2> QED
    BY <1>1, SMT
<1>4. k \in 1 .. 1 + n * d /\ k # 1
  <2>1. p * d \in Nat /\ n * d \in Nat
    BY <1>1, SMT
  <2> HIDE DEF d
  <2> QED
    BY <1>1, <1>3, <2>1, SMT
<1>5. Loaded(image, n)[k] =
        IF i = 0 THEN <<"EADD", p, IF p = 0 THEN "TCS" ELSE "REG|R|W|X">>
                 ELSE <<"EEXTEND", p * Page + i - 1, image[p * Page + i]>>
  <2> HIDE DEF k
  <2> QED
    BY <1>2, <1>4, Zenon DEF Loaded, Update
<1> QED
  BY <1>4, <1>5, Zenon DEF Eadd

LEMMA LoadedPrefix ==
    ASSUME NEW image, NEW n \in Nat
    PROVE  /\ 1 + (n + 1) * (Page + 1) = 1 + n * (Page + 1) + Page + 1
           /\ \A k \in 1 .. 1 + n * (Page + 1) : Loaded(image, n)[k] = Loaded(image, n + 1)[k]
<1>1. /\ n * (Page + 1) \in Nat /\ Page + 1 \in Nat
      /\ (n + 1) * (Page + 1) = n * (Page + 1) + (Page + 1)
  BY SgxsignAssumption, SMT
<1>2. 1 .. 1 + n * (Page + 1) \subseteq 1 .. 1 + (n + 1) * (Page + 1)
  BY <1>1, SMT
<1>3. ASSUME NEW k, k \in 1 .. 1 + n * (Page + 1)
      PROVE  Loaded(image, n)[k] = Loaded(image, n + 1)[k]
  <2>1. k \in 1 .. 1 + (n + 1) * (Page + 1)
    BY <1>2, <1>3, Zenon
  <2> QED
    BY <1>3, <2>1, Zenon DEF Loaded
<1>4. 1 + (n + 1) * (Page + 1) = 1 + n * (Page + 1) + Page + 1
  BY <1>1, SgxsignAssumption, SMT
<1> QED
  BY <1>3, <1>4, Zenon

(* A page that is added and extended completely is what the processor       *)
(* measures when it loads one page more.                                    *)
LEMMA MeasuredPage ==
    ASSUME NEW image, NEW n \in Nat, NEW data,
           \A i \in 1 .. Page : data[i] = image[n * Page + i]
    PROVE  Append(Loaded(image, n), Eadd(n)) \o Eextend(n, data) = Loaded(image, n + 1)
<1> DEFINE a == Loaded(image, n)
           b == Loaded(image, n + 1)
           x == Eextend(n, data)
           m == 1 + n * (Page + 1)
           S == {b[k] : k \in 1 .. Len(b)}
<1>1. /\ m \in Nat /\ Len(a) = m /\ a = [k \in 1 .. m |-> a[k]]
      /\ Len(b) = m + Page + 1 /\ b = [k \in 1 .. Len(b) |-> b[k]]
      /\ \A k \in 1 .. m : a[k] = b[k]
  <2>1. n + 1 \in Nat
    BY SMT
  <2> QED
    BY <2>1, LoadedParts, LoadedPrefix, SMT
<1>2. Eadd(n) = b[m + 1]
  <2>1. n \in 0 .. (n + 1) - 1 /\ n + 1 \in Nat /\ 0 \in 0 .. Page
    BY SgxsignAssumption, SMT
  <2>2. b[2 + n * (Page + 1) + 0] = Eadd(n)
    BY <2>1, LoadedPart, Zenon
  <2>3. 2 + n * (Page + 1) + 0 = m + 1
    BY SgxsignAssumption, SMT
  <2> QED
    BY <2>2, <2>3, Zenon
<1>3. ASSUME NEW i \in 1 .. Page PROVE x[i] = b[m + 1 + i]
  <2>1. n \in 0 .. (n + 1) - 1 /\ n + 1 \in Nat /\ i \in 0 .. Page /\ i # 0
    BY SgxsignAssumption, SMT
  <2>2. b[2 + n * (Page + 1) + i] = <<"EEXTEND", n * Page + i - 1, image[n * Page + i]>>
    BY <2>1, LoadedPart, Zenon
  <2>3. 2 + n * (Page + 1) + i = m + 1 + i
    BY SgxsignAssumption, SMT
  <2>4. x[i] = <<"EEXTEND", n * Page + i - 1, image[n * Page + i]>>
    BY Zenon DEF Eextend
  <2> QED
    BY <2>2, <2>3, <2>4, Zenon
<1>4. x = [i \in 1 .. Page |-> x[i]] /\ Page \in Nat
  BY SgxsignAssumption, Zenon DEF Eextend
<1> HIDE DEF a, b, x, m
<1>5. b \in Seq(S)
  BY <1>1, SMT
<1>6. a \in Seq(S)
  <2>1. \A k \in 1 .. m : a[k] \in S
    <3>1. \A k \in 1 .. m : k \in 1 .. Len(b)
      BY <1>1, <1>4, SMT
    <3> QED
      BY <1>1, <3>1, Zenon
  <2> HIDE DEF S
  <2> QED
    BY <1>1, <2>1, SMT
<1>7. x \in Seq(S) /\ Len(x) = Page
  <2>1. \A i \in 1 .. Page : x[i] \in S
    <3>1. \A i \in 1 .. Page : m + 1 + i \in 1 .. Len(b)
      BY <1>1, <1>4, SMT
    <3> QED
      BY <1>3, <3>1, Zenon
  <2> HIDE DEF S
  <2> QED
    BY <1>4, <2>1, SMT
<1>8. Eadd(n) \in S
  <2>1. m + 1 \in 1 .. Len(b)
    BY <1>1, <1>4, SMT
  <2> QED
    BY <1>2, <2>1, Zenon
<1>9. ASSUME NEW e \in S, e = b[m + 1] PROVE Append(a, e) \o x = b
  <2> HIDE DEF S
  <2>1. /\ Append(a, e) \in Seq(S) /\ Len(Append(a, e)) = m + 1
        /\ \A k \in 1 .. m + 1 : Append(a, e)[k] = b[k]
    BY <1>1, <1>6, <1>9, SMT
  <2>2. /\ Append(a, e) \o x \in Seq(S) /\ Len(Append(a, e) \o x) = m + 1 + Page
        /\ \A k \in 1 .. m + 1 + Page : (Append(a, e) \o x)[k] =
              IF k <= m + 1 THEN Append(a, e)[k] ELSE x[k - (m + 1)]
    <3>1. /\ Append(a, e) \o x \in Seq(S) /\ Len(Append(a, e) \o x) = Len(Append(a, e)) + Len(x)
          /\ \A k \in 1 .. Len(Append(a, e)) + Len(x) : (Append(a, e) \o x)[k] =
                IF k <= Len(Append(a, e)) THEN Append(a, e)[k] ELSE x[k - Len(Append(a, e))]
      BY <1>7, <2>1, ConcatProperties, Zenon
    <3> QED
      BY <1>7, <2>1, <3>1, Zenon
  <2>3. \A k \in 1 .. m + 1 + Page : (Append(a, e) \o x)[k] = b[k]
    <3> SUFFICES ASSUME NEW k \in 1 .. m + 1 + Page
                 PROVE  (Append(a, e) \o x)[k] = b[k]
      OBVIOUS
    <3>1. CASE k <= m + 1
      BY <1>1, <1>4, <2>1, <2>2, <3>1, SMT
    <3>2. CASE ~(k <= m + 1)
      <4>1. k - (m + 1) \in 1 .. Page /\ m + 1 + (k - (m + 1)) = k
        BY <1>1, <1>4, <3>2, SMT
      <4>2. (Append(a, e) \o x)[k] = x[k - (m + 1)]
        BY <2>2, <3>2, Zenon
      <4> QED
        BY <1>3, <4>1, <4>2
    <3> QED
      BY <3>1, <3>2
  <2> QED
    <3>1. Len(Append(a, e) \o x) = Len(b)
      BY <1>1, <1>4, <2>2, SMT
    <3> QED
      BY <1>5, <2>2, <2>3, <3>1, SeqEqual, Zenon
<1> QED
  BY <1>2, <1>8, <1>9, Zenon DEF a, b, x

(* The digest with which measure_encl starts.                               *)
LEMMA MeasuredNothing ==
    ASSUME NEW image
    PROVE  <<Ecreate(Len(image) \div Page)>> = Loaded(image, 0)
<1>1. 1 + 0 * (Page + 1) = 1
  BY SgxsignAssumption, SMT
<1>2. Loaded(image, 0) = [k \in 1 .. 1 |-> Loaded(image, 0)[k]]
  <2>1. 0 \in Nat
    BY SMT
  <2>2. Loaded(image, 0) = [k \in 1 .. 1 + 0 * (Page + 1) |-> Loaded(image, 0)[k]]
    BY <2>1, LoadedParts, Zenon
  <2> QED
    BY <1>1, <2>2, Zenon
<1>3. Loaded(image, 0)[1] = Ecreate(Len(image) \div Page)
  <2>1. 1 \in 1 .. 1 + 0 * (Page + 1)
    BY <1>1, SMT
  <2> QED
    BY <2>1, SameRoom, Zenon DEF Loaded, Update, Ecreate
<1> HIDE DEF Loaded
<1> QED
  BY <1>2, <1>3, SMT

-----------------------------------------------------------------------------
(* A step of a tool leaves the enclave file, its date and the recipe alone, *)
(* never turns a disturbed recipe into an undisturbed one, and leaves no    *)
(* variables behind when it is the last.                                    *)
Around ==
    /\ UNCHANGED <<mtime, job>> /\ Blob' = Blob
    /\ steady' => steady
    /\ pc' = "idle" => Exit /\ src' = "blob"
Tool ==
    LoadKey \/ OpenEnclave \/ StatEnclave \/ MeasurePage \/ CommitMeasure \/ SignEncl \/ LoadSig
        \/ OpenOutput \/ WriteOutput \/ OpenHeader \/ OpenInput \/ StatInput \/ ConvertPage
        \/ CloseHeader

LEMMA NamesDiffer == Output # "blob" /\ Header # "blob"
                     /\ "blob" \in FileName /\ "sigstruct" \in FileName
  BY SMT DEF Output, Header, FileName
LEMMA Ends == Fail => Exit /\ src' = "blob" /\ files' = files /\ pc' = "idle"
  BY Zenon DEF Fail, EndRecipe
LEMMA Converts == Converted => (pc' = "idle" => Exit /\ src' = "blob")
<1>1. "b_output" # "idle"
  BY SMT
<1> QED
  BY <1>1, Zenon DEF Converted, EndRecipe
LEMMA Continues == \A l : Go(l) => pc' = l
  BY Zenon DEF Go
LEMMA Labelled == /\ "idle" \notin {"fopen", "stat", "page", "commit", "save", "fwrite", "sign", "load"}
                  /\ "idle" \notin {"b_output", "b_input", "b_stat", "b_page"}
  BY SMT

LEMMA ToolAround == ASSUME IInv, Tool PROVE Around
<1>0. ASSUME files' = files PROVE Blob' = Blob
  BY <1>0, Zenon DEF Blob
<1>1. ASSUME NEW f, NEW c, files' = [files EXCEPT ![f] = c], f # "blob" PROVE Blob' = Blob
  <2>1. "blob" \in DOMAIN files
    BY NamesDiffer, Zenon DEF IInv, TypeOK
  <2> QED
    BY <1>1, <2>1, Zenon DEF Blob
<1>2. (Healthy => (steady' => steady)) /\ (Faulty => (steady' => steady))
  BY Zenon DEF Healthy, Faulty
<1>3. CASE LoadKey
  BY <1>0, <1>2, <1>3, Ends, Continues, Labelled, Zenon DEF LoadKey, At, Around
<1>4. CASE OpenEnclave
  BY <1>0, <1>2, <1>4, Ends, Continues, Labelled, Zenon DEF OpenEnclave, At, Around
<1>5. CASE StatEnclave
  BY <1>0, <1>2, <1>5, Ends, Continues, Labelled, Zenon DEF StatEnclave, At, Around
<1>6. CASE MeasurePage
  <2>1. PICK data \in Prefixes(PageAt(offset)) :
          /\ Fread(offset, data)
          /\ (Go("commit") /\ files' = files) \/ Fail \/ (Go("page") /\ files' = files)
    BY <1>6, Zenon DEF MeasurePage
  <2>2. UNCHANGED <<mtime, job>>
    BY <1>6, Zenon DEF MeasurePage, At
  <2> QED
    BY <1>0, <1>2, <2>1, <2>2, Ends, Continues, Labelled, Zenon DEF Fread, Around
<1>7. CASE CommitMeasure
  <2>1. AfterMeasuring # "idle"
    <3>1. pc # "idle"
      BY <1>7, SMT DEF CommitMeasure
    <3> QED
      BY <3>1, SMT DEF AfterMeasuring, IInv, TypeOK, Started
  <2> QED
    BY <1>0, <1>2, <1>7, <2>1, Continues, Zenon DEF CommitMeasure, At, Around
<1>8. CASE SignEncl
  BY <1>0, <1>2, <1>8, Continues, Labelled, Zenon DEF SignEncl, At, Around
<1>9. CASE LoadSig
  BY <1>0, <1>2, <1>9, Ends, Continues, Labelled, Zenon DEF LoadSig, At, Around
<1>10. CASE OpenOutput
  <2>1. Blob' = Blob
    BY <1>0, <1>1, <1>10, Ends, NamesDiffer, Zenon DEF OpenOutput
  <2> QED
    BY <1>2, <1>10, <2>1, Ends, Continues, Labelled, Zenon DEF OpenOutput, At, Around
<1>11. CASE WriteOutput
  <2>1. Blob' = Blob
    BY <1>0, <1>1, <1>11, NamesDiffer, Zenon DEF WriteOutput
  <2>2. Exit /\ src' = "blob"
    BY <1>11, Zenon DEF WriteOutput, EndRecipe
  <2> QED
    BY <1>2, <1>11, <2>1, <2>2, Zenon DEF WriteOutput, At, Around
<1>12. CASE OpenHeader
  <2>1. Blob' = Blob
    BY <1>0, <1>1, <1>12, NamesDiffer, Zenon DEF OpenHeader
  <2> QED
    BY <1>2, <1>12, <2>1, Converts, Continues, Labelled, Zenon DEF OpenHeader, At, Around
<1>13. CASE OpenInput
  BY <1>0, <1>2, <1>13, Converts, Continues, Labelled, Zenon DEF OpenInput, At, Around
<1>14. CASE StatInput
  BY <1>0, <1>2, <1>14, Ends, Continues, Labelled, Zenon DEF StatInput, At, Around
<1>15. CASE ConvertPage
  <2>1. steady' => steady
    BY <1>2, <1>15, Zenon DEF ConvertPage, Fread
  <2> QED
    BY <1>0, <1>15, <2>1, Continues, Labelled, Zenon DEF ConvertPage, At, Around
<1>16. CASE CloseHeader
  <2>1. Blob' = Blob
    BY <1>1, <1>16, NamesDiffer, Zenon DEF CloseHeader
  <2>2. pc' = "idle" => Exit /\ src' = "blob"
    BY <1>16, Converts, Zenon DEF CloseHeader, EndRecipe
  <2> QED
    BY <1>2, <1>16, <2>1, <2>2, Zenon DEF CloseHeader, At, Around
<1> QED
  BY <1>3, <1>4, <1>5, <1>6, <1>7, <1>8, <1>9, <1>10, <1>11, <1>12, <1>13, <1>14, <1>15, <1>16,
     Zenon DEF Tool

LEMMA ToolProgress ==
    ASSUME IInv, Progress, pc # "idle", Around,
           Undisturbed /\ Achieved /\ steady' /\ pc' # "idle" => Achieved'
    PROVE  Progress'
<1>1. BlobKept' /\ Idle'
  BY Zenon DEF Around, BlobKept, Progress, Idle, Exit, Fresh
<1>2. Undisturbed' => Undisturbed /\ steady' /\ pc' # "idle"
  BY Zenon DEF Around, Undisturbed
<1> QED
  BY <1>1, <1>2, Zenon DEF Progress

(* What has been achieved does not depend on anything else.                 *)
LEMMA SameGoals ==
    ASSUME Around
    PROVE  /\ \A s : IsFinal(s)' = IsFinal(s)
           /\ Vendor' = Vendor
           /\ UNCHANGED ss /\ Keyed => Keyed'
           /\ UNCHANGED ss /\ HasMeasured => HasMeasured'
<1>1. Vendor' = Vendor
  BY Zenon DEF Around, Vendor
<1>2. \A s : IsFinal(s)' = IsFinal(s)
  BY <1>1, Zenon DEF Around, IsFinal
<1>3. UNCHANGED ss /\ Keyed => Keyed'
  BY <1>1, Zenon DEF Around, Keyed
<1>4. UNCHANGED ss /\ HasMeasured => HasMeasured'
  BY <1>3, Zenon DEF Around, HasMeasured
<1> QED
  BY <1>1, <1>2, <1>3, <1>4, Zenon
LEMMA StaysWritten ==
    ASSUME Around, files'["sigstruct"] = files["sigstruct"], Written
    PROVE  Written'
  BY SameGoals, Zenon DEF Written

-----------------------------------------------------------------------------
(* What each step of an undisturbed recipe achieves.                        *)
Ready == IInv /\ Undisturbed /\ Achieved /\ BlobKept
Advancing == Ready /\ Around /\ steady' /\ pc' # "idle"

LEMMA GoesOn ==
    ASSUME Advancing, NEW l, Go(l)
    PROVE  pc' = l /\ src' = src /\ ~Fail
  BY Ends, Zenon DEF Go, Advancing, Ready

LEMMA Undamaged == ASSUME Advancing PROVE ~Faulty
  BY Zenon DEF Advancing, Ready, Faulty

LEMMA LoadKeyAchieves == ASSUME Advancing, LoadKey PROVE Achieved'
<1>1. /\ pc = "key" /\ ss' = [ss EXCEPT !.modulus = Number(job.key)]
      /\ Go("fopen") /\ UNCHANGED <<files, open, size, offset, ctx, hdr>>
  BY Ends, Zenon DEF Advancing, Ready, LoadKey, At
<1>2. ss'.vendor = ss.vendor /\ ss'.modulus = Number(job.key)
  BY <1>1, SMT DEF Advancing, Ready, IInv, TypeOK, Kinds
<1>3. Keyed'
  BY <1>1, <1>2, SameGoals, SMT DEF Advancing, Ready, Achieved, Keyed, Around
<1> QED
  BY <1>1, <1>3, GoesOn, SMT DEF Advancing, Ready, Achieved, Signing, Bin2c, Fresh

LEMMA OpenEnclaveAchieves == ASSUME Advancing, OpenEnclave PROVE Achieved'
<1>1. /\ pc = "fopen" /\ open' = Linked
      /\ Go("stat") /\ UNCHANGED <<files, size, offset, ctx, ss, hdr>>
  BY Ends, Zenon DEF Advancing, Ready, OpenEnclave, At
<1>2. Keyed'
  BY <1>1, SameGoals, SMT DEF Advancing, Ready, Achieved
<1> QED
  BY <1>1, <1>2, GoesOn, SMT DEF Advancing, Ready, Achieved, Signing, Bin2c, Fresh

(* The enclave file is a sequence of whole pages.                           *)
LEMMA Pages ==
    ASSUME BlobKept, WholePages(Blob)
    PROVE  /\ Len(Blob) \in Nat \ {0} /\ Blob = [i \in 1 .. Len(Blob) |-> Blob[i]]
           /\ Blob # NoFile /\ Blob # Linked
           /\ Len(Blob) \div Page \in Nat /\ Len(Blob) = (Len(Blob) \div Page) * Page
<1>1. Len(Blob) # 0 /\ Blob # NoFile /\ Len(Blob) % Page = 0
  BY Zenon DEF WholePages
<1>2. Blob \in Images
  <2>1. Blob # <<>>
    BY <1>1, SMT
  <2> QED
    BY <1>1, <2>1, Zenon DEF BlobKept
<1>3. Len(Blob) \in Nat /\ Blob = [i \in 1 .. Len(Blob) |-> Blob[i]] /\ Blob # Linked
  BY <1>2, SgxsignAssumption, Zenon
<1>4. Len(Blob) \div Page \in Nat /\ Len(Blob) = (Len(Blob) \div Page) * Page
  BY <1>1, <1>3, Whole, SgxsignAssumption, SMT
<1> QED
  BY <1>1, <1>3, <1>4, SMT

LEMMA StatEnclaveAchieves == ASSUME Advancing, StatEnclave PROVE Achieved'
<1>1. /\ pc = "stat" /\ WholePages(files["blob"]) /\ size' = Len(files["blob"])
      /\ ss' = [ss EXCEPT !.date = mtime]
      /\ ctx' = <<Ecreate(size' \div Page)>>
      /\ Go("page") /\ UNCHANGED <<files, open, offset, hdr>>
  BY Ends, Zenon DEF Advancing, Ready, StatEnclave, At
<1>2. ss'.vendor = ss.vendor /\ ss'.modulus = ss.modulus /\ ss'.date = mtime
  BY <1>1, SMT DEF Advancing, Ready, IInv, TypeOK, Kinds
<1>3. Keyed' /\ ss'.date = mtime' /\ WholePages(Blob)'
  <2>1. Keyed'
    BY <1>1, <1>2, SameGoals, SMT DEF Advancing, Ready, Achieved, Keyed, Around
  <2> QED
    BY <1>1, <1>2, <2>1, Zenon DEF Advancing, Ready, Around, Blob
<1>4. 0 \in 0 .. Len(Blob) \div Page /\ offset' = 0 * Page /\ hdr' = <<>>
  <2>1. Len(Blob) \div Page \in Nat
    BY <1>1, Pages, Zenon DEF Advancing, Ready, Blob
  <2> QED
    BY <1>1, <2>1, SgxsignAssumption, SMT DEF Advancing, Ready, Achieved, Fresh
<1>5. ctx' = Loaded(Blob, 0) /\ size' = Len(Blob) /\ Blob' = Blob
  BY <1>1, MeasuredNothing, Zenon DEF Blob
<1>6. Measuring'
  BY <1>3, <1>4, <1>5, Zenon DEF Measuring
<1> QED
  BY <1>1, <1>3, <1>6, GoesOn, SMT DEF Advancing, Ready, Achieved, Signing, Bin2c

LEMMA MinOf == ASSUME NEW m \in Int, NEW n \in Int, m <= n PROVE Min({m, n}) = m /\ Min({n, m}) = m
<1>1. m \in {m, n} /\ \A y \in {m, n} : m <= y
  BY SMT
<1>2. \A x \in {m, n} : (\A y \in {m, n} : x <= y) => x = m
  BY SMT
<1>3. Min({m, n}) = m
  BY <1>1, <1>2, Zenon DEF Min
<1>4. {m, n} = {n, m}
  BY Zenon
<1> QED
  BY <1>3, <1>4, Zenon

(* What a healthy fread returns, and that it is a part of the input.        *)
IsSequence(s) == Len(s) \in Nat /\ s = [i \in 1 .. Len(s) |-> s[i]]
LEMMA PartOfInput ==
    ASSUME NEW s, IsSequence(s), NEW pos \in Nat, NEW end \in Nat, pos < end, end <= Len(s)
    PROVE  /\ Len(SubSeq(s, pos + 1, end)) = end - pos /\ Len(SubSeq(s, 1, pos)) = pos
           /\ \A i \in 1 .. end - pos : SubSeq(s, pos + 1, end)[i] = s[pos + i]
           /\ SubSeq(s, 1, pos) \o SubSeq(s, pos + 1, end) = SubSeq(s, 1, end)
           /\ SubSeq(s, 1, Len(s)) = s
<1> DEFINE S == {s[i] : i \in 1 .. Len(s)}
<1>0. Len(s) \in Nat /\ s = [i \in 1 .. Len(s) |-> s[i]]
  BY Zenon DEF IsSequence
<1>1. s \in Seq(S)
  <2>1. \A i \in 1 .. Len(s) : s[i] \in S
    OBVIOUS
  <2> HIDE DEF S
  <2> QED
    BY <1>0, <2>1, SMT
<1> HIDE DEF S
<1>2. pos + 1 \in Int /\ end \in Int /\ \A i \in pos + 1 .. end : s[i] \in S
  <2>1. \A i \in pos + 1 .. end : i \in 1 .. Len(s)
    BY <1>0, SMT
  <2> QED
    BY <1>1, <2>1, ElementOfSeq, SMT
<1>3. /\ Len(SubSeq(s, pos + 1, end)) = IF pos + 1 <= end THEN end - (pos + 1) + 1 ELSE 0
      /\ \A i \in 1 .. end - (pos + 1) + 1 : SubSeq(s, pos + 1, end)[i] = s[pos + 1 + i - 1]
  BY <1>2, SubSeqProperties
<1>4. Len(SubSeq(s, pos + 1, end)) = end - pos /\ end - pos # 0
  BY <1>3, SMT
<1>5. Len(SubSeq(s, 1, pos)) = pos
  <2>1. 1 \in Int /\ pos \in Int /\ \A i \in 1 .. pos : s[i] \in S
    <3>1. \A i \in 1 .. pos : i \in 1 .. Len(s)
      BY <1>0, SMT
    <3> QED
      BY <1>1, <3>1, ElementOfSeq, SMT
  <2>2. Len(SubSeq(s, 1, pos)) = IF 1 <= pos THEN pos - 1 + 1 ELSE 0
    BY <2>1, SubSeqProperties
  <2> QED
    BY <2>2, SMT
<1>6. \A i \in 1 .. end - pos : SubSeq(s, pos + 1, end)[i] = s[pos + i]
  <2> SUFFICES ASSUME NEW i \in 1 .. end - pos
               PROVE  SubSeq(s, pos + 1, end)[i] = s[pos + i]
    OBVIOUS
  <2>1. i \in 1 .. end - (pos + 1) + 1 /\ pos + 1 + i - 1 = pos + i
    BY SMT
  <2> QED
    BY <1>3, <2>1
<1>7. SubSeq(s, 1, pos) \o SubSeq(s, pos + 1, end) = SubSeq(s, 1, end)
  <2>1. 1 \in 1 .. Len(s) + 1 /\ pos \in 1 - 1 .. Len(s) /\ end \in pos .. Len(s)
    BY <1>0, SMT
  <2> QED
    BY <1>1, <2>1, ConcatAdjacentSubSeq, Zenon
<1> QED
  BY <1>1, <1>4, <1>5, <1>6, <1>7, SubSeqFull, Zenon

LEMMA MeasurePageAchieves == ASSUME Advancing, MeasurePage PROVE Achieved'
<1>1. /\ pc = "page" /\ offset < size /\ Measuring /\ WholePages(Blob)
      /\ open = Linked /\ src = "blob" /\ BlobKept
  BY SMT DEF Advancing, Ready, MeasurePage, At, Achieved, Signing
<1>2. PICK n \in 0 .. Len(Blob) \div Page : offset = n * Page /\ ctx = Loaded(Blob, n)
  BY <1>1, Zenon DEF Measuring
<1> DEFINE N == Len(Blob) \div Page
<1>3. /\ N \in Nat /\ Len(Blob) = N * Page /\ size = N * Page /\ Len(Blob) \in Nat
      /\ Blob = [i \in 1 .. Len(Blob) |-> Blob[i]] /\ n \in Nat
      /\ Page \in Nat \ {0}
  BY <1>1, Pages, SgxsignAssumption, SMT DEF Measuring
<1> HIDE DEF N
<1>4. n + 1 \in 0 .. N /\ offset + Page <= Len(Blob) /\ (n + 1) * Page = offset + Page
  BY <1>1, <1>2, <1>3, NextMultiple, SMT
<1>5. offset \in Nat /\ offset + Page \in Nat /\ (offset + Page) - offset = Page
  BY <1>3, SMT DEF Advancing, Ready, IInv, TypeOK
<1>6. PageAt(offset) = SubSeq(Blob, offset + 1, offset + Page)
  <2>1. Opened = Blob
    BY <1>1, Zenon DEF Opened, Blob
  <2>2. Min({offset + Page, Len(Blob)}) = offset + Page
    <3>1. offset + Page \in Int /\ Len(Blob) \in Int
      BY <1>3, <1>5, SMT
    <3> QED
      BY <1>4, <3>1, MinOf, Zenon
  <2> QED
    BY <2>1, <2>2, Zenon DEF PageAt
<1>7. /\ Len(PageAt(offset)) = Page /\ PageAt(offset) # <<>>
      /\ \A i \in 1 .. Page : PageAt(offset)[i] = Blob[n * Page + i]
  <2>1. offset < offset + Page
    BY <1>3, <1>5, SMT
  <2>2. IsSequence(Blob)
    BY <1>3, Zenon DEF IsSequence
  <2>3. /\ Len(PageAt(offset)) = (offset + Page) - offset
        /\ \A i \in 1 .. (offset + Page) - offset : PageAt(offset)[i] = Blob[offset + i]
    <3> DEFINE end == offset + Page
    <3>1. /\ end \in Nat /\ offset < end /\ end <= Len(Blob)
          /\ PageAt(offset) = SubSeq(Blob, offset + 1, end)
      BY <1>4, <1>5, <1>6, <2>1, Zenon
    <3> HIDE DEF end
    <3>2. /\ Len(SubSeq(Blob, offset + 1, end)) = end - offset
          /\ \A i \in 1 .. end - offset : SubSeq(Blob, offset + 1, end)[i] = Blob[offset + i]
      BY <1>5, <2>2, <3>1, PartOfInput, Zenon
    <3>3. /\ Len(PageAt(offset)) = end - offset
          /\ \A i \in 1 .. end - offset : PageAt(offset)[i] = Blob[offset + i]
      BY <3>1, <3>2, Zenon
    <3> QED
      BY <3>3, Zenon DEF end
  <2>4. Len(PageAt(offset)) = Page /\ Len(<<>>) = 0 /\ Page # 0
    BY <1>3, <1>5, <2>3, SMT
  <2> QED
    BY <1>2, <1>5, <2>3, <2>4, Zenon
<1>8. PICK data \in Prefixes(PageAt(offset)) :
          /\ Fread(offset, data)
          /\ \/ NothingRead(data)
             \/ ~NothingRead(data) /\ Len(data) < Page /\ Fail
             \/ /\ Len(data) = Page
                /\ ctx' = Append(ctx, Eadd(offset \div Page)) \o Eextend(offset \div Page, data)
                /\ offset' = offset + Page
                /\ Go("page") /\ UNCHANGED <<files, open, size, ss, hdr>>
  BY Zenon DEF MeasurePage
<1>9. data = PageAt(offset)
  BY <1>8, Undamaged, Zenon DEF Fread
<1>10. /\ ctx' = Append(ctx, Eadd(offset \div Page)) \o Eextend(offset \div Page, data)
       /\ offset' = offset + Page
       /\ Go("page") /\ UNCHANGED <<files, open, size, ss, hdr>>
  BY <1>7, <1>8, <1>9, Ends, Zenon DEF NothingRead, Advancing, Ready
<1>11. ctx' = Loaded(Blob, n + 1)
  <2>1. offset \div Page = n
    <3>1. offset + 0 = offset /\ 0 \in 0 .. Page - 1
      BY <1>5, SgxsignAssumption, SMT
    <3>2. (n * Page + 0) \div Page = n
      BY <1>3, <3>1, DivMod, Zenon
    <3> QED
      BY <1>2, <3>1, <3>2, Zenon
  <2>2. ctx' = Append(Loaded(Blob, n), Eadd(n)) \o Eextend(n, PageAt(offset))
    BY <1>2, <1>9, <1>10, <2>1, Zenon
  <2> QED
    BY <1>3, <1>7, <2>2, MeasuredPage, Zenon
<1>12. Measuring'
  <2>1. Keyed' /\ ss'.date = mtime' /\ hdr' = <<>> /\ size' = Len(Blob)
    BY <1>1, <1>10, SameGoals, Zenon DEF Measuring, Advancing, Ready, Around
  <2>2. Blob' = Blob /\ offset' = (n + 1) * Page
    BY <1>4, <1>10, Zenon DEF Blob
  <2> QED
    BY <1>4, <1>11, <2>1, <2>2, Zenon DEF Measuring, N
<1>13. WholePages(Blob)'
  BY <1>1, Zenon DEF Advancing, Ready, Around
<1>14. pc' = "page" /\ src' = "blob" /\ open' = Linked
  BY <1>1, <1>10, GoesOn, Zenon
<1> QED
  BY <1>12, <1>13, <1>14, SMT DEF Achieved, Signing, Bin2c

LEMMA CommitMeasureAchieves == ASSUME Advancing, CommitMeasure PROVE Achieved'
<1>1. /\ ss' = [ss EXCEPT !.mrenclave = ctx]
      /\ ctx' = <<>> /\ size' = 0 /\ offset' = 0 /\ open' = Linked
      /\ Go(AfterMeasuring) /\ UNCHANGED <<files, hdr>>
  BY Zenon DEF CommitMeasure
<1>2. pc = "page" /\ offset >= size
  BY SMT DEF CommitMeasure, Advancing, Ready, Achieved, Signing, Bin2c
<1>3. Measuring /\ WholePages(Blob) /\ src = "blob" /\ BlobKept
  BY <1>2, SMT DEF Advancing, Ready, Achieved, Signing
<1>4. ctx = Measured(Blob)
  <2>1. PICK n \in 0 .. Len(Blob) \div Page : offset = n * Page /\ ctx = Loaded(Blob, n)
    BY <1>3, Zenon DEF Measuring
  <2> DEFINE N == Len(Blob) \div Page
  <2>2. N \in Nat /\ size = N * Page /\ n \in Nat /\ n <= N /\ Page \in Nat \ {0}
    BY <1>3, Pages, SgxsignAssumption, SMT DEF Measuring
  <2> HIDE DEF N
  <2>3. n = N
    BY <1>2, <2>1, <2>2, LastMultiple, SMT
  <2> QED
    BY <2>1, <2>3, Zenon DEF Measured, N
<1>5. /\ ss'.vendor = ss.vendor /\ ss'.modulus = ss.modulus /\ ss'.date = ss.date
      /\ ss'.mrenclave = ctx
  BY <1>1, SMT DEF Advancing, Ready, IInv, TypeOK, Kinds
<1>6. HasMeasured'
  BY <1>3, <1>4, <1>5, SameGoals, Zenon DEF HasMeasured, Keyed, Measuring, Advancing, Ready, Around
<1>7. \/ AfterMeasuring = "sign" /\ job.target = "sign"
      \/ AfterMeasuring = "load" /\ job.target = "usesig"
  BY SMT DEF AfterMeasuring, Advancing, Ready, Undisturbed
<1>8. pc' = AfterMeasuring /\ src' = "blob" /\ job' = job /\ WholePages(Blob)' /\ hdr' = <<>>
  BY <1>1, <1>3, GoesOn, Zenon DEF Advancing, Ready, Around, Measuring
<1> QED
  BY <1>1, <1>6, <1>7, <1>8, SMT DEF Achieved, Signing, Bin2c, Fresh

(* calc_q1q2 and the four conversions make a SIGSTRUCT of what was measured *)
(* and any signature.                                                       *)
LEMMA CompletedIsFinal ==
    ASSUME Advancing, HasMeasured, NEW sig, ss' = Completed([ss EXCEPT !.signature = Number(sig)]),
           job.target = "sign" => sig = [key |-> job.key, payload |-> Payload(ss)]
    PROVE  IsFinal(ss')
<1> DEFINE t == [ss EXCEPT !.signature = Number(sig)]
<1>1. /\ DOMAIN ss = Kinds /\ ss.modulus = Number(job.key)
      /\ ss.vendor = Vendor /\ ss.date = mtime /\ ss.mrenclave = Measured(Blob)
  BY Zenon DEF Advancing, Ready, IInv, TypeOK, HasMeasured, Keyed
<1>2. /\ DOMAIN t = Kinds /\ t.modulus = <<job.key, "big">> /\ t.signature = <<sig, "big">>
      /\ t.vendor = Vendor /\ t.date = mtime /\ t.mrenclave = Measured(Blob)
  BY <1>1, SMT DEF Kinds, Number
<1> HIDE DEF t
<1>3. /\ Read(t.signature, "big") = sig /\ Read(t.modulus, "big") = job.key
      /\ ReverseBytes(t.signature) = <<sig, "little">>
      /\ ReverseBytes(t.modulus) = <<job.key, "little">>
      /\ \A x : ReverseBytes(Number(x)) = <<x, "little">>
  BY <1>2, SMT DEF Read, ReverseBytes, Number
<1>4. /\ ss' = Completed(t)
      /\ ss'.vendor = t.vendor /\ ss'.date = t.date /\ ss'.mrenclave = t.mrenclave
      /\ ss'.modulus = ReverseBytes(t.modulus) /\ ss'.signature = ReverseBytes(t.signature)
      /\ ss'.q1 = ReverseBytes(Number(Q(1, Read(t.signature, "big"), Read(t.modulus, "big"))))
      /\ ss'.q2 = ReverseBytes(Number(Q(2, Read(t.signature, "big"), Read(t.modulus, "big"))))
  <2>1. ss' = Completed(t)
    BY Zenon DEF t
  <2>2. /\ Completed(t).vendor = t.vendor /\ Completed(t).date = t.date
        /\ Completed(t).mrenclave = t.mrenclave
        /\ Completed(t).modulus = ReverseBytes(t.modulus)
        /\ Completed(t).signature = ReverseBytes(t.signature)
        /\ Completed(t).q1 = ReverseBytes(Number(Q(1, Read(t.signature, "big"), Read(t.modulus, "big"))))
        /\ Completed(t).q2 = ReverseBytes(Number(Q(2, Read(t.signature, "big"), Read(t.modulus, "big"))))
    BY <1>2, SMT DEF Completed, Kinds
  <2> QED
    BY <2>1, <2>2, Zenon
<1>5. ss'.signature = <<sig, "little">> /\ ss'.signature[1] = sig
  <2>1. <<sig, "little">>[1] = sig
    BY SMT
  <2> QED
    BY <1>3, <1>4, <2>1, Zenon
<1>6. Payload(ss') = Payload(ss)
  BY <1>1, <1>2, <1>4, Zenon DEF Payload
<1> QED
  BY <1>2, <1>3, <1>4, <1>5, <1>6, Zenon DEF IsFinal

LEMMA SignEnclAchieves == ASSUME Advancing, SignEncl PROVE Achieved'
<1>1. /\ pc = "sign" /\ Go("save") /\ UNCHANGED <<files, open, size, offset, ctx, hdr>>
      /\ ss' = Completed([ss EXCEPT !.signature =
                           Number([key |-> job.key, payload |-> Payload(ss)])])
  BY Zenon DEF SignEncl, At
<1>2. HasMeasured /\ WholePages(Blob) /\ src = "blob" /\ open = Linked /\ Fresh
  BY <1>1, SMT DEF Advancing, Ready, Achieved, Signing
<1>3. IsFinal(ss)'
  <2>1. IsFinal(ss')
    BY <1>1, <1>2, CompletedIsFinal, Zenon
  <2> QED
    BY <2>1, Zenon DEF Advancing, Ready, Around, IsFinal, Vendor
<1>4. WholePages(Blob)' /\ pc' = "save" /\ src' = "blob" /\ open' = Linked /\ Fresh'
  BY <1>1, <1>2, GoesOn, Zenon DEF Advancing, Ready, Around, Fresh
<1> QED
  BY <1>3, <1>4, SMT DEF Achieved, Signing, Bin2c

LEMMA LoadSigAchieves == ASSUME Advancing, LoadSig PROVE Achieved'
<1>1. /\ pc = "load" /\ Go("save") /\ UNCHANGED <<files, open, size, offset, ctx, hdr>>
      /\ ss' = Completed([ss EXCEPT !.signature = Number(files["signature"][1])])
  BY Ends, Zenon DEF Advancing, Ready, LoadSig, At
<1>2. HasMeasured /\ WholePages(Blob) /\ src = "blob" /\ open = Linked /\ Fresh
      /\ job.target # "sign"
  BY <1>1, SMT DEF Advancing, Ready, Achieved, Signing
<1>3. IsFinal(ss)'
  <2>1. IsFinal(ss')
    BY <1>1, <1>2, CompletedIsFinal, Zenon
  <2> QED
    BY <2>1, Zenon DEF Advancing, Ready, Around, IsFinal, Vendor
<1>4. WholePages(Blob)' /\ pc' = "save" /\ src' = "blob" /\ open' = Linked /\ Fresh'
  BY <1>1, <1>2, GoesOn, Zenon DEF Advancing, Ready, Around, Fresh
<1> QED
  BY <1>3, <1>4, SMT DEF Achieved, Signing, Bin2c

LEMMA OpenOutputAchieves == ASSUME Advancing, OpenOutput PROVE Achieved'
<1>1. pc = "save" /\ Go("fwrite") /\ UNCHANGED <<open, size, offset, ctx, ss, hdr>>
  BY Ends, Zenon DEF Advancing, Ready, OpenOutput, At
<1>2. IsFinal(ss) /\ WholePages(Blob) /\ src = "blob" /\ open = Linked /\ Fresh
  BY <1>1, SMT DEF Advancing, Ready, Achieved, Signing
<1>3. IsFinal(ss)'
  BY <1>1, <1>2, Zenon DEF Advancing, Ready, Around, IsFinal, Vendor
<1>4. WholePages(Blob)' /\ pc' = "fwrite" /\ src' = "blob" /\ open' = Linked /\ Fresh'
  BY <1>1, <1>2, GoesOn, Zenon DEF Advancing, Ready, Around, Fresh
<1> QED
  BY <1>3, <1>4, SMT DEF Achieved, Signing, Bin2c

LEMMA WriteOutputAchieves ==
    ASSUME Advancing, WriteOutput, \A s : NoFile # <<s>>
    PROVE  Achieved'
<1>1. pc = "fwrite" /\ IsFinal(ss) /\ WholePages(Blob) /\ job.target # "gendata"
  BY SMT DEF WriteOutput, At, Advancing, Ready, Achieved, Undisturbed
<1>2. files' = [files EXCEPT !["sigstruct"] = <<ss>>] /\ Exit /\ pc' = "b_output" /\ src' = "blob"
  <2>1. Output = "sigstruct" /\ "sigstruct" # "material"
    BY <1>1, SMT DEF Output
  <2> QED
    BY <1>1, <2>1, Undamaged, Zenon DEF WriteOutput
<1>3. Written'
  <2>1. files'["sigstruct"] = <<ss>>
    BY <1>2, NamesDiffer, Zenon DEF Advancing, Ready, IInv, TypeOK
  <2>2. <<ss>>[1] = ss /\ <<ss>> # <<>>
    BY SMT
  <2>3. files'["sigstruct"][1] = ss
    BY <2>1, <2>2, Zenon
  <2>4. IsFinal(files["sigstruct"][1])'
    BY <1>1, <2>3, Zenon DEF Advancing, Ready, Around, IsFinal, Vendor
  <2> QED
    BY <2>1, <2>2, <2>3, <2>4, Zenon DEF Written
<1>4. WholePages(Blob)' /\ open' = Linked /\ Fresh'
  BY <1>1, <1>2, Zenon DEF Advancing, Ready, Around, Fresh, Exit
<1> QED
  BY <1>2, <1>3, <1>4, SMT DEF Achieved, Signing, Bin2c

(* bin2c.                                                                   *)
LEMMA InBin2c ==
    ASSUME Ready, pc \in Bin2c
    PROVE  /\ Written /\ WholePages(Blob) /\ open = Linked /\ BlobKept
           /\ src = "sigstruct" => files["blob_h"] = Blob
           /\ src \in {"blob", "sigstruct"}
           /\ files[src] # NoFile /\ files[src] # <<>> /\ IsSequence(files[src])
<1>1. /\ Written /\ WholePages(Blob) /\ open = Linked /\ BlobKept /\ src \in {"blob", "sigstruct"}
      /\ src = "sigstruct" => files["blob_h"] = Blob
  BY SMT DEF Advancing, Ready, Achieved, Bin2c, Signing, IInv, TypeOK
<1>2. Blob # NoFile /\ Blob # <<>> /\ IsSequence(Blob)
  <2>1. Len(Blob) # 0 /\ Len(<<>>) = 0
    BY <1>1, Pages, SMT
  <2> QED
    BY <1>1, <2>1, Pages, Zenon DEF IsSequence
<1>3. files["sigstruct"] \notin {NoFile, <<>>} /\ IsSequence(files["sigstruct"])
  <2>1. \A s : IsSequence(<<s>>)
    BY SMT DEF IsSequence
  <2> QED
    BY <1>1, <2>1, Zenon DEF Written
<1> QED
  BY <1>1, <1>2, <1>3, Zenon DEF Blob

LEMMA AdvancingIsReady == Advancing => Ready
  BY Zenon DEF Advancing

LEMMA OpenHeaderAchieves == ASSUME Advancing, OpenHeader PROVE Achieved'
<1>1. /\ pc = "b_output" /\ Go("b_input") /\ UNCHANGED <<open, size, offset, ctx, ss, hdr>>
      /\ files' = [files EXCEPT ![Header] = <<>>]
  BY Undamaged, Zenon DEF OpenHeader, At
<1>2. pc \in Bin2c /\ Fresh
  BY <1>1, SMT DEF Bin2c, Advancing, Ready, Achieved
<1>3. Header # "sigstruct" /\ (src = "sigstruct" => Header # "blob_h") /\ "blob_h" \in FileName
  BY SMT DEF Header, FileName
<1>4. /\ files'["sigstruct"] = files["sigstruct"]
      /\ src = "sigstruct" => files'["blob_h"] = files["blob_h"]
  BY <1>1, <1>3, NamesDiffer, Zenon DEF Advancing, Ready, IInv, TypeOK
<1>5. Written' /\ (src' = "sigstruct" => files'["blob_h"] = Blob') /\ WholePages(Blob)'
  BY <1>1, <1>2, <1>4, InBin2c, AdvancingIsReady, StaysWritten, GoesOn, Zenon DEF Advancing, Ready, Around
<1>6. pc' = "b_input" /\ open' = Linked /\ Fresh'
  BY <1>1, <1>2, InBin2c, AdvancingIsReady, GoesOn, Zenon DEF Fresh
<1> QED
  BY <1>5, <1>6, SMT DEF Achieved, Signing, Bin2c

LEMMA OpenInputAchieves == ASSUME Advancing, OpenInput PROVE Achieved'
<1>0. pc = "b_input" /\ pc \in Bin2c /\ Fresh
  BY SMT DEF OpenInput, At, Bin2c, Advancing, Ready, Achieved
<1>1. Go("b_stat") /\ open' = Linked /\ UNCHANGED <<files, size, offset, ctx, ss, hdr>>
  BY <1>0, InBin2c, AdvancingIsReady, Zenon DEF OpenInput
<1>2. Written' /\ (src' = "sigstruct" => files'["blob_h"] = Blob') /\ WholePages(Blob)'
  BY <1>0, <1>1, InBin2c, AdvancingIsReady, StaysWritten, GoesOn, Zenon DEF Advancing, Ready, Around
<1>3. pc' = "b_stat" /\ Fresh'
  BY <1>0, <1>1, GoesOn, Zenon DEF Fresh
<1> QED
  BY <1>1, <1>2, <1>3, SMT DEF Achieved, Signing, Bin2c

LEMMA StatInputAchieves == ASSUME Advancing, StatInput PROVE Achieved'
<1>0. pc = "b_stat" /\ pc \in Bin2c /\ Fresh
  BY SMT DEF StatInput, At, Bin2c, Advancing, Ready, Achieved
<1>1. /\ Go("b_page") /\ size' = Len(files[src])
      /\ UNCHANGED <<files, open, offset, ctx, ss, hdr>>
  BY <1>0, InBin2c, AdvancingIsReady, Zenon DEF StatInput
<1>2. Written' /\ (src' = "sigstruct" => files'["blob_h"] = Blob') /\ WholePages(Blob)'
  BY <1>0, <1>1, InBin2c, AdvancingIsReady, StaysWritten, GoesOn, Zenon DEF Advancing, Ready, Around
<1>3. pc' = "b_page" /\ open' = Linked /\ src' = src
  BY <1>0, <1>1, InBin2c, AdvancingIsReady, GoesOn, Zenon
<1>4. Copying'
  <2>1. size' \in Nat /\ offset' = 0 /\ hdr' = <<>>
    BY <1>0, <1>1, InBin2c, AdvancingIsReady, Zenon DEF IsSequence, Fresh
  <2>2. (IF offset' < size' THEN offset' ELSE size') = 0 /\ 0 < 1 /\ 0 \in Int /\ 1 \in Int
    BY <2>1, SMT
  <2>3. SubSeq(files'[src'], 1, 0) = <<>>
    BY <2>2, SubSeqEmpty, Zenon
  <2> QED
    BY <1>1, <1>3, <2>1, <2>2, <2>3, Zenon DEF Copying
<1> QED
  BY <1>2, <1>3, <1>4, SMT DEF Achieved, Signing, Bin2c

LEMMA ConvertPageAchieves == ASSUME Advancing, ConvertPage PROVE Achieved'
<1> DEFINE F == files[src]
           end == IF offset + Page < size THEN offset + Page ELSE size
<1>0. pc = "b_page" /\ pc \in Bin2c /\ Copying /\ offset < size
  BY SMT DEF ConvertPage, At, Bin2c, Advancing, Ready, Achieved
<1>1. /\ IsSequence(F) /\ open = Linked /\ size = Len(F) /\ Len(F) \in Nat /\ offset \in Nat
      /\ hdr = SubSeq(F, 1, offset)
  <2>1. hdr = SubSeq(F, 1, offset) /\ size = Len(F)
    BY <1>0, Zenon DEF Copying
  <2> QED
    BY <1>0, <2>1, InBin2c, AdvancingIsReady, Zenon
       DEF IsSequence, Advancing, Ready, IInv, TypeOK
<1>2. end \in Nat /\ offset < end /\ end <= Len(F) /\ Min({offset + Page, Len(F)}) = end
  <2>1. CASE offset + Page < size
    <3>1. offset + Page \in Int /\ Len(F) \in Int /\ offset + Page <= Len(F) /\ end = offset + Page
          /\ end \in Nat /\ offset < end
      BY <1>1, <2>1, SgxsignAssumption, SMT
    <3>2. Min({offset + Page, Len(F)}) = offset + Page
      BY <3>1, MinOf, Zenon
    <3> QED
      BY <3>1, <3>2, Zenon
  <2>2. CASE ~(offset + Page < size)
    <3>1. offset + Page \in Int /\ Len(F) \in Int /\ Len(F) <= offset + Page /\ end = Len(F)
          /\ end \in Nat /\ offset < end /\ end <= Len(F)
      BY <1>0, <1>1, <2>2, SgxsignAssumption, SMT
    <3>2. Min({offset + Page, Len(F)}) = Len(F)
      BY <3>1, MinOf, Zenon
    <3> QED
      BY <3>1, <3>2, Zenon
  <2> QED
    BY <2>1, <2>2
<1>e. end = IF offset + Page < size THEN offset + Page ELSE size
  OBVIOUS
<1>f. F = files[src]
  OBVIOUS
<1> HIDE DEF F, end
<1>3. /\ Len(SubSeq(F, offset + 1, end)) = end - offset /\ Len(SubSeq(F, 1, offset)) = offset
      /\ SubSeq(F, 1, offset) \o SubSeq(F, offset + 1, end) = SubSeq(F, 1, end)
  <2>1. IsSequence(F) /\ offset \in Nat /\ end \in Nat /\ offset < end /\ end <= Len(F)
    BY <1>1, <1>2, Zenon
  <2> QED
    BY <2>1, PartOfInput, Zenon
<1>4. Len(hdr) = offset /\ PageAt(Len(hdr)) = SubSeq(F, offset + 1, end)
  <2>1. Opened = F
    BY <1>1, <1>f, Zenon DEF Opened
  <2> QED
    BY <1>1, <1>2, <1>3, <2>1, Zenon DEF PageAt
<1>5. PICK data \in Prefixes(PageAt(Len(hdr))) :
          /\ Fread(Len(hdr), data)
          /\ hdr' = hdr \o data
          /\ offset' = IF NothingRead(data) THEN size ELSE offset + Page
  BY Zenon DEF ConvertPage
<1>6. data = PageAt(Len(hdr))
  BY <1>5, Undamaged, Zenon DEF Fread
<1>7. hdr' = SubSeq(F, 1, end)
  BY <1>1, <1>3, <1>4, <1>5, <1>6, Zenon
<1>8. offset' = offset + Page
  <2>1. Len(data) # 0 /\ Len(<<>>) = 0
    BY <1>1, <1>2, <1>3, <1>4, <1>6, SMT
  <2> QED
    BY <1>5, <2>1, Zenon DEF NothingRead
<1>9. Go("b_page") /\ UNCHANGED <<files, open, size, ctx, ss>>
  BY Zenon DEF ConvertPage
<1>10. pc' = "b_page" /\ open' = Linked /\ src' = src
  BY <1>1, <1>9, GoesOn, Zenon
<1>11. Copying'
  BY <1>1, <1>7, <1>8, <1>9, <1>10, <1>e, <1>f, Zenon DEF Copying
<1>12. Written' /\ (src' = "sigstruct" => files'["blob_h"] = Blob') /\ WholePages(Blob)'
  BY <1>0, <1>9, <1>10, InBin2c, AdvancingIsReady, StaysWritten, Zenon DEF Advancing, Around
<1> QED
  BY <1>10, <1>11, <1>12, SMT DEF Achieved, Signing, Bin2c

(* A header that is closed holds the file, and the recipe goes on.          *)
LEMMA Closing ==
    ASSUME Ready, CloseHeader
    PROVE  /\ files' = [files EXCEPT ![Header] = files[src]] /\ Converted
           /\ Written /\ WholePages(Blob) /\ (src = "sigstruct" => files["blob_h"] = Blob)
           /\ src \in {"blob", "sigstruct"}
<1> DEFINE F == files[src]
<1>0. pc = "b_page" /\ pc \in Bin2c /\ Copying /\ offset >= size
  BY SMT DEF CloseHeader, At, Bin2c, Ready, Achieved
<1>1. IsSequence(F) /\ F # <<>>
  BY <1>0, InBin2c, Zenon
<1> HIDE DEF F
<1>2. size = Len(F) /\ Len(F) \in Nat /\ size # 0
  <2>1. size = Len(F) /\ Len(F) \in Nat
    BY <1>0, <1>1, Zenon DEF Copying, IsSequence, F
  <2>2. CASE Len(F) = 0
    <3>1. F = [i \in 1 .. 0 |-> F[i]]
      BY <1>1, <2>2, Zenon DEF IsSequence
    <3>2. F = <<>>
      BY <3>1, SMT
    <3> QED
      BY <1>1, <3>2, Zenon
  <2> QED
    BY <2>1, <2>2, Zenon
<1>3. hdr = F
  <2>1. hdr = SubSeq(F, 1, IF offset < size THEN offset ELSE size)
    BY <1>0, Zenon DEF Copying, F
  <2>2. ~(offset < size)
    BY <1>0, <1>2, SMT DEF Ready, IInv, TypeOK
  <2>3. hdr = SubSeq(F, 1, Len(F))
    BY <1>2, <2>1, <2>2, Zenon
  <2>4. SubSeq(F, 1, Len(F)) = F
    <3>1. 0 \in Nat /\ 0 < Len(F) /\ Len(F) <= Len(F)
      BY <1>2, SMT
    <3> QED
      BY <1>1, <1>2, <3>1, PartOfInput, Zenon
  <2> QED
    BY <2>3, <2>4, Zenon
<1>4. Padded(hdr, size) = F
  <2>1. F = [i \in 1 .. Len(F) |-> F[i]]
    BY <1>1, Zenon DEF IsSequence
  <2>2. Padded(F, Len(F)) = [i \in 1 .. Len(F) |-> F[i]]
    BY <1>2, SMT DEF Padded
  <2> QED
    BY <1>2, <1>3, <2>1, <2>2, Zenon
<1>5. Complete(hdr, size) /\ ~(Len(hdr) > size)
  BY <1>2, <1>3, SMT DEF Complete
<1>6. files' = [files EXCEPT ![Header] = F] /\ Converted
  BY <1>2, <1>4, <1>5, Zenon DEF CloseHeader
<1> QED
  BY <1>0, <1>6, InBin2c, Zenon DEF F

LEMMA CloseHeaderAchieves == ASSUME Advancing, CloseHeader PROVE Achieved'
<1>1. /\ files' = [files EXCEPT ![Header] = files[src]] /\ Converted
      /\ Written /\ WholePages(Blob) /\ src \in {"blob", "sigstruct"}
  BY Closing, AdvancingIsReady, Zenon
<1>2. src = "blob" /\ Exit /\ pc' = "b_output" /\ src' = "sigstruct"
  BY <1>1, Zenon DEF Converted, EndRecipe, Advancing
<1>3. files'["blob_h"] = Blob /\ files'["sigstruct"] = files["sigstruct"]
  <2>1. Header = "blob_h" /\ "blob_h" # "sigstruct" /\ "blob_h" \in FileName
    BY <1>2, SMT DEF Header, FileName
  <2> QED
    BY <1>1, <1>2, <2>1, NamesDiffer, Zenon DEF Advancing, Ready, IInv, TypeOK, Blob
<1>4. Written' /\ files'["blob_h"] = Blob' /\ WholePages(Blob)' /\ open' = Linked /\ Fresh'
  BY <1>1, <1>2, <1>3, StaysWritten, Zenon DEF Advancing, Around, Exit, Fresh
<1> QED
  BY <1>2, <1>4, SMT DEF Achieved, Signing, Bin2c

-----------------------------------------------------------------------------
LEMMA StepAchieves ==
    ASSUME Advancing, Tool, \A s : NoFile # <<s>>
    PROVE  Achieved'
  BY LoadKeyAchieves, OpenEnclaveAchieves, StatEnclaveAchieves, MeasurePageAchieves,
     CommitMeasureAchieves, SignEnclAchieves, LoadSigAchieves, OpenOutputAchieves,
     WriteOutputAchieves, OpenHeaderAchieves, OpenInputAchieves, StatInputAchieves,
     ConvertPageAchieves, CloseHeaderAchieves, Zenon DEF Tool

LEMMA Busy == Tool => pc # "idle"
  BY SMT DEF Tool, LoadKey, OpenEnclave, StatEnclave, MeasurePage, CommitMeasure, SignEncl,
             LoadSig, OpenOutput, WriteOutput, OpenHeader, OpenInput, StatInput, ConvertPage,
             CloseHeader, At

LEMMA ProgressStep ==
    ASSUME IInv, Progress, [Next]_vars, \A s : NoFile # <<s>>
    PROVE  Progress'
<1>1. CASE Tool
  <2>1. Around /\ pc # "idle"
    BY <1>1, ToolAround, Busy, Zenon
  <2>2. Undisturbed /\ Achieved /\ steady' /\ pc' # "idle" => Achieved'
    BY <1>1, <2>1, StepAchieves, Zenon DEF Advancing, Ready, Progress
  <2> QED
    BY <2>1, <2>2, ToolProgress, Zenon
<1>2. ASSUME NEW c \in Images \cup {NoFile, <<>>}, NEW d \in Dates, Replace(c, d) \/ Overwrite(c, d)
      PROVE  Progress'
  <2>1. /\ files' = [files EXCEPT !["blob"] = c] /\ steady' = FALSE
        /\ UNCHANGED <<pc, src, size, offset, ctx, hdr>>
        /\ pc = "idle" => open' = open
    <3>1. "idle" \notin Reading
      BY SMT DEF Reading
    <3> QED
      BY <1>2, <3>1, Zenon DEF Replace, Overwrite, tool
  <2>2. Blob' = c
    BY <2>1, NamesDiffer, Zenon DEF IInv, TypeOK, Blob
  <2>3. BlobKept'
    BY <2>2, Zenon DEF BlobKept
  <2>4. Idle' /\ ~Undisturbed'
    BY <2>1, Zenon DEF Progress, Idle, Fresh, Undisturbed
  <2> QED
    BY <2>3, <2>4, Zenon DEF Progress
<1>3. ASSUME files'["blob"] = files["blob"], files'["sigstruct"] = files["sigstruct"],
             files'["blob_h"] = files["blob_h"], files'["sigstruct_h"] = files["sigstruct_h"],
             UNCHANGED <<mtime, tool, pc, status, steady, changes, jobs>>
      PROVE  Progress'
  <2>1. /\ mtime' = mtime /\ job' = job /\ open' = open /\ src' = src /\ size' = size /\ ss' = ss
        /\ offset' = offset /\ ctx' = ctx /\ hdr' = hdr /\ pc' = pc /\ steady' = steady
        /\ Blob' = Blob
    BY <1>3, Zenon DEF tool, Blob
  <2>2. BlobKept' /\ Idle' /\ (Undisturbed' => Undisturbed)
    BY <2>1, Zenon DEF Progress, BlobKept, Idle, Fresh, Undisturbed
  <2>3. ASSUME Undisturbed, Achieved PROVE Achieved'
    <3>1. Vendor' = Vendor /\ (Keyed => Keyed') /\ (HasMeasured => HasMeasured')
      BY <2>1, Zenon DEF Vendor, Keyed, HasMeasured
    <3>2. \A s : IsFinal(s)' = IsFinal(s)
      BY <2>1, <3>1, Zenon DEF IsFinal
    <3>3. Measuring => Measuring'
      BY <2>1, <3>1, Zenon DEF Measuring
    <3>4. Written => Written'
      BY <1>3, <3>2, Zenon DEF Written
    <3>5. Copying => Copying'
      <4>1. src \in {"blob", "sigstruct"}
        BY Zenon DEF IInv, TypeOK
      <4>2. files'[src] = files[src]
        BY <1>3, <4>1, Zenon
      <4> QED
        BY <2>1, <4>2, Zenon DEF Copying
    <3>6. Fresh => Fresh'
      BY <2>1, Zenon DEF Fresh
    <3>7. WholePages(Blob) => WholePages(Blob)'
      BY <2>1, Zenon
    <3>8. IsFinal(ss) => IsFinal(ss)'
      BY <2>1, <3>1, Zenon DEF IsFinal
    <3> QED
      BY <1>3, <2>1, <2>3, <3>1, <3>3, <3>4, <3>5, <3>6, <3>7, <3>8, Zenon DEF Achieved
  <2> QED
    BY <2>2, <2>3, Zenon DEF Progress
<1>4. ASSUME NEW k \in Keys, NEW whole \in BOOLEAN, ExternalSign(k, whole)
      PROVE  Progress'
  <2>1. PICK c : files' = [files EXCEPT !["signature"] = c]
    BY <1>4, Zenon DEF ExternalSign
  <2>2. {"blob", "sigstruct", "blob_h", "sigstruct_h"} \subseteq FileName \ {"signature"}
    BY SMT DEF FileName
  <2>3. \A f \in FileName \ {"signature"} : files'[f] = files[f]
    BY <2>1, Zenon DEF IInv, TypeOK
  <2> QED
    BY <1>3, <1>4, <2>2, <2>3, Zenon DEF ExternalSign
<1>5. ASSUME NEW t \in {"sign", "gendata", "usesig"}, NEW k \in Keys, NEW b \in BOOLEAN,
             Start(t, k, b)
      PROVE  Progress'
  <2>1. /\ Idle /\ pc = "idle" /\ open = Linked /\ src = "blob" /\ Fresh
        /\ BlobKept
    BY <1>5, Zenon DEF Start, Progress, Idle
  <2>2. /\ job' = [target |-> t, key |-> k, intel |-> b] /\ ss' = InitSigstruct(b)
        /\ pc' = IF t = "gendata" THEN "fopen" ELSE "key"
        /\ UNCHANGED <<files, open, src, size, offset, ctx, hdr>>
    BY <1>5, Zenon DEF Start
  <2>3. job'.target = t /\ job'.intel = b
    BY <2>2, SMT
  <2>4. pc' # "idle" /\ (t # "gendata" => pc' = "key")
    BY <2>2, SMT
  <2>5. BlobKept' /\ Idle' /\ Fresh' /\ open' = Linked /\ src' = "blob"
    BY <2>1, <2>2, <2>4, Zenon DEF BlobKept, Blob, Idle, Fresh
  <2>6. ss'.vendor = Vendor'
    <3>1. InitSigstruct(b).vendor = IF b THEN "8086" ELSE "0"
      BY SMT DEF InitSigstruct
    <3> QED
      BY <2>2, <2>3, <3>1, Zenon DEF Vendor
  <2>7. Undisturbed' => Achieved'
    <3> SUFFICES ASSUME Undisturbed' PROVE Achieved'
      OBVIOUS
    <3>1. pc' = "key"
      BY <2>3, <2>4, SMT DEF Undisturbed
    <3> QED
      BY <2>5, <2>6, <3>1, SMT DEF Achieved, Signing, Bin2c
  <2> QED
    BY <2>5, <2>7, Zenon DEF Progress
<1>6. CASE Interrupt
  <2>1. Exit /\ src' = "blob" /\ files' = files /\ pc' = "idle"
    BY <1>6, Ends, Zenon DEF Interrupt
  <2> QED
    BY <2>1, Zenon DEF Progress, BlobKept, Blob, Idle, Fresh, Undisturbed, Exit
<1>7. CASE UNCHANGED vars
  <2>1. /\ files' = files
        /\ UNCHANGED <<mtime, tool, pc, status, steady, changes, jobs>>
    BY <1>7, Zenon DEF vars, tool
  <2> QED
    BY <1>3, <2>1, Zenon
<1> QED
  BY <1>1, <1>2, <1>4, <1>5, <1>6, <1>7, Zenon DEF Next, Tool

LEMMA ProgressInit == Init => Progress
<1> SUFFICES ASSUME Init PROVE Progress
  OBVIOUS
<1>1. PICK b \in Images \cup {NoFile} :
         files = [f \in FileName |-> IF f = "blob" THEN b ELSE NoFile]
  BY Zenon DEF Init
<1>2. Blob = b
  BY <1>1, NamesDiffer, Zenon DEF Blob
<1>3. pc = "idle" /\ open = Linked /\ src = "blob" /\ Fresh
  BY Zenon DEF Init, Fresh
<1> QED
  BY <1>2, <1>3, Zenon DEF Progress, BlobKept, Idle, Undisturbed

(* The only step with which an undisturbed sign or usesig recipe succeeds   *)
(* closes the header of the SIGSTRUCT.                                      *)
LEMMA Succeeding ==
    ASSUME IInv, Progress, [Next]_vars, \A s : NoFile # <<s>>, pc # "idle", status' = "ok", steady',
           job.target # "gendata"
    PROVE  Ready /\ CloseHeader /\ src = "sigstruct"
<1>1. status = "running" /\ job.target \in {"sign", "usesig"}
  BY SMT DEF IInv, TypeOK, Started
<1>2. "ok" \notin {"running", "failed"}
  BY SMT
<1>3. Fail => status' = "failed"
  BY Zenon DEF Fail, EndRecipe
<1>4. Go("fopen") \/ Go("stat") \/ Go("page") \/ Go("commit") \/ Go(AfterMeasuring) \/ Go("save")
        \/ Go("fwrite") \/ Go("b_input") \/ Go("b_stat") \/ Go("b_page") => status' = status
  BY Zenon DEF Go
<1>5. ~LoadKey /\ ~OpenEnclave /\ ~StatEnclave /\ ~CommitMeasure /\ ~SignEncl /\ ~LoadSig
      /\ ~OpenOutput /\ ~StatInput /\ ~ConvertPage /\ ~Interrupt
  BY <1>1, <1>2, <1>3, <1>4, Zenon DEF LoadKey, OpenEnclave, StatEnclave, CommitMeasure, SignEncl,
     LoadSig, OpenOutput, StatInput, ConvertPage, Interrupt
<1>6. ~MeasurePage
  BY <1>1, <1>2, <1>3, <1>4, Zenon DEF MeasurePage
<1>7. ~WriteOutput
  BY <1>1, <1>2, Zenon DEF WriteOutput
<1>8. /\ \A c, d : ~Replace(c, d) /\ ~Overwrite(c, d) /\ \A k, w : ~ExternalSign(k, w)
      /\ \A t, k, i : ~Start(t, k, i)
      /\ ~UNCHANGED vars
  BY <1>1, <1>2, Zenon DEF Replace, Overwrite, ExternalSign, Start, vars
<1>9. OpenHeader \/ OpenInput \/ CloseHeader
  BY <1>5, <1>6, <1>7, <1>8, Zenon DEF Next
<1>10. steady /\ Ready
  <2>1. steady
    BY <1>9, Zenon DEF OpenHeader, OpenInput, CloseHeader, Healthy, Faulty
  <2> QED
    BY <1>1, <2>1, Zenon DEF Progress, Ready, Undisturbed
<1>11. ~OpenHeader
  BY <1>1, <1>2, <1>4, Zenon DEF OpenHeader, Faulty
<1>12. ~OpenInput
  <2>1. ASSUME OpenInput PROVE FALSE
    <3>1. pc \in Bin2c
      BY <2>1, SMT DEF OpenInput, At, Bin2c
    <3>2. files[src] # NoFile
      BY <1>10, <3>1, InBin2c, Zenon
    <3> QED
      BY <1>1, <1>2, <1>4, <2>1, <3>2, Zenon DEF OpenInput
  <2> QED
    BY <2>1, Zenon
<1>13. CloseHeader
  BY <1>9, <1>11, <1>12, Zenon
<1>14. src = "sigstruct"
  <2>1. Converted
    BY <1>10, <1>13, Closing, Zenon
  <2> QED
    BY <1>1, <1>2, <2>1, Zenon DEF Converted
<1> QED
  BY <1>10, <1>13, <1>14, Zenon

LEMMA SuccessStep ==
    ASSUME IInv, Progress, [Next]_vars, \A s : NoFile # <<s>>, pc # "idle", status' = "ok", steady',
           job.target # "gendata"
    PROVE  Loadable' <=> (job.target = "sign" \/ Signed = Due)
<1>1. Ready /\ CloseHeader /\ src = "sigstruct"
  BY Succeeding, Zenon
<1> DEFINE s == files["sigstruct"][1]
<1>2. /\ files' = [files EXCEPT ![Header] = files["sigstruct"]]
      /\ Written /\ files["blob_h"] = Blob
  BY <1>1, Closing, Zenon
<1>3. files["sigstruct"] = <<s>> /\ IsFinal(s) /\ files["sigstruct"] \notin {NoFile, <<>>}
  BY <1>2, Zenon DEF Written
<1>4. files'["sigstruct_h"] = <<s>> /\ files'["blob_h"] = Blob
  <2>1. Header = "sigstruct_h" /\ "sigstruct_h" # "blob_h"
        /\ "sigstruct_h" \in FileName /\ "blob_h" \in FileName
    BY <1>1, SMT DEF Header, FileName
  <2>2. DOMAIN files = FileName
    BY Zenon DEF IInv, TypeOK
  <2>3. files'["sigstruct_h"] = files["sigstruct"] /\ files'["blob_h"] = files["blob_h"]
    <3> HIDE DEF s
    <3> QED
      BY <1>2, <2>1, <2>2, Zenon
  <2>4. files["sigstruct"] = <<s>>
    BY <1>3, Zenon
  <2>5. files["blob_h"] = Blob
    BY <1>2, Zenon
  <2> HIDE DEF s
  <2> QED
    BY <2>3, <2>4, <2>5, Zenon
<1> HIDE DEF s
<1>5. <<s>>[1] = s
  BY SMT
<1>6. Loadable' <=> Accepts(Blob, s)
  <2>1. files'["sigstruct_h"][1] = s /\ files'["sigstruct_h"] \notin {NoFile, <<>>}
    BY <1>3, <1>4, <1>5, Zenon
  <2> QED
    BY <1>4, <2>1, Zenon DEF Loadable
<1>7. /\ Read(s.signature, "little") = s.signature[1] /\ Read(s.modulus, "little") = job.key
      /\ Read(s.q1, "little") = Q(1, s.signature[1], job.key)
      /\ Read(s.q2, "little") = Q(2, s.signature[1], job.key)
  <2>1. \A x : Read(<<x, "little">>, "little") = x
    BY SMT DEF Read
  <2> QED
    BY <1>3, <2>1, Zenon DEF IsFinal
<1>8. Accepts(Blob, s) <=> s.signature[1] = [key |-> job.key, payload |-> Payload(s)]
  BY <1>3, <1>7, Zenon DEF Accepts, IsFinal
<1>9. Due = [key |-> job.key, payload |-> Payload(s)]
  BY <1>3, Zenon DEF Due, Payload, IsFinal, Vendor, Blob
<1>10. Signed = s.signature[1]
  BY <1>7, Zenon DEF Signed, s
<1> QED
  BY <1>3, <1>6, <1>8, <1>9, <1>10, Zenon DEF IsFinal

(* A recipe that ends with success, and was not disturbed, leaves a pair of *)
(* headers that EINIT accepts, after usesig exactly when the signature is   *)
(* the one that is due: whatever images, keys and dates there are, and      *)
(* whatever earlier recipes, failures and interruptions left behind.  A     *)
(* file that does not exist is told from one that has a part.               *)
THEOREM SuccessIsLoadable ==
    ASSUME \A s : NoFile # <<s>>
    PROVE  Spec => SuccessMeansLoadable
<1>1. Init => Progress
  BY ProgressInit
<1>2. IInv /\ Progress /\ [Next]_vars => Progress'
  BY ProgressStep, Zenon
<1>3. IInv /\ Progress /\ [Next]_vars
        => [(pc # "idle" /\ status' = "ok" /\ steady' /\ job.target # "gendata")
              => (Loadable' <=> (job.target = "sign" \/ Signed = Due))]_vars
  BY SuccessStep, Zenon
<1> QED
  BY <1>1, <1>2, <1>3, Invariance, PTL DEF Spec, SuccessMeansLoadable

-----------------------------------------------------------------------------
(* The size of an enclave, from the loop that computes it.                  *)
LEMMA DoubledValues ==
    /\ Doubled \in [Nat -> Nat]
    /\ Doubled[0] = 1
    /\ \A n \in Nat \ {0} : Doubled[n] = 2 * Doubled[n - 1]
<1> DEFINE Step == [p \in Nat \X [Nat -> Nat] |->
                       IF p[1] = 0 THEN 1 ELSE 2 * p[2][p[1] - 1]]
<1>1. \A n \in Nat : \A f \in [Nat -> Nat] :
         Step[<<n, f>>] = IF n = 0 THEN 1 ELSE 2 * f[n - 1]
  OBVIOUS
<1>2. Step \in [Nat \X [Nat -> Nat] -> Nat]
  OBVIOUS
<1> HIDE DEF Step
<1>3. Local(Step, Nat)
  BY <1>1 DEF Local
<1>4. PICK F \in [Nat -> Nat] : \A n \in Nat : F[n] = Step[<<n, F>>]
  <2>1. 0 \in Nat
    OBVIOUS
  <2> QED
    BY <1>2, <1>3, <2>1, RecursiveFunction, Zenon
<1>5. \A n \in Nat : F[n] = IF n = 0 THEN 1 ELSE 2 * F[n - 1]
  BY <1>1, <1>4
<1>6. F = [n \in Nat |-> IF n = 0 THEN 1 ELSE 2 * F[n - 1]]
  BY <1>5
<1>7. Doubled = [n \in Nat |-> IF n = 0 THEN 1 ELSE 2 * Doubled[n - 1]]
  BY <1>6, Zenon DEF Doubled
<1>8. \A n \in Nat : Doubled[n] = IF n = 0 THEN 1 ELSE 2 * Doubled[n - 1]
  BY <1>7, Zenon
<1>9. \A n \in Nat : Doubled[n] = F[n]
  <2> DEFINE S == {n \in Nat : Doubled[n] = F[n]}
  <2>1. ASSUME NEW n \in Nat, \A m \in 0 .. n - 1 : m \in S PROVE n \in S
    <3>1. n > 0 => n - 1 \in S
      BY <2>1
    <3> QED
      BY <1>5, <1>8, <3>1
  <2>2. S = Nat
    <3> HIDE DEF S
    <3>1. S \in SUBSET Nat
      BY DEF S
    <3> QED
      BY <2>1, <3>1, Inductive, Zenon
  <2> QED
    BY <2>2
<1>10. Doubled = F
  <2>1. Doubled = [n \in Nat |-> Doubled[n]]
    BY <1>7, Zenon
  <2> QED
    BY <1>9, <2>1
<1> QED
  BY <1>8, <1>10

LEMMA DoubledGrows == \A n \in Nat : n < Doubled[n]
<1> DEFINE S == {n \in Nat : n < Doubled[n]}
<1>1. ASSUME NEW n \in Nat, \A m \in 0 .. n - 1 : m \in S PROVE n \in S
  <2>1. CASE n = 0
    BY <2>1, DoubledValues
  <2>2. CASE n > 0
    <3>1. n - 1 \in S
      BY <1>1, <2>2
    <3> QED
      BY <2>2, <3>1, DoubledValues
  <2> QED
    BY <2>1, <2>2
<1>2. S = Nat
  <2> HIDE DEF S
  <2>1. S \in SUBSET Nat
    BY DEF S
  <2> QED
    BY <1>1, <2>1, Inductive, Zenon
<1> QED
  BY <1>2

(* For every number of pages, the loop of mrenclave_ecreate ends with an    *)
(* enclave that holds the pages and is less than twice as large.            *)
THEOREM EnclaveFits ==
    \A n \in Nat \ {0} :
        EnclavePages(n) \in Nat /\ n <= EnclavePages(n) /\ EnclavePages(n) < 2 * n
<1> SUFFICES ASSUME NEW n \in Nat \ {0}
             PROVE  EnclavePages(n) \in Nat /\ n <= EnclavePages(n) /\ EnclavePages(n) < 2 * n
  OBVIOUS
<1> DEFINE P == Powers(n)
           L == {q \in P : q >= n}
           r == EnclavePages(n)
<1>1. P \in SUBSET Nat
  BY DoubledValues DEF Powers
<1>2. Doubled[n] \in L
  BY DoubledValues, DoubledGrows DEF Powers
<1>3. \E q \in P : q >= n /\ \A t \in P : t >= n => q <= t
  <2>1. L \in SUBSET Nat /\ L # {}
    BY <1>1, <1>2
  <2> HIDE DEF L
  <2>2. PICK q \in L : \A t \in L : q <= t
    BY <2>1, Least, Zenon
  <2> QED
    BY <2>2 DEF L
<1> HIDE DEF P
<1>4. r \in P /\ r >= n /\ \A t \in P : t >= n => r <= t
  BY <1>3, Zenon DEF EnclavePages, P
<1>5. PICK i \in 0 .. n : r = Doubled[i]
  BY <1>4 DEF P, Powers
<1> HIDE DEF r
<1>6. r < 2 * n
  <2>1. CASE i = 0
    BY <1>5, <2>1, DoubledValues
  <2>2. CASE i > 0
    <3>1. Doubled[i - 1] \in P /\ Doubled[i - 1] \in Nat /\ r = 2 * Doubled[i - 1]
      BY <1>5, <2>2, DoubledValues DEF P, Powers
    <3>2. ~(Doubled[i - 1] >= n)
      BY <1>1, <1>4, <3>1, DoubledValues, DoubledGrows
    <3> QED
      BY <3>1, <3>2
  <2> QED
    BY <2>1, <2>2
<1> QED
  BY <1>1, <1>4, <1>6 DEF r
=============================================================================
