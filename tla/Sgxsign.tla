-------------------------------- MODULE Sgxsign --------------------------------
(***************************************************************************)
(* The signing tool of the launch enclave (dcap-le/sgxsign.c), the         *)
(* converter to C headers (dcap-le/bin2c.c) and the make recipes that run  *)
(* them one after the other, while the enclave file may be rebuilt at any  *)
(* time.  Every call that touches the file system is a step of its own.    *)
(*                                                                         *)
(* A file is the sequence of its parts.  The enclave file consists of      *)
(* chunks of 256 bytes, what one EEXTEND measures, Page of them to a page; *)
(* any other file has one part.  Hashes and signatures are uninterpreted:  *)
(* a digest is the sequence of the updates, a signature the record of the  *)
(* key and the signed payload.  A number stored as bytes is the pair of its*)
(* value and the byte order.                                               *)
(***************************************************************************)
EXTENDS Integers, SequencesExt

CONSTANTS Images,     \* contents the build may give the enclave file
          Page,       \* chunks of a page, 16 in the code
          Zero,       \* the chunk of zero bytes
          Dates,      \* dates of modification
          Keys,       \* RSA keys
          NoFile,     \* a file that does not exist
          Linked,     \* an open file that is still the one its path names
          IOErrors,   \* TRUE: reads, writes and opening a header may fail
          MaxChanges, \* bound: changes of the enclave file, and errors
          MaxJobs     \* bound: recipes started

ASSUME SgxsignAssumption ==
    /\ Page \in Nat \ {0}
    /\ MaxChanges \in Nat /\ MaxJobs \in Nat
    /\ IOErrors \in BOOLEAN
    /\ \A c \in Images : c # NoFile /\ c # Linked /\ Len(c) \in Nat
                         /\ c = [i \in 1..Len(c) |-> c[i]]

FileName == {"blob", "material", "signature", "sigstruct", "blob_h", "sigstruct_h"}

VARIABLES files,   \* the file system
          mtime,   \* date of the enclave file
          job,     \* the recipe that runs or ran last, and its parameters
          pc,      \* "idle", or the next step of the tool that runs
          open,    \* the open input: Linked, or the parts of a replaced file
          src,     \* the file bin2c converts
          size,    \* sb.st_size
          offset,  \* parts of the input handled so far
          ctx,     \* the digest of the enclave so far
          ss,      \* the SIGSTRUCT under construction
          hdr,     \* the data bin2c has written to the header
          status,  \* how the recipe ended
          steady,  \* since the recipe began the enclave file has not changed
                   \* and no read, write or fopen of a header has failed
          changes, jobs
tool == <<job, open, src, size, offset, ctx, ss, hdr>>
vars == <<files, mtime, job, pc, open, src, size, offset, ctx, ss, hdr, status,
          steady, changes, jobs>>

-----------------------------------------------------------------------------
(* Numbers, payloads and measurements.                                      *)

Number(v) == <<v, "big">>           \* BN_bn2bin and RSA_sign
ReverseBytes(x) == <<x[1], IF x[2] = "big" THEN "little" ELSE "big">>
Read(x, order) == IF x[2] = order THEN x[1] ELSE <<"reversed", x[1]>>

Q(i, s, m) == <<"q", i, s, m>>

InitSigstruct(intel) ==
    [vendor |-> IF intel THEN "8086" ELSE "0", date |-> "0", mrenclave |-> <<>>,
     modulus |-> Number("0"), signature |-> Number("0"),
     q1 |-> Number("0"), q2 |-> Number("0")]

\* init_payload: what is signed.
Payload(s) == [vendor |-> s.vendor, date |-> s.date, mrenclave |-> s.mrenclave]

\* mutant: the conversion of the second quotient is forgotten
Completed_BigEndian(s) ==
    LET sig == Read(s.signature, "big")
        mod == Read(s.modulus, "big")
    IN  [s EXCEPT !.signature = ReverseBytes(@), !.modulus = ReverseBytes(@),
                  !.q1 = ReverseBytes(Number(Q(1, sig, mod))),
                  !.q2 = Number(Q(2, sig, mod))]

\* calc_q1q2 and the conversion of the four numbers to little endian.
Completed(s) ==
    LET sig == Read(s.signature, "big")
        mod == Read(s.modulus, "big")
    IN  [s EXCEPT !.signature = ReverseBytes(@), !.modulus = ReverseBytes(@),
                  !.q1 = ReverseBytes(Number(Q(1, sig, mod))),
                  !.q2 = ReverseBytes(Number(Q(2, sig, mod)))]

\* encl_size after i rounds of the loop of mrenclave_ecreate, in pages.
Doubled[i \in Nat] == IF i = 0 THEN 1 ELSE 2 * Doubled[i - 1]
Powers(n) == {Doubled[i] : i \in 0..n}

\* The smallest power of two of pages that holds n pages.
EnclavePages(n) == CHOOSE r \in Powers(n) : r >= n /\ \A q \in Powers(n) : q >= n => r <= q

Ecreate(pages) == <<"ECREATE", EnclavePages(pages)>>
Eadd(page) == <<"EADD", page, IF page = 0 THEN "TCS" ELSE "REG|R|W|X">>
Eextend(page, data) ==
    [i \in 1..Page |-> <<"EEXTEND", page * Page + i - 1, data[i]>>]

\* What the processor measures when the driver creates an enclave with room for
\* the image and loads it, a TCS and regular pages: first the ECREATE, then one
\* EADD and Page EEXTENDs for every page.
Update(image, k) ==
    LET pages == Len(image) \div Page
        Sizes == {Doubled[i] : i \in 0..pages}
        Room == CHOOSE r \in Sizes : pages <= r /\ \A q \in Sizes : pages <= q => r <= q
        Of(p, i) == IF i = 0 THEN <<"EADD", p, IF p = 0 THEN "TCS" ELSE "REG|R|W|X">>
                    ELSE <<"EEXTEND", p * Page + i - 1, image[p * Page + i]>>
    IN  IF k = 1 THEN <<"ECREATE", Room>>
        ELSE Of((k - 2) \div (Page + 1), (k - 2) % (Page + 1))
Loaded(image, n) == [k \in 1 .. 1 + n * (Page + 1) |-> Update(image, k)]
Measured(image) == Loaded(image, Len(image) \div Page)

\* EINIT without a token check: the signature and the measurement.
Accepts(image, s) ==
    LET sig == Read(s.signature, "little")
        mod == Read(s.modulus, "little")
    IN  /\ sig = [key |-> mod, payload |-> Payload(s)]
        /\ Read(s.q1, "little") = Q(1, sig, mod)
        /\ Read(s.q2, "little") = Q(2, sig, mod)
        /\ s.mrenclave = Measured(image)

-----------------------------------------------------------------------------
Init ==
    /\ files \in {[f \in FileName |-> IF f = "blob" THEN b ELSE NoFile] :
                    b \in Images \cup {NoFile}}
    /\ mtime \in Dates
    /\ job = [target |-> "none", key |-> "none", intel |-> FALSE]
    /\ pc = "idle" /\ status = "none" /\ steady = TRUE
    /\ open = Linked /\ src = "blob" /\ size = 0 /\ offset = 0
    /\ ctx = <<>> /\ ss = InitSigstruct(FALSE) /\ hdr = <<>>
    /\ changes = 0 /\ jobs = 0

(***************************************************************************)
(* The world around the tools.                                             *)
(***************************************************************************)

\* The steps of a tool that has its input open.
Reading == {"stat", "page", "b_stat", "b_page"}

\* The enclave file is rebuilt or removed: the path names another file, and a
\* tool that has the old one open keeps reading it.
Replace(c, d) ==
    /\ changes < MaxChanges
    /\ changes' = changes + 1
    /\ files' = [files EXCEPT !["blob"] = c]
    /\ mtime' = d
    /\ open' = IF pc \in Reading /\ src = "blob" /\ open = Linked
                  THEN files["blob"] ELSE open
    /\ steady' = FALSE
    /\ UNCHANGED <<job, pc, src, size, offset, ctx, ss, hdr, status, jobs>>

\* The enclave file is written in place.
Overwrite(c, d) ==
    /\ changes < MaxChanges /\ files["blob"] # NoFile
    /\ changes' = changes + 1
    /\ files' = [files EXCEPT !["blob"] = c]
    /\ mtime' = d
    /\ steady' = FALSE
    /\ UNCHANGED <<tool, pc, status, jobs>>

\* The holder of a key signs the material; the copy may be cut short.
ExternalSign(k, whole) ==
    /\ files["material"] \notin {NoFile, <<>>}
    /\ files' = [files EXCEPT !["signature"] =
                    IF whole THEN <<[key |-> k, payload |-> files["material"][1]]>>
                             ELSE <<>>]
    /\ UNCHANGED <<mtime, tool, pc, status, steady, changes, jobs>>

\* make: the commands of a recipe run in order and the first failure ends it.
Start(target, k, intel) ==
    /\ pc = "idle" /\ jobs < MaxJobs
    /\ jobs' = jobs + 1
    /\ job' = [target |-> target, key |-> k, intel |-> intel]
    /\ ss' = InitSigstruct(intel)
    /\ pc' = IF target = "gendata" THEN "fopen" ELSE "key"
    /\ status' = "running" /\ steady' = TRUE
    /\ UNCHANGED <<files, mtime, open, src, size, offset, ctx, hdr, changes>>

\* A process ends: its variables and open files are gone.
Exit ==
    /\ open' = Linked /\ size' = 0 /\ offset' = 0 /\ ctx' = <<>> /\ hdr' = <<>>
    /\ ss' = InitSigstruct(FALSE)
\* mutant: the result of the command is not set
EndRecipe_NoResult(how) == Exit /\ pc' = "idle" /\ src' = "blob" /\ UNCHANGED status

\* The last process of a recipe ends.
EndRecipe(how) == Exit /\ pc' = "idle" /\ status' = how /\ src' = "blob"
Fail == EndRecipe("failed") /\ UNCHANGED files

\* The user interrupts make.
Interrupt ==
    pc # "idle" /\ Fail /\ UNCHANGED <<mtime, job, steady, changes, jobs>>

(***************************************************************************)
(* sgxsign.                                                                *)
(***************************************************************************)
At(l) == pc = l /\ UNCHANGED <<mtime, job, jobs>>
Go(l) == pc' = l /\ UNCHANGED <<src, status>>
Healthy == UNCHANGED <<steady, changes>>
Faulty ==
    /\ IOErrors /\ changes < MaxChanges
    /\ changes' = changes + 1
    /\ steady' = FALSE

\* load_sign_key, load_public_key: the file is missing or no RSA-3072 key.
LoadKey ==
    /\ At("key") /\ Healthy
    /\ \/ /\ ss' = [ss EXCEPT !.modulus = Number(job.key)]
          /\ Go("fopen") /\ UNCHANGED <<files, open, size, offset, ctx, hdr>>
       \/ Fail

\* measure_encl opens the enclave ...
OpenEnclave ==
    /\ At("fopen") /\ Healthy
    /\ \/ /\ files["blob"] # NoFile
          /\ open' = Linked
          /\ Go("stat") /\ UNCHANGED <<files, size, offset, ctx, ss, hdr>>
       \/ files["blob"] = NoFile /\ Fail

\* ... asks for the size and date of what the path names now ...
WholePages(f) == f # NoFile /\ Len(f) # 0 /\ Len(f) % Page = 0
StatEnclave ==
    /\ At("stat") /\ Healthy
    /\ \/ /\ WholePages(files["blob"])
          /\ size' = Len(files["blob"])
          /\ ss' = [ss EXCEPT !.date = mtime]
          /\ ctx' = <<Ecreate(size' \div Page)>>
          /\ Go("page") /\ UNCHANGED <<files, open, offset, hdr>>
       \/ ~WholePages(files["blob"]) /\ Fail

\* fread at position pos: at most a page, and less when an error occurs.
Opened == IF open = Linked THEN files[src] ELSE open
PageAt(pos) == SubSeq(Opened, pos + 1, Min({pos + Page, Len(Opened)}))
Fread(pos, data) ==
    \/ Healthy /\ data = PageAt(pos)
    \/ Faulty /\ Len(data) < Len(PageAt(pos))

\* ... and adds page after page.
NothingRead(data) == data = <<>>
MeasurePage ==
    /\ At("page") /\ offset < size
    /\ \E data \in Prefixes(PageAt(offset)) :
          /\ Fread(offset, data)
          /\ \/ /\ NothingRead(data)
                /\ ctx' = Append(ctx, Eadd(offset \div Page))
                /\ Go("commit") /\ UNCHANGED <<files, open, size, offset, ss, hdr>>
             \/ ~NothingRead(data) /\ Len(data) < Page /\ Fail
             \/ /\ Len(data) = Page
                /\ ctx' = Append(ctx, Eadd(offset \div Page))
                            \o Eextend(offset \div Page, data)
                /\ offset' = offset + Page
                /\ Go("page") /\ UNCHANGED <<files, open, size, ss, hdr>>

AfterMeasuring ==
    CASE job.target = "sign" -> "sign"
      [] job.target = "gendata" -> "save"
      [] job.target = "usesig" -> "load"
CommitMeasure ==
    /\ At(pc) /\ Healthy /\ (pc = "commit" \/ (pc = "page" /\ offset >= size))
    /\ ss' = [ss EXCEPT !.mrenclave = ctx]
    /\ ctx' = <<>> /\ size' = 0 /\ offset' = 0 /\ open' = Linked
    /\ Go(AfterMeasuring) /\ UNCHANGED <<files, hdr>>

\* sign_encl and calc_q1q2
SignEncl ==
    /\ At("sign") /\ Healthy
    /\ ss' = Completed([ss EXCEPT !.signature =
                           Number([key |-> job.key, payload |-> Payload(ss)])])
    /\ Go("save") /\ UNCHANGED <<files, open, size, offset, ctx, hdr>>

\* load_sig and calc_q1q2, whose quotients may be too large for a signature
\* that was made with another modulus.
HasSignature == files["signature"] \notin {NoFile, <<>>}
LoadSig ==
    /\ At("load") /\ Healthy
    /\ \/ /\ HasSignature
          /\ ss' = Completed([ss EXCEPT !.signature =
                                 Number(files["signature"][1])])
          /\ Go("save") /\ UNCHANGED <<files, open, size, offset, ctx, hdr>>
       \/ ~(HasSignature /\ files["signature"][1].key = job.key) /\ Fail

\* save_output opens the file, which empties it, ...
Output == IF job.target = "gendata" THEN "material" ELSE "sigstruct"
OpenOutput ==
    /\ At("save") /\ Healthy
    /\ \/ /\ files' = [files EXCEPT ![Output] = <<>>]
          /\ Go("fwrite") /\ UNCHANGED <<open, size, offset, ctx, ss, hdr>>
       \/ Fail

\* ... and writes it, whatever fwrite returns; the process ends.
WriteOutput ==
    /\ At("fwrite")
    /\ \/ /\ Healthy
          /\ files' = [files EXCEPT ![Output] =
                          <<IF Output = "material" THEN Payload(ss) ELSE ss>>]
       \/ Faulty /\ UNCHANGED files
    /\ IF job.target = "gendata" THEN EndRecipe("ok")
       ELSE /\ Exit /\ pc' = "b_output" /\ src' = "blob" /\ UNCHANGED status

(***************************************************************************)
(* bin2c: first the enclave, then the SIGSTRUCT.                           *)
(***************************************************************************)
Header == IF src = "blob" THEN "blob_h" ELSE "sigstruct_h"

\* Exit with res = 0.
Converted ==
    IF src = "sigstruct" THEN EndRecipe("ok")
    ELSE Exit /\ pc' = "b_output" /\ src' = "sigstruct" /\ UNCHANGED status

OpenHeader ==
    /\ At("b_output")
    /\ \/ /\ Healthy
          /\ files' = [files EXCEPT ![Header] = <<>>]
          /\ Go("b_input") /\ UNCHANGED <<open, size, offset, ctx, ss, hdr>>
       \/ Faulty /\ Converted /\ UNCHANGED files

OpenInput ==
    /\ At("b_input") /\ Healthy
    /\ \/ /\ files[src] # NoFile
          /\ open' = Linked
          /\ Go("b_stat") /\ UNCHANGED <<files, size, offset, ctx, ss, hdr>>
       \/ files[src] = NoFile /\ Converted /\ UNCHANGED files

StatInput ==
    /\ At("b_stat") /\ Healthy
    /\ \/ /\ files[src] # NoFile
          /\ size' = Len(files[src])
          /\ Go("b_page") /\ UNCHANGED <<files, open, offset, ctx, ss, hdr>>
       \/ files[src] = NoFile /\ Fail

ConvertPage ==
    /\ At("b_page") /\ offset < size
    /\ \E data \in Prefixes(PageAt(Len(hdr))) :
          /\ Fread(Len(hdr), data)
          /\ hdr' = hdr \o data
          /\ offset' = IF NothingRead(data) THEN size ELSE offset + Page
    /\ Go("b_page") /\ UNCHANGED <<files, open, size, ctx, ss>>

\* The array in the header is as long as stat said.  C fills the rest with
\* zeros, and compiles no empty array and no surplus elements.
Padded(parts, n) == [i \in 1..n |-> IF i <= Len(parts) THEN parts[i] ELSE Zero]
Complete(parts, n) == Len(parts) >= n
CloseHeader ==
    /\ At("b_page") /\ Healthy /\ offset >= size
    /\ files' = [files EXCEPT ![Header] =
                    IF size = 0 \/ Len(hdr) > size THEN <<>> ELSE Padded(hdr, size)]
    /\ IF Complete(hdr, size) THEN Converted ELSE EndRecipe("failed")

Next ==
    \/ \E c \in Images \cup {NoFile}, d \in Dates : Replace(c, d)
    \/ \E c \in Images \cup {<<>>}, d \in Dates : Overwrite(c, d)
    \/ \E k \in Keys, whole \in BOOLEAN : ExternalSign(k, whole)
    \/ \E t \in {"sign", "gendata", "usesig"}, k \in Keys, i \in BOOLEAN :
          Start(t, k, i)
    \/ Interrupt
    \/ LoadKey \/ OpenEnclave \/ StatEnclave \/ MeasurePage \/ CommitMeasure
    \/ SignEncl \/ LoadSig \/ OpenOutput \/ WriteOutput
    \/ OpenHeader \/ OpenInput \/ StatInput \/ ConvertPage \/ CloseHeader

Spec == Init /\ [][Next]_vars

-----------------------------------------------------------------------------
(* Properties.                                                              *)

\* The types of the state.
Kinds == {"vendor", "date", "mrenclave", "modulus", "signature", "q1", "q2"}
TypeOK ==
    /\ DOMAIN files = FileName
    /\ mtime \in Dates
    /\ job \in [target : {"none", "sign", "gendata", "usesig"},
               key : Keys \cup {"none"}, intel : BOOLEAN]
    /\ pc \in {"idle", "key", "fopen", "sign", "load", "commit", "save", "fwrite",
             "b_output", "b_input"} \cup Reading
    /\ src \in {"blob", "sigstruct"}
    /\ size \in Nat /\ offset \in Nat
    /\ DOMAIN ss = Kinds
    /\ status \in {"none", "running", "ok", "failed"}
    /\ (pc = "idle") = (status # "running")
    /\ steady \in BOOLEAN
    /\ changes \in 0..MaxChanges /\ jobs \in 0..MaxJobs

\* If a recipe ends with success, and while it ran the enclave file did not
\* change and no input or output error occurred, then the two headers are a
\* pair that EINIT accepts, whatever earlier runs, failures and interruptions
\* left behind; after usesig exactly when the signature was made with that key
\* for this enclave, this date and this vendor.
Signed == Read(files["sigstruct"][1].signature, "little")
Due == [key |-> job.key,
        payload |-> [vendor |-> IF job.intel THEN "8086" ELSE "0", date |-> mtime,
                     mrenclave |-> Measured(files["blob"])]]
Loadable ==
    /\ files["sigstruct_h"] \notin {NoFile, <<>>}
    /\ Accepts(files["blob_h"], files["sigstruct_h"][1])
SuccessMeansLoadable ==
    [][(pc # "idle" /\ status' = "ok" /\ steady' /\ job.target # "gendata")
        => (Loadable' <=> (job.target = "sign" \/ Signed = Due))]_vars

\* A SIGSTRUCT or signing material that was written covers the contents of
\* every page it adds to the enclave.
Covered(digest) ==
    LET Of(tag) == SelectSeq(digest, LAMBDA u : u[1] = tag)
    IN  Len(Of("EEXTEND")) = Page * Len(Of("EADD"))
EveryPageMeasured ==
    \A f \in {"material", "sigstruct"} :
        files[f] \notin {NoFile, <<>>} => Covered(files[f][1].mrenclave)
=============================================================================
