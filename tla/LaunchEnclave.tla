----------------------------- MODULE LaunchEnclave -----------------------------
(***************************************************************************)
(* The launch enclave (dcap-le/main.c): one ecall, encl_body, that turns a *)
(* launch request into an EINIT token signed with the processor's launch   *)
(* key.  The request lies in memory shared with the host process, whose    *)
(* threads keep running during the call, so every access to it is a step of*)
(* its own.  The enclave has one TCS: calls do not overlap.  Assumed is    *)
(* that the pointer to the request leads outside of the enclave: encl_body *)
(* does not look where it points.                                          *)
(*                                                                         *)
(* The key and the CMAC are uninterpreted: a MAC is the pair of the key and*)
(* the payload it was computed from.  Attribute and feature words are the  *)
(* sets of their bits that are 1.                                          *)
(***************************************************************************)
EXTENDS Integers, FiniteSets

CONSTANTS Measurement,  \* the mrenclave values of requests
          Signer,       \* the mrsigner values of requests
          Whitelist,    \* G_SERVICE_ENCLAVE_MRSIGNER
          ReqFlags,     \* attribute bits that requests may have
          ReservedMask, \* SGX_ATTR_RESERVED_MASK
          ReqXfrm,      \* the xfrm values of requests
          Random,       \* values of a random keyid
          KeyWords,     \* words of a keyid, each drawn by rdrand
          Tries,        \* RAND_NR_TRIES
          EgetkeyFails, \* TRUE: EGETKEY may report an error
          MaxWrites     \* bound: steps of other host threads in a call

ASSUME LaunchAssumption ==
    /\ Whitelist \subseteq Signer
    /\ KeyWords \in Nat \ {0}
    /\ Tries \in Nat \ {0}
    /\ MaxWrites \in Nat
    /\ EgetkeyFails \in BOOLEAN

SGX_SUCCESS == 0
SGX_INVALID_ATTRIBUTE == 2
SGX_INVALID_PRIVILEGE == 3   \* 0x40000002
SGX_UNEXPECTED_ERROR == 4    \* 0x40000003
Result == {SGX_SUCCESS, SGX_INVALID_ATTRIBUTE, SGX_INVALID_PRIVILEGE,
           SGX_UNEXPECTED_ERROR}

\* What EREPORT says of the launch enclave, as its SIGSTRUCT requests it.
LE == [cpusvn |-> "cpusvn", isvsvn |-> 1, isvprodid |-> 0,
       attributes |-> {"INIT", "MODE64BIT", "EINITTOKENKEY"},
       xfrm |-> {"X87", "SSE"}, miscselect |-> {}]

(***************************************************************************)
(* Tokens.  "svn" stands for cpusvnle, isvsvnle and isvprodidle.           *)
(***************************************************************************)
NoKeyId == "zero"
NoMac == <<>>

ZeroToken == [valid |-> 0, mrenclave |-> "zero", mrsigner |-> "zero",
              attributes |-> {}, xfrm |-> {}, svn |-> <<>>,
              maskedattributesle |-> {}, maskedxfrmle |-> {},
              maskedmiscselectle |-> {}, keyid |-> NoKeyId, mac |-> NoMac]

Payload(t) == <<t.valid, t.attributes, t.xfrm, t.mrenclave, t.mrsigner>>

\* The bits of the launch enclave's own words that the key does not depend
\* on: the complements of attributemask, xfrmmask and miscmask.
Dropped(word) == CASE word = "attributes" -> {"MODE64BIT"}
                   [] word = "xfrm" -> LE.xfrm
                   [] word = "miscselect" -> {}

\* EGETKEY: the key depends on the request and on the enclave that asks.
EgetKey(svn, keyid) ==
    <<"LICENSE_KEY", svn, LE.attributes \ Dropped("attributes"),
      LE.miscselect \ Dropped("miscselect"), keyid>>

\* The key from which EINIT checks the MAC of token t.
EinitKey(t) == <<"LICENSE_KEY", t.svn, t.maskedattributesle,
                 t.maskedmiscselectle, t.keyid>>
Verifies(t) == t.valid = 1 /\ t.mac = <<EinitKey(t), Payload(t)>>

VARIABLES pc,      \* "host", or the next step of the call
          req,     \* the launch request and its output, in shared memory
          loc,     \* the enclave's copy of the request
          token,   \* the token under construction
          words,   \* words of the keyid drawn so far
          tries,   \* attempts of rdrand for the current word
          ret,     \* the result of create_einittoken
          writes   \* steps of other host threads in this call
vars == <<pc, req, loc, token, words, tries, ret, writes>>

(***************************************************************************)
(* The host.  Between calls it sets up a request and may keep the output of*)
(* an earlier one; during a call its other threads may write any field.    *)
(***************************************************************************)
Fields == {"mrenclave", "mrsigner", "attributes", "xfrm"}
Field(f) == CASE f = "mrenclave" -> Measurement [] f = "mrsigner" -> Signer
              [] f = "attributes" -> SUBSET ReqFlags [] f = "xfrm" -> ReqXfrm
Request == [mrenclave : Measurement, mrsigner : Signer,
            attributes : SUBSET ReqFlags, xfrm : ReqXfrm]

Init ==
    /\ pc = "host"
    /\ req \in [in : Request, token : {ZeroToken}, result : {SGX_SUCCESS}]
    /\ loc = req.in
    /\ token = ZeroToken
    /\ words = 0 /\ tries = 0 /\ ret = SGX_SUCCESS /\ writes = 0

Call(c) ==
    /\ pc = "host"
    /\ req' = [req EXCEPT !.in = c]
    /\ pc' = "mrenclave"
    /\ writes' = 0
    /\ UNCHANGED <<loc, token, words, tries, ret>>

HostWrites(r) ==
    /\ pc # "host"
    /\ writes < MaxWrites
    /\ writes' = writes + 1
    /\ req' = r
    /\ UNCHANGED <<pc, loc, token, words, tries, ret>>

HostWrite ==
    \/ \E f \in Fields : \E v \in Field(f) : HostWrites([req EXCEPT !.in[f] = v])
    \/ HostWrites([req EXCEPT !.token = ZeroToken, !.result = SGX_SUCCESS])

(***************************************************************************)
(* encl_body                                                               *)
(***************************************************************************)
After(f) == CASE f = "mrenclave" -> "mrsigner" [] f = "mrsigner" -> "attributes"
              [] f = "attributes" -> "xfrm" [] f = "xfrm" -> "check"

\* The request is copied field by field, and the local token cleared.  (A
\* copy torn by a concurrent write yields one more value of the field.)
Fetch(f) ==
    /\ pc = f
    /\ loc' = [loc EXCEPT ![f] = req.in[f]]
    /\ pc' = After(f)
    /\ token' = ZeroToken
    /\ UNCHANGED <<req, words, tries, ret, writes>>

\* Mutant: the check reads the request again.
Privileged_Refetch ==
    "PROVISIONKEY" \in req.in.attributes => req.in.mrsigner \in Whitelist
Privileged == "PROVISIONKEY" \in loc.attributes => loc.mrsigner \in Whitelist

\* Mutant: the token of an earlier call is left in the output.
RefusedOutput_Stale(out) == out
RefusedOutput(out) == [out EXCEPT !.valid = 0]

\* A provisioning enclave of an unknown signer: first payload.valid is
\* cleared, then the result is written.
RefuseToken ==
    /\ pc = "check" /\ ~Privileged
    /\ req' = [req EXCEPT !.token = RefusedOutput(@)]
    /\ pc' = "refuse"
    /\ UNCHANGED <<loc, token, words, tries, ret, writes>>
RefuseResult ==
    /\ pc = "refuse"
    /\ req' = [req EXCEPT !.result = SGX_INVALID_PRIVILEGE]
    /\ pc' = "host"
    /\ UNCHANGED <<loc, token, words, tries, ret, writes>>

(***************************************************************************)
(* create_einittoken                                                       *)
(***************************************************************************)
InvalidAttribute ==
    /\ pc = "check" /\ Privileged
    /\ loc.attributes \cap ReservedMask # {}
    /\ ret' = SGX_INVALID_ATTRIBUTE
    /\ pc' = "result"
    /\ UNCHANGED <<req, loc, token, words, tries, writes>>

\* EREPORT cannot fail: it leaves 0 in rax, or faults.
FillToken ==
    /\ pc = "check" /\ Privileged
    /\ loc.attributes \cap ReservedMask = {}
    /\ token' = [ZeroToken EXCEPT
                    !.valid = 1,
                    !.mrenclave = loc.mrenclave, !.mrsigner = loc.mrsigner,
                    !.attributes = loc.attributes, !.xfrm = loc.xfrm,
                    !.svn = <<LE.cpusvn, LE.isvsvn, LE.isvprodid>>,
                    !.maskedattributesle = LE.attributes,
                    !.maskedxfrmle = LE.xfrm,
                    !.maskedmiscselectle = LE.miscselect]
    /\ words' = 0 /\ tries' = 0
    /\ pc' = "random"
    /\ UNCHANGED <<req, loc, ret, writes>>

(***************************************************************************)
(* sign_einittoken and rdrand_uint32                                       *)
(***************************************************************************)
DrawWord ==
    /\ pc = "random" /\ words < KeyWords
    /\ words' = words + 1 /\ tries' = 0
    /\ UNCHANGED <<pc, req, loc, token, ret, writes>>

\* Mutants: the tries start over when they run out; an attempt counts twice.
Again_Forever(n) == (n + 1) % Tries
Again_Twice(n) == n + 2
Again(n) == n + 1

\* rdrand has no value ready.
DrawFails ==
    /\ pc = "random" /\ words < KeyWords /\ tries < Tries
    /\ tries' = Again(tries)
    /\ IF tries' = Tries
       THEN ret' = SGX_UNEXPECTED_ERROR /\ pc' = "result"
       ELSE UNCHANGED <<ret, pc>>
    /\ UNCHANGED <<req, loc, token, words, writes>>

\* Mutant: the words of the report are left as they are.
Masked_Whole(t) == t
Masked(t) ==
    [t EXCEPT !.maskedmiscselectle = @ \ Dropped("miscselect"),
              !.maskedattributesle = @ \ Dropped("attributes"),
              !.maskedxfrmle = @ \ Dropped("xfrm")]

Sign(r) ==
    LET t == Masked([token EXCEPT !.keyid = r]) IN
    /\ pc = "random" /\ words = KeyWords
    /\ token' = [t EXCEPT !.mac = <<EgetKey(t.svn, r), Payload(t)>>]
    /\ ret' = SGX_SUCCESS
    /\ pc' = "result"
    /\ UNCHANGED <<req, loc, words, tries, writes>>

\* EGETKEY reports an error and sign_einittoken returns false, which is 0.
NoKey(r) ==
    /\ EgetkeyFails
    /\ pc = "random" /\ words = KeyWords
    /\ token' = Masked([token EXCEPT !.keyid = r])
    /\ ret' = SGX_SUCCESS
    /\ pc' = "result"
    /\ UNCHANGED <<req, loc, words, tries, writes>>

\* The result is written to the request, and read back from it.
WriteResult ==
    /\ pc = "result"
    /\ req' = [req EXCEPT !.result = ret]
    /\ pc' = "output"
    /\ UNCHANGED <<loc, token, words, tries, ret, writes>>

CopyToken ==
    /\ pc = "output"
    /\ req' = IF req.result = SGX_SUCCESS THEN [req EXCEPT !.token = token]
                                          ELSE req
    /\ pc' = "host"
    /\ UNCHANGED <<loc, token, words, tries, ret, writes>>

Enclave ==
    \/ \E f \in Fields : Fetch(f)
    \/ RefuseToken
    \/ RefuseResult
    \/ InvalidAttribute
    \/ FillToken
    \/ DrawWord
    \/ DrawFails
    \/ \E r \in Random : Sign(r) \/ NoKey(r)
    \/ WriteResult
    \/ CopyToken

Next == (\E c \in Request : Call(c)) \/ HostWrite \/ Enclave

Spec == Init /\ [][Next]_vars

\* A thread inside the enclave is scheduled again after every interrupt.
FairSpec == Spec /\ WF_vars(Enclave)

-----------------------------------------------------------------------------
(***************************************************************************)
(* Properties                                                              *)
(***************************************************************************)

Svn == {<<>>, <<LE.cpusvn, LE.isvsvn, LE.isvprodid>>}
KeyId == Random \cup {NoKeyId}
Key == {"LICENSE_KEY"} \X Svn \X (SUBSET LE.attributes)
           \X (SUBSET LE.miscselect) \X KeyId
Mac == Key \X ({0, 1} \X (SUBSET ReqFlags) \X (ReqXfrm \cup {{}})
                   \X (Measurement \cup {"zero"}) \X (Signer \cup {"zero"}))
Token == [valid : {0, 1}, mrenclave : Measurement \cup {"zero"},
          mrsigner : Signer \cup {"zero"}, attributes : SUBSET ReqFlags,
          xfrm : ReqXfrm \cup {{}}, svn : Svn,
          maskedattributesle : SUBSET LE.attributes,
          maskedxfrmle : SUBSET LE.xfrm,
          maskedmiscselectle : SUBSET LE.miscselect,
          keyid : KeyId, mac : Mac \cup {NoMac}]

\* The counters stay in their loops, the results are the four codes of the
\* enclave, and the tokens carry at most one MAC over a payload.
TypeOK ==
    /\ pc \in Fields \cup {"host", "check", "refuse", "random", "result", "output"}
    /\ req \in [in : Request, token : Token, result : Result]
    /\ loc \in Request
    /\ token \in Token
    /\ words \in 0..KeyWords
    /\ tries \in 0..Tries
    /\ ret \in Result
    /\ writes \in 0..MaxWrites

\* What the launch enclave may sign: no reserved attribute, and the
\* provisioning key only for the listed signers.
Allowed(t) ==
    /\ t.attributes \cap ReservedMask = {}
    /\ "PROVISIONKEY" \in t.attributes => t.mrsigner \in Whitelist

\* A token that EINIT would accept never appears in the shared output for
\* attributes the checks refuse, whatever other threads do to the request
\* between the fetches, the checks and the copy.
SignedAllowed == Verifies(req.token) => Allowed(req.token)

Returns == pc # "host" /\ pc' = "host" /\ writes = 0

\* A token that EINIT accepts, or that was not signed for want of a key.
Usable(t) == Verifies(t) \/ (EgetkeyFails /\ t.mac = NoMac)

\* A call on a request nobody else touches that reports success leaves a
\* token for exactly the enclave of the request, and EINIT accepts it unless
\* it has no MAC because EGETKEY failed.
SuccessVerifies ==
    [][Returns /\ req'.result = SGX_SUCCESS =>
          /\ Usable(req'.token)
          /\ \A f \in Fields : req'.token[f] = req.in[f]]_vars

\* A call that reports success has signed its token, also where EGETKEY may
\* fail: what SuccessVerifies leaves open.
SuccessHasMac ==
    [][Returns /\ req'.result = SGX_SUCCESS => req'.token.mac # NoMac]_vars

\* A call that refuses the provisioning key leaves no token behind that EINIT
\* accepts, not even that of an earlier call on the same request.  (Any other
\* error leaves what was there, as the code does.)
RefusalClears ==
    [][Returns /\ req'.result = SGX_INVALID_PRIVILEGE =>
          ~Verifies(req'.token)]_vars

\* Steps the call still takes at most: every word of the keyid may cost all
\* the tries that are left to it.
StepsLeft ==
    LET all == KeyWords * Tries IN
    CASE pc = "mrenclave" -> all + 8 [] pc = "mrsigner" -> all + 7
      [] pc = "attributes" -> all + 6 [] pc = "xfrm" -> all + 5
      [] pc = "check" -> all + 4
      [] pc = "random" -> (KeyWords - words) * Tries - tries + 3
      [] pc = "result" -> 2 [] pc \in {"output", "refuse"} -> 1
      [] pc = "host" -> 0

\* Every step of the enclave brings the end of the call nearer, whether rdrand
\* has a value or not and whatever other threads write: a call costs at most
\* Tries attempts for each word, and nothing of it starts over.
CallsBounded ==
    [][pc # "host" /\ writes' = writes => StepsLeft' \in 0 .. StepsLeft - 1]_vars

\* Every call comes back, also when rdrand never has a value.
CallsReturn == pc # "host" ~> pc = "host"

-----------------------------------------------------------------------------
(***************************************************************************)
(* The inductive invariant behind the safety properties.                   *)
(***************************************************************************)

\* Where the enclave's copy of field f was made in this call.
Past(f) ==
    {"check", "refuse", "random", "result", "output"} \cup
        CASE f = "mrenclave" -> {"mrsigner", "attributes", "xfrm"}
          [] f = "mrsigner" -> {"attributes", "xfrm"}
          [] f = "attributes" -> {"xfrm"}
          [] f = "xfrm" -> {}
Agrees == writes = 0 => \A f \in Fields : pc \in Past(f) => loc[f] = req.in[f]

Describes(t) == \A f \in Fields : t[f] = loc[f]
Filled == pc = "random" =>
    /\ Describes(token) /\ token.valid = 1 /\ token.mac = NoMac
    /\ token.maskedattributesle = LE.attributes
    /\ token.maskedmiscselectle = LE.miscselect
Signed == pc \in {"result", "output"} /\ ret = SGX_SUCCESS =>
    Describes(token) /\ Usable(token)
Answers == pc = "output" /\ writes = 0 => req.result = ret
Refuses == /\ pc = "refuse" /\ writes = 0 => req.token.valid = 0
           /\ ret # SGX_INVALID_PRIVILEGE

IInv == /\ TypeOK
        /\ Allowed(token) /\ Allowed(req.token)
        /\ Agrees /\ Filled /\ Signed /\ Answers /\ Refuses
=============================================================================
