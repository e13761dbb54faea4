-------------------------- MODULE LaunchEnclaveProofs --------------------------
(* Machine-checked facts about the launch enclave, for every whitelist,      *)
(* reserved mask, number of key id words and tries, and any number of        *)
(* concurrent writes by the host.                                            *)
EXTENDS LaunchEnclave, TLAPS

LEMMA ZeroTokenType == ZeroToken \in Token
BY DEF ZeroToken, Token, NoMac, Svn, KeyId

LEMMA LEWords ==
    /\ LE.attributes = {"INIT", "MODE64BIT", "EINITTOKENKEY"}
    /\ LE.xfrm = {"X87", "SSE"} /\ LE.miscselect = {}
BY DEF LE

LEMMA DroppedWords ==
    /\ Dropped("attributes") = {"MODE64BIT"}
    /\ Dropped("xfrm") = LE.xfrm
    /\ Dropped("miscselect") = {}
BY DEF Dropped

\* Writing one field of a request keeps it a request.
LEMMA RequestType ==
    ASSUME NEW c \in Request, NEW f \in Fields, NEW v \in Field(f)
    PROVE  [c EXCEPT ![f] = v] \in Request
BY DEF Request, Fields, Field

\* A field of a request has the type of the field.
LEMMA FieldType ==
    ASSUME NEW c \in Request, NEW f \in Fields
    PROVE  c[f] \in Field(f)
BY DEF Request, Fields, Field

\* Masking and signing keep a token a token and its payload the same.
LEMMA MaskedType ==
    ASSUME NEW t \in Token, NEW r \in Random
    PROVE  LET u == Masked([t EXCEPT !.keyid = r]) IN
           /\ u \in Token
           /\ Payload(u) = Payload(t) /\ u.svn = t.svn /\ u.mac = t.mac
           /\ u.keyid = r
           /\ u.maskedattributesle = t.maskedattributesle \ {"MODE64BIT"}
           /\ u.maskedmiscselectle = t.maskedmiscselectle
<1> DEFINE u == Masked([t EXCEPT !.keyid = r])
<1>1. u \in Token
  BY DEF Masked, Token, KeyId
<1>2. /\ u.valid = t.valid /\ u.mrenclave = t.mrenclave
      /\ u.mrsigner = t.mrsigner /\ u.attributes = t.attributes
      /\ u.xfrm = t.xfrm /\ u.svn = t.svn /\ u.mac = t.mac /\ u.keyid = r
  BY DEF Masked, Token
<1>3. /\ u.maskedattributesle = t.maskedattributesle \ {"MODE64BIT"}
      /\ u.maskedmiscselectle = t.maskedmiscselectle \ {}
  BY DroppedWords DEF Masked, Token
<1> QED BY <1>1, <1>2, <1>3 DEF Payload

LEMMA SignedType ==
    ASSUME NEW u \in Token, NEW r \in Random
    PROVE  LET s == [u EXCEPT !.mac = <<EgetKey(u.svn, r), Payload(u)>>] IN
           /\ s \in Token
           /\ Payload(s) = Payload(u) /\ s.mac = <<EgetKey(u.svn, r), Payload(u)>>
           /\ EinitKey(s) = EinitKey(u) /\ s.valid = u.valid
           /\ \A f \in Fields : s[f] = u[f]
<1> DEFINE s == [u EXCEPT !.mac = <<EgetKey(u.svn, r), Payload(u)>>]
<1>1. EgetKey(u.svn, r) \in Key
  <2>1. /\ u.svn \in Svn /\ r \in KeyId
        /\ LE.attributes \ Dropped("attributes") \in SUBSET LE.attributes
        /\ LE.miscselect \ Dropped("miscselect") \in SUBSET LE.miscselect
    BY DEF Token, KeyId
  <2> QED BY <2>1 DEF EgetKey, Key
<1>2. <<EgetKey(u.svn, r), Payload(u)>> \in Mac
  BY <1>1 DEF Mac, Payload, Token
<1>3. s \in Token
  BY <1>2 DEF Token
<1>4. /\ s.valid = u.valid /\ s.mrenclave = u.mrenclave
      /\ s.mrsigner = u.mrsigner /\ s.attributes = u.attributes
      /\ s.xfrm = u.xfrm /\ s.svn = u.svn /\ s.keyid = u.keyid
      /\ s.maskedattributesle = u.maskedattributesle
      /\ s.maskedmiscselectle = u.maskedmiscselectle
      /\ s.mac = <<EgetKey(u.svn, r), Payload(u)>>
  BY DEF Token
<1> QED BY <1>3, <1>4 DEF Payload, EinitKey, Fields

\* The token that create_einittoken starts from.
Filling ==
    [ZeroToken EXCEPT
        !.valid = 1, !.mrenclave = loc.mrenclave, !.mrsigner = loc.mrsigner,
        !.attributes = loc.attributes, !.xfrm = loc.xfrm,
        !.svn = <<LE.cpusvn, LE.isvsvn, LE.isvprodid>>,
        !.maskedattributesle = LE.attributes, !.maskedxfrmle = LE.xfrm,
        !.maskedmiscselectle = LE.miscselect]

LEMMA FillingType ==
    ASSUME loc \in Request
    PROVE  /\ Filling \in Token
           /\ Describes(Filling) /\ Filling.valid = 1
           /\ Filling.maskedattributesle = LE.attributes
           /\ Filling.maskedmiscselectle = LE.miscselect
           /\ Filling.mac = NoMac
<1>1. /\ loc.mrenclave \in Measurement /\ loc.mrsigner \in Signer
      /\ loc.attributes \in SUBSET ReqFlags /\ loc.xfrm \in ReqXfrm
  BY DEF Request
<1>2. /\ Filling.valid = 1
      /\ Filling.mrenclave = loc.mrenclave /\ Filling.mrsigner = loc.mrsigner
      /\ Filling.attributes = loc.attributes /\ Filling.xfrm = loc.xfrm
      /\ Filling.maskedattributesle = LE.attributes
      /\ Filling.maskedmiscselectle = LE.miscselect
      /\ Filling.mac = NoMac
  BY DEF Filling, ZeroToken
<1>3. Filling \in Token
  BY <1>1, ZeroTokenType DEF Filling, Token, Svn, ZeroToken
<1> QED BY <1>2, <1>3 DEF Describes, Fields

LEMMA TypeInit == Init => TypeOK
BY ZeroTokenType, LaunchAssumption
   DEF Init, TypeOK, Request, Result, SGX_SUCCESS, Fields, LaunchAssumption

LEMMA TypeStep == TypeOK /\ [Next]_vars => TypeOK'
<1> SUFFICES ASSUME TypeOK, [Next]_vars PROVE TypeOK'
  OBVIOUS
<1>0. /\ req \in [in : Request, token : Token, result : Result]
      /\ req.in \in Request /\ req.token \in Token /\ req.result \in Result
      /\ loc \in Request /\ token \in Token /\ ret \in Result
      /\ words \in 0..KeyWords /\ tries \in 0..Tries /\ writes \in 0..MaxWrites
      /\ KeyWords \in Nat /\ Tries \in Nat /\ Tries > 0 /\ MaxWrites \in Nat
  BY LaunchAssumption DEF TypeOK, LaunchAssumption
<1>1. ASSUME NEW c \in Request, Call(c) PROVE TypeOK'
  BY <1>0, <1>1 DEF Call, TypeOK, Fields
<1>2. ASSUME HostWrite PROVE TypeOK'
  <2>1. ASSUME NEW f \in Fields, NEW v \in Field(f),
               HostWrites([req EXCEPT !.in[f] = v])
        PROVE  TypeOK'
    <3>1. [req.in EXCEPT ![f] = v] \in Request
      BY <1>0, RequestType
    <3>2. req' \in [in : Request, token : Token, result : Result]
      BY <1>0, <2>1, <3>1 DEF HostWrites
    <3> QED BY <1>0, <2>1, <3>2 DEF HostWrites, TypeOK
  <2>2. ASSUME HostWrites([req EXCEPT !.token = ZeroToken, !.result = SGX_SUCCESS])
        PROVE  TypeOK'
    <3>1. SGX_SUCCESS \in Result
      BY DEF Result
    <3>2. req' \in [in : Request, token : Token, result : Result]
      BY <1>0, <2>2, <3>1, ZeroTokenType DEF HostWrites
    <3> QED BY <1>0, <2>2, <3>2 DEF HostWrites, TypeOK
  <2> QED BY <1>2, <2>1, <2>2 DEF HostWrite
<1>3. ASSUME NEW f \in Fields, Fetch(f) PROVE TypeOK'
  <2>1. loc' \in Request
    BY <1>0, <1>3, FieldType, RequestType DEF Fetch
  <2>2. pc' \in Fields \cup {"check"}
    BY <1>3 DEF Fetch, After, Fields
  <2> QED BY <1>0, <1>3, <2>1, <2>2, ZeroTokenType DEF Fetch, TypeOK
<1>4. ASSUME RefuseToken PROVE TypeOK'
  <2>1. RefusedOutput(req.token) \in Token
    BY <1>0 DEF RefusedOutput, Token
  <2> QED BY <1>0, <1>4, <2>1 DEF RefuseToken, TypeOK
<1>5. ASSUME RefuseResult PROVE TypeOK'
  BY <1>0, <1>5 DEF RefuseResult, TypeOK, Result
<1>6. ASSUME InvalidAttribute PROVE TypeOK'
  BY <1>0, <1>6 DEF InvalidAttribute, TypeOK, Result
<1>7. ASSUME FillToken PROVE TypeOK'
  BY <1>0, <1>7, FillingType DEF FillToken, Filling, TypeOK
<1>8. ASSUME DrawWord PROVE TypeOK'
  BY <1>0, <1>8 DEF DrawWord, TypeOK
<1>9. ASSUME DrawFails PROVE TypeOK'
  BY <1>0, <1>9 DEF DrawFails, Again, TypeOK, Result
<1>10. ASSUME NEW r \in Random, Sign(r) PROVE TypeOK'
  <2>1. token' \in Token
    BY <1>0, <1>10, MaskedType, SignedType DEF Sign
  <2> QED BY <1>0, <1>10, <2>1 DEF Sign, TypeOK, Result
<1>11. ASSUME NEW r \in Random, NoKey(r) PROVE TypeOK'
  BY <1>0, <1>11, MaskedType DEF NoKey, TypeOK, Result
<1>12. ASSUME WriteResult PROVE TypeOK'
  BY <1>0, <1>12 DEF WriteResult, TypeOK
<1>13. ASSUME CopyToken PROVE TypeOK'
  BY <1>0, <1>13 DEF CopyToken, TypeOK
<1>14. ASSUME UNCHANGED vars PROVE TypeOK'
  BY <1>14 DEF TypeOK, vars
<1> QED BY <1>1, <1>2, <1>3, <1>4, <1>5, <1>6, <1>7, <1>8, <1>9, <1>10, <1>11,
           <1>12, <1>13, <1>14 DEF Next, Enclave

THEOREM TypeCorrect == Spec => []TypeOK
BY TypeInit, TypeStep, PTL DEF Spec

LEMMA ZeroAllowed ==
    Allowed(ZeroToken) /\ ~Verifies(ZeroToken) /\ ZeroToken.valid = 0
BY DEF Allowed, ZeroToken, Verifies

\* What a token may be signed for depends on its attributes and signer alone.
LEMMA SameAllowed ==
    ASSUME NEW t, NEW u, u.attributes = t.attributes, u.mrsigner = t.mrsigner,
           Allowed(t)
    PROVE  Allowed(u)
BY DEF Allowed

LEMMA Results ==
    /\ SGX_SUCCESS # SGX_INVALID_PRIVILEGE
    /\ SGX_INVALID_ATTRIBUTE # SGX_INVALID_PRIVILEGE
    /\ SGX_UNEXPECTED_ERROR # SGX_INVALID_PRIVILEGE
    /\ SGX_INVALID_ATTRIBUTE # SGX_SUCCESS
    /\ SGX_UNEXPECTED_ERROR # SGX_SUCCESS
BY DEF SGX_SUCCESS, SGX_INVALID_PRIVILEGE, SGX_INVALID_ATTRIBUTE,
       SGX_UNEXPECTED_ERROR

LEMMA PastCheck ==
    \A f \in Fields : {"check", "refuse", "random", "result", "output"} \subseteq Past(f)
BY DEF Past

LEMMA IInvInit == Init => IInv
<1> SUFFICES ASSUME Init PROVE IInv
  OBVIOUS
<1>1. TypeOK
  BY TypeInit
<1>2. Allowed(token) /\ Allowed(req.token)
  BY ZeroAllowed DEF Init
<1>3. Agrees /\ Filled /\ Signed /\ Answers /\ Refuses
  BY Results DEF Init, Agrees, Filled, Signed, Answers, Refuses, Past, Fields
<1> QED BY <1>1, <1>2, <1>3 DEF IInv

\* Signing keeps what the token describes, and the key is the one EINIT uses.
LEMMA SignsToken ==
    ASSUME TypeOK, Filled, NEW r \in Random, Sign(r)
    PROVE  Describes(token)' /\ Verifies(token)'
<1> DEFINE u == Masked([token EXCEPT !.keyid = r])
           s == [u EXCEPT !.mac = <<EgetKey(u.svn, r), Payload(u)>>]
<1>1. pc = "random" /\ token' = s /\ loc' = loc /\ token \in Token
  BY DEF Sign, TypeOK
<1>2. /\ u \in Token /\ Payload(u) = Payload(token) /\ u.keyid = r
      /\ u.maskedattributesle = LE.attributes \ {"MODE64BIT"}
      /\ u.maskedmiscselectle = LE.miscselect
  BY <1>1, MaskedType DEF Filled
<1>3. /\ Payload(s) = Payload(u) /\ s.mac = <<EgetKey(u.svn, r), Payload(u)>>
      /\ EinitKey(s) = EinitKey(u) /\ s.valid = u.valid
      /\ \A f \in Fields : s[f] = u[f]
  <2> HIDE DEF u
  <2> QED BY <1>2, SignedType
<1>4. EinitKey(u) = EgetKey(u.svn, r)
  <2> HIDE DEF u
  <2>1. LE.miscselect \ {} = LE.miscselect
    OBVIOUS
  <2> QED BY <1>2, <2>1, DroppedWords DEF EinitKey, EgetKey
<1>5. /\ u.valid = token.valid /\ u.mrenclave = token.mrenclave
      /\ u.mrsigner = token.mrsigner /\ u.attributes = token.attributes
      /\ u.xfrm = token.xfrm
  <2> HIDE DEF u
  <2> QED BY <1>2 DEF Payload
<1>6. token.valid = 1 /\ Describes(token)
  BY <1>1 DEF Filled
<1>7. Verifies(s)
  <2> HIDE DEF u, s
  <2> QED BY <1>3, <1>4, <1>5, <1>6 DEF Verifies
<1>8. \A f \in Fields : s[f] = loc[f]
  <2> HIDE DEF u, s
  <2> QED BY <1>3, <1>5, <1>6 DEF Describes, Fields
<1> QED BY <1>1, <1>7, <1>8 DEF Describes, Verifies, EinitKey, Payload

LEMMA IInvStep == IInv /\ [Next]_vars => IInv'
<1> SUFFICES ASSUME IInv, [Next]_vars PROVE IInv'
  OBVIOUS
<1>0. /\ TypeOK /\ TypeOK' /\ Allowed(token) /\ Allowed(req.token)
      /\ Agrees /\ Filled /\ Signed /\ Answers /\ Refuses
      /\ req \in [in : Request, token : Token, result : Result]
      /\ req.in \in Request /\ loc \in Request /\ token \in Token
      /\ MaxWrites \in Nat /\ writes \in 0..MaxWrites
  BY TypeStep, LaunchAssumption DEF IInv, TypeOK, LaunchAssumption
<1>1. ASSUME NEW c \in Request, Call(c) PROVE IInv'
  <2>1. /\ pc' = "mrenclave" /\ loc' = loc /\ token' = token /\ ret' = ret
        /\ req'.token = req.token
    BY <1>0, <1>1 DEF Call
  <2>2. Agrees' /\ Filled' /\ Signed' /\ Answers' /\ Refuses'
    BY <1>0, <2>1 DEF Agrees, Filled, Signed, Answers, Refuses, Past, Fields
  <2> QED BY <1>0, <2>1, <2>2 DEF IInv, Allowed
<1>2. ASSUME HostWrite PROVE IInv'
  <2>1. /\ pc' = pc /\ loc' = loc /\ token' = token /\ ret' = ret
        /\ writes' = writes + 1
    BY <1>2 DEF HostWrite, HostWrites
  <2>2. Allowed(req'.token)
    <3>1. ASSUME NEW f \in Fields, NEW v \in Field(f),
                 HostWrites([req EXCEPT !.in[f] = v])
          PROVE  req'.token = req.token
      BY <1>0, <3>1 DEF HostWrites
    <3>2. ASSUME HostWrites([req EXCEPT !.token = ZeroToken, !.result = SGX_SUCCESS])
          PROVE  req'.token = ZeroToken
      BY <1>0, <3>2 DEF HostWrites
    <3> QED BY <1>0, <1>2, <3>1, <3>2, ZeroAllowed DEF HostWrite
  <2>3. writes' # 0
    BY <1>0, <2>1
  <2>4. Agrees' /\ Filled' /\ Signed' /\ Answers' /\ Refuses'
    BY <1>0, <2>1, <2>3 DEF Agrees, Filled, Signed, Answers, Refuses, Describes
  <2> QED BY <1>0, <2>1, <2>2, <2>4 DEF IInv, Allowed
<1>3. ASSUME NEW f \in Fields, Fetch(f) PROVE IInv'
  <2>1. /\ pc = f /\ pc' = After(f) /\ req' = req /\ ret' = ret
        /\ writes' = writes /\ token' = ZeroToken
        /\ pc' \in {"mrsigner", "attributes", "xfrm", "check"}
    BY <1>3 DEF Fetch, After, Fields
  <2>2. loc' = [loc EXCEPT ![f] = req.in[f]]
    BY <1>3 DEF Fetch
  <2>3. Agrees'
    <3> SUFFICES ASSUME writes = 0, NEW g \in Fields, pc' \in Past(g)
                 PROVE  loc'[g] = req.in[g]
      BY <2>1 DEF Agrees
    <3>1. CASE g = f
      BY <1>0, <2>2, <3>1 DEF Request, Fields
    <3>2. CASE g # f
      <4>1. pc \in Past(g)
        BY <2>1, <3>2 DEF Past, Fields, After
      <4>2. loc'[g] = loc[g]
        BY <1>0, <2>2, <3>2 DEF Request, Fields
      <4> QED BY <1>0, <4>1, <4>2 DEF Agrees
    <3> QED BY <3>1, <3>2
  <2>4. Filled' /\ Signed' /\ Answers' /\ Refuses'
    BY <1>0, <2>1 DEF Filled, Signed, Answers, Refuses
  <2> QED BY <1>0, <2>1, <2>3, <2>4, ZeroAllowed DEF IInv
<1>4. ASSUME RefuseToken PROVE IInv'
  <2>1. /\ pc = "check" /\ pc' = "refuse" /\ loc' = loc /\ token' = token
        /\ ret' = ret /\ writes' = writes /\ req'.in = req.in
        /\ req'.token = [req.token EXCEPT !.valid = 0]
    BY <1>0, <1>4 DEF RefuseToken, RefusedOutput
  <2>2. /\ req'.token.valid = 0 /\ req'.token.attributes = req.token.attributes
        /\ req'.token.mrsigner = req.token.mrsigner
    BY <1>0, <2>1 DEF Token
  <2>3. Agrees'
    BY <1>0, <2>1, PastCheck DEF Agrees
  <2>4. Filled' /\ Signed' /\ Answers' /\ Refuses'
    BY <1>0, <2>1, <2>2 DEF Filled, Signed, Answers, Refuses
  <2> QED BY <1>0, <2>1, <2>2, <2>3, <2>4, SameAllowed DEF IInv
<1>5. ASSUME RefuseResult PROVE IInv'
  <2>1. /\ pc' = "host" /\ loc' = loc /\ token' = token /\ ret' = ret
        /\ req'.token = req.token
    BY <1>0, <1>5 DEF RefuseResult
  <2>2. Agrees' /\ Filled' /\ Signed' /\ Answers' /\ Refuses'
    BY <1>0, <2>1 DEF Agrees, Filled, Signed, Answers, Refuses, Past, Fields
  <2> QED BY <1>0, <2>1, <2>2 DEF IInv, Allowed
<1>6. ASSUME InvalidAttribute PROVE IInv'
  <2>1. /\ pc = "check" /\ pc' = "result" /\ loc' = loc /\ token' = token
        /\ req' = req /\ writes' = writes /\ ret' = SGX_INVALID_ATTRIBUTE
    BY <1>6 DEF InvalidAttribute
  <2>2. Agrees' /\ Filled' /\ Signed' /\ Answers' /\ Refuses'
    BY <1>0, <2>1, PastCheck, Results DEF Agrees, Filled, Signed, Answers, Refuses
  <2> QED BY <1>0, <2>1, <2>2 DEF IInv
<1>7. ASSUME FillToken PROVE IInv'
  <2>1. /\ pc = "check" /\ pc' = "random" /\ loc' = loc /\ token' = Filling
        /\ req' = req /\ writes' = writes /\ ret' = ret /\ Privileged
        /\ loc.attributes \cap ReservedMask = {}
    BY <1>7 DEF FillToken, Filling
  <2>2. Allowed(token')
    BY <1>0, <2>1, FillingType DEF Allowed, Describes, Fields, Privileged
  <2>3. Filled'
    BY <1>0, <2>1, FillingType DEF Filled, Describes
  <2>4. Agrees' /\ Signed' /\ Answers' /\ Refuses'
    BY <1>0, <2>1, PastCheck DEF Agrees, Signed, Answers, Refuses
  <2> QED BY <1>0, <2>1, <2>2, <2>3, <2>4 DEF IInv
<1>8. ASSUME DrawWord PROVE IInv'
  <2>1. /\ pc' = pc /\ loc' = loc /\ token' = token
        /\ req' = req /\ writes' = writes /\ ret' = ret
    BY <1>8 DEF DrawWord
  <2> QED BY <1>0, <2>1
          DEF IInv, Agrees, Filled, Signed, Answers, Refuses, Describes
<1>9. ASSUME DrawFails PROVE IInv'
  <2>1. /\ pc = "random" /\ loc' = loc /\ token' = token
        /\ req' = req /\ writes' = writes
        /\ \/ pc' = pc /\ ret' = ret
           \/ pc' = "result" /\ ret' = SGX_UNEXPECTED_ERROR
    BY <1>9 DEF DrawFails
  <2>2. Agrees'
    BY <1>0, <2>1, PastCheck DEF Agrees
  <2>3. Filled' /\ Signed' /\ Answers' /\ Refuses'
    BY <1>0, <2>1, Results DEF Filled, Signed, Answers, Refuses, Describes
  <2> QED BY <1>0, <2>1, <2>2, <2>3 DEF IInv
<1>10. ASSUME NEW r \in Random, Sign(r) \/ NoKey(r) PROVE IInv'
  <2>1. /\ pc = "random" /\ pc' = "result" /\ loc' = loc
        /\ req' = req /\ writes' = writes /\ ret' = SGX_SUCCESS
    BY <1>10 DEF Sign, NoKey
  <2>2. Describes(token)' /\ Usable(token)'
    <3>1. CASE Sign(r)
      BY <1>0, <3>1, SignsToken DEF Usable
    <3>2. CASE NoKey(r)
      <4>1. Payload(token') = Payload(token) /\ EgetkeyFails
        BY <1>0, <3>2, MaskedType DEF NoKey
      <4>2. token'.mac = token.mac
        BY <1>0, <3>2 DEF NoKey, Masked, Token
      <4>3. Describes(token)'
        BY <1>0, <2>1, <4>1 DEF Payload, Filled, Describes, Fields
      <4> QED BY <1>0, <2>1, <4>1, <4>2, <4>3 DEF Filled, Usable
    <3> QED BY <1>10, <3>1, <3>2
  <2>3. Allowed(token')
    <3>1. Describes(token)
      BY <1>0, <2>1 DEF Filled
    <3>2. \A f \in Fields : token'[f] = token[f]
      BY <2>1, <2>2, <3>1 DEF Describes
    <3>3. token'.attributes = token.attributes /\ token'.mrsigner = token.mrsigner
      BY <3>2 DEF Fields
    <3> QED BY <1>0, <3>3, SameAllowed
  <2>4. Agrees'
    BY <1>0, <2>1, PastCheck DEF Agrees
  <2>5. Filled' /\ Signed' /\ Answers' /\ Refuses'
    BY <1>0, <2>1, <2>2, Results DEF Filled, Signed, Answers, Refuses
  <2> QED BY <1>0, <2>1, <2>3, <2>4, <2>5 DEF IInv
<1>11. ASSUME WriteResult PROVE IInv'
  <2>1. /\ pc = "result" /\ pc' = "output" /\ loc' = loc /\ token' = token
        /\ ret' = ret /\ writes' = writes /\ req'.in = req.in
        /\ req'.token = req.token /\ req'.result = ret
    BY <1>0, <1>11 DEF WriteResult
  <2>2. Agrees'
    BY <1>0, <2>1, PastCheck DEF Agrees
  <2>3. Filled' /\ Signed' /\ Answers' /\ Refuses'
    BY <1>0, <2>1 DEF Filled, Signed, Answers, Refuses, Describes
  <2> QED BY <1>0, <2>1, <2>2, <2>3 DEF IInv, Allowed
<1>12. ASSUME CopyToken PROVE IInv'
  <2>1. /\ pc' = "host" /\ loc' = loc /\ token' = token /\ ret' = ret
        /\ req'.token \in {req.token, token}
    BY <1>0, <1>12 DEF CopyToken
  <2>2. Agrees' /\ Filled' /\ Signed' /\ Answers' /\ Refuses'
    BY <1>0, <2>1 DEF Agrees, Filled, Signed, Answers, Refuses, Past, Fields
  <2> QED BY <1>0, <2>1, <2>2 DEF IInv, Allowed
<1>13. ASSUME UNCHANGED vars PROVE IInv'
  BY <1>0, <1>13
     DEF vars, IInv, Agrees, Filled, Signed, Answers, Refuses, Describes
<1> QED BY <1>1, <1>2, <1>3, <1>4, <1>5, <1>6, <1>7, <1>8, <1>9, <1>10, <1>11,
           <1>12, <1>13 DEF Next, Enclave

\* Whatever other threads do to the request during a call, no token that EINIT
\* accepts appears for attributes the checks of encl_body and
\* create_einittoken refuse.
THEOREM OnlyAllowedSigned == Spec => []SignedAllowed
<1>1. IInv => SignedAllowed
  BY DEF IInv, SignedAllowed
<1> QED BY <1>1, IInvInit, IInvStep, PTL DEF Spec

\* The steps that end a call.
LEMMA ReturnSteps ==
    ASSUME IInv, [Next]_vars, Returns
    PROVE  RefuseResult \/ CopyToken
<1>1. pc # "host" /\ pc' = "host"
  BY DEF Returns
<1>2. CASE UNCHANGED vars
  BY <1>1, <1>2 DEF vars
<1>3. CASE \E c \in Request : Call(c)
  BY <1>1, <1>3 DEF Call
<1>4. CASE HostWrite
  BY <1>1, <1>4 DEF HostWrite, HostWrites
<1>5. CASE Enclave
  <2>1. ASSUME NEW f \in Fields, Fetch(f) PROVE FALSE
    BY <1>1, <2>1 DEF Fetch, After, Fields
  <2>2. ASSUME NEW r \in Random, Sign(r) \/ NoKey(r) PROVE FALSE
    BY <1>1, <2>2 DEF Sign, NoKey
  <2>3. ~RefuseToken /\ ~InvalidAttribute /\ ~FillToken /\ ~WriteResult
    BY <1>1 DEF RefuseToken, InvalidAttribute, FillToken, WriteResult
  <2>4. ~DrawWord /\ ~DrawFails
    BY <1>1 DEF DrawWord, DrawFails
  <2> QED BY <1>5, <2>1, <2>2, <2>3, <2>4 DEF Enclave
<1> QED BY <1>2, <1>3, <1>4, <1>5 DEF Next

\* A call that refuses the provisioning key leaves no token that EINIT
\* accepts in the output of the request.
THEOREM RefusalLeavesNoToken == Spec => RefusalClears
<1>1. IInv /\ [Next]_vars =>
        [Returns /\ req'.result = SGX_INVALID_PRIVILEGE => ~Verifies(req'.token)]_vars
  <2> SUFFICES ASSUME IInv, [Next]_vars, Returns, req'.result = SGX_INVALID_PRIVILEGE
               PROVE  ~Verifies(req'.token)
    OBVIOUS
  <2>0. req \in [in : Request, token : Token, result : Result] /\ writes = 0
        /\ Answers /\ Refuses
    BY DEF IInv, TypeOK, Returns
  <2>1. CASE RefuseResult
    <3>1. pc = "refuse" /\ req'.token = req.token
      BY <2>0, <2>1 DEF RefuseResult
    <3>2. req.token.valid = 0
      BY <2>0, <3>1 DEF Refuses
    <3> QED BY <3>1, <3>2 DEF Verifies
  <2>2. CASE CopyToken
    <3>1. pc = "output" /\ req'.result = req.result
      BY <2>0, <2>2 DEF CopyToken
    <3> QED BY <2>0, <3>1 DEF Answers, Refuses
  <2> QED BY <2>1, <2>2, ReturnSteps
<1> QED BY <1>1, IInvInit, IInvStep, PTL DEF Spec, RefusalClears

\* A call on a request nobody else touches that reports success leaves a token
\* for the requested enclave, and EINIT accepts it unless EGETKEY failed.
THEOREM SuccessIsUsable == Spec => SuccessVerifies
<1>1. IInv /\ [Next]_vars =>
        [Returns /\ req'.result = SGX_SUCCESS =>
            /\ Usable(req'.token)
            /\ \A f \in Fields : req'.token[f] = req.in[f]]_vars
  <2> SUFFICES ASSUME IInv, [Next]_vars, Returns, req'.result = SGX_SUCCESS
               PROVE  /\ Usable(req'.token)
                      /\ \A f \in Fields : req'.token[f] = req.in[f]
    OBVIOUS
  <2>0. req \in [in : Request, token : Token, result : Result] /\ writes = 0
        /\ Agrees /\ Signed /\ Answers
    BY DEF IInv, TypeOK, Returns
  <2>1. CASE RefuseResult
    <3>1. req'.result = SGX_INVALID_PRIVILEGE
      BY <2>0, <2>1 DEF RefuseResult
    <3> QED BY <3>1, Results
  <2>2. CASE CopyToken
    <3>1. pc = "output" /\ req.result = SGX_SUCCESS /\ req'.token = token
      BY <2>0, <2>2 DEF CopyToken
    <3>2. Describes(token) /\ Usable(token)
      BY <2>0, <3>1 DEF Answers, Signed
    <3>3. \A f \in Fields : loc[f] = req.in[f]
      BY <2>0, <3>1, PastCheck DEF Agrees
    <3> QED BY <3>1, <3>2, <3>3 DEF Describes, Usable, Verifies, EinitKey, Payload
  <2> QED BY <2>1, <2>2, ReturnSteps
<1> QED BY <1>1, IInvInit, IInvStep, PTL DEF Spec, SuccessVerifies

-----------------------------------------------------------------------------
(* How long a call takes.                                                   *)

\* A word that is being drawn has tries left, and none has been made for a
\* word beyond the last one.
Trying == pc = "random" => tries < Tries /\ (words = KeyWords => tries = 0)

LEMMA TryingStep == TypeOK /\ Trying /\ [Next]_vars => Trying'
<1> SUFFICES ASSUME TypeOK, Trying, [Next]_vars PROVE Trying'
  OBVIOUS
<1>0. /\ words \in 0 .. KeyWords /\ tries \in 0 .. Tries
      /\ KeyWords \in Nat \ {0} /\ Tries \in Nat \ {0}
  BY LaunchAssumption DEF TypeOK, LaunchAssumption
<1>1. ASSUME NEW c \in Request, Call(c) PROVE Trying'
  BY <1>1 DEF Call, Trying
<1>2. CASE HostWrite
  BY <1>2 DEF HostWrite, HostWrites, Trying
<1>3. ASSUME NEW f \in Fields, Fetch(f) PROVE Trying'
  BY <1>3 DEF Fetch, After, Fields, Trying
<1>4. CASE FillToken
  BY <1>0, <1>4 DEF FillToken, Trying
<1>5. CASE DrawWord
  BY <1>0, <1>5 DEF DrawWord, Trying
<1>6. CASE DrawFails
  <2>1. words < KeyWords /\ words' = words /\ tries' = tries + 1 /\ tries < Tries
    BY <1>6 DEF DrawFails, Again
  <2>2. tries' = Tries => pc' = "result"
    BY <1>6 DEF DrawFails
  <2> QED BY <1>0, <2>1, <2>2 DEF Trying
<1>7. CASE RefuseToken \/ RefuseResult \/ InvalidAttribute \/ WriteResult \/ CopyToken
  BY <1>7 DEF RefuseToken, RefuseResult, InvalidAttribute, WriteResult, CopyToken, Trying
<1>8. ASSUME NEW r \in Random, Sign(r) \/ NoKey(r) PROVE Trying'
  BY <1>8 DEF Sign, NoKey, Trying
<1>9. CASE UNCHANGED vars
  BY <1>9 DEF vars, Trying
<1> QED BY <1>1, <1>2, <1>3, <1>4, <1>5, <1>6, <1>7, <1>8, <1>9 DEF Next, Enclave

LEMMA AttemptsLeft ==
    ASSUME NEW k \in Nat, NEW w \in 0 .. k, NEW t \in Nat \ {0}, NEW n \in 0 .. t - 1,
           w = k => n = 0
    PROVE  /\ (k - w) * t - n \in Nat /\ k * t \in Nat
           /\ w < k => /\ (k - (w + 1)) * t = (k - w) * t - t
                       /\ (k - w) * t - t \in Nat
<1>1. k - w \in Nat /\ k * t \in Nat
  OBVIOUS
<1>2. w < k => (k - (w + 1)) * t = (k - w) * t - t /\ k - (w + 1) \in Nat
  BY <1>1, SMT
<1>3. \A m \in Nat : m * t \in Nat
  BY SMT
<1>4. CASE w < k
  BY <1>1, <1>2, <1>3, <1>4, SMT
<1>5. CASE w = k
  BY <1>1, <1>3, <1>5, SMT
<1> QED BY <1>4, <1>5

LEMMA StepIsOneLess ==
    TypeOK /\ Trying /\ Enclave /\ pc # "host" => StepsLeft' \in 0 .. StepsLeft - 1
<1> SUFFICES ASSUME TypeOK, Trying, Enclave, pc # "host"
             PROVE  StepsLeft' \in 0 .. StepsLeft - 1
  OBVIOUS
<1> DEFINE all == KeyWords * Tries
           left == (KeyWords - words) * Tries
<1>0. /\ words \in 0 .. KeyWords /\ tries \in 0 .. Tries
      /\ KeyWords \in Nat \ {0} /\ Tries \in Nat \ {0}
  BY LaunchAssumption DEF TypeOK, LaunchAssumption
<1>1. all \in Nat
  BY <1>0
<1>2. pc = "random" => left - tries \in Nat /\ left \in Int
  BY <1>0, AttemptsLeft DEF Trying
<1> HIDE DEF all, left
<1>3. StepsLeft =
        CASE pc = "mrenclave" -> all + 8 [] pc = "mrsigner" -> all + 7
          [] pc = "attributes" -> all + 6 [] pc = "xfrm" -> all + 5
          [] pc = "check" -> all + 4 [] pc = "random" -> left - tries + 3
          [] pc = "result" -> 2 [] pc \in {"output", "refuse"} -> 1
          [] pc = "host" -> 0
  BY DEF StepsLeft, all, left
<1>4. /\ pc' = "mrsigner" => StepsLeft' = all + 7
      /\ pc' = "attributes" => StepsLeft' = all + 6
      /\ pc' = "xfrm" => StepsLeft' = all + 5
      /\ pc' = "check" => StepsLeft' = all + 4
      /\ pc' = "random" => StepsLeft' = (KeyWords - words') * Tries - tries' + 3
      /\ pc' = "result" => StepsLeft' = 2
      /\ pc' \in {"output", "refuse"} => StepsLeft' = 1
      /\ pc' = "host" => StepsLeft' = 0
  BY DEF StepsLeft, all
<1>5. ASSUME NEW f \in Fields, Fetch(f) PROVE StepsLeft' \in 0 .. StepsLeft - 1
  BY <1>1, <1>3, <1>4, <1>5 DEF Fetch, After, Fields
<1>6. CASE RefuseToken
  BY <1>1, <1>3, <1>4, <1>6 DEF RefuseToken
<1>7. CASE RefuseResult
  BY <1>3, <1>4, <1>7 DEF RefuseResult
<1>8. CASE InvalidAttribute
  BY <1>1, <1>3, <1>4, <1>8 DEF InvalidAttribute
<1>9. CASE FillToken
  <2>1. pc = "check" /\ pc' = "random" /\ words' = 0 /\ tries' = 0
    BY <1>9 DEF FillToken
  <2>2. (KeyWords - words') * Tries - tries' = all
    BY <1>0, <2>1 DEF all
  <2> QED BY <1>1, <1>3, <1>4, <2>1, <2>2
<1>10. CASE DrawWord
  <2>1. pc = "random" /\ words < KeyWords /\ words' = words + 1 /\ tries' = 0 /\ pc' = pc
    BY <1>10 DEF DrawWord
  <2>2. tries \in 0 .. Tries - 1 /\ (words = KeyWords => tries = 0)
    BY <1>0, <2>1 DEF Trying
  <2>3. (KeyWords - words') * Tries = left - Tries /\ left - Tries \in Nat
    BY <1>0, <2>1, <2>2, AttemptsLeft DEF left
  <2> QED BY <1>0, <1>2, <1>3, <1>4, <2>1, <2>2, <2>3
<1>11. CASE DrawFails
  <2>1. /\ pc = "random" /\ words < KeyWords /\ words' = words /\ tries' = tries + 1
        /\ tries < Tries
        /\ IF tries' = Tries THEN pc' = "result" ELSE pc' = pc
    BY <1>11 DEF DrawFails, Again
  <2>2. (KeyWords - words') * Tries = left
    BY <2>1 DEF left
  <2>3. left - Tries \in Nat
    BY <1>0, <2>1, AttemptsLeft DEF left, Trying
  <2> QED BY <1>0, <1>2, <1>3, <1>4, <2>1, <2>2, <2>3
<1>12. ASSUME NEW r \in Random, Sign(r) \/ NoKey(r)
       PROVE  StepsLeft' \in 0 .. StepsLeft - 1
  <2>1. pc = "random" /\ pc' = "result"
    BY <1>12 DEF Sign, NoKey
  <2> QED BY <1>2, <1>3, <1>4, <2>1
<1>13. CASE WriteResult
  BY <1>3, <1>4, <1>13 DEF WriteResult
<1>14. CASE CopyToken
  BY <1>3, <1>4, <1>14 DEF CopyToken
<1> QED BY <1>5, <1>6, <1>7, <1>8, <1>9, <1>10, <1>11, <1>12, <1>13, <1>14 DEF Enclave

\* A call takes at most eight steps and one for every try at every word of
\* the keyid: each step of the enclave lowers what is left.
THEOREM CallsAreBounded == Spec => CallsBounded
<1>1. Init => Trying
  BY DEF Init, Trying
<1>2. TypeOK /\ Trying /\ [Next]_vars =>
        [pc # "host" /\ writes' = writes => StepsLeft' \in 0 .. StepsLeft - 1]_vars
  <2> SUFFICES ASSUME TypeOK, Trying, Next, pc # "host", writes' = writes
               PROVE  StepsLeft' \in 0 .. StepsLeft - 1
    OBVIOUS
  <2>1. ~HostWrite
    BY DEF HostWrite, HostWrites, TypeOK
  <2>2. \A c \in Request : ~Call(c)
    BY DEF Call
  <2> QED BY <2>1, <2>2, StepIsOneLess DEF Next
<1> QED BY <1>1, <1>2, TypeInit, TypeStep, TryingStep, PTL DEF Spec, CallsBounded
=============================================================================
