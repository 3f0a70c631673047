------------------------------- MODULE OAuthProofs -------------------------------
(***************************************************************************)
(* Theorems about the requests [oauth] signs.                              *)
(***************************************************************************)
EXTENDS OAuthProperties, CtwProofs

--------------------------------------------------------------------------------
(* [oauth] adds its own fields to the machinery of Ctw, and takes no step that *)
(* Ctw does not allow: what holds of the machinery holds under [oauth].        *)

(* Each step of [oauth] is one of the machinery, or none.                      *)
LEMMA OAuthStepsAreCtwSteps == OAuthNext => [Next]_vars
<1> SUFFICES ASSUME OAuthNext PROVE [Next]_vars
  OBVIOUS
<1>1. CASE OAuthHandler
  BY <1>1 DEF OAuthHandler, OAuthCommand, OAuthCommandFails, InitNothing, InitAccount, Method,
              MethodRSA, MethodFails, MayChange, OAuthFrees, Next, Handler
<1>2. ASSUME NEW w \in Workers, OAuthPrepare(w) \/ OAuthMachinery(w) PROVE [Next]_vars
  BY <1>2 DEF OAuthPrepare, OAuthMachinery, Next, Running
<1>3. CASE Idle
  BY <1>3 DEF Next
<1> QED
  BY <1>1, <1>2, <1>3 DEF OAuthNext

(* Every behaviour of [oauth] is one of the machinery: its account, its keys   *)
(* and its signatures never make it do what Ctw does not.                      *)
THEOREM OAuthRunsCtw == OAuthSpec => Spec
<1>1. OAuthInit => Init
  BY DEF OAuthInit
<1>2. [OAuthNext]_<<vars, oauthVars>> => [Next]_vars
  BY OAuthStepsAreCtwSteps
<1> QED
  BY <1>1, <1>2, PTL DEF OAuthSpec, Spec

(* So its types and its lock are those of the machinery.                       *)
LEMMA OAuthLock == ASSUME ~Windows PROVE OAuthSpec => [](TypeOK /\ LockInv)
  BY OAuthRunsCtw, TypeCorrect, LockInvariant, PTL

--------------------------------------------------------------------------------
(* The texts of a request: while the object lives, nothing that happens        *)
(* between a command and its transfer touches what the command wrote.          *)

TextInv ==
    object = "live" =>
        \A w \in Workers :
            /\ pc[w] \in RequestPhase => parameters = w /\ parametersLen
            /\ pc[w] \in CancelRegion => req[w].body \in {None, w, Unset} /\ sent = signature

(* The signed texts stay those of the request that holds the lock.             *)
LEMMA TextStep ==
    ASSUME ~Windows, TypeOK, LockInv, LockInv', TextInv, [OAuthNext]_<<vars, oauthVars>>
    PROVE  TextInv'
<1> USE DEF TextInv
<1>1. \A v \in Workers : /\ pc[v] \in RequestPhase => locked
                         /\ pc'[v] \in RequestPhase => locked' /\ thread' = v
                         /\ pc[v] \in CancelRegion => pc[v] \in RequestPhase
  BY DEF LockInv, RequestPhase
<1>2. ASSUME NEW w \in Workers, NEW r \in Requests, OAuthCommand(w, r) PROVE TextInv'
  <2>1. thread' = w /\ pc'[w] = "created" /\ parameters' = w /\ parametersLen'
    BY <1>2, OAuthAssumption DEF OAuthCommand, Command, WriteParameters, Goto, TypeOK
  <2> QED
    BY <1>1, <2>1 DEF CancelRegion, RequestPhase
<1>3. CASE ~locked /\ UNCHANGED pc
  BY <1>1, <1>3
<1>4. CASE /\ Message /\ UNCHANGED oauthVars
  <2>1. UNCHANGED <<body, object, sent, signature>>
    BY <1>4, MessageKeepsTexts DEF oauthVars
  <2>2. \A v \in Workers : pc'[v] \in RequestPhase => pc[v] \in RequestPhase
    BY <1>4, MessageKeepsTexts, SamePhase
  <2>3. SameUploads /\ \A v \in Workers : pc'[v] \in {pc[v], "aborted"}
    BY <1>4, MessageKeepsTexts
  <2> QED
    BY <2>1, <2>2, <2>3 DEF body, SameUploads, CancelRegion
<1>5. CASE OAuthFrees
  BY <1>5 DEF OAuthFrees, DeleteFrees
<1>6. CASE UNCHANGED <<vars, oauthVars>>
  BY <1>6 DEF vars, oauthVars, body, patch
<1>7. ASSUME NEW w \in Workers, OAuthPrepare(w) PROVE TextInv'
  <2>1. pc[w] = "prepare" /\ thread = w
    BY <1>7 DEF OAuthPrepare, Prepare, Step, LockInv, RequestPhase, Starting
  <2>2. UNCHANGED <<object, signature, parameters, parametersLen, locked, thread>>
    BY <1>7 DEF OAuthPrepare, Prepare, body, patch
  <2>3. \A v \in Workers : pc'[v] \in RequestPhase => v = w
    BY <1>1, <2>1, <2>2
  <2>4. object = "live" => parameters = w /\ parametersLen
    BY <2>1 DEF RequestPhase, Starting
  <2>5. PICK t, b : /\ req' = [req EXCEPT ![w].used = settings, ![w].toFile = t, ![w].body = b]
                    /\ b \in {None, parameters, Unset}
    BY <1>7 DEF OAuthPrepare, Prepare
  <2>6. req'[w].body = b
    BY <2>5 DEF TypeOK, RequestRecord
  <2>7. object = "live" => sent' = signature
    BY <1>7, <2>4 DEF OAuthPrepare
  <2> QED
    BY <2>2, <2>3, <2>4, <2>5, <2>6, <2>7 DEF RequestPhase
<1>8. ASSUME NEW w \in Workers, OAuthMachinery(w) PROVE TextInv'
  <2>1. Working(w) /\ ~Prepare(w)
    BY <1>8 DEF OAuthMachinery, Working, Prepare, Step
  <2>2. UNCHANGED <<thread, parameters, object, sent, signature>>
    BY <1>8, <2>1, WorkerPatch DEF OAuthMachinery, oauthVars
  <2>3. CASE ~locked'
    BY <1>1, <2>3 DEF RequestPhase
  <2>4. CASE UNCHANGED <<locked, parametersLen>>
    <3>1. \A v \in Workers : pc'[v] \in RequestPhase => pc[v] \in RequestPhase
      BY <2>2, <2>4, SamePhase
    <3>2. \A v \in Workers : pc'[v] \in CancelRegion => pc[v] \in CancelRegion
      BY <2>1, WorkerRegion DEF TypeOK
    <3>3. SameUploads
      BY <2>1, UploadSettled
    <3> QED
      BY <2>2, <2>4, <3>1, <3>2, <3>3 DEF SameUploads
  <2> QED
    BY <2>1, <2>3, <2>4, WorkerUnlocks
<1>9. CASE OAuthHandler
  <2>1. ASSUME Unlocked, UNCHANGED pc PROVE TextInv'
    BY <1>3, <2>1 DEF Unlocked
  <2> QED
    BY <1>2, <1>4, <1>5, <1>9, <2>1
    DEF OAuthHandler, OAuthCommandFails, CommandFails, MayStart, InitNothing, InitAccount, Reinit,
        Method, MethodRSA, MethodFails, MayChange, vars
<1> QED
  BY <1>6, <1>7, <1>8, <1>9 DEF OAuthNext, Idle

(* So they are in every reachable state.                                       *)
LEMMA TextInvariant == ASSUME ~Windows PROVE OAuthSpec => []TextInv
<1>1. OAuthInit => TextInv
  BY DEF OAuthInit, Init, TextInv, RequestPhase, Starting, CancelRegion
<1>2. /\ TypeOK /\ LockInv /\ (TypeOK /\ LockInv)' /\ TextInv
      /\ [OAuthNext]_<<vars, oauthVars>>
      => TextInv'
  BY TextStep
<1> QED
  BY <1>1, <1>2, OAuthLock, PTL DEF OAuthSpec

(* On POSIX systems a request of [oauth] sends the data of its own command or  *)
(* none, and libcurl never reads data that was freed, until the object is      *)
(* deleted.                                                                    *)
THEOREM OAuthSendsOwnBody == ASSUME ~Windows PROVE OAuthSpec => []OwnBody
<1>1. TextInv => OwnBody
  BY DEF TextInv, OwnBody, RequestPhase
<1> QED
  BY <1>1, TextInvariant, PTL

--------------------------------------------------------------------------------
(* The signature.  What the fields of the object hold is what the last init    *)
(* and the last method message asked for, if these were in order.              *)

CredentialInv ==
    /\ "token" \notin Inits => token = None
    /\ object = "live" =>
           /\ account.url # None =>
                  /\ baseUrl = account.url /\ baseUrlLen
                  /\ client = account.client /\ token = account.token
           /\ chosen.method # None =>
                  /\ method = chosen.method
                  /\ method # "RSA" => chosen.key = None
                  /\ method = "RSA" => /\ chosen.key \in Keys
                                       /\ rsaKey = KeyText(chosen.key) /\ rsaKeyLen
    /\ InOrder => signature = Wanted

(* The assumptions of the theorem below.  A patch that names an account with   *)
(* tokens and later one without them signs with the tokens of the first.       *)
OneKindOfInit == ~({"client", "token"} \subseteq Inits)
KeysAsPem     == \A words \in Keys : KeyText(words) = PemText(words)

(* A command signs what was asked for.                                         *)
LEMMA CommandSigns ==
    ASSUME KeysAsPem, CredentialInv, NEW w \in Workers, NEW r \in Requests, OAuthCommand(w, r)
    PROVE  InOrder' => signature' = Wanted'
<1> SUFFICES ASSUME account.url # None, chosen.method # None PROVE signature' = Wanted'
  BY DEF OAuthCommand, Wished, InOrder
<1>1. object = "live"
  BY DEF OAuthCommand, Command, MayStart, MayHandle
<1>2. /\ baseUrl = account.url /\ baseUrlLen /\ client = account.client /\ token = account.token
      /\ method = chosen.method
  BY <1>1 DEF CredentialInv
<1>3. Signature.key = IF chosen.key = None THEN None ELSE PemText(chosen.key)
  <2>1. CASE method = "RSA"
    <3>1. chosen.key \in Keys /\ rsaKey = KeyText(chosen.key) /\ rsaKeyLen
      BY <1>1, <1>2, <2>1 DEF CredentialInv
    <3>2. chosen.key # None
      BY <3>1, OAuthAssumption
    <3> QED
      BY <2>1, <3>1, <3>2 DEF Signature, KeysAsPem
  <2>2. CASE method # "RSA"
    BY <1>1, <1>2, <2>2 DEF CredentialInv, Signature
  <2> QED
    BY <2>1, <2>2
<1>4. Signature = [url |-> account.url, client |-> account.client, token |-> account.token,
                   method |-> chosen.method,
                   key |-> IF chosen.key = None THEN None ELSE PemText(chosen.key)]
  BY <1>2, <1>3 DEF Signature, Pointed
<1>5. asked' = Wished(account, chosen) /\ signature' = Signature
  BY DEF OAuthCommand
<1>6. Wanted' = [url |-> account.url, client |-> account.client, token |-> account.token,
                 method |-> chosen.method,
                 key |-> IF chosen.key = None THEN None ELSE PemText(chosen.key)]
  BY <1>5 DEF Wanted, Wished
<1> QED
  BY <1>4, <1>5, <1>6

(* The fields of the object follow the last init and method messages.          *)
LEMMA CredentialStep ==
    ASSUME TypeOK, OneKindOfInit, KeysAsPem, CredentialInv, [OAuthNext]_<<vars, oauthVars>>
    PROVE  CredentialInv'
<1>1. ASSUME NEW w \in Workers, NEW r \in Requests, OAuthCommand(w, r) PROVE CredentialInv'
  <2>1. UNCHANGED <<credentials, history, object>>
    BY <1>1 DEF OAuthCommand, Command
  <2> QED
    BY <1>1, <2>1, CommandSigns DEF CredentialInv, credentials, history
<1>2. CASE InitNothing
  BY <1>2 DEF InitNothing, Reinit, patch, NoAccount, CredentialInv, InOrder, Wanted
<1>3. ASSUME NEW a \in Accounts, NEW tokens \in BOOLEAN, InitAccount(a, tokens)
      PROVE  CredentialInv'
  <2>1. UNCHANGED <<method, rsaKey, rsaKeyLen, chosen, signature, asked, object>>
    BY <1>3 DEF InitAccount, Reinit, patch
  <2>2. /\ baseUrl' = a /\ baseUrlLen' /\ client' = a
        /\ account' = [url |-> a, client |-> a, token |-> IF tokens THEN a ELSE None]
    BY <1>3 DEF InitAccount
  <2>3. /\ token' = IF tokens THEN a ELSE None
        /\ "token" \notin Inits => token' = None
    BY <1>3 DEF InitAccount, OneKindOfInit, CredentialInv
  <2> QED
    BY <2>1, <2>2, <2>3 DEF CredentialInv, InOrder, Wanted
<1>4. ASSUME NEW m \in Methods, Method(m) PROVE CredentialInv'
  BY <1>4 DEF Method, MayChange, vars, patch, CredentialInv, InOrder, Wanted
<1>5. ASSUME NEW words \in Keys, MethodRSA(words) PROVE CredentialInv'
  BY <1>5 DEF MethodRSA, MayChange, vars, patch, CredentialInv, InOrder, Wanted
<1>6. CASE MethodFails
  BY <1>6 DEF MethodFails, NoMethod, MayChange, vars, patch, CredentialInv, InOrder, Wanted
<1>7. CASE OAuthFrees
  BY <1>7 DEF OAuthFrees, DeleteFrees, history, CredentialInv, InOrder, Wanted
<1>8. ASSUME UNCHANGED <<credentials, history, signature, asked>>, UNCHANGED object
      PROVE  CredentialInv'
  BY <1>8 DEF credentials, history, CredentialInv, InOrder, Wanted
<1>9. CASE Message /\ UNCHANGED oauthVars
  BY <1>8, <1>9, MessageKeepsTexts DEF oauthVars
<1>10. ASSUME NEW w \in Workers, OAuthPrepare(w) \/ OAuthMachinery(w) PROVE CredentialInv'
  <2>1. Working(w)
    BY <1>10 DEF OAuthPrepare, OAuthMachinery, Working, Running
  <2> QED
    BY <1>8, <1>10, <2>1, WorkerPatch DEF OAuthPrepare, OAuthMachinery, oauthVars
<1>11. CASE UNCHANGED <<vars, oauthVars>>
  BY <1>8, <1>11 DEF vars, patch, oauthVars
<1>12. ASSUME NEW w \in Workers, NEW r \in Requests, OAuthCommandFails(w, r) PROVE CredentialInv'
  BY <1>8, <1>12 DEF OAuthCommandFails, CommandFails, patch, oauthVars
<1> QED
  BY <1>1, <1>2, <1>3, <1>4, <1>5, <1>6, <1>7, <1>9, <1>10, <1>11, <1>12
  DEF OAuthNext, OAuthHandler, Idle

(* So they do in every reachable state.                                        *)
LEMMA CredentialInvariant ==
    ASSUME OneKindOfInit, KeysAsPem
    PROVE  OAuthSpec => []CredentialInv
<1>1. OAuthInit => CredentialInv
  BY DEF OAuthInit, Init, NoAccount, Wished, CredentialInv, InOrder
<1>2. TypeOK /\ CredentialInv /\ [OAuthNext]_<<vars, oauthVars>> => CredentialInv'
  BY CredentialStep
<1> QED
  BY <1>1, <1>2, OAuthRunsCtw, TypeCorrect, PTL DEF OAuthSpec

(* On POSIX systems what libcurl sends was signed for the account of the last  *)
(* init, with the method and the key of the last method message, as they were  *)
(* when the command was issued: if the accounts all have tokens or all have    *)
(* none, and the words of each key are put together as PEM has them.           *)
THEOREM OAuthSignsAsAsked ==
    ASSUME ~Windows, OneKindOfInit, KeysAsPem
    PROVE  OAuthSpec => []SignedAsAsked
<1>1. TextInv /\ CredentialInv => SignedAsAsked
  BY DEF TextInv, CredentialInv, SignedAsAsked
<1> QED
  BY <1>1, TextInvariant, CredentialInvariant, PTL
=============================================================================
