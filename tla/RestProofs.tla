------------------------------- MODULE RestProofs -------------------------------
(***************************************************************************)
(* Theorems about [rest] with its logins, its base URL and its cookie: for *)
(* any patch, and about the logins and their cookies for one that waits    *)
(* for the thread of a request to end before the next command or init.     *)
(***************************************************************************)
EXTENDS RestProperties, CtwProofs

--------------------------------------------------------------------------------
(* The steps of [rest]: those of Ctw, which keep their effect on the machinery *)
(* whatever they do to the fields of [rest], and those it adds.                *)

InitMessage ==
    \/ \E s \in Servers \cup {None} : InitUrl(s)
    \/ InitStuck
    \/ \E w \in Workers, s \in Servers : InitLogin(w, s) \/ InitLoginFails(w, s)

LoginStep(w) ==
    \/ WriteCredentials(w) \/ ReceiveHeader(w) \/ KeepHeader(w) \/ StreamHeader(w)
    \/ LoginCleanup(w) \/ ReadAuth(w) \/ NoAuth(w) \/ AuthBang(w) \/ StoreToken(w)
    \/ BeginAuthError(w)

(* A step of [rest] is one of Ctw, of a login, or of init.                     *)
LEMMA RestSteps ==
    ASSUME [RestNext]_<<vars, restVars>>
    PROVE  \/ Handler \/ InitMessage
           \/ \E w \in Workers : Working(w) \/ LoginStep(w)
           \/ UNCHANGED vars
<1>1. RestHandler => Handler \/ InitMessage
  BY DEF RestHandler, RestCommand, RestFrees, Handler, InitMessage
<1>2. ASSUME NEW w \in Workers,
             \/ ReceiveHeader(w) \/ RestRunning(w) \/ RestLocking(w)
             \/ Libcurl(w) \/ TimesOut(w) \/ Returning(w) \/ Exiting(w)
      PROVE  Working(w) \/ LoginStep(w)
  BY <1>2 DEF RestRunning, RestLocking, RestPrepare, Working, LoginStep, Running
<1> QED
  BY <1>1, <1>2 DEF RestNext, Idle

--------------------------------------------------------------------------------
(* Type correctness.                                                           *)

Visits == [login : BOOLEAN, server : Servers \cup {None}, sent : Workers \cup {None},
           header : {"none", "arriving", "kept", "streamed"}]

FieldsOK ==
    /\ baseUrl \in Servers \cup {None} /\ baseUrlLen \in BOOLEAN
    /\ authToken \in Workers \cup {None} /\ session \in Workers \cup {None}
    /\ visit \in [Workers -> Visits]

(* The updates of a record that only a login makes.                            *)
LEMMA AskedUpdate ==
    ASSUME req \in Locals, NEW w \in Workers, NEW o \in SUBSET Options
    PROVE  [req EXCEPT ![w].asked = o] \in Locals
<1>1. [req[w] EXCEPT !.asked = o] \in RequestRecord
  BY DEF Locals, RequestRecord
<1> QED
  BY <1>1 DEF Locals

(* An init message keeps the types.                                            *)
LEMMA InitMessageType == ASSUME TypeInv, InitMessage PROVE TypeInv'
<1> USE NamesAssumption DEF TypeInv, ThreadKnown, flags, handles, body, patch, Forget, MayInit,
        MayHandle
<1>1. ASSUME NEW s \in Servers \cup {None}, InitUrl(s) PROVE TypeInv'
  BY <1>1 DEF InitUrl, TypeOK
<1>2. CASE InitStuck
  BY <1>2 DEF InitStuck, Take, TypeOK
<1>3. ASSUME NEW w \in Workers, NEW s \in Servers, InitLogin(w, s) PROVE TypeInv'
  <2>1. settings' \in SUBSET Options
    BY <1>3 DEF InitLogin, TypeOK
  <2>2. req \in Locals
    BY DEF TypeOK, Locals
  <2>3. req' \in Locals
    BY <1>3, <2>1, <2>2, AskedUpdate DEF InitLogin
  <2>4. pc' \in [Workers -> States]
    BY <1>3, MoveType DEF InitLogin, States, RequestPhase, Starting
  <2>5. /\ thread' = w /\ handler = "none" /\ locked' = TRUE /\ parametersLen' = FALSE
        /\ clearCb' = FALSE
        /\ UNCHANGED <<mode, exitThread, handles, parameters, object, handler, cancelled, sysLock>>
    BY <1>3 DEF InitLogin, MayStart
  <2> QED
    BY <2>1, <2>3, <2>4, <2>5 DEF TypeOK, Locals
<1>4. ASSUME NEW w \in Workers, NEW s \in Servers, InitLoginFails(w, s) PROVE TypeInv'
  <2>1. settings' \in SUBSET Options
    BY <1>4 DEF InitLoginFails, TypeOK
  <2>2. /\ parametersLen' = FALSE /\ clearCb' = FALSE
        /\ UNCHANGED <<mode, exitThread, handles, object, handler, cancelled, sysLock>>
        /\ UNCHANGED <<locked, parameters, thread, pc, req>>
    BY <1>4 DEF InitLoginFails
  <2>3. TypeOK'
    BY <2>1, <2>2, ZenonT(40) DEF TypeOK
  <2> QED
    BY <2>2, <2>3
<1> QED
  BY <1>1, <1>2, <1>3, <1>4 DEF InitMessage

(* What a login writes into its record is well typed.                          *)
LEMMA LoginUpdate ==
    ASSUME req \in Locals, NEW w \in Workers
    PROVE  /\ WriteCredentials(w) => req' \in Locals
           /\ ReadAuth(w) => req' \in Locals
<1>1. ASSUME WriteCredentials(w) PROVE req' \in Locals
  <2>1. [req[w] EXCEPT !.verb = "POST"] \in RequestRecord
    BY DEF Locals, RequestRecord
  <2> QED
    BY <1>1, <2>1 DEF WriteCredentials, Locals
<1>2. ASSUME ReadAuth(w) PROVE req' \in Locals
  <2>1. PICK kind \in {"list", "bang"} :
            req' = [req EXCEPT ![multiHandle].read = TRUE, ![w].kind = kind]
    BY <1>2 DEF ReadAuth
  <2>2. multiHandle \in Workers
    BY <1>2 DEF ReadAuth, HasMessage
  <2>3. [req EXCEPT ![multiHandle].read = TRUE] \in Locals
    BY <2>2, Update
  <2> QED
    BY <2>1, <2>3, Update DEF Kind
<1> QED
  BY <1>1, <1>2

(* Each step of a login keeps the types.                                       *)
LEMMA LoginType == ASSUME TypeInv, NEW w \in Workers, LoginStep(w) PROVE TypeInv'
<1> USE NamesAssumption DEF flags, handles, body, patch, TypeInv, ThreadKnown, Step
<1>0. req \in Locals
  BY DEF TypeOK, Locals
<1>1. /\ {"created", "callback", "perform", "streaming", "auth", "auth_bang"} \subseteq States
      /\ {"auth_token", "auth_error", "dispose", "status", "ended"} \subseteq States
  BY DEF States, RequestPhase, Starting, CancelRegion, OutputPhase, Over
<1>2. CASE WriteCredentials(w)
  <2>1. pc' \in [Workers -> States]
    BY <1>1, <1>2, MoveType DEF WriteCredentials
  <2>2. req' \in Locals
    BY <1>0, <1>2, LoginUpdate
  <2>3. /\ parameters' = w /\ parametersLen' = TRUE
        /\ UNCHANGED <<locked, flags, handles, patch, settings, sysLock>>
    BY <1>2 DEF WriteCredentials
  <2> QED
    BY <2>1, <2>2, <2>3 DEF TypeOK, Locals
<1>3. CASE ReceiveHeader(w)
  BY <1>1, <1>3, MoveType DEF ReceiveHeader, TypeOK
<1>4. CASE KeepHeader(w)
  BY <1>1, <1>4, MoveType DEF KeepHeader, TypeOK
<1>5. CASE StreamHeader(w)
  BY <1>1, <1>5, MoveType DEF StreamHeader, TypeOK
<1>6. CASE LoginCleanup(w)
  <2>1. pc' \in [Workers -> States]
    BY <1>1, <1>6, MoveType DEF LoginCleanup
  <2>2. /\ parametersLen' = FALSE /\ locked' = FALSE
        /\ UNCHANGED <<flags, handles, parameters, patch, settings, sysLock, req>>
    BY <1>6 DEF LoginCleanup, Unlock
  <2>3. TypeOK'
    BY <2>1, <2>2, ZenonT(40) DEF TypeOK
  <2> QED
    BY <2>2, <2>3
<1>7. CASE ReadAuth(w)
  <2>1. pc' \in [Workers -> States]
    BY <1>1, <1>7, MoveType DEF ReadAuth
  <2>2. req' \in Locals
    BY <1>0, <1>7, LoginUpdate
  <2>3. UNCHANGED <<locked, flags, handles, body, patch, settings, sysLock>>
    BY <1>7 DEF ReadAuth
  <2> QED
    BY <2>1, <2>2, <2>3 DEF TypeOK, Locals
<1>8. CASE NoAuth(w)
  BY <1>1, <1>8, MoveType DEF NoAuth, TypeOK
<1>9. CASE AuthBang(w)
  <2>1. req' \in Locals
    BY <1>0, <1>9, Update DEF AuthBang, Kind
  <2>2. pc' \in [Workers -> States]
    BY <1>1, <1>9, MoveType DEF AuthBang
  <2> QED
    BY <1>9, <2>1, <2>2 DEF AuthBang, TypeOK, Locals
<1>10. CASE StoreToken(w)
  BY <1>1, <1>10, MoveType DEF StoreToken, TypeOK
<1>11. CASE BeginAuthError(w)
  <2>1. req' \in Locals
    BY <1>0, <1>11, Update DEF BeginAuthError, Kind
  <2> QED
    BY <1>1, <1>11, <2>1, MoveType DEF BeginAuthError, TypeOK, Locals
<1> QED
  BY <1>2, <1>3, <1>4, <1>5, <1>6, <1>7, <1>8, <1>9, <1>10, <1>11 DEF LoginStep

(* And so does every step of [rest].                                           *)
LEMMA RestTypeStep == ASSUME TypeInv, [RestNext]_<<vars, restVars>> PROVE TypeInv'
<1>1. ASSUME UNCHANGED vars PROVE TypeInv'
  BY <1>1 DEF vars, flags, handles, body, patch, TypeInv, TypeOK, ThreadKnown
<1> QED
  BY <1>1, RestSteps, HandlerType, InitMessageType, TransferType, WorkerType, LoginType DEF Working

(* So every reachable state is well typed.                                     *)
LEMMA RestTypeInvariant == RestSpec => []TypeInv
<1>1. RestInit => TypeInv
  BY InitType DEF RestInit
<1>2. TypeInv /\ [RestNext]_<<vars, restVars>> => TypeInv'
  BY RestTypeStep
<1> QED
  BY <1>1, <1>2, PTL DEF RestSpec

(* The machinery stays well typed under the second way through it that a login *)
(* takes, and with the handler that waits for itself.                          *)
THEOREM RestTypeCorrect == RestSpec => []TypeOK
<1>1. TypeInv => TypeOK
  BY DEF TypeInv
<1> QED
  BY <1>1, RestTypeInvariant, PTL

--------------------------------------------------------------------------------
(* The lock.  A handler that waits for the lock it holds itself was begun while *)
(* no request was under way, and none begins any more.                          *)

RestLockInv == IF handler = "stuck" THEN \A w \in Workers : pc[w] \notin RequestPhase
               ELSE LockInv

(* An init with a login tests the lock, as a command does.                     *)
LEMMA InitMessageLock == ASSUME TypeOK, LockInv, InitMessage PROVE RestLockInv'
<1> USE DEF flags, handles, body, patch, Forget, MayInit, MayHandle, Unlocked
<1>0. InitMessage => ~locked /\ handler = "none"
  BY DEF InitMessage, InitUrl, InitStuck, InitLogin, InitLoginFails, MayStart
<1>1. \A v \in Workers : pc[v] \notin RequestPhase /\ pc[v] \notin CancelRegion \cup {"prepare", "easy"}
  BY <1>0 DEF LockInv, RequestPhase, Starting
<1>2. ASSUME NEW s \in Servers \cup {None}, InitUrl(s) PROVE RestLockInv'
  <2>1. UNCHANGED <<pc, locked, handler>>
    BY <1>2 DEF InitUrl
  <2> QED
    BY <1>0, <1>1, <2>1 DEF RestLockInv, LockInv
<1>3. CASE InitStuck
  BY <1>1, <1>3 DEF InitStuck, RestLockInv
<1>4. ASSUME NEW w \in Workers, NEW s \in Servers, InitLogin(w, s) PROVE RestLockInv'
  <2>1. locked' = TRUE /\ thread' = w /\ handler' = "none" /\ pc[w] = "unborn"
    BY <1>0, <1>4 DEF InitLogin, MayStart
  <2>2. \A v \in Workers : pc'[v] = IF v = w THEN "authorise" ELSE pc[v]
    BY <1>4 DEF InitLogin, Goto, TypeOK
  <2>3. req'[w].asked = settings'
    BY <1>4 DEF InitLogin, TypeOK, RequestRecord
  <2> QED
    BY <1>1, <2>1, <2>2, <2>3 DEF RestLockInv, LockInv, RequestPhase, Starting, CancelRegion
<1>5. ASSUME NEW w \in Workers, NEW s \in Servers, InitLoginFails(w, s) PROVE RestLockInv'
  <2>1. UNCHANGED <<pc, locked, handler>>
    BY <1>5 DEF InitLoginFails
  <2> QED
    BY <1>0, <1>1, <2>1 DEF RestLockInv, LockInv
<1> QED
  BY <1>2, <1>3, <1>4, <1>5 DEF InitMessage

(* The way of a login through the machinery keeps what the lock rests on.      *)
LEMMA LoginLock == ASSUME TypeOK, LockInv, NEW w \in Workers, LoginStep(w) PROVE LockInv'
<1> USE DEF flags, handles, body, patch, Step
<1>0. req \in Locals
  BY DEF TypeOK, Locals
<1>1. CASE WriteCredentials(w)
  <2>1. pc[w] = "authorise" /\ UNCHANGED <<locked, thread, easyHandle, multiHandle, settings>>
    BY <1>1 DEF WriteCredentials
  <2>2. \A v \in Workers : pc'[v] = IF v = w THEN "created" ELSE pc[v]
    BY <1>1 DEF WriteCredentials, Goto, TypeOK
  <2>3. SameOptions
    BY <1>0, <1>1 DEF WriteCredentials, SameOptions, Locals, RequestRecord
  <2> QED
    BY <2>1, <2>2, <2>3 DEF LockInv, SameOptions, RequestPhase, Starting, CancelRegion
<1>2. CASE ReceiveHeader(w) \/ KeepHeader(w) \/ StreamHeader(w)
  <2>1. SameOptions
    BY <1>0, <1>2, KeepsOptions DEF ReceiveHeader, KeepHeader, StreamHeader
  <2>2. /\ pc[w] \in CancelRegion /\ \E to \in CancelRegion : Goto(w, to)
        /\ UNCHANGED <<locked, thread, easyHandle, multiHandle, settings>>
    BY <1>2 DEF ReceiveHeader, KeepHeader, StreamHeader, Performing, CancelRegion
  <2> QED
    BY <2>1, <2>2, InnerMove
<1>3. CASE LoginCleanup(w)
  <2>1. SameOptions
    BY <1>0, <1>3, KeepsOptions DEF LoginCleanup
  <2> QED
    BY <1>3, <2>1, Opens DEF LoginCleanup, Unlock, RequestPhase
<1>4. CASE ReadAuth(w)
  <2>1. PICK kind : req' = [req EXCEPT ![multiHandle].read = TRUE, ![w].kind = kind]
    BY <1>4 DEF ReadAuth
  <2>2. multiHandle \in Workers
    BY <1>4 DEF ReadAuth, HasMessage
  <2>3. SameOptions
    BY <1>0, <2>1, <2>2 DEF SameOptions, Locals, RequestRecord
  <2>4. /\ pc[w] \in OutputPhase /\ \E to \in OutputPhase : Goto(w, to)
        /\ UNCHANGED <<locked, thread, easyHandle, multiHandle, settings>>
    BY <1>4 DEF ReadAuth, OutputPhase
  <2> QED
    BY <2>3, <2>4, OuterMove
<1>5. CASE NoAuth(w) \/ AuthBang(w) \/ StoreToken(w) \/ BeginAuthError(w)
  <2>1. SameOptions
    BY <1>0, <1>5, KeepsOptions DEF NoAuth, AuthBang, StoreToken, BeginAuthError
  <2>2. /\ pc[w] \in OutputPhase /\ \E to \in OutputPhase \cup {"ended"} : Goto(w, to)
        /\ UNCHANGED <<locked, thread, easyHandle, multiHandle, settings>>
    BY <1>5 DEF NoAuth, AuthBang, StoreToken, BeginAuthError, OutputPhase
  <2> QED
    BY <2>1, <2>2, OuterMove
<1> QED
  BY <1>1, <1>2, <1>3, <1>4, <1>5 DEF LoginStep

(* A worker touches the state of a handler only when it is cancelled.          *)
LEMMA WorkerHandler ==
    ASSUME NEW w \in Workers, Working(w)
    PROVE  UNCHANGED handler \/ (pc[w] \in CancelRegion /\ handler' = "none")
<1> USE DEF flags, handles, body, patch
<1>1. CASE Libcurl(w) \/ TimesOut(w)
  BY <1>1 DEF Libcurl, Receive, ServerAnswers, ServerRefuses, ConnectionFails, TimesOut, TransferEnds
<1>2. CASE Locking(w)
  BY <1>2 DEF Locking, ReportNoCurl, WriteMemoryFails, BeginStream, BeginErrorReport, BeginReport,
              TransferEnds
<1>3. CASE Running(w)
  BY <1>3 DEF Running, InitEasy, InitMulti, Prepare, PerformError, WriteCleared, WriteMemory,
              NotBlocking, NotStreaming, Streaming, EndErrorReport, FinishLoop, LeaveLoop,
              CleanupRequest, ReadMessage, CleanupEasy, CleanupMulti, TransferEnds
<1>4. CASE Returning(w)
  BY <1>4 DEF Returning, EndStream, BangAfterData, EndReport
<1>5. CASE Exiting(w)
  BY <1>5 DEF Exiting, Abort, Aborted, ExitThread, PthreadExit, AbortHandler
<1> QED
  BY <1>1, <1>2, <1>3, <1>4, <1>5 DEF Working

(* A login that goes on does not touch the handler of a message.               *)
LEMMA LoginHandler ==
    ASSUME NEW w \in Workers, LoginStep(w)
    PROVE  UNCHANGED <<handler, object, thread, cancelled>>
  BY DEF patch, LoginStep, WriteCredentials, ReceiveHeader, KeepHeader, StreamHeader, LoginCleanup,
         ReadAuth, NoAuth, AuthBang, StoreToken, BeginAuthError

(* Once a handler waits for itself no other message is handled.                *)
LEMMA StuckHandles ==
    ASSUME handler = "stuck"
    PROVE  ~Handler /\ ~InitMessage
  BY DEF Handler, Message, Command, CommandFails, Reinit, ChangeSettings, ChangeMode, BeginCancel,
         SignalCancel, RaiseExitThread, BeginDelete, DeleteTestsLock, DeleteCancels, DeleteFrees,
         InitMessage, InitUrl, InitStuck, InitLogin, InitLoginFails, MayStart, MayInit, MayHandle

(* After a handler that is stuck no request begins any more.                   *)
LEMMA StuckStep ==
    ASSUME TypeOK, handler = "stuck", RestLockInv, [RestNext]_<<vars, restVars>>
    PROVE  RestLockInv'
<1>0. \A v \in Workers : pc[v] \notin RequestPhase
  BY DEF RestLockInv
<1>1. ASSUME NEW w \in Workers, NEW to, to \notin RequestPhase, Goto(w, to), UNCHANGED handler
      PROVE  RestLockInv'
  BY <1>0, <1>1 DEF RestLockInv, Goto, TypeOK
<1>2. ASSUME NEW w \in Workers, Working(w) PROVE RestLockInv'
  <2>1. UNCHANGED handler
    BY <1>0, <1>2, WorkerHandler DEF RequestPhase
  <2> QED
    BY <1>0, <1>1, <1>2, <2>1, WorkerLocked
<1>3. ASSUME NEW w \in Workers, LoginStep(w) PROVE RestLockInv'
  <2>1. UNCHANGED handler
    BY <1>3, LoginHandler
  <2>2. pc[w] \notin {"authorise", "callback", "perform", "stream", "performed"}
    BY <1>0 DEF RequestPhase, Starting, CancelRegion
  <2>3. \E to : to \notin RequestPhase /\ Goto(w, to)
    BY <1>3, <2>2 DEF LoginStep, WriteCredentials, ReceiveHeader, KeepHeader, StreamHeader,
                      LoginCleanup, ReadAuth, NoAuth, AuthBang, StoreToken, BeginAuthError,
                      Performing, Step, RequestPhase, Starting, CancelRegion
  <2> QED
    BY <1>1, <2>1, <2>3
<1>4. ASSUME UNCHANGED vars PROVE RestLockInv'
  BY <1>0, <1>4 DEF vars, patch, RestLockInv
<1> QED
  BY <1>2, <1>3, <1>4, RestSteps, StuckHandles

(* No other handler comes to wait for itself.                                  *)
LEMMA HandlersEnd ==
    ASSUME TypeOK, Handler, handler # "stuck"
    PROVE  handler' # "stuck"
  BY DEF patch, Handler, Message, Command, CommandFails, Reinit, ChangeSettings, ChangeMode, BeginCancel,
         SignalCancel, Aborted, RaiseExitThread, BeginDelete, DeleteTestsLock, DeleteCancels,
         DeleteFrees

(* Every step of [rest] keeps the lock consistent.                             *)
LEMMA RestLockStep ==
    ASSUME ~Windows, TypeOK, RestLockInv, [RestNext]_<<vars, restVars>>
    PROVE  RestLockInv'
<1>1. CASE handler = "stuck"
  BY <1>1, StuckStep
<1>2. CASE handler # "stuck"
  <2>1. LockInv
    BY <1>2 DEF RestLockInv
  <2>2. CASE Handler
    BY <1>2, <2>1, <2>2, HandlerLock, HandlersEnd DEF RestLockInv
  <2>3. CASE InitMessage
    BY <2>1, <2>3, InitMessageLock
  <2>4. ASSUME NEW w \in Workers, Working(w) PROVE RestLockInv'
    <3>1. LockInv'
      BY <2>1, <2>4, TransferLock, WorkerLock DEF Working
    <3> QED
      BY <1>2, <2>4, <3>1, WorkerHandler DEF RestLockInv
  <2>5. ASSUME NEW w \in Workers, LoginStep(w) PROVE RestLockInv'
    BY <1>2, <2>1, <2>5, LoginLock, LoginHandler DEF RestLockInv
  <2>6. ASSUME UNCHANGED vars PROVE RestLockInv'
    BY <1>2, <2>1, <2>6 DEF vars, flags, handles, body, patch, RestLockInv, LockInv
  <2> QED
    BY <2>2, <2>3, <2>4, <2>5, <2>6, RestSteps
<1> QED
  BY <1>1, <1>2

(* So it is in every reachable state.                                          *)
LEMMA RestLockInvariant == ASSUME ~Windows PROVE RestSpec => []RestLockInv
<1>1. RestInit => RestLockInv
  BY InitLock DEF RestInit, Init, RestLockInv
<1>2. TypeOK /\ RestLockInv /\ [RestNext]_<<vars, restVars>> => RestLockInv'
  BY RestLockStep
<1> QED
  BY <1>1, <1>2, RestTypeCorrect, PTL DEF RestSpec

(* An init message whose first argument is a number may leave the object       *)
(* locked with nobody at work; without one, no handler waits for itself.       *)
LEMMA NeverStuck == ASSUME "number" \notin Inits PROVE RestSpec => [](handler # "stuck")
<1> DEFINE Free == handler # "stuck"
<1>1. RestInit => Free
  BY DEF RestInit, Init
<1>2. TypeOK /\ Free /\ [RestNext]_<<vars, restVars>> => Free'
  <2> SUFFICES ASSUME TypeOK, handler # "stuck", [RestNext]_<<vars, restVars>>
               PROVE  handler' # "stuck"
    OBVIOUS
  <2>1. CASE InitMessage
    BY <2>1 DEF InitMessage, InitUrl, InitStuck, InitLogin, InitLoginFails, Forget
  <2>2. CASE UNCHANGED vars
    BY <2>2 DEF vars, patch
  <2> QED
    BY <2>1, <2>2, RestSteps, HandlersEnd, WorkerHandler, LoginHandler
<1>3. Free => handler # "stuck"
  OBVIOUS
<1> HIDE DEF Free
<1> QED
  BY <1>1, <1>2, <1>3, RestTypeCorrect, PTL DEF RestSpec

(* On POSIX systems the object is locked exactly while a thread works on a     *)
(* request or logs in, whatever is sent, cancelled or fails: but for an init   *)
(* message with a number in the place of the base URL.                         *)
THEOREM RestLockHeld == ASSUME ~Windows, "number" \notin Inits PROVE RestSpec => []LockHeld
<1>1. handler # "stuck" /\ RestLockInv => LockHeld
  BY DEF RestLockInv, LockInv, LockHeld
<1> QED
  BY <1>1, RestLockInvariant, NeverStuck, PTL

(* On POSIX systems a login and a request are never worked on together.        *)
THEOREM RestMutualExclusion == ASSUME ~Windows PROVE RestSpec => []LockGuardsRequest
<1>1. RestLockInv => LockGuardsRequest
  BY DEF RestLockInv, LockInv, LockGuardsRequest
<1> QED
  BY <1>1, RestLockInvariant, PTL

(* On POSIX systems the fields that a request or a login reads while libcurl   *)
(* runs are its own, although a login or a request before it may still be      *)
(* looking at its answer.                                                      *)
THEOREM RestTransfersOwnHandles == ASSUME ~Windows PROVE RestSpec => []OwnTransfer
<1>1. RestLockInv => OwnTransfer
  BY DEF RestLockInv, LockInv, OwnTransfer, RequestPhase
<1> QED
  BY <1>1, RestLockInvariant, PTL

(* On POSIX systems a login, like a request, is made with the options that     *)
(* were set when its message was handled.                                      *)
THEOREM RestOptionsFrozen == ASSUME ~Windows PROVE RestSpec => []SettingsFrozen
<1>1. RestLockInv => SettingsFrozen
  BY DEF RestLockInv, LockInv, SettingsFrozen, RequestPhase
<1> QED
  BY <1>1, RestLockInvariant, PTL

--------------------------------------------------------------------------------
(* The data.  The worker of a login writes the text that the handler writes    *)
(* for other commands; from then on, and while the object lives, nothing       *)
(* touches it before the transfer is over.                                     *)

TextReady(w) == req[w].verb # "GET" => parameters = w /\ parametersLen

BodyInv ==
    object = "live" =>
        \A w \in Workers : /\ pc[w] \in RequestPhase \ {"authorise"} => TextReady(w)
                           /\ pc[w] \in CancelRegion => req[w].body \in {None, w, Unset}

(* A PUT or a POST without data would send what the pointer was left with.     *)
DataSent == \A r \in Requests : r.verb # "GET" => r.data

(* Workers and requests move on, and the texts stay.                           *)
LEMMA BodyKept ==
    ASSUME BodyInv, UNCHANGED body, object' = "live" => object = "live", SameUploads,
           \A v \in Workers :
               /\ pc'[v] \in RequestPhase \ {"authorise"} => pc[v] \in RequestPhase \ {"authorise"}
               /\ pc'[v] \in CancelRegion => pc[v] \in CancelRegion
    PROVE  BodyInv'
  BY DEF BodyInv, TextReady, SameUploads, body

(* No request is under way.                                                    *)
LEMMA BodyIdle == ASSUME \A v \in Workers : pc'[v] \notin RequestPhase PROVE BodyInv'
  BY DEF BodyInv, RequestPhase

(* Preparing a request takes its own body.                                     *)
LEMMA PrepareBody ==
    ASSUME TypeOK, LockInv, BodyInv, NEW w \in Workers, Prepare(w)
    PROVE  BodyInv'
<1>1. /\ pc[w] = "prepare" /\ locked /\ thread = w
      /\ UNCHANGED <<object, parameters, parametersLen>>
  BY DEF Prepare, Step, LockInv, RequestPhase, Starting, body, patch
<1>2. \A v \in Workers : pc'[v] = IF v = w THEN "perform" ELSE pc[v]
  BY DEF Prepare, Step, Goto, TypeOK
<1>3. \A v \in Workers : pc'[v] \in RequestPhase => v = w
  BY <1>1, <1>2 DEF LockInv
<1>4. PICK t, b : /\ req' = [req EXCEPT ![w].used = settings, ![w].toFile = t, ![w].body = b]
                  /\ b \in {None, parameters, Unset} /\ (req[w].verb = "GET" => b = None)
  BY DEF Prepare
<1>5. req'[w].body = b /\ req'[w].verb = req[w].verb
  BY <1>4 DEF TypeOK, RequestRecord
<1>6. object = "live" => TextReady(w)
  BY <1>1 DEF BodyInv, RequestPhase, Starting
<1> QED
  BY <1>1, <1>3, <1>4, <1>5, <1>6 DEF BodyInv, TextReady, RequestPhase

(* The steps of a worker keep its body until it unlocks the object.            *)
LEMMA WorkerBody ==
    ASSUME ~Windows, TypeOK, LockInv, LockInv', BodyInv, NEW w \in Workers, Working(w)
    PROVE  BodyInv'
<1>1. CASE Prepare(w)
  BY <1>1, PrepareBody
<1>2. CASE ~Prepare(w)
  <2>1. UNCHANGED <<thread, parameters, object>> /\ SameUploads
    BY <1>2, WorkerPatch, UploadSettled
  <2>2. CASE ~locked'
    BY <2>2, BodyIdle DEF LockInv
  <2>3. CASE UNCHANGED <<locked, parametersLen>>
    <3>1. \A v \in Workers : pc'[v] \in RequestPhase => pc[v] \in RequestPhase
      BY <2>1, <2>3, SamePhase
    <3>2. \A v \in Workers : pc'[v] \in CancelRegion => pc[v] \in CancelRegion
      BY <1>2, WorkerRegion DEF TypeOK
    <3>3. \A v \in Workers : pc[v] = "authorise" => UNCHANGED pc[v]
      BY WorkerMoves DEF Goto, TypeOK
    <3> QED
      BY <2>1, <2>3, <3>1, <3>2, <3>3, BodyKept DEF body
  <2> QED
    BY <2>2, <2>3, WorkerUnlocks
<1> QED
  BY <1>1, <1>2

(* So do the steps of a login, whose body are its credentials.                 *)
LEMMA LoginBody ==
    ASSUME ~Windows, TypeOK, LockInv, LockInv', BodyInv, NEW w \in Workers, LoginStep(w)
    PROVE  BodyInv'
<1> USE DEF Step, flags, handles, body, patch
<1>1. CASE WriteCredentials(w)
  <2>1. /\ pc[w] = "authorise" /\ parameters' = w /\ parametersLen' /\ UNCHANGED <<locked, thread>>
    BY <1>1 DEF WriteCredentials
  <2>2. \A v \in Workers : pc'[v] = IF v = w THEN "created" ELSE pc[v]
    BY <1>1 DEF WriteCredentials, Goto, TypeOK
  <2>3. \A v \in Workers \ {w} : pc'[v] \notin RequestPhase
    BY <2>1, <2>2 DEF LockInv, RequestPhase, Starting
  <2> QED
    BY <2>1, <2>2, <2>3 DEF BodyInv, TextReady, RequestPhase, CancelRegion
<1>2. CASE LoginCleanup(w)
  <2>1. ~locked'
    BY <1>2 DEF LoginCleanup, Unlock
  <2> QED
    BY <2>1, BodyIdle DEF LockInv
<1>3. CASE ReceiveHeader(w) \/ KeepHeader(w) \/ StreamHeader(w)
  <2>1. /\ pc[w] \in CancelRegion /\ UNCHANGED <<object, parameters, parametersLen, req>>
        /\ \A v \in Workers \ {w} : UNCHANGED pc[v]
    BY <1>3 DEF ReceiveHeader, KeepHeader, StreamHeader, Performing, CancelRegion, Goto, TypeOK
  <2> QED
    BY <2>1, BodyKept DEF SameUploads, RequestPhase, Starting, CancelRegion
<1>4. CASE ReadAuth(w) \/ NoAuth(w) \/ AuthBang(w) \/ StoreToken(w) \/ BeginAuthError(w)
  <2>1. /\ UNCHANGED <<object, parameters, parametersLen>>
        /\ \A v \in Workers \ {w} : UNCHANGED pc[v]
        /\ pc'[w] \notin RequestPhase
    BY <1>4 DEF ReadAuth, NoAuth, AuthBang, StoreToken, BeginAuthError, RequestPhase, Starting,
                CancelRegion, Goto, TypeOK
  <2>2. SameUploads
    <3>1. CASE ReadAuth(w)
      <4>1. PICK kind : req' = [req EXCEPT ![multiHandle].read = TRUE, ![w].kind = kind]
        BY <3>1 DEF ReadAuth
      <4> QED
        BY <3>1, <4>1 DEF ReadAuth, HasMessage, TypeOK, RequestRecord, SameUploads
    <3>2. CASE NoAuth(w) \/ StoreToken(w)
      BY <3>2 DEF NoAuth, StoreToken, SameUploads
    <3>3. CASE AuthBang(w) \/ BeginAuthError(w)
      <4>1. PICK x : req' = [req EXCEPT ![w].status = x]
        BY <3>3 DEF AuthBang, BeginAuthError
      <4> QED
        BY <4>1 DEF TypeOK, RequestRecord, SameUploads
    <3> QED
      BY <1>4, <3>1, <3>2, <3>3
  <2> QED
    BY <2>1, <2>2, BodyKept DEF RequestPhase
<1> QED
  BY <1>1, <1>2, <1>3, <1>4 DEF LoginStep

(* And so does every step.                                                     *)
LEMMA BodyStep ==
    ASSUME ~Windows, DataSent, TypeOK, RestLockInv, RestLockInv', BodyInv,
           [RestNext]_<<vars, restVars>>
    PROVE  BodyInv'
<1>1. CASE handler' = "stuck"
  BY <1>1, BodyIdle DEF RestLockInv
<1>2. CASE handler' # "stuck"
  <2>1. CASE handler = "stuck"
    <3>1. \A v \in Workers : pc[v] \notin CancelRegion
      BY <2>1 DEF RestLockInv, RequestPhase
    <3>2. UNCHANGED vars
      BY <1>2, <2>1, <3>1, RestSteps, StuckHandles, WorkerHandler, LoginHandler
    <3> QED
      BY <1>2, <2>1, <3>2 DEF vars, patch
  <2>2. CASE handler # "stuck"
    <3>1. LockInv /\ LockInv'
      BY <1>2, <2>2 DEF RestLockInv
    <3>2. \A v \in Workers : pc'[v] \in RequestPhase => locked' /\ thread' = v
      BY <3>1 DEF LockInv
    <3>3. ASSUME UNCHANGED vars PROVE BodyInv'
      BY <3>3 DEF vars, body, patch, BodyInv, TextReady
    <3>4. ASSUME ~locked, UNCHANGED pc PROVE BodyInv'
      BY <3>1, <3>4, BodyIdle DEF LockInv
    <3>5. ASSUME NEW w \in Workers, NEW r \in Requests, Command(w, r) PROVE BodyInv'
      <4>1. /\ thread' = w /\ pc'[w] = "created" /\ req'[w].verb = r.verb
            /\ r.data => parameters' = w /\ parametersLen'
        BY <3>5 DEF Command, WriteParameters, Goto, TypeOK, RequestRecord
      <4>2. TextReady(w)'
        BY <4>1 DEF DataSent, TextReady
      <4> QED
        BY <3>2, <4>1, <4>2 DEF BodyInv, RequestPhase, CancelRegion
    <3>6. ASSUME NEW w \in Workers, NEW s \in Servers, InitLogin(w, s) PROVE BodyInv'
      <4>1. thread' = w /\ pc'[w] = "authorise"
        BY <3>6 DEF InitLogin, Goto, TypeOK
      <4> QED
        BY <3>2, <4>1 DEF BodyInv, RequestPhase, CancelRegion
    <3>7. CASE Message
      <4>1. UNCHANGED <<body, object>> /\ SameUploads
        BY <3>7, MessageKeepsTexts
      <4>2. \A v \in Workers : pc'[v] \in {pc[v], "aborted"}
        BY <3>7, MessageKeepsTexts
      <4> QED
        BY <4>1, <4>2, BodyKept DEF RequestPhase, Starting, CancelRegion
    <3>8. CASE DeleteFrees
      BY <3>8 DEF DeleteFrees, BodyInv
    <3>9. CASE RestHandler
      <4>1. ASSUME Unlocked, UNCHANGED pc PROVE BodyInv'
        BY <3>4, <4>1 DEF Unlocked
      <4> QED
        BY <3>5, <3>6, <3>7, <3>8, <3>9, <4>1
        DEF RestHandler, RestCommand, CommandFails, MayStart, InitUrl, InitStuck, InitLoginFails,
            MayInit, RestFrees
    <3>10. ASSUME NEW w \in Workers, Working(w) \/ LoginStep(w) PROVE BodyInv'
      BY <3>1, <3>10, WorkerBody, LoginBody
    <3> QED
      BY <3>3, <3>9, <3>10 DEF RestNext, RestRunning, RestLocking, RestPrepare, Working, LoginStep,
                               Running, Idle
  <2> QED
    BY <2>1, <2>2
<1> QED
  BY <1>1, <1>2

(* On POSIX systems a request and a login send their own data or none, and     *)
(* libcurl never reads data that was freed, until the object is deleted: if    *)
(* every PUT and every POST has data.                                          *)
THEOREM RestSendsOwnBody == ASSUME ~Windows, DataSent PROVE RestSpec => []OwnBody
<1>1. RestInit => BodyInv
  BY DEF RestInit, Init, BodyInv, RequestPhase, Starting, CancelRegion
<1>2. /\ TypeOK /\ RestLockInv /\ RestLockInv' /\ BodyInv /\ [RestNext]_<<vars, restVars>>
      => BodyInv'
  BY BodyStep
<1>3. BodyInv => OwnBody
  BY DEF BodyInv, TextReady, OwnBody, RequestPhase, Starting, CancelRegion
<1> QED
  BY <1>1, <1>2, <1>3, RestLockInvariant, RestTypeCorrect, PTL DEF RestSpec

--------------------------------------------------------------------------------
(* The fields of [rest].                                                       *)

FieldsSame == UNCHANGED <<baseUrl, baseUrlLen, authToken, session, visit>>

(* The fields of [rest] are well typed, after every step.                      *)
LEMMA FieldsType == ASSUME TypeOK, FieldsOK, [RestNext]_<<vars, restVars>> PROVE FieldsOK'
<1> USE DEF FieldsOK, Visits, init, restVars
<1>1. CASE FieldsSame
  BY <1>1 DEF FieldsSame
<1>2. ASSUME NEW w \in Workers, NEW r \in Requests, RestCommand(w, r) PROVE FieldsOK'
  BY <1>2 DEF RestCommand
<1>3. ASSUME NEW s \in Servers \cup {None}, InitUrl(s) PROVE FieldsOK'
  BY <1>3 DEF InitUrl
<1>4. CASE InitStuck
  BY <1>4 DEF InitStuck
<1>5. ASSUME NEW w \in Workers, NEW s \in Servers, InitLogin(w, s) PROVE FieldsOK'
  BY <1>5 DEF InitLogin, SetLogin
<1>6. ASSUME NEW w \in Workers, NEW s \in Servers, InitLoginFails(w, s) PROVE FieldsOK'
  BY <1>6 DEF InitLoginFails, SetLogin
<1>7. CASE RestFrees
  BY <1>7 DEF RestFrees
<1>8. ASSUME NEW w \in Workers, WriteCredentials(w) \/ RestPrepare(w) PROVE FieldsOK'
  BY <1>8 DEF WriteCredentials, RestPrepare
<1>9. ASSUME NEW w \in Workers, ReceiveHeader(w) \/ KeepHeader(w) \/ StreamHeader(w) PROVE FieldsOK'
  BY <1>9 DEF ReceiveHeader, KeepHeader, StreamHeader
<1>10. ASSUME NEW w \in Workers, StoreToken(w) PROVE FieldsOK'
  BY <1>10 DEF StoreToken
<1>11. CASE RestHandler
  BY <1>1, <1>2, <1>3, <1>4, <1>5, <1>6, <1>7, <1>11 DEF RestHandler, FieldsSame
<1>12. ASSUME NEW w \in Workers, RestRunning(w) \/ RestLocking(w) PROVE FieldsOK'
  BY <1>1, <1>8, <1>9, <1>10, <1>12
  DEF RestRunning, RestLocking, Shared, LoginCleanup, ReadAuth, NoAuth, AuthBang, BeginAuthError,
      FieldsSame
<1> QED
  BY <1>1, <1>9, <1>11, <1>12 DEF RestNext, FieldsSame

(* So they are in every reachable state.                                       *)
LEMMA FieldsInvariant == RestSpec => []FieldsOK
<1>1. RestInit => FieldsOK
  <2>1. NoVisit \in Visits
    BY DEF NoVisit, Visits
  <2> QED
    BY <2>1 DEF RestInit, FieldsOK
<1>2. TypeOK /\ FieldsOK /\ [RestNext]_<<vars, restVars>> => FieldsOK'
  BY FieldsType
<1> QED
  BY <1>1, <1>2, RestTypeCorrect, PTL DEF RestSpec

--------------------------------------------------------------------------------
(* The cookie and its server.  A worker notes its server when its request      *)
(* begins, a login when its thread does; as no init is handled before the      *)
(* thread has ended, this is still the server of the base URL when the cookie  *)
(* is stored or sent.                                                          *)

Begun(w) == pc[w] \notin {"unborn", "authorise"}

CookieInv ==
    /\ \A w \in Workers : pc[w] \notin Over \cup {"authorise"} => visit[w].server = baseUrl
    /\ authToken # None => Begun(authToken) /\ visit[authToken].server = baseUrl
    /\ \A w \in Workers : visit[w].sent # None =>
           /\ Begun(w) /\ Begun(visit[w].sent)
           /\ visit[w].server = visit[visit[w].sent].server

SameVisits == \A v \in Workers : visit'[v].server = visit[v].server /\ visit'[v].sent = visit[v].sent

(* Workers move on, which cannot be undone, and visits stay.                   *)
LEMMA CookieKeeps ==
    ASSUME FieldsOK, CookieInv, SameVisits, UNCHANGED <<baseUrl, authToken>>,
           \A v \in Workers : \/ pc'[v] \in {pc[v], "aborted"}
                              \/ pc[v] \notin Over \cup {"authorise"} /\ Begun(v)'
    PROVE  CookieInv'
<1>1. \A v \in Workers : Begun(v) => Begun(v)'
  BY DEF Begun
<1>2. \A v \in Workers : pc'[v] \notin Over \cup {"authorise"} => pc[v] \notin Over \cup {"authorise"}
  BY DEF Begun, Over
<1> QED
  BY <1>1, <1>2 DEF FieldsOK, Visits, CookieInv, SameVisits

(* An init, while no thread is under way, forgets the cookie.                  *)
LEMMA CookieForgotten ==
    ASSUME FieldsOK, CookieInv, SameVisits, authToken' = None,
           \A v \in Workers : pc[v] \in Over,
           \A v \in Workers : pc'[v] = pc[v] \/ (pc'[v] = "authorise" /\ pc[v] = "unborn")
    PROVE  CookieInv'
<1>1. \A v \in Workers : Begun(v) => Begun(v)'
  BY DEF Begun
<1>2. \A v \in Workers : pc'[v] \in Over \cup {"authorise"}
  OBVIOUS
<1> QED
  BY <1>1, <1>2 DEF FieldsOK, Visits, CookieInv, SameVisits

(* A login goes on from where it is, and does not begin again.                 *)
LEMMA LoginMoves ==
    ASSUME NEW w \in Workers, LoginStep(w), ~WriteCredentials(w)
    PROVE  /\ pc[w] \notin Over \cup {"authorise"}
           /\ \E to \in States \ {"unborn", "authorise"} : Goto(w, to)
  BY DEF LoginStep, ReceiveHeader, KeepHeader, StreamHeader, LoginCleanup, ReadAuth, NoAuth,
         AuthBang, StoreToken, BeginAuthError, Performing, Step, States, RequestPhase, Starting,
         CancelRegion, OutputPhase, Over

(* Every step keeps a cookie with its server.                                  *)
LEMMA CookieStep ==
    ASSUME Delays, TypeOK, FieldsOK, CookieInv, [RestNext]_<<vars, restVars>>
    PROVE  CookieInv'
<1> USE DEF init, restVars
<1>1. ASSUME FieldsSame, \A v \in Workers : pc'[v] \in {pc[v], "aborted"} PROVE CookieInv'
  BY <1>1, CookieKeeps DEF FieldsSame, SameVisits
<1>2. ASSUME NEW w \in Workers, Working(w) \/ (LoginStep(w) /\ ~WriteCredentials(w)),
             NEW v \in Workers
      PROVE  \/ pc'[v] \in {pc[v], "aborted"}
             \/ pc[v] \notin Over \cup {"authorise"} /\ Begun(v)'
  BY <1>2, WorkerMoves, LoginMoves DEF Goto, TypeOK, Begun
<1>3. ASSUME NEW w \in Workers, Working(w) \/ (LoginStep(w) /\ ~WriteCredentials(w)),
             UNCHANGED <<baseUrl, authToken>>, SameVisits
      PROVE  CookieInv'
  BY <1>2, <1>3, CookieKeeps
<1>4. ASSUME NEW w \in Workers, NEW r \in Requests, RestCommand(w, r) PROVE CookieInv'
  <2>1. pc[w] = "unborn" /\ \A v \in Workers : pc'[v] = IF v = w THEN "created" ELSE pc[v]
    BY <1>4 DEF RestCommand, Command, MayStart, Goto, TypeOK
  <2>2. visit' = [visit EXCEPT ![w].server = baseUrl] /\ UNCHANGED <<baseUrl, authToken>>
    BY <1>4 DEF RestCommand
  <2>3. /\ visit'[w].server = baseUrl /\ visit'[w].sent = visit[w].sent
        /\ \A v \in Workers \ {w} : visit'[v] = visit[v]
    BY <2>2 DEF FieldsOK, Visits
  <2> QED
    BY <2>1, <2>2, <2>3 DEF FieldsOK, Visits, CookieInv, Begun
<1>5. CASE RestHandler
  <2>1. ASSUME NEW s \in Servers \cup {None}, InitUrl(s) PROVE CookieInv'
    <3>1. authToken' = None /\ UNCHANGED <<visit, pc>> /\ \A v \in Workers : pc[v] \in Over
      BY <2>1 DEF InitUrl, MayInit
    <3>2. SameVisits
      BY <3>1 DEF SameVisits
    <3> QED
      BY <3>1, <3>2, CookieForgotten
  <2>2. CASE InitStuck
    <3>1. authToken' = None /\ UNCHANGED <<visit, pc>> /\ \A v \in Workers : pc[v] \in Over
      BY <2>2 DEF InitStuck, MayInit
    <3>2. SameVisits
      BY <3>1 DEF SameVisits
    <3> QED
      BY <3>1, <3>2, CookieForgotten
  <2>3. ASSUME NEW w \in Workers, NEW s \in Servers, InitLogin(w, s) PROVE CookieInv'
    <3>1. /\ pc[w] = "unborn" /\ \A v \in Workers : pc[v] \in Over
          /\ \A v \in Workers : pc'[v] = IF v = w THEN "authorise" ELSE pc[v]
      BY <2>3 DEF InitLogin, MayStart, Goto, TypeOK
    <3>2. authToken' = None /\ visit' = [visit EXCEPT ![w].login = TRUE]
      BY <2>3 DEF InitLogin, SetLogin
    <3>3. SameVisits
      BY <3>2 DEF FieldsOK, Visits, SameVisits
    <3> QED
      BY <3>1, <3>2, <3>3, CookieForgotten
  <2>4. ASSUME NEW w \in Workers, NEW s \in Servers, InitLoginFails(w, s) PROVE CookieInv'
    <3>1. authToken' = None /\ UNCHANGED <<visit, pc>> /\ \A v \in Workers : pc[v] \in Over
      BY <2>4 DEF InitLoginFails, MayStart, SetLogin
    <3>2. SameVisits
      BY <3>1 DEF SameVisits
    <3> QED
      BY <3>1, <3>2, CookieForgotten
  <2>5. CASE Message /\ UNCHANGED restVars
    BY <1>1, <2>5, MessageKeepsTexts DEF FieldsSame
  <2>6. CASE RestFrees
    BY <2>6 DEF RestFrees, DeleteFrees, CookieInv, Begun
  <2>7. ASSUME NEW w \in Workers, NEW r \in Requests, CommandFails(w, r), UNCHANGED restVars
        PROVE  CookieInv'
    BY <1>1, <2>7 DEF CommandFails, FieldsSame
  <2> QED
    BY <1>4, <1>5, <2>1, <2>2, <2>3, <2>4, <2>5, <2>6, <2>7 DEF RestHandler
<1>6. ASSUME NEW w \in Workers, WriteCredentials(w) PROVE CookieInv'
  <2>1. pc[w] = "authorise" /\ \A v \in Workers : pc'[v] = IF v = w THEN "created" ELSE pc[v]
    BY <1>6 DEF WriteCredentials, Step, Goto, TypeOK
  <2>2. visit' = [visit EXCEPT ![w].server = baseUrl] /\ UNCHANGED <<baseUrl, authToken>>
    BY <1>6 DEF WriteCredentials
  <2>3. /\ visit'[w].server = baseUrl /\ visit'[w].sent = visit[w].sent
        /\ \A v \in Workers \ {w} : visit'[v] = visit[v]
    BY <2>2 DEF FieldsOK, Visits
  <2> QED
    BY <2>1, <2>2, <2>3 DEF FieldsOK, Visits, CookieInv, Begun
<1>7. ASSUME NEW w \in Workers, RestPrepare(w) PROVE CookieInv'
  <2>1. pc[w] = "prepare" /\ \A v \in Workers : pc'[v] = IF v = w THEN "perform" ELSE pc[v]
    BY <1>7 DEF RestPrepare, Prepare, Step, Goto, TypeOK
  <2>2. visit' = [visit EXCEPT ![w].sent = authToken] /\ UNCHANGED <<baseUrl, authToken>>
    BY <1>7 DEF RestPrepare
  <2>3. /\ visit'[w].server = visit[w].server /\ visit'[w].sent = authToken
        /\ \A v \in Workers \ {w} : visit'[v] = visit[v]
    BY <2>2 DEF FieldsOK, Visits
  <2>4. visit[w].server = baseUrl
    BY <2>1 DEF CookieInv, Over
  <2> QED
    BY <2>1, <2>2, <2>3, <2>4 DEF FieldsOK, Visits, CookieInv, Begun, Over
<1>8. ASSUME NEW w \in Workers, ReceiveHeader(w) \/ KeepHeader(w) \/ StreamHeader(w) PROVE CookieInv'
  <2>1. PICK h : visit' = [visit EXCEPT ![w].header = h]
    BY <1>8 DEF ReceiveHeader, KeepHeader, StreamHeader
  <2>2. SameVisits
    BY <2>1 DEF FieldsOK, Visits, SameVisits
  <2>3. UNCHANGED <<baseUrl, authToken>> /\ LoginStep(w) /\ ~WriteCredentials(w)
    BY <1>8 DEF ReceiveHeader, KeepHeader, StreamHeader, LoginStep, WriteCredentials, Performing, Step
  <2> QED
    BY <1>3, <2>2, <2>3
<1>9. ASSUME NEW w \in Workers, StoreToken(w) PROVE CookieInv'
  <2>1. /\ pc[w] = "auth_token" /\ UNCHANGED <<baseUrl, visit>> /\ authToken' \in {w, authToken}
        /\ \A v \in Workers : pc'[v] = IF v = w THEN "dispose" ELSE pc[v]
    BY <1>9 DEF StoreToken, Step, Goto, TypeOK
  <2>2. visit[w].server = baseUrl
    BY <2>1 DEF CookieInv, Over
  <2> QED
    BY <2>1, <2>2 DEF FieldsOK, Visits, CookieInv, Begun, Over
<1>10. ASSUME NEW w \in Workers, FieldsSame, Working(w) \/ (LoginStep(w) /\ ~WriteCredentials(w))
       PROVE  CookieInv'
  BY <1>3, <1>10 DEF FieldsSame, SameVisits
<1>11. ASSUME NEW w \in Workers, RestRunning(w) \/ RestLocking(w) PROVE CookieInv'
  <2>1. CASE \/ LoginCleanup(w) \/ ReadAuth(w) \/ NoAuth(w) \/ AuthBang(w) \/ BeginAuthError(w)
             \/ (Running(w) /\ Shared(w)) \/ (Locking(w) /\ Shared(w))
    <3>1. FieldsSame
      BY <2>1 DEF LoginCleanup, ReadAuth, NoAuth, AuthBang, BeginAuthError, Shared, FieldsSame
    <3>2. Working(w) \/ (LoginStep(w) /\ ~WriteCredentials(w))
      BY <2>1 DEF LoginCleanup, ReadAuth, NoAuth, AuthBang, BeginAuthError, WriteCredentials,
                  LoginStep, Working, Step
    <3> QED
      BY <1>10, <3>1, <3>2
  <2> QED
    BY <1>6, <1>7, <1>8, <1>9, <1>11, <2>1 DEF RestRunning, RestLocking
<1>12. ASSUME NEW w \in Workers, Libcurl(w) \/ TimesOut(w) \/ Returning(w) \/ Exiting(w),
              UNCHANGED restVars
       PROVE  CookieInv'
  BY <1>10, <1>12 DEF Working, FieldsSame
<1>13. CASE UNCHANGED <<vars, restVars>>
  BY <1>1, <1>13 DEF vars, FieldsSame
<1> QED
  BY <1>5, <1>8, <1>11, <1>12, <1>13 DEF RestNext, Idle

(* If the patch waits for the thread to end, a cookie is only ever sent to the *)
(* server that gave it, however inits, logins, cancels and failures follow one *)
(* another.                                                                    *)
THEOREM CookiesGoHome == ASSUME Delays PROVE RestSpec => []CookieOfServer
<1>1. RestInit => CookieInv
  BY DEF RestInit, Init, NoVisit, CookieInv, Over
<1>2. TypeOK /\ FieldsOK /\ CookieInv /\ [RestNext]_<<vars, restVars>> => CookieInv'
  BY CookieStep
<1>3. CookieInv => CookieOfServer
  BY DEF CookieInv, CookieOfServer
<1> QED
  BY <1>1, <1>2, <1>3, RestTypeCorrect, FieldsInvariant, PTL DEF RestSpec

--------------------------------------------------------------------------------
(* One request or login at a time, and its curl handles.                       *)

(* A login, like a command, waits until all other threads are over.            *)
LEMMA RestAloneStep ==
    ASSUME Delays, TypeOK, OneRequestAtATime, [RestNext]_<<vars, restVars>>
    PROVE  OneRequestAtATime'
<1> USE DEF OneRequestAtATime
<1>1. CASE Handler \/ (\E w \in Workers : Working(w)) \/ UNCHANGED vars
  BY <1>1, AloneStep DEF Next, Working
<1>2. ASSUME InitMessage PROVE OneRequestAtATime'
  <2>1. ASSUME UNCHANGED pc PROVE OneRequestAtATime'
    BY <2>1
  <2>2. ASSUME NEW w \in Workers, NEW s \in Servers, InitLogin(w, s) PROVE OneRequestAtATime'
    BY <2>2 DEF InitLogin, MayStart, Goto, TypeOK
  <2> QED
    BY <1>2, <2>1, <2>2 DEF InitMessage, InitUrl, InitStuck, InitLoginFails
<1>3. ASSUME NEW w \in Workers, LoginStep(w) PROVE OneRequestAtATime'
  <2>1. pc[w] \notin Over /\ \E to : Goto(w, to)
    BY <1>3, LoginMoves DEF WriteCredentials, Step, Over
  <2> QED
    BY <2>1 DEF Goto, TypeOK
<1> QED
  BY <1>1, <1>2, <1>3, RestSteps

(* So there is never a second one.                                             *)
LEMMA RestAlone == ASSUME Delays PROVE RestSpec => []OneRequestAtATime
<1>1. RestInit => OneRequestAtATime
  BY DEF RestInit, Init, OneRequestAtATime, Over
<1>2. TypeOK /\ OneRequestAtATime /\ [RestNext]_<<vars, restVars>> => OneRequestAtATime'
  BY RestAloneStep
<1> QED
  BY <1>1, <1>2, RestTypeCorrect, PTL DEF RestSpec

(* A step of a login leaves the other workers, and all handles, alone; it      *)
(* reads the message of its own transfer.                                      *)
LEMMA LoginRecords ==
    ASSUME TypeOK, HandlesInv, NEW w \in Workers, LoginStep(w)
    PROVE  /\ UNCHANGED handles
           /\ \A v \in Workers \ {w} : UNCHANGED <<pc[v], req[v]>>
           /\ UNCHANGED req[w].result
           /\ UNCHANGED req[w].read \/ ReadAuth(w)
           /\ UNCHANGED req[w].status \/ AuthBang(w) \/ BeginAuthError(w)
<1>1. HandlesOf(w)
  BY DEF HandlesInv
<1>2. UNCHANGED handles /\ \A v \in Workers \ {w} : UNCHANGED pc[v]
  BY DEF LoginStep, WriteCredentials, ReceiveHeader, KeepHeader, StreamHeader, LoginCleanup,
         ReadAuth, NoAuth, AuthBang, StoreToken, BeginAuthError, Step, Goto, TypeOK
<1>3. CASE WriteCredentials(w)
  <2>1. req' = [req EXCEPT ![w].verb = "POST"]
    BY <1>3 DEF WriteCredentials
  <2> QED
    BY <1>2, <2>1 DEF TypeOK, RequestRecord
<1>4. CASE ReadAuth(w)
  <2>1. multiHandle = w
    BY <1>1, <1>4 DEF ReadAuth, HandlesOf, Attached, OutputPhase
  <2>2. PICK kind : req' = [req EXCEPT ![w].read = TRUE, ![w].kind = kind]
    BY <1>4, <2>1 DEF ReadAuth
  <2> QED
    BY <1>2, <1>4, <2>2 DEF TypeOK, RequestRecord
<1>5. CASE AuthBang(w) \/ BeginAuthError(w)
  <2>1. PICK x : req' = [req EXCEPT ![w].status = x]
    BY <1>5 DEF AuthBang, BeginAuthError
  <2> QED
    BY <1>2, <1>5, <2>1 DEF TypeOK, RequestRecord
<1>6. CASE \/ ReceiveHeader(w) \/ KeepHeader(w) \/ StreamHeader(w) \/ LoginCleanup(w)
           \/ NoAuth(w) \/ StoreToken(w)
  BY <1>2, <1>6 DEF ReceiveHeader, KeepHeader, StreamHeader, LoginCleanup, NoAuth, StoreToken
<1> QED
  BY <1>3, <1>4, <1>5, <1>6 DEF LoginStep

(* A login uses and cleans up its own handles.                                 *)
LEMMA LoginHandles ==
    ASSUME TypeOK, OneRequestAtATime, HandlesInv, NEW w \in Workers, LoginStep(w)
    PROVE  HandlesInv'
<1> USE DEF Step, Goto
<1>0. /\ UNCHANGED handles
      /\ \A v \in Workers \ {w} : UNCHANGED <<pc[v], req[v]>>
      /\ UNCHANGED req[w].result
      /\ UNCHANGED req[w].read \/ ReadAuth(w)
  BY LoginRecords
<1>1. ASSUME NEW v \in Workers \ {w} PROVE HandlesOf(v)' /\ ResultOf(v)'
  BY <1>0, <1>1 DEF HandlesInv, HandlesOf, ResultOf, handles
<1>2. pc \in [Workers -> States] /\ HandlesOf(w) /\ ResultOf(w)
  BY DEF TypeOK, HandlesInv
<1>3. HandlesOf(w)'
  <2> USE <1>0, <1>2 DEF handles, HandlesOf, Equipped, Trying, Attached, CancelRegion, OutputPhase
  <2>1. CASE WriteCredentials(w)
    BY <2>1 DEF WriteCredentials
  <2>2. CASE ReceiveHeader(w) \/ KeepHeader(w) \/ StreamHeader(w)
    BY <2>2 DEF ReceiveHeader, KeepHeader, StreamHeader, Performing
  <2>3. CASE LoginCleanup(w) \/ AuthBang(w) \/ StoreToken(w) \/ BeginAuthError(w)
    BY <2>3 DEF LoginCleanup, AuthBang, StoreToken, BeginAuthError
  <2>4. CASE ReadAuth(w) \/ NoAuth(w)
    BY <2>4 DEF ReadAuth, NoAuth, HasMessage, ResultOf
  <2> QED
    BY <2>1, <2>2, <2>3, <2>4 DEF LoginStep
<1>4. ResultOf(w)'
  <2> USE <1>0, <1>2 DEF ResultOf, RequestPhase, Starting, CancelRegion
  <2>1. CASE WriteCredentials(w) \/ ReceiveHeader(w) \/ KeepHeader(w) \/ StreamHeader(w)
    BY <2>1 DEF WriteCredentials, ReceiveHeader, KeepHeader, StreamHeader, Performing, ReadAuth
  <2>2. CASE LoginCleanup(w)
    BY <2>2 DEF LoginCleanup, ReadAuth
  <2>3. CASE ReadAuth(w) \/ NoAuth(w) \/ AuthBang(w) \/ StoreToken(w) \/ BeginAuthError(w)
    BY <2>3 DEF ReadAuth, NoAuth, AuthBang, StoreToken, BeginAuthError
  <2> QED
    BY <2>1, <2>2, <2>3 DEF LoginStep
<1> QED
  BY <1>1, <1>3, <1>4 DEF HandlesInv

(* An init leaves all handles alone, and at most starts a worker.              *)
LEMMA InitMessageHandles ==
    ASSUME TypeOK, HandlesInv, InitMessage
    PROVE  HandlesInv'
<1>1. UNCHANGED handles
  BY DEF InitMessage, InitUrl, InitStuck, InitLogin, InitLoginFails, Forget
<1>2. ASSUME NEW v \in Workers, UNCHANGED <<pc[v], req[v]>> PROVE HandlesOf(v)' /\ ResultOf(v)'
  BY <1>1, <1>2 DEF HandlesInv, HandlesOf, ResultOf, handles
<1>3. CASE UNCHANGED <<pc, req>>
  BY <1>2, <1>3 DEF HandlesInv
<1>4. ASSUME NEW w \in Workers, NEW s \in Servers, InitLogin(w, s) PROVE HandlesInv'
  <2>1. PICK o : req' = [req EXCEPT ![w].asked = o]
    BY <1>4 DEF InitLogin
  <2>2. \A v \in Workers \ {w} : UNCHANGED <<pc[v], req[v]>>
    BY <1>4, <2>1 DEF InitLogin, Goto, TypeOK
  <2>3. pc[w] = "unborn" /\ pc'[w] = "authorise" /\ req'[w].read = req[w].read
    BY <1>4, <2>1 DEF InitLogin, MayStart, Goto, TypeOK, RequestRecord
  <2>4. HandlesOf(w)' /\ ResultOf(w)'
    BY <1>1, <2>3 DEF HandlesInv, HandlesOf, ResultOf, Equipped, Trying, Attached, CancelRegion,
                      OutputPhase, handles
  <2> QED
    BY <1>2, <2>2, <2>4 DEF HandlesInv
<1> QED
  BY <1>3, <1>4 DEF InitMessage, InitUrl, InitStuck, InitLoginFails

(* Every step of [rest] keeps what is said of the handles.                     *)
LEMMA RestHandlesStep ==
    ASSUME TypeOK, OneRequestAtATime, HandlesInv, [RestNext]_<<vars, restVars>>
    PROVE  HandlesInv'
<1>1. CASE Handler \/ (\E w \in Workers : Working(w)) \/ UNCHANGED vars
  BY <1>1, RequestStep DEF Next, Working
<1> QED
  BY <1>1, InitMessageHandles, LoginHandles, RestSteps

(* So it holds in every reachable state.                                       *)
LEMMA RestHandlesInvariant == ASSUME Delays PROVE RestSpec => []HandlesInv
<1>1. RestInit => HandlesInv
  BY InitRequest DEF RestInit, RequestInv
<1>2. TypeOK /\ OneRequestAtATime /\ HandlesInv /\ [RestNext]_<<vars, restVars>> => HandlesInv'
  BY RestHandlesStep
<1> QED
  BY <1>1, <1>2, RestTypeCorrect, RestAlone, PTL DEF RestSpec

(* If the patch waits for the thread to end, a thread that comes to its end,   *)
(* after a request or a login, has cleaned up the handles it created, unless   *)
(* it could not create an easy handle.                                         *)
THEOREM LoginsReclaimHandles == ASSUME Delays PROVE RestSpec => []HandlesReclaimed
<1>1. HandlesInv => HandlesReclaimed
  BY DEF HandlesInv, HandlesOf, HandlesReclaimed
<1> QED
  BY <1>1, RestHandlesInvariant, PTL

--------------------------------------------------------------------------------
(* What a login leaves behind.  Its worker is that of the last init until it   *)
(* is over, as no init is handled meanwhile; it goes its own way through       *)
(* "auth..."; and its success is reported one step before the cookie is kept.  *)

AuthPhase == {"auth", "auth_bang", "auth_token", "auth_error"}

LoginOf(w) ==
    /\ visit[w].login => /\ pc[w] \notin Over => session = w
                         /\ pc[w] \notin {"unborn", "output", "report", "data"}
    /\ pc[w] \in AuthPhase => visit[w].login
    /\ pc[w] \in RequestPhase \cup {"unborn", "auth", "auth_bang"} => req[w].status = "none"
    /\ object = "live" /\ LoggedIn(w) =>
           authToken = w \/ pc[w] \in {"auth_token", "auth_error"}

LoginInv ==
    /\ session # None => visit[session].login
    /\ \A w \in Workers : LoginOf(w)

(* What a shared step of a worker does to the control state and the report.    *)
LEMMA WorkerStatus ==
    ASSUME TypeOK, HandlesInv, NEW w \in Workers, Working(w)
    PROVE  /\ pc[w] \notin AuthPhase \cup Over \cup {"authorise"}
           /\ pc'[w] \notin AuthPhase \cup {"unborn"}
           /\ pc'[w] = "output" => pc[w] = "performed"
           /\ pc'[w] \in {"report", "data"} => pc[w] \in {"output", "report"}
           /\ pc'[w] \in RequestPhase => pc[w] \in RequestPhase
           /\ UNCHANGED req[w].status \/ pc[w] \in {"report", "data"}
<1> USE DEF Step, Goto
<1>0. pc \in [Workers -> States] /\ req \in [Workers -> RequestRecord]
  BY DEF TypeOK
<1>1. /\ pc[w] \notin Over \cup {"authorise"} /\ pc'[w] # "unborn"
      /\ pc'[w] \in RequestPhase => pc[w] \in RequestPhase
  BY <1>0, WorkerMoves, WorkerLocked
<1>2. CASE Libcurl(w) \/ TimesOut(w)
  BY <1>0, <1>1, <1>2 DEF Libcurl, Receive, ServerAnswers, ServerRefuses, ConnectionFails, TimesOut,
              TransferEnds, Performing, RequestRecord, AuthPhase
<1>3. CASE Locking(w)
  <2>1. CASE ReportNoCurl(w) \/ WriteMemoryFails(w)
    BY <1>0, <1>1, <2>1 DEF ReportNoCurl, WriteMemoryFails, TransferEnds, RequestRecord, AuthPhase
  <2>2. CASE BeginStream(w) \/ BeginErrorReport(w)
    BY <1>0, <1>1, <2>2 DEF BeginStream, BeginErrorReport, RequestRecord, AuthPhase
  <2>3. CASE BeginReport(w)
    BY <1>0, <1>1, <2>3 DEF BeginReport, AuthPhase
  <2> QED
    BY <1>3, <2>1, <2>2, <2>3 DEF Locking
<1>4. CASE Running(w)
  <2>1. CASE InitEasy(w) \/ InitMulti(w)
    BY <1>0, <1>1, <2>1 DEF InitEasy, InitMulti, AuthPhase
  <2>2. CASE Prepare(w)
    <3>1. PICK t, b : req' = [req EXCEPT ![w].used = settings, ![w].toFile = t, ![w].body = b]
      BY <2>2 DEF Prepare
    <3> QED
      BY <1>0, <1>1, <2>2, <3>1 DEF Prepare, RequestRecord, AuthPhase
  <2>3. CASE \/ PerformError(w) \/ WriteCleared(w) \/ WriteMemory(w) \/ NotBlocking(w)
             \/ NotStreaming(w) \/ Streaming(w)
    BY <1>0, <1>1, <2>3 DEF PerformError, WriteCleared, WriteMemory, NotBlocking, NotStreaming,
                            Streaming, TransferEnds, RequestRecord, AuthPhase
  <2>4. CASE \/ EndErrorReport(w) \/ FinishLoop(w) \/ LeaveLoop(w) \/ CleanupRequest(w)
             \/ CleanupEasy(w) \/ CleanupMulti(w)
    BY <1>0, <1>1, <2>4 DEF EndErrorReport, FinishLoop, LeaveLoop, CleanupRequest, CleanupEasy,
                            CleanupMulti, AuthPhase
  <2>5. CASE ReadMessage(w)
    <3>1. pc[w] = "output" /\ pc'[w] \in {"report", "ended"}
      BY <1>0, <2>5 DEF ReadMessage
    <3>2. UNCHANGED req \/ \E kind : req' = [req EXCEPT ![multiHandle].read = TRUE, ![w].kind = kind]
      BY <2>5 DEF ReadMessage
    <3>3. multiHandle = w
      BY <3>1 DEF HandlesInv, HandlesOf, Attached, OutputPhase
    <3>4. UNCHANGED req[w].status
      BY <1>0, <3>2, <3>3 DEF RequestRecord
    <3> QED
      BY <1>1, <3>1, <3>4 DEF AuthPhase
  <2> QED
    BY <1>4, <2>1, <2>2, <2>3, <2>4, <2>5 DEF Running
<1>5. CASE Returning(w)
  BY <1>0, <1>1, <1>5 DEF Returning, EndStream, BangAfterData, EndReport, AuthPhase, Outlets
<1>6. CASE Exiting(w)
  <2>1. pc[w] \in CancelRegion \cup {"exiting"} /\ pc'[w] \in {"exiting", "aborted"}
    BY <1>0, <1>6 DEF Exiting, Abort, Aborted, ExitThread, PthreadExit, CancelRegion
  <2>2. PICK x : req' = [req EXCEPT ![w].result = x]
    BY <1>6 DEF Exiting, Abort, Aborted, ExitThread, PthreadExit, AbortHandler
  <2> QED
    BY <1>0, <1>1, <2>1, <2>2 DEF RequestRecord, AuthPhase, CancelRegion
<1> QED
  BY <1>2, <1>3, <1>4, <1>5, <1>6 DEF Working

(* What [rest] leaves of a visit when it notes a server or a cookie.           *)
SameLogin(v) == UNCHANGED <<visit[v].login, visit[v].header>>

(* A worker that stays where it is keeps what is said of its login.            *)
LEMMA LoginKept ==
    ASSUME LoginInv, NEW v \in Workers, SameLogin(v),
           UNCHANGED <<pc[v], req[v].status, session>>,
           object' = object, UNCHANGED authToken \/ session # v
    PROVE  LoginOf(v)'
  BY DEF LoginInv, LoginOf, LoggedIn, SameLogin

(* A shared step of a worker keeps it.                                         *)
LEMMA WorkerLogin ==
    ASSUME TypeOK, FieldsOK, HandlesInv, LoginInv, NEW w \in Workers, Working(w),
           visit[w].login => pc[w] # "performed",
           UNCHANGED <<authToken, session>>, \A v \in Workers : SameLogin(v)
    PROVE  LoginInv'
<1>1. HandlesOf(w) /\ object' = object
  BY WorkerPatch DEF HandlesInv
<1>2. \A v \in Workers \ {w} : UNCHANGED <<pc[v], req[v]>>
  BY <1>1, OthersRecords
<1>3. \A v \in Workers \ {w} : LoginOf(v)'
  BY <1>1, <1>2, LoginKept
<1>4. LoginOf(w)'
  <2> USE DEF LoginInv, LoginOf, SameLogin
  <2>1. visit'[w].login = visit[w].login /\ visit'[w].header = visit[w].header
    OBVIOUS
  <2>2. visit[w].login => /\ pc'[w] \notin Over => session' = w
                          /\ pc'[w] \notin {"unborn", "output", "report", "data"}
    BY WorkerStatus
  <2>3. pc'[w] \notin AuthPhase \cup {"unborn"}
    BY WorkerStatus
  <2>4. pc'[w] \in RequestPhase => req'[w].status = "none"
    BY WorkerStatus DEF RequestPhase, Starting, CancelRegion
  <2>5. ~LoggedIn(w)' \/ LoggedIn(w)
    BY WorkerStatus, NamesAssumption DEF LoggedIn
  <2> QED
    BY <1>1, <2>1, <2>2, <2>3, <2>4, <2>5, WorkerStatus DEF AuthPhase
<1>5. session' # None => visit'[session'].login
  BY DEF LoginInv, FieldsOK, SameLogin
<1> QED
  BY <1>3, <1>4, <1>5 DEF LoginInv

(* So does each step of a login.                                               *)
LEMMA LoginLogin ==
    ASSUME TypeOK, FieldsOK, HandlesInv, LoginInv, NEW w \in Workers, LoginStep(w),
           visit' \in [Workers -> Visits], visit'[w].login = visit[w].login,
           \A v \in Workers \ {w} : SameLogin(v),
           UNCHANGED session,
           UNCHANGED visit[w].header \/ pc[w] \in RequestPhase,
           UNCHANGED authToken \/ StoreToken(w),
           StoreToken(w) /\ visit[w].header = "kept" => authToken' = w
    PROVE  LoginInv'
<1> USE DEF Step, Goto
<1>0. pc \in [Workers -> States] /\ req \in [Workers -> RequestRecord]
  BY DEF TypeOK
<1>1. /\ \A v \in Workers \ {w} : UNCHANGED <<pc[v], req[v]>>
      /\ UNCHANGED req[w].status \/ AuthBang(w) \/ BeginAuthError(w)
  BY LoginRecords
<1>2. object' = object
  BY LoginHandler
<1>3. pc[w] \notin Over
  BY DEF LoginStep, WriteCredentials, ReceiveHeader, KeepHeader, StreamHeader, LoginCleanup, ReadAuth,
         NoAuth, AuthBang, StoreToken, BeginAuthError, Performing, Over
<1>4. StoreToken(w) => session = w
  BY <1>3 DEF LoginInv, LoginOf, StoreToken, AuthPhase
<1>5. \A v \in Workers \ {w} : LoginOf(v)'
  BY <1>1, <1>2, <1>4, LoginKept
<1>6. visit[w].login => session = w
  BY <1>3 DEF LoginInv, LoginOf
<1>7. LoginOf(w)'
  <2> USE <1>0, <1>1, <1>2, <1>6 DEF LoginInv, LoginOf
  <2>1. CASE WriteCredentials(w) \/ ReceiveHeader(w) \/ KeepHeader(w) \/ StreamHeader(w)
    <3>1. pc[w] \in RequestPhase /\ pc'[w] \in RequestPhase /\ UNCHANGED req[w].status
      BY <2>1 DEF WriteCredentials, ReceiveHeader, KeepHeader, StreamHeader, Performing,
                  AuthBang, BeginAuthError, RequestPhase, Starting, CancelRegion
    <3>2. pc'[w] \notin AuthPhase \cup Over \cup {"output", "report", "data"}
      BY <2>1 DEF WriteCredentials, ReceiveHeader, KeepHeader, StreamHeader, Performing, AuthPhase, Over
    <3> QED
      BY <3>1, <3>2 DEF LoggedIn, Over
  <2>2. CASE LoginCleanup(w)
    <3>1. pc[w] = "performed" /\ pc'[w] = "auth" /\ visit[w].login /\ UNCHANGED req[w].status
      BY <2>2 DEF LoginCleanup, AuthBang, BeginAuthError
    <3> QED
      BY <3>1 DEF LoggedIn, RequestPhase, Over
  <2>3. CASE ReadAuth(w) \/ NoAuth(w)
    <3>1. pc[w] = "auth" /\ pc'[w] \in {"auth_bang", "dispose", "ended"} /\ UNCHANGED req[w].status
      BY <2>3 DEF ReadAuth, NoAuth, AuthBang, BeginAuthError
    <3> QED
      BY <3>1 DEF LoggedIn, AuthPhase, RequestPhase, Starting, CancelRegion, Over
  <2>4. CASE AuthBang(w)
    <3>1. pc[w] = "auth_bang" /\ pc'[w] \in {"auth_error", "auth_token"}
      BY <2>4 DEF AuthBang
    <3> QED
      BY <3>1 DEF AuthPhase, RequestPhase, Starting, CancelRegion, Over
  <2>5. CASE StoreToken(w)
    <3>1. pc[w] = "auth_token" /\ pc'[w] = "dispose" /\ UNCHANGED visit[w].header
      BY <2>5 DEF StoreToken, RequestPhase, Starting, CancelRegion
    <3> QED
      BY <2>5, <3>1 DEF LoggedIn, AuthPhase, RequestPhase, Starting, CancelRegion, Over
  <2>6. CASE BeginAuthError(w)
    <3>1. pc[w] = "auth_error" /\ pc'[w] = "status" /\ req'[w].status = "list"
      BY <2>6 DEF BeginAuthError, RequestRecord
    <3> QED
      BY <3>1 DEF LoggedIn, AuthPhase, RequestPhase, Starting, CancelRegion, Over
  <2> QED
    BY <2>1, <2>2, <2>3, <2>4, <2>5, <2>6 DEF LoginStep
<1>8. session' # None => visit'[session'].login
  BY DEF LoginInv, FieldsOK, SameLogin
<1> QED
  BY <1>5, <1>7, <1>8 DEF LoginInv

(* So does an init, which forgets the cookie and the session together.         *)
LEMMA InitLogins ==
    ASSUME Delays, TypeOK, FieldsOK, LoginInv, InitMessage
    PROVE  LoginInv'
<1>1. \A v \in Workers : pc[v] \in Over
  BY DEF InitMessage, InitUrl, InitStuck, InitLogin, InitLoginFails, MayStart, MayInit
<1>2. ASSUME session' = None, UNCHANGED <<pc, req, visit>> PROVE LoginInv'
  BY <1>1, <1>2, NamesAssumption DEF LoginInv, LoginOf, LoggedIn, FieldsOK
<1>3. ASSUME NEW w \in Workers, NEW s \in Servers, InitLogin(w, s) PROVE LoginInv'
  <2>1. session' = w /\ visit' = [visit EXCEPT ![w].login = TRUE]
    BY <1>3 DEF InitLogin
  <2>2. /\ visit'[w].login /\ visit'[w].header = visit[w].header
        /\ \A v \in Workers \ {w} : visit'[v] = visit[v]
    BY <2>1 DEF FieldsOK, Visits
  <2>3. pc[w] = "unborn" /\ \A v \in Workers : pc'[v] = IF v = w THEN "authorise" ELSE pc[v]
    BY <1>3 DEF InitLogin, MayStart, Goto, TypeOK
  <2>4. \A v \in Workers : req'[v].status = req[v].status
    <3>1. PICK o : req' = [req EXCEPT ![w].asked = o]
      BY <1>3 DEF InitLogin
    <3> QED
      BY <3>1 DEF TypeOK, RequestRecord
  <2>5. req[w].status = "none"
    BY <2>3 DEF LoginInv, LoginOf
  <2>6. LoginOf(w)'
    BY <2>1, <2>2, <2>3, <2>4, <2>5 DEF LoginOf, LoggedIn, AuthPhase, Over
  <2>7. ASSUME NEW v \in Workers \ {w} PROVE LoginOf(v)'
    BY <1>1, <2>1, <2>2, <2>3, <2>4, <2>7 DEF LoginInv, LoginOf, LoggedIn
  <2> QED
    BY <2>1, <2>2, <2>6, <2>7 DEF LoginInv
<1> QED
  BY <1>2, <1>3 DEF InitMessage, InitUrl, InitStuck, InitLoginFails

(* So do the other messages.                                                   *)
LEMMA HandlerLogins ==
    ASSUME TypeOK, FieldsOK, LoginInv,
           \/ Message /\ UNCHANGED restVars
           \/ \E w \in Workers, r \in Requests :
                 RestCommand(w, r) \/ (CommandFails(w, r) /\ UNCHANGED restVars)
           \/ RestFrees
    PROVE  LoginInv'
<1> USE DEF init, restVars
<1>1. CASE Message /\ UNCHANGED restVars
  <2>1. object' = object
    BY <1>1, MessageKeepsTexts
  <2>2. CASE UNCHANGED <<pc, req>>
    BY <1>1, <2>1, <2>2, LoginKept DEF LoginInv, SameLogin
  <2>3. ASSUME NEW w \in Workers, pc[w] \in CancelRegion, Aborted(w) PROVE LoginInv'
    <3>1. PICK x : req' = [req EXCEPT ![w].result = x]
      BY <2>3 DEF Aborted
    <3>2. /\ \A v \in Workers : pc'[v] = IF v = w THEN "aborted" ELSE pc[v]
          /\ \A v \in Workers : req'[v].status = req[v].status
      BY <2>3, <3>1 DEF Aborted, Goto, TypeOK, RequestRecord
    <3>3. \A v \in Workers \ {w} : LoginOf(v)'
      BY <1>1, <2>1, <3>2, LoginKept DEF SameLogin
    <3>4. req[w].status = "none"
      BY <2>3 DEF LoginInv, LoginOf, RequestPhase
    <3>5. LoginOf(w)'
      BY <1>1, <3>2, <3>4 DEF LoginInv, LoginOf, LoggedIn, AuthPhase, RequestPhase, Starting,
                              CancelRegion, Over
    <3> QED
      BY <1>1, <3>3, <3>5 DEF LoginInv
  <2>4. ASSUME NEW w \in Workers, HandlerStarts(w) PROVE FALSE
    BY <1>1, <2>4, MessageKeepsTexts DEF HandlerStarts, MayStart, Goto, TypeOK
  <2> QED
    BY <1>1, <2>2, <2>3, <2>4, HandlerEffect DEF Handler
<1>2. ASSUME NEW w \in Workers, NEW r \in Requests, RestCommand(w, r) PROVE LoginInv'
  <2>1. object' = object /\ UNCHANGED <<session, authToken>>
    BY <1>2 DEF RestCommand, Command
  <2>2. pc[w] = "unborn" /\ \A v \in Workers : pc'[v] = IF v = w THEN "created" ELSE pc[v]
    BY <1>2 DEF RestCommand, Command, MayStart, Goto, TypeOK
  <2>3. \A v \in Workers : req'[v].status = req[v].status
    BY <1>2 DEF RestCommand, Command, TypeOK, RequestRecord
  <2>4. \A v \in Workers : visit'[v].login = visit[v].login /\ visit'[v].header = visit[v].header
    BY <1>2 DEF RestCommand, FieldsOK, Visits
  <2>5. \A v \in Workers \ {w} : LoginOf(v)'
    BY <2>1, <2>2, <2>3, <2>4, LoginKept DEF SameLogin
  <2>6. LoginOf(w)'
    BY <2>2, <2>3, <2>4 DEF LoginInv, LoginOf, LoggedIn, AuthPhase, Over
  <2> QED
    BY <2>1, <2>4, <2>5, <2>6 DEF LoginInv, FieldsOK
<1>3. ASSUME NEW w \in Workers, NEW r \in Requests, CommandFails(w, r), UNCHANGED restVars
      PROVE  LoginInv'
  BY <1>3, LoginKept DEF CommandFails, patch, LoginInv, SameLogin
<1>4. CASE RestFrees
  BY <1>4 DEF RestFrees, DeleteFrees, LoginInv, LoginOf
<1> QED
  BY <1>1, <1>2, <1>3, <1>4

(* And so does every step.                                                     *)
LEMMA LoginInvStep ==
    ASSUME Delays, TypeOK, FieldsOK, FieldsOK', HandlesInv, LoginInv, [RestNext]_<<vars, restVars>>
    PROVE  LoginInv'
<1> USE DEF init, restVars
<1>1. CASE RestHandler
  BY <1>1, InitLogins, HandlerLogins DEF RestHandler, InitMessage
<1>2. ASSUME NEW w \in Workers, Working(w), visit[w].login => pc[w] # "performed", UNCHANGED restVars
      PROVE  LoginInv'
  BY <1>2, WorkerLogin DEF SameLogin
<1>3. ASSUME NEW w \in Workers, RestPrepare(w) PROVE LoginInv'
  <2>1. Working(w) /\ pc[w] = "prepare" /\ UNCHANGED <<authToken, session>>
    BY <1>3 DEF RestPrepare, Prepare, Working, Running, Step
  <2>2. \A v \in Workers : SameLogin(v)
    BY <1>3 DEF RestPrepare, SameLogin, FieldsOK, Visits
  <2> QED
    BY <2>1, <2>2, WorkerLogin
<1>4. ASSUME NEW w \in Workers, LoginStep(w) PROVE LoginInv'
  <2>1. /\ UNCHANGED session
        /\ UNCHANGED authToken \/ StoreToken(w)
        /\ StoreToken(w) /\ visit[w].header = "kept" => authToken' = w
    BY <1>4 DEF LoginStep, WriteCredentials, ReceiveHeader, KeepHeader, StreamHeader, LoginCleanup,
                ReadAuth, NoAuth, AuthBang, StoreToken, BeginAuthError
  <2>2. /\ visit'[w].login = visit[w].login /\ \A v \in Workers \ {w} : SameLogin(v)
        /\ UNCHANGED visit[w].header \/ pc[w] \in RequestPhase
    <3>1. CASE WriteCredentials(w)
      BY <3>1 DEF WriteCredentials, SameLogin, FieldsOK, Visits
    <3>2. CASE ReceiveHeader(w) \/ KeepHeader(w) \/ StreamHeader(w)
      <4>1. pc[w] \in RequestPhase /\ \E h : visit' = [visit EXCEPT ![w].header = h]
        BY <3>2 DEF ReceiveHeader, KeepHeader, StreamHeader, Performing, Step, RequestPhase, CancelRegion
      <4> QED
        BY <4>1 DEF SameLogin, FieldsOK, Visits
    <3>3. CASE UNCHANGED visit
      BY <3>3 DEF SameLogin
    <3> QED
      BY <1>4, <3>1, <3>2, <3>3 DEF LoginStep, LoginCleanup, ReadAuth, NoAuth, AuthBang, StoreToken,
                                    BeginAuthError
  <2>3. visit' \in [Workers -> Visits]
    BY DEF FieldsOK
  <2> QED
    BY <1>4, <2>1, <2>2, <2>3, LoginLogin
<1>5. ASSUME NEW w \in Workers, RestRunning(w) \/ RestLocking(w) PROVE LoginInv'
  <2>1. ASSUME Shared(w), Running(w) \/ Locking(w) PROVE LoginInv'
    BY <1>2, <2>1 DEF Shared, Working
  <2> QED
    BY <1>3, <1>4, <1>5, <2>1 DEF RestRunning, RestLocking, LoginStep
<1>6. ASSUME NEW w \in Workers, Libcurl(w) \/ TimesOut(w) \/ Returning(w) \/ Exiting(w),
             UNCHANGED restVars
      PROVE  LoginInv'
  <2>1. pc[w] # "performed"
    BY <1>6 DEF Libcurl, Receive, ServerAnswers, ServerRefuses, ConnectionFails, TimesOut, Performing,
                Returning, EndStream, BangAfterData, EndReport, Exiting, Abort, ExitThread,
                PthreadExit, Step, CancelRegion
  <2> QED
    BY <1>2, <1>6, <2>1 DEF Working
<1>7. CASE UNCHANGED <<vars, restVars>>
  BY <1>7, LoginKept DEF vars, patch, LoginInv, SameLogin
<1>8. ASSUME NEW w \in Workers, ReceiveHeader(w) PROVE LoginInv'
  BY <1>4, <1>8 DEF LoginStep
<1> QED
  BY <1>1, <1>5, <1>6, <1>7, <1>8 DEF RestNext, Idle

(* If the patch waits for the thread to end, the cookie of a login that has    *)
(* reported its success goes into every request until the next init, also      *)
(* when requests fail, are cancelled or are refused in between: the cookie is  *)
(* kept after the report, but before the thread is over.                       *)
THEOREM CookiesGoAlong == ASSUME Delays PROVE RestSpec => CookieIncluded
<1>1. RestInit => LoginInv
  BY NamesAssumption
  DEF RestInit, Init, Blank, NoVisit, LoginInv, LoginOf, LoggedIn, AuthPhase, Over
<1>2. /\ TypeOK /\ FieldsOK /\ FieldsOK' /\ HandlesInv /\ LoginInv /\ [RestNext]_<<vars, restVars>>
      => LoginInv'
  BY LoginInvStep
<1>3. ASSUME FieldsOK, OneRequestAtATime, LoginInv,
             NEW v \in Workers, NEW w \in Workers, object = "live", RestPrepare(w), LoggedIn(v)
      PROVE  visit'[w].sent = v
  <2>1. pc[w] = "prepare" /\ visit' = [visit EXCEPT ![w].sent = authToken]
    BY <1>3 DEF RestPrepare, Prepare, Step
  <2>2. pc[v] \notin {"auth_token", "auth_error"}
    BY <1>3, <2>1 DEF OneRequestAtATime, Over
  <2>3. authToken = v
    BY <1>3, <2>2 DEF LoginInv, LoginOf
  <2> QED
    BY <1>3, <2>1, <2>3 DEF FieldsOK, Visits
<1>4. FieldsOK /\ OneRequestAtATime /\ LoginInv =>
          [\A v, w \in Workers :
              object = "live" /\ RestPrepare(w) /\ LoggedIn(v) => visit'[w].sent = v]_<<vars, restVars>>
  BY <1>3
<1> QED
  BY <1>1, <1>2, <1>4, RestTypeCorrect, FieldsInvariant, RestAlone, RestHandlesInvariant, PTL
  DEF RestSpec, CookieIncluded
=============================================================================
