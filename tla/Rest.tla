---------------------------------- MODULE Rest ----------------------------------
(***************************************************************************)
(* [rest] with its base URL and its cookie (src/rest.c).  An init message  *)
(* with four arguments starts a thread that logs in: rest_get_auth_token,  *)
(* a second way through the machinery of Ctw, with an end of its own.  The *)
(* cookie of the answer goes into every request that is prepared later.    *)
(***************************************************************************)
EXTENDS Ctw

CONSTANTS
    Servers,  \* the servers that base URLs name
    Inits     \* which init messages the patch sends: empty, with a base URL, with a
              \* number in its place, with a login

ASSUME RestAssumption ==
    /\ None \notin Servers
    /\ Inits \subseteq {"empty", "url", "number", "login"}
    /\ "init" \notin Messages

VARIABLES
    baseUrl,     \* server whose name base_url points to, or None (NULL)
    baseUrlLen,  \* base_url_len > 0; FALSE with a server: freed memory
    authToken,   \* worker whose login brought the cookie; None: auth_token_len is 0
    session,     \* history: worker of the last init if it was a login, or None
    visit        \* what each worker has to do with servers and cookies

init     == <<baseUrl, baseUrlLen, authToken, session>>
restVars == <<init, visit>>

NoVisit == [login |-> FALSE, server |-> None, sent |-> None, header |-> "none"]

RestInit ==
    /\ Init
    /\ baseUrl = None /\ baseUrlLen = FALSE /\ authToken = None /\ session = None
    /\ visit = [w \in Workers |-> NoVisit]

--------------------------------------------------------------------------------
(* Messages                                                                    *)

(* rest_command: the URL is made of the base URL, if the pointer is not NULL   *)
RestCommand(w, r) ==
    /\ Command(w, r)
    /\ visit' = [visit EXCEPT ![w].server = baseUrl]
    /\ UNCHANGED init

(* rest_free_inner, on the idle object                                         *)
Forget ==
    /\ parametersLen' = FALSE
    /\ settings' = settings \cap {"timeout", "sslcheck"}
    /\ clearCb' = FALSE
    /\ UNCHANGED <<mode, exitThread, handles, object, handler, cancelled, sysLock>>

MayInit == /\ MayHandle /\ Unlocked
           /\ Delays => \A v \in Workers : pc[v] \in Over

BugInitKeepsToken(s) ==
    /\ (IF s = None THEN "empty" ELSE "url") \in Inits
    /\ MayInit /\ Forget
    /\ baseUrl' = (IF s = None THEN baseUrl ELSE s) /\ baseUrlLen' = (s # None)
    /\ session' = None
    /\ UNCHANGED <<locked, parameters, thread, pc, req, visit, authToken>>

(* rest_init with a base URL, or (None) without argument: the text is freed,   *)
(* but the pointer to it stays                                                 *)
InitUrl(s) ==
    /\ (IF s = None THEN "empty" ELSE "url") \in Inits
    /\ MayInit /\ Forget
    /\ baseUrl' = (IF s = None THEN baseUrl ELSE s) /\ baseUrlLen' = (s # None)
    /\ authToken' = None /\ session' = None
    /\ UNCHANGED <<locked, parameters, thread, pc, req, visit>>

(* ctw_set_param takes sys_lock to complain about a URL that is no symbol: the *)
(* handler waits for the lock under which it runs.  With four arguments the    *)
(* object has been locked before.                                              *)
InitStuck ==
    /\ "number" \in Inits /\ MayInit
    /\ handler' = "stuck" /\ Take
    /\ locked' \in BOOLEAN
    /\ parametersLen' = FALSE /\ clearCb' = FALSE
    /\ settings' = settings \cap {"timeout", "sslcheck"}
    /\ baseUrlLen' = FALSE /\ authToken' = None /\ session' = None
    /\ UNCHANGED <<mode, exitThread, handles, object, cancelled, thread, parameters, pc, req,
                   baseUrl, visit>>

SetLogin(s) == baseUrl' = s /\ baseUrlLen' = TRUE /\ authToken' = None

(* rest_init with a base URL, a path, a name and a password                    *)
InitLogin(w, s) ==
    /\ "login" \in Inits /\ MayStart(w) /\ Forget /\ SetLogin(s)
    /\ session' = w
    /\ locked' = TRUE /\ thread' = w
    /\ Goto(w, "authorise")
    /\ visit' = [visit EXCEPT ![w].login = TRUE]
    /\ req' = [req EXCEPT ![w].asked = settings']
    /\ UNCHANGED parameters

InitLoginFails(w, s) ==
    /\ "login" \in Inits /\ "thread" \in Faults
    /\ MayStart(w) /\ Forget /\ SetLogin(s)
    /\ session' = None
    /\ UNCHANGED <<locked, parameters, thread, pc, req, visit>>

(* rest_free: the strings of [rest] go as well                                 *)
RestFrees ==
    /\ DeleteFrees
    /\ baseUrlLen' = FALSE /\ authToken' = None
    /\ UNCHANGED <<baseUrl, session, visit>>

--------------------------------------------------------------------------------
(* rest_get_auth_token                                                         *)

BugLengthForgotten(w) ==
    /\ Step(w, "authorise", "created")
    /\ parameters' = w
    /\ req' = [req EXCEPT ![w].verb = "POST"]
    /\ visit' = [visit EXCEPT ![w].server = baseUrl]
    /\ UNCHANGED <<locked, flags, handles, parametersLen, patch, settings, sysLock, init>>

(* the worker writes what a command's handler writes for other requests        *)
WriteCredentials(w) ==
    /\ Step(w, "authorise", "created")
    /\ parameters' = w /\ parametersLen' = TRUE
    /\ req' = [req EXCEPT ![w].verb = "POST"]
    /\ visit' = [visit EXCEPT ![w].server = baseUrl]
    /\ UNCHANGED <<locked, flags, handles, patch, settings, sysLock, init>>

(* ctw_prepare, for every request: the cookie is sent if there is one          *)
RestPrepare(w) ==
    /\ Prepare(w)
    /\ visit' = [visit EXCEPT ![w].sent = authToken]
    /\ UNCHANGED init

(* the Set-Cookie line of the answer comes through ctw_write_mem_cb too, before *)
(* the body                                                                    *)
ReceiveHeader(w) ==
    /\ Performing(w) /\ Goto(w, "callback")
    /\ visit[w].login /\ visit[w].header = "none" /\ req[w].received = 0
    /\ visit' = [visit EXCEPT ![w].header = "arriving"]
    /\ UNCHANGED <<locked, flags, handles, body, patch, settings, sysLock, req, init>>

Arriving(w) == visit[w].header = "arriving" /\ pc[w] \in {"callback", "mode", "stream"}

(* ctw_write_mem, into out_header                                              *)
KeepHeader(w) ==
    /\ Arriving(w) /\ Step(w, "callback", "perform") /\ ~clearCb /\ mode = "blocking"
    /\ visit' = [visit EXCEPT ![w].header = "kept"]
    /\ UNCHANGED <<locked, flags, handles, body, patch, settings, sysLock, req, init>>

(* ctw_write_stream: in streaming mode the line goes to the data outlet        *)
StreamHeader(w) ==
    /\ Arriving(w) /\ Step(w, "stream", "streaming") /\ sysLock = None /\ sysLock' = w
    /\ visit' = [visit EXCEPT ![w].header = "streamed"]
    /\ UNCHANGED <<locked, flags, handles, body, patch, settings, req, init>>

BugLoginLocks(w) ==
    /\ visit[w].login /\ Step(w, "performed", "auth")
    /\ parametersLen' = FALSE
    /\ UNCHANGED <<locked, flags, handles, parameters, patch, settings, sysLock, req, restVars>>

(* ctw_cleanup_request opens the object; what follows reads its fields         *)
LoginCleanup(w) ==
    /\ visit[w].login /\ Step(w, "performed", "auth")
    /\ Unlock
    /\ UNCHANGED <<flags, handles, parameters, patch, settings, sysLock, req, restVars>>

--------------------------------------------------------------------------------
(* rest_process_auth_data                                                      *)

(* is the status code that the easy handle gives 2xx?                          *)
Success(e) ==
    IF e \in Workers /\ req[e].result = "ok" THEN {TRUE}
    ELSE IF e \in Workers /\ req[e].result = "http_error" THEN {FALSE}
    ELSE BOOLEAN

BugAuthLeaks(w) ==
    /\ pc[w] = "auth" /\ HasMessage(multiHandle)
    /\ \E success \in Success(easyHandle) :
          /\ Goto(w, IF success THEN "auth_bang" ELSE "ended")
          /\ req' = [req EXCEPT ![multiHandle].read = TRUE,
                ![w].kind = IF req[multiHandle].result = "curl_error" THEN "list" ELSE "bang"]
    /\ UNCHANGED <<locked, flags, handles, body, patch, settings, sysLock, restVars>>

(* a status other than 2xx is not reported                                     *)
ReadAuth(w) ==
    /\ pc[w] = "auth" /\ HasMessage(multiHandle)
    /\ \E success \in Success(easyHandle) :
          /\ Goto(w, IF success THEN "auth_bang" ELSE "dispose")
          /\ req' = [req EXCEPT ![multiHandle].read = TRUE,
                ![w].kind = IF req[multiHandle].result = "curl_error" THEN "list" ELSE "bang"]
    /\ UNCHANGED <<locked, flags, handles, body, patch, settings, sysLock, restVars>>

NoAuth(w) ==
    /\ Step(w, "auth", "ended") /\ ~HasMessage(multiHandle)
    /\ UNCHANGED <<locked, flags, handles, body, patch, settings, sysLock, req, restVars>>

(* outlet_bang without sys_lock                                                *)
AuthBang(w) ==
    /\ Step(w, "auth_bang", IF req[w].kind = "list" THEN "auth_error" ELSE "auth_token")
    /\ req' = [req EXCEPT ![w].status = "bang"]
    /\ UNCHANGED <<locked, flags, handles, body, patch, settings, sysLock, restVars>>

BugTokenDropped(w) ==
    /\ Step(w, "auth_token", "dispose")
    /\ UNCHANGED <<locked, flags, handles, body, patch, settings, sysLock, req, restVars>>

(* rest_extract_token                                                          *)
StoreToken(w) ==
    /\ Step(w, "auth_token", "dispose")
    /\ authToken' = IF visit[w].header = "kept" THEN w ELSE authToken
    /\ UNCHANGED <<locked, flags, handles, body, patch, settings, sysLock, req,
                   baseUrl, baseUrlLen, session, visit>>

(* the error of a transfer that brought a 2xx status; the rest is as in Ctw    *)
BeginAuthError(w) ==
    /\ Step(w, "auth_error", "status") /\ sysLock = None /\ sysLock' = w
    /\ req' = [req EXCEPT ![w].status = "list"]
    /\ UNCHANGED <<locked, flags, handles, body, patch, settings, restVars>>

--------------------------------------------------------------------------------
(* The steps of a login and those it shares with other requests, sorted as in  *)
(* Ctw.                                                                        *)

(* KeepHeader and StreamHeader take a header line to where Ctw takes the body  *)
Shared(w) ==
    /\ pc[w] # "prepare"
    /\ visit[w].login => pc[w] # "performed"
    /\ Arriving(w) => pc'[w] \notin {"perform", "streaming"}
    /\ UNCHANGED restVars

RestRunning(w) ==
    \/ WriteCredentials(w) \/ RestPrepare(w) \/ KeepHeader(w)
    \/ LoginCleanup(w) \/ ReadAuth(w) \/ NoAuth(w) \/ AuthBang(w) \/ StoreToken(w)
    \/ Running(w) /\ Shared(w)

RestLocking(w) ==
    \/ StreamHeader(w) \/ BeginAuthError(w)
    \/ Locking(w) /\ Shared(w)

RestHandler ==
    \/ \E w \in Workers, r \in Requests :
          RestCommand(w, r) \/ (CommandFails(w, r) /\ UNCHANGED restVars)
    \/ \E s \in Servers \cup {None} : InitUrl(s)
    \/ InitStuck
    \/ \E w \in Workers, s \in Servers : InitLogin(w, s) \/ InitLoginFails(w, s)
    \/ Message /\ UNCHANGED restVars
    \/ RestFrees

RestNext ==
    \/ RestHandler
    \/ \E w \in Workers :
          \/ ReceiveHeader(w) \/ RestRunning(w) \/ RestLocking(w)
          \/ (Libcurl(w) \/ TimesOut(w) \/ Returning(w) \/ Exiting(w)) /\ UNCHANGED restVars
    \/ Idle /\ UNCHANGED restVars

RestSpec == RestInit /\ [][RestNext]_<<vars, restVars>>

(* As in Ctw, with the steps of a login.                                       *)
RestFairness ==
    LET all == <<vars, restVars>>
    IN  /\ WF_all(\/ (SignalCancel \/ RaiseExitThread \/ DeleteTestsLock \/ DeleteCancels)
                        /\ UNCHANGED restVars
                  \/ RestFrees)
        /\ \A w \in Workers :
               /\ WF_all(RestRunning(w)) /\ WF_all(Exiting(w) /\ UNCHANGED restVars)
               /\ SF_all(RestLocking(w))
               /\ SF_all(Returning(w) /\ UNCHANGED restVars)
               /\ SF_all(TimesOut(w) /\ UNCHANGED restVars)

RestFairSpec == RestSpec /\ RestFairness
=============================================================================
