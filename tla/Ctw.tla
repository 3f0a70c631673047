---------------------------------- MODULE Ctw ----------------------------------
(***************************************************************************)
(* The HTTP request machinery that [rest] and [oauth] share                *)
(* (src/inc/ctw.c) with the message handlers of [rest] that drive it       *)
(* (src/rest.c).  Every command starts a detached worker thread that runs  *)
(* ctw_exec against the fields of ONE object: Pd's thread writes them when *)
(* a message arrives, the worker reads them while it talks to libcurl, and *)
(* the only guards are the byte `locked` and Pd's own sys_lock.            *)
(*                                                                         *)
(* Pd runs message handlers while it holds sys_lock; a worker takes        *)
(* sys_lock to send something out of an outlet, and whatever the patch     *)
(* connected there runs inside that call: a handler may run re-entrantly   *)
(* on the worker thread.                                                   *)
(***************************************************************************)
EXTENDS Naturals, Sequences, FiniteSets

CONSTANTS
    Workers,    \* worker threads; one per accepted command, which bounds the run
    Pd,         \* the thread of Pure Data, as holder of sys_lock
    None,       \* NULL, and "nobody"
    MaxChunks,  \* bound: body chunks a server sends in one response
    Requests,   \* the commands the patch sends: records [verb, data]
    Messages,   \* the other selectors the patch sends
    Options,    \* the request options the patch sets and clears
    Faults,     \* what may fail around the code
    Windows,    \* compiled with _WIN32?
    Delays      \* does the patch wait for the thread to end before a new command?

ASSUME NamesAssumption ==
    /\ Pd \notin Workers
    /\ None \notin Workers
    /\ Pd # None
ASSUME InputsAssumption ==
    /\ MaxChunks \in Nat
    /\ Requests \subseteq [verb : {"GET", "PUT", "POST"}, data : BOOLEAN]
    /\ Messages \subseteq {"cancel", "mode", "settings", "init", "delete"}
    /\ Options \subseteq {"timeout", "sslcheck", "header", "file", "proxy"}
    /\ Faults \subseteq {"thread", "easy", "multi", "perform", "file", "memory", "server", "network"}
    /\ Windows \in BOOLEAN
    /\ Delays \in BOOLEAN

VARIABLES
    locked, mode, clearCb, exitThread,  \* flags of struct _ctw
    thread,                   \* the thread the object would cancel
    easyHandle, multiHandle,  \* worker whose handles the fields point to, or None
    parameters,               \* worker whose command wrote the text, or None (NULL)
    parametersLen,            \* parameters_len > 0; FALSE with a text: freed memory
    settings,                 \* options set in the object
    object,                   \* "live", or "freed" after [rest] is deleted
    sysLock,                  \* holder of sys_lock: None, Pd or a worker
    handler,                  \* next step of a handler that is not atomic
    cancelled,                \* workers whose cancellation was requested
    pc,                       \* control state of each worker
    easy, multi,              \* the curl handles each worker created
    req                       \* locals of each worker and its transfer in libcurl

flags   == <<mode, clearCb, exitThread>>
handles == <<easyHandle, multiHandle, easy, multi>>
body    == <<parameters, parametersLen>>
patch   == <<object, handler, cancelled, thread>>
vars    == <<locked, flags, handles, body, patch, settings, sysLock, pc, req>>

--------------------------------------------------------------------------------
(* Control states.  libcurl runs in CancelRegion, between                      *)
(* PTHREAD_CANCEL_ENABLE and PTHREAD_CANCEL_DISABLE.  The thread of a login    *)
(* (module Rest) begins in "authorise", and looks at its answer in "auth...".  *)

CancelRegion == {"perform", "callback", "mode", "stream", "streaming",
                 "error", "reporting", "finished", "last_error", "last_reporting", "leaving"}
Starting     == {"authorise", "created", "easy", "no_easy", "prepare"}
RequestPhase == Starting \cup CancelRegion \cup {"performed"}
OutputPhase  == {"output", "report", "data", "status", "dispose", "dispose_multi",
                 "auth", "auth_bang", "auth_token", "auth_error"}
Over         == {"unborn", "ended", "aborted"}
States       == RequestPhase \cup OutputPhase \cup Over \cup {"exiting"}

Outlets == {"streaming", "data", "status"}  \* inside outlet_symbol, _bang, _float, _list
Holding == Outlets \cup {"reporting", "last_reporting"}  \* between sys_lock and sys_unlock

(* what CURLOPT_READDATA is when the copy of an upload could not be allocated: *)
(* libcurl's own default, which ctw_read_mem_cb cannot read                    *)
Unset == "unset"

Blank == [verb |-> "GET", asked |-> {}, used |-> {}, body |-> None, toFile |-> FALSE,
          received |-> 0, mem |-> <<>>, shown |-> <<>>, result |-> "none",
          read |-> FALSE, kind |-> "none", status |-> "none"]

Init ==
    /\ locked = FALSE /\ mode = "blocking" /\ clearCb = FALSE /\ exitThread = FALSE
    /\ thread = None /\ easyHandle = None /\ multiHandle = None
    /\ parameters = None /\ parametersLen = FALSE /\ settings = {"sslcheck"} \cap Options
    /\ object = "live" /\ sysLock = None /\ handler = "none" /\ cancelled = {}
    /\ pc = [w \in Workers |-> "unborn"]
    /\ easy = [w \in Workers |-> "none"] /\ multi = [w \in Workers |-> "none"]
    /\ req = [w \in Workers |-> Blank]

(* Definitions named Bug... are mutants: what the definition that follows      *)
(* would be with a plausible mistake.  They are not part of the specification. *)
BugUnlockForgets == parametersLen' = FALSE /\ UNCHANGED locked
BugUnlockKeepsStrings == UNCHANGED parametersLen /\ locked' = FALSE

(* ctw_cleanup_request: frees the strings, then opens the object               *)
Unlock == parametersLen' = FALSE /\ locked' = FALSE

Goto(w, state) == pc' = [pc EXCEPT ![w] = state]
Step(w, from, to) == pc[w] = from /\ Goto(w, to)

--------------------------------------------------------------------------------
(* Messages.  They are handled one at a time, on Pd's thread or on the worker  *)
(* that is inside an outlet call.  A handler that finds the object locked, or  *)
(* its arguments wrong, posts to the console and changes nothing.              *)

MayHandle == /\ object = "live" /\ handler = "none"
             /\ \/ sysLock = None
                \/ sysLock \in Workers /\ pc[sysLock] \in Outlets

BugNoTest == TRUE

(* the test every command and every setting but the mode begins with           *)
Unlocked == ~locked

Take == sysLock' = IF sysLock = None THEN Pd ELSE sysLock
Give == sysLock' = IF sysLock = Pd THEN None ELSE sysLock

MayStart(w) == /\ MayHandle /\ Unlocked /\ pc[w] = "unborn"
               /\ Delays => \A v \in Workers : pc[v] \in Over

BugSelector(w, r) == parameters' = IF r.data THEN r.verb ELSE parameters

WriteParameters(w, r) == parameters' = IF r.data THEN w ELSE parameters

(* rest_command, ctw_thread_exec: only a command with data writes parameters   *)
Command(w, r) ==
    /\ MayStart(w)
    /\ locked' = TRUE
    /\ WriteParameters(w, r) /\ parametersLen' = (parametersLen \/ r.data)
    /\ thread' = w
    /\ Goto(w, "created")
    /\ req' = [req EXCEPT ![w].verb = r.verb, ![w].asked = settings]
    /\ UNCHANGED <<flags, handles, object, handler, cancelled, settings, sysLock>>

(* pthread_create fails: the strings are freed and the object unlocked         *)
CommandFails(w, r) ==
    /\ "thread" \in Faults
    /\ MayStart(w)
    /\ WriteParameters(w, r) /\ parametersLen' = FALSE
    /\ UNCHANGED <<locked, flags, handles, patch, settings, sysLock, pc, req>>

(* rest_timeout, rest_sslcheck, rest_header, rest_clear_headers, rest_file,    *)
(* rest_proxy: refused while locked                                            *)
ChangeSettings(o) ==
    /\ "settings" \in Messages /\ MayHandle /\ Unlocked
    /\ settings' \in {settings \cup {o}, settings \ {o}}
    /\ UNCHANGED <<locked, flags, handles, body, patch, sysLock, pc, req>>

(* rest_init: ctw_free on the idle object, which forgets headers, file, proxy  *)
(* and parameters and leaves timeout, sslcheck and mode                        *)
Reinit ==
    /\ "init" \in Messages /\ MayHandle /\ Unlocked
    /\ parametersLen' = FALSE
    /\ settings' = settings \cap {"timeout", "sslcheck"}
    /\ clearCb' = FALSE
    /\ UNCHANGED <<locked, mode, exitThread, handles, parameters, patch, sysLock, pc, req>>

(* rest_mode does not look at locked                                           *)
ChangeMode ==
    /\ "mode" \in Messages /\ MayHandle
    /\ mode' \in {"blocking", "streaming"} \ {mode}
    /\ UNCHANGED <<locked, clearCb, exitThread, handles, body, patch, settings, sysLock, pc, req>>

(* ctw_cancel: locked is tested first, the thread is signalled afterwards      *)
BeginCancel ==
    /\ "cancel" \in Messages /\ MayHandle /\ locked
    /\ handler' = "cancel" /\ Take
    /\ UNCHANGED <<locked, flags, handles, body, object, cancelled, thread, settings, pc, req>>

(* The end of a worker that pthread_cancel interrupts: the cleanup handler     *)
(* ctw_abort_request_thread, which takes the easy handle, and with it the      *)
(* message of the transfer, out of the multi handle.  sys_lock stays as it is. *)
Aborted(w) ==
    /\ Goto(w, "aborted")
    /\ locked' = FALSE
    /\ req' = [req EXCEPT ![w].result = IF locked THEN "none" ELSE @]
    /\ handler' = IF sysLock = w THEN "none" ELSE handler

(* pthread_cancel(common->thread).  Sent from an outlet of the worker that is  *)
(* to be cancelled, it takes effect before it returns.                         *)
CancelsItself == thread = sysLock /\ thread \in Workers /\ pc[thread] \in CancelRegion

SignalCancel ==
    /\ handler = "cancel" /\ ~Windows
    /\ IF CancelsItself
       THEN Aborted(thread) /\ UNCHANGED sysLock
       ELSE /\ handler' = "none" /\ Give
            /\ UNCHANGED <<locked, pc, req>>
    /\ cancelled' = cancelled \cup {thread}
    /\ UNCHANGED <<flags, handles, body, object, thread, settings>>

RaiseExitThread ==
    /\ handler = "cancel" /\ Windows
    /\ exitThread' = TRUE /\ handler' = "none" /\ Give
    /\ cancelled' = cancelled \cup {thread}
    /\ UNCHANGED <<locked, mode, clearCb, handles, body, object, thread, settings, pc, req>>

(* rest_free, called by Pd when the object or its patch is deleted             *)
BeginDelete ==
    /\ "delete" \in Messages /\ MayHandle /\ sysLock = None
    /\ clearCb' = TRUE /\ handler' = "delete" /\ Take
    /\ UNCHANGED <<locked, mode, exitThread, handles, body, object, cancelled, thread,
                   settings, pc, req>>

DeleteTestsLock ==
    /\ handler = "delete"
    /\ handler' = IF locked THEN "delete_cancel" ELSE "delete_free"
    /\ UNCHANGED <<locked, flags, handles, body, object, cancelled, thread, settings,
                   sysLock, pc, req>>

(* pthread_cancel does not end a thread on Windows (comment at ctw.c:68)       *)
DeleteCancels ==
    /\ handler = "delete_cancel" /\ handler' = "delete_free"
    /\ cancelled' = IF Windows THEN cancelled ELSE cancelled \cup {thread}
    /\ UNCHANGED <<locked, flags, handles, body, object, thread, settings, sysLock, pc, req>>

DeleteFrees ==
    /\ handler = "delete_free" /\ handler' = "none" /\ Give
    /\ object' = "freed" /\ parametersLen' = FALSE
    /\ UNCHANGED <<locked, flags, handles, parameters, cancelled, thread, settings, pc, req>>

--------------------------------------------------------------------------------
(* ctw_exec up to the transfer                                                 *)

InitEasy(w) ==
    /\ Step(w, "created", "easy")
    /\ \/ easyHandle' = w /\ easy' = [easy EXCEPT ![w] = "live"]
       \/ "easy" \in Faults /\ easyHandle' = None /\ UNCHANGED easy
    /\ UNCHANGED <<locked, flags, multiHandle, multi, body, patch, settings, sysLock, req>>

InitMulti(w) ==
    /\ Step(w, "easy", IF easyHandle = None THEN "no_easy" ELSE "prepare")
    /\ \/ multiHandle' = w /\ multi' = [multi EXCEPT ![w] = "live"]
       \/ "multi" \in Faults /\ multiHandle' = None /\ UNCHANGED multi
    /\ UNCHANGED <<locked, flags, easyHandle, easy, body, patch, settings, sysLock, req>>

(* "Cannot init curl." under sys_lock, then ctw_cleanup_request                *)
ReportNoCurl(w) ==
    /\ Step(w, "no_easy", "ended") /\ sysLock = None
    /\ Unlock
    /\ UNCHANGED <<flags, handles, parameters, patch, settings, sysLock, req>>

(* does a call succeed that may fail?                                          *)
Succeeds(fault) == IF fault \in Faults THEN BOOLEAN ELSE {TRUE}

(* ctw_prepare.  CURLOPT_POSTFIELDS takes the pointer as it is; an upload is   *)
(* copied when parameters_len is not zero.  Under sys_lock it reports that     *)
(* there is no memory for the copy, and that a file cannot be opened, which    *)
(* the outlet replaces.                                                        *)
Prepare(w) ==
    /\ Step(w, "prepare", "perform")
    /\ \E opened \in Succeeds("file"), copied \in Succeeds("memory") :
          LET upload == req[w].verb = "PUT" /\ parametersLen
          IN  /\ ("file" \in settings /\ ~opened) \/ (upload /\ ~copied) => sysLock = None
              /\ req' = [req EXCEPT
                    ![w].used = settings,
                    ![w].toFile = "file" \in settings /\ opened,
                    ![w].body = CASE req[w].verb = "POST" -> parameters
                                  [] upload -> IF copied THEN parameters ELSE Unset
                                  [] OTHER -> None]
    /\ UNCHANGED <<locked, flags, handles, body, patch, settings, sysLock>>

--------------------------------------------------------------------------------
(* ctw_libcurl_loop: what libcurl does inside curl_multi_perform, on           *)
(* common->multi_handle, and the callbacks it makes                            *)

Performing(w) == pc[w] = "perform" /\ multiHandle # None

(* a chunk of the body arrives: libcurl writes it to the file itself, or calls *)
(* ctw_write_mem_cb                                                            *)
Receive(w) ==
    /\ Performing(w) /\ req[w].received < MaxChunks
    /\ req' = [req EXCEPT ![w].received = @ + 1]
    /\ Goto(w, IF req[w].toFile THEN "perform" ELSE "callback")
    /\ UNCHANGED <<locked, flags, handles, body, patch, settings, sysLock>>

TransferEnds(w, result) ==
    /\ Goto(w, "finished")
    /\ req' = [req EXCEPT ![w].result = result]
    /\ UNCHANGED <<locked, flags, handles, body, patch, settings, sysLock>>

(* the server completes its response, with a 2xx status or another             *)
ServerAnswers(w) == Performing(w) /\ TransferEnds(w, "ok")
ServerRefuses(w) == Performing(w) /\ "server" \in Faults /\ TransferEnds(w, "http_error")
ConnectionFails(w) == Performing(w) /\ "network" \in Faults /\ TransferEnds(w, "curl_error")
BugTimeoutOfGet(w) ==
    /\ Performing(w) /\ "timeout" \in req[w].used /\ req[w].verb = "GET"
    /\ TransferEnds(w, "curl_error")

(* CURLOPT_TIMEOUT_MS expires                                                  *)
TimesOut(w) == Performing(w) /\ "timeout" \in req[w].used /\ TransferEnds(w, "curl_error")

(* ctw_write_mem_cb: a return value other than the size of the chunk makes     *)
(* libcurl end the transfer with CURLE_WRITE_ERROR.  mode is read twice.       *)
WriteCleared(w) == pc[w] = "callback" /\ clearCb /\ TransferEnds(w, "curl_error")

BugOverwrites(w) ==
    /\ Step(w, "callback", "perform") /\ ~clearCb /\ mode = "blocking"
    /\ req' = [req EXCEPT ![w].mem = <<req[w].received>>]
    /\ UNCHANGED <<locked, flags, handles, body, patch, settings, sysLock>>

WriteMemory(w) ==
    /\ Step(w, "callback", "perform") /\ ~clearCb /\ mode = "blocking"
    /\ req' = [req EXCEPT ![w].mem = Append(@, req[w].received)]
    /\ UNCHANGED <<locked, flags, handles, body, patch, settings, sysLock>>

(* no memory for the chunk, in ctw_write_mem or in ctw_write_stream            *)
WriteMemoryFails(w) ==
    /\ \/ pc[w] = "callback" /\ ~clearCb /\ mode = "blocking"
       \/ pc[w] = "stream"
    /\ "memory" \in Faults /\ sysLock = None
    /\ TransferEnds(w, "curl_error")

NotBlocking(w) ==
    /\ Step(w, "callback", "mode") /\ ~clearCb /\ mode # "blocking"
    /\ UNCHANGED <<locked, flags, handles, body, patch, settings, sysLock, req>>

NotStreaming(w) == pc[w] = "mode" /\ mode # "streaming" /\ TransferEnds(w, "curl_error")

Streaming(w) ==
    /\ Step(w, "mode", "stream") /\ mode = "streaming"
    /\ UNCHANGED <<locked, flags, handles, body, patch, settings, sysLock, req>>

(* ctw_write_stream: sys_lock, outlet_symbol, sys_unlock                       *)
BeginStream(w) ==
    /\ Step(w, "stream", "streaming") /\ sysLock = None /\ sysLock' = w
    /\ req' = [req EXCEPT ![w].shown = Append(@, req[w].received)]
    /\ UNCHANGED <<locked, flags, handles, body, patch, settings>>

BugStreamHolds(w) ==
    /\ Step(w, "streaming", "perform") /\ handler = "none"
    /\ UNCHANGED <<locked, flags, handles, body, patch, settings, sysLock, req>>

EndStream(w) ==
    /\ Step(w, "streaming", "perform") /\ handler = "none" /\ sysLock' = None
    /\ UNCHANGED <<locked, flags, handles, body, patch, settings, req>>

(* curl_multi_perform or curl_multi_poll returns an error: it is reported, and *)
(* the loop goes on as long as running is not 0.  The last curl_multi_poll may *)
(* fail when it is.                                                            *)
PerformError(w) ==
    /\ \/ Step(w, "perform", "error") /\ (multiHandle = None \/ "perform" \in Faults)
       \/ Step(w, "finished", "last_error") /\ ~exitThread /\ "perform" \in Faults
    /\ UNCHANGED <<locked, flags, handles, body, patch, settings, sysLock, req>>

BeginErrorReport(w) ==
    /\ Step(w, "error", "reporting") \/ Step(w, "last_error", "last_reporting")
    /\ sysLock = None /\ sysLock' = w
    /\ UNCHANGED <<locked, flags, handles, body, patch, settings, req>>

EndErrorReport(w) ==
    /\ Step(w, "reporting", "perform") \/ Step(w, "last_reporting", "leaving")
    /\ sysLock' = None
    /\ UNCHANGED <<locked, flags, handles, body, patch, settings, req>>

(* running is 0: the last curl_multi_poll, then the loop ends                  *)
FinishLoop(w) ==
    /\ Step(w, "finished", "leaving") /\ ~exitThread
    /\ UNCHANGED <<locked, flags, handles, body, patch, settings, sysLock, req>>

(* the end of ctw_perform, and PTHREAD_CANCEL_DISABLE                          *)
LeaveLoop(w) ==
    /\ Step(w, "leaving", "performed")
    /\ exitThread' = FALSE
    /\ UNCHANGED <<locked, mode, clearCb, handles, body, patch, settings, sysLock, req>>

--------------------------------------------------------------------------------
(* Cancellation as the worker sees it                                          *)

BugAbortLate(w) ==
    /\ ~Windows /\ w \in cancelled /\ pc[w] = "leaving"
    /\ Aborted(w)
    /\ UNCHANGED <<flags, handles, body, object, cancelled, thread, settings, sysLock>>

(* POSIX, asynchronous: anywhere in the region, whatever the worker holds      *)
Abort(w) ==
    /\ ~Windows /\ w \in cancelled /\ pc[w] \in CancelRegion
    /\ Aborted(w)
    /\ UNCHANGED <<flags, handles, body, object, cancelled, thread, settings, sysLock>>

(* Windows: exit_thread is tested after each curl_multi_perform; the worker    *)
(* calls the cleanup handler, then pthread_exit calls it a second time         *)
AbortHandler(w) ==
    /\ locked' = FALSE
    /\ exitThread' = (exitThread /\ ~locked)
    /\ req' = [req EXCEPT ![w].result = IF locked THEN "none" ELSE @]
    /\ UNCHANGED <<mode, clearCb, handles, body, patch, settings, sysLock>>

BugExitLate(w) ==
    /\ Windows /\ exitThread
    /\ Step(w, "finished", "exiting")
    /\ AbortHandler(w)

ExitThread(w) ==
    /\ Windows /\ exitThread
    /\ pc[w] \in {"perform", "finished"} /\ Goto(w, "exiting")
    /\ AbortHandler(w)

PthreadExit(w) == Step(w, "exiting", "aborted") /\ AbortHandler(w)

--------------------------------------------------------------------------------
(* After the transfer: ctw_cleanup_request unlocks the object, ctw_output      *)
(* reports the request                                                         *)

CleanupRequest(w) ==
    /\ Step(w, "performed", "output")
    /\ Unlock
    /\ UNCHANGED <<flags, handles, parameters, patch, settings, sysLock, req>>

BugKinds(m, e) == IF req[m].result = "curl_error" THEN {"list"} ELSE {"bang"}

(* what the result in the message and the status code that the easy handle     *)
(* gives amount to; a handle whose transfer has not completed may give any     *)
Kinds(m, e) ==
    IF req[m].result = "curl_error" THEN {"list"}
    ELSE IF e \in Workers /\ req[e].result = "ok" THEN {"bang"}
    ELSE IF e \in Workers /\ req[e].result = "http_error" THEN {"float"}
    ELSE {"bang", "float"}

HasMessage(m) == m \in Workers /\ multi[m] = "live" /\ req[m].result # "none" /\ ~req[m].read

(* curl_multi_info_read on common->multi_handle, the status code from          *)
(* common->easy_handle; without a message there is nothing to report           *)
ReadMessage(w) ==
    /\ pc[w] = "output"
    /\ IF HasMessage(multiHandle)
       THEN /\ Goto(w, "report")
            /\ \E kind \in Kinds(multiHandle, easyHandle) :
                  req' = [req EXCEPT ![multiHandle].read = TRUE, ![w].kind = kind]
       ELSE Goto(w, "ended") /\ UNCHANGED req
    /\ UNCHANGED <<locked, flags, handles, body, patch, settings, sysLock>>

(* sys_lock; the data of a successful request, if it is not in a file          *)
BeginReport(w) ==
    /\ pc[w] = "report" /\ sysLock = None /\ sysLock' = w
    /\ IF req[w].kind = "bang" /\ ~req[w].toFile
       THEN /\ Goto(w, "data")
            /\ req' = [req EXCEPT ![w].shown = @ \o req[w].mem]
       ELSE /\ Goto(w, "status")
            /\ req' = [req EXCEPT ![w].status = req[w].kind]
    /\ UNCHANGED <<locked, flags, handles, body, patch, settings>>

(* outlet_bang after outlet_symbol                                             *)
BangAfterData(w) ==
    /\ Step(w, "data", "status") /\ handler = "none"
    /\ req' = [req EXCEPT ![w].status = "bang"]
    /\ UNCHANGED <<locked, flags, handles, body, patch, settings, sysLock>>

BugReportHolds(w) ==
    /\ Step(w, "status", "dispose") /\ handler = "none"
    /\ UNCHANGED <<locked, flags, handles, body, patch, settings, sysLock, req>>

BugReportLeaks(w) ==
    /\ Step(w, "status", IF req[w].kind = "bang" THEN "dispose" ELSE "ended")
    /\ handler = "none" /\ sysLock' = None
    /\ UNCHANGED <<locked, flags, handles, body, patch, settings, req>>

EndReport(w) ==
    /\ Step(w, "status", "dispose") /\ handler = "none" /\ sysLock' = None
    /\ UNCHANGED <<locked, flags, handles, body, patch, settings, req>>

CleanupEasy(w) ==
    /\ Step(w, "dispose", "dispose_multi")
    /\ easy' = [v \in Workers |-> IF v = easyHandle THEN "cleaned" ELSE easy[v]]
    /\ UNCHANGED <<locked, flags, easyHandle, multiHandle, multi, body, patch, settings,
                   sysLock, req>>

BugNoBreak(w) ==
    /\ Step(w, "dispose_multi", "output")
    /\ multi' = [v \in Workers |-> IF v = multiHandle THEN "cleaned" ELSE multi[v]]
    /\ UNCHANGED <<locked, flags, easyHandle, multiHandle, easy, body, patch, settings,
                   sysLock, req>>

CleanupMulti(w) ==
    /\ Step(w, "dispose_multi", "ended")
    /\ multi' = [v \in Workers |-> IF v = multiHandle THEN "cleaned" ELSE multi[v]]
    /\ UNCHANGED <<locked, flags, easyHandle, multiHandle, easy, body, patch, settings,
                   sysLock, req>>

--------------------------------------------------------------------------------
(* every thread is over and nobody is in Pd: the patch may send no more        *)
Idle == /\ sysLock = None /\ handler = "none"
        /\ \A w \in Workers : pc[w] \in Over
        /\ UNCHANGED vars

(* the messages that are neither commands nor inits, up to the last step of a  *)
(* deletion                                                                    *)
Message ==
    \/ \E o \in Options : ChangeSettings(o)
    \/ ChangeMode
    \/ BeginCancel \/ SignalCancel \/ RaiseExitThread
    \/ BeginDelete \/ DeleteTestsLock \/ DeleteCancels

Handler ==
    \/ \E w \in Workers, r \in Requests : Command(w, r) \/ CommandFails(w, r)
    \/ Reinit \/ Message \/ DeleteFrees

Libcurl(w) == Receive(w) \/ ServerAnswers(w) \/ ServerRefuses(w) \/ ConnectionFails(w)

(* the steps in which a worker takes sys_lock                                  *)
Locking(w) == ReportNoCurl(w) \/ WriteMemoryFails(w) \/ BeginStream(w)
              \/ BeginErrorReport(w) \/ BeginReport(w)

(* the worker's own code                                                       *)
Running(w) ==
    \/ InitEasy(w) \/ InitMulti(w) \/ Prepare(w)
    \/ PerformError(w)
    \/ WriteCleared(w) \/ WriteMemory(w) \/ NotBlocking(w) \/ NotStreaming(w) \/ Streaming(w)
    \/ EndErrorReport(w) \/ FinishLoop(w) \/ LeaveLoop(w)
    \/ CleanupRequest(w) \/ ReadMessage(w)
    \/ CleanupEasy(w) \/ CleanupMulti(w)

(* the steps in which the patch returns from an outlet                         *)
Returning(w) == EndStream(w) \/ BangAfterData(w) \/ EndReport(w)

Exiting(w) == Abort(w) \/ ExitThread(w) \/ PthreadExit(w)

Next == \/ Handler
        \/ \E w \in Workers : \/ Libcurl(w) \/ TimesOut(w) \/ Locking(w)
                               \/ Running(w) \/ Returning(w) \/ Exiting(w)
        \/ Idle

Spec == Init /\ [][Next]_vars

(* A handler that has begun goes on, and so does a thread that is not waiting  *)
(* for the network.  Whoever waits for sys_lock gets it in the end: Pd gives   *)
(* it up in every cycle of its scheduler.  The patch does not loop for ever    *)
(* inside an outlet.  A timer that has expired stays expired until libcurl     *)
(* looks at it.                                                                *)
Fairness ==
    /\ WF_vars(SignalCancel \/ RaiseExitThread \/ DeleteTestsLock \/ DeleteCancels \/ DeleteFrees)
    /\ \A w \in Workers : /\ WF_vars(Running(w)) /\ WF_vars(Exiting(w))
                          /\ SF_vars(Locking(w)) /\ SF_vars(Returning(w)) /\ SF_vars(TimesOut(w))

FairSpec == Spec /\ Fairness
=============================================================================
