------------------------------- MODULE CtwProofs -------------------------------
(***************************************************************************)
(* Theorems about Ctw for every set of workers, every bound on the chunks, *)
(* every choice of messages, options and faults: for any patch, and for    *)
(* one that waits for the thread of a request to end before it sends the   *)
(* next command.                                                           *)
(***************************************************************************)
EXTENDS CtwProperties, TLAPS

--------------------------------------------------------------------------------
(* Type correctness.  A handler that signals the thread was begun while the    *)
(* object was locked, so that a thread is known: without this, the types are   *)
(* not inductive.                                                              *)

ThreadKnown ==
    (locked /\ handler # "stuck") \/ handler \in {"cancel", "delete_cancel"} => thread # None
TypeInv == TypeOK /\ ThreadKnown

Locals == [Workers -> RequestRecord]

(* Replacing a field of one worker's record by a value of its type keeps the   *)
(* type of all records.                                                        *)
LEMMA Update ==
    ASSUME NEW f \in Locals, NEW w \in Workers
    PROVE  /\ \A v \in {"GET", "PUT", "POST"}, o \in SUBSET Options :
                  [f EXCEPT ![w].verb = v, ![w].asked = o] \in Locals
           /\ \A o \in SUBSET Options, t \in BOOLEAN, b \in Workers \cup {None, Unset} :
                  [f EXCEPT ![w].used = o, ![w].toFile = t, ![w].body = b] \in Locals
           /\ \A n \in 0 .. MaxChunks : [f EXCEPT ![w].received = n] \in Locals
           /\ \A s \in Seq(0 .. MaxChunks) : /\ [f EXCEPT ![w].mem = s] \in Locals
                                             /\ [f EXCEPT ![w].shown = s] \in Locals
           /\ \A r \in {"none", "ok", "http_error", "curl_error"} :
                  [f EXCEPT ![w].result = r] \in Locals
           /\ \A k \in Kind : /\ [f EXCEPT ![w].kind = k] \in Locals
                              /\ [f EXCEPT ![w].status = k] \in Locals
           /\ [f EXCEPT ![w].read = TRUE] \in Locals
<1>1. ASSUME NEW v \in {"GET", "PUT", "POST"}, NEW o \in SUBSET Options
      PROVE  [f EXCEPT ![w].verb = v, ![w].asked = o] \in Locals
  <2>1. [f[w] EXCEPT !.verb = v, !.asked = o] \in RequestRecord
    BY DEF Locals, RequestRecord
  <2> QED
    BY <2>1 DEF Locals
<1>2. ASSUME NEW o \in SUBSET Options, NEW t \in BOOLEAN, NEW b \in Workers \cup {None, Unset}
      PROVE  [f EXCEPT ![w].used = o, ![w].toFile = t, ![w].body = b] \in Locals
  <2>1. [f[w] EXCEPT !.used = o, !.toFile = t, !.body = b] \in RequestRecord
    BY DEF Locals, RequestRecord
  <2> QED
    BY <2>1 DEF Locals
<1>3. ASSUME NEW n \in 0 .. MaxChunks PROVE [f EXCEPT ![w].received = n] \in Locals
  <2>1. [f[w] EXCEPT !.received = n] \in RequestRecord
    BY DEF Locals, RequestRecord
  <2> QED
    BY <2>1 DEF Locals
<1>4. ASSUME NEW s \in Seq(0 .. MaxChunks)
      PROVE  [f EXCEPT ![w].mem = s] \in Locals /\ [f EXCEPT ![w].shown = s] \in Locals
  <2>1. [f[w] EXCEPT !.mem = s] \in RequestRecord
    BY DEF Locals, RequestRecord
  <2>2. [f[w] EXCEPT !.shown = s] \in RequestRecord
    BY DEF Locals, RequestRecord
  <2> QED
    BY <2>1, <2>2 DEF Locals
<1>5. ASSUME NEW r \in {"none", "ok", "http_error", "curl_error"}
      PROVE  [f EXCEPT ![w].result = r] \in Locals
  <2>1. [f[w] EXCEPT !.result = r] \in RequestRecord
    BY DEF Locals, RequestRecord
  <2> QED
    BY <2>1 DEF Locals
<1>6. ASSUME NEW k \in Kind
      PROVE  [f EXCEPT ![w].kind = k] \in Locals /\ [f EXCEPT ![w].status = k] \in Locals
  <2>1. [f[w] EXCEPT !.kind = k] \in RequestRecord
    BY DEF Locals, RequestRecord
  <2>2. [f[w] EXCEPT !.status = k] \in RequestRecord
    BY DEF Locals, RequestRecord
  <2> QED
    BY <2>1, <2>2 DEF Locals
<1>7. [f EXCEPT ![w].read = TRUE] \in Locals
  <2>1. [f[w] EXCEPT !.read = TRUE] \in RequestRecord
    BY DEF Locals, RequestRecord
  <2> QED
    BY <2>1 DEF Locals
<1> QED
    BY <1>1, <1>2, <1>3, <1>4, <1>5, <1>6, <1>7

(* The initial state is well typed.                                            *)
LEMMA InitType == Init => TypeInv
<1> SUFFICES ASSUME Init PROVE TypeInv
    OBVIOUS
<1>1. Blank \in RequestRecord
    BY InputsAssumption DEF Blank, RequestRecord, Kind
<1> QED
    BY <1>1, InputsAssumption DEF Init, TypeInv, TypeOK, ThreadKnown, States, Over

(* The two ways a worker is cut short.                                         *)
LEMMA AbortedType ==
    ASSUME TypeInv, NEW w \in Workers, Aborted(w)
    PROVE  /\ pc' \in [Workers -> States] /\ req' \in Locals /\ locked' = FALSE
           /\ handler' \in {handler, "none"}
<1>1. req \in Locals /\ pc \in [Workers -> States]
    BY DEF TypeInv, TypeOK, Locals
<1>2. (IF locked THEN "none" ELSE req[w].result) \in {"none", "ok", "http_error", "curl_error"}
    BY <1>1 DEF Locals, RequestRecord
<1>3. req' \in Locals
    BY <1>1, <1>2, Update DEF Aborted
<1> QED
    BY <1>1, <1>3 DEF Aborted, Goto, States, Over

(* Messages keep the types.                                                    *)
LEMMA HandlerType == TypeInv /\ Handler => TypeInv'
<1> SUFFICES ASSUME TypeInv, Handler PROVE TypeInv'
    OBVIOUS
<1> USE NamesAssumption, InputsAssumption DEF TypeInv, ThreadKnown, flags, handles, body, patch
<1>1. ASSUME NEW w \in Workers, NEW r \in Requests, Command(w, r) PROVE TypeInv'
  <2>1. req' \in Locals
    <3>1. r.verb \in {"GET", "PUT", "POST"} /\ settings \in SUBSET Options /\ req \in Locals
      BY DEF TypeOK, Locals
    <3> QED
      BY <1>1, <3>1, Update DEF Command
  <2>2. pc' \in [Workers -> States]
    BY <1>1 DEF Command, Goto, TypeOK, States, RequestPhase, Starting
  <2> QED
    BY <1>1, <2>1, <2>2 DEF Command, WriteParameters, TypeOK, Locals
<1>2. ASSUME NEW w \in Workers, NEW r \in Requests, CommandFails(w, r) PROVE TypeInv'
  <2>1. parameters' \in Workers \cup {None} /\ parametersLen' \in BOOLEAN
    BY <1>2 DEF CommandFails, WriteParameters, TypeOK
  <2>2. UNCHANGED <<locked, flags, handles, patch, settings, sysLock, pc, req>>
    BY <1>2 DEF CommandFails
  <2> QED
    BY <2>1, <2>2 DEF TypeOK
<1>3. ASSUME NEW o \in Options, ChangeSettings(o) PROVE TypeInv'
    BY <1>3 DEF ChangeSettings, TypeOK
<1>4. CASE Reinit
  <2>1. parametersLen' \in BOOLEAN /\ clearCb' \in BOOLEAN /\ settings' \subseteq Options
    BY <1>4 DEF Reinit, TypeOK
  <2>2. UNCHANGED <<locked, mode, exitThread, handles, parameters, patch, sysLock, pc, req>>
    BY <1>4 DEF Reinit
  <2> QED
    BY <2>1, <2>2 DEF TypeOK
<1>5. CASE ChangeMode
    BY <1>5 DEF ChangeMode, TypeOK
<1>6. CASE BeginCancel
    BY <1>6 DEF BeginCancel, MayHandle, Take, TypeOK
<1>7. CASE SignalCancel
  <2>1. thread \in Workers
    BY <1>7 DEF SignalCancel, TypeOK
  <2>2. CASE CancelsItself
    <3>1. Aborted(thread) /\ UNCHANGED sysLock
      BY <1>7, <2>2 DEF SignalCancel
    <3> QED
      BY <1>7, <2>1, <3>1, AbortedType DEF SignalCancel, TypeOK, Locals
  <2>3. CASE ~CancelsItself
    BY <1>7, <2>1, <2>3 DEF SignalCancel, Give, TypeOK
  <2> QED
    BY <2>2, <2>3
<1>8. CASE RaiseExitThread
    BY <1>8 DEF RaiseExitThread, Give, TypeOK
<1>9. CASE BeginDelete
    BY <1>9 DEF BeginDelete, MayHandle, Take, TypeOK
<1>10. CASE DeleteTestsLock
    BY <1>10 DEF DeleteTestsLock, TypeOK
<1>11. CASE DeleteCancels
    BY <1>11 DEF DeleteCancels, TypeOK
<1>12. CASE DeleteFrees
    BY <1>12 DEF DeleteFrees, Give, TypeOK
<1> QED
    BY <1>1, <1>2, <1>3, <1>4, <1>5, <1>6, <1>7, <1>8, <1>9, <1>10, <1>11, <1>12 DEF Handler, Message

(* The end of a transfer.                                                      *)
LEMMA EndsType ==
    ASSUME TypeInv, NEW w \in Workers, NEW r \in {"ok", "http_error", "curl_error"},
           TransferEnds(w, r)
    PROVE  TypeInv'
<1>1. req \in Locals
    BY DEF TypeInv, TypeOK, Locals
<1>2. req' \in Locals
    BY <1>1, Update DEF TransferEnds
<1>3. pc' \in [Workers -> States]
    BY DEF TransferEnds, Goto, TypeInv, TypeOK, States, RequestPhase, CancelRegion
<1> QED
    BY <1>2, <1>3 DEF TransferEnds, TypeInv, TypeOK, ThreadKnown, Locals, flags, handles, body, patch

(* So do libcurl, the timer and the steps that take sys_lock.                  *)
LEMMA TransferType ==
    ASSUME TypeInv, NEW w \in Workers, Libcurl(w) \/ TimesOut(w) \/ Locking(w)
    PROVE  TypeInv'
<1> USE NamesAssumption, InputsAssumption DEF flags, handles, body, patch
<1>0. req \in Locals /\ req[w] \in RequestRecord /\ pc \in [Workers -> States]
    BY DEF TypeInv, TypeOK, Locals
<1>1. CASE Receive(w)
  <2>1. req[w].received + 1 \in 0 .. MaxChunks
    BY <1>0, <1>1 DEF Receive, RequestRecord
  <2>2. req' \in Locals
    BY <1>0, <1>1, <2>1, Update DEF Receive
  <2>3. pc' \in [Workers -> States]
    BY <1>0, <1>1 DEF Receive, Goto, States, RequestPhase, CancelRegion
  <2> QED
    BY <1>1, <2>2, <2>3 DEF Receive, TypeInv, TypeOK, ThreadKnown, Locals
<1>2. CASE ServerAnswers(w)
    BY <1>2, EndsType DEF ServerAnswers
<1>3. CASE ServerRefuses(w)
    BY <1>3, EndsType DEF ServerRefuses
<1>4. CASE ConnectionFails(w)
    BY <1>4, EndsType DEF ConnectionFails
<1>5. CASE TimesOut(w)
    BY <1>5, EndsType DEF TimesOut
<1>6. CASE WriteMemoryFails(w)
    BY <1>6, EndsType DEF WriteMemoryFails
<1>7. CASE ReportNoCurl(w)
  <2>1. pc' \in [Workers -> States]
    BY <1>0, <1>7 DEF ReportNoCurl, Step, Goto, States, Over
  <2> QED
    BY <1>7, <2>1 DEF ReportNoCurl, Unlock, TypeInv, TypeOK, ThreadKnown
<1>8. CASE BeginStream(w)
  <2>1. Append(req[w].shown, req[w].received) \in Seq(0 .. MaxChunks)
    BY <1>0 DEF RequestRecord
  <2>2. req' \in Locals
    BY <1>0, <1>8, <2>1, Update DEF BeginStream
  <2>3. pc' \in [Workers -> States]
    BY <1>0, <1>8 DEF BeginStream, Step, Goto, States, RequestPhase, CancelRegion
  <2> QED
    BY <1>8, <2>2, <2>3 DEF BeginStream, TypeInv, TypeOK, ThreadKnown, Locals
<1>9. CASE BeginErrorReport(w)
  <2>1. pc' \in [Workers -> States]
    BY <1>0, <1>9 DEF BeginErrorReport, Step, Goto, States, RequestPhase, CancelRegion
  <2> QED
    BY <1>9, <2>1 DEF BeginErrorReport, TypeInv, TypeOK, ThreadKnown
<1>10. CASE BeginReport(w)
  <2>1. req[w].shown \o req[w].mem \in Seq(0 .. MaxChunks) /\ req[w].kind \in Kind
    BY <1>0 DEF RequestRecord
  <2>2. req' \in Locals
    <3>1. CASE req[w].kind = "bang" /\ ~req[w].toFile
      <4>1. req' = [req EXCEPT ![w].shown = @ \o req[w].mem]
        BY <1>10, <3>1 DEF BeginReport
      <4> QED
        BY <1>0, <2>1, <4>1, Update
    <3>2. CASE ~(req[w].kind = "bang" /\ ~req[w].toFile)
      <4>1. req' = [req EXCEPT ![w].status = req[w].kind]
        BY <1>10, <3>2 DEF BeginReport
      <4> QED
        BY <1>0, <2>1, <4>1, Update
    <3> QED
      BY <3>1, <3>2
  <2>3. pc' \in [Workers -> States]
    BY <1>0, <1>10 DEF BeginReport, Goto, States, OutputPhase
  <2> QED
    BY <1>10, <2>2, <2>3 DEF BeginReport, TypeInv, TypeOK, ThreadKnown, Locals
<1> QED
    BY <1>1, <1>2, <1>3, <1>4, <1>5, <1>6, <1>7, <1>8, <1>9, <1>10 DEF Libcurl, Locking

(* A worker moves to another control state and changes no local data.          *)
LEMMA MoveType ==
    ASSUME TypeOK, NEW w \in Workers, NEW to \in States, Goto(w, to)
    PROVE  pc' \in [Workers -> States]
    BY DEF TypeOK, Goto

(* So do all other steps of a worker.                                          *)
LEMMA WorkerType ==
    ASSUME TypeInv, NEW w \in Workers, Running(w) \/ Returning(w) \/ Exiting(w)
    PROVE  TypeInv'
<1> USE NamesAssumption DEF flags, handles, body, patch, TypeInv, ThreadKnown, Step
<1>0. req \in Locals /\ req[w] \in RequestRecord
    BY DEF TypeOK, Locals
<1>1. /\ {"easy", "no_easy", "prepare", "perform", "mode", "stream"} \subseteq States
      /\ {"error", "last_error"} \subseteq States
      /\ {"leaving", "performed", "output", "report", "status", "dispose"} \subseteq States
      /\ {"dispose_multi", "ended", "exiting", "aborted"} \subseteq States
    BY DEF States, RequestPhase, Starting, CancelRegion, OutputPhase, Over
<1>2. CASE InitEasy(w)
    BY <1>1, <1>2, MoveType DEF InitEasy, TypeOK
<1>3. CASE InitMulti(w)
    BY <1>1, <1>3, MoveType DEF InitMulti, TypeOK
<1>4. CASE Prepare(w)
  <2>1. PICK t \in BOOLEAN, b \in {None, parameters, Unset} :
            req' = [req EXCEPT ![w].used = settings, ![w].toFile = t, ![w].body = b]
    BY <1>4 DEF Prepare
  <2>2. b \in Workers \cup {None, Unset} /\ settings \in SUBSET Options
    BY DEF TypeOK
  <2>3. req' \in Locals
    BY <1>0, <2>1, <2>2, Update
  <2> QED
    BY <1>1, <1>4, <2>3, MoveType DEF Prepare, TypeOK, Locals
<1>5. CASE PerformError(w)
    BY <1>1, <1>5, MoveType DEF PerformError, TypeOK
<1>6. CASE WriteCleared(w)
    BY <1>6, EndsType DEF WriteCleared
<1>7. CASE WriteMemory(w)
  <2>1. Append(req[w].mem, req[w].received) \in Seq(0 .. MaxChunks)
    BY <1>0 DEF RequestRecord
  <2>2. req' \in Locals
    BY <1>0, <1>7, <2>1, Update DEF WriteMemory
  <2> QED
    BY <1>1, <1>7, <2>2, MoveType DEF WriteMemory, TypeOK, Locals
<1>8. CASE NotBlocking(w)
    BY <1>1, <1>8, MoveType DEF NotBlocking, TypeOK
<1>9. CASE NotStreaming(w)
    BY <1>9, EndsType DEF NotStreaming
<1>10. CASE Streaming(w)
    BY <1>1, <1>10, MoveType DEF Streaming, TypeOK
<1>11. CASE EndErrorReport(w)
    BY <1>1, <1>11, MoveType DEF EndErrorReport, TypeOK
<1>12. CASE FinishLoop(w)
  <2>1. pc' \in [Workers -> States]
    BY <1>1, <1>12, MoveType DEF FinishLoop
  <2> QED
    BY <1>12, <2>1 DEF FinishLoop, TypeOK
<1>13. CASE LeaveLoop(w)
  <2>1. pc' \in [Workers -> States]
    BY <1>1, <1>13, MoveType DEF LeaveLoop
  <2>2. /\ exitThread' \in BOOLEAN
        /\ UNCHANGED <<locked, mode, clearCb, thread, easyHandle, multiHandle, easy, multi,
                       parameters, parametersLen, settings, object, handler, cancelled,
                       sysLock, req>>
    BY <1>13 DEF LeaveLoop
  <2> QED
    BY <2>1, <2>2 DEF TypeOK
<1>14. CASE CleanupRequest(w)
  <2>1. pc' \in [Workers -> States]
    BY <1>1, <1>14, MoveType DEF CleanupRequest
  <2>2. locked' \in BOOLEAN /\ parametersLen' \in BOOLEAN /\ (locked' => locked)
    BY <1>14 DEF CleanupRequest, Unlock
  <2>3. UNCHANGED <<flags, handles, parameters, patch, settings, sysLock, req>>
    BY <1>14 DEF CleanupRequest
  <2> QED
    BY <2>1, <2>2, <2>3 DEF TypeOK
<1>15. CASE ReadMessage(w) /\ HasMessage(multiHandle)
  <2>1. PICK kind \in Kinds(multiHandle, easyHandle) :
            req' = [req EXCEPT ![multiHandle].read = TRUE, ![w].kind = kind]
    BY <1>15 DEF ReadMessage
  <2>2. kind \in Kind
    BY DEF Kinds, Kind
  <2>3. [req EXCEPT ![multiHandle].read = TRUE] \in Locals
    BY <1>0, <1>15, Update DEF ReadMessage, HasMessage
  <2>4. req' \in Locals
    BY <2>1, <2>2, <2>3, Update
  <2>5. pc' \in [Workers -> States]
    BY <1>1, <1>15, MoveType DEF ReadMessage
  <2>6. UNCHANGED <<locked, flags, handles, body, patch, settings, sysLock>>
    BY <1>15 DEF ReadMessage
  <2> QED
    BY <2>4, <2>5, <2>6 DEF TypeOK, Locals
<1>16. CASE ReadMessage(w) /\ ~HasMessage(multiHandle)
    BY <1>1, <1>16, MoveType DEF ReadMessage, TypeOK
<1>17. CASE CleanupEasy(w)
    BY <1>1, <1>17, MoveType DEF CleanupEasy, TypeOK
<1>18. CASE CleanupMulti(w)
    BY <1>1, <1>18, MoveType DEF CleanupMulti, TypeOK
<1>19. CASE EndStream(w)
    BY <1>1, <1>19, MoveType DEF EndStream, TypeOK
<1>20. CASE BangAfterData(w)
  <2>1. req' \in Locals
    BY <1>0, <1>20, Update DEF BangAfterData, Kind
  <2> QED
    BY <1>1, <1>20, <2>1, MoveType DEF BangAfterData, TypeOK, Locals
<1>21. CASE EndReport(w)
    BY <1>1, <1>21, MoveType DEF EndReport, TypeOK
<1>22. CASE Abort(w)
  <2>1. /\ pc' \in [Workers -> States] /\ req' \in Locals /\ locked' = FALSE
        /\ handler' \in {handler, "none"}
    BY <1>22, AbortedType DEF Abort
  <2>2. UNCHANGED <<flags, handles, body, object, cancelled, thread, settings, sysLock>>
    BY <1>22 DEF Abort
  <2>3. handler' \in {"none", "cancel", "delete", "delete_cancel", "delete_free", "stuck"}
    BY <2>1 DEF TypeOK
  <2>4. TypeOK'
    BY <2>1, <2>2, <2>3 DEF TypeOK, Locals
  <2>5. ThreadKnown'
    BY <2>1, <2>2 DEF ThreadKnown
  <2> QED
    BY <2>4, <2>5
<1>23. ASSUME AbortHandler(w) 
      PROVE  /\ req' \in Locals /\ exitThread' \in BOOLEAN /\ locked' = FALSE
             /\ UNCHANGED <<mode, clearCb, handles, body, patch, settings, sysLock>>
  <2>1. (IF locked THEN "none" ELSE req[w].result) \in {"none", "ok", "http_error", "curl_error"}
    BY <1>0 DEF RequestRecord
  <2> QED
    BY <1>0, <1>23, <2>1, Update DEF AbortHandler
<1>24. CASE ExitThread(w)
  <2>1. AbortHandler(w) /\ pc' \in [Workers -> States]
    BY <1>1, <1>24, MoveType DEF ExitThread
  <2> QED
    BY <1>23, <2>1 DEF TypeOK, Locals
<1>25. CASE PthreadExit(w)
  <2>1. AbortHandler(w) /\ pc' \in [Workers -> States]
    BY <1>1, <1>25, MoveType DEF PthreadExit
  <2> QED
    BY <1>23, <2>1 DEF TypeOK, Locals
<1> QED
    BY <1>2, <1>3, <1>4, <1>5, <1>6, <1>7, <1>8, <1>9, <1>10, <1>11, <1>12, <1>13, <1>14,
       <1>15, <1>16, <1>17, <1>18, <1>19, <1>20, <1>21, <1>22, <1>24, <1>25
       DEF Running, Returning, Exiting

(* And so does every step.                                                     *)
LEMMA TypeStep == TypeInv /\ [Next]_vars => TypeInv'
<1> SUFFICES ASSUME TypeInv, [Next]_vars PROVE TypeInv'
    OBVIOUS
<1>1. CASE UNCHANGED vars
    BY <1>1 DEF vars, flags, handles, body, patch, TypeInv, TypeOK, ThreadKnown
<1>2. CASE Next
    BY <1>1, <1>2, HandlerType, TransferType, WorkerType DEF Next, Idle
<1> QED
    BY <1>1, <1>2

(* Every reachable state is well typed: in particular, a worker that reads one *)
(* of the handle fields of the object finds NULL or a handle that was created, *)
(* and a handler that signals the thread has a thread to signal.               *)
THEOREM TypeCorrect == Spec => []TypeOK
<1>1. TypeInv => TypeOK
    BY DEF TypeInv
<1> QED
    BY <1>1, InitType, TypeStep, PTL DEF Spec

--------------------------------------------------------------------------------
(* The lock.  LockHeld and LockGuardsRequest are not inductive: a step of one  *)
(* worker preserves them only because the worker in its request phase is the   *)
(* one the object knows as `thread`, of which there is only one.               *)

LockInv ==
    /\ \A w \in Workers : pc[w] \in RequestPhase =>
           locked /\ thread = w /\ req[w].asked = settings
    /\ locked => thread \in Workers /\ pc[thread] \in RequestPhase
    /\ \A w \in Workers : pc[w] # "exiting"
    /\ \A w \in Workers : pc[w] = "easy" => easyHandle \in {w, None}
    /\ \A w \in Workers : pc[w] \in CancelRegion \cup {"prepare"} =>
           easyHandle = w /\ multiHandle \in {w, None}
    /\ \A w \in Workers : pc[w] \in CancelRegion => req[w].used = req[w].asked

SameOptions == \A v \in Workers : req'[v].asked = req[v].asked /\ req'[v].used = req[v].used

(* The updates that leave the options of every request alone.                  *)
LEMMA KeepsOptions ==
    ASSUME req \in Locals, NEW w \in Workers, NEW x,
           \/ req' = req
           \/ req' = [req EXCEPT ![w].received = x]
           \/ req' = [req EXCEPT ![w].mem = x]
           \/ req' = [req EXCEPT ![w].shown = x]
           \/ req' = [req EXCEPT ![w].result = x]
           \/ req' = [req EXCEPT ![w].kind = x]
           \/ req' = [req EXCEPT ![w].status = x]
    PROVE  SameOptions
<1> USE DEF SameOptions, Locals, RequestRecord
<1>1. CASE req' = [req EXCEPT ![w].received = x]
    BY <1>1
<1>2. CASE req' = [req EXCEPT ![w].mem = x]
    BY <1>2
<1>3. CASE req' = [req EXCEPT ![w].shown = x]
    BY <1>3
<1>4. CASE req' = [req EXCEPT ![w].result = x]
    BY <1>4
<1>5. CASE req' = [req EXCEPT ![w].kind = x]
    BY <1>5
<1>6. CASE req' = [req EXCEPT ![w].status = x]
    BY <1>6
<1>7. CASE req' = req
    BY <1>7
<1> QED
    BY <1>1, <1>2, <1>3, <1>4, <1>5, <1>6, <1>7

(* Nobody holds the lock at first.                                             *)
LEMMA InitLock == Init => LockInv
    BY DEF Init, LockInv, RequestPhase, Starting, CancelRegion

(* A worker moves inside the part of its request that libcurl runs in.         *)
LEMMA InnerMove ==
    ASSUME TypeOK, LockInv, NEW w \in Workers, NEW to \in CancelRegion \cup {"performed"},
           pc[w] \in CancelRegion, Goto(w, to), SameOptions,
           UNCHANGED <<locked, thread, easyHandle, multiHandle, settings>>
    PROVE  LockInv'
    BY DEF TypeOK, LockInv, Goto, SameOptions, RequestPhase, Starting, CancelRegion

(* A worker moves while it reports a request that is over.                     *)
LEMMA OuterMove ==
    ASSUME TypeOK, LockInv, NEW w \in Workers, NEW to \in OutputPhase \cup {"ended"},
           pc[w] \in OutputPhase, Goto(w, to), SameOptions,
           UNCHANGED <<locked, thread, easyHandle, multiHandle, settings>>
    PROVE  LockInv'
    BY DEF TypeOK, LockInv, Goto, SameOptions, OutputPhase, RequestPhase, Starting, CancelRegion

(* A worker leaves its request phase and opens the object.                     *)
LEMMA Opens ==
    ASSUME TypeOK, LockInv, NEW w \in Workers, NEW to \in {"output", "auth", "ended", "aborted"},
           pc[w] \in RequestPhase, Goto(w, to), SameOptions, locked' = FALSE,
           UNCHANGED <<thread, easyHandle, multiHandle, settings>>
    PROVE  LockInv'
    BY DEF TypeOK, LockInv, Goto, SameOptions, RequestPhase, Starting, CancelRegion

(* A cancelled worker ends.                                                    *)
LEMMA AbortedLock ==
    ASSUME TypeOK, LockInv, NEW w \in Workers, pc[w] \in CancelRegion, Aborted(w),
           UNCHANGED <<thread, easyHandle, multiHandle, settings>>
    PROVE  LockInv'
<1>1. SameOptions
    BY KeepsOptions DEF TypeOK, Locals, Aborted
<1> QED
    BY <1>1, Opens DEF Aborted, RequestPhase

(* Of all messages only a command enters a request, and it tests the lock.     *)
LEMMA HandlerLock == ASSUME ~Windows, TypeOK, LockInv, Handler PROVE LockInv'
<1> USE DEF LockInv, flags, handles, body, patch
<1>1. ASSUME NEW w \in Workers, NEW r \in Requests, Command(w, r) PROVE LockInv'
  <2>1. ~locked /\ pc[w] = "unborn" /\ Goto(w, "created") /\ locked' = TRUE /\ thread' = w
    BY <1>1 DEF Command, MayStart, Unlocked
  <2>2. UNCHANGED <<easyHandle, multiHandle, settings>>
    BY <1>1 DEF Command
  <2>3. \A v \in Workers : pc[v] \notin RequestPhase
    BY <2>1
  <2>4. \A v \in Workers : pc'[v] = IF v = w THEN "created" ELSE pc[v]
    BY <2>1 DEF Goto, TypeOK
  <2>5. req'[w].asked = settings
    BY <1>1 DEF Command, TypeOK, RequestRecord
  <2> QED
    BY <2>1, <2>2, <2>3, <2>4, <2>5 DEF RequestPhase, Starting, CancelRegion
<1>2. ASSUME NEW w \in Workers, NEW r \in Requests, CommandFails(w, r) PROVE LockInv'
    BY <1>2 DEF CommandFails
<1>3. ASSUME NEW o \in Options, ChangeSettings(o) PROVE LockInv'
    BY <1>3 DEF ChangeSettings, Unlocked, RequestPhase
<1>4. CASE Reinit
    BY <1>4 DEF Reinit, Unlocked, RequestPhase
<1>5. CASE ChangeMode
    BY <1>5 DEF ChangeMode
<1>6. CASE BeginCancel
    BY <1>6 DEF BeginCancel
<1>7. CASE SignalCancel
  <2>1. CASE CancelsItself
    BY <1>7, <2>1, AbortedLock DEF SignalCancel, CancelsItself
  <2>2. CASE ~CancelsItself
    BY <1>7, <2>2 DEF SignalCancel
  <2> QED
    BY <2>1, <2>2
<1>8. CASE RaiseExitThread
    BY <1>8 DEF RaiseExitThread
<1>9. CASE BeginDelete
    BY <1>9 DEF BeginDelete
<1>10. CASE DeleteTestsLock
    BY <1>10 DEF DeleteTestsLock
<1>11. CASE DeleteCancels
    BY <1>11 DEF DeleteCancels
<1>12. CASE DeleteFrees
    BY <1>12 DEF DeleteFrees
<1> QED
    BY <1>1, <1>2, <1>3, <1>4, <1>5, <1>6, <1>7, <1>8, <1>9, <1>10, <1>11, <1>12 DEF Handler, Message

(* The end of a transfer leaves the lock as it is.                             *)
LEMMA EndsLock ==
    ASSUME TypeOK, LockInv, NEW w \in Workers, NEW r, pc[w] \in CancelRegion, TransferEnds(w, r)
    PROVE  LockInv'
<1>1. SameOptions
    BY KeepsOptions DEF TypeOK, Locals, TransferEnds
<1> QED
    BY <1>1, InnerMove DEF TransferEnds, CancelRegion, flags, handles, body, patch

(* So do the other steps of libcurl, and those that take sys_lock.             *)
LEMMA TransferLock ==
    ASSUME TypeOK, LockInv, NEW w \in Workers, Libcurl(w) \/ TimesOut(w) \/ Locking(w)
    PROVE  LockInv'
<1> USE DEF flags, handles, body, patch, Step
<1>0. req \in Locals
    BY DEF TypeOK, Locals
<1>1. CASE Receive(w)
  <2>1. SameOptions
    BY <1>0, <1>1, KeepsOptions DEF Receive
  <2> QED
    BY <1>1, <2>1, InnerMove DEF Receive, Performing, CancelRegion
<1>2. CASE ServerAnswers(w)
    BY <1>2, EndsLock DEF ServerAnswers, Performing, CancelRegion
<1>3. CASE ServerRefuses(w)
    BY <1>3, EndsLock DEF ServerRefuses, Performing, CancelRegion
<1>4. CASE ConnectionFails(w)
    BY <1>4, EndsLock DEF ConnectionFails, Performing, CancelRegion
<1>5. CASE TimesOut(w)
    BY <1>5, EndsLock DEF TimesOut, Performing, CancelRegion
<1>6. CASE WriteMemoryFails(w)
    BY <1>6, EndsLock DEF WriteMemoryFails, CancelRegion
<1>7. CASE ReportNoCurl(w)
  <2>1. SameOptions
    BY <1>0, <1>7, KeepsOptions DEF ReportNoCurl
  <2> QED
    BY <1>7, <2>1, Opens DEF ReportNoCurl, Unlock, RequestPhase, Starting
<1>8. CASE BeginStream(w)
  <2>1. SameOptions
    BY <1>0, <1>8, KeepsOptions DEF BeginStream
  <2> QED
    BY <1>8, <2>1, InnerMove DEF BeginStream, CancelRegion
<1>9. CASE BeginErrorReport(w)
  <2>1. SameOptions
    BY <1>0, <1>9, KeepsOptions DEF BeginErrorReport
  <2> QED
    BY <1>9, <2>1, InnerMove DEF BeginErrorReport, CancelRegion
<1>10. CASE BeginReport(w)
  <2>1. SameOptions
    BY <1>0, <1>10, KeepsOptions DEF BeginReport
  <2> QED
    BY <1>10, <2>1, OuterMove DEF BeginReport, OutputPhase
<1> QED
    BY <1>1, <1>2, <1>3, <1>4, <1>5, <1>6, <1>7, <1>8, <1>9, <1>10 DEF Libcurl, Locking

(* A worker gives the lock back when it leaves its request, and not before.    *)
LEMMA WorkerLock ==
    ASSUME ~Windows, TypeOK, LockInv, NEW w \in Workers,
           Running(w) \/ Returning(w) \/ Exiting(w)
    PROVE  LockInv'
<1> USE DEF flags, handles, body, patch, Step
<1>0. req \in Locals
    BY DEF TypeOK, Locals
<1>2. CASE InitEasy(w)
  <2>1. \A v \in Workers : pc[v] \in RequestPhase => v = w
    BY <1>2 DEF InitEasy, LockInv, RequestPhase, Starting
  <2>2. \A v \in Workers : pc'[v] = IF v = w THEN "easy" ELSE pc[v]
    BY <1>2 DEF InitEasy, Goto, TypeOK
  <2>3. easyHandle' \in {w, None} /\ UNCHANGED <<locked, thread, multiHandle, settings, req>>
    BY <1>2 DEF InitEasy
  <2> QED
    BY <1>2, <2>1, <2>2, <2>3 DEF InitEasy, LockInv, RequestPhase, Starting, CancelRegion
<1>3. CASE InitMulti(w)
  <2>1. \A v \in Workers : pc[v] \in RequestPhase => v = w
    BY <1>3 DEF InitMulti, LockInv, RequestPhase, Starting
  <2>2. \A v \in Workers :
            pc'[v] = IF v = w THEN IF easyHandle = None THEN "no_easy" ELSE "prepare" ELSE pc[v]
    BY <1>3 DEF InitMulti, Goto, TypeOK
  <2>3. multiHandle' \in {w, None} /\ UNCHANGED <<locked, thread, easyHandle, settings, req>>
    BY <1>3 DEF InitMulti
  <2>4. easyHandle \in {w, None}
    BY <1>3 DEF InitMulti, LockInv
  <2> QED
    BY <1>3, <2>1, <2>2, <2>3, <2>4 DEF InitMulti, LockInv, RequestPhase, Starting, CancelRegion
<1>4. CASE Prepare(w)
  <2>1. \A v \in Workers : pc'[v] = IF v = w THEN "perform" ELSE pc[v]
    BY <1>4 DEF Prepare, Goto, TypeOK
  <2>2. UNCHANGED <<locked, thread, easyHandle, multiHandle, settings>>
    BY <1>4 DEF Prepare
  <2>3. PICK t, b : req' = [req EXCEPT ![w].used = settings, ![w].toFile = t, ![w].body = b]
    BY <1>4 DEF Prepare
  <2>4. /\ \A v \in Workers : req'[v].asked = req[v].asked
        /\ \A v \in Workers : req'[v].used = IF v = w THEN settings ELSE req[v].used
    BY <1>0, <2>3 DEF Locals, RequestRecord
  <2>5. pc[w] = "prepare"
    BY <1>4 DEF Prepare
  <2> QED
    BY <2>1, <2>2, <2>4, <2>5 DEF LockInv, RequestPhase, Starting, CancelRegion
<1>5. CASE PerformError(w)
  <2>1. SameOptions
    BY <1>0, <1>5, KeepsOptions DEF PerformError
  <2> QED
    BY <1>5, <2>1, InnerMove DEF PerformError, CancelRegion
<1>6. CASE WriteCleared(w)
    BY <1>6, EndsLock DEF WriteCleared, CancelRegion
<1>7. CASE WriteMemory(w)
  <2>1. SameOptions
    BY <1>0, <1>7, KeepsOptions DEF WriteMemory
  <2> QED
    BY <1>7, <2>1, InnerMove DEF WriteMemory, CancelRegion
<1>8. CASE NotBlocking(w)
  <2>1. SameOptions
    BY <1>0, <1>8, KeepsOptions DEF NotBlocking
  <2> QED
    BY <1>8, <2>1, InnerMove DEF NotBlocking, CancelRegion
<1>9. CASE NotStreaming(w)
    BY <1>9, EndsLock DEF NotStreaming, CancelRegion
<1>10. CASE Streaming(w)
  <2>1. SameOptions
    BY <1>0, <1>10, KeepsOptions DEF Streaming
  <2> QED
    BY <1>10, <2>1, InnerMove DEF Streaming, CancelRegion
<1>11. CASE EndErrorReport(w)
  <2>1. SameOptions
    BY <1>0, <1>11, KeepsOptions DEF EndErrorReport
  <2> QED
    BY <1>11, <2>1, InnerMove DEF EndErrorReport, CancelRegion
<1>12. CASE FinishLoop(w)
  <2>1. SameOptions
    BY <1>0, <1>12, KeepsOptions DEF FinishLoop
  <2> QED
    BY <1>12, <2>1, InnerMove DEF FinishLoop, CancelRegion
<1>13. CASE LeaveLoop(w)
  <2>1. SameOptions
    BY <1>0, <1>13, KeepsOptions DEF LeaveLoop
  <2> QED
    BY <1>13, <2>1, InnerMove DEF LeaveLoop, CancelRegion
<1>14. CASE CleanupRequest(w)
  <2>1. SameOptions
    BY <1>0, <1>14, KeepsOptions DEF CleanupRequest
  <2> QED
    BY <1>14, <2>1, Opens DEF CleanupRequest, Unlock, RequestPhase
<1>15. CASE ReadMessage(w) /\ HasMessage(multiHandle)
  <2>1. PICK kind : req' = [req EXCEPT ![multiHandle].read = TRUE, ![w].kind = kind]
    BY <1>15 DEF ReadMessage
  <2>2. multiHandle \in Workers
    BY <1>15 DEF ReadMessage, HasMessage
  <2>3. SameOptions
    BY <1>0, <2>1, <2>2 DEF SameOptions, Locals, RequestRecord
  <2> QED
    BY <1>15, <2>3, OuterMove DEF ReadMessage, OutputPhase
<1>16. CASE ReadMessage(w) /\ ~HasMessage(multiHandle)
  <2>1. SameOptions
    BY <1>0, <1>16, KeepsOptions DEF ReadMessage
  <2> QED
    BY <1>16, <2>1, OuterMove DEF ReadMessage, OutputPhase
<1>17. CASE CleanupEasy(w)
  <2>1. SameOptions
    BY <1>0, <1>17, KeepsOptions DEF CleanupEasy
  <2> QED
    BY <1>17, <2>1, OuterMove DEF CleanupEasy, OutputPhase
<1>18. CASE CleanupMulti(w)
  <2>1. SameOptions
    BY <1>0, <1>18, KeepsOptions DEF CleanupMulti
  <2> QED
    BY <1>18, <2>1, OuterMove DEF CleanupMulti, OutputPhase
<1>19. CASE EndStream(w)
  <2>1. SameOptions
    BY <1>0, <1>19, KeepsOptions DEF EndStream
  <2> QED
    BY <1>19, <2>1, InnerMove DEF EndStream, CancelRegion
<1>20. CASE BangAfterData(w)
  <2>1. SameOptions
    BY <1>0, <1>20, KeepsOptions DEF BangAfterData
  <2> QED
    BY <1>20, <2>1, OuterMove DEF BangAfterData, OutputPhase
<1>21. CASE EndReport(w)
  <2>1. SameOptions
    BY <1>0, <1>21, KeepsOptions DEF EndReport
  <2> QED
    BY <1>21, <2>1, OuterMove DEF EndReport, OutputPhase
<1>22. CASE Abort(w)
    BY <1>22, AbortedLock DEF Abort
<1>23. CASE ExitThread(w) \/ PthreadExit(w)
    BY <1>23 DEF ExitThread, PthreadExit, LockInv
<1> QED
    BY <1>2, <1>3, <1>4, <1>5, <1>6, <1>7, <1>8, <1>9, <1>10, <1>11, <1>12,
       <1>13, <1>14, <1>15, <1>16, <1>17, <1>18, <1>19, <1>20, <1>21, <1>22, <1>23
       DEF Running, Returning, Exiting

(* Every step keeps the lock consistent.                                       *)
LEMMA LockStep == ASSUME ~Windows, TypeOK, LockInv, [Next]_vars PROVE LockInv'
<1>1. CASE UNCHANGED vars
    BY <1>1 DEF vars, flags, handles, body, patch, LockInv
<1>2. CASE Next
    BY <1>1, <1>2, HandlerLock, TransferLock, WorkerLock DEF Next, Idle
<1> QED
    BY <1>1, <1>2

(* So it is consistent in every reachable state.                               *)
LEMMA LockInvariant == ASSUME ~Windows PROVE Spec => []LockInv
<1>1. TypeOK /\ LockInv /\ [Next]_vars => LockInv'
    BY LockStep
<1> QED
    BY <1>1, InitLock, TypeCorrect, PTL DEF Spec

(* On POSIX systems the object is locked exactly while a thread works on a     *)
(* request, whatever the patch sends, with a cancel or a deletion at any       *)
(* moment, and whatever fails.                                                 *)
THEOREM LockHeldAlways == ASSUME ~Windows PROVE Spec => []LockHeld
<1>1. LockInv => LockHeld
    BY DEF LockInv, LockHeld
<1> QED
    BY <1>1, LockInvariant, PTL

(* On POSIX systems two threads never work on their requests at the same time. *)
THEOREM MutualExclusion == ASSUME ~Windows PROVE Spec => []LockGuardsRequest
<1>1. LockInv => LockGuardsRequest
    BY DEF LockInv, LockGuardsRequest
<1> QED
    BY <1>1, LockInvariant, PTL

(* On POSIX systems the fields a worker reads while libcurl runs are its own,  *)
(* although the worker of an earlier request may still be using them.          *)
THEOREM TransfersOwnHandles == ASSUME ~Windows PROVE Spec => []OwnTransfer
<1>1. LockInv => OwnTransfer
    BY DEF LockInv, OwnTransfer, RequestPhase
<1> QED
    BY <1>1, LockInvariant, PTL

(* On POSIX systems a request is made with the options that were set when its  *)
(* command was issued.                                                         *)
THEOREM OptionsFrozen == ASSUME ~Windows PROVE Spec => []SettingsFrozen
<1>1. LockInv => SettingsFrozen
    BY DEF LockInv, SettingsFrozen
<1> QED
    BY <1>1, LockInvariant, PTL

--------------------------------------------------------------------------------
(* The steps of a worker, sys_lock and the data that is uploaded.              *)

(* The control states and records a handler changes: it starts a worker, or it *)
(* is a cancel that the worker sends to itself.                                *)
HandlerStarts(w) ==
    /\ MayStart(w) /\ Goto(w, "created") /\ locked'
    /\ \E v, o : req' = [req EXCEPT ![w].verb = v, ![w].asked = o]

(* What a message can do to the workers: nothing, start one, or abort one.     *)
LEMMA HandlerEffect ==
    ASSUME TypeOK, Handler
    PROVE  /\ UNCHANGED handles
           /\ \/ UNCHANGED <<locked, pc, req>>
              \/ \E w \in Workers : HandlerStarts(w)
              \/ \E w \in Workers : pc[w] \in CancelRegion /\ Aborted(w)
<1> USE DEF flags, handles, body, patch
<1>1. ASSUME NEW w \in Workers, NEW r \in Requests, Command(w, r)
      PROVE  HandlerStarts(w) /\ UNCHANGED handles
  BY <1>1 DEF Command, HandlerStarts
<1>2. CASE SignalCancel
  BY <1>2 DEF SignalCancel, CancelsItself
<1> QED
  BY <1>1, <1>2
  DEF Handler, Message, CommandFails, Reinit, ChangeSettings, ChangeMode, BeginCancel,
      RaiseExitThread, BeginDelete, DeleteTestsLock, DeleteCancels, DeleteFrees

Working(w) == \/ Libcurl(w) \/ TimesOut(w) \/ Locking(w)
              \/ Running(w) \/ Returning(w) \/ Exiting(w)

(* The control states a step of a worker leads to.                             *)
LEMMA WorkerMoves ==
    ASSUME NEW w \in Workers, Working(w)
    PROVE  /\ pc[w] \notin Over \cup {"authorise"}
           /\ \E to \in States \ {"unborn", "authorise"} : Goto(w, to)
<1> USE DEF States, RequestPhase, Starting, CancelRegion, OutputPhase, Over, Step
<1>1. CASE Libcurl(w) \/ TimesOut(w)
  BY <1>1 DEF Libcurl, Receive, ServerAnswers, ServerRefuses, ConnectionFails, TimesOut,
              TransferEnds, Performing
<1>2. CASE Locking(w)
  BY <1>2 DEF Locking, ReportNoCurl, WriteMemoryFails, BeginStream, BeginErrorReport, BeginReport,
              TransferEnds
<1>3. CASE Running(w)
  <2>1. CASE InitEasy(w) \/ InitMulti(w) \/ Prepare(w)
    BY <2>1 DEF InitEasy, InitMulti, Prepare
  <2>2. CASE \/ PerformError(w) \/ WriteCleared(w) \/ WriteMemory(w) \/ NotBlocking(w)
             \/ NotStreaming(w) \/ Streaming(w)
    BY <2>2 DEF PerformError, WriteCleared, WriteMemory, NotBlocking, NotStreaming, Streaming,
                TransferEnds
  <2>3. CASE \/ EndErrorReport(w) \/ FinishLoop(w) \/ LeaveLoop(w) \/ CleanupRequest(w)
             \/ ReadMessage(w) \/ CleanupEasy(w) \/ CleanupMulti(w)
    BY <2>3 DEF EndErrorReport, FinishLoop, LeaveLoop, CleanupRequest, ReadMessage,
                CleanupEasy, CleanupMulti
  <2> QED
    BY <1>3, <2>1, <2>2, <2>3 DEF Running
<1>4. CASE Returning(w)
  BY <1>4 DEF Returning, EndStream, BangAfterData, EndReport
<1>5. CASE Exiting(w)
  BY <1>5 DEF Exiting, Abort, Aborted, ExitThread, PthreadExit
<1> QED
  BY <1>1, <1>2, <1>3, <1>4, <1>5 DEF Working

(* What a worker's step may change in the records: one field of its own, but   *)
(* for ctw_prepare and curl_multi_info_read.                                   *)
OneFieldIs(w, x) ==
    \/ req' = req
    \/ req' = [req EXCEPT ![w].received = x]
    \/ req' = [req EXCEPT ![w].mem = x]
    \/ req' = [req EXCEPT ![w].shown = x]
    \/ req' = [req EXCEPT ![w].result = x]
    \/ req' = [req EXCEPT ![w].status = x]
OneField(w) == \E x : OneFieldIs(w, x)

(* What a step of a worker can do to its own record.                           *)
LEMMA WorkerUpdates ==
    ASSUME NEW w \in Workers, Working(w)
    PROVE  Prepare(w) \/ ReadMessage(w) \/ OneField(w)
<1> USE DEF OneField, OneFieldIs, TransferEnds
<1>1. CASE Libcurl(w) \/ TimesOut(w)
  BY <1>1 DEF Libcurl, Receive, ServerAnswers, ServerRefuses, ConnectionFails, TimesOut
<1>2. CASE Locking(w)
  BY <1>2 DEF Locking, ReportNoCurl, WriteMemoryFails, BeginStream, BeginErrorReport, BeginReport
<1>3. CASE Running(w)
  <2>1. CASE InitEasy(w) \/ InitMulti(w)
    BY <2>1 DEF InitEasy, InitMulti
  <2>2. CASE \/ PerformError(w) \/ WriteCleared(w) \/ WriteMemory(w) \/ NotBlocking(w)
             \/ NotStreaming(w) \/ Streaming(w)
    BY <2>2 DEF PerformError, WriteCleared, WriteMemory, NotBlocking, NotStreaming, Streaming
  <2>3. CASE \/ EndErrorReport(w) \/ FinishLoop(w) \/ LeaveLoop(w) \/ CleanupRequest(w)
             \/ CleanupEasy(w) \/ CleanupMulti(w)
    BY <2>3 DEF EndErrorReport, FinishLoop, LeaveLoop, CleanupRequest, CleanupEasy, CleanupMulti
  <2> QED
    BY <1>3, <2>1, <2>2, <2>3 DEF Running
<1>4. CASE Returning(w)
  BY <1>4 DEF Returning, EndStream, BangAfterData, EndReport
<1>5. CASE Exiting(w)
  BY <1>5 DEF Exiting, Abort, Aborted, ExitThread, PthreadExit, AbortHandler
<1> QED
  BY <1>1, <1>2, <1>3, <1>4, <1>5 DEF Working

(* What no step of a worker changes.                                           *)
LEMMA WorkerPatch ==
    ASSUME NEW w \in Workers, Working(w)
    PROVE  UNCHANGED <<mode, clearCb, thread, parameters, settings, object, cancelled>>
<1> USE DEF flags, handles, body, patch
<1>1. CASE Libcurl(w) \/ TimesOut(w)
  BY <1>1 DEF Libcurl, Receive, ServerAnswers, ServerRefuses, ConnectionFails, TimesOut, TransferEnds
<1>2. CASE Locking(w)
  BY <1>2 DEF Locking, ReportNoCurl, WriteMemoryFails, BeginStream, BeginErrorReport, BeginReport,
              TransferEnds
<1>3. CASE Running(w)
  BY <1>3 DEF Running, InitEasy, InitMulti, Prepare, PerformError, WriteCleared, WriteMemory,
              NotBlocking, NotStreaming, Streaming, EndErrorReport, FinishLoop, LeaveLoop,
              CleanupRequest, ReadMessage, CleanupEasy, CleanupMulti, TransferEnds
<1>4. CASE Returning(w)
  BY <1>4 DEF Returning, EndStream, BangAfterData, EndReport
<1>5. CASE Exiting(w)
  BY <1>5 DEF Exiting, Abort, Aborted, ExitThread, PthreadExit, AbortHandler
<1> QED
  BY <1>1, <1>2, <1>3, <1>4, <1>5 DEF Working

(* Only ctw_prepare leads a worker into the region where libcurl runs.         *)
LEMMA WorkerRegion ==
    ASSUME pc \in [Workers -> States], NEW w \in Workers, Working(w), ~Prepare(w)
    PROVE  \A v \in Workers : pc'[v] \in CancelRegion => pc[v] \in CancelRegion
<1> SUFFICES pc'[w] \in CancelRegion => pc[w] \in CancelRegion
  BY WorkerMoves DEF Goto
<1> USE DEF CancelRegion, Step, Goto
<1>1. CASE Libcurl(w) \/ TimesOut(w)
  BY <1>1 DEF Libcurl, Receive, ServerAnswers, ServerRefuses, ConnectionFails, TimesOut,
              TransferEnds, Performing
<1>2. CASE Locking(w)
  BY <1>2 DEF Locking, ReportNoCurl, WriteMemoryFails, BeginStream, BeginErrorReport, BeginReport,
              TransferEnds
<1>3. CASE Running(w)
  <2>1. CASE \/ InitEasy(w) \/ InitMulti(w) \/ CleanupRequest(w) \/ ReadMessage(w)
             \/ CleanupEasy(w) \/ CleanupMulti(w)
    BY <2>1 DEF InitEasy, InitMulti, CleanupRequest, ReadMessage, CleanupEasy, CleanupMulti
  <2>2. CASE \/ PerformError(w) \/ WriteCleared(w) \/ WriteMemory(w) \/ NotBlocking(w)
             \/ NotStreaming(w) \/ Streaming(w) \/ EndErrorReport(w) \/ FinishLoop(w) \/ LeaveLoop(w)
    BY <2>2 DEF PerformError, WriteCleared, WriteMemory, NotBlocking, NotStreaming, Streaming,
                EndErrorReport, FinishLoop, LeaveLoop, TransferEnds
  <2> QED
    BY <1>3, <2>1, <2>2 DEF Running
<1>4. CASE Returning(w)
  BY <1>4 DEF Returning, EndStream, BangAfterData, EndReport
<1>5. CASE Exiting(w)
  BY <1>5 DEF Exiting, Abort, Aborted, ExitThread, PthreadExit
<1> QED
  BY <1>1, <1>2, <1>3, <1>4, <1>5 DEF Working

(* A worker opens the object when it has freed the strings, or because it was  *)
(* cancelled.                                                                  *)
LEMMA WorkerUnlocks ==
    ASSUME ~Windows, LockInv, NEW w \in Workers, Working(w)
    PROVE  \/ UNCHANGED <<locked, parametersLen>>
           \/ ~locked' /\ ~parametersLen'
           \/ ~locked' /\ UNCHANGED parametersLen /\ thread \in cancelled
<1> USE DEF flags, handles, body, patch
<1>1. CASE Libcurl(w) \/ TimesOut(w)
  BY <1>1 DEF Libcurl, Receive, ServerAnswers, ServerRefuses, ConnectionFails, TimesOut, TransferEnds
<1>2. CASE Locking(w)
  BY <1>2 DEF Locking, ReportNoCurl, WriteMemoryFails, BeginStream, BeginErrorReport, BeginReport,
              TransferEnds, Unlock
<1>3. CASE Running(w)
  BY <1>3 DEF Running, InitEasy, InitMulti, Prepare, PerformError, WriteCleared, WriteMemory,
              NotBlocking, NotStreaming, Streaming, EndErrorReport, FinishLoop, LeaveLoop,
              CleanupRequest, ReadMessage, CleanupEasy, CleanupMulti, TransferEnds, Unlock
<1>4. CASE Returning(w)
  BY <1>4 DEF Returning, EndStream, BangAfterData, EndReport
<1>5. CASE Exiting(w)
  <2>1. Abort(w)
    BY <1>5 DEF Exiting, ExitThread, PthreadExit, Step, LockInv
  <2>2. thread = w
    BY <2>1 DEF Abort, LockInv, RequestPhase
  <2> QED
    BY <2>1, <2>2 DEF Abort, Aborted
<1> QED
  BY <1>1, <1>2, <1>3, <1>4, <1>5 DEF Working

--------------------------------------------------------------------------------
(* sys_lock.  A worker between sys_lock and sys_unlock is its holder; this     *)
(* makes the converse inductive, which a step that gives the lock back would   *)
(* otherwise break for another worker.                                         *)

SysInv ==
    /\ \A w \in Workers : pc[w] \in Holding => sysLock = w
    /\ sysLock \in Workers => \/ pc[sysLock] \in Holding
                              \/ ~Windows /\ sysLock \in cancelled

(* Nobody holds sys_lock at first.                                             *)
LEMMA InitSys == Init => SysInv
  BY NamesAssumption DEF Init, SysInv, Holding, Outlets

(* A worker moves and leaves sys_lock alone.                                   *)
LEMMA SysMove ==
    ASSUME TypeOK, SysInv, NEW w \in Workers, NEW to, Goto(w, to),
           to \in Holding <=> pc[w] \in Holding, UNCHANGED <<sysLock, cancelled>>
    PROVE  SysInv'
  BY DEF TypeOK, SysInv, Goto

(* A worker takes sys_lock, which is free.                                     *)
LEMMA SysTake ==
    ASSUME TypeOK, SysInv, NEW w \in Workers, NEW to \in Holding, Goto(w, to),
           sysLock = None, sysLock' = w, UNCHANGED cancelled
    PROVE  SysInv'
  BY NamesAssumption DEF TypeOK, SysInv, Goto

(* The holder gives sys_lock back.                                             *)
LEMMA SysGive ==
    ASSUME TypeOK, SysInv, NEW w \in Workers, NEW to, to \notin Holding, Goto(w, to),
           pc[w] \in Holding, sysLock' = None, UNCHANGED cancelled
    PROVE  SysInv'
  BY NamesAssumption DEF TypeOK, SysInv, Goto

(* No message takes sys_lock from a worker but by cancelling it.               *)
LEMMA HandlerSys == ASSUME TypeInv, SysInv, Handler PROVE SysInv'
<1> USE NamesAssumption DEF TypeInv, ThreadKnown, flags, handles, body, patch
<1>1. ASSUME NEW w \in Workers, NEW r \in Requests, Command(w, r) PROVE SysInv'
  BY <1>1, SysMove DEF Command, MayStart, Holding, Outlets
<1>2. CASE SignalCancel
  <2>1. thread \in Workers
    BY <1>2 DEF SignalCancel, TypeOK
  <2>2. CASE CancelsItself
    BY <1>2, <2>1, <2>2 DEF SignalCancel, CancelsItself, Aborted, Goto, SysInv, TypeOK, Holding, Outlets
  <2>3. CASE ~CancelsItself
    BY <1>2, <2>1, <2>3 DEF SignalCancel, Give, SysInv, TypeOK
  <2> QED
    BY <2>2, <2>3
<1>3. CASE BeginCancel \/ BeginDelete
  BY <1>3 DEF BeginCancel, BeginDelete, Take, SysInv, TypeOK
<1>4. CASE RaiseExitThread \/ DeleteFrees
  BY <1>4 DEF RaiseExitThread, DeleteFrees, Give, SysInv, TypeOK
<1>5. CASE DeleteCancels
  BY <1>5 DEF DeleteCancels, SysInv
<1>6. CASE UNCHANGED <<sysLock, cancelled, pc>>
  BY <1>6 DEF SysInv
<1> QED
  BY <1>1, <1>2, <1>3, <1>4, <1>5, <1>6
  DEF Handler, Message, CommandFails, Reinit, ChangeSettings, ChangeMode, DeleteTestsLock

(* A worker takes sys_lock when it enters Holding, and gives it back when it leaves.*)
LEMMA WorkerSys == ASSUME TypeOK, SysInv, NEW w \in Workers, Working(w) PROVE SysInv'
<1> USE DEF Holding, Outlets, flags, handles, body, patch, Step
<1>1. CASE Libcurl(w) \/ TimesOut(w)
  BY <1>1, SysMove DEF Libcurl, Receive, ServerAnswers, ServerRefuses, ConnectionFails, TimesOut,
                       TransferEnds, Performing
<1>2. CASE Locking(w)
  <2>1. CASE ReportNoCurl(w) \/ WriteMemoryFails(w)
    BY <2>1, SysMove DEF ReportNoCurl, WriteMemoryFails, TransferEnds
  <2>2. CASE BeginStream(w) \/ BeginErrorReport(w) \/ BeginReport(w)
    BY <2>2, SysTake DEF BeginStream, BeginErrorReport, BeginReport
  <2> QED
    BY <1>2, <2>1, <2>2 DEF Locking
<1>3. CASE Running(w)
  <2>1. CASE InitEasy(w) \/ InitMulti(w) \/ Prepare(w)
    BY <2>1, SysMove DEF InitEasy, InitMulti, Prepare
  <2>2. CASE \/ PerformError(w) \/ WriteCleared(w) \/ WriteMemory(w) \/ NotBlocking(w)
             \/ NotStreaming(w) \/ Streaming(w)
    BY <2>2, SysMove DEF PerformError, WriteCleared, WriteMemory, NotBlocking, NotStreaming,
                         Streaming, TransferEnds
  <2>3. CASE EndErrorReport(w)
    BY <2>3, SysGive DEF EndErrorReport
  <2>4. CASE \/ FinishLoop(w) \/ LeaveLoop(w) \/ CleanupRequest(w)
             \/ ReadMessage(w) \/ CleanupEasy(w) \/ CleanupMulti(w)
    BY <2>4, SysMove DEF FinishLoop, LeaveLoop, CleanupRequest, ReadMessage, CleanupEasy, CleanupMulti
  <2> QED
    BY <1>3, <2>1, <2>2, <2>3, <2>4 DEF Running
<1>4. CASE Returning(w)
  BY <1>4, SysGive, SysMove DEF Returning, EndStream, BangAfterData, EndReport
<1>5. CASE Exiting(w)
  <2>1. CASE Abort(w)
    BY <2>1 DEF Abort, Aborted, Goto, SysInv, TypeOK
  <2>2. CASE ExitThread(w) \/ PthreadExit(w)
    BY <2>2, SysMove DEF ExitThread, PthreadExit, AbortHandler
  <2> QED
    BY <1>5, <2>1, <2>2 DEF Exiting
<1> QED
  BY <1>1, <1>2, <1>3, <1>4, <1>5 DEF Working

(* So sys_lock has its holder in every reachable state.                        *)
LEMMA SysInvariant == Spec => []SysInv
<1>1. TypeInv /\ SysInv /\ [Next]_vars => SysInv'
  <2> SUFFICES ASSUME TypeInv, SysInv, [Next]_vars PROVE SysInv'
    OBVIOUS
  <2>1. CASE UNCHANGED vars
    BY <2>1 DEF vars, patch, SysInv
  <2> QED
    BY <2>1, HandlerSys, WorkerSys DEF Next, Working, Idle, TypeInv
<1>2. TypeInv /\ [Next]_vars => TypeInv'
  BY TypeStep
<1> QED
  BY <1>1, <1>2, InitSys, InitType, PTL DEF Spec

(* A worker on its way through the outlets, or through an error message, gives *)
(* sys_lock back before it ends, unless it is cancelled there: whatever else   *)
(* happens, Pd is not left waiting for ever.                                   *)
THEOREM WorkersReturnSysLock == Spec => []SysLockReturned
<1>1. SysInv => SysLockReturned
  BY DEF SysInv, SysLockReturned
<1> QED
  BY <1>1, SysInvariant, PTL

(* On Windows, where a cancel is a flag that the worker looks at between two   *)
(* calls of libcurl, no thread ends while it holds sys_lock.                   *)
THEOREM WindowsKeepsSysLock == ASSUME Windows PROVE Spec => []SysLockHeld
<1>1. SysInv => SysLockHeld
  BY DEF SysInv, SysLockHeld
<1> QED
  BY <1>1, SysInvariant, PTL

--------------------------------------------------------------------------------
(* Uploads.  Text that is still allocated when no request is under way was     *)
(* left by a cancelled one; otherwise it may be that of the request itself.    *)

UploadInv ==
    /\ parametersLen => parameters \in cancelled \/ (locked /\ parameters = thread)
    /\ UploadOwned

SameUploads == \A v \in Workers : req'[v].verb = req[v].verb /\ req'[v].body = req[v].body

(* What is uploaded is settled in ctw_prepare: no other step of a worker       *)
(* changes it.                                                                 *)
LEMMA UploadSettled ==
    ASSUME TypeOK, NEW w \in Workers, Working(w), ~Prepare(w)
    PROVE  SameUploads
<1>1. req \in Locals
  BY DEF TypeOK, Locals
<1>2. ASSUME OneField(w) PROVE SameUploads
  <2> USE <1>1 DEF Locals, RequestRecord, SameUploads
  <2>1. PICK x : OneFieldIs(w, x)
    BY <1>2 DEF OneField
  <2>2. CASE req' = req
    BY <2>2
  <2>3. CASE req' = [req EXCEPT ![w].received = x]
    BY <2>3
  <2>4. CASE req' = [req EXCEPT ![w].mem = x]
    BY <2>4
  <2>5. CASE req' = [req EXCEPT ![w].shown = x]
    BY <2>5
  <2>6. CASE req' = [req EXCEPT ![w].result = x]
    BY <2>6
  <2>7. CASE req' = [req EXCEPT ![w].status = x]
    BY <2>7
  <2> QED
    BY <2>1, <2>2, <2>3, <2>4, <2>5, <2>6, <2>7 DEF OneFieldIs
<1>3. CASE ReadMessage(w)
  <2>1. CASE HasMessage(multiHandle)
    <3>1. PICK kind : req' = [req EXCEPT ![multiHandle].read = TRUE, ![w].kind = kind]
      BY <1>3, <2>1 DEF ReadMessage
    <3> QED
      BY <1>1, <2>1, <3>1 DEF Locals, RequestRecord, HasMessage, SameUploads
  <2> QED
    BY <1>3, <2>1 DEF ReadMessage, SameUploads
<1> QED
  BY <1>2, <1>3, WorkerUpdates

(* There is no body at first.                                                  *)
LEMMA InitUpload == Init => UploadInv
  BY DEF Init, UploadInv, UploadOwned, CancelRegion

(* A command writes the body when it has the lock.                             *)
LEMMA HandlerUpload == ASSUME ~Windows, TypeInv, LockInv, UploadInv, Handler PROVE UploadInv'
<1> USE DEF UploadInv, flags, handles, body, patch
<1>0. /\ req \in Locals
      /\ \A v \in Workers : pc[v] \in CancelRegion => locked
  BY DEF TypeInv, TypeOK, Locals, LockInv, RequestPhase
<1>1. ASSUME NEW w \in Workers, NEW r \in Requests, Command(w, r) PROVE UploadInv'
  <2>1. UploadOwned'
    <3>1. \A v \in Workers : pc'[v] \notin CancelRegion
      BY <1>1, <1>0 DEF Command, MayStart, Unlocked, Goto, TypeInv, TypeOK, CancelRegion
    <3> QED
      BY <3>1 DEF UploadOwned
  <2> QED
    BY <1>1, <2>1 DEF Command, MayStart, Unlocked, WriteParameters
<1>2. CASE SignalCancel
  <2>1. thread \in Workers /\ cancelled' = cancelled \cup {thread}
    BY <1>2 DEF SignalCancel, TypeInv, TypeOK, ThreadKnown
  <2>2. parametersLen' => parameters' \in cancelled'
    BY <1>2, <2>1 DEF SignalCancel
  <2>3. CASE CancelsItself
    <3>1. /\ Aborted(thread)
          /\ req' = [req EXCEPT ![thread].result = IF locked THEN "none" ELSE @]
      BY <1>2, <2>3 DEF SignalCancel, Aborted
    <3>2. SameUploads
      BY <1>0, <2>1, <3>1 DEF SameUploads, Locals, RequestRecord
    <3>3. \A v \in Workers : pc'[v] \in CancelRegion => pc[v] \in CancelRegion
      BY <2>1, <3>1 DEF Aborted, Goto, TypeInv, TypeOK, CancelRegion
    <3> QED
      BY <2>1, <2>2, <3>2, <3>3 DEF UploadOwned, SameUploads
  <2>4. CASE ~CancelsItself
    BY <1>2, <2>1, <2>2, <2>4 DEF SignalCancel, UploadOwned
  <2> QED
    BY <2>3, <2>4
<1>3. CASE DeleteCancels
  BY <1>3 DEF DeleteCancels, UploadOwned
<1>4. CASE UNCHANGED <<locked, thread, cancelled, pc, req, parametersLen, parameters>>
  BY <1>4 DEF UploadOwned
<1>5. CASE ~parametersLen' /\ UNCHANGED <<cancelled, pc, req>>
  BY <1>5 DEF UploadOwned
<1> QED
  BY <1>1, <1>2, <1>3, <1>4, <1>5
  DEF Handler, Message, CommandFails, Reinit, ChangeSettings, ChangeMode, BeginCancel,
      RaiseExitThread, BeginDelete, DeleteTestsLock, DeleteFrees

(* The body is freed before the lock is given back.                            *)
LEMMA WorkerUpload ==
    ASSUME ~Windows, TypeOK, LockInv, UploadInv, NEW w \in Workers, Working(w)
    PROVE  UploadInv'
<1> USE DEF UploadInv
<1>1. CASE Prepare(w)
  <2>1. pc[w] = "prepare" /\ thread = w
    BY <1>1 DEF Prepare, Step, LockInv, RequestPhase, Starting
  <2>2. UNCHANGED <<locked, thread, cancelled, parametersLen, parameters>>
    BY <1>1 DEF Prepare, body, patch
  <2>3. PICK t, b : /\ req' = [req EXCEPT ![w].used = settings, ![w].toFile = t, ![w].body = b]
                    /\ req[w].verb = "PUT" => b = (IF parametersLen THEN parameters ELSE None) \/ b = Unset
    BY <1>1 DEF Prepare
  <2>4. /\ req'[w].verb = req[w].verb /\ req'[w].body = b
        /\ \A v \in Workers \ {w} : req'[v] = req[v]
    BY <2>3 DEF TypeOK, RequestRecord
  <2>5. \A v \in Workers \ {w} : pc'[v] = pc[v]
    BY <1>1 DEF Prepare, Step, Goto, TypeOK
  <2>6. req[w].verb = "PUT" => b \in {None, w, Unset} \cup cancelled
    BY <2>1, <2>3
  <2> QED
    BY <2>2, <2>4, <2>5, <2>6 DEF UploadOwned
<1>2. CASE ~Prepare(w)
  <2>1. SameUploads
    BY <1>2, UploadSettled
  <2>2. UNCHANGED <<thread, cancelled, parameters>>
    BY WorkerPatch
  <2>3. \A v \in Workers : pc'[v] \in CancelRegion => pc[v] \in CancelRegion
    BY <1>2, WorkerRegion DEF TypeOK
  <2>4. UploadOwned'
    BY <2>1, <2>2, <2>3 DEF UploadOwned, SameUploads
  <2>5. \/ UNCHANGED <<locked, parametersLen>>
        \/ ~parametersLen'
        \/ UNCHANGED parametersLen /\ thread \in cancelled
    BY WorkerUnlocks
  <2> QED
    BY <2>2, <2>4, <2>5
<1> QED
  BY <1>1, <1>2

(* So a body always has its owner.                                             *)
LEMMA UploadInvariant == ASSUME ~Windows PROVE Spec => []UploadInv
<1>1. TypeInv /\ LockInv /\ UploadInv /\ [Next]_vars => UploadInv'
  <2> SUFFICES ASSUME TypeInv, LockInv, UploadInv, [Next]_vars PROVE UploadInv'
    OBVIOUS
  <2>1. CASE UNCHANGED vars
    BY <2>1 DEF vars, patch, body, UploadInv, UploadOwned
  <2> QED
    BY <2>1, HandlerUpload, WorkerUpload DEF Next, Working, Idle, TypeInv
<1>2. TypeInv /\ [Next]_vars => TypeInv'
  BY TypeStep
<1> QED
  BY <1>1, <1>2, InitType, InitUpload, LockInvariant, PTL DEF Spec

(* On POSIX systems a PUT never uploads the data of another request that ran   *)
(* to its end: what is not its own was left by a request that was cancelled.   *)
THEOREM UploadsOwnData == ASSUME ~Windows PROVE Spec => []UploadOwned
<1>1. UploadInv => UploadOwned
  BY DEF UploadInv
<1> QED
  BY <1>1, UploadInvariant, PTL

--------------------------------------------------------------------------------
(* The texts of a request, which a command writes and the worker reads.        *)

(* The messages other than commands and inits, up to the last step of a        *)
(* deletion, change no text and no request, but for one that they abort.       *)
LEMMA MessageKeepsTexts ==
    ASSUME TypeOK, Message
    PROVE  /\ UNCHANGED <<body, object, thread>> /\ (locked' => locked) /\ SameUploads
           /\ \A v \in Workers : pc'[v] \in {pc[v], "aborted"}
<1>1. CASE SignalCancel
  <2>1. UNCHANGED <<body, object, thread>>
    BY <1>1 DEF SignalCancel
  <2>2. CASE CancelsItself
    <3>1. thread \in Workers /\ Aborted(thread)
      BY <1>1, <2>2 DEF SignalCancel, CancelsItself
    <3>2. PICK x : req' = [req EXCEPT ![thread].result = x]
      BY <3>1 DEF Aborted
    <3>3. SameUploads
      BY <3>1, <3>2 DEF TypeOK, RequestRecord, SameUploads
    <3> QED
      BY <2>1, <3>1, <3>3 DEF Aborted, Goto, TypeOK
  <2>3. CASE ~CancelsItself
    BY <1>1, <2>1, <2>3 DEF SignalCancel, SameUploads
  <2> QED
    BY <2>2, <2>3
<1>2. CASE ~SignalCancel
  BY <1>2 DEF SameUploads, patch, Message, ChangeSettings, ChangeMode, BeginCancel, RaiseExitThread,
              BeginDelete, DeleteTestsLock, DeleteCancels
<1> QED
  BY <1>1, <1>2

(* Unless a step locks the object for another thread, only the worker that was *)
(* in its request phase before is in it afterwards.                            *)
LEMMA SamePhase ==
    ASSUME LockInv, LockInv', UNCHANGED thread, locked' => locked
    PROVE  \A v \in Workers : pc'[v] \in RequestPhase => pc[v] \in RequestPhase
  BY DEF LockInv

--------------------------------------------------------------------------------
(* A patch that waits for the thread of a request to end before it sends the   *)
(* next command has one request at a time.  Then more holds of the lock, the   *)
(* curl handles, the report and the data.                                      *)

(* A command waits until all other threads are over, and no step undoes that.  *)
LEMMA AloneStep ==
    ASSUME Delays, TypeOK, OneRequestAtATime, [Next]_vars
    PROVE  OneRequestAtATime'
<1> USE DEF OneRequestAtATime
<1>1. CASE Handler
  <2>1. CASE UNCHANGED pc
    BY <2>1
  <2>2. ASSUME NEW w \in Workers, HandlerStarts(w) PROVE OneRequestAtATime'
    BY <2>2 DEF HandlerStarts, MayStart, Goto, TypeOK, Over
  <2>3. ASSUME NEW w \in Workers, Aborted(w) PROVE OneRequestAtATime'
    BY <2>3 DEF Aborted, Goto, TypeOK, Over
  <2> QED
    BY <1>1, <2>1, <2>2, <2>3, HandlerEffect
<1>2. ASSUME NEW w \in Workers, Working(w) PROVE OneRequestAtATime'
  BY <1>2, WorkerMoves DEF Goto, TypeOK, Over
<1>3. CASE UNCHANGED vars
  BY <1>3 DEF vars
<1> QED
  BY <1>1, <1>2, <1>3 DEF Next, Working, Idle

(* So there is never a second one.                                             *)
LEMMA AloneInvariant == ASSUME Delays PROVE Spec => []OneRequestAtATime
<1>1. Init => OneRequestAtATime
  BY DEF Init, OneRequestAtATime, Over
<1>2. TypeOK /\ OneRequestAtATime /\ [Next]_vars => OneRequestAtATime'
  BY AloneStep
<1> QED
  BY <1>1, <1>2, TypeCorrect, PTL DEF Spec

(* A patch that waits for the last thread to end has one request under way at  *)
(* any time, even where a cancel does not end the thread at once.              *)
THEOREM OneThread == ASSUME Delays PROVE Spec => []OneRequestAtATime
  BY AloneInvariant

--------------------------------------------------------------------------------
(* The lock, with a cancel on Windows too.                                     *)

(* A worker's step leaves the lock byte alone, or opens the object and ends its request.*)
LEMMA WorkerLocked ==
    ASSUME NEW w \in Workers, Working(w)
    PROVE  \/ UNCHANGED locked /\ \E to : /\ Goto(w, to)
                                          /\ to \in RequestPhase <=> pc[w] \in RequestPhase
           \/ ~locked' /\ \E to : to \notin RequestPhase /\ Goto(w, to)
<1> USE DEF RequestPhase, Starting, CancelRegion, Step
<1>1. CASE Libcurl(w) \/ TimesOut(w)
  BY <1>1 DEF Libcurl, Receive, ServerAnswers, ServerRefuses, ConnectionFails, TimesOut,
              TransferEnds, Performing
<1>2. CASE Locking(w)
  <2>1. CASE ReportNoCurl(w) \/ WriteMemoryFails(w)
    BY <2>1 DEF ReportNoCurl, WriteMemoryFails, TransferEnds, Unlock
  <2>2. CASE BeginStream(w) \/ BeginErrorReport(w)
    BY <2>2 DEF BeginStream, BeginErrorReport
  <2>3. CASE BeginReport(w)
    <3>1. (Goto(w, "data") \/ Goto(w, "status")) /\ pc[w] \notin RequestPhase /\ UNCHANGED locked
      BY <2>3 DEF BeginReport
    <3> QED
      BY <3>1
  <2> QED
    BY <1>2, <2>1, <2>2, <2>3 DEF Locking
<1>3. CASE Running(w)
  <2>1. CASE InitEasy(w) \/ InitMulti(w) \/ Prepare(w)
    BY <2>1 DEF InitEasy, InitMulti, Prepare
  <2>2. CASE \/ PerformError(w) \/ WriteCleared(w) \/ WriteMemory(w) \/ NotBlocking(w)
             \/ NotStreaming(w) \/ Streaming(w)
    BY <2>2 DEF PerformError, WriteCleared, WriteMemory, NotBlocking, NotStreaming, Streaming,
                TransferEnds
  <2>3. CASE \/ EndErrorReport(w) \/ FinishLoop(w) \/ LeaveLoop(w) \/ CleanupRequest(w)
             \/ ReadMessage(w) \/ CleanupEasy(w) \/ CleanupMulti(w)
    BY <2>3 DEF EndErrorReport, FinishLoop, LeaveLoop, CleanupRequest, Unlock, ReadMessage,
                CleanupEasy, CleanupMulti
  <2> QED
    BY <1>3, <2>1, <2>2, <2>3 DEF Running
<1>4. CASE Returning(w)
  BY <1>4 DEF Returning, EndStream, BangAfterData, EndReport
<1>5. CASE Exiting(w)
  BY <1>5 DEF Exiting, Abort, Aborted, ExitThread, PthreadExit, AbortHandler
<1> QED
  BY <1>1, <1>2, <1>3, <1>4, <1>5 DEF Working

(* Every step keeps the lock byte right, on both platforms.                    *)
LEMMA DelayLock ==
    ASSUME TypeOK, OneRequestAtATime, LockHeld, [Next]_vars
    PROVE  LockHeld'
<1>0. RequestPhase \cap Over = {}
  BY DEF RequestPhase, Starting, CancelRegion, Over
<1>1. CASE Handler
  <2>1. CASE UNCHANGED <<locked, pc>>
    BY <2>1 DEF LockHeld
  <2>2. ASSUME NEW w \in Workers, HandlerStarts(w) PROVE LockHeld'
    BY <2>2 DEF LockHeld, HandlerStarts, Goto, TypeOK, RequestPhase, Starting
  <2>3. ASSUME NEW w \in Workers, pc[w] \in CancelRegion, Aborted(w) PROVE LockHeld'
    BY <1>0, <2>3 DEF LockHeld, OneRequestAtATime, Aborted, Goto, TypeOK, RequestPhase,
                      Starting, CancelRegion
  <2> QED
    BY <1>1, <2>1, <2>2, <2>3, HandlerEffect
<1>2. ASSUME NEW w \in Workers, Working(w) PROVE LockHeld'
  <2>1. pc[w] \notin Over
    BY <1>2, WorkerMoves
  <2>2. \A v \in Workers \ {w} : pc[v] \notin RequestPhase
    BY <1>0, <2>1 DEF OneRequestAtATime
  <2>3. CASE UNCHANGED locked /\ \E to : /\ Goto(w, to)
                                         /\ to \in RequestPhase <=> pc[w] \in RequestPhase
    <3>1. PICK to : Goto(w, to) /\ (to \in RequestPhase <=> pc[w] \in RequestPhase)
      BY <2>3
    <3> QED
      BY <2>3, <3>1 DEF LockHeld, Goto, TypeOK
  <2>4. CASE ~locked' /\ \E to : to \notin RequestPhase /\ Goto(w, to)
    <3>1. PICK to : to \notin RequestPhase /\ Goto(w, to)
      BY <2>4
    <3> QED
      BY <2>2, <2>4, <3>1 DEF LockHeld, Goto, TypeOK
  <2> QED
    BY <1>2, <2>3, <2>4, WorkerLocked
<1>3. CASE UNCHANGED vars
  BY <1>3 DEF vars, LockHeld
<1> QED
  BY <1>1, <1>2, <1>3 DEF Next, Working, Idle

(* If the patch waits for the thread to end, the object is locked exactly      *)
(* while a thread works on a request: also on Windows, where a cancelled       *)
(* thread runs the cleanup handler, which opens the object, twice.             *)
THEOREM LockHeldWithDelays == ASSUME Delays PROVE Spec => []LockHeld
<1>1. Init => LockHeld
  BY DEF Init, LockHeld, RequestPhase, Starting, CancelRegion
<1>2. TypeOK /\ OneRequestAtATime /\ LockHeld /\ [Next]_vars => LockHeld'
  BY DelayLock
<1> QED
  BY <1>1, <1>2, TypeCorrect, AloneInvariant, PTL DEF Spec

--------------------------------------------------------------------------------
(* The curl handles.  What a worker finds in easyHandle and multiHandle, and   *)
(* what has become of its own handles, at each stage of its request.  It is    *)
(* not the same all along: without a multi handle a request can be prepared,   *)
(* and libcurl called, but nothing comes of it.                                *)

Equipped == {"prepare", "performed"} \cup CancelRegion \cup (OutputPhase \ {"dispose_multi"})
Trying   == {"prepare", "perform", "error", "reporting"}
Attached == {"performed"} \cup (CancelRegion \ Trying) \cup OutputPhase

HandlesOf(w) ==
    /\ pc[w] \in {"unborn", "authorise", "created"} => easy[w] = "none" /\ multi[w] = "none"
    /\ pc[w] = "easy" => /\ multi[w] = "none"
                         /\ \/ easyHandle = None /\ easy[w] = "none"
                            \/ easyHandle = w /\ easy[w] = "live"
    /\ pc[w] = "no_easy" => easy[w] = "none"
    /\ pc[w] \in Equipped => easyHandle = w /\ easy[w] = "live"
    /\ pc[w] \in Trying => multiHandle = None \/ (multiHandle = w /\ multi[w] = "live")
    /\ pc[w] \in Attached => multiHandle = w /\ multi[w] = "live"
    /\ pc[w] = "dispose_multi" => easy[w] = "cleaned"
    /\ pc[w] = "ended" /\ easy[w] # "none" => easy[w] = "cleaned" /\ multi[w] = "cleaned"

(* What the transfer came to is known when the loop ends, and is read once.    *)
ResultOf(w) ==
    /\ pc[w] \in {"finished", "last_error", "last_reporting", "leaving", "performed"} =>
           req[w].result # "none"
    /\ pc[w] \in {"output", "auth", "report", "data"} => req[w].result # "none"
    /\ pc[w] \in {"unborn", "output", "auth"} \cup RequestPhase => ~req[w].read

(* A worker's step goes from one stage to the next.                            *)
LEMMA WorkerHandles ==
    ASSUME TypeOK, NEW w \in Workers, HandlesOf(w), ResultOf(w), Working(w)
    PROVE  HandlesOf(w)'
<1> USE NamesAssumption DEF Step, Goto, flags, handles, body, patch, HandlesOf, Equipped, Trying, Attached,
        CancelRegion, OutputPhase
<1>0. /\ pc \in [Workers -> States] /\ easy \in [Workers -> {"none", "live", "cleaned"}]
      /\ multi \in [Workers -> {"none", "live", "cleaned"}]
  BY DEF TypeOK
<1>1. CASE Libcurl(w) \/ TimesOut(w)
  BY <1>0, <1>1 DEF Libcurl, Receive, ServerAnswers, ServerRefuses, ConnectionFails, TimesOut,
              TransferEnds, Performing
<1>2. CASE Locking(w)
  <2>1. CASE ReportNoCurl(w) \/ WriteMemoryFails(w)
    BY <1>0, <2>1 DEF ReportNoCurl, WriteMemoryFails, TransferEnds
  <2>2. CASE BeginStream(w) \/ BeginErrorReport(w) \/ BeginReport(w)
    BY <1>0, <2>2 DEF BeginStream, BeginErrorReport, BeginReport
  <2> QED
    BY <1>2, <2>1, <2>2 DEF Locking
<1>3. CASE Running(w)
  <2>1. CASE InitEasy(w)
    BY <1>0, <2>1 DEF InitEasy
  <2>2. CASE InitMulti(w)
    BY <1>0, <2>2 DEF InitMulti
  <2>3. CASE Prepare(w) \/ PerformError(w)
    BY <1>0, <2>3 DEF Prepare, PerformError
  <2>4. CASE WriteCleared(w) \/ WriteMemory(w) \/ NotBlocking(w) \/ NotStreaming(w) \/ Streaming(w)
    BY <1>0, <2>4 DEF WriteCleared, WriteMemory, NotBlocking, NotStreaming, Streaming, TransferEnds
  <2>5. CASE EndErrorReport(w) \/ FinishLoop(w) \/ LeaveLoop(w) \/ CleanupRequest(w)
    BY <1>0, <2>5 DEF EndErrorReport, FinishLoop, LeaveLoop, CleanupRequest
  <2>6. CASE ReadMessage(w)
    BY <1>0, <2>6 DEF ReadMessage, HasMessage, ResultOf
  <2>7. CASE CleanupEasy(w) \/ CleanupMulti(w)
    BY <1>0, <2>7 DEF CleanupEasy, CleanupMulti
  <2> QED
    BY <1>3, <2>1, <2>2, <2>3, <2>4, <2>5, <2>6, <2>7 DEF Running
<1>4. CASE Returning(w)
  BY <1>0, <1>4 DEF Returning, EndStream, BangAfterData, EndReport
<1>5. CASE Exiting(w)
  BY <1>0, <1>5 DEF Exiting, Abort, Aborted, ExitThread, PthreadExit
<1> QED
  BY <1>1, <1>2, <1>3, <1>4, <1>5 DEF Working

--------------------------------------------------------------------------------
(* The report.  What the transfer came to is what goes out.                    *)

Reported(w) == \/ pc[w] \in {"status", "dispose", "dispose_multi"}
               \/ pc[w] = "ended" /\ easy[w] # "none"

ReportOf(w) ==
    /\ pc[w] \in {"report", "data"} => req[w].kind = Expected(req[w].result)
    /\ pc[w] = "data" => req[w].kind = "bang"
    /\ Reported(w) => req[w].result # "none" /\ req[w].status = Expected(req[w].result)

(* The handles the worker of a request finds when it reads the message are     *)
(* those of its own transfer, so that the kind of report is the expected one.  *)
LEMMA OwnKind ==
    ASSUME TypeOK, NEW w \in Workers, req[w].result # "none", NEW kind \in Kinds(w, w)
    PROVE  kind = Expected(req[w].result)
  BY DEF Kinds, Expected, TypeOK, RequestRecord

Chunks(w)  == <<req[w].received, req[w].mem, req[w].shown>>
Outcome(w) == <<req[w].result, req[w].read, req[w].kind, req[w].status>>

(* What becomes of a worker's own record when one field of it is set.          *)
LEMMA OwnRecord ==
    ASSUME req \in Locals, NEW w \in Workers, NEW x
    PROVE  /\ req' = [req EXCEPT ![w].received = x] =>
                  /\ req'[w].received = x
                  /\ UNCHANGED <<req[w].mem, req[w].shown, req[w].toFile, Outcome(w)>>
           /\ req' = [req EXCEPT ![w].mem = x] =>
                  /\ req'[w].mem = x
                  /\ UNCHANGED <<req[w].received, req[w].shown, req[w].toFile, Outcome(w)>>
           /\ req' = [req EXCEPT ![w].shown = x] =>
                  /\ req'[w].shown = x
                  /\ UNCHANGED <<req[w].received, req[w].mem, req[w].toFile, Outcome(w)>>
           /\ req' = [req EXCEPT ![w].result = x] =>
                  /\ req'[w].result = x
                  /\ UNCHANGED <<Chunks(w), req[w].toFile, req[w].read, req[w].kind, req[w].status>>
           /\ req' = [req EXCEPT ![w].status = x] =>
                  /\ req'[w].status = x
                  /\ UNCHANGED <<Chunks(w), req[w].toFile, req[w].result, req[w].read, req[w].kind>>
<1> USE DEF Locals, RequestRecord, Chunks, Outcome
<1>1. req' = [req EXCEPT ![w].received = x] =>
          /\ req'[w].received = x
          /\ UNCHANGED <<req[w].mem, req[w].shown, req[w].toFile, Outcome(w)>>
  OBVIOUS
<1>2. req' = [req EXCEPT ![w].mem = x] =>
          /\ req'[w].mem = x
          /\ UNCHANGED <<req[w].received, req[w].shown, req[w].toFile, Outcome(w)>>
  OBVIOUS
<1>3. req' = [req EXCEPT ![w].shown = x] =>
          /\ req'[w].shown = x
          /\ UNCHANGED <<req[w].received, req[w].mem, req[w].toFile, Outcome(w)>>
  OBVIOUS
<1>4. req' = [req EXCEPT ![w].result = x] =>
          /\ req'[w].result = x
          /\ UNCHANGED <<Chunks(w), req[w].toFile, req[w].read, req[w].kind, req[w].status>>
  OBVIOUS
<1>5. req' = [req EXCEPT ![w].status = x] =>
          /\ req'[w].status = x
          /\ UNCHANGED <<Chunks(w), req[w].toFile, req[w].result, req[w].read, req[w].kind>>
  OBVIOUS
<1> QED
  BY <1>1, <1>2, <1>3, <1>4, <1>5

(* Preparing a request touches neither its chunks nor its outcome.             *)
LEMMA PreparedRecord ==
    ASSUME req \in Locals, NEW w \in Workers, Prepare(w)
    PROVE  UNCHANGED <<Chunks(w), Outcome(w)>>
<1>1. PICK t, b : req' = [req EXCEPT ![w].used = settings, ![w].toFile = t, ![w].body = b]
  BY DEF Prepare
<1> QED
  BY <1>1 DEF Locals, RequestRecord, Chunks, Outcome

(* A worker's step leads from one stage of the report to the next.             *)
LEMMA WorkerReport ==
    ASSUME TypeOK, NEW w \in Workers, HandlesOf(w), ResultOf(w), Working(w)
    PROVE  ResultOf(w)' /\ (ReportOf(w) => ReportOf(w)')
<1> USE DEF Step, Goto, flags, handles, body, patch, ResultOf, ReportOf, Reported, RequestPhase, Starting,
            CancelRegion, Outcome
<1>0. /\ pc \in [Workers -> States] /\ req \in Locals
  BY DEF TypeOK, Locals
<1>1. CASE Libcurl(w) \/ TimesOut(w)
  BY <1>0, <1>1, OwnRecord DEF Libcurl, Receive, ServerAnswers, ServerRefuses, ConnectionFails,
              TimesOut, TransferEnds, Performing
<1>2. CASE Locking(w)
  <2>1. CASE ReportNoCurl(w)
    BY <1>0, <2>1 DEF ReportNoCurl, HandlesOf
  <2>2. CASE WriteMemoryFails(w)
    BY <1>0, <2>2, OwnRecord DEF WriteMemoryFails, TransferEnds
  <2>3. CASE BeginStream(w) \/ BeginErrorReport(w)
    BY <1>0, <2>3, OwnRecord DEF BeginStream, BeginErrorReport
  <2>4. CASE BeginReport(w)
    BY <1>0, <2>4, OwnRecord DEF BeginReport
  <2> QED
    BY <1>2, <2>1, <2>2, <2>3, <2>4 DEF Locking
<1>3. CASE Running(w)
  <2>1. CASE InitEasy(w) \/ InitMulti(w) \/ PerformError(w)
    BY <1>0, <2>1 DEF InitEasy, InitMulti, PerformError
  <2>2. CASE Prepare(w)
    BY <1>0, <2>2, PreparedRecord DEF Prepare
  <2>3. CASE WriteCleared(w) \/ WriteMemory(w) \/ NotBlocking(w) \/ NotStreaming(w) \/ Streaming(w)
    <3>1. CASE WriteCleared(w) \/ NotStreaming(w)
      BY <1>0, <3>1, OwnRecord DEF WriteCleared, NotStreaming, TransferEnds
    <3>2. CASE WriteMemory(w)
      BY <1>0, <3>2, OwnRecord DEF WriteMemory
    <3>3. CASE NotBlocking(w) \/ Streaming(w)
      BY <1>0, <3>3 DEF NotBlocking, Streaming
    <3> QED
      BY <2>3, <3>1, <3>2, <3>3
  <2>4. CASE EndErrorReport(w) \/ FinishLoop(w) \/ LeaveLoop(w) \/ CleanupRequest(w)
    BY <1>0, <2>4 DEF EndErrorReport, FinishLoop, LeaveLoop, CleanupRequest
  <2>5. CASE ReadMessage(w)
    <3>1. multiHandle = w /\ easyHandle = w /\ multi[w] = "live" /\ pc[w] = "output"
      BY <2>5 DEF ReadMessage, HandlesOf, Equipped, Attached, OutputPhase
    <3>2. HasMessage(multiHandle)
      BY <3>1 DEF HasMessage
    <3>3. PICK kind \in Kinds(w, w) : req' = [req EXCEPT ![w].read = TRUE, ![w].kind = kind]
      BY <2>5, <3>1, <3>2 DEF ReadMessage
    <3>4. req'[w].result = req[w].result /\ req'[w].kind = kind
      BY <1>0, <3>3 DEF Locals, RequestRecord
    <3>5. kind = Expected(req'[w].result)
      BY <3>1, <3>3, <3>4, OwnKind
    <3>6. pc'[w] = "report"
      BY <1>0, <2>5, <3>2 DEF ReadMessage
    <3> QED
      BY <3>1, <3>4, <3>5, <3>6
  <2>6. CASE CleanupEasy(w) \/ CleanupMulti(w)
    BY <1>0, <2>6 DEF CleanupEasy, CleanupMulti, HandlesOf
  <2> QED
    BY <1>3, <2>1, <2>2, <2>3, <2>4, <2>5, <2>6 DEF Running
<1>4. CASE Returning(w)
  BY <1>0, <1>4, OwnRecord DEF Returning, EndStream, BangAfterData, EndReport
<1>5. CASE Exiting(w)
  BY <1>0, <1>5 DEF Exiting, Abort, Aborted, ExitThread, PthreadExit
<1> QED
  BY <1>1, <1>2, <1>3, <1>4, <1>5 DEF Working

--------------------------------------------------------------------------------
(* A worker that finds its own handles leaves the handles and the records of   *)
(* the other workers alone.                                                    *)
LEMMA OthersHandles ==
    ASSUME TypeOK, NEW w \in Workers, HandlesOf(w), Working(w), NEW v \in Workers \ {w}
    PROVE  UNCHANGED <<easy[v], multi[v]>>
<1> USE DEF TypeOK, Step, handles
<1>1. CASE \/ Libcurl(w) \/ TimesOut(w) \/ Locking(w) \/ Returning(w) \/ Exiting(w)
  <2>1. UNCHANGED handles
    BY <1>1 DEF Libcurl, Receive, ServerAnswers, ServerRefuses, ConnectionFails, TimesOut,
                TransferEnds, Locking, ReportNoCurl, WriteMemoryFails, BeginStream, BeginErrorReport,
                BeginReport, Returning, EndStream, BangAfterData, EndReport, Exiting, Abort,
                ExitThread, PthreadExit, AbortHandler
  <2> QED
    BY <2>1
<1>2. CASE Running(w)
  <2>1. CASE InitEasy(w) \/ InitMulti(w)
    BY <2>1 DEF InitEasy, InitMulti
  <2>2. CASE CleanupEasy(w) \/ CleanupMulti(w)
    BY <2>2 DEF CleanupEasy, CleanupMulti, HandlesOf, Equipped, Attached, OutputPhase
  <2>3. CASE \/ Prepare(w) \/ PerformError(w) \/ WriteCleared(w) \/ WriteMemory(w) \/ NotBlocking(w)
             \/ NotStreaming(w) \/ Streaming(w) \/ EndErrorReport(w) \/ FinishLoop(w)
             \/ LeaveLoop(w) \/ CleanupRequest(w) \/ ReadMessage(w)
    <3>1. UNCHANGED handles
      BY <2>3 DEF Prepare, PerformError, WriteCleared, WriteMemory, NotBlocking, NotStreaming,
                  Streaming, EndErrorReport, FinishLoop, LeaveLoop, CleanupRequest, ReadMessage,
                  TransferEnds
    <3> QED
      BY <3>1
  <2> QED
    BY <1>2, <2>1, <2>2, <2>3 DEF Running
<1> QED
  BY <1>1, <1>2 DEF Working

(* A worker writes no record but its own.                                      *)
LEMMA OthersRecords ==
    ASSUME TypeOK, NEW w \in Workers, HandlesOf(w), Working(w), NEW v \in Workers \ {w}
    PROVE  UNCHANGED <<pc[v], req[v]>>
<1>1. UNCHANGED pc[v]
  BY WorkerMoves DEF Goto, TypeOK
<1>2. CASE Prepare(w)
  <2>1. PICK t, b : req' = [req EXCEPT ![w].used = settings, ![w].toFile = t, ![w].body = b]
    BY <1>2 DEF Prepare
  <2> QED
    BY <1>1, <2>1 DEF TypeOK
<1>3. CASE ReadMessage(w)
  <2>1. multiHandle = w
    BY <1>3 DEF ReadMessage, HandlesOf, Attached, OutputPhase
  <2>2. CASE HasMessage(multiHandle)
    <3>1. PICK kind : req' = [req EXCEPT ![w].read = TRUE, ![w].kind = kind]
      BY <1>3, <2>1, <2>2 DEF ReadMessage
    <3> QED
      BY <1>1, <3>1 DEF TypeOK
  <2> QED
    BY <1>1, <1>3, <2>2 DEF ReadMessage
<1>4. CASE OneField(w)
  <2>1. PICK x : OneFieldIs(w, x)
    BY <1>4 DEF OneField
  <2> QED
    BY <1>1, <2>1 DEF OneFieldIs, TypeOK
<1> QED
  BY <1>2, <1>3, <1>4, WorkerUpdates

(* Everything about the request of a worker, at any time.                      *)
HandlesInv == \A w \in Workers : HandlesOf(w) /\ ResultOf(w)
ReportInv  == \A w \in Workers : ReportOf(w)
RequestInv == HandlesInv /\ ReportInv

(* What is said of a worker, before and after a step.                          *)
Carried(w) == HandlesOf(w)' /\ ResultOf(w)' /\ (ReportOf(w) => ReportOf(w)')

(* What is said of a worker whose request is over depends on nothing else.     *)
LEMMA StaysOver ==
    ASSUME HandlesInv, NEW v \in Workers, pc[v] \in Over,
           UNCHANGED <<pc[v], easy[v], multi[v], req[v]>>
    PROVE  Carried(v)
<1> USE DEF Over
<1>1. HandlesOf(v)'
  BY DEF HandlesInv, HandlesOf, Equipped, Trying, Attached, CancelRegion, OutputPhase
<1>2. ResultOf(v)' /\ (ReportOf(v) => ReportOf(v)')
  BY DEF HandlesInv, ResultOf, ReportOf, Reported, RequestPhase, Starting, CancelRegion
<1> QED
  BY <1>1, <1>2 DEF Carried

(* All this is kept by every step, as there is one worker at a time.           *)
LEMMA RequestStep ==
    ASSUME TypeOK, OneRequestAtATime, HandlesInv, [Next]_vars
    PROVE  HandlesInv' /\ (ReportInv => ReportInv')
<1>0. SUFFICES \A w \in Workers : Carried(w)
  BY DEF HandlesInv, ReportInv, Carried
<1>1. CASE Handler
  <2>1. UNCHANGED handles
    BY <1>1, HandlerEffect
  <2>2. ASSUME NEW v \in Workers, UNCHANGED <<pc[v], req[v]>> PROVE Carried(v)
    BY <2>1, <2>2 DEF HandlesInv, HandlesOf, ResultOf, ReportOf, Reported, Carried, handles
  <2>3. CASE UNCHANGED <<pc, req>>
    BY <2>2, <2>3
  <2>4. ASSUME NEW w \in Workers, HandlerStarts(w) PROVE \A v \in Workers : Carried(v)
    <3>1. PICK x, o : req' = [req EXCEPT ![w].verb = x, ![w].asked = o]
      BY <2>4 DEF HandlerStarts
    <3>2. \A v \in Workers \ {w} : UNCHANGED <<pc[v], req[v]>>
      BY <2>4, <3>1 DEF HandlerStarts, Goto, TypeOK
    <3>3. pc[w] = "unborn" /\ pc'[w] = "created" /\ req'[w].read = req[w].read
      BY <2>4, <3>1 DEF HandlerStarts, MayStart, Goto, TypeOK, RequestRecord
    <3>4. Carried(w)
      BY <2>1, <3>3 DEF HandlesInv, HandlesOf, ResultOf, ReportOf, Reported, Carried, Equipped, Trying,
                        Attached, CancelRegion, OutputPhase, handles
    <3> QED
      BY <2>2, <3>2, <3>4
  <2>5. ASSUME NEW w \in Workers, Aborted(w) PROVE \A v \in Workers : Carried(v)
    <3>1. \A v \in Workers \ {w} : UNCHANGED <<pc[v], req[v]>>
      BY <2>5 DEF Aborted, Goto, TypeOK
    <3>2. pc'[w] = "aborted"
      BY <2>5 DEF Aborted, Goto, TypeOK
    <3>3. Carried(w)
      BY <3>2 DEF HandlesOf, ResultOf, ReportOf, Reported, Carried, Equipped, Trying, Attached,
                  CancelRegion, OutputPhase, RequestPhase, Starting
    <3> QED
      BY <2>2, <3>1, <3>3
  <2> QED
    BY <1>1, <2>3, <2>4, <2>5, HandlerEffect
<1>2. ASSUME NEW w \in Workers, Working(w) PROVE \A v \in Workers : Carried(v)
  <2>1. HandlesOf(w) /\ ResultOf(w)
    BY DEF HandlesInv
  <2>2. Carried(w)
    BY <1>2, <2>1, WorkerHandles, WorkerReport DEF Carried
  <2>3. ASSUME NEW v \in Workers \ {w} PROVE Carried(v)
    <3>1. pc[v] \in Over
      BY <1>2, WorkerMoves DEF OneRequestAtATime
    <3>2. UNCHANGED <<pc[v], easy[v], multi[v], req[v]>>
      BY <1>2, <2>1, OthersHandles, OthersRecords
    <3> QED
      BY <3>1, <3>2, StaysOver
  <2> QED
    BY <2>2, <2>3
<1>3. CASE UNCHANGED vars
  BY <1>3 DEF vars, handles, HandlesInv, HandlesOf, ResultOf, ReportOf, Reported, Carried
<1> QED
  BY <1>1, <1>2, <1>3 DEF Next, Working, Idle

(* Before the first request there is nothing to say of any worker.             *)
LEMMA InitRequest == Init => RequestInv
  BY DEF Init, Blank, RequestInv, HandlesInv, ReportInv, HandlesOf, ResultOf, ReportOf, Reported,
         Equipped, Trying, Attached, CancelRegion, OutputPhase

(* So it holds in every reachable state.                                       *)
LEMMA RequestInvariant == ASSUME Delays PROVE Spec => []RequestInv
<1>1. TypeOK /\ OneRequestAtATime /\ RequestInv /\ [Next]_vars => RequestInv'
  BY RequestStep DEF RequestInv
<1> QED
  BY <1>1, InitRequest, TypeCorrect, AloneInvariant, PTL DEF Spec

(* If the patch waits for the thread to end, no worker hands libcurl a handle  *)
(* that has been cleaned up, neither for the transfer nor when it reads the    *)
(* message or cleans up itself, whatever was cancelled or failed before.       *)
THEOREM HandlesStayLive == ASSUME Delays PROVE Spec => []HandlesLive
<1>1. RequestInv => HandlesLive
  BY DEF RequestInv, HandlesInv, HandlesOf, HandlesLive, Equipped, Trying, Attached, CancelRegion, OutputPhase
<1> QED
  BY <1>1, RequestInvariant, PTL

(* And a thread that comes to its end has cleaned up the handles it created,   *)
(* unless it could not create an easy handle.                                  *)
THEOREM HandlesAreReclaimed == ASSUME Delays PROVE Spec => []HandlesReclaimed
<1>1. RequestInv => HandlesReclaimed
  BY DEF RequestInv, HandlesInv, HandlesOf, HandlesReclaimed
<1> QED
  BY <1>1, RequestInvariant, PTL

(* Every request that was not cancelled ends with one report: the one of its   *)
(* own transfer.                                                               *)
THEOREM RequestsReport == ASSUME Delays PROVE Spec => []EveryRequestReports
<1>1. RequestInv => EveryRequestReports
  BY DEF RequestInv, ReportInv, ReportOf, Reported, EveryRequestReports
<1> QED
  BY <1>1, RequestInvariant, PTL

--------------------------------------------------------------------------------
(* The data.  The chunks that have come are divided between what was streamed  *)
(* and what is kept in memory, each in the order in which it came.             *)

Within(s, n) == \A i \in 1 .. Len(s) : s[i] \in 1 .. n
In(k, s)     == \E i \in 1 .. Len(s) : s[i] = k

Divided(shown, mem, n) ==
    /\ Len(shown) + Len(mem) = n
    /\ Increasing(shown) /\ Within(shown, n)
    /\ Increasing(mem) /\ Within(mem, n)
    /\ \A k \in 1 .. n : In(k, shown) \/ In(k, mem)

(* What DataDelivered asks for, of the data sent out and the part of it that   *)
(* was in memory.                                                              *)
AllOut(shown, mem, n) ==
    LET streamed == Len(shown) - Len(mem)
    IN  /\ Len(shown) = n
        /\ \A k \in 1 .. n : \E i \in 1 .. Len(shown) : shown[i] = k
        /\ Increasing(SubSeq(shown, 1, streamed))
        /\ Increasing(SubSeq(shown, streamed + 1, Len(shown)))

(* No chunks are divided into no chunks.                                       *)
LEMMA NothingDivided == Divided(<<>>, <<>>, 0)
  BY DEF Divided, Within, Increasing

(* The next chunk goes to the end of one of the two.                           *)
LEMMA AppendNext ==
    ASSUME NEW s \in Seq(Nat), NEW n \in Nat, Increasing(s), Within(s, n)
    PROVE  /\ Append(s, n + 1) \in Seq(Nat) /\ Len(Append(s, n + 1)) = Len(s) + 1
           /\ Increasing(Append(s, n + 1)) /\ Within(Append(s, n + 1), n + 1)
           /\ In(n + 1, Append(s, n + 1))
           /\ \A k \in Nat : In(k, s) => In(k, Append(s, n + 1))
<1> DEFINE t == Append(s, n + 1)
<1>1. /\ t \in Seq(Nat) /\ Len(t) = Len(s) + 1
      /\ \A i \in 1 .. Len(s) : t[i] = s[i]
      /\ t[Len(s) + 1] = n + 1
  OBVIOUS
<1> HIDE DEF t
<1>2. Increasing(t)
  <2> SUFFICES ASSUME NEW i \in 1 .. Len(t), NEW j \in 1 .. Len(t), i < j PROVE t[i] < t[j]
    BY DEF Increasing
  <2>1. i \in 1 .. Len(s)
    BY <1>1
  <2>2. CASE j \in 1 .. Len(s)
    BY <1>1, <2>1, <2>2 DEF Increasing
  <2>3. CASE j = Len(s) + 1
    BY <1>1, <2>1, <2>3 DEF Within
  <2> QED
    BY <1>1, <2>2, <2>3
<1>3. Within(t, n + 1)
  BY <1>1 DEF Within
<1>4. In(n + 1, t)
  BY <1>1 DEF In
<1>5. \A k \in Nat : In(k, s) => In(k, t)
  BY <1>1 DEF In
<1> QED
  BY <1>1, <1>2, <1>3, <1>4, <1>5 DEF t

(* The next chunk goes to the end of one of the two parts.                     *)
LEMMA DivideNext ==
    ASSUME NEW s \in Seq(Nat), NEW m \in Seq(Nat), NEW n \in Nat, Divided(s, m, n)
    PROVE  Divided(Append(s, n + 1), m, n + 1) /\ Divided(s, Append(m, n + 1), n + 1)
<1>1. \A k \in 1 .. n + 1 : k \in 1 .. n \/ k = n + 1
  OBVIOUS
<1>2. Within(s, n + 1) /\ Within(m, n + 1)
  BY DEF Divided, Within
<1>3. Divided(Append(s, n + 1), m, n + 1)
  BY <1>1, <1>2, AppendNext DEF Divided
<1>4. Divided(s, Append(m, n + 1), n + 1)
  BY <1>1, <1>2, AppendNext DEF Divided
<1> QED
  BY <1>3, <1>4

(* What is in memory goes out after what was streamed.                         *)
LEMMA DividedGoesOut ==
    ASSUME NEW s \in Seq(Nat), NEW m \in Seq(Nat), NEW n \in Nat, Divided(s, m, n)
    PROVE  AllOut(s \o m, m, n)
<1> DEFINE t == s \o m
<1>1. /\ Len(t) = Len(s) + Len(m) /\ Len(t) = n
      /\ \A i \in 1 .. Len(s) : t[i] = s[i]
      /\ \A i \in 1 .. Len(m) : t[Len(s) + i] = m[i]
      /\ t \in Seq(Nat)
  BY DEF Divided
<1> HIDE DEF t
<1>2. ASSUME NEW k \in 1 .. n PROVE \E i \in 1 .. Len(t) : t[i] = k
  <2>1. CASE In(k, s)
    BY <1>1, <2>1 DEF In
  <2>2. CASE In(k, m)
    <3>1. PICK i \in 1 .. Len(m) : m[i] = k
      BY <2>2 DEF In
    <3>2. Len(s) + i \in 1 .. Len(t) /\ t[Len(s) + i] = k
      BY <1>1, <3>1
    <3> QED
      BY <3>2
  <2> QED
    BY <2>1, <2>2 DEF Divided
<1>3. Increasing(SubSeq(t, 1, Len(s)))
  BY <1>1 DEF Divided, Increasing
<1>4. Increasing(SubSeq(t, Len(s) + 1, Len(t)))
  BY <1>1 DEF Divided, Increasing
<1>5. Len(t) - Len(m) = Len(s)
  BY <1>1
<1>6. AllOut(t, m, n)
  BY <1>1, <1>2, <1>3, <1>4, <1>5 DEF AllOut
<1> QED
  BY <1>6 DEF t

(* Where the data of a worker is at each stage of its request.  Libcurl writes *)
(* the data of a request with a file to the file.                              *)
DataOf(w) ==
    /\ pc[w] \in {"unborn"} \cup Starting =>
           req[w].received = 0 /\ req[w].mem = <<>> /\ req[w].shown = <<>>
    /\ req[w].status = "bang" => pc[w] \in {"status", "dispose", "dispose_multi", "ended"}
    /\ ~req[w].toFile =>
           /\ \/ pc[w] \in {"perform", "error", "reporting", "streaming"}
              \/ /\ pc[w] \in {"finished", "last_error", "last_reporting", "leaving",
                                "performed", "output", "report"}
                 /\ req[w].result = "ok"
              => Divided(req[w].shown, req[w].mem, req[w].received)
           /\ pc[w] \in {"callback", "mode", "stream"} =>
                  /\ req[w].received > 0
                  /\ Divided(req[w].shown, req[w].mem, req[w].received - 1)
           /\ pc[w] = "data" \/ req[w].status = "bang" =>
                  AllOut(req[w].shown, req[w].mem, req[w].received)

(* Reading the result leaves the chunks and the status alone.                  *)
LEMMA ReadRecord ==
    ASSUME req \in Locals, NEW w \in Workers, ReadMessage(w), multiHandle = w
    PROVE  UNCHANGED <<Chunks(w), req[w].toFile, req[w].result, req[w].status>>
<1>1. CASE HasMessage(multiHandle)
  <2>1. PICK kind : req' = [req EXCEPT ![w].read = TRUE, ![w].kind = kind]
    BY <1>1 DEF ReadMessage
  <2> QED
    BY <2>1 DEF Locals, RequestRecord, Chunks
<1>2. CASE ~HasMessage(multiHandle)
  BY <1>2 DEF ReadMessage, Chunks
<1> QED
  BY <1>1, <1>2

(* A worker's step moves its chunks on, and loses none.                        *)
LEMMA WorkerData ==
    ASSUME TypeOK, NEW w \in Workers, HandlesOf(w), ReportOf(w), DataOf(w), Working(w)
    PROVE  DataOf(w)'
<1> USE DEF Step, Goto, flags, handles, body, patch, DataOf, Starting, CancelRegion, Chunks, Outcome
<1>0. /\ pc \in [Workers -> States] /\ req \in Locals
      /\ req[w].received \in Nat /\ req[w].mem \in Seq(Nat) /\ req[w].shown \in Seq(Nat)
  <2>1. Seq(0 .. MaxChunks) \subseteq Seq(Nat)
    BY InputsAssumption
  <2> QED
    BY <2>1 DEF TypeOK, Locals, RequestRecord
<1>1. CASE Libcurl(w) \/ TimesOut(w)
  <2>1. CASE Receive(w)
    <3>1. /\ req'[w].received = req[w].received + 1
          /\ UNCHANGED <<req[w].mem, req[w].shown, req[w].toFile, Outcome(w)>>
      BY <1>0, <2>1, OwnRecord DEF Receive
    <3>2. pc[w] = "perform" /\ pc'[w] = IF req[w].toFile THEN "perform" ELSE "callback"
      BY <1>0, <2>1 DEF Receive, Performing
    <3>3. req'[w].received > 0 /\ req'[w].received - 1 = req[w].received
      BY <1>0, <3>1
    <3> QED
      BY <3>1, <3>2, <3>3
  <2>2. CASE ServerAnswers(w) \/ ServerRefuses(w) \/ ConnectionFails(w) \/ TimesOut(w)
    <3>1. PICK result \in {"ok", "http_error", "curl_error"} : TransferEnds(w, result)
      BY <2>2 DEF ServerAnswers, ServerRefuses, ConnectionFails, TimesOut
    <3>2. req'[w].result = result /\ UNCHANGED <<Chunks(w), req[w].toFile, req[w].status>>
      BY <1>0, <3>1, OwnRecord DEF TransferEnds
    <3>3. pc[w] = "perform" /\ pc'[w] = "finished"
      BY <1>0, <2>2, <3>1 DEF TransferEnds, Performing, ServerAnswers, ServerRefuses, ConnectionFails, TimesOut
    <3> QED
      BY <3>2, <3>3
  <2> QED
    BY <1>1, <2>1, <2>2 DEF Libcurl
<1>2. CASE Locking(w)
  <2>1. CASE ReportNoCurl(w) \/ BeginErrorReport(w)
    BY <1>0, <2>1 DEF ReportNoCurl, BeginErrorReport
  <2>2. CASE WriteMemoryFails(w)
    BY <1>0, <2>2, OwnRecord DEF WriteMemoryFails, TransferEnds
  <2>3. CASE BeginStream(w)
    <3>1. /\ req'[w].shown = Append(req[w].shown, req[w].received)
          /\ UNCHANGED <<req[w].received, req[w].mem, req[w].toFile, Outcome(w)>>
      BY <1>0, <2>3, OwnRecord DEF BeginStream
    <3>2. ~req[w].toFile => Divided(req'[w].shown, req[w].mem, req[w].received)
      <4>1. CASE ~req[w].toFile
        <5>1. req[w].received > 0 /\ Divided(req[w].shown, req[w].mem, req[w].received - 1)
          BY <2>3, <4>1 DEF BeginStream
        <5>2. req[w].received - 1 \in Nat /\ (req[w].received - 1) + 1 = req[w].received
          BY <1>0, <5>1
        <5> QED
          BY <1>0, <3>1, <5>1, <5>2, DivideNext
      <4> QED
        BY <4>1
    <3>3. pc[w] = "stream" /\ pc'[w] = "streaming"
      BY <1>0, <2>3 DEF BeginStream
    <3> QED
      BY <3>1, <3>2, <3>3
  <2>4. CASE BeginReport(w)
    <3>1. pc[w] = "report"
      BY <2>4 DEF BeginReport
    <3>2. CASE req[w].kind = "bang" /\ ~req[w].toFile
      <4>1. req[w].result = "ok"
        BY <1>0, <3>1, <3>2 DEF ReportOf, Expected, Locals, RequestRecord
      <4>2. /\ req'[w].shown = req[w].shown \o req[w].mem
            /\ UNCHANGED <<req[w].received, req[w].mem, req[w].toFile, Outcome(w)>>
        BY <1>0, <2>4, <3>2, OwnRecord DEF BeginReport
      <4>3. AllOut(req'[w].shown, req[w].mem, req[w].received)
        BY <1>0, <3>1, <3>2, <4>1, <4>2, DividedGoesOut
      <4>4. pc'[w] = "data"
        BY <1>0, <2>4, <3>2 DEF BeginReport
      <4> QED
        BY <3>1, <4>2, <4>3, <4>4
    <3>3. CASE ~(req[w].kind = "bang" /\ ~req[w].toFile)
      BY <1>0, <2>4, <3>1, <3>3, OwnRecord DEF BeginReport
    <3> QED
      BY <3>2, <3>3
  <2> QED
    BY <1>2, <2>1, <2>2, <2>3, <2>4 DEF Locking
<1>3. CASE Running(w)
  <2>1. CASE InitEasy(w) \/ InitMulti(w) \/ PerformError(w)
    BY <1>0, <2>1 DEF InitEasy, InitMulti, PerformError
  <2>2. CASE Prepare(w)
    <3>1. UNCHANGED <<Chunks(w), Outcome(w)>>
      BY <1>0, <2>2, PreparedRecord
    <3>2. Divided(req'[w].shown, req'[w].mem, req'[w].received)
      BY <2>2, <3>1, NothingDivided DEF Prepare
    <3>3. pc[w] = "prepare" /\ pc'[w] = "perform"
      BY <1>0, <2>2 DEF Prepare
    <3> QED
      BY <3>1, <3>2, <3>3
  <2>3. CASE WriteCleared(w) \/ NotStreaming(w)
    <3>1. TransferEnds(w, "curl_error") /\ pc[w] \in CancelRegion
      BY <2>3 DEF WriteCleared, NotStreaming
    <3>2. req'[w].result = "curl_error" /\ UNCHANGED <<Chunks(w), req[w].toFile, req[w].status>>
      BY <1>0, <3>1, OwnRecord DEF TransferEnds
    <3> QED
      BY <1>0, <3>1, <3>2 DEF TransferEnds
  <2>4. CASE WriteMemory(w)
    <3>1. /\ req'[w].mem = Append(req[w].mem, req[w].received)
          /\ UNCHANGED <<req[w].received, req[w].shown, req[w].toFile, Outcome(w)>>
      BY <1>0, <2>4, OwnRecord DEF WriteMemory
    <3>2. ~req[w].toFile => Divided(req[w].shown, req'[w].mem, req[w].received)
      <4>1. CASE ~req[w].toFile
        <5>1. req[w].received > 0 /\ Divided(req[w].shown, req[w].mem, req[w].received - 1)
          BY <2>4, <4>1 DEF WriteMemory
        <5>2. req[w].received - 1 \in Nat /\ (req[w].received - 1) + 1 = req[w].received
          BY <1>0, <5>1
        <5> QED
          BY <1>0, <3>1, <5>1, <5>2, DivideNext
      <4> QED
        BY <4>1
    <3>3. pc[w] = "callback" /\ pc'[w] = "perform"
      BY <1>0, <2>4 DEF WriteMemory
    <3> QED
      BY <3>1, <3>2, <3>3
  <2>5. CASE EndErrorReport(w) \/ FinishLoop(w) \/ LeaveLoop(w) \/ CleanupRequest(w)
    BY <1>0, <2>5 DEF EndErrorReport, FinishLoop, LeaveLoop, CleanupRequest
  <2>6. CASE ReadMessage(w)
    <3>1. pc[w] = "output" /\ pc'[w] \in {"report", "ended"}
      BY <1>0, <2>6 DEF ReadMessage
    <3>2. UNCHANGED <<Chunks(w), req[w].toFile, req[w].result, req[w].status>>
      BY <1>0, <2>6, <3>1, ReadRecord DEF HandlesOf, Attached, OutputPhase
    <3> QED
      BY <3>1, <3>2
  <2>7. CASE CleanupEasy(w) \/ CleanupMulti(w)
    BY <1>0, <2>7 DEF CleanupEasy, CleanupMulti
  <2>8. CASE NotBlocking(w) \/ Streaming(w)
    <3>1. pc[w] \in {"callback", "mode"} /\ pc'[w] \in {"mode", "stream"} /\ req' = req
      BY <1>0, <2>8 DEF NotBlocking, Streaming
    <3> QED
      BY <3>1
  <2> QED
    BY <1>3, <2>1, <2>2, <2>3, <2>4, <2>5, <2>6, <2>7, <2>8 DEF Running
<1>4. CASE Returning(w)
  <2>1. CASE EndStream(w) \/ EndReport(w)
    <3>1. \/ pc[w] = "streaming" /\ pc'[w] = "perform"
          \/ pc[w] = "status" /\ pc'[w] = "dispose"
      BY <1>0, <2>1 DEF EndStream, EndReport
    <3>2. req' = req
      BY <2>1 DEF EndStream, EndReport
    <3> QED
      BY <3>1, <3>2
  <2>2. CASE BangAfterData(w)
    <3>1. req'[w].status = "bang" /\ UNCHANGED <<Chunks(w), req[w].toFile, req[w].result>>
      <4>1. req' = [req EXCEPT ![w].status = "bang"]
        BY <2>2 DEF BangAfterData
      <4>2. w \in DOMAIN req /\ "status" \in DOMAIN req[w]
        BY <1>0 DEF Locals, RequestRecord
      <4>3. req'[w] = [req[w] EXCEPT !.status = "bang"]
        BY <4>1, <4>2
      <4> QED
        BY <4>2, <4>3 DEF Chunks
    <3>2. pc[w] = "data" /\ pc'[w] = "status"
      BY <1>0, <2>2 DEF BangAfterData
    <3> QED
      BY <3>1, <3>2
  <2> QED
    BY <1>4, <2>1, <2>2 DEF Returning
<1>5. CASE Exiting(w)
  <2>1. pc'[w] \in {"exiting", "aborted"}
    BY <1>0, <1>5 DEF Exiting, Abort, Aborted, ExitThread, PthreadExit
  <2>2. pc[w] \in CancelRegion \cup {"finished", "exiting"}
    BY <1>5 DEF Exiting, Abort, ExitThread, PthreadExit
  <2>3. \E x : req' = [req EXCEPT ![w].result = x]
    BY <1>5 DEF Exiting, Abort, Aborted, ExitThread, PthreadExit, AbortHandler
  <2>4. UNCHANGED <<Chunks(w), req[w].toFile, req[w].status>>
    BY <1>0, <2>3, OwnRecord
  <2> QED
    BY <2>1, <2>2, <2>4
<1> QED
  BY <1>1, <1>2, <1>3, <1>4, <1>5 DEF Working

(* Every step keeps what is said of the chunks.                                *)
LEMMA DataStep ==
    ASSUME TypeOK, OneRequestAtATime, RequestInv, \A w \in Workers : DataOf(w), [Next]_vars
    PROVE  \A w \in Workers : DataOf(w)'
<1>1. ASSUME NEW v \in Workers, UNCHANGED <<pc[v], req[v]>> PROVE DataOf(v)'
  BY <1>1 DEF DataOf
<1>2. CASE Handler
  <2>1. CASE UNCHANGED <<pc, req>>
    BY <1>1, <2>1
  <2>2. ASSUME NEW w \in Workers, HandlerStarts(w) PROVE \A v \in Workers : DataOf(v)'
    <3>1. PICK x, o : req' = [req EXCEPT ![w].verb = x, ![w].asked = o]
      BY <2>2 DEF HandlerStarts
    <3>2. \A v \in Workers \ {w} : UNCHANGED <<pc[v], req[v]>>
      BY <2>2, <3>1 DEF HandlerStarts, Goto, TypeOK
    <3>3. pc[w] = "unborn" /\ pc'[w] = "created"
      BY <2>2 DEF HandlerStarts, MayStart, Goto, TypeOK
    <3>4. UNCHANGED <<Chunks(w), req[w].status>>
      BY <3>1 DEF TypeOK, RequestRecord, Chunks
    <3>5. DataOf(w)'
      BY <3>3, <3>4 DEF DataOf, Starting, Chunks
    <3> QED
      BY <1>1, <3>2, <3>5
  <2>3. ASSUME NEW w \in Workers, pc[w] \in CancelRegion, Aborted(w)
        PROVE  \A v \in Workers : DataOf(v)'
    <3>1. \A v \in Workers \ {w} : UNCHANGED <<pc[v], req[v]>>
      BY <2>3 DEF Aborted, Goto, TypeOK
    <3>2. pc'[w] = "aborted" /\ UNCHANGED req[w].status
      BY <2>3 DEF Aborted, Goto, TypeOK, RequestRecord
    <3>3. DataOf(w)'
      BY <2>3, <3>2 DEF DataOf, Starting, CancelRegion
    <3> QED
      BY <1>1, <3>1, <3>3
  <2> QED
    BY <1>2, <2>1, <2>2, <2>3, HandlerEffect
<1>3. ASSUME NEW w \in Workers, Working(w) PROVE \A v \in Workers : DataOf(v)'
  <2>1. HandlesOf(w) /\ ReportOf(w)
    BY DEF RequestInv, HandlesInv, ReportInv
  <2>2. DataOf(w)'
    BY <1>3, <2>1, WorkerData
  <2>3. \A v \in Workers \ {w} : UNCHANGED <<pc[v], req[v]>>
    BY <1>3, <2>1, OthersRecords
  <2> QED
    BY <1>1, <2>2, <2>3
<1>4. CASE UNCHANGED vars
  BY <1>1, <1>4 DEF vars
<1> QED
  BY <1>2, <1>3, <1>4 DEF Next, Working, Idle

(* If the patch waits for the thread to end, a request that reports success    *)
(* has sent out every chunk of its data once, the streamed ones before those   *)
(* kept in memory and each in order: the mode may change between any two       *)
(* chunks, and memory, the server or libcurl may fail.                         *)
THEOREM DataIsDelivered == ASSUME Delays PROVE Spec => []DataDelivered
<1> DEFINE DataInv == \A w \in Workers : DataOf(w)
<1>1. Init => DataInv
  <2> SUFFICES ASSUME Init, NEW w \in Workers PROVE DataOf(w)
    OBVIOUS
  <2>1. pc[w] = "unborn" /\ req[w] = Blank
    BY DEF Init
  <2> QED
    BY <2>1 DEF Blank, DataOf
<1>2. TypeOK /\ OneRequestAtATime /\ RequestInv /\ DataInv /\ [Next]_vars => DataInv'
  BY DataStep
<1>3. DataInv => DataDelivered
  BY DEF DataOf, AllOut, DataDelivered
<1> HIDE DEF DataInv
<1> QED
  BY <1>1, <1>2, <1>3, TypeCorrect, AloneInvariant, RequestInvariant, PTL DEF Spec
=============================================================================
