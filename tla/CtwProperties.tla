----------------------------- MODULE CtwProperties -----------------------------
(***************************************************************************)
(* What the request machinery of [rest] and [oauth] promises: the          *)
(* properties of Ctw that TLC checks and CtwProofs proves.                 *)
(***************************************************************************)
EXTENDS Ctw

Kind == {"none", "bang", "float", "list"}

RequestRecord ==
    [verb : {"GET", "PUT", "POST"}, asked : SUBSET Options, used : SUBSET Options,
     body : Workers \cup {None, Unset}, toFile : BOOLEAN, received : 0 .. MaxChunks,
     mem : Seq(0 .. MaxChunks), shown : Seq(0 .. MaxChunks),
     result : {"none", "ok", "http_error", "curl_error"},
     read : BOOLEAN, kind : Kind, status : Kind]

(* Every variable stays within the values the C declarations allow; a worker   *)
(* that reads a handle field finds NULL or a handle some worker created.       *)
TypeOK ==
    /\ locked \in BOOLEAN /\ clearCb \in BOOLEAN /\ exitThread \in BOOLEAN
    /\ mode \in {"blocking", "streaming"}
    /\ thread \in Workers \cup {None}
    /\ easyHandle \in Workers \cup {None} /\ multiHandle \in Workers \cup {None}
    /\ parameters \in Workers \cup {None} /\ parametersLen \in BOOLEAN
    /\ settings \subseteq Options
    /\ object \in {"live", "freed"}
    /\ sysLock \in Workers \cup {Pd, None}
    /\ handler \in {"none", "cancel", "delete", "delete_cancel", "delete_free", "stuck"}
    /\ cancelled \subseteq Workers
    /\ pc \in [Workers -> States]
    /\ easy \in [Workers -> {"none", "live", "cleaned"}]
    /\ multi \in [Workers -> {"none", "live", "cleaned"}]
    /\ req \in [Workers -> RequestRecord]

--------------------------------------------------------------------------------
(* The byte `locked`, tested by every command and cleared by three different   *)
(* pieces of code (ctw_thread_exec, ctw_cleanup_request, the abort handler),   *)
(* is set exactly while some thread is between its creation and its cleanup:   *)
(* the object neither stays locked with nobody working nor opens too early.    *)
LockHeld == locked <=> \E w \in Workers : pc[w] \in RequestPhase

(* Two threads never work on their requests at the same time.                  *)
LockGuardsRequest ==
    \A v, w \in Workers : pc[v] \in RequestPhase /\ pc[w] \in RequestPhase => v = w

(* While libcurl runs, the fields the worker reads again and again point to    *)
(* what it put there itself, whatever the worker of an earlier request, which  *)
(* may still be reporting, and the handlers do: so a cancel hits this thread   *)
(* and curl_multi_perform drives this transfer.                                *)
OwnTransfer ==
    \A w \in Workers : pc[w] \in CancelRegion =>
        thread = w /\ easyHandle = w /\ multiHandle \in {w, None}

(* ctw_prepare, on the worker, applies the options that were set when the      *)
(* command was issued, though handlers may have run in between.                *)
SettingsFrozen ==
    \A w \in Workers : pc[w] \in CancelRegion => req[w].used = req[w].asked

(* A request sends the data of its own command or none, unless the copy for a  *)
(* PUT could not be allocated, and the buffer that libcurl keeps a pointer to  *)
(* (POST) is not freed while the transfer runs.                                *)
OwnBody ==
    \A w \in Workers : pc[w] \in CancelRegion /\ object = "live" =>
        /\ req[w].body \in {None, w, Unset}
        /\ req[w].verb = "POST" /\ req[w].body = w => parameters = w /\ parametersLen

(* A PUT uploads its own data or none, unless a cancelled request has left its *)
(* data behind: whatever messages came, no other text is ever uploaded.  (Not  *)
(* if there is no memory for the copy: what is read then is undefined.)        *)
UploadOwned ==
    \A w \in Workers : pc[w] \in CancelRegion /\ req[w].verb = "PUT" =>
        req[w].body \in {None, w, Unset} \cup cancelled

(* The curl handles a worker is about to use through the object's fields       *)
(* exist: they have not been cleaned up, by itself or by another worker.       *)
HandlesLive ==
    \A w \in Workers :
        /\ pc[w] \in CancelRegion \cup {"dispose"} /\ easyHandle # None =>
               easy[easyHandle] = "live"
        /\ pc[w] \in CancelRegion \cup {"output", "dispose_multi"} /\ multiHandle # None =>
               multi[multiHandle] = "live"

(* A thread that has ended leaves no curl handle behind, unless curl_easy_init *)
(* failed.                                                                     *)
HandlesReclaimed ==
    \A w \in Workers : pc[w] = "ended" /\ easy[w] # "none" =>
        easy[w] = "cleaned" /\ multi[w] = "cleaned"

(* Neither does a thread that was cancelled.                                   *)
CancelReclaims ==
    \A w \in Workers : pc[w] = "aborted" /\ easy[w] # "none" =>
        easy[w] = "cleaned" /\ multi[w] = "cleaned"

(* sys_lock is held by a thread that is on its way to sys_unlock: no thread    *)
(* ends and takes Pd with it.                                                  *)
SysLockHeld == sysLock \in Workers => pc[sysLock] \in Holding

(* The same, but for a thread that was cancelled while it held it: a worker on *)
(* its way through the outlets gives sys_lock back before it ends.             *)
SysLockReturned == sysLock \in Workers \ cancelled => pc[sysLock] \in Holding

(* While one request is processed the object is blocked: at any time at most   *)
(* one thread runs for it.                                                     *)
OneRequestAtATime ==
    \A v, w \in Workers : pc[v] \notin Over /\ pc[w] \notin Over => v = w

(* A thread never runs on with the object it works for freed.                  *)
NoUseAfterFree == object = "freed" => \A w \in Workers : pc[w] \in Over

(* Only the request that a cancel was meant for is aborted.                    *)
OnlyCancelledAbort == \A w \in Workers : pc[w] \in {"exiting", "aborted"} => w \in cancelled

(* pthread_cancel is not called for a thread that has ended: the thread is      *)
(* detached, and what a call does then is undefined.                           *)
CancelHitsThread == [][SignalCancel \/ DeleteCancels => pc[thread] \notin Over]_vars

--------------------------------------------------------------------------------
(* Output                                                                      *)

Increasing(s) == \A i, j \in 1 .. Len(s) : i < j => s[i] < s[j]
Expected(result) == CASE result = "ok" -> "bang"
                      [] result = "http_error" -> "float"
                      [] OTHER -> "list"

(* Every request that reached libcurl ends with exactly the status its own     *)
(* transfer had: a bang, the HTTP status, or the error as a list.              *)
EveryRequestReports ==
    \A w \in Workers : pc[w] = "ended" /\ easy[w] # "none" =>
        req[w].result # "none" /\ req[w].status = Expected(req[w].result)

(* When a request reports success, every chunk of the body has been sent out   *)
(* of the data outlet once: the streamed chunks in their order, then the ones  *)
(* kept in memory in theirs, however the mode changed meanwhile.               *)
DataDelivered ==
    \A w \in Workers : req[w].status = "bang" /\ ~req[w].toFile =>
        LET shown == req[w].shown
            streamed == Len(shown) - Len(req[w].mem)
        IN  /\ Len(shown) = req[w].received
            /\ \A k \in 1 .. req[w].received : \E i \in 1 .. Len(shown) : shown[i] = k
            /\ Increasing(SubSeq(shown, 1, streamed))
            /\ Increasing(SubSeq(shown, streamed + 1, Len(shown)))

(* Setting the mode never makes a running request fail: without any failure    *)
(* around it, no transfer ends with a curl error.                              *)
ModeChangeHarmless == \A w \in Workers : req[w].result # "curl_error"

--------------------------------------------------------------------------------
(* Liveness                                                                    *)

(* A cancelled request ends, though the server never answers.                  *)
CancelEnds == \A w \in Workers : w \in cancelled ~> pc[w] \in Over

(* A handler that has begun returns: Pd is never left waiting for a lock that  *)
(* it holds itself, as it is when init gets a number for its URL.              *)
HandlersReturn == handler # "none" ~> handler = "none"

(* The thread of a request with a timeout ends, though the server never        *)
(* answers: with LockHeld, the object then accepts commands again.             *)
TimeoutEnds ==
    \A w \in Workers : pc[w] = "created" /\ "timeout" \in req[w].asked ~> pc[w] \in Over

(* A response that has arrived completely before any cancel is output: the     *)
(* request reports its success.                                                *)
CompleteResponseIsOutput ==
    \A w \in Workers :
        req[w].result = "ok" /\ w \notin cancelled ~> req[w].status = "bang"
=============================================================================
