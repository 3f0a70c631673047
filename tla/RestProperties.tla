------------------------------ MODULE RestProperties ------------------------------
(***************************************************************************)
(* What should hold of logins, cookies and base URLs.                      *)
(***************************************************************************)
EXTENDS Rest, CtwProperties

(* The login of the last init has reported its success, and its answer had a   *)
(* cookie, which did not go to the data outlet in streaming mode.              *)
LoggedIn(w) == session = w /\ req[w].status = "bang" /\ visit[w].header = "kept"

(* Once a login with a cookie has been reported, the cookie is included in     *)
(* every request until the next init, as long as the object lives.             *)
CookieIncluded ==
    [][\A v, w \in Workers :
          object = "live" /\ RestPrepare(w) /\ LoggedIn(v) => visit'[w].sent = v]_<<vars, restVars>>

(* A cookie is only ever sent to the server that gave it, however the base URL *)
(* changes.                                                                    *)
CookieOfServer ==
    \A w \in Workers : visit[w].sent # None => visit[w].server = visit[visit[w].sent].server

(* The cookie of a login that has reported its success is kept.                *)
CookieKept == \A w \in Workers : req[w].status = "bang" => visit[w].header # "streamed"

(* Every login that reached libcurl and was not cancelled is reported.         *)
LoginReported ==
    \A w \in Workers : visit[w].login /\ pc[w] = "ended" /\ easy[w] # "none" =>
        req[w].status # "none"

(* A command issued after an empty init goes to the URL it names: no text of   *)
(* an earlier base URL, which was freed, is put before it.                     *)
NoFreedUrl ==
    [][\A w \in Workers, r \in Requests :
          RestCommand(w, r) /\ ~baseUrlLen => visit'[w].server = None]_<<vars, restVars>>
=============================================================================
