----------------------------- MODULE HttpServer -----------------------------
(***************************************************************************)
(* sdk/http_base: httpServer.ServeHTTP and HttpResponse, on top of the     *)
(* event router.                                                           *)
(*                                                                         *)
(* net/http runs ServeHTTP in a goroutine per request.  A request for an   *)
(* unknown path gets 404 at once.  Any other is handed to the router with  *)
(* an empty HttpResponse as (part of) its Context; the registered handler  *)
(* fills that HttpResponse on a route's worker goroutine while ServeHTTP   *)
(* is blocked in SyncHandle.  If SyncHandle says 1, ServeHTTP renders the  *)
(* HttpResponse; otherwise it answers 500 and forgets the HttpResponse,    *)
(* which a handler that is late will still fill.                           *)
(*                                                                         *)
(* A handler is any sequence of calls of HttpResponse's SetData and        *)
(* SetLocation.  Other headers and cookies are left out: setResponseWriter *)
(* sets them after WriteHeader, when net/http no longer sends them.        *)
(***************************************************************************)
EXTENDS EventRoute

CONSTANTS
  Paths,   \* the URL paths clients ask for
  FuncMap  \* the paths AddHttpFunc registered before Initialize

ASSUME HttpServerAssumption == FuncMap \subseteq Paths

Setters == {"SetData", "SetLocation"}
Fields == {"data", "localtion"}

VARIABLES
  conn,  \* conn[r]: where the ServeHTTP goroutine of r is
  url,   \* url[r]: request.URL.Path
  calls, \* calls[r]: the setters r's handler has called
  resp,  \* resp[r]: the fields of r's HttpResponse that are not empty
  wire   \* wire[r]: status line and body net/http has sent for r

httpVars == <<conn, url, calls, resp, wire>>
allVars == <<vars, httpVars>>

NoStatus == 0

HttpTypeOK ==
  /\ TypeOK
  /\ conn \in [Requests -> {"new", "sync", "rendering", "closed"}]
  /\ url \in [Requests -> Paths]
  /\ calls \in [Requests -> SUBSET Setters]
  /\ resp \in [Requests -> SUBSET Fields]
  /\ wire \in [Requests -> [status : {NoStatus, 200, 302, 404, 500}, body : BOOLEAN]]

HttpInit ==
  /\ Init
  /\ conn = [r \in Requests |-> "new"]
  /\ url \in [Requests -> Paths]
  /\ calls = [r \in Requests |-> {}]
  /\ resp = [r \in Requests |-> {}]
  /\ wire = [r \in Requests |-> [status |-> NoStatus, body |-> FALSE]]

-----------------------------------------------------------------------------
(* net/http's ResponseWriter: the first status of a response is the one    *)
(* that is sent, further calls of WriteHeader have no effect.              *)

WriteHeader(w, code) == IF w.status = NoStatus THEN [w EXCEPT !.status = code] ELSE w

-----------------------------------------------------------------------------
(* ServeHTTP for request r.                                                *)

\* Mutant: the return after the 404 is missing.
NotFoundGoesOn(r) ==
  /\ conn[r] = "new"
  /\ url[r] \notin FuncMap
  /\ wire' = [wire EXCEPT ![r] = WriteHeader(@, 404)]
  /\ Call(r)
  /\ conn' = [conn EXCEPT ![r] = "sync"]
  /\ UNCHANGED <<url, calls, resp>>

\* No handler for the path.
NotFound(r) ==
  /\ conn[r] = "new"
  /\ url[r] \notin FuncMap
  /\ wire' = [wire EXCEPT ![r] = WriteHeader(@, 404)]
  /\ conn' = [conn EXCEPT ![r] = "closed"]
  /\ UNCHANGED <<vars, url, calls, resp>>

\* Build the event and call SyncHandle.
Submit(r) ==
  /\ conn[r] = "new"
  /\ url[r] \in FuncMap
  /\ Call(r)
  /\ conn' = [conn EXCEPT ![r] = "sync"]
  /\ UNCHANGED <<url, calls, resp, wire>>

\* SyncHandle returned -1 or 0.
SyncFailed(r) ==
  /\ conn[r] = "sync"
  /\ answer[r] \in {"full", "timeout"}
  /\ wire' = [wire EXCEPT ![r] = WriteHeader(@, 500)]
  /\ conn' = [conn EXCEPT ![r] = "closed"]
  /\ UNCHANGED <<vars, url, calls, resp>>

\* Mutant: the result of SyncHandle is ignored.
RenderAnyway(r) ==
  /\ conn[r] = "sync"
  /\ answer[r] # "none"
  /\ wire' = [wire EXCEPT ![r] = WriteHeader(@, 200)]
  /\ conn' = [conn EXCEPT ![r] = "rendering"]
  /\ UNCHANGED <<vars, url, calls, resp>>

\* SyncHandle returned 1: setResponseWriter starts, the status line first.
RenderHead(r) ==
  /\ conn[r] = "sync"
  /\ answer[r] = "ok"
  /\ wire' = [wire EXCEPT ![r] = WriteHeader(@, 200)]
  /\ conn' = [conn EXCEPT ![r] = "rendering"]
  /\ UNCHANGED <<vars, url, calls, resp>>

\* The rest of setResponseWriter: a redirection, or the data.
RenderBody(r) ==
  /\ conn[r] = "rendering"
  /\ wire' = [wire EXCEPT ![r] =
       IF "localtion" \in resp[r]
       THEN WriteHeader(@, 302)
       ELSE [@ EXCEPT !.body = "data" \in resp[r]]]
  /\ conn' = [conn EXCEPT ![r] = "closed"]
  /\ UNCHANGED <<vars, url, calls, resp>>

-----------------------------------------------------------------------------
(* The handler, called by httpHandle on the worker goroutine of route i.   *)

\* HttpResponse.SetData
SetData(i) ==
  /\ wpc[i] = "handling"
  /\ calls' = [calls EXCEPT ![job[i]] = @ \cup {"SetData"}]
  /\ resp' = [resp EXCEPT ![job[i]] = @ \cup {"data"}]
  /\ UNCHANGED <<vars, conn, url, wire>>

\* HttpResponse.SetLocation assigns its parameter to itself.
SetLocation(i) ==
  /\ wpc[i] = "handling"
  /\ calls' = [calls EXCEPT ![job[i]] = @ \cup {"SetLocation"}]
  /\ UNCHANGED <<vars, conn, url, resp, wire>>

-----------------------------------------------------------------------------
Serve(r) ==
  \/ NotFound(r)
  \/ Submit(r)
  \/ (Posting(r) \/ Waiting(r)) /\ UNCHANGED httpVars
  \/ SyncFailed(r)
  \/ RenderHead(r)
  \/ RenderBody(r)

HttpNext ==
  \/ \E r \in Requests : Serve(r)
  \/ \E i \in Routes : Worker(i) /\ UNCHANGED httpVars
  \/ \E i \in Routes : SetData(i) \/ SetLocation(i)
  \/ Tick /\ UNCHANGED httpVars

HttpSpec == HttpInit /\ [][HttpNext]_allVars

\* As for the router; in addition net/http runs every ServeHTTP goroutine.
HttpFairness ==
  /\ WF_allVars(Tick /\ UNCHANGED httpVars)
  /\ \A r \in Requests : WF_allVars(Serve(r))
  /\ \A i \in Routes : WF_allVars(Worker(i) /\ UNCHANGED httpVars)

HttpFairSpec == HttpSpec /\ HttpFairness

-----------------------------------------------------------------------------
(* Properties.                                                             *)

\* While ServeHTTP reads the HttpResponse, no handler can be writing it, and
\* what the client gets in a 200 is what the finished handler left there.
NoTornResponse ==
  /\ \A r \in Requests, i \in Routes :
       conn[r] = "rendering" => ~(wpc[i] = "handling" /\ job[i] = r)
  /\ \A r \in Requests :
       wire[r].status = 200 /\ conn[r] = "closed" =>
         /\ effect[r] = "complete"
         /\ wire[r].body <=> "data" \in resp[r]

\* Every status tells the truth about the handler: 404 when no handler ran or
\* will run, 200 when it has finished, 500 when SyncHandle gave up.
StatusIsTrue ==
  \A r \in Requests : conn[r] = "closed" =>
    /\ wire[r].status \in {200, 404, 500}
    /\ wire[r].status = 404 <=> url[r] \notin FuncMap
    /\ wire[r].status = 404 => effect[r] = "none" /\ calls[r] = {} /\ ~Queued(r)
    /\ wire[r].status = 200 <=> answer[r] = "ok"

\* Where ServeHTTP is, what it has sent and what SyncHandle told it go together.
\* A path without a handler never reaches the router.
ServeInv ==
  \A r \in Requests :
    /\ conn[r] \in {"new", "sync"} => wire[r].status = NoStatus
    /\ conn[r] = "new" => pc[r] = "idle"
    /\ url[r] \notin FuncMap => pc[r] = "idle" /\ conn[r] \in {"new", "closed"}
    /\ pc[r] = "idle" => calls[r] = {}
    /\ conn[r] = "rendering" => answer[r] = "ok" /\ wire[r].status = 200
    /\ conn[r] = "closed" /\ url[r] \notin FuncMap => wire[r].status = 404
    /\ conn[r] = "closed" /\ url[r] \in FuncMap =>
         \/ answer[r] = "ok" /\ wire[r].status = 200
         \/ answer[r] \in {"full", "timeout"} /\ wire[r].status = 500

\* setResponseWriter sends what the finished handler left, and not a redirection.
BodyInv ==
  \A r \in Requests :
    /\ "localtion" \notin resp[r]
    /\ conn[r] = "closed" /\ wire[r].status = 200 =>
         (wire[r].body <=> "data" \in resp[r])

\* Every request that reaches a ServeHTTP goroutine is answered.
EveryRequestAnswered == \A r \in Requests : conn[r] = "new" ~> conn[r] = "closed"
=============================================================================
