---------------------------- MODULE HttpBoundary ----------------------------
(***************************************************************************)
(* The MCP server process (mcp/src/http-server.ts, mcp/src/index.ts): one  *)
(* asynchronous handler per request, which others interleave with wherever *)
(* it awaits, and a shutdown that waits for them for a bounded time.       *)
(*                                                                         *)
(* node:http and the SDK adapter are external: a connection carries one    *)
(* request at a time, the client may go away at any moment, and the        *)
(* adapter may answer, throw, or never return.                             *)
(***************************************************************************)
EXTENDS Naturals, Sequences

CONSTANTS
  Conns,          \* connections clients open
  Requests,       \* the requests they send
  MaxBody,        \* OAM_MAX_REQUEST_BYTES, in chunks
  MaxPerConn,     \* bound: requests on one connection
  None            \* no request

ASSUME RequestsAssumption ==
  \A r \in Requests :
    /\ r.caller \in {"allowed", "host-rejected", "origin-rejected"}
    /\ r.route \in {"/", "/health", "/mcp", "other"}
    /\ r.method \in {"GET", "POST"}
    /\ r.size \in Nat
    /\ r.content \in {"call", "invalid-json", "proto-member", "batch-refused", "listen-refused"}
ASSUME LimitsAssumption == MaxBody \in Nat /\ MaxPerConn \in Nat

(* None is no request, and no line that refuses one. *)
ASSUME NoneAssumption ==
  None \notin Requests \cup
    [status : {200, 403, 404},
     category : {"ok", "not-found", "host-rejected", "origin-rejected"}]

VARIABLES
  process,   \* starting, listening, closing, exited
  exit,      \* how the process ended: "none" while it runs
  grace,     \* the grace timer: off, armed, cleared
  conn,      \* per connection: absent, idle, busy, closed
  served,    \* per connection, the requests it has carried
  request,   \* per connection, its last request
  at,        \* per connection, its handler: none, reading, adapter, answering
  total,     \* per connection, the body chunks read
  sent,      \* per connection, the status of the response, 0 before there is one
  log        \* per connection, the finish lines for its last request

shutdownVars == <<process, exit, grace>>
handlerVars == <<at, total, sent, log>>
vars == <<shutdownVars, conn, served, request, handlerVars>>

Running == process # "exited"

Init ==
  /\ process = "starting" /\ exit = "none" /\ grace = "off"
  /\ conn = [c \in Conns |-> "absent"]
  /\ served = [c \in Conns |-> 0]
  /\ request = [c \in Conns |-> None]
  /\ at = [c \in Conns |-> "none"]
  /\ total = [c \in Conns |-> 0]
  /\ sent = [c \in Conns |-> 0]
  /\ log = [c \in Conns |-> << >>]

-----------------------------------------------------------------------------
(* Answering. *)

Line(status, category) == [status |-> status, category |-> category]

(* The handler is over; a connection still open may be kept alive or not.  *)
Release(c) ==
  /\ at' = [at EXCEPT ![c] = "none"]
  /\ \E next \in IF conn[c] = "closed" THEN {"closed"} ELSE {"idle", "closed"} :
       conn' = [conn EXCEPT ![c] = next]

(* sendJson, finish, return. *)
Answer(c, status, category) ==
  /\ sent' = [sent EXCEPT ![c] = status]
  /\ log' = [log EXCEPT ![c] = Append(@, Line(status, category))]
  /\ Release(c)

(* Slip: a response that has begun is ended and not logged. *)
CatchSilently(c) ==
  /\ sent' = [sent EXCEPT ![c] = IF @ = 0 THEN 500 ELSE @]
  /\ log' = IF sent[c] = 0
            THEN [log EXCEPT ![c] = Append(@, Line(500, "internal-error"))]
            ELSE log
  /\ Release(c)

(* The catch block: a response that has begun is only ended. *)
Catch(c) ==
  /\ sent' = [sent EXCEPT ![c] = IF @ = 0 THEN 500 ELSE @]
  /\ log' = [log EXCEPT ![c] = Append(@, Line(500, "internal-error"))]
  /\ Release(c)

-----------------------------------------------------------------------------
(* What the handler does before it first waits: refused callers and the    *)
(* fixed routes are answered at once.                                      *)
Refusal(r) ==
  IF r.caller # "allowed" THEN Line(403, r.caller)
  ELSE IF r.route \in {"/", "/health"} /\ r.method = "GET" THEN Line(200, "ok")
  ELSE IF r.route # "/mcp" THEN Line(404, "not-found")
  ELSE None

Arrive(c, r) ==
  /\ \/ conn[c] = "absent" /\ process = "listening"
     \/ conn[c] = "idle" /\ process \in {"listening", "closing"}
  /\ served[c] < MaxPerConn
  /\ served' = [served EXCEPT ![c] = @ + 1]
  /\ request' = [request EXCEPT ![c] = r]
  /\ total' = [total EXCEPT ![c] = 0]
  /\ LET refusal == Refusal(r) IN
       IF refusal # None
       THEN /\ sent' = [sent EXCEPT ![c] = refusal.status]
            /\ log' = [log EXCEPT ![c] = <<refusal>>]
            /\ at' = [at EXCEPT ![c] = "none"]
            /\ \E next \in {"idle", "closed"} : conn' = [conn EXCEPT ![c] = next]
       ELSE /\ sent' = [sent EXCEPT ![c] = 0]
            /\ log' = [log EXCEPT ![c] = << >>]
            /\ at' = [at EXCEPT ![c] = IF r.method = "POST" THEN "reading" ELSE "adapter"]
            /\ conn' = [conn EXCEPT ![c] = "busy"]
  /\ UNCHANGED shutdownVars

(* Slip: each chunk measured against the limit, not their sum. *)
ReadBodyPerChunk(c) ==
  /\ Running /\ at[c] = "reading" /\ conn[c] = "busy"
  /\ total[c] < request[c].size
  /\ total' = [total EXCEPT ![c] = @ + 1]
  /\ IF MaxBody < 1 THEN Answer(c, 413, "request-too-large")
     ELSE UNCHANGED <<sent, log, at, conn>>
  /\ UNCHANGED <<shutdownVars, served, request>>

(* readBody takes the next chunk: over the limit the request is refused.   *)
ReadBody(c) ==
  /\ Running /\ at[c] = "reading" /\ conn[c] = "busy"
  /\ total[c] < request[c].size
  /\ total' = [total EXCEPT ![c] = @ + 1]
  /\ IF total[c] + 1 > MaxBody THEN Answer(c, 413, "request-too-large")
     ELSE UNCHANGED <<sent, log, at, conn>>
  /\ UNCHANGED <<shutdownVars, served, request>>

(* The body is complete: parsed, and refused for what it holds or handed   *)
(* to the adapter.  An empty body is not parsed.                           *)
BodyRead(c) ==
  /\ Running /\ at[c] = "reading" /\ conn[c] = "busy"
  /\ total[c] = request[c].size
  /\ LET content == IF total[c] = 0 THEN "call" ELSE request[c].content
     IN IF content = "call"
        THEN at' = [at EXCEPT ![c] = "adapter"] /\ UNCHANGED <<sent, log, conn>>
        ELSE Answer(c, IF content = "listen-refused" THEN 200 ELSE 400, content)
  /\ UNCHANGED <<shutdownVars, served, request, total>>

(* Reading from a client that has gone throws. *)
ReadAborted(c) ==
  /\ Running /\ at[c] = "reading" /\ conn[c] = "closed"
  /\ Catch(c)
  /\ UNCHANGED <<shutdownVars, served, request, total>>

(* The adapter writes its head, then ends or throws; it may throw first.   *)
AdapterHead(c) ==
  /\ Running /\ at[c] = "adapter"
  /\ \E status \in {200, 400} : sent' = [sent EXCEPT ![c] = status]
  /\ at' = [at EXCEPT ![c] = "answering"]
  /\ UNCHANGED <<shutdownVars, conn, served, request, total, log>>

AdapterEnds(c) ==
  /\ Running /\ at[c] = "answering"
  /\ Answer(c, sent[c], "mcp")
  /\ UNCHANGED <<shutdownVars, served, request, total>>

AdapterThrows(c) ==
  /\ Running /\ at[c] \in {"adapter", "answering"}
  /\ Catch(c)
  /\ UNCHANGED <<shutdownVars, served, request, total>>

-----------------------------------------------------------------------------
(* The connection. *)

HangUp(c) ==
  /\ Running /\ conn[c] \in {"idle", "busy"}
  /\ conn' = [conn EXCEPT ![c] = "closed"]
  /\ UNCHANGED <<shutdownVars, served, request, handlerVars>>

(* Slip: no requestTimeout. *)
NoRequestTimeout(c) == FALSE /\ UNCHANGED vars

(* requestTimeout: a request that does not arrive loses its connection.    *)
RequestTimeout(c) ==
  /\ Running /\ at[c] = "reading" /\ conn[c] = "busy"
  /\ conn' = [conn EXCEPT ![c] = "closed"]
  /\ UNCHANGED <<shutdownVars, served, request, handlerVars>>

-----------------------------------------------------------------------------
(* The process. *)

(* main: the handlers for signals are installed once the server listens.   *)
Start ==
  /\ process = "starting"
  /\ \/ process' = "listening" /\ UNCHANGED exit
     \/ process' = "exited" /\ exit' \in {"configuration", "cannot listen", "killed"}
  /\ UNCHANGED <<grace, conn, served, request, handlerVars>>

(* Slip: nothing bounds the wait for open connections. *)
ShutdownWithoutGrace ==
  /\ process = "listening"
  /\ process' = "closing"
  /\ conn' = [c \in Conns |-> IF conn[c] = "idle" THEN "closed" ELSE conn[c]]
  /\ UNCHANGED <<grace, exit, served, request, handlerVars>>

(* The first SIGTERM or SIGINT; any other one finds shuttingDown set.      *)
Shutdown ==
  /\ process = "listening"
  /\ process' = "closing"
  /\ grace' = "armed"
  /\ conn' = [c \in Conns |-> IF conn[c] = "idle" THEN "closed" ELSE conn[c]]
  /\ UNCHANGED <<exit, served, request, handlerVars>>

(* server.close calls back when no connection is left. *)
Closed ==
  /\ process = "closing"
  /\ \A c \in Conns : conn[c] \in {"absent", "closed"}
  /\ grace' = "cleared" /\ process' = "exited" /\ exit' = "closed"
  /\ UNCHANGED <<conn, served, request, handlerVars>>

GraceExpires ==
  /\ process = "closing" /\ grace = "armed"
  /\ process' = "exited" /\ exit' = "grace"
  /\ UNCHANGED <<grace, conn, served, request, handlerVars>>

Handle(c) ==
  \/ \E r \in Requests : Arrive(c, r)
  \/ ReadBody(c) \/ BodyRead(c) \/ ReadAborted(c)
  \/ AdapterHead(c) \/ AdapterEnds(c) \/ AdapterThrows(c)
  \/ HangUp(c) \/ RequestTimeout(c)

Next ==
  \/ Start \/ Shutdown \/ Closed \/ GraceExpires
  \/ \E c \in Conns : Handle(c)

(* Timers fire, and what the event loop has queued runs.  Clients and the  *)
(* adapter owe nothing.                                                    *)
Fairness ==
  /\ WF_vars(GraceExpires) /\ WF_vars(Closed)
  /\ \A c \in Conns : WF_vars(RequestTimeout(c)) /\ WF_vars(ReadAborted(c))

Spec == Init /\ [][Next]_vars
FairSpec == Spec /\ Fairness

-----------------------------------------------------------------------------
(***************************************************************************)
(* Properties.                                                             *)
(***************************************************************************)
TypeOK ==
  /\ process \in {"starting", "listening", "closing", "exited"}
  /\ exit \in {"none", "configuration", "cannot listen", "killed", "closed", "grace"}
  /\ grace \in {"off", "armed", "cleared"}
  /\ \A c \in Conns :
       /\ conn[c] \in {"absent", "idle", "busy", "closed"}
       /\ served[c] \in 0 .. MaxPerConn
       /\ request[c] \in Requests \cup {None}
       /\ at[c] \in {"none", "reading", "adapter", "answering"}
       /\ total[c] \in 0 .. MaxBody + 1
       /\ sent[c] \in {0, 200, 400, 403, 404, 413, 500}

(* The adapter, and the tools behind it, only ever see a request from an   *)
(* allowed host and origin, on /mcp, whose body was read to its end within *)
(* the limit and holds one call (createHttpApplication, readBody).         *)
AdapterSeesOnlyCalls ==
  \A c \in Conns :
    at[c] \in {"adapter", "answering"} =>
      LET r == request[c] IN
      /\ r.caller = "allowed" /\ r.route = "/mcp"
      /\ r.method = "POST" =>
           total[c] = r.size /\ total[c] <= MaxBody /\ (r.size > 0 => r.content = "call")

(* However a handler ends, one response was begun and one line logged for  *)
(* the request, and the line tells its status; a 500 in the log is the one *)
(* line that may stand for a response begun with another status (finish,   *)
(* and the catch block).                                                   *)
OneAnswerOneLine ==
  \A c \in Conns :
    request[c] # None =>
      IF at[c] # "none" THEN log[c] = << >>
      ELSE /\ Len(log[c]) = 1 /\ sent[c] # 0
           /\ log[c][1].status = sent[c] \/ log[c][1].category = "internal-error"

(* index.ts:5: a signal, a bounded wait, then exit, whatever clients and   *)
(* handlers do meanwhile.                                                  *)
SignalEndsTheProcess == process = "closing" ~> process = "exited"

(* A client that stops sending cannot hold a handler (http-server.ts:342). *)
NoBodyIsAwaitedForever ==
  \A c \in Conns : at[c] = "reading" ~> at[c] # "reading" \/ ~Running
=============================================================================
