------------------------- MODULE HttpBoundaryProofs -------------------------
(***************************************************************************)
(* What the handlers of the MCP server promise for any number of clients,  *)
(* connections and requests, and any limit on the size of a body.          *)
(*                                                                         *)
(* Handlers share nothing but the process, so the invariant is one about   *)
(* each connection: where its handler is says what has been checked of the *)
(* request and what has been answered.                                     *)
(***************************************************************************)
EXTENDS HttpBoundary, TLAPS

Statuses == {0, 200, 400, 403, 404, 413, 500}

Shapes ==
  /\ conn \in [Conns -> {"absent", "idle", "busy", "closed"}]
  /\ served \in [Conns -> 0 .. MaxPerConn]
  /\ request \in [Conns -> Requests \cup {None}]
  /\ at \in [Conns -> {"none", "reading", "adapter", "answering"}]
  /\ total \in [Conns -> 0 .. MaxBody + 1]
  /\ sent \in [Conns -> Statuses]
  /\ DOMAIN log = Conns

ProcessOK ==
  /\ process \in {"starting", "listening", "closing", "exited"}
  /\ exit \in {"none", "configuration", "cannot listen", "killed", "closed", "grace"}
  /\ grace \in {"off", "armed", "cleared"}

(* A handler that reads has let the request pass, and has not read more    *)
(* than it may.                                                            *)
ReadingOK(c) ==
  at[c] = "reading" =>
    /\ request[c] \in Requests /\ Refusal(request[c]) = None
    /\ total[c] <= request[c].size /\ total[c] <= MaxBody

AdapterOK(c) ==
  at[c] \in {"adapter", "answering"} =>
    LET r == request[c] IN
    /\ r \in Requests /\ Refusal(r) = None
    /\ r.method = "POST" =>
         total[c] = r.size /\ total[c] <= MaxBody /\ (r.size > 0 => r.content = "call")

(* While a handler runs only the adapter has answered, and nothing is      *)
(* logged; after it there is one line.                                     *)
LoggedOK(c) ==
  /\ at[c] # "none" => log[c] = << >>
  /\ at[c] = "answering" => sent[c] # 0
  /\ at[c] = "none" /\ request[c] # None =>
       /\ sent[c] # 0
       /\ \/ \E category : log[c] = <<Line(sent[c], category)>>
          \/ log[c] = <<Line(500, "internal-error")>>

ConnOK(c) == ReadingOK(c) /\ AdapterOK(c) /\ LoggedOK(c)

IInv == Shapes /\ ProcessOK /\ \A c \in Conns : ConnOK(c)

-----------------------------------------------------------------------------
(* Who is not refused at once.                                             *)
LEMMA PassedIsAllowed ==
  ASSUME NEW r \in Requests, Refusal(r) = None
  PROVE  r.caller = "allowed" /\ r.route = "/mcp"
BY RequestsAssumption, NoneAssumption DEF Refusal, Line

LEMMA RefusedWithALine ==
  ASSUME NEW r \in Requests, Refusal(r) # None
  PROVE  Refusal(r).status \in {200, 403, 404} /\ Refusal(r) = Line(Refusal(r).status, Refusal(r).category)
BY DEF Refusal, Line

LEMMA InitInvariant == Init => IInv
BY LimitsAssumption, NoneAssumption
   DEF Init, IInv, Shapes, Statuses, ProcessOK, ConnOK, ReadingOK, AdapterOK, LoggedOK

(* A step of a handler, or of its connection, is one about that connection *)
(* alone.                                                                  *)
OthersUnchanged(c) ==
  \A d \in Conns \ {c} :
    /\ request'[d] = request[d] /\ at'[d] = at[d] /\ total'[d] = total[d]
    /\ sent'[d] = sent[d] /\ log'[d] = log[d]

LEMMA ProcessStays ==
  ASSUME ProcessOK, UNCHANGED shutdownVars
  PROVE  ProcessOK'
BY DEF ProcessOK, shutdownVars

LEMMA OneConnection ==
  ASSUME IInv, NEW c \in Conns, OthersUnchanged(c), Shapes', ProcessOK', ConnOK(c)'
  PROVE  IInv'
<1>1. ASSUME NEW d \in Conns \ {c} PROVE ConnOK(d)'
  BY DEF IInv, OthersUnchanged, ConnOK, ReadingOK, AdapterOK, LoggedOK
<1>2. \A d \in Conns : ConnOK(d)'
  BY <1>1
<1> QED BY <1>2 DEF IInv

(* Every handler ends with Answer or with Catch.                           *)
LEMMA ReleaseShapes ==
  ASSUME Shapes, NEW c \in Conns, Release(c)
  PROVE  /\ conn' \in [Conns -> {"absent", "idle", "busy", "closed"}]
         /\ at' = [at EXCEPT ![c] = "none"]
BY DEF Shapes, Release

LEMMA AnswerEnds ==
  ASSUME IInv, NEW c \in Conns, NEW status \in Statuses \ {0}, NEW category,
         log[c] = << >>, Answer(c, status, category),
         UNCHANGED <<shutdownVars, served, request>>, total' \in [Conns -> 0 .. MaxBody + 1],
         \A d \in Conns \ {c} : total'[d] = total[d]
  PROVE  IInv'
<1>1. /\ conn' \in [Conns -> {"absent", "idle", "busy", "closed"}]
      /\ at' = [at EXCEPT ![c] = "none"]
  BY ReleaseShapes DEF IInv, Answer
<1>2. /\ sent' = [sent EXCEPT ![c] = status]
      /\ log' = [log EXCEPT ![c] = Append(@, Line(status, category))]
  BY DEF Answer
<1>3. Shapes' /\ ProcessOK'
  BY <1>1, <1>2 DEF IInv, Shapes, ProcessOK, shutdownVars
<1>4. at'[c] = "none" /\ sent'[c] = status /\ log'[c] = <<Line(status, category)>>
  BY <1>1, <1>2 DEF IInv, Shapes
<1>5. ConnOK(c)'
  BY <1>4 DEF ConnOK, ReadingOK, AdapterOK, LoggedOK
<1>6. OthersUnchanged(c)
  BY <1>1, <1>2 DEF OthersUnchanged, IInv, Shapes
<1> QED BY <1>3, <1>5, <1>6, OneConnection

LEMMA CatchEnds ==
  ASSUME IInv, NEW c \in Conns, log[c] = << >>, Catch(c),
         UNCHANGED <<shutdownVars, served, request, total>>
  PROVE  IInv'
<1>1. /\ conn' \in [Conns -> {"absent", "idle", "busy", "closed"}]
      /\ at' = [at EXCEPT ![c] = "none"]
  BY ReleaseShapes DEF IInv, Catch
<1>2. /\ sent' = [sent EXCEPT ![c] = IF @ = 0 THEN 500 ELSE @]
      /\ log' = [log EXCEPT ![c] = Append(@, Line(500, "internal-error"))]
  BY DEF Catch
<1>3. Shapes' /\ ProcessOK'
  <2>1. sent' \in [Conns -> Statuses]
    BY <1>2 DEF IInv, Shapes, Statuses
  <2>2. DOMAIN log' = Conns
    BY <1>2 DEF IInv, Shapes
  <2>3. at' \in [Conns -> {"none", "reading", "adapter", "answering"}]
    BY <1>1 DEF IInv, Shapes
  <2> QED BY <1>1, <2>1, <2>2, <2>3 DEF IInv, Shapes, ProcessOK, shutdownVars
<1>4. at'[c] = "none" /\ sent'[c] # 0 /\ log'[c] = <<Line(500, "internal-error")>>
  BY <1>1, <1>2 DEF IInv, Shapes
<1>5. ConnOK(c)'
  BY <1>4 DEF ConnOK, ReadingOK, AdapterOK, LoggedOK
<1>6. OthersUnchanged(c)
  BY <1>1, <1>2 DEF OthersUnchanged, IInv, Shapes
<1> QED BY <1>3, <1>5, <1>6, OneConnection

-----------------------------------------------------------------------------
LEMMA ArriveInvariant ==
  ASSUME IInv, NEW c \in Conns, NEW r \in Requests, Arrive(c, r)
  PROVE  IInv'
<1>1. /\ served' = [served EXCEPT ![c] = @ + 1] /\ served[c] < MaxPerConn
      /\ request' = [request EXCEPT ![c] = r] /\ total' = [total EXCEPT ![c] = 0]
      /\ UNCHANGED shutdownVars
  BY DEF Arrive
<1>2. /\ served' \in [Conns -> 0 .. MaxPerConn] /\ request' \in [Conns -> Requests \cup {None}]
      /\ total' \in [Conns -> 0 .. MaxBody + 1] /\ ProcessOK'
      /\ request'[c] = r /\ total'[c] = 0
  <2>1. served' \in [Conns -> 0 .. MaxPerConn]
    BY <1>1, LimitsAssumption DEF IInv, Shapes
  <2>2. request' \in [Conns -> Requests \cup {None}] /\ request'[c] = r
    BY <1>1 DEF IInv, Shapes
  <2>3. total' \in [Conns -> 0 .. MaxBody + 1] /\ total'[c] = 0
    BY <1>1, LimitsAssumption DEF IInv, Shapes
  <2>4. ProcessOK'
    BY <1>1 DEF IInv, ProcessOK, shutdownVars
  <2> QED BY <2>1, <2>2, <2>3, <2>4
<1>3. CASE Refusal(r) # None
  <2> DEFINE refusal == Refusal(r)
  <2>1. /\ sent' = [sent EXCEPT ![c] = refusal.status] /\ log' = [log EXCEPT ![c] = <<refusal>>]
        /\ at' = [at EXCEPT ![c] = "none"]
        /\ \E next \in {"idle", "closed"} : conn' = [conn EXCEPT ![c] = next]
    BY <1>3 DEF Arrive
  <2>2. refusal.status \in {200, 403, 404} /\ refusal = Line(refusal.status, refusal.category)
    BY <1>3, RefusedWithALine
  <2> HIDE DEF refusal
  <2>3. Shapes'
    BY <1>2, <2>1, <2>2 DEF IInv, Shapes, Statuses
  <2>4. at'[c] = "none" /\ sent'[c] = refusal.status /\ log'[c] = <<refusal>>
    BY <2>1 DEF IInv, Shapes
  <2>5. ConnOK(c)'
    BY <2>2, <2>4 DEF ConnOK, ReadingOK, AdapterOK, LoggedOK
  <2>6. OthersUnchanged(c)
    BY <1>1, <2>1 DEF OthersUnchanged, IInv, Shapes
  <2> QED BY <1>2, <2>3, <2>5, <2>6, OneConnection
<1>4. CASE Refusal(r) = None
  <2> DEFINE place == IF r.method = "POST" THEN "reading" ELSE "adapter"
  <2>1. /\ sent' = [sent EXCEPT ![c] = 0] /\ log' = [log EXCEPT ![c] = << >>]
        /\ at' = [at EXCEPT ![c] = place] /\ conn' = [conn EXCEPT ![c] = "busy"]
    BY <1>4 DEF Arrive
  <2>2. Shapes'
    BY <1>2, <2>1 DEF IInv, Shapes, Statuses
  <2>3. at'[c] = place /\ sent'[c] = 0 /\ log'[c] = << >>
    BY <2>1 DEF IInv, Shapes
  <2>4. r.size \in Nat /\ MaxBody \in Nat
    BY RequestsAssumption, LimitsAssumption
  <2>5. ConnOK(c)'
    BY <1>2, <1>4, <2>3, <2>4 DEF ConnOK, ReadingOK, AdapterOK, LoggedOK
  <2>6. OthersUnchanged(c)
    BY <1>1, <2>1 DEF OthersUnchanged, IInv, Shapes
  <2> QED BY <1>2, <2>2, <2>5, <2>6, OneConnection
<1> QED BY <1>3, <1>4

LEMMA ReadBodyInvariant ==
  ASSUME IInv, NEW c \in Conns, ReadBody(c)
  PROVE  IInv'
<1>1. /\ at[c] = "reading" /\ total[c] < request[c].size
      /\ total' = [total EXCEPT ![c] = @ + 1] /\ UNCHANGED <<shutdownVars, served, request>>
  BY DEF ReadBody
<1>2. /\ request[c] \in Requests /\ Refusal(request[c]) = None /\ request[c].size \in Nat
      /\ total[c] \in Nat /\ total[c] <= MaxBody /\ MaxBody \in Nat /\ log[c] = << >>
  BY <1>1, RequestsAssumption, LimitsAssumption
     DEF IInv, ConnOK, ReadingOK, LoggedOK, Shapes
<1>3. total' \in [Conns -> 0 .. MaxBody + 1] /\ total'[c] = total[c] + 1
      /\ \A d \in Conns \ {c} : total'[d] = total[d]
  BY <1>1, <1>2 DEF IInv, Shapes
<1>4. CASE total[c] + 1 > MaxBody
  <2>1. Answer(c, 413, "request-too-large")
    BY <1>4 DEF ReadBody
  <2> QED BY <1>1, <1>2, <1>3, <2>1, AnswerEnds DEF Statuses
<1>5. CASE ~(total[c] + 1 > MaxBody)
  <2>1. UNCHANGED <<sent, log, at, conn>>
    BY <1>5 DEF ReadBody
  <2>2. Shapes' /\ ProcessOK' /\ OthersUnchanged(c)
    BY <1>1, <1>3, <2>1 DEF IInv, Shapes, ProcessOK, OthersUnchanged, shutdownVars
  <2>3. ConnOK(c)'
    BY <1>1, <1>2, <1>3, <1>5, <2>1 DEF ConnOK, ReadingOK, AdapterOK, LoggedOK
  <2> QED BY <2>2, <2>3, OneConnection
<1> QED BY <1>4, <1>5

LEMMA BodyReadInvariant ==
  ASSUME IInv, NEW c \in Conns, BodyRead(c)
  PROVE  IInv'
<1> DEFINE content == IF total[c] = 0 THEN "call" ELSE request[c].content
<1>1. /\ at[c] = "reading" /\ total[c] = request[c].size
      /\ UNCHANGED <<shutdownVars, served, request, total>>
      /\ IF content = "call"
         THEN at' = [at EXCEPT ![c] = "adapter"] /\ UNCHANGED <<sent, log, conn>>
         ELSE Answer(c, IF content = "listen-refused" THEN 200 ELSE 400, content)
  BY DEF BodyRead
<1>2. /\ request[c] \in Requests /\ Refusal(request[c]) = None /\ request[c].size \in Nat
      /\ total[c] \in Nat /\ total[c] <= MaxBody /\ log[c] = << >>
  BY <1>1, RequestsAssumption DEF IInv, ConnOK, ReadingOK, LoggedOK, Shapes
<1>3. CASE content # "call"
  <2> DEFINE status == IF content = "listen-refused" THEN 200 ELSE 400
  <2>1. Answer(c, status, content) /\ status \in Statuses \ {0}
    BY <1>1, <1>3 DEF Statuses
  <2>2. total' \in [Conns -> 0 .. MaxBody + 1] /\ \A d \in Conns \ {c} : total'[d] = total[d]
    BY <1>1 DEF IInv, Shapes
  <2> HIDE DEF status, content
  <2> QED BY <1>1, <1>2, <2>1, <2>2, AnswerEnds
<1>4. CASE content = "call"
  <2>1. at' = [at EXCEPT ![c] = "adapter"] /\ UNCHANGED <<sent, log, conn>>
    BY <1>1, <1>4
  <2>2. Shapes' /\ ProcessOK' /\ OthersUnchanged(c) /\ at'[c] = "adapter"
    BY <1>1, <2>1 DEF IInv, Shapes, ProcessOK, OthersUnchanged, shutdownVars
  <2>3. ConnOK(c)'
    BY <1>1, <1>2, <1>4, <2>1, <2>2 DEF ConnOK, ReadingOK, AdapterOK, LoggedOK
  <2> QED BY <2>2, <2>3, OneConnection
<1> QED BY <1>3, <1>4

LEMMA ReadAbortedInvariant ==
  ASSUME IInv, NEW c \in Conns, ReadAborted(c)
  PROVE  IInv'
<1>1. log[c] = << >>
  BY DEF ReadAborted, IInv, ConnOK, LoggedOK
<1> QED BY <1>1, CatchEnds DEF ReadAborted

LEMMA AdapterHeadInvariant ==
  ASSUME IInv, NEW c \in Conns, AdapterHead(c)
  PROVE  IInv'
<1>1. PICK status \in {200, 400} : sent' = [sent EXCEPT ![c] = status]
  BY DEF AdapterHead
<1>2. /\ at[c] = "adapter" /\ at' = [at EXCEPT ![c] = "answering"]
      /\ UNCHANGED <<shutdownVars, conn, served, request, total, log>>
  BY DEF AdapterHead
<1>3. Shapes' /\ ProcessOK' /\ OthersUnchanged(c) /\ at'[c] = "answering" /\ sent'[c] = status
  <2>1. sent' \in [Conns -> Statuses] /\ sent'[c] = status
    BY <1>1 DEF IInv, Shapes, Statuses
  <2>2. /\ at' \in [Conns -> {"none", "reading", "adapter", "answering"}]
        /\ at'[c] = "answering"
    BY <1>2 DEF IInv, Shapes
  <2>3. Shapes' /\ ProcessOK'
    <3>1. /\ conn' = conn /\ served' = served /\ request' = request /\ total' = total
          /\ log' = log /\ process' = process /\ exit' = exit /\ grace' = grace
      BY <1>2 DEF shutdownVars
    <3>2. Shapes'
      BY <2>1, <2>2, <3>1 DEF IInv, Shapes
    <3>3. ProcessOK'
      BY <1>2, ProcessStays DEF IInv
    <3> QED BY <3>2, <3>3
  <2>4. OthersUnchanged(c)
    BY <1>1, <1>2 DEF IInv, Shapes, OthersUnchanged
  <2> QED BY <2>1, <2>2, <2>3, <2>4
<1>4. ConnOK(c)'
  BY <1>2, <1>3 DEF IInv, ConnOK, ReadingOK, AdapterOK, LoggedOK
<1> QED BY <1>3, <1>4, OneConnection

LEMMA AdapterEndsInvariant ==
  ASSUME IInv, NEW c \in Conns, AdapterEnds(c)
  PROVE  IInv'
<1>1. log[c] = << >> /\ sent[c] \in Statuses \ {0}
  BY DEF AdapterEnds, IInv, ConnOK, LoggedOK, Shapes
<1>2. /\ Answer(c, sent[c], "mcp") /\ UNCHANGED <<shutdownVars, served, request>>
      /\ total' \in [Conns -> 0 .. MaxBody + 1] /\ \A d \in Conns \ {c} : total'[d] = total[d]
  BY DEF AdapterEnds, IInv, Shapes
<1> QED BY <1>1, <1>2, AnswerEnds

LEMMA AdapterThrowsInvariant ==
  ASSUME IInv, NEW c \in Conns, AdapterThrows(c)
  PROVE  IInv'
<1>1. log[c] = << >>
  BY DEF AdapterThrows, IInv, ConnOK, LoggedOK
<1> QED BY <1>1, CatchEnds DEF AdapterThrows

(* Connections close, and the process starts and ends, without touching a  *)
(* handler.                                                                *)
LEMMA HandlersUntouched ==
  ASSUME IInv, UNCHANGED <<served, request, handlerVars>>, ProcessOK',
         conn' \in [Conns -> {"absent", "idle", "busy", "closed"}]
  PROVE  IInv'
<1>1. Shapes'
  BY DEF IInv, Shapes, handlerVars
<1>2. \A c \in Conns : ConnOK(c)'
  BY DEF IInv, ConnOK, ReadingOK, AdapterOK, LoggedOK, handlerVars
<1> QED BY <1>1, <1>2 DEF IInv

LEMMA ConnectionInvariant ==
  ASSUME IInv, NEW c \in Conns, HangUp(c) \/ RequestTimeout(c)
  PROVE  IInv'
<1>1. conn' \in [Conns -> {"absent", "idle", "busy", "closed"}]
  BY DEF HangUp, RequestTimeout, IInv, Shapes
<1>2. ProcessOK' /\ UNCHANGED <<served, request, handlerVars>>
  BY DEF HangUp, RequestTimeout, IInv, ProcessOK, shutdownVars
<1> QED BY <1>1, <1>2, HandlersUntouched

LEMMA ProcessInvariant ==
  ASSUME IInv, Start \/ Shutdown \/ Closed \/ GraceExpires \/ UNCHANGED vars
  PROVE  IInv'
<1>1. conn' \in [Conns -> {"absent", "idle", "busy", "closed"}]
  BY DEF Start, Shutdown, Closed, GraceExpires, vars, IInv, Shapes
<1>2. ProcessOK'
  BY DEF Start, Shutdown, Closed, GraceExpires, vars, shutdownVars, IInv, ProcessOK
<1>3. UNCHANGED <<served, request, handlerVars>>
  BY DEF Start, Shutdown, Closed, GraceExpires, vars
<1> QED BY <1>1, <1>2, <1>3, HandlersUntouched

(* Where a handler is says what was checked of its request and what was    *)
(* answered, in every reachable state (createHttpApplication).             *)
THEOREM Invariant == Spec => []IInv
<1>1. ASSUME IInv, NEW c \in Conns, Handle(c) PROVE IInv'
  BY <1>1, ArriveInvariant, ReadBodyInvariant, BodyReadInvariant, ReadAbortedInvariant,
     AdapterHeadInvariant, AdapterEndsInvariant, AdapterThrowsInvariant, ConnectionInvariant
     DEF Handle
<1>2. IInv /\ [Next]_vars => IInv'
  BY <1>1, ProcessInvariant DEF Next
<1> QED BY InitInvariant, <1>2, PTL DEF Spec

-----------------------------------------------------------------------------
(* Type correctness.                                                       *)
THEOREM TypeTheorem == Spec => []TypeOK
<1>1. IInv => TypeOK
  <2>1. ProcessOK => /\ process \in {"starting", "listening", "closing", "exited"}
                     /\ exit \in {"none", "configuration", "cannot listen", "killed", "closed", "grace"}
                     /\ grace \in {"off", "armed", "cleared"}
    BY DEF ProcessOK
  <2>2. ASSUME Shapes, NEW c \in Conns
        PROVE  /\ conn[c] \in {"absent", "idle", "busy", "closed"}
               /\ served[c] \in 0 .. MaxPerConn
               /\ request[c] \in Requests \cup {None}
               /\ at[c] \in {"none", "reading", "adapter", "answering"}
               /\ total[c] \in 0 .. MaxBody + 1
               /\ sent[c] \in {0, 200, 400, 403, 404, 413, 500}
    BY <2>2 DEF Shapes, Statuses
  <2> QED BY <2>1, <2>2 DEF IInv, TypeOK
<1> QED BY Invariant, <1>1, PTL

(* The adapter sees a request only after every check of it, and its body   *)
(* only whole and within the limit (createHttpApplication, readBody).      *)
THEOREM AdapterTheorem == Spec => []AdapterSeesOnlyCalls
<1>1. IInv => AdapterSeesOnlyCalls
  BY PassedIsAllowed DEF IInv, ConnOK, AdapterOK, AdapterSeesOnlyCalls
<1> QED BY Invariant, <1>1, PTL

(* One answer and one line for every request, however its handler ends.    *)
THEOREM OneAnswerTheorem == Spec => []OneAnswerOneLine
<1>1. ASSUME IInv, NEW c \in Conns, request[c] # None, at[c] = "none"
      PROVE  /\ Len(log[c]) = 1 /\ sent[c] # 0
             /\ log[c][1].status = sent[c] \/ log[c][1].category = "internal-error"
  <2>1. /\ sent[c] # 0
        /\ \/ \E category : log[c] = <<Line(sent[c], category)>>
           \/ log[c] = <<Line(500, "internal-error")>>
    BY <1>1 DEF IInv, ConnOK, LoggedOK
  <2>2. PICK line : /\ log[c] = << line >>
                    /\ line.status = sent[c] \/ line.category = "internal-error"
    <3>1. CASE \E category : log[c] = <<Line(sent[c], category)>>
      <4>1. PICK category : log[c] = <<Line(sent[c], category)>>
        BY <3>1
      <4>2. Line(sent[c], category).status = sent[c]
        BY DEF Line
      <4> QED BY <4>1, <4>2
    <3>2. CASE log[c] = <<Line(500, "internal-error")>>
      <4>1. Line(500, "internal-error").category = "internal-error"
        BY DEF Line
      <4> QED BY <3>2, <4>1
    <3> QED BY <2>1, <3>1, <3>2
  <2>3. Len(log[c]) = 1 /\ log[c][1] = line
    BY <2>2
  <2> QED BY <2>1, <2>2, <2>3
<1>2. IInv => OneAnswerOneLine
  BY <1>1 DEF OneAnswerOneLine, IInv, ConnOK, LoggedOK
<1> QED BY Invariant, <1>2, PTL
=============================================================================
