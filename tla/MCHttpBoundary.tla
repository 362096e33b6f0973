--------------------------- MODULE MCHttpBoundary ---------------------------
(* Small instances of HttpBoundary. *)
EXTENDS HttpBoundary

Get(route) == [caller |-> "allowed", route |-> route, method |-> "GET", size |-> 0,
               content |-> "call"]

Post(size, content) == [Get("/mcp") EXCEPT !.method = "POST", !.size = size, !.content = content]

(* Every way a request can differ for the handler. *)
AllRequests ==
       {Get(route) : route \in {"/health", "/mcp", "other"}}
  \cup {[Get("/mcp") EXCEPT !.caller = c] : c \in {"host-rejected", "origin-rejected"}}
  \cup {Post(size, "call") : size \in 0 .. 3}
  \cup {Post(2, c) : c \in {"invalid-json", "proto-member", "batch-refused", "listen-refused"}}
=============================================================================
