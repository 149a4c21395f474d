------------------------------ MODULE CacheV1 -------------------------------
(***************************************************************************)
(* The v1 badge's Nix cache proxy over the mesh (nixbadge_http.c).  Every  *)
(* badge serves narinfo and nar files on port 1008; it fetches each from   *)
(* the upstream cache when it is the mesh's root (or cache_p2p is set) and *)
(* from its gateway, the parent badge, otherwise, and relays the chunks as *)
(* they come.  The server handles one request at a time, so badges wait    *)
(* for each other, while the mesh may give a badge another parent between  *)
(* any two of its steps.                                                   *)
(*                                                                         *)
(* ESP-IDF's HTTP server and client and ESP-MESH-LITE are external.        *)
(***************************************************************************)
EXTENDS Naturals, Sequences

CONSTANTS Badges, Clients, At,  \* the badge each client asks
          Tree,                 \* the first parents
          None,
          Chunks,               \* chunks of a file
          MaxMoves              \* bound: times the mesh changes

VARIABLES p2p,     \* cache_p2p of the NVS, the same on all badges
          parent,  \* the mesh; None for a root
          moves,
          queue,   \* connections waiting for a badge's server
          srv,     \* the request a badge works on, and the chunks it has relayed
          conn     \* each party's own request: its number, what came back, how it ended

vars == <<p2p, parent, moves, queue, srv, conn>>

Parties == Badges \cup Clients
Idle == [pc |-> "idle", for |-> None, id |-> 0, host |-> None, sent |-> 0]
Opened(q) == [id |-> conn[q].id + 1, got |-> 0, end |-> "open"]

IsRoot(b) == parent[b] = None

Start ==
    /\ parent = Tree /\ moves = 0
    /\ queue = [b \in Badges |-> << >>]
    /\ srv = [b \in Badges |-> Idle]
    /\ conn = [q \in Parties |-> [id |-> 0, got |-> 0, end |-> "none"]]

Init == p2p \in BOOLEAN /\ Start

\* A client connects to its badge and asks for a file.
Ask(c) ==
    /\ conn[c].end = "none"
    /\ conn' = [conn EXCEPT ![c] = Opened(c)]
    /\ queue' = [queue EXCEPT ![At[c]] = Append(@, <<c, conn'[c].id>>)]
    /\ UNCHANGED <<p2p, parent, moves, srv>>

\* The handler starts: get_cache_host() looks at the level for the first time.
GetCacheHost(b) ==
    /\ srv[b].pc = "idle" /\ queue[b] # << >>
    /\ srv' = [srv EXCEPT ![b] = [pc |-> "host", for |-> Head(queue[b])[1], id |-> Head(queue[b])[2],
                                  host |-> IF IsRoot(b) \/ p2p THEN "upstream" ELSE parent[b],
                                  sent |-> 0]]
    /\ queue' = [queue EXCEPT ![b] = Tail(@)]
    /\ UNCHANGED <<p2p, parent, moves, conn>>

\* Port 1008 and no TLS unless the badge is the root, by a second look at the
\* level: the request reaches whoever listens there.  A badge listens nowhere
\* else; whether the upstream cache does on 1008 is its own affair.
Reached(b) ==
    IF srv[b].host # "upstream" THEN {~ IsRoot(b)}
    ELSE IF IsRoot(b) THEN {TRUE} ELSE BOOLEAN

\* esp_http_client_perform connects.
Perform(b) ==
    /\ srv[b].pc = "host"
    /\ \E ok \in Reached(b) :
         /\ srv' = [srv EXCEPT ![b].pc = "relay"]
         /\ conn' = [conn EXCEPT ![b] = [Opened(b) EXCEPT !.end = IF ok THEN "open" ELSE "refused"]]
         /\ queue' = IF ok /\ srv[b].host # "upstream"
                     THEN [queue EXCEPT ![srv[b].host] = Append(@, <<b, conn'[b].id>>)] ELSE queue
    /\ UNCHANGED <<p2p, parent, moves>>

FromUpstream(b) == srv[b].pc = "relay" /\ srv[b].host = "upstream" /\ conn[b].end = "open"

\* The upstream cache sends a chunk, ends the file, or fails on the way; it may
\* also fall silent.
UpstreamSends(b) ==
    /\ FromUpstream(b)
    /\ IF conn[b].got < Chunks THEN conn' = [conn EXCEPT ![b].got = @ + 1]
       ELSE conn' = [conn EXCEPT ![b].end = "whole"]
    /\ UNCHANGED <<p2p, parent, moves, queue, srv>>

UpstreamFails(b) ==
    /\ FromUpstream(b)
    /\ conn' = [conn EXCEPT ![b].end = "cut"]
    /\ UNCHANGED <<p2p, parent, moves, queue, srv>>

\* The asker still has the connection open that the handler of b answers.
Listening(b) == conn[srv[b].for].id = srv[b].id /\ conn[srv[b].for].end = "open"

\* HTTP_EVENT_ON_DATA: the chunk goes on to the asker.  A chunk that cannot be
\* sent, because the asker is gone or does not read, does not stop the client.
OnData(b) ==
    /\ srv[b].pc = "relay" /\ srv[b].sent < conn[b].got
    /\ srv' = [srv EXCEPT ![b].sent = @ + 1]
    /\ \/ Listening(b) /\ conn' = [conn EXCEPT ![srv[b].for].got = @ + 1]
       \/ UNCHANGED conn
    /\ UNCHANGED <<p2p, parent, moves, queue>>

\* The handler ends, and with it the asker's answer, if the asker hears of it.
Handled(b, end) ==
    /\ srv' = [srv EXCEPT ![b] = Idle]
    /\ conn' = IF Listening(b) THEN [conn EXCEPT ![srv[b].for].end = end] ELSE conn
    /\ UNCHANGED <<p2p, parent, moves, queue>>

Relayed(b) == srv[b].pc = "relay" /\ srv[b].sent = conn[b].got

\* HTTP_EVENT_ON_FINISH: the empty chunk that ends the answer, after the last
\* chunk or after a source that stopped in the middle.  It too may not get out:
\* the handler has succeeded, and the connection stays open.
OnFinish(b) ==
    /\ Relayed(b) /\ conn[b].end \in {"whole", "cut"}
    /\ Handled(b, "whole") \/ Handled(b, "open")

\* The client returns an error; so does the handler, and the server closes the
\* connection in the middle of the answer.
OnError(b) ==
    /\ Relayed(b) /\ conn[b].end \in {"refused", "cut"}
    /\ Handled(b, "cut")

\* Mutant: the client is given no timeout.
TimeoutNever(b) == FALSE /\ UNCHANGED vars

\* timeout_ms has passed without a byte.
Timeout(b) ==
    /\ Relayed(b) /\ conn[b].end = "open"
    /\ conn' = [conn EXCEPT ![b].end = "cut"]
    /\ UNCHANGED <<p2p, parent, moves, queue, srv>>

\* The badges below b in the mesh, b included.
Below(b) == {c \in Badges : c = b \/ parent[c] = b
                              \/ (parent[c] # None /\ parent[parent[c]] = b)}

\* The mesh gives b another parent, or makes it a root.
Move(b) ==
    /\ moves < MaxMoves
    /\ \E p \in (Badges \ Below(b)) \cup {None} :
         p # parent[b] /\ parent' = [parent EXCEPT ![b] = p]
    /\ moves' = moves + 1
    /\ UNCHANGED <<p2p, queue, srv, conn>>

Handler(b) == \/ GetCacheHost(b) \/ Perform(b) \/ OnData(b)
              \/ OnFinish(b) \/ OnError(b) \/ Timeout(b)

Next == \/ \E c \in Clients : Ask(c)
        \/ \E b \in Badges : Handler(b) \/ UpstreamSends(b) \/ UpstreamFails(b) \/ Move(b)

\* A server that has something to do does it; a silent source runs into the
\* client's timeout.  Neither the upstream cache nor the mesh promises anything.
Fairness == \A b \in Badges : WF_vars(Handler(b))

-----------------------------------------------------------------------------
\* A request waits in a badge's queue or is being handled.
InHands(q) == \E b \in Badges :
    \/ srv[b].pc # "idle" /\ srv[b].for = q /\ srv[b].id = conn[q].id
    \/ \E i \in 1 .. Len(queue[b]) : queue[b][i] = <<q, conn[q].id>>

\* Every client's request comes to an end on the badges: it is answered, with the
\* file, with a part of it or not at all, although they serve one request at a
\* time, wait for each other, and the mesh may have turned the wait into a circle.
EveryRequestEnds == \A c \in Clients : InHands(c) ~> ~ InHands(c)
=============================================================================
