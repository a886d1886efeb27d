---------------------------- MODULE PyHttpServer ----------------------------
(***************************************************************************)
(* One team served over HTTP by the Python SDK (http_transport.py, env.py):*)
(* startup, concurrent requests through the token check, the body check    *)
(* and the MCP transport, clients that leave, exceptions, and shutdown by  *)
(* cancelling run_http_team_server.                                        *)
(*                                                                         *)
(* The token is judged by TokenRules, a tool call served by PyTeamServer;  *)
(* here a token either names a caller or is refused.  A body has a size in *)
(* bytes, and is a JSON object or array from the byte on that closes it:   *)
(* what follows is blank, and no shorter prefix parses.  uvicorn and the   *)
(* MCP library are external.  Bound: MaxCancels.                           *)
(***************************************************************************)
EXTENDS Naturals

CONSTANTS Requests, Callers, None,
          MaxBodySize, \* _MAX_BODY_SIZE
          Sizes,       \* sizes of bodies that clients send
          MaxCancels   \* how often the surrounding task is cancelled

ASSUME HttpAssumption == /\ None \notin Callers
                         /\ MaxBodySize \in Nat /\ Sizes \subseteq Nat /\ MaxCancels \in Nat

VARIABLES server,  \* the listener: down, refused, up, draining, stopped, or cut off
          outer,   \* run_http_team_server: idle, serving, draining, or ended
          cancels, \* how often it was cancelled
          head,    \* head[r]: caller of its token, content type, size of its body
                   \* and the byte that closes it
          phase,   \* phase[r]: new, reading, handled, answered, dropped
          sent,    \* sent[r]: bytes of the body that arrived
          kept,    \* kept[r]: bytes of it in chunks
          gone,    \* the requests whose client left
          starts,  \* starts[r]: how many responses were started
          status,  \* status[r]: the status of the last of them, 0 if none
          seen     \* seen[r]: the caller the tool handler saw, once it ran

httpVars == <<server, outer, cancels, head, phase, sent, kept, gone, starts, status, seen>>
requestVars == <<head, phase, sent, kept, gone, starts, status, seen>>

\* Past the end of a body that never parses.
ClosingBytes(size) == 1..(size + 1)

Heads == UNION {[caller : Callers \cup {None}, json : BOOLEAN, size : {size},
                 closed : ClosingBytes(size)] : size \in Sizes}

NoHead == [caller |-> None, json |-> FALSE, size |-> 0, closed |-> 1]

Init ==
  /\ server = "down" /\ outer = "idle" /\ cancels = 0
  /\ head = [r \in Requests |-> NoHead]
  /\ phase = [r \in Requests |-> "new"]
  /\ sent = [r \in Requests |-> 0]
  /\ kept = [r \in Requests |-> 0]
  /\ gone = {}
  /\ starts = [r \in Requests |-> 0]
  /\ status = [r \in Requests |-> 0]
  /\ seen = [r \in Requests |-> None]

(***************************************************************************)
(* Startup: settings are secret, issuer and audience, each absent, blank,  *)
(* short or long enough for a secret; required_env refuses the first two.  *)
(***************************************************************************)
Settings == [{"secret", "issuer", "audience"} -> {"absent", "blank", "short", "long"}]

Usable(auth) ==
  /\ \A name \in DOMAIN auth : auth[name] \notin {"absent", "blank"}
  /\ auth["secret"] = "long"

Start(auth, builds) ==
  /\ server = "down"
  /\ IF Usable(auth) /\ builds THEN server' = "up" /\ outer' = "serving"
     ELSE server' = "refused" /\ outer' = "ended"
  /\ UNCHANGED <<cancels, requestVars>>

(***************************************************************************)
(* _McpEndpoint                                                            *)
(***************************************************************************)
StartResponse(r, code) ==
  /\ starts' = [starts EXCEPT ![r] = @ + 1]
  /\ status' = [status EXCEPT ![r] = code]

Respond(r, code) ==
  /\ StartResponse(r, code)
  /\ phase' = [phase EXCEPT ![r] = "answered"]

HandOn(r) == phase' = [phase EXCEPT ![r] = "handled"] /\ UNCHANGED <<starts, status>>

\* Mutation: the body is read whoever sends it.
AuthenticateLater(r, h) ==
  IF h.json THEN phase' = [phase EXCEPT ![r] = "reading"] /\ UNCHANGED <<starts, status>>
  ELSE HandOn(r)

Authenticate(r, h) ==
  IF h.caller = None THEN Respond(r, 401)
  ELSE IF h.json THEN phase' = [phase EXCEPT ![r] = "reading"] /\ UNCHANGED <<starts, status>>
  ELSE HandOn(r)

Arrive(r, h) ==
  /\ server = "up"
  /\ phase[r] = "new"
  /\ head' = [head EXCEPT ![r] = h]
  /\ Authenticate(r, h)
  /\ UNCHANGED <<server, outer, cancels, sent, kept, gone, seen>>

\* An empty body is left to the transport, anything else has to parse.
Readable(h, size) == size = 0 \/ size >= h.closed

\* json.loads gives up on too deep a nesting with a RecursionError, which leaves
\* __call__ outside its try: Starlette answers it, with a 500 of its own.
Judge(r, size) ==
  \/ IF Readable(head[r], size) THEN HandOn(r) ELSE Respond(r, 400)
  \/ size > 0 /\ Respond(r, 500)

\* Mutation: each chunk is measured by itself.
MeasureChunk(r, n) == n

Measure(r, n) == kept[r] + n

\* One http.request message; the last may be empty.
ReadChunk(r, n, more) ==
  /\ phase[r] = "reading" /\ r \notin gone
  /\ n <= head[r].size - sent[r]
  /\ IF more THEN n > 0 ELSE n = head[r].size - sent[r]
  /\ sent' = [sent EXCEPT ![r] = @ + n]
  /\ IF Measure(r, n) > MaxBodySize THEN Respond(r, 413) /\ UNCHANGED kept
     ELSE /\ kept' = [kept EXCEPT ![r] = @ + n]
          /\ IF more THEN UNCHANGED <<phase, starts, status>> ELSE Judge(r, kept[r] + n)
  /\ UNCHANGED <<server, outer, cancels, head, gone, seen>>

ReadNext(r) ==
  \E n \in 0..(head[r].size - sent[r]), more \in BOOLEAN : ReadChunk(r, n, more)

\* Mutation: the announced size is taken for what was read.
ReadDisconnectAsWhole(r) ==
  /\ phase[r] = "reading" /\ r \in gone
  /\ kept' = [kept EXCEPT ![r] = head[r].size]
  /\ Judge(r, head[r].size)
  /\ UNCHANGED <<server, outer, cancels, head, sent, gone, seen>>

\* Mutation: whatever is not http.request is skipped.
ReadOn(r) == phase[r] = "reading" /\ r \in gone /\ UNCHANGED httpVars

\* http.disconnect ends the loop: what was read so far is the body.
ReadDisconnect(r) ==
  /\ phase[r] = "reading" /\ r \in gone
  /\ Judge(r, kept[r])
  /\ UNCHANGED <<server, outer, cancels, head, sent, kept, gone, seen>>

Leave(r) ==
  /\ phase[r] \in {"reading", "handled"} /\ r \notin gone
  /\ gone' = gone \cup {r}
  /\ UNCHANGED <<server, outer, cancels, head, phase, sent, kept, starts, status, seen>>

(***************************************************************************)
(* The MCP transport: it may run a tool for the JSON body it is handed and *)
(* refuses any other or an empty one, starts at most one response, and     *)
(* returns once it has, or raises.                                         *)
(***************************************************************************)
\* _request_caller: the caller in the scope of the request's own.
RunTool(r) ==
  /\ phase[r] = "handled" /\ seen[r] = None
  /\ head[r].json /\ kept[r] > 0
  /\ seen' = [seen EXCEPT ![r] = head[r].caller]
  /\ UNCHANGED <<server, outer, cancels, head, phase, sent, kept, gone, starts, status>>

\* 200 stands for whatever status it answers with.
TransportStarts(r) ==
  /\ phase[r] = "handled" /\ starts[r] = 0
  /\ StartResponse(r, 200)
  /\ UNCHANGED <<server, outer, cancels, head, phase, sent, kept, gone, seen>>

TransportReturns(r) ==
  /\ phase[r] = "handled" /\ starts[r] > 0
  /\ phase' = [phase EXCEPT ![r] = "answered"]
  /\ UNCHANGED <<server, outer, cancels, head, sent, kept, gone, starts, status, seen>>

\* Mutation: whatever fails is answered with a 500.
RaiseAnswered(r) == Respond(r, 500)

Raise(r) ==
  IF starts[r] > 0 THEN phase' = [phase EXCEPT ![r] = "dropped"] /\ UNCHANGED <<starts, status>>
  ELSE Respond(r, 500)

TransportRaises(r) ==
  /\ phase[r] = "handled"
  /\ Raise(r)
  /\ UNCHANGED <<server, outer, cancels, head, sent, kept, gone, seen>>

(***************************************************************************)
(* Shutdown                                                                *)
(***************************************************************************)
InFlight == {r \in Requests : phase[r] \in {"reading", "handled"}}

\* Mutation: the listener's task is awaited without a shield.
FirstCancelUnshielded == server' = "cut" /\ outer' = "ended"

\* Mutation: the listener is awaited and not told to exit.
FirstCancelSilent == outer' = "draining" /\ UNCHANGED server

FirstCancel == server' = "draining" /\ outer' = "draining"

\* The first cancellation stops the shield and not the listener; a second one,
\* at the bare await, is the listener's own.
CancelOuter ==
  /\ cancels < MaxCancels
  /\ cancels' = cancels + 1
  /\ \/ outer = "serving" /\ FirstCancel
     \/ outer = "draining" /\ outer' = "ended" /\ server' = "cut"
  /\ UNCHANGED requestVars

\* uvicorn waits for its connections and closes the MCP lifespan.
ListenerEnds ==
  /\ server = "draining" /\ InFlight = {}
  /\ server' = "stopped" /\ outer' = "ended"
  /\ UNCHANGED <<cancels, requestVars>>

\* The task of a request that nobody waits for any more is cancelled.
Abandon(r) ==
  /\ server = "cut" /\ r \in InFlight
  /\ phase' = [phase EXCEPT ![r] = "dropped"]
  /\ UNCHANGED <<server, outer, cancels, head, sent, kept, gone, starts, status, seen>>

Next ==
  \/ \E auth \in Settings, builds \in BOOLEAN : Start(auth, builds)
  \/ \E r \in Requests :
       \/ \E h \in Heads : Arrive(r, h)
       \/ ReadNext(r) \/ ReadDisconnect(r) \/ Leave(r)
       \/ RunTool(r) \/ TransportStarts(r) \/ TransportReturns(r) \/ TransportRaises(r)
       \/ Abandon(r)
  \/ CancelOuter
  \/ ListenerEnds

Spec == Init /\ [][Next]_httpVars

\* A client goes on sending or leaves, the MCP transport gets to an end, and
\* the event loop runs what is ready.  Nothing makes a request or a
\* cancellation come.
Fairness ==
  /\ \A r \in Requests :
       /\ WF_httpVars(ReadNext(r) \/ ReadDisconnect(r))
       /\ WF_httpVars(TransportReturns(r) \/ TransportRaises(r))
  /\ WF_httpVars(ListenerEnds)

FairSpec == Spec /\ Fairness

(***************************************************************************)
(* Properties                                                              *)
(***************************************************************************)
Statuses == {0, 200, 400, 401, 413, 500}

\* Every variable stays in its set, and no more of a body is kept than arrived.
TypeOK ==
  /\ server \in {"down", "refused", "up", "draining", "stopped", "cut"}
  /\ outer \in {"idle", "serving", "draining", "ended"}
  /\ cancels \in 0..MaxCancels
  /\ head \in [Requests -> [caller : Callers \cup {None}, json : BOOLEAN, size : Nat, closed : Nat]]
  /\ phase \in [Requests -> {"new", "reading", "handled", "answered", "dropped"}]
  /\ sent \in [Requests -> Nat]
  /\ kept \in [Requests -> Nat]
  /\ \A r \in Requests : kept[r] <= sent[r] /\ sent[r] <= head[r].size
  /\ gone \subseteq Requests
  /\ starts \in [Requests -> Nat]
  /\ status \in [Requests -> Statuses]
  /\ seen \in [Requests -> Callers \cup {None}]

\* Never two responses on one request, whether the checks, the transport or the
\* error handler comes to answer it; and none that is answered goes without.
OneResponse ==
  \A r \in Requests :
    /\ starts[r] <= 1
    /\ phase[r] = "answered" => starts[r] = 1
    /\ phase[r] \in {"new", "reading"} => starts[r] = 0

\* A tool runs only for a caller whose token was verified for that request and
\* for a body that arrived as far as its closing byte, clients that leave
\* half-way included; nothing of an unverified request is read.
ToolsRunForWholeVerifiedCalls ==
  \A r \in Requests :
    /\ seen[r] # None => /\ seen[r] = head[r].caller
                         /\ kept[r] = sent[r] /\ sent[r] >= head[r].closed
    /\ head[r].caller = None => sent[r] = 0 /\ seen[r] = None

\* However a body is cut into chunks, it is refused for its size exactly when
\* it is past the limit, and nothing past the limit is kept.
RefusedExactlyPastTheLimit ==
  \A r \in Requests :
    /\ kept[r] <= MaxBodySize
    /\ status[r] = 413 => head[r].size > MaxBodySize
    /\ sent[r] = head[r].size /\ head[r].size > MaxBodySize => status[r] = 413

\* Cancelled once, run_http_team_server ends only when the requests in flight
\* have ended and the MCP lifespan is closed; cancelled or not, it never leaves
\* a listener behind that still accepts.
EndsInOrder ==
  outer = "ended" =>
    /\ server \in {"refused", "stopped", "cut"}
    /\ cancels <= 1 => server # "cut" /\ InFlight = {}

\* A request whose body is read or that was handed on gets its answer or loses
\* its connection.
EveryRequestEnds ==
  \A r \in Requests : phase[r] \in {"reading", "handled"} ~> phase[r] \in {"answered", "dropped"}

\* A cancellation ends run_http_team_server.
CancellationEnds == cancels > 0 ~> outer = "ended"
=============================================================================
