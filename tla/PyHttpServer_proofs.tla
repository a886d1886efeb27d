------------------------- MODULE PyHttpServer_proofs -------------------------
(***************************************************************************)
(* Proofs about PyHttpServer, for any number of requests, sizes of bodies  *)
(* and limits, and however they are cut into chunks.                       *)
(***************************************************************************)
EXTENDS PyHttpServer, TLAPS

(***************************************************************************)
(* The inductive invariant                                                 *)
(***************************************************************************)
\* What has become of run_http_team_server tells what has of its listener.
ListenerFollows ==
  /\ outer = "idle" => server = "down"
  /\ outer = "serving" => server = "up"
  /\ outer = "draining" => server = "draining" /\ cancels = 1
  /\ outer = "ended" => \/ server \in {"refused", "stopped"}
                        \/ server = "cut" /\ cancels >= 2
  /\ outer \in {"idle", "serving"} => cancels = 0
  /\ server \in {"down", "refused", "stopped"} => InFlight = {}
  /\ server \in {"draining"} => outer = "draining"

\* A response is started where its request's phase says, and a tool has run
\* only for a request that was handed on.
PhaseTells ==
  \A r \in Requests :
    /\ phase[r] \in {"new", "reading"} => starts[r] = 0 /\ status[r] = 0 /\ seen[r] = None
    /\ phase[r] = "new" => sent[r] = 0 /\ kept[r] = 0
    /\ phase[r] = "handled" => status[r] # 413
    /\ phase[r] = "answered" => starts[r] = 1
    /\ starts[r] <= 1

\* Nothing arrived of a body that is not kept, but of one past the limit.
KeptUnlessRefused ==
  \A r \in Requests :
    /\ kept[r] = sent[r] \/ status[r] = 413
    /\ status[r] = 413 => head[r].size > MaxBodySize
    /\ kept[r] <= MaxBodySize

\* Only a verified request gets past the token check, and only a readable body
\* past the body check.
HandedOn ==
  \A r \in Requests :
    /\ phase[r] \in {"reading", "handled"} => head[r].caller # None
    /\ phase[r] = "handled" /\ head[r].json => Readable(head[r], kept[r])

IndInv ==
  /\ TypeOK
  /\ ListenerFollows
  /\ PhaseTells
  /\ KeptUnlessRefused
  /\ HandedOn
  /\ ToolsRunForWholeVerifiedCalls

(***************************************************************************)
(* One lemma per part of the invariant                                     *)
(***************************************************************************)
\* What arrives has a size and a byte that closes it.
LEMMA HeadTypes ==
  Heads \subseteq [caller : Callers \cup {None}, json : BOOLEAN, size : Nat, closed : Nat]
  BY HttpAssumption DEF Heads, ClosingBytes

LEMMA InitInd == Init => IndInv
  <1> SUFFICES ASSUME Init PROVE IndInv
    OBVIOUS
  <1> USE HttpAssumption DEF Init, NoHead
  <1>1. head \in [Requests -> [caller : Callers \cup {None}, json : BOOLEAN, size : Nat, closed : Nat]]
    OBVIOUS
  <1>2. \A r \in Requests : head[r].size = 0 /\ head[r].caller = None
    OBVIOUS
  <1>3. TypeOK
    BY <1>1, <1>2 DEF TypeOK, Statuses
  <1>4. ListenerFollows /\ PhaseTells /\ KeptUnlessRefused /\ HandedOn
    BY <1>2 DEF ListenerFollows, PhaseTells, KeptUnlessRefused, HandedOn, InFlight
  <1>5. ToolsRunForWholeVerifiedCalls
    BY <1>2 DEF ToolsRunForWholeVerifiedCalls
  <1>6. QED
    BY <1>3, <1>4, <1>5 DEF IndInv

\* A response that is started leaves the types alone.
LEMMA RespondTypes ==
  ASSUME TypeOK, NEW r \in Requests, NEW code \in Statuses, Respond(r, code)
  PROVE  /\ starts' \in [Requests -> Nat]
         /\ status' \in [Requests -> Statuses]
         /\ phase' \in [Requests -> {"new", "reading", "handled", "answered", "dropped"}]
  BY DEF TypeOK, Respond, StartResponse

\* Every step keeps the types.
LEMMA NextType == IndInv /\ [Next]_httpVars => TypeOK'
  <1> SUFFICES ASSUME IndInv, [Next]_httpVars PROVE TypeOK'
    OBVIOUS
  <1> USE HttpAssumption DEF IndInv, TypeOK, PhaseTells, KeptUnlessRefused
  <1>1. ASSUME NEW auth \in Settings, NEW builds \in BOOLEAN, Start(auth, builds) PROVE TypeOK'
    BY <1>1 DEF Start, requestVars, Statuses
  <1>2. ASSUME NEW r \in Requests, NEW h \in Heads, Arrive(r, h) PROVE TypeOK'
    BY <1>2, HeadTypes DEF Arrive, Authenticate, Respond, StartResponse, HandOn, Statuses
  <1>3. ASSUME NEW r \in Requests, ReadNext(r) PROVE TypeOK'
    <2>1. PICK n \in 0..(head[r].size - sent[r]), more \in BOOLEAN : ReadChunk(r, n, more)
      BY <1>3 DEF ReadNext
    <2>2. n \in Nat /\ sent[r] + n <= head[r].size
      BY DEF Readable
    <2>3. CASE kept[r] + n > MaxBodySize
      BY <2>1, <2>2, <2>3, RespondTypes DEF ReadChunk, Measure, Statuses
    <2>4. CASE kept[r] + n <= MaxBodySize
      BY <2>1, <2>2, <2>4, RespondTypes DEF ReadChunk, Measure, Judge, HandOn, Statuses
    <2>5. QED
      BY <2>2, <2>3, <2>4
  <1>4. ASSUME NEW r \in Requests, ReadDisconnect(r) PROVE TypeOK'
    BY <1>4, RespondTypes DEF ReadDisconnect, Judge, HandOn, Statuses
  <1>5. ASSUME NEW r \in Requests, Leave(r) PROVE TypeOK'
    BY <1>5 DEF Leave, Statuses
  <1>6. ASSUME NEW r \in Requests, RunTool(r) PROVE TypeOK'
    BY <1>6 DEF RunTool, Statuses
  <1>7. ASSUME NEW r \in Requests, TransportStarts(r) PROVE TypeOK'
    BY <1>7 DEF TransportStarts, StartResponse, Statuses
  <1>8. ASSUME NEW r \in Requests, TransportReturns(r) PROVE TypeOK'
    BY <1>8 DEF TransportReturns, Statuses
  <1>9. ASSUME NEW r \in Requests, TransportRaises(r) PROVE TypeOK'
    BY <1>9, RespondTypes DEF TransportRaises, Raise, Statuses
  <1>10. ASSUME NEW r \in Requests, Abandon(r) PROVE TypeOK'
    BY <1>10 DEF Abandon, InFlight, Statuses
  <1>11. ASSUME CancelOuter PROVE TypeOK'
    BY <1>11 DEF CancelOuter, FirstCancel, requestVars, Statuses
  <1>12. ASSUME ListenerEnds PROVE TypeOK'
    BY <1>12 DEF ListenerEnds, InFlight, requestVars, Statuses
  <1>13. CASE UNCHANGED httpVars
    BY <1>13 DEF httpVars, InFlight
  <1>14. QED
    BY <1>1, <1>2, <1>3, <1>4, <1>5, <1>6, <1>7, <1>8, <1>9, <1>10, <1>11, <1>12, <1>13 DEF Next

\* Every step keeps the listener in step with its owner.
LEMMA NextListener == IndInv /\ [Next]_httpVars => ListenerFollows'
  <1> SUFFICES ASSUME IndInv, [Next]_httpVars PROVE ListenerFollows'
    OBVIOUS
  <1> USE HttpAssumption DEF IndInv, TypeOK, ListenerFollows, InFlight
  <1>1. ASSUME NEW auth \in Settings, NEW builds \in BOOLEAN, Start(auth, builds) PROVE ListenerFollows'
    BY <1>1 DEF Start, requestVars, Statuses
  <1>2. ASSUME NEW r \in Requests, NEW h \in Heads, Arrive(r, h) PROVE ListenerFollows'
    BY <1>2 DEF Arrive, Authenticate, Respond, StartResponse, HandOn, Statuses
  <1>3. ASSUME NEW r \in Requests, ReadNext(r) PROVE ListenerFollows'
    <2>1. PICK n \in 0..(head[r].size - sent[r]), more \in BOOLEAN : ReadChunk(r, n, more)
      BY <1>3 DEF ReadNext
    <2>2. n \in Nat /\ sent[r] + n <= head[r].size
      BY DEF Readable
    <2>3. CASE kept[r] + n > MaxBodySize
      BY <2>1, <2>2, <2>3 DEF ReadChunk, Measure, Respond, StartResponse, Statuses
    <2>4. CASE kept[r] + n <= MaxBodySize
      BY <2>1, <2>2, <2>4 DEF ReadChunk, Measure, Judge, Respond, StartResponse, HandOn, Statuses
    <2>5. QED
      BY <2>2, <2>3, <2>4
  <1>4. ASSUME NEW r \in Requests, ReadDisconnect(r) PROVE ListenerFollows'
    BY <1>4 DEF ReadDisconnect, Judge, Respond, StartResponse, HandOn, Statuses
  <1>5. ASSUME NEW r \in Requests, Leave(r) PROVE ListenerFollows'
    BY <1>5 DEF Leave, Statuses
  <1>6. ASSUME NEW r \in Requests, RunTool(r) PROVE ListenerFollows'
    BY <1>6 DEF RunTool, Statuses
  <1>7. ASSUME NEW r \in Requests, TransportStarts(r) PROVE ListenerFollows'
    BY <1>7 DEF TransportStarts, StartResponse, Statuses
  <1>8. ASSUME NEW r \in Requests, TransportReturns(r) PROVE ListenerFollows'
    BY <1>8 DEF TransportReturns, Statuses
  <1>9. ASSUME NEW r \in Requests, TransportRaises(r) PROVE ListenerFollows'
    BY <1>9 DEF TransportRaises, Raise, Respond, StartResponse, Statuses
  <1>10. ASSUME NEW r \in Requests, Abandon(r) PROVE ListenerFollows'
    BY <1>10 DEF Abandon, InFlight, Statuses
  <1>11. ASSUME CancelOuter PROVE ListenerFollows'
    BY <1>11 DEF CancelOuter, FirstCancel, requestVars, Statuses
  <1>12. ASSUME ListenerEnds PROVE ListenerFollows'
    BY <1>12 DEF ListenerEnds, InFlight, requestVars, Statuses
  <1>13. CASE UNCHANGED httpVars
    BY <1>13 DEF httpVars, InFlight
  <1>14. QED
    BY <1>1, <1>2, <1>3, <1>4, <1>5, <1>6, <1>7, <1>8, <1>9, <1>10, <1>11, <1>12, <1>13 DEF Next

\* Every step starts a response only on a request without one.
LEMMA NextPhase == IndInv /\ [Next]_httpVars => PhaseTells'
  <1> SUFFICES ASSUME IndInv, [Next]_httpVars PROVE PhaseTells'
    OBVIOUS
  <1> USE HttpAssumption DEF IndInv, TypeOK, PhaseTells
  <1>1. ASSUME NEW auth \in Settings, NEW builds \in BOOLEAN, Start(auth, builds) PROVE PhaseTells'
    BY <1>1 DEF Start, requestVars, Statuses
  <1>2. ASSUME NEW r \in Requests, NEW h \in Heads, Arrive(r, h) PROVE PhaseTells'
    BY <1>2, HeadTypes DEF Arrive, Authenticate, Respond, StartResponse, HandOn, Statuses
  <1>3. ASSUME NEW r \in Requests, ReadNext(r) PROVE PhaseTells'
    <2>1. PICK n \in 0..(head[r].size - sent[r]), more \in BOOLEAN : ReadChunk(r, n, more)
      BY <1>3 DEF ReadNext
    <2>2. n \in Nat /\ sent[r] + n <= head[r].size
      BY DEF Readable
    <2>3. CASE kept[r] + n > MaxBodySize
      BY <2>1, <2>2, <2>3 DEF ReadChunk, Measure, Respond, StartResponse, Statuses
    <2>4. CASE kept[r] + n <= MaxBodySize
      BY <2>1, <2>2, <2>4 DEF ReadChunk, Measure, Judge, Respond, StartResponse, HandOn, Statuses
    <2>5. QED
      BY <2>2, <2>3, <2>4
  <1>4. ASSUME NEW r \in Requests, ReadDisconnect(r) PROVE PhaseTells'
    BY <1>4 DEF ReadDisconnect, Judge, Respond, StartResponse, HandOn, Statuses
  <1>5. ASSUME NEW r \in Requests, Leave(r) PROVE PhaseTells'
    BY <1>5 DEF Leave, Statuses
  <1>6. ASSUME NEW r \in Requests, RunTool(r) PROVE PhaseTells'
    BY <1>6 DEF RunTool, Statuses
  <1>7. ASSUME NEW r \in Requests, TransportStarts(r) PROVE PhaseTells'
    BY <1>7 DEF TransportStarts, StartResponse, Statuses
  <1>8. ASSUME NEW r \in Requests, TransportReturns(r) PROVE PhaseTells'
    BY <1>8 DEF TransportReturns, Statuses
  <1>9. ASSUME NEW r \in Requests, TransportRaises(r) PROVE PhaseTells'
    BY <1>9 DEF TransportRaises, Raise, Respond, StartResponse, Statuses
  <1>10. ASSUME NEW r \in Requests, Abandon(r) PROVE PhaseTells'
    BY <1>10 DEF Abandon, InFlight, Statuses
  <1>11. ASSUME CancelOuter PROVE PhaseTells'
    BY <1>11 DEF CancelOuter, FirstCancel, requestVars, Statuses
  <1>12. ASSUME ListenerEnds PROVE PhaseTells'
    BY <1>12 DEF ListenerEnds, InFlight, requestVars, Statuses
  <1>13. CASE UNCHANGED httpVars
    BY <1>13 DEF httpVars, InFlight
  <1>14. QED
    BY <1>1, <1>2, <1>3, <1>4, <1>5, <1>6, <1>7, <1>8, <1>9, <1>10, <1>11, <1>12, <1>13 DEF Next

\* Every step keeps what arrives, or refuses the request.
LEMMA NextKept == IndInv /\ [Next]_httpVars => KeptUnlessRefused'
  <1> SUFFICES ASSUME IndInv, [Next]_httpVars PROVE KeptUnlessRefused'
    OBVIOUS
  <1> USE HttpAssumption DEF IndInv, TypeOK, KeptUnlessRefused, PhaseTells
  <1>1. ASSUME NEW auth \in Settings, NEW builds \in BOOLEAN, Start(auth, builds) PROVE KeptUnlessRefused'
    BY <1>1 DEF Start, requestVars, Statuses
  <1>2. ASSUME NEW r \in Requests, NEW h \in Heads, Arrive(r, h) PROVE KeptUnlessRefused'
    BY <1>2, HeadTypes DEF Arrive, Authenticate, Respond, StartResponse, HandOn, Statuses
  <1>3. ASSUME NEW r \in Requests, ReadNext(r) PROVE KeptUnlessRefused'
    <2>1. PICK n \in 0..(head[r].size - sent[r]), more \in BOOLEAN : ReadChunk(r, n, more)
      BY <1>3 DEF ReadNext
    <2>2. n \in Nat /\ sent[r] + n <= head[r].size
      BY DEF Readable
    <2>3. CASE kept[r] + n > MaxBodySize
      BY <2>1, <2>2, <2>3 DEF ReadChunk, Measure, Respond, StartResponse, Statuses
    <2>4. CASE kept[r] + n <= MaxBodySize
      BY <2>1, <2>2, <2>4 DEF ReadChunk, Measure, Judge, Respond, StartResponse, HandOn, Statuses
    <2>5. QED
      BY <2>2, <2>3, <2>4
  <1>4. ASSUME NEW r \in Requests, ReadDisconnect(r) PROVE KeptUnlessRefused'
    BY <1>4 DEF ReadDisconnect, Judge, Respond, StartResponse, HandOn, Statuses
  <1>5. ASSUME NEW r \in Requests, Leave(r) PROVE KeptUnlessRefused'
    BY <1>5 DEF Leave, Statuses
  <1>6. ASSUME NEW r \in Requests, RunTool(r) PROVE KeptUnlessRefused'
    BY <1>6 DEF RunTool, Statuses
  <1>7. ASSUME NEW r \in Requests, TransportStarts(r) PROVE KeptUnlessRefused'
    BY <1>7 DEF TransportStarts, StartResponse, Statuses
  <1>8. ASSUME NEW r \in Requests, TransportReturns(r) PROVE KeptUnlessRefused'
    BY <1>8 DEF TransportReturns, Statuses
  <1>9. ASSUME NEW r \in Requests, TransportRaises(r) PROVE KeptUnlessRefused'
    BY <1>9 DEF TransportRaises, Raise, Respond, StartResponse, Statuses
  <1>10. ASSUME NEW r \in Requests, Abandon(r) PROVE KeptUnlessRefused'
    BY <1>10 DEF Abandon, InFlight, Statuses
  <1>11. ASSUME CancelOuter PROVE KeptUnlessRefused'
    BY <1>11 DEF CancelOuter, FirstCancel, requestVars, Statuses
  <1>12. ASSUME ListenerEnds PROVE KeptUnlessRefused'
    BY <1>12 DEF ListenerEnds, InFlight, requestVars, Statuses
  <1>13. CASE UNCHANGED httpVars
    BY <1>13 DEF httpVars, InFlight
  <1>14. QED
    BY <1>1, <1>2, <1>3, <1>4, <1>5, <1>6, <1>7, <1>8, <1>9, <1>10, <1>11, <1>12, <1>13 DEF Next

\* Every step hands on verified and readable requests only.
LEMMA NextHandedOn == IndInv /\ [Next]_httpVars => HandedOn'
  <1> SUFFICES ASSUME IndInv, [Next]_httpVars PROVE HandedOn'
    OBVIOUS
  <1> USE HttpAssumption DEF IndInv, TypeOK, HandedOn, PhaseTells, Readable
  <1>1. ASSUME NEW auth \in Settings, NEW builds \in BOOLEAN, Start(auth, builds) PROVE HandedOn'
    BY <1>1 DEF Start, requestVars, Statuses
  <1>2. ASSUME NEW r \in Requests, NEW h \in Heads, Arrive(r, h) PROVE HandedOn'
    BY <1>2, HeadTypes DEF Arrive, Authenticate, Respond, StartResponse, HandOn, Statuses
  <1>3. ASSUME NEW r \in Requests, ReadNext(r) PROVE HandedOn'
    <2>1. PICK n \in 0..(head[r].size - sent[r]), more \in BOOLEAN : ReadChunk(r, n, more)
      BY <1>3 DEF ReadNext
    <2>2. n \in Nat /\ sent[r] + n <= head[r].size
      BY DEF Readable
    <2>3. CASE kept[r] + n > MaxBodySize
      BY <2>1, <2>2, <2>3 DEF ReadChunk, Measure, Respond, StartResponse, Statuses
    <2>4. CASE kept[r] + n <= MaxBodySize
      BY <2>1, <2>2, <2>4 DEF ReadChunk, Measure, Judge, Respond, StartResponse, HandOn, Statuses
    <2>5. QED
      BY <2>2, <2>3, <2>4
  <1>4. ASSUME NEW r \in Requests, ReadDisconnect(r) PROVE HandedOn'
    BY <1>4 DEF ReadDisconnect, Judge, Respond, StartResponse, HandOn, Statuses
  <1>5. ASSUME NEW r \in Requests, Leave(r) PROVE HandedOn'
    BY <1>5 DEF Leave, Statuses
  <1>6. ASSUME NEW r \in Requests, RunTool(r) PROVE HandedOn'
    BY <1>6 DEF RunTool, Statuses
  <1>7. ASSUME NEW r \in Requests, TransportStarts(r) PROVE HandedOn'
    BY <1>7 DEF TransportStarts, StartResponse, Statuses
  <1>8. ASSUME NEW r \in Requests, TransportReturns(r) PROVE HandedOn'
    BY <1>8 DEF TransportReturns, Statuses
  <1>9. ASSUME NEW r \in Requests, TransportRaises(r) PROVE HandedOn'
    BY <1>9 DEF TransportRaises, Raise, Respond, StartResponse, Statuses
  <1>10. ASSUME NEW r \in Requests, Abandon(r) PROVE HandedOn'
    BY <1>10 DEF Abandon, InFlight, Statuses
  <1>11. ASSUME CancelOuter PROVE HandedOn'
    BY <1>11 DEF CancelOuter, FirstCancel, requestVars, Statuses
  <1>12. ASSUME ListenerEnds PROVE HandedOn'
    BY <1>12 DEF ListenerEnds, InFlight, requestVars, Statuses
  <1>13. CASE UNCHANGED httpVars
    BY <1>13 DEF httpVars, InFlight
  <1>14. QED
    BY <1>1, <1>2, <1>3, <1>4, <1>5, <1>6, <1>7, <1>8, <1>9, <1>10, <1>11, <1>12, <1>13 DEF Next

\* Every step runs tools for such requests only.
LEMMA NextTools == IndInv /\ [Next]_httpVars => ToolsRunForWholeVerifiedCalls'
  <1> SUFFICES ASSUME IndInv, [Next]_httpVars PROVE ToolsRunForWholeVerifiedCalls'
    OBVIOUS
  <1> USE HttpAssumption DEF IndInv, TypeOK, ToolsRunForWholeVerifiedCalls, HandedOn, PhaseTells, KeptUnlessRefused, Readable
  <1>1. ASSUME NEW auth \in Settings, NEW builds \in BOOLEAN, Start(auth, builds) PROVE ToolsRunForWholeVerifiedCalls'
    BY <1>1 DEF Start, requestVars, Statuses
  <1>2. ASSUME NEW r \in Requests, NEW h \in Heads, Arrive(r, h) PROVE ToolsRunForWholeVerifiedCalls'
    BY <1>2, HeadTypes DEF Arrive, Authenticate, Respond, StartResponse, HandOn, Statuses
  <1>3. ASSUME NEW r \in Requests, ReadNext(r) PROVE ToolsRunForWholeVerifiedCalls'
    <2>1. PICK n \in 0..(head[r].size - sent[r]), more \in BOOLEAN : ReadChunk(r, n, more)
      BY <1>3 DEF ReadNext
    <2>2. n \in Nat /\ sent[r] + n <= head[r].size
      BY DEF Readable
    <2>3. CASE kept[r] + n > MaxBodySize
      BY <2>1, <2>2, <2>3 DEF ReadChunk, Measure, Respond, StartResponse, Statuses
    <2>4. CASE kept[r] + n <= MaxBodySize
      BY <2>1, <2>2, <2>4 DEF ReadChunk, Measure, Judge, Respond, StartResponse, HandOn, Statuses
    <2>5. QED
      BY <2>2, <2>3, <2>4
  <1>4. ASSUME NEW r \in Requests, ReadDisconnect(r) PROVE ToolsRunForWholeVerifiedCalls'
    BY <1>4 DEF ReadDisconnect, Judge, Respond, StartResponse, HandOn, Statuses
  <1>5. ASSUME NEW r \in Requests, Leave(r) PROVE ToolsRunForWholeVerifiedCalls'
    BY <1>5 DEF Leave, Statuses
  <1>6. ASSUME NEW r \in Requests, RunTool(r) PROVE ToolsRunForWholeVerifiedCalls'
    BY <1>6 DEF RunTool, Statuses
  <1>7. ASSUME NEW r \in Requests, TransportStarts(r) PROVE ToolsRunForWholeVerifiedCalls'
    BY <1>7 DEF TransportStarts, StartResponse, Statuses
  <1>8. ASSUME NEW r \in Requests, TransportReturns(r) PROVE ToolsRunForWholeVerifiedCalls'
    BY <1>8 DEF TransportReturns, Statuses
  <1>9. ASSUME NEW r \in Requests, TransportRaises(r) PROVE ToolsRunForWholeVerifiedCalls'
    BY <1>9 DEF TransportRaises, Raise, Respond, StartResponse, Statuses
  <1>10. ASSUME NEW r \in Requests, Abandon(r) PROVE ToolsRunForWholeVerifiedCalls'
    BY <1>10 DEF Abandon, InFlight, Statuses
  <1>11. ASSUME CancelOuter PROVE ToolsRunForWholeVerifiedCalls'
    BY <1>11 DEF CancelOuter, FirstCancel, requestVars, Statuses
  <1>12. ASSUME ListenerEnds PROVE ToolsRunForWholeVerifiedCalls'
    BY <1>12 DEF ListenerEnds, InFlight, requestVars, Statuses
  <1>13. CASE UNCHANGED httpVars
    BY <1>13 DEF httpVars, InFlight
  <1>14. QED
    BY <1>1, <1>2, <1>3, <1>4, <1>5, <1>6, <1>7, <1>8, <1>9, <1>10, <1>11, <1>12, <1>13 DEF Next

(***************************************************************************)
(* The invariants of every reachable state                                 *)
(***************************************************************************)
\* The inductive invariant holds in every state.
THEOREM InductiveInvariant == Spec => []IndInv
  <1>1. IndInv /\ [Next]_httpVars => IndInv'
    BY NextType, NextListener, NextPhase, NextKept, NextHandedOn, NextTools DEF IndInv
  <1>2. QED
    BY InitInd, <1>1, PTL DEF Spec

\* Every variable of the server stays in its set, in every state.
THEOREM TypeCorrect == Spec => []TypeOK
  <1>1. IndInv => TypeOK
    BY HttpAssumption DEF IndInv, TypeOK
  <1>2. QED
    BY InductiveInvariant, <1>1, PTL

\* Whatever raises and whenever, a request has one response at most.
THEOREM AnsweredOnce == Spec => []OneResponse
  <1>1. IndInv => OneResponse
    BY HttpAssumption DEF IndInv, PhaseTells, OneResponse, TypeOK, Statuses
  <1>2. QED
    BY InductiveInvariant, <1>1, PTL

\* A tool runs for a verified caller and a body that arrived whole.
THEOREM ToolsRunForVerifiedCalls == Spec => []ToolsRunForWholeVerifiedCalls
  <1>1. IndInv => ToolsRunForWholeVerifiedCalls
    BY HttpAssumption DEF IndInv, ToolsRunForWholeVerifiedCalls
  <1>2. QED
    BY InductiveInvariant, <1>1, PTL

\* A body is refused for its size exactly when it is past the limit, whatever
\* its chunks.
THEOREM RefusedPastTheLimit == Spec => []RefusedExactlyPastTheLimit
  <1>1. ASSUME IndInv, NEW r \in Requests
        PROVE  /\ kept[r] <= MaxBodySize
               /\ status[r] = 413 => head[r].size > MaxBodySize
               /\ sent[r] = head[r].size /\ head[r].size > MaxBodySize => status[r] = 413
    <2>1. kept[r] \in Nat /\ sent[r] \in Nat /\ head[r].size \in Nat /\ MaxBodySize \in Nat
      BY <1>1, HttpAssumption DEF IndInv, TypeOK
    <2>2. QED
      BY <1>1, <2>1 DEF IndInv, KeptUnlessRefused
  <1>2. IndInv => RefusedExactlyPastTheLimit
    BY <1>1 DEF RefusedExactlyPastTheLimit
  <1>3. QED
    BY InductiveInvariant, <1>2, PTL

\* A single cancellation lets requests in flight end before the server does.
THEOREM ShutdownInOrder == Spec => []EndsInOrder
  <1>1. IndInv => EndsInOrder
    BY HttpAssumption DEF IndInv, ListenerFollows, EndsInOrder, TypeOK
  <1>2. QED
    BY InductiveInvariant, <1>1, PTL
==============================================================================
