------------------------- MODULE PyTeamServer_proofs -------------------------
(***************************************************************************)
(* Proofs about PyTeamServer: what is proved of PyTaskCreation holds of    *)
(* the server it is part of, and what the server adds, for any number of   *)
(* calls, any inbox and any team.                                          *)
(***************************************************************************)
EXTENDS PyTeamServer, PyTaskCreation_refines

(***************************************************************************)
(* Every step of the server is one of creation, or leaves creation alone   *)
(***************************************************************************)
\* A call that gets to the gates is a request PyTaskCreation knows.
LEMMA GateIsRequest ==
  ASSUME NEW r \in Inbox, ReadableCreation(r.args)
  PROVE  Gate(r) \in Requests
  BY ServerAssumption DEF Gate, GateVerdict, Requests, ReadableCreation

LEMMA StepIsCreation == [ServerNext]_serverVars => [Next]_vars
  <1> SUFFICES ASSUME [ServerNext]_serverVars PROVE [Next]_vars
    OBVIOUS
  <1>1. ASSUME NEW c \in Calls, NEW r \in Inbox, Create(c, r) PROVE [Next]_vars
    BY <1>1, GateIsRequest DEF Create, AnswerAtOnce, Next
  <1>2. ASSUME NEW c \in Calls, NEW r \in Inbox,
               \/ Forbid(c, r) \/ Preview(c, r) \/ ReadStatus(c, r)
               \/ UseTool(c, r) \/ UnknownTool(c, r)
        PROVE  UNCHANGED vars
    BY <1>2 DEF Forbid, Preview, ReadStatus, UseTool, UnknownTool, AnswerAtOnce
  <1>3. ASSUME NEW c \in Calls, TeamReportsStatus(c) \/ TeamToolEnds(c) PROVE UNCHANGED vars
    BY <1>3 DEF TeamReportsStatus, TeamToolEnds
  <1>4. ASSUME NEW c \in Calls, CreateTaskEnds(c) PROVE Next
    BY <1>4 DEF CreateTaskEnds, Next
  <1>5. ASSUME NEW c \in Calls, CreationGoesOn(c) PROVE Next
    BY <1>5 DEF CreationGoesOn, Next
  <1>6. ASSUME NEW c \in Calls, CancelCall(c) \/ CallCancelled(c) PROVE Next
    BY <1>6 DEF CancelCall, CallCancelled, Next
  <1>7. CASE AllReplied \/ UNCHANGED serverVars
    BY <1>7 DEF AllReplied, serverVars
  <1>8. QED
    BY <1>1, <1>2, <1>3, <1>4, <1>5, <1>6, <1>7 DEF ServerNext

\* The calls of create are those of PyTaskCreation, whatever else is called,
\* answered or cancelled meanwhile.
THEOREM ServerCreates == ServerSpec => Spec
  <1>1. ServerInit => Init
    BY DEF ServerInit
  <1>2. QED
    BY <1>1, StepIsCreation, PTL DEF ServerSpec, Spec

\* So no two create_task calls of a team run for one key, and no creation is
\* told to a call of another's, through whatever the server does besides.
THEOREM ServerCreatesOnce == ServerSpec => [](OneCreationPerKey /\ ToldOfItsOwnKey)
  BY ServerCreates, OneCreation, AnswersAreTrue, PTL

\* What hosts are promised of concurrent calls, they are promised of the server.
THEOREM ServerMerges == ServerSpec => ImplementsMergedCreation
  BY ServerCreates, Implementation, PTL

(***************************************************************************)
(* The invariant of the server                                             *)
(***************************************************************************)
\* What a call has passed that waits for the team in a stage.
MayBeIn(r, where) ==
  /\ Authorized(r)
  /\ \/ where = "create" /\ r.name = "create" /\ ReadableCreation(r.args) /\ Refusal(Gate(r)) = "none"
     \/ /\ where = "status" /\ r.name = "status" /\ team.hasStatus
        /\ ReadableTaskIds(r.args.taskIds)
     \/ where = "tool" /\ Named(r.name)

CreationFailures == Failures \cup {Error("INTERNAL", FALSE)}
Creations == {Created(task) : task \in References}

\* What a call may be replied.
MayBeReplied(r, result) ==
  \/ result.kind = "cancelled" /\ \E where \in {"create", "status", "tool"} : MayBeIn(r, where)
  \/ ~Authorized(r) /\ result = Error("FORBIDDEN", FALSE)
  \/ /\ Authorized(r)
     /\ \/ r.name \in {"descriptor", "validate", "render"} /\ result = PreviewOf(r)
        \/ r.name = "create" /\ ~ReadableCreation(r.args) /\ result = Error("INVALID_INPUT", FALSE)
        \/ /\ r.name = "create" /\ ReadableCreation(r.args) /\ Refusal(Gate(r)) # "none"
           /\ result = GateError(r)
        \/ /\ r.name = "create" /\ ReadableCreation(r.args) /\ Refusal(Gate(r)) = "none"
           /\ result \in CreationFailures \cup Creations
        \/ /\ r.name = "status" /\ team.hasStatus /\ ~ReadableTaskIds(r.args.taskIds)
           /\ result = Error("INVALID_INPUT", FALSE)
        \/ /\ r.name = "status" /\ team.hasStatus /\ ReadableTaskIds(r.args.taskIds)
           /\ result.kind = "ok" \/ result \in Failures \cup {Error("FORBIDDEN", FALSE)}
        \/ Named(r.name) /\ result \in Failures \cup {Ok}
        \/ r.name \notin Listed /\ result = Error("INVALID_INPUT", FALSE)

ServerShape ==
  /\ team \in Teams /\ Builds(team)
  /\ stage \in [Calls -> {"new", "create", "status", "tool", "replied"}]
  /\ asks \in [Calls -> Inbox \cup {None}]
  /\ made \in [Calls -> CreationFailures \cup Creations \cup {NoReply}]
  /\ reply = [c \in Calls |-> reply[c]]

\* A call is in create_task exactly while its stage says so.
StageTells ==
  \A c \in Calls :
    /\ stage[c] = "create" <=> pc[c] \in {"waiting", "creating"}
    /\ stage[c] \in {"new", "status", "tool"} => pc[c] = "new"
    /\ stage[c] = "new" => asks[c] = None

\* What a call waits for, and what it is replied, is what it asked for.
AskedRightly(c) ==
  /\ stage[c] \in {"create", "status", "tool"} => asks[c] # None /\ MayBeIn(asks[c], stage[c])
  /\ stage[c] # "replied" => reply[c] = NoReply
  /\ stage[c] = "replied" /\ asks[c] # None => MayBeReplied(asks[c], reply[c])

AsAsked == \A c \in Calls : AskedRightly(c)

\* A call that is told of a creation is replied what its owner is.
CreationsTold ==
  \A c \in Calls :
    /\ outcome[c] = "failed" => made[c] \in CreationFailures
    /\ outcome[c] = "created" => made[c] \in Creations
    /\ answer[c].by # None => answer[c].kind \in {"created", "failed"}
    /\ answer[c].kind \in {"created", "failed"} => reply[c] = made[answer[c].by]

ServerInv == ServerShape /\ StageTells /\ AsAsked /\ CreationsTold

(***************************************************************************)
(* Lemmas: results, and steps of one call                                  *)
(***************************************************************************)
LEMMA ResultKinds ==
  /\ NoReply.kind = "none"
  /\ Ok.kind = "ok"
  /\ CancelledError.kind = "cancelled"
  /\ \A creation \in Creations : creation.kind = "ok"
  /\ \A code, retryable : /\ Error(code, retryable).kind = "error"
                          /\ Error(code, retryable).code = code
  /\ Internal \in Failures
  /\ \A failure \in CreationFailures : failure.kind = "error"
  /\ \A listed, asked :
       StatusReply(listed, asked).kind = "ok" \/ StatusReply(listed, asked) \in Failures
  BY DEF NoReply, Ok, Created, Creations, CancelledError, Result, Error, Internal, Failures,
         CreationFailures, StatusReply, Structured

\* What a refusal at the gates is told: an error of the server's, or what the
\* team's validate raised.
LEMMA GateErrors ==
  ASSUME team \in Teams, NEW r, Refusal(Gate(r)) # "none"
  PROVE  \/ Refusal(Gate(r)) = "raised" /\ GateError(r) \in Failures
         \/ /\ Refusal(Gate(r)) \in {"FORBIDDEN", "NOT_READY"}
            /\ GateError(r) = Error(Refusal(Gate(r)), FALSE)
  <1>1. Gate(r).verdict = GateVerdict(r)
    BY DEF Gate
  <1>2. GateVerdict(r) \in {"raises", "ready", "not_ready"}
    BY DEF GateVerdict
  <1>3. Refusal(Gate(r)) \in {"FORBIDDEN", "NOT_READY", "raised"}
    BY <1>1, <1>2 DEF Refusal
  <1>4. Refusal(Gate(r)) = "raised" => Raises(team.rules)
    BY <1>1, <1>2 DEF Refusal, GateVerdict
  <1>5. QED
    BY <1>3, <1>4, ServerAssumption DEF GateError

\* The definition a server serves never changes, nor what a request may get.
LEMMA TeamStays == [ServerNext]_serverVars => UNCHANGED team
  BY DEF ServerNext, serverVars, Forbid, Preview, Create, ReadStatus, UseTool, UnknownTool,
         AnswerAtOnce, TeamReportsStatus, TeamToolEnds, CreateTaskEnds, CreationGoesOn,
         CreationsAnswered, CancelCall, CallCancelled, AllReplied

LEMMA RepliesStay ==
  ASSUME UNCHANGED team, NEW r, NEW result
  PROVE  MayBeReplied(r, result)' <=> MayBeReplied(r, result)
  BY DEF MayBeReplied, MayBeIn, Authorized, RequiredScope, Named, ToolNamed, PreviewOf, Listed,
         Gate, GateVerdict, GateError, Refusal

LEMMA PlacesStay ==
  ASSUME UNCHANGED team, NEW r, NEW where
  PROVE  MayBeIn(r, where)' <=> MayBeIn(r, where)
  BY DEF MayBeIn, Authorized, RequiredScope, Named, ToolNamed, Gate, GateVerdict, Refusal

\* A step of one call leaves the others as they were.
LEMMA OneCallMoves ==
  ASSUME AsAsked, UNCHANGED team, NEW c \in Calls, AskedRightly(c)',
         \A d \in Calls \ {c} : UNCHANGED <<stage[d], asks[d], reply[d]>>
  PROVE  AsAsked'
  <1>1. ASSUME NEW d \in Calls \ {c} PROVE AskedRightly(d)'
    BY RepliesStay, PlacesStay DEF AsAsked, AskedRightly
  <1>2. QED
    BY <1>1 DEF AsAsked

\* The calls of create that have just ended are replied, and no others.
LEMMA OnlyEndedCallsAreReplied ==
  ASSUME ServerShape, CreationsAnswered
  PROVE  /\ stage' \in [Calls -> {"new", "create", "status", "tool", "replied"}]
         /\ reply' = [c \in Calls |-> reply'[c]]
         /\ \A c \in Calls :
              IF stage[c] = "create" /\ pc'[c] = "answered"
              THEN stage'[c] = "replied" /\ reply'[c] = CreationReply(c)
              ELSE stage'[c] = stage[c] /\ reply'[c] = reply[c]
         /\ UNCHANGED <<team, asks>>
  BY DEF ServerShape, CreationsAnswered

\* What the end of create_task leaves for those who are told of it.
LEMMA EndIsMade ==
  ASSUME ServerShape, NEW c \in Calls, CreateTaskEnds(c)
  PROVE  /\ \E how \in {"created", "failed", "abandoned"} :
              /\ Finish(c, how)
              /\ how = "failed" => made'[c] \in CreationFailures
              /\ how = "created" => made'[c] \in Creations
         /\ \A d \in Calls \ {c} : made'[d] = made[d]
  BY DEF ServerShape, CreateTaskEnds, CreationFailures, Creations

(***************************************************************************)
(* One lemma per part of the invariant                                     *)
(***************************************************************************)

\* Every step keeps the shape of the server's variables.
LEMMA NextShape == ServerShape /\ [ServerNext]_serverVars => ServerShape'
  <1> SUFFICES ASSUME ServerShape, [ServerNext]_serverVars PROVE ServerShape'
    OBVIOUS
  <1> USE DEF ServerShape
  <1>1. ASSUME NEW c \in Calls, NEW r \in Inbox, Forbid(c, r)
        PROVE  ServerShape'
    BY <1>1 DEF Forbid, AnswerAtOnce, Comes, RepliesWith, Builds
  <1>2. ASSUME NEW c \in Calls, NEW r \in Inbox, Preview(c, r)
        PROVE  ServerShape'
    BY <1>2 DEF Preview, AnswerAtOnce, Comes, RepliesWith, Builds
  <1>3. ASSUME NEW c \in Calls, NEW r \in Inbox, Create(c, r)
        PROVE  ServerShape'
    BY <1>3 DEF Create, AnswerAtOnce, Comes, RepliesWith, Builds
  <1>4. ASSUME NEW c \in Calls, NEW r \in Inbox, ReadStatus(c, r)
        PROVE  ServerShape'
    BY <1>4 DEF ReadStatus, AnswerAtOnce, Comes, RepliesWith, Builds
  <1>5. ASSUME NEW c \in Calls, NEW r \in Inbox, UseTool(c, r)
        PROVE  ServerShape'
    BY <1>5 DEF UseTool, Comes, Builds
  <1>6. ASSUME NEW c \in Calls, NEW r \in Inbox, UnknownTool(c, r)
        PROVE  ServerShape'
    BY <1>6 DEF UnknownTool, AnswerAtOnce, Comes, RepliesWith, Builds
  <1>7. ASSUME NEW c \in Calls, TeamReportsStatus(c)
        PROVE  ServerShape'
    BY <1>7 DEF TeamReportsStatus, RepliesWith, Builds
  <1>8. ASSUME NEW c \in Calls, TeamToolEnds(c)
        PROVE  ServerShape'
    BY <1>8 DEF TeamToolEnds, RepliesWith, Builds
  <1>9. ASSUME NEW c \in Calls, CreateTaskEnds(c)
        PROVE  ServerShape'
    <2>1. (team \in Teams /\ Builds(team))' /\ asks' \in [Calls -> Inbox \cup {None}]
      BY <1>9 DEF CreateTaskEnds, CreationsAnswered, Builds
    <2>2. made' \in [Calls -> CreationFailures \cup Creations \cup {NoReply}]
      BY <1>9 DEF CreateTaskEnds, CreationFailures, Creations
    <2>3. QED
      BY <1>9, <2>1, <2>2, OnlyEndedCallsAreReplied DEF CreateTaskEnds
  <1>10. ASSUME NEW c \in Calls, CreationGoesOn(c)
        PROVE  ServerShape'
    <2>1. /\ (team \in Teams /\ Builds(team))' /\ asks' \in [Calls -> Inbox \cup {None}]
          /\ UNCHANGED made
      BY <1>10 DEF CreationGoesOn, CreationsAnswered, Builds
    <2>2. QED
      BY <1>10, <2>1, OnlyEndedCallsAreReplied DEF CreationGoesOn
  <1>11. ASSUME NEW c \in Calls, CancelCall(c)
        PROVE  ServerShape'
    BY <1>11 DEF CancelCall, Builds
  <1>12. ASSUME NEW c \in Calls, CallCancelled(c)
        PROVE  ServerShape'
    BY <1>12 DEF CallCancelled, RepliesWith, Builds
  <1>13. CASE AllReplied \/ UNCHANGED serverVars
    BY <1>13 DEF AllReplied, serverVars, vars, Builds
  <1>14. QED
    BY <1>1, <1>2, <1>3, <1>4, <1>5, <1>6, <1>7, <1>8, <1>9, <1>10, <1>11, <1>12, <1>13
    DEF ServerNext

\* Every step keeps a call's stage in step with its place in create_task.
LEMMA NextStage == ServerInv /\ IndInv /\ [ServerNext]_serverVars => StageTells'
  <1> SUFFICES ASSUME ServerInv, IndInv, [ServerNext]_serverVars PROVE StageTells'
    OBVIOUS
  <1> USE DEF ServerInv, ServerShape, StageTells, IndInv, TypeInv, TypeOK, KeysKnown
  <1>1. ASSUME NEW c \in Calls, NEW r \in Inbox, Forbid(c, r)
        PROVE  StageTells'
    BY <1>1 DEF Forbid, AnswerAtOnce, Comes, RepliesWith, vars
  <1>2. ASSUME NEW c \in Calls, NEW r \in Inbox, Preview(c, r)
        PROVE  StageTells'
    BY <1>2 DEF Preview, AnswerAtOnce, Comes, RepliesWith, vars
  <1>3. ASSUME NEW c \in Calls, NEW r \in Inbox, Create(c, r)
        PROVE  StageTells'
    <2>1. CASE AnswerAtOnce(c, r, Error("INVALID_INPUT", FALSE))
      BY <2>1 DEF AnswerAtOnce, Comes, RepliesWith, vars
    <2>2. CASE Comes(c, r) /\ Refuse(c, Gate(r)) /\ stage' = [stage EXCEPT ![c] = "replied"]
      BY <2>2 DEF Comes, Refuse
    <2>3. CASE Comes(c, r) /\ Enter(c, Gate(r)) /\ stage' = [stage EXCEPT ![c] = "create"]
      BY <2>3 DEF Comes, Enter, Join, Start, StartFlight
    <2>4. QED
      BY <1>3, <2>1, <2>2, <2>3 DEF Create, RepliesWith
  <1>4. ASSUME NEW c \in Calls, NEW r \in Inbox, ReadStatus(c, r)
        PROVE  StageTells'
    BY <1>4 DEF ReadStatus, AnswerAtOnce, Comes, RepliesWith, vars
  <1>5. ASSUME NEW c \in Calls, NEW r \in Inbox, UseTool(c, r)
        PROVE  StageTells'
    BY <1>5 DEF UseTool, Comes, vars
  <1>6. ASSUME NEW c \in Calls, NEW r \in Inbox, UnknownTool(c, r)
        PROVE  StageTells'
    BY <1>6 DEF UnknownTool, AnswerAtOnce, Comes, RepliesWith, vars
  <1>7. ASSUME NEW c \in Calls, TeamReportsStatus(c)
        PROVE  StageTells'
    BY <1>7 DEF TeamReportsStatus, RepliesWith, vars
  <1>8. ASSUME NEW c \in Calls, TeamToolEnds(c)
        PROVE  StageTells'
    BY <1>8 DEF TeamToolEnds, RepliesWith, vars
  <1>9. ASSUME NEW c \in Calls, CreateTaskEnds(c)
        PROVE  StageTells'
    <2>1. pc' = [pc EXCEPT ![c] = "answered"] /\ pc[c] = "creating"
      BY <1>9 DEF CreateTaskEnds, Finish
    <2>2. QED
      BY <1>9, <2>1, OnlyEndedCallsAreReplied DEF CreateTaskEnds
  <1>10. ASSUME NEW c \in Calls, CreationGoesOn(c)
        PROVE  StageTells'
    <2>1. CASE Suspend(c) \/ Wake(c)
      BY <1>10, <2>1, OnlyEndedCallsAreReplied DEF CreationGoesOn, Suspend, Wake
    <2>2. CASE ResumeShared(c)
      BY <1>10, <2>2, OnlyEndedCallsAreReplied DEF CreationGoesOn, ResumeShared
    <2>3. CASE ResumeLoop(c)
      BY <1>10, <2>3, OnlyEndedCallsAreReplied
      DEF CreationGoesOn, ResumeLoop, Join, Start, StartFlight
    <2>4. QED
      BY <1>10, <2>1, <2>2, <2>3 DEF CreationGoesOn
  <1>11. ASSUME NEW c \in Calls, CancelCall(c)
        PROVE  StageTells'
    BY <1>11 DEF CancelCall, Cancel
  <1>12. ASSUME NEW c \in Calls, CallCancelled(c)
        PROVE  StageTells'
    BY <1>12 DEF CallCancelled, RepliesWith, LeaveCancelled
  <1>13. CASE AllReplied \/ UNCHANGED serverVars
    BY <1>13 DEF AllReplied, serverVars, vars
  <1>14. QED
    BY <1>1, <1>2, <1>3, <1>4, <1>5, <1>6, <1>7, <1>8, <1>9, <1>10, <1>11, <1>12, <1>13
    DEF ServerNext

\* Every step takes a call where it asked to go, and replies what is due.
LEMMA NextAsked == ServerInv /\ IndInv /\ [ServerNext]_serverVars => AsAsked'
  <1> SUFFICES ASSUME ServerInv, IndInv, [ServerNext]_serverVars PROVE AsAsked'
    OBVIOUS
  <1> USE DEF ServerInv, ServerShape
  <1>1. ASSUME NEW c \in Calls, NEW r \in Inbox, Forbid(c, r)
        PROVE  AsAsked'
    <2>1. MayBeReplied(r, Error("FORBIDDEN", FALSE))
      BY <1>1 DEF Forbid, MayBeReplied
    <2>2. QED
      BY <1>1, <2>1, ServerAssumption, RepliesStay, OneCallMoves, TeamStays
      DEF Forbid, AnswerAtOnce, Comes, RepliesWith, AskedRightly
  <1>2. ASSUME NEW c \in Calls, NEW r \in Inbox, Preview(c, r)
        PROVE  AsAsked'
    <2>1. MayBeReplied(r, PreviewOf(r))
      BY <1>2 DEF Preview, MayBeReplied
    <2>2. QED
      BY <1>2, <2>1, ServerAssumption, RepliesStay, OneCallMoves, TeamStays
      DEF Preview, AnswerAtOnce, Comes, RepliesWith, AskedRightly
  <1>3. ASSUME NEW c \in Calls, NEW r \in Inbox, Create(c, r)
        PROVE  AsAsked'
    <2>1. Authorized(r) /\ r.name = "create"
      BY <1>3 DEF Create
    <2>2. CASE ~ReadableCreation(r.args) /\ AnswerAtOnce(c, r, Error("INVALID_INPUT", FALSE))
      <3>1. MayBeReplied(r, Error("INVALID_INPUT", FALSE))
        BY <2>1, <2>2 DEF MayBeReplied
      <3>2. QED
        BY <2>2, <3>1, ServerAssumption, RepliesStay, OneCallMoves, TeamStays
        DEF AnswerAtOnce, Comes, RepliesWith, AskedRightly
    <2>3. CASE /\ Comes(c, r) /\ ReadableCreation(r.args) /\ Refusal(Gate(r)) # "none"
               /\ UNCHANGED team /\ RepliesWith(c, GateError(r))
      <3>1. MayBeReplied(r, GateError(r))
        BY <2>1, <2>3 DEF MayBeReplied
      <3>2. QED
        BY <2>3, <3>1, ServerAssumption, RepliesStay, OneCallMoves
        DEF Comes, RepliesWith, AskedRightly
    <2>4. CASE /\ Comes(c, r) /\ ReadableCreation(r.args) /\ Refusal(Gate(r)) = "none"
               /\ stage' = [stage EXCEPT ![c] = "create"] /\ UNCHANGED <<team, reply>>
      <3>1. MayBeIn(r, "create")
        BY <2>1, <2>4 DEF MayBeIn
      <3>2. QED
        BY <2>4, <3>1, ServerAssumption, PlacesStay, OneCallMoves
        DEF Comes, AsAsked, AskedRightly
    <2>5. QED
      BY <1>3, <2>2, <2>3, <2>4 DEF Create, Refuse, Enter
  <1>4. ASSUME NEW c \in Calls, NEW r \in Inbox, ReadStatus(c, r)
        PROVE  AsAsked'
    <2>1. Authorized(r) /\ r.name = "status" /\ team.hasStatus
      BY <1>4 DEF ReadStatus
    <2>2. ASSUME NEW result, AnswerAtOnce(c, r, result), MayBeReplied(r, result) PROVE AsAsked'
      BY <2>2, ServerAssumption, RepliesStay, OneCallMoves, TeamStays
      DEF AnswerAtOnce, Comes, RepliesWith, AskedRightly
    <2>3. CASE /\ ~ReadableTaskIds(r.args.taskIds)
               /\ AnswerAtOnce(c, r, Error("INVALID_INPUT", FALSE))
      BY <2>1, <2>2, <2>3 DEF MayBeReplied
    <2>4. CASE /\ ReadableTaskIds(r.args.taskIds)
               /\ AnswerAtOnce(c, r, Error("FORBIDDEN", FALSE))
      BY <2>1, <2>2, <2>4 DEF MayBeReplied
    <2>5. CASE /\ ReadableTaskIds(r.args.taskIds)
               /\ Comes(c, r) /\ stage' = [stage EXCEPT ![c] = "status"]
               /\ UNCHANGED <<team, reply>>
      <3>1. MayBeIn(r, "status")
        BY <2>1, <2>5 DEF MayBeIn
      <3>2. QED
        BY <2>5, <3>1, ServerAssumption, PlacesStay, OneCallMoves
        DEF Comes, AsAsked, AskedRightly
    <2>6. QED
      BY <1>4, <2>3, <2>4, <2>5 DEF ReadStatus
  <1>5. ASSUME NEW c \in Calls, NEW r \in Inbox, UseTool(c, r)
        PROVE  AsAsked'
    <2>1. MayBeIn(r, "tool")
      BY <1>5 DEF UseTool, MayBeIn
    <2>2. QED
      BY <1>5, <2>1, ServerAssumption, PlacesStay, OneCallMoves
      DEF UseTool, Comes, AsAsked, AskedRightly
  <1>6. ASSUME NEW c \in Calls, NEW r \in Inbox, UnknownTool(c, r)
        PROVE  AsAsked'
    <2>1. MayBeReplied(r, Error("INVALID_INPUT", FALSE))
      BY <1>6 DEF UnknownTool, MayBeReplied
    <2>2. QED
      BY <1>6, <2>1, ServerAssumption, RepliesStay, OneCallMoves, TeamStays
      DEF UnknownTool, AnswerAtOnce, Comes, RepliesWith, AskedRightly
  <1>7. ASSUME NEW c \in Calls, TeamReportsStatus(c)
        PROVE  AsAsked'
    <2>1. MayBeIn(asks[c], "status") /\ asks[c] # None
      BY <1>7 DEF TeamReportsStatus, AsAsked, AskedRightly
    <2>2. PICK result : RepliesWith(c, result) /\ (result.kind = "ok" \/ result \in Failures)
      BY <1>7, ResultKinds DEF TeamReportsStatus
    <2>3. MayBeReplied(asks[c], result)
      BY <2>1, <2>2 DEF MayBeIn, MayBeReplied
    <2>4. QED
      BY <1>7, <2>2, <2>3, RepliesStay, OneCallMoves
      DEF TeamReportsStatus, RepliesWith, AskedRightly
  <1>8. ASSUME NEW c \in Calls, TeamToolEnds(c)
        PROVE  AsAsked'
    <2>1. MayBeIn(asks[c], "tool") /\ asks[c] # None
      BY <1>8 DEF TeamToolEnds, AsAsked, AskedRightly
    <2>2. PICK result \in {Ok} \cup Failures : RepliesWith(c, result)
      BY <1>8 DEF TeamToolEnds
    <2>3. MayBeReplied(asks[c], result)
      BY <2>1, <2>2 DEF MayBeIn, MayBeReplied
    <2>4. QED
      BY <1>8, <2>2, <2>3, RepliesStay, OneCallMoves
      DEF TeamToolEnds, RepliesWith, AskedRightly
  <1>9. ASSUME NEW c \in Calls, CreateTaskEnds(c)
        PROVE  AsAsked'
    <2>1. stage[c] = "create" /\ asks[c] # None /\ MayBeIn(asks[c], "create")
      BY <1>9 DEF CreateTaskEnds, Finish, StageTells, AsAsked, AskedRightly
    <2>2. PICK how \in {"created", "failed", "abandoned"} :
            /\ Finish(c, how)
            /\ how = "failed" => made'[c] \in CreationFailures
            /\ how = "created" => made'[c] \in Creations
      BY <1>9, EndIsMade
    <2>3. pc' = [pc EXCEPT ![c] = "answered"] /\ CreationsAnswered
      BY <1>9, <2>2 DEF CreateTaskEnds, Finish
    <2>4. answer'[c] = IF how = "abandoned" THEN Cancelled ELSE Told(c, how)
      BY <2>2 DEF Finish, IndInv, TypeInv, TypeOK
    <2>5. MayBeReplied(asks[c], CreationReply(c))
      <3>1. CreationReply(c) \in CreationFailures \cup Creations \cup {CancelledError}
        BY <2>2, <2>4 DEF CreationReply, Told, Cancelled
      <3>2. QED
        BY <2>1, <3>1, ResultKinds DEF MayBeIn, MayBeReplied
    <2>6. stage'[c] = "replied" /\ reply'[c] = CreationReply(c)
      BY <2>1, <2>3, OnlyEndedCallsAreReplied DEF IndInv, TypeInv, TypeOK
    <2>7. \A d \in Calls \ {c} : UNCHANGED <<stage[d], asks[d], reply[d]>>
      BY <2>3, OnlyEndedCallsAreReplied DEF StageTells, IndInv, TypeInv, TypeOK
    <2>8. UNCHANGED <<team, asks>>
      BY <2>3 DEF CreationsAnswered
    <2>9. QED
      BY <2>5, <2>6, <2>7, <2>8, RepliesStay, OneCallMoves DEF AskedRightly
  <1>10. ASSUME NEW c \in Calls, CreationGoesOn(c)
        PROVE  AsAsked'
    <2>1. UNCHANGED <<team, asks, made>> /\ CreationsAnswered
      BY <1>10 DEF CreationGoesOn, CreationsAnswered
    <2>2. CASE ResumeShared(c)
      <3>1. stage[c] = "create" /\ asks[c] # None /\ MayBeIn(asks[c], "create")
        BY <2>2 DEF ResumeShared, StageTells, AsAsked, AskedRightly, IndInv, TypeInv, KeysKnown
      <3>2. running[c] \in Calls /\ outcome[running[c]] \in {"created", "failed"}
        BY <2>2 DEF ResumeShared, IndInv, TypeInv, KeysKnown, NoForgottenWaiter
      <3>3. answer'[c] = Told(running[c], outcome[running[c]])
        BY <2>2 DEF ResumeShared, IndInv, TypeInv, TypeOK
      <3>4. MayBeReplied(asks[c], CreationReply(c))
        <4>1. CreationReply(c) \in CreationFailures \cup Creations
          BY <2>1, <3>2, <3>3 DEF CreationReply, Told, CreationsTold
        <4>2. QED
          BY <3>1, <4>1 DEF MayBeIn, MayBeReplied
      <3>5. pc' = [pc EXCEPT ![c] = "answered"]
        BY <2>2 DEF ResumeShared
      <3>6. stage'[c] = "replied" /\ reply'[c] = CreationReply(c)
        BY <2>1, <3>1, <3>5, OnlyEndedCallsAreReplied DEF IndInv, TypeInv, TypeOK
      <3>7. \A d \in Calls \ {c} : UNCHANGED <<stage[d], asks[d], reply[d]>>
        BY <2>1, <3>5, OnlyEndedCallsAreReplied DEF StageTells, IndInv, TypeInv, TypeOK
      <3>8. QED
        BY <2>1, <3>4, <3>6, <3>7, RepliesStay, OneCallMoves DEF AskedRightly
    <2>3. CASE Suspend(c) \/ Wake(c) \/ ResumeLoop(c)
      <3>1. \A d \in Calls : stage[d] = "create" => pc'[d] # "answered"
        BY <2>3 DEF Suspend, Wake, ResumeLoop, Join, Start, StartFlight, StageTells, IndInv,
                    TypeInv, TypeOK, KeysKnown
      <3>2. \A d \in Calls : UNCHANGED <<stage[d], asks[d], reply[d]>>
        BY <2>1, <3>1, OnlyEndedCallsAreReplied
      <3>3. QED
        BY <2>1, <3>2, RepliesStay, PlacesStay DEF AsAsked, AskedRightly
    <2>4. QED
      BY <1>10, <2>2, <2>3 DEF CreationGoesOn
  <1>11. ASSUME NEW c \in Calls, CancelCall(c)
        PROVE  AsAsked'
    BY <1>11, RepliesStay, PlacesStay DEF CancelCall, AsAsked, AskedRightly
  <1>12. ASSUME NEW c \in Calls, CallCancelled(c)
        PROVE  AsAsked'
    <2>1. reply'[c] = CancelledError /\ stage'[c] = "replied"
      BY <1>12 DEF CallCancelled, RepliesWith
    <2>2. asks[c] # None => MayBeReplied(asks[c], reply'[c])
      <3>1. asks[c] # None => MayBeIn(asks[c], stage[c]) /\ stage[c] \in {"create", "status", "tool"}
        BY <1>12 DEF CallCancelled, StageTells, AsAsked, AskedRightly
      <3>2. QED
        BY <2>1, <3>1, ResultKinds DEF MayBeReplied
    <2>3. QED
      BY <1>12, <2>1, <2>2, RepliesStay, OneCallMoves
      DEF CallCancelled, RepliesWith, AskedRightly
  <1>13. CASE AllReplied \/ UNCHANGED serverVars
    BY <1>13, RepliesStay, PlacesStay DEF AllReplied, serverVars, vars, AsAsked, AskedRightly
  <1>14. QED
    BY <1>1, <1>2, <1>3, <1>4, <1>5, <1>6, <1>7, <1>8, <1>9, <1>10, <1>11, <1>12, <1>13
    DEF ServerNext

\* Every step tells a call of a creation what its owner is told.
LEMMA NextTold == ServerInv /\ IndInv /\ [ServerNext]_serverVars => CreationsTold'
  <1> SUFFICES ASSUME ServerInv, IndInv, [ServerNext]_serverVars PROVE CreationsTold'
    OBVIOUS
  <1> USE DEF ServerInv, ServerShape, CreationsTold, IndInv, TypeInv, TypeOK, AnswersInv, AnswerMatchesPc
  <1>1. ASSUME NEW c \in Calls, NEW r \in Inbox, Forbid(c, r)
        PROVE  CreationsTold'
    BY <1>1 DEF Forbid, AnswerAtOnce, Comes, RepliesWith, vars
  <1>2. ASSUME NEW c \in Calls, NEW r \in Inbox, Preview(c, r)
        PROVE  CreationsTold'
    BY <1>2 DEF Preview, AnswerAtOnce, Comes, RepliesWith, vars
  <1>3. ASSUME NEW c \in Calls, NEW r \in Inbox, Create(c, r)
        PROVE  CreationsTold'
    <2>1. CASE AnswerAtOnce(c, r, Error("INVALID_INPUT", FALSE))
      BY <2>1 DEF AnswerAtOnce, Comes, RepliesWith, vars
    <2>2. CASE /\ ReadableCreation(r.args) /\ Refuse(c, Gate(r)) /\ UNCHANGED made
               /\ \E result : RepliesWith(c, result)
      <3>1. Refusal(Gate(r)) \in {"none", "FORBIDDEN", "NOT_READY", "raised"}
        BY <2>2, GateIsRequest, RefusalCodes
      <3>2. QED
        BY <2>2, <3>1 DEF Refuse, RepliesWith, Refused
    <2>3. CASE Enter(c, Gate(r)) /\ UNCHANGED <<made, reply>>
      BY <2>3 DEF Enter
    <2>4. QED
      BY <1>3, <2>1, <2>2, <2>3 DEF Create
  <1>4. ASSUME NEW c \in Calls, NEW r \in Inbox, ReadStatus(c, r)
        PROVE  CreationsTold'
    <2>1. answer[c].kind = "none" /\ UNCHANGED <<answer, outcome, made>>
      BY <1>4 DEF ReadStatus, AnswerAtOnce, Comes, vars
    <2>2. \A d \in Calls \ {c} : reply'[d] = reply[d]
      BY <1>4 DEF ReadStatus, AnswerAtOnce, RepliesWith
    <2>3. QED
      BY <2>1, <2>2
  <1>5. ASSUME NEW c \in Calls, NEW r \in Inbox, UseTool(c, r)
        PROVE  CreationsTold'
    BY <1>5 DEF UseTool, Comes, vars
  <1>6. ASSUME NEW c \in Calls, NEW r \in Inbox, UnknownTool(c, r)
        PROVE  CreationsTold'
    BY <1>6 DEF UnknownTool, AnswerAtOnce, Comes, RepliesWith, vars
  <1>7. ASSUME NEW c \in Calls, TeamReportsStatus(c)
        PROVE  CreationsTold'
    <2>1. answer[c].kind = "none" /\ UNCHANGED <<answer, outcome, made>>
      BY <1>7 DEF TeamReportsStatus, StageTells, vars
    <2>2. \A d \in Calls \ {c} : reply'[d] = reply[d]
      BY <1>7 DEF TeamReportsStatus, RepliesWith
    <2>3. QED
      BY <2>1, <2>2
  <1>8. ASSUME NEW c \in Calls, TeamToolEnds(c)
        PROVE  CreationsTold'
    <2>1. answer[c].kind = "none" /\ UNCHANGED <<answer, outcome, made>>
      BY <1>8 DEF TeamToolEnds, StageTells, vars
    <2>2. \A d \in Calls \ {c} : reply'[d] = reply[d]
      BY <1>8 DEF TeamToolEnds, RepliesWith
    <2>3. QED
      BY <2>1, <2>2
  <1>9. ASSUME NEW c \in Calls, CreateTaskEnds(c)
        PROVE  CreationsTold'
    <2>1. PICK how \in {"created", "failed", "abandoned"} :
            /\ Finish(c, how)
            /\ how = "failed" => made'[c] \in CreationFailures
            /\ how = "created" => made'[c] \in Creations
      BY <1>9, EndIsMade
    <2>2. \A d \in Calls \ {c} : made'[d] = made[d]
      BY <1>9, EndIsMade
    <2>3. /\ pc[c] = "creating" /\ stage[c] = "create" /\ outcome[c] = "none"
          /\ pc' = [pc EXCEPT ![c] = "answered"]
          /\ outcome' = [outcome EXCEPT ![c] = how]
          /\ answer' = [answer EXCEPT ![c] = IF how = "abandoned" THEN Cancelled ELSE Told(c, how)]
      BY <2>1 DEF Finish, OutcomeMatchesPc, StageTells
    <2>4. CreationsAnswered
      BY <1>9 DEF CreateTaskEnds
    <2>5. reply'[c] = CreationReply(c) /\ \A d \in Calls \ {c} : reply'[d] = reply[d]
      BY <2>3, <2>4, OnlyEndedCallsAreReplied DEF StageTells
    <2>6. ASSUME NEW d \in Calls \ {c}, answer[d].kind \in {"created", "failed"}
          PROVE  made'[answer[d].by] = made[answer[d].by]
      BY <2>3, <2>6, <2>2 DEF ToldOfItsOwnKey
    <2>7. QED
      BY <2>1, <2>3, <2>5, <2>6, <2>2 DEF CreationReply, Told, Cancelled
  <1>10. ASSUME NEW c \in Calls, CreationGoesOn(c)
        PROVE  CreationsTold'
    <2>1. UNCHANGED made /\ CreationsAnswered
      BY <1>10 DEF CreationGoesOn
    <2>2. CASE ResumeShared(c)
      <3>1. /\ stage[c] = "create" /\ UNCHANGED outcome
            /\ running[c] \in Calls /\ outcome[running[c]] \in {"created", "failed"}
            /\ pc' = [pc EXCEPT ![c] = "answered"]
            /\ answer' = [answer EXCEPT ![c] = Told(running[c], outcome[running[c]])]
        BY <2>2 DEF ResumeShared, KeysKnown, NoForgottenWaiter, StageTells
      <3>2. reply'[c] = CreationReply(c) /\ \A d \in Calls \ {c} : reply'[d] = reply[d]
        BY <2>1, <3>1, OnlyEndedCallsAreReplied DEF StageTells
      <3>3. QED
        BY <2>1, <3>1, <3>2 DEF CreationReply, Told
    <2>3. CASE Suspend(c) \/ Wake(c) \/ ResumeLoop(c)
      <3>1. /\ \A d \in Calls : stage[d] = "create" => pc'[d] # "answered"
            /\ UNCHANGED <<answer, outcome>>
        BY <2>3 DEF Suspend, Wake, ResumeLoop, Join, Start, StartFlight, StageTells, KeysKnown
      <3>2. \A d \in Calls : reply'[d] = reply[d]
        BY <2>1, <3>1, OnlyEndedCallsAreReplied
      <3>3. QED
        BY <2>1, <3>1, <3>2
    <2>4. QED
      BY <1>10, <2>2, <2>3 DEF CreationGoesOn
  <1>11. ASSUME NEW c \in Calls, CancelCall(c)
        PROVE  CreationsTold'
    BY <1>11 DEF CancelCall, Cancel
  <1>12. ASSUME NEW c \in Calls, CallCancelled(c)
        PROVE  CreationsTold'
    BY <1>12 DEF CallCancelled, RepliesWith, LeaveCancelled, Cancelled
  <1>13. CASE AllReplied \/ UNCHANGED serverVars
    BY <1>13 DEF AllReplied, serverVars, vars
  <1>14. QED
    BY <1>1, <1>2, <1>3, <1>4, <1>5, <1>6, <1>7, <1>8, <1>9, <1>10, <1>11, <1>12, <1>13
    DEF ServerNext

(***************************************************************************)
(* The invariants of every reachable state                                 *)
(***************************************************************************)
LEMMA InitServer == ServerInit => ServerInv
  BY NoneAssumption, ServerAssumption
  DEF ServerInit, Init, Unanswered, ServerInv, ServerShape, StageTells, AsAsked, AskedRightly,
      CreationsTold

\* Both inductive invariants hold in every state of the server.
THEOREM ServerInvariant == ServerSpec => [](ServerInv /\ IndInv)
  <1>1. ServerInv /\ IndInv /\ [ServerNext]_serverVars => ServerInv'
    BY NextShape, NextStage, NextAsked, NextTold DEF ServerInv
  <1>2. QED
    BY InitServer, <1>1, ServerCreates, InductiveInvariant, PTL DEF ServerSpec

\* All calls that a merged creation ends for are told of one task, or of one error.
THEOREM MergedAgree == ServerSpec => []MergedCallsAgree
  <1>1. ServerInv /\ IndInv => MergedCallsAgree
    BY NoneAssumption
    DEF ServerInv, CreationsTold, IndInv, AnswersInv, ToldOfItsOwnKey, MergedCallsAgree
  <1>2. QED
    BY ServerInvariant, <1>1, PTL

\* What the team's own tools are called is never a name of the contract's.
LEMMA NamesAreDistinct ==
  ASSUME ServerShape
  PROVE  /\ \A name : Named(name) => name \notin ContractTools
         /\ \A i \in DOMAIN team.tools : team.tools[i] = ToolNamed(team.tools[i].name)
  BY DEF ServerShape, Builds, UsableNames, ReservedNames, Named, ToolNamed

\* What is due to a preview, and to a call of create.
LEMMA PreviewReplies ==
  ASSUME ServerShape, NEW r, NEW result, MayBeReplied(r, result), Authorized(r),
         r.name \in {"descriptor", "validate", "render"}
  PROVE  result = PreviewOf(r)
  <1>1. ~Named(r.name) /\ r.name \in Listed /\ r.name # "create" /\ r.name # "status"
    BY NamesAreDistinct DEF ContractTools, Listed
  <1>2. QED
    BY <1>1 DEF MayBeReplied, MayBeIn

LEMMA CreateReplies ==
  ASSUME ServerShape, NEW r, NEW result, MayBeReplied(r, result), r.name = "create"
  PROVE  \/ result.kind = "cancelled"
         \/ result = Error("FORBIDDEN", FALSE)
         \/ result = Error("INVALID_INPUT", FALSE)
         \/ Refusal(Gate(r)) # "none" /\ result = GateError(r)
         \/ /\ Authorized(r) /\ Refusal(Gate(r)) = "none"
            /\ result \in CreationFailures \cup Creations
  <1>1. ~Named(r.name) /\ r.name \in Listed
    BY NamesAreDistinct DEF ContractTools, Listed
  <1>2. QED
    BY <1>1 DEF MayBeReplied

\* PreviewOf, tool by tool.
LEMMA PreviewCases ==
  ASSUME team \in Teams, NEW r
  PROVE  /\ r.name = "descriptor" => PreviewOf(r) = Structured(DescriptorFits(team.descriptor), Ok)
         /\ r.name = "validate" =>
              \/ PreviewOf(r) \in Failures
              \/ PreviewOf(r) = Result("ok", verdict(team.rules, to_intake_draft(r.args.draft)).ready, {})
         /\ r.name = "render" => PreviewOf(r) \in Failures \cup {Ok}
  <1>1. r.name = "descriptor" => PreviewOf(r) = Structured(DescriptorFits(team.descriptor), Ok)
    BY Zenon DEF PreviewOf
  <1>2. r.name = "validate" =>
          PreviewOf(r) = IF Raises(team.rules) THEN Raised(team.rules)
                         ELSE Structured(VerdictFits(verdict(team.rules, to_intake_draft(r.args.draft))),
                                Result("ok", verdict(team.rules, to_intake_draft(r.args.draft)).ready, {}))
    BY Zenon DEF PreviewOf
  <1>3. r.name = "render" =>
          PreviewOf(r) = IF team.ticket \in Failures THEN team.ticket
                         ELSE Structured(TicketFits(team.ticket), Ok)
    BY Zenon DEF PreviewOf
  <1>4. QED
    BY <1>1, <1>2, <1>3, ResultKinds, ServerAssumption DEF Structured

\* What the gates let through.
LEMMA PastTheGates ==
  ASSUME NEW r \in Inbox, Authorized(r), r.name = "create", Refusal(Gate(r)) = "none"
  PROVE  /\ r.caller.token => "create" \in r.caller.scopes
         /\ r.caller.token => r.caller.subject = r.args.userId
         /\ verdict(team.rules, to_intake_draft(r.args.draft)).ready
  <1>1. r.caller.token => "create" \in r.caller.scopes
    BY DEF Authorized, RequiredScope, ContractTools, ContractScope
  <1>2. r.caller.token => r.caller.subject = r.args.userId
    BY ServerAssumption, NoneAssumption DEF Refusal, Gate
  <1>3. GateVerdict(r) = "ready"
    BY DEF Refusal, Gate, GateVerdict
  <1>4. QED
    BY <1>1, <1>2, <1>3 DEF GateVerdict

\* A call of create that was told of a task got past the gates itself.
LEMMA CreatedPastTheGates ==
  ASSUME ServerInv, NEW c \in Calls, Asked(c, "create"), pc[c] = "creating" \/ Said(c)
  PROVE  Authorized(asks[c]) /\ Refusal(Gate(asks[c])) = "none"
  <1>1. CASE pc[c] = "creating"
    BY <1>1 DEF ServerInv, StageTells, AsAsked, AskedRightly, MayBeIn
  <1>2. CASE Said(c)
    <2>1. MayBeReplied(asks[c], reply[c])
      BY <1>2, ResultKinds DEF ServerInv, AsAsked, AskedRightly, Asked, Said
    <2>2. QED
      <3>1. \A code, retryable : reply[c] # Error(code, retryable)
        BY <1>2 DEF Said, Error
      <3>2. reply[c].kind # "cancelled" /\ reply[c] \notin CreationFailures
        BY <1>2, ResultKinds DEF Said
      <3>3. Refusal(Gate(asks[c])) # "none" => reply[c] # GateError(asks[c])
        BY <3>1, <3>2, GateErrors DEF ServerInv, ServerShape, CreationFailures
      <3>4. QED
        BY <2>1, <3>1, <3>2, <3>3, CreateReplies DEF ServerInv, Asked
  <1>3. QED
    BY <1>1, <1>2

\* Nothing of a team's that may change something runs for a caller without the
\* create scope, and no task is created for another requester or on a draft
\* that is not ready.
THEOREM ChangesAreGated == ServerSpec => []StateChangesAreGated
  <1>1. ASSUME ServerInv, NEW c \in Calls, pc[c] = "creating" \/ (Asked(c, "create") /\ Said(c))
        PROVE  /\ asks[c].caller.token => "create" \in asks[c].caller.scopes
               /\ asks[c].caller.token => asks[c].caller.subject = asks[c].args.userId
               /\ verdict(team.rules, to_intake_draft(asks[c].args.draft)).ready
    <2>1. Asked(c, "create") /\ asks[c] \in Inbox
      BY <1>1 DEF ServerInv, ServerShape, StageTells, AsAsked, AskedRightly, MayBeIn, Asked
    <2>2. QED
      BY <1>1, <2>1, CreatedPastTheGates, PastTheGates DEF Asked
  <1>2. ASSUME ServerInv, NEW c \in Calls, stage[c] = "tool", asks[c].caller.token,
               "create" \notin asks[c].caller.scopes,
               NEW i \in DOMAIN team.tools, team.tools[i].name = asks[c].name
        PROVE  team.tools[i].read_only
    <2>1. Authorized(asks[c]) /\ Named(asks[c].name)
      BY <1>2 DEF ServerInv, AsAsked, AskedRightly, MayBeIn
    <2>2. asks[c].name \notin ContractTools /\ team.tools[i] = ToolNamed(asks[c].name)
      BY <1>2, <2>1, NamesAreDistinct DEF ServerInv
    <2>3. QED
      BY <1>2, <2>1, <2>2 DEF Authorized, RequiredScope
  <1>3. ServerInv => StateChangesAreGated
    BY <1>1, <1>2 DEF StateChangesAreGated
  <1>4. QED
    BY ServerInvariant, <1>3, PTL

\* A verdict that a preview shows is the one creation goes by.
THEOREM PreviewIsTheVerdict == ServerSpec => []PreviewDecides
  <1>1. ASSUME ServerInv, NEW c \in Calls, Asked(c, "validate"), Said(c)
        PROVE  reply[c].ready = verdict(team.rules, to_intake_draft(asks[c].args.draft)).ready
    <2>1. MayBeReplied(asks[c], reply[c])
      BY <1>1, ResultKinds DEF ServerInv, AsAsked, AskedRightly, Asked, Said
    <2>2. reply[c] = PreviewOf(asks[c])
      <3>1. Authorized(asks[c])
        BY <1>1, <2>1, ResultKinds DEF MayBeReplied, MayBeIn, Said
      <3>2. QED
        BY <1>1, <2>1, <3>1, PreviewReplies DEF ServerInv, Asked
    <2>3. reply[c] \notin Failures
      BY <1>1, ResultKinds DEF Said, CreationFailures
    <2>4. QED
      BY <1>1, <2>2, <2>3, PreviewCases DEF Asked, Result, ServerInv, ServerShape
  <1>2. ASSUME ServerInv, NEW d \in Calls, Asked(d, "create"),
               reply[d] = Error("NOT_READY", FALSE), reply[d] \notin Failures
        PROVE  ~verdict(team.rules, to_intake_draft(asks[d].args.draft)).ready
    <2>0. reply[d].kind = "error"
      BY <1>2 DEF Error
    <2>1. MayBeReplied(asks[d], reply[d])
      BY <1>2, <2>0, ResultKinds
      DEF ServerInv, ServerShape, StageTells, AsAsked, AskedRightly, Asked
    <2>2. Refusal(Gate(asks[d])) = "NOT_READY"
      <3>1. reply[d].kind = "error" /\ reply[d].code = "NOT_READY" /\ reply[d] \notin CreationFailures
        BY <1>2 DEF Error, CreationFailures
      <3>2. /\ reply[d] \notin Creations
            /\ reply[d] # Error("FORBIDDEN", FALSE) /\ reply[d] # Error("INVALID_INPUT", FALSE)
        BY <3>1, ResultKinds DEF Error
      <3>3. Refusal(Gate(asks[d])) # "none" /\ reply[d] = GateError(asks[d])
        BY <1>2, <2>1, <3>1, <3>2, CreateReplies DEF ServerInv, Asked
      <3>4. QED
        BY <1>2, <3>1, <3>3, GateErrors DEF Error, ServerInv, ServerShape
    <2>3. GateVerdict(asks[d]) = "not_ready"
      BY <2>2 DEF Refusal, Gate, GateVerdict
    <2>4. QED
      BY <2>3 DEF GateVerdict
  <1>3. ASSUME ServerInv, NEW d \in Calls, Asked(d, "create"), pc[d] = "creating" \/ Said(d)
        PROVE  verdict(team.rules, to_intake_draft(asks[d].args.draft)).ready
    <2>1. asks[d] \in Inbox
      BY <1>3 DEF ServerInv, ServerShape, Asked
    <2>2. QED
      BY <1>3, <2>1, CreatedPastTheGates, PastTheGates DEF Asked
  <1>4. ServerInv => PreviewDecides
    BY <1>1, <1>2, <1>3 DEF PreviewDecides
  <1>5. QED
    BY ServerInvariant, <1>4, PTL

\* Whether task.py reads arguments the published schema allows is a matter of
\* their UTF-16 units alone: its other limits are the schema's.
LEMMA ReadableUnlessWide ==
  ASSUME NEW name \in {"create", "status"}, NEW args, InputSchemaAllows(name, args)
  PROVE  /\ name = "create" => (ReadableCreation(args) <=> ~TooWide(name, args))
         /\ name = "status" => (ReadableTaskIds(args.taskIds) <=> ~TooWide(name, args))
  <1> USE DEF InputSchemaAllows, TooWide, Wide, js_length, SchemaLength, Published
  <1>1. CASE name = "create"
    <2>1. /\ args.key \in Keys /\ Characters[args.key] \in 1..128
          /\ args.userId \in Users /\ Characters[args.userId] \in 1..128
          /\ args.email \in Texts \cup {"null"}
      BY <1>1
    <2>2. Characters[args.userId] \in Nat /\ Astral[args.userId] \in Nat
      BY <2>1, ServerAssumption
    <2>3. QED
      BY <1>1, <2>1, <2>2 DEF ReadableCreation, MaxKeyLength, MaxUserIdLength
  <1>2. CASE name = "status"
    <2>1. /\ args.taskIds \in Seq(IdNames) /\ Len(args.taskIds) \in 1..50
          /\ \A i \in DOMAIN args.taskIds : Characters[args.taskIds[i]] \in 1..256
      BY <1>2
    <2>2. \A i \in DOMAIN args.taskIds :
            Characters[args.taskIds[i]] \in Nat /\ Astral[args.taskIds[i]] \in Nat
      BY <2>1, ServerAssumption
    <2>3. args.taskIds # <<>>
      <3>1. Len(<<>>) = 0 /\ 0 \notin 1..50
        OBVIOUS
      <3>2. QED
        BY <2>1, <3>1, Zenon
    <2>4. QED
      BY <1>2, <2>1, <2>2, <2>3 DEF ReadableTaskIds, MaxTaskIds, MaxTaskIdLength
  <1>3. QED
    BY <1>1, <1>2

\* What a listed tool is asked with arguments its schema allows is refused as
\* no input exactly when it is too wide; what is not listed always is.
THEOREM PublishedIsServed == ServerSpec => []PublishedCallsAreServed
  <1>1. ASSUME ServerInv, NEW c \in Calls, asks[c] # None
        PROVE  \/ MayBeReplied(asks[c], reply[c])
               \/ /\ \E where \in {"create", "status", "tool"} : MayBeIn(asks[c], where)
                  /\ reply[c] = NoReply
    BY <1>1 DEF ServerInv, ServerShape, StageTells, AsAsked, AskedRightly
  <1>2. ASSUME ServerInv, NEW r, \E where \in {"create", "status", "tool"} : MayBeIn(r, where)
        PROVE  r.name \in Listed \ {"descriptor", "validate", "render"}
    BY <1>2, NamesAreDistinct DEF MayBeIn, ServerInv, Listed, Named, ContractTools
  <1>3. ASSUME ServerInv, NEW c \in Calls, asks[c] # None, Authorized(asks[c]),
               asks[c].name \in Listed, InputSchemaAllows(asks[c].name, asks[c].args),
               ~TooWide(asks[c].name, asks[c].args),
               reply[c] = Error("INVALID_INPUT", FALSE), reply[c] \notin Failures
        PROVE  FALSE
    <2>1. MayBeReplied(asks[c], reply[c])
      BY <1>1, <1>3 DEF Error, NoReply, Result
    <2>2. asks[c].name = "create" => ReadableCreation(asks[c].args)
      BY <1>3, ReadableUnlessWide
    <2>3. asks[c].name = "status" => ReadableTaskIds(asks[c].args.taskIds)
      BY <1>3, ReadableUnlessWide
    <2>4. reply[c].kind = "error"
      BY <1>3 DEF Error
    <2>5. ASSUME asks[c].name \in {"descriptor", "validate", "render"}
          PROVE  reply[c] # PreviewOf(asks[c])
      <3>1. Result("ok", verdict(team.rules, to_intake_draft(asks[c].args.draft)).ready, {}).kind = "ok"
        BY DEF Result
      <3>2. Structured(DescriptorFits(team.descriptor), Ok) \in Failures \cup {Ok}
        BY ResultKinds DEF Structured
      <3>3. reply[c] # Ok
        BY <2>4, ResultKinds
      <3>4. QED
        BY <1>3, <2>4, <2>5, <3>1, <3>2, <3>3, PreviewCases DEF ServerInv, ServerShape
    <2>6. reply[c] \notin CreationFailures \cup Creations \cup {Ok}
      BY <1>3, <2>4, ResultKinds DEF CreationFailures, Error
    <2>7. Refusal(Gate(asks[c])) # "none" => reply[c] # GateError(asks[c])
      BY <1>3, GateErrors DEF Error, ServerInv, ServerShape
    <2>8. reply[c] # Error("FORBIDDEN", FALSE)
      BY <1>3 DEF Error
    <2>9. QED
      BY <1>3, <2>1, <2>2, <2>3, <2>4, <2>5, <2>6, <2>7, <2>8 DEF MayBeReplied
  <1>4. ASSUME ServerInv, NEW c \in Calls, asks[c] # None, Authorized(asks[c]),
               asks[c].name \in Listed, InputSchemaAllows(asks[c].name, asks[c].args),
               TooWide(asks[c].name, asks[c].args)
        PROVE  reply[c] = Error("INVALID_INPUT", FALSE)
    <2>1. asks[c].name \in {"create", "status"}
      BY <1>4 DEF TooWide
    <2>2. /\ asks[c].name = "create" => ~ReadableCreation(asks[c].args)
          /\ asks[c].name = "status" => ~ReadableTaskIds(asks[c].args.taskIds)
      BY <1>4, <2>1, ReadableUnlessWide
    <2>3. ~Named(asks[c].name)
      BY <1>4, <2>1, NamesAreDistinct DEF ServerInv, ContractTools
    <2>4. \A where \in {"create", "status", "tool"} : ~MayBeIn(asks[c], where)
      BY <2>1, <2>2, <2>3 DEF MayBeIn
    <2>5. MayBeReplied(asks[c], reply[c])
      BY <1>1, <1>4, <2>4
    <2>6. QED
      BY <1>4, <2>1, <2>2, <2>3, <2>4, <2>5 DEF MayBeReplied
  <1>5. ASSUME ServerInv, NEW c \in Calls, Asked(c, "descriptor"), Authorized(asks[c])
        PROVE  Said(c)
    <2>1. MayBeReplied(asks[c], reply[c])
      BY <1>1, <1>2, <1>5 DEF Asked
    <2>2. reply[c] = PreviewOf(asks[c])
      BY <1>2, <1>5, <2>1, NamesAreDistinct
      DEF MayBeReplied, ServerInv, Asked, Listed, ContractTools
    <2>3. QED
      BY <1>5, <2>2, ResultKinds
      DEF PreviewOf, Structured, Asked, Said, ServerInv, ServerShape, Builds
  <1>6. ASSUME ServerInv, NEW c \in Calls, asks[c] # None, Authorized(asks[c]),
               asks[c].name \notin Listed
        PROVE  reply[c] = Error("INVALID_INPUT", FALSE)
    <2>1. MayBeReplied(asks[c], reply[c])
      BY <1>1, <1>2, <1>6
    <2>2. QED
      BY <1>2, <1>6, <2>1 DEF MayBeReplied, Listed, Named, ContractTools
  <1>7. ServerInv => PublishedCallsAreServed
    BY <1>3, <1>4, <1>5, <1>6 DEF PublishedCallsAreServed, Asked
  <1>8. QED
    BY ServerInvariant, <1>7, PTL

(***************************************************************************)
(* What a call is replied, and which tasks a status answer names           *)
(***************************************************************************)
ResultsKnown ==
  /\ ids \in [Calls -> Seq(IdNames) \cup IdEdits]
  /\ made \in [Calls -> Replies]
  /\ reply \in [Calls -> Replies]
  /\ \A c \in Calls : stage[c] = "replied" => reply[c].kind # "none"

\* A reply names tasks of the list its call shares with the team; that list is
\* the one asked for, which the caller's token covers, unless the team edits it.
IdsTell(c) ==
  /\ reply[c].ids \subseteq ToSet(ids[c])
  /\ stage[c] = "status" =>
       asks[c] # None /\ Covered(asks[c].caller, asks[c].args.taskIds)
  /\ \/ ids[c] = <<>>
     \/ /\ asks[c] # None
        /\ Covered(asks[c].caller, asks[c].args.taskIds)
        /\ IdEdits = {} => ids[c] = asks[c].args.taskIds

StatusInv == ResultsKnown /\ \A c \in Calls : IdsTell(c)

\* A result that names no task and says how the call ended.
Plain(result) == result \in Replies /\ result.kind # "none" /\ result.ids = {}

LEMMA PlainResults ==
  /\ \A code \in Codes, retryable \in BOOLEAN : Plain(Error(code, retryable))
  /\ \A ready \in BOOLEAN : Plain(Result("ok", ready, {}))
  /\ \A result \in CreationFailures \cup Creations \cup {Ok, CancelledError} : Plain(result)
  /\ NoReply \in Replies /\ NoReply.ids = {}
  <1> USE DEF Plain, Replies, Error, Result
  <1>1. \A code \in Codes, retryable \in BOOLEAN : Plain(Error(code, retryable))
    OBVIOUS
  <1>2. \A failure \in CreationFailures :
          \E code \in Codes, retryable \in BOOLEAN : failure = Error(code, retryable)
    BY ServerAssumption DEF CreationFailures, Failures, Internal, Codes
  <1>3. \A failure \in CreationFailures : Plain(failure)
    BY <1>1, <1>2
  <1>4. Plain(Ok) /\ Plain(CancelledError) /\ NoReply \in Replies /\ NoReply.ids = {}
    BY DEF Ok, CancelledError, NoReply
  <1>5. \A creation \in Creations : Plain(creation)
    BY DEF Creations, Created, Ok
  <1>6. QED
    BY <1>1, <1>3, <1>4, <1>5

LEMMA PreviewIsPlain == ASSUME team \in Teams, NEW r PROVE Plain(PreviewOf(r))
  <1>1. Plain(Internal) /\ Plain(Ok) /\ \A failure \in Failures : Plain(failure)
    BY PlainResults DEF CreationFailures, Failures
  <1>2. Raises(team.rules) => Raised(team.rules) \in Failures
    BY ServerAssumption
  <1>3. verdict(team.rules, to_intake_draft(r.args.draft)).ready \in BOOLEAN
    BY DEF verdict
  <1>4. Plain(Result("ok", verdict(team.rules, to_intake_draft(r.args.draft)).ready, {}))
    BY <1>3, PlainResults
  <1>5. QED
    BY <1>1, <1>2, <1>4, Zenon DEF PreviewOf, Structured

\* A status answer names tasks of the list it was checked against.
LEMMA StatusReplies ==
  ASSUME NEW listed, NEW asked
  PROVE  /\ StatusReply(listed, asked) \in Replies
         /\ StatusReply(listed, asked).kind # "none"
         /\ StatusReply(listed, asked).ids \subseteq ToSet(asked)
  <1> DEFINE places == checked_statuses(listed, asked)
             named  == {listed[i].taskId : i \in places}
  <1>1. named \subseteq IdNames /\ named \subseteq ToSet(asked)
    BY DEF checked_statuses, TaskStatusFits
  <1> HIDE DEF named
  <1>2. LET result == Result("ok", FALSE, named) IN
          result \in Replies /\ result.kind = "ok" /\ result.ids = named
    BY <1>1 DEF Result, Replies
  <1>3. Plain(Internal)
    BY PlainResults DEF CreationFailures, Failures
  <1>4. StatusReply(listed, asked) \in {Result("ok", FALSE, named), Internal}
    BY DEF StatusReply, Structured, named
  <1>5. QED
    BY <1>1, <1>2, <1>3, <1>4 DEF Plain

\* A step that gives one call a plain reply, or none yet.
LEMMA StatusStays ==
  ASSUME StatusInv, UNCHANGED <<team, ids, made>>, NEW c \in Calls,
         \/ /\ UNCHANGED reply
            /\ \E where \in {"create", "tool"} : stage' = [stage EXCEPT ![c] = where]
         \/ \E result : Plain(result) /\ RepliesWith(c, result),
         ServerShape,
         \/ UNCHANGED asks
         \/ asks[c] = None /\ \E r : asks' = [asks EXCEPT ![c] = r]
  PROVE  StatusInv'
  <1> USE DEF StatusInv, ResultsKnown, ServerShape, RepliesWith, Plain
  <1>1. ResultsKnown'
    OBVIOUS
  <1>2. ASSUME NEW d \in Calls PROVE IdsTell(d)'
    <2>1. CASE d = c
      BY <2>1 DEF IdsTell, Covered
    <2>2. CASE d # c
      BY <2>2 DEF IdsTell, Covered
    <2>3. QED
      BY <2>1, <2>2
  <1>3. QED
    BY <1>1, <1>2

\* The calls that a creation has just ended for are replied plainly.
LEMMA CreationRepliesPlainly ==
  ASSUME ServerInv', IndInv', NEW c \in Calls, pc'[c] = "answered"
  PROVE  Plain(CreationReply(c))
  <1>1. CASE answer'[c].kind \in {"created", "failed"}
    <2>1. answer'[c].by \in Calls /\ outcome'[answer'[c].by] = answer'[c].kind
      BY <1>1 DEF IndInv, AnswersInv, ToldOfItsOwnKey
    <2>2. made'[answer'[c].by] \in CreationFailures \cup Creations
      BY <1>1, <2>1 DEF ServerInv, CreationsTold
    <2>3. QED
      BY <1>1, <2>2, PlainResults DEF CreationReply
  <1>2. CASE answer'[c].kind \notin {"created", "failed"}
    BY <1>2, PlainResults DEF CreationReply
  <1>3. QED
    BY <1>1, <1>2

LEMMA NextStatusInv ==
  /\ ServerInv /\ IndInv /\ ServerInv' /\ IndInv'
  /\ StatusInv /\ [ServerNext]_serverVars
  => StatusInv'
  <1> SUFFICES ASSUME ServerInv, IndInv, ServerInv', IndInv', StatusInv,
                      [ServerNext]_serverVars
               PROVE  StatusInv'
    OBVIOUS
  <1>0. /\ ServerShape /\ CreationsTold
        /\ \A c \in Calls : stage[c] = "new" => asks[c] = None
    BY DEF ServerInv, StageTells
  <1>1. ASSUME NEW c \in Calls, NEW r \in Inbox, NEW result,
               AnswerAtOnce(c, r, result), Plain(result)
        PROVE  StatusInv'
    BY <1>0, <1>1, StatusStays DEF AnswerAtOnce, Comes
  <1>2. ASSUME NEW c \in Calls, NEW r \in Inbox,
               Forbid(c, r) \/ UnknownTool(c, r) \/ Preview(c, r)
        PROVE  StatusInv'
    <2>1. /\ Plain(Error("FORBIDDEN", FALSE)) /\ Plain(Error("INVALID_INPUT", FALSE))
          /\ Plain(PreviewOf(r))
      BY <1>0, PlainResults, PreviewIsPlain DEF Codes, ServerShape
    <2>2. QED
      BY <1>1, <1>2, <2>1 DEF Forbid, UnknownTool, Preview
  <1>3. ASSUME NEW c \in Calls, NEW r \in Inbox, Create(c, r) PROVE StatusInv'
    <2>1. CASE AnswerAtOnce(c, r, Error("INVALID_INPUT", FALSE))
      BY <1>1, <2>1, PlainResults DEF Codes
    <2>2. CASE /\ ReadableCreation(r.args) /\ Comes(c, r) /\ Refuse(c, Gate(r))
               /\ RepliesWith(c, GateError(r)) /\ UNCHANGED <<team, ids, made>>
      <3>1. Refusal(Gate(r)) # "none"
        BY <2>2 DEF Refuse
      <3>2. Plain(GateError(r))
        BY <1>0, <3>1, GateErrors, PlainResults DEF Codes, CreationFailures, ServerShape
      <3>3. QED
        BY <1>0, <2>2, <3>2, StatusStays DEF Comes
    <2>3. CASE Comes(c, r) /\ stage' = [stage EXCEPT ![c] = "create"]
               /\ UNCHANGED <<team, ids, made, reply>>
      BY <1>0, <2>3, StatusStays DEF Comes
    <2>4. QED
      BY <1>3, <2>1, <2>2, <2>3 DEF Create
  <1>4. ASSUME NEW c \in Calls, NEW r \in Inbox, ReadStatus(c, r) PROVE StatusInv'
    <2>1. CASE AnswerAtOnce(c, r, Error("INVALID_INPUT", FALSE))
               \/ AnswerAtOnce(c, r, Error("FORBIDDEN", FALSE))
      BY <1>1, <2>1, PlainResults DEF Codes
    <2>2. CASE /\ ReadableTaskIds(r.args.taskIds) /\ Covered(r.caller, r.args.taskIds)
               /\ Comes(c, r)
               /\ ids' = [ids EXCEPT ![c] = r.args.taskIds]
               /\ stage' = [stage EXCEPT ![c] = "status"]
               /\ UNCHANGED <<vars, team, made, reply>>
      <3> USE DEF StatusInv, ResultsKnown, ServerShape, Comes
      <3>1. ResultsKnown'
        BY <1>0, <2>2 DEF ReadableTaskIds
      <3>2. reply[c].ids = {} /\ r # None
        BY <2>2, PlainResults, ServerAssumption DEF ServerInv, AsAsked, AskedRightly
      <3>3. IdsTell(c)'
        BY <1>0, <2>2, <3>2 DEF IdsTell, Covered
      <3>4. \A d \in Calls \ {c} : IdsTell(d)'
        BY <1>0, <2>2 DEF IdsTell, Covered
      <3>5. QED
        BY <3>1, <3>3, <3>4
    <2>3. QED
      BY <1>4, <2>1, <2>2 DEF ReadStatus
  <1>5. ASSUME NEW c \in Calls, NEW r \in Inbox, UseTool(c, r) PROVE StatusInv'
    BY <1>0, <1>5, StatusStays DEF UseTool, Comes
  <1>6. ASSUME NEW c \in Calls, TeamReportsStatus(c) PROVE StatusInv'
    <2>1. ASSUME NEW failure \in Failures, RepliesWith(c, failure),
                 UNCHANGED <<ids, team, asks, made>>
          PROVE  StatusInv'
      BY <1>0, <2>1, PlainResults, StatusStays DEF CreationFailures
    <2>2. ASSUME NEW edited \in IdEdits \cup {ids[c]}, NEW listed \in StatusAnswers,
                 ids' = [ids EXCEPT ![c] = edited],
                 RepliesWith(c, StatusReply(listed, edited)),
                 UNCHANGED <<team, asks, made>>
          PROVE  StatusInv'
      <3> DEFINE result == StatusReply(listed, edited)
      <3> USE DEF StatusInv, ResultsKnown, ServerShape, RepliesWith
      <3>1. result \in Replies /\ result.kind # "none" /\ result.ids \subseteq ToSet(edited)
        BY StatusReplies
      <3> HIDE DEF result
      <3>2. reply' = [reply EXCEPT ![c] = result] /\ stage' = [stage EXCEPT ![c] = "replied"]
        BY <2>2 DEF result
      <3>3. ResultsKnown'
        BY <1>0, <2>2, <3>1, <3>2
      <3>4. IdsTell(c)'
        <4>1. asks[c] # None /\ Covered(asks[c].caller, asks[c].args.taskIds)
          BY <1>6 DEF TeamReportsStatus, IdsTell
        <4>2. IdEdits = {} => edited = ids[c]
          OBVIOUS
        <4>3. QED
          BY <1>0, <2>2, <3>1, <3>2, <4>1, <4>2 DEF IdsTell, Covered
      <3>5. \A d \in Calls \ {c} : IdsTell(d)'
        BY <1>0, <2>2, <3>2 DEF IdsTell, Covered
      <3>6. QED
        BY <3>3, <3>4, <3>5
    <2>3. QED
      BY <1>6, <2>1, <2>2 DEF TeamReportsStatus
  <1>7. ASSUME NEW c \in Calls, TeamToolEnds(c) PROVE StatusInv'
    BY <1>0, <1>7, PlainResults, StatusStays DEF TeamToolEnds, CreationFailures
  <1>8. ASSUME CreationsAnswered, made' \in [Calls -> Replies] PROVE StatusInv'
    <2> USE DEF StatusInv, ResultsKnown
    <2>1. UNCHANGED <<team, ids, asks>>
      BY <1>8 DEF CreationsAnswered
    <2>2. \A c \in Calls :
            \/ stage'[c] = "replied" /\ Plain(reply'[c])
            \/ stage'[c] = stage[c] /\ reply'[c] = reply[c]
      BY <1>0, <1>8, OnlyEndedCallsAreReplied, CreationRepliesPlainly
    <2>3. reply' = [c \in Calls |-> reply'[c]]
      BY <1>0, <1>8, OnlyEndedCallsAreReplied
    <2>4. reply' \in [Calls -> Replies]
      BY <2>2, <2>3 DEF Plain
    <2>5. ResultsKnown'
      BY <1>8, <2>1, <2>2, <2>4 DEF Plain
    <2>6. \A c \in Calls : IdsTell(c)'
      BY <2>1, <2>2 DEF IdsTell, Covered, Plain
    <2>7. QED
      BY <2>5, <2>6
  <1>9. ASSUME NEW c \in Calls, CreateTaskEnds(c) PROVE StatusInv'
    <2>1. \A result \in CreationFailures \cup Creations : result \in Replies
      BY PlainResults DEF Plain
    <2>2. made' \in [Calls -> Replies]
      BY <1>9, <2>1 DEF CreateTaskEnds, CreationFailures, Creations, StatusInv, ResultsKnown
    <2>3. QED
      BY <1>8, <1>9, <2>2 DEF CreateTaskEnds
  <1>10. ASSUME NEW c \in Calls, CreationGoesOn(c) PROVE StatusInv'
    BY <1>8, <1>10 DEF CreationGoesOn, StatusInv, ResultsKnown
  <1>11. ASSUME NEW c \in Calls, CallCancelled(c) PROVE StatusInv'
    BY <1>0, <1>11, PlainResults, StatusStays DEF CallCancelled
  <1>12. CASE (\E c \in Calls : CancelCall(c)) \/ AllReplied \/ UNCHANGED serverVars
    BY <1>12
    DEF CancelCall, AllReplied, serverVars, StatusInv, ResultsKnown, IdsTell, Covered
  <1>13. QED
    BY <1>2, <1>3, <1>4, <1>5, <1>6, <1>7, <1>9, <1>10, <1>11, <1>12 DEF ServerNext

LEMMA StatusInvHolds == ServerSpec => []StatusInv
  <1>1. ServerInit => StatusInv
    BY NoneAssumption, PlainResults
    DEF ServerInit, StatusInv, ResultsKnown, IdsTell
  <1>2. QED
    BY <1>1, ServerInvariant, NextStatusInv, PTL DEF ServerSpec

\* Every variable of the server stays in its set, a call that is in create_task
\* is at one of its awaits, and only a call that has ended has a reply.
THEOREM ServerTypeCorrect == ServerSpec => []ServerTypeOK
  <1>1. ServerInv /\ IndInv /\ StatusInv => ServerTypeOK
    BY PlainResults
    DEF ServerTypeOK, ServerInv, ServerShape, StageTells, AsAsked, AskedRightly, NoReply,
        Result, IndInv, TypeInv, StatusInv, ResultsKnown
  <1>2. QED
    BY <1>1, ServerInvariant, StatusInvHolds, PTL

\* A team that leaves the list of ids alone has no status passed on that its
\* caller did not ask about, or whose task the caller's token does not cover.
THEOREM StatusOfTheAsked ==
  ASSUME IdEdits = {}
  PROVE  ServerSpec => []StatusIsOfTheAsked
  <1>1. StatusInv => StatusIsOfTheAsked
    <2> SUFFICES ASSUME StatusInv, NEW c \in Calls
                 PROVE  /\ reply[c].ids \subseteq ToSet(asks[c].args.taskIds)
                        /\ asks[c].caller.token =>
                             reply[c].ids \subseteq ToSet(asks[c].caller.binding)
      BY DEF StatusIsOfTheAsked
    <2>1. IdsTell(c)
      BY DEF StatusInv
    <2>2. ToSet(<<>>) = {}
      BY DEF ToSet
    <2>3. QED
      BY <2>1, <2>2 DEF IdsTell, Covered
  <1>2. QED
    BY <1>1, StatusInvHolds, PTL
=============================================================================
