---------------------------- MODULE PyTeamServer ----------------------------
(***************************************************************************)
(* The MCP server one TeamDefinition becomes (build_team_server of         *)
(* server.py): concurrent calls, each authorized for its own caller, read, *)
(* dispatched and answered.  Creation is PyTaskCreation's, whose calls are *)
(* the calls of this module that get that far; the other tools suspend at  *)
(* most once, in the team's get_task_status or in a team tool, and code of *)
(* theirs that ends without suspending ends, here, with no step between.   *)
(***************************************************************************)
EXTENDS PyTaskCreation, Naturals, Sequences

CONSTANTS MaxFields, MaxIssues, MaxNotes, CoreKeys, FieldKeys, IdNames, Characters, Astral

INSTANCE ContractRules WITH KeyNames <- Keys, UserNames <- Users

CONSTANTS
  Nobody,        \* the subject of a token issued without a requester
  Inbox,         \* what may be called: [name, args, caller]
  Teams,         \* definitions: [descriptor, rules, ticket, hasStatus, tools]; the
                 \* ticket is what render returns, or the failure it raises
  StatusAnswers, \* lists of statuses a get_task_status may return
  References,    \* task references a create_task may return
  TaskErrors,    \* TaskErrors a team may raise: [code, retryable]
  IdEdits        \* what a team may leave in the list of ids it was handed

Codes == {"INVALID_INPUT", "UNAUTHORIZED", "FORBIDDEN", "NOT_READY",
          "REQUESTER_UNRESOLVED", "DESTINATION_REJECTED", "DESTINATION_UNAVAILABLE",
          "INTERNAL"}

VARIABLES team,  \* the definition served
          stage, \* stage[c]: new, creating, reading a status, in a team tool, or replied
          asks,  \* asks[c]: the request c came with
          ids,   \* ids[c]: the list _dispatch shares with get_task_status
          made,  \* made[c]: the task or the error c's create_task ended with
          reply  \* reply[c]: the result c was given

serverVars == <<vars, team, stage, asks, ids, made, reply>>

(***************************************************************************)
(* Results                                                                 *)
(***************************************************************************)
Result(kind, ready, taskIds) ==
  [kind |-> kind, code |-> "none", retryable |-> FALSE, ready |-> ready, ids |-> taskIds,
   task |-> None]
NoReply == Result("none", FALSE, {})
Ok == Result("ok", FALSE, {})
Created(task) == [Ok EXCEPT !.task = task]
CancelledError == Result("cancelled", FALSE, {})
Error(code, retryable) ==
  [kind |-> "error", code |-> code, retryable |-> retryable, ready |-> FALSE, ids |-> {},
   task |-> None]

\* _failure, of a TaskError and of any other exception.
Internal == Error("INTERNAL", TRUE)
Failures == {Error(e.code, e.retryable) : e \in TaskErrors} \cup {Internal}

ASSUME ServerAssumption ==
  /\ Nobody \in Users
  /\ None \notin Inbox
  /\ \A r \in Inbox : r.caller.token \in BOOLEAN /\ r.caller.subject \in Users
  /\ TaskErrors \subseteq [code : Codes, retryable : BOOLEAN]
  /\ \A t \in Teams : Raises(t.rules) => Raised(t.rules) \in Failures
  /\ Characters \in [Keys \cup Users \cup IdNames -> Nat]
  /\ Astral \in [Keys \cup Users \cup IdNames -> Nat]

\* What does not match the tool's output schema is the team's bug.
Structured(fits, result) == IF fits THEN result ELSE Internal

(***************************************************************************)
(* Startup, listing and authorization                                      *)
(***************************************************************************)
\* build_team_server does not raise.
Builds(t) == DescriptorFits(t.descriptor) /\ UsableNames(t.tools)

ServerInit ==
  /\ Init
  /\ team \in {t \in Teams : Builds(t)}
  /\ stage = [c \in Calls |-> "new"]
  /\ asks = [c \in Calls |-> None]
  /\ ids = [c \in Calls |-> <<>>]
  /\ made = [c \in Calls |-> NoReply]
  /\ reply = [c \in Calls |-> NoReply]

Named(name) == \E i \in DOMAIN team.tools : team.tools[i].name = name

\* The first of that name, as next() finds it; UsableNames leaves no second.
ToolNamed(name) ==
  team.tools[CHOOSE i \in DOMAIN team.tools : team.tools[i].name = name]

Listed ==
  (ContractTools \ (IF team.hasStatus THEN {} ELSE {"status"}))
    \cup {team.tools[i].name : i \in DOMAIN team.tools}

RequiredScope(name) ==
  IF name \in ContractTools THEN ContractScope(name)
  ELSE IF Named(name) /\ ~ToolNamed(name).read_only THEN "create" ELSE "read"

Authorized(r) == r.caller.token => RequiredScope(r.name) \in r.caller.scopes

\* _authorize_status_read; see TokenRules for lists that have no digest.
Covered(caller, taskIds) ==
  caller.token =>
    caller.bound /\ caller.binding = taskIds /\ caller.subject # Nobody

(***************************************************************************)
(* call_tool, up to its first await                                        *)
(***************************************************************************)
Comes(c, r) ==
  /\ Quiet
  /\ stage[c] = "new" /\ pc[c] = "new"
  /\ asks' = [asks EXCEPT ![c] = r]

RepliesWith(c, result) ==
  /\ reply' = [reply EXCEPT ![c] = result]
  /\ stage' = [stage EXCEPT ![c] = "replied"]

AnswerAtOnce(c, r, result) ==
  /\ Comes(c, r)
  /\ RepliesWith(c, result)
  /\ UNCHANGED <<vars, team, ids, made>>

Forbid(c, r) ==
  /\ ~Authorized(r)
  /\ AnswerAtOnce(c, r, Error("FORBIDDEN", FALSE))

\* The team's rules are run on the draft as it is read.
PreviewOf(r) ==
  LET v == verdict(team.rules, to_intake_draft(r.args.draft)) IN
    CASE r.name = "descriptor" -> Structured(DescriptorFits(team.descriptor), Ok)
      [] r.name = "validate" -> IF Raises(team.rules) THEN Raised(team.rules)
                                ELSE Structured(VerdictFits(v), Result("ok", v.ready, {}))
      [] OTHER -> IF team.ticket \in Failures THEN team.ticket
                  ELSE Structured(TicketFits(team.ticket), Ok)

Preview(c, r) ==
  /\ Authorized(r)
  /\ r.name \in {"descriptor", "validate", "render"}
  /\ AnswerAtOnce(c, r, PreviewOf(r))

\* Mutation: the host's confirmation is taken for the verdict.
GateVerdictTrusted(r) == IF Raises(team.rules) THEN "raises" ELSE "ready"

\* The gates of _create_task, as PyTaskCreation takes a request.
GateVerdict(r) ==
  IF Raises(team.rules) THEN "raises"
  ELSE IF verdict(team.rules, to_intake_draft(r.args.draft)).ready THEN "ready"
  ELSE "not_ready"

\* Mutation: the caller is not handed on to the gate.
GateWithoutCaller(r) ==
  [key |-> r.args.key, caller |-> None, requester |-> r.args.userId,
   verdict |-> GateVerdict(r)]

Gate(r) ==
  [key |-> r.args.key,
   caller |-> IF r.caller.token THEN r.caller.subject ELSE None,
   requester |-> r.args.userId,
   verdict |-> GateVerdict(r)]

\* What a gate of _create_task raises, or the team's check behind it.
GateError(r) ==
  IF Refusal(Gate(r)) = "raised" THEN Raised(team.rules) ELSE Error(Refusal(Gate(r)), FALSE)

Create(c, r) ==
  /\ Authorized(r)
  /\ r.name = "create"
  /\ \/ /\ ~ReadableCreation(r.args)
        /\ AnswerAtOnce(c, r, Error("INVALID_INPUT", FALSE))
     \/ /\ ReadableCreation(r.args)
        /\ Comes(c, r)
        /\ Refuse(c, Gate(r))
        /\ RepliesWith(c, GateError(r))
        /\ UNCHANGED <<team, ids, made>>
     \/ /\ ReadableCreation(r.args)
        /\ Comes(c, r)
        /\ Enter(c, Gate(r))
        /\ stage' = [stage EXCEPT ![c] = "create"]
        /\ UNCHANGED <<team, ids, made, reply>>

ReadStatus(c, r) ==
  /\ Authorized(r)
  /\ r.name = "status" /\ team.hasStatus
  /\ \/ /\ ~ReadableTaskIds(r.args.taskIds)
        /\ AnswerAtOnce(c, r, Error("INVALID_INPUT", FALSE))
     \/ /\ ReadableTaskIds(r.args.taskIds) /\ ~Covered(r.caller, r.args.taskIds)
        /\ AnswerAtOnce(c, r, Error("FORBIDDEN", FALSE))
     \/ /\ ReadableTaskIds(r.args.taskIds) /\ Covered(r.caller, r.args.taskIds)
        /\ Comes(c, r)
        /\ ids' = [ids EXCEPT ![c] = r.args.taskIds]
        /\ stage' = [stage EXCEPT ![c] = "status"]
        /\ UNCHANGED <<vars, team, made, reply>>

UseTool(c, r) ==
  /\ Authorized(r)
  /\ Named(r.name)
  /\ Comes(c, r)
  /\ stage' = [stage EXCEPT ![c] = "tool"]
  /\ UNCHANGED <<vars, team, ids, made, reply>>

UnknownTool(c, r) ==
  /\ Authorized(r)
  /\ r.name \notin Listed
  /\ AnswerAtOnce(c, r, Error("INVALID_INPUT", FALSE))

(***************************************************************************)
(* The team's code ends                                                    *)
(***************************************************************************)
\* The list of ids is the team's to use, and is read again after the await.
StatusReply(listed, asked) ==
  LET places == checked_statuses(listed, asked) IN
    Structured(StatusesFit(listed, places),
               Result("ok", FALSE, {listed[i].taskId : i \in places}))

TeamReportsStatus(c) ==
  /\ Quiet
  /\ stage[c] = "status"
  /\ \/ \E edited \in IdEdits \cup {ids[c]} :
          /\ ids' = [ids EXCEPT ![c] = edited]
          /\ \E listed \in StatusAnswers : RepliesWith(c, StatusReply(listed, edited))
     \/ \E failure \in Failures : RepliesWith(c, failure) /\ UNCHANGED ids
  /\ UNCHANGED <<vars, team, asks, made>>

TeamToolEnds(c) ==
  /\ Quiet
  /\ stage[c] = "tool"
  /\ \E result \in {Ok} \cup Failures : RepliesWith(c, result)
  /\ UNCHANGED <<vars, team, asks, ids, made>>

\* Mutation: a waiter is raised a failure of its own.
CreationReplyOfItsOwn(c) ==
  CASE answer'[c].kind = "created" -> made'[answer'[c].by]
    [] answer'[c].kind = "failed"  -> IF answer'[c].by = c THEN made'[c] ELSE Internal
    [] OTHER -> CancelledError

\* A call of create that has just returned or raised is answered.
CreationReply(c) ==
  IF answer'[c].kind \in {"created", "failed"} THEN made'[answer'[c].by]
  ELSE CancelledError

CreationsAnswered ==
  LET ended == {c \in Calls : stage[c] = "create" /\ pc'[c] = "answered"} IN
    /\ stage' = [c \in Calls |-> IF c \in ended THEN "replied" ELSE stage[c]]
    /\ reply' = [c \in Calls |-> IF c \in ended THEN CreationReply(c) ELSE reply[c]]
    /\ UNCHANGED <<team, asks, ids>>

\* A reference that is malformed is reported as a TaskError of the server's.
CreateTaskEnds(c) ==
  /\ \/ \E task \in References :
          IF checked_task_reference(task)
          THEN Finish(c, "created") /\ made' = [made EXCEPT ![c] = Created(task)]
          ELSE /\ Finish(c, "failed")
               /\ made' = [made EXCEPT ![c] = Error("INTERNAL", FALSE)]
     \/ \E failure \in Failures :
          Finish(c, "failed") /\ made' = [made EXCEPT ![c] = failure]
     \/ Finish(c, "abandoned") /\ UNCHANGED made
  /\ CreationsAnswered

CreationGoesOn(c) ==
  /\ Suspend(c) \/ Wake(c) \/ ResumeShared(c) \/ ResumeLoop(c)
  /\ UNCHANGED made
  /\ CreationsAnswered

(***************************************************************************)
(* Cancellation                                                            *)
(***************************************************************************)
CancelCall(c) ==
  /\ stage[c] # "replied"
  /\ Cancel(c)
  /\ UNCHANGED <<team, stage, asks, ids, made, reply>>

\* CancelledError passes `except Exception`, wherever the call awaits.
CallCancelled(c) ==
  /\ stage[c] # "replied"
  /\ LeaveCancelled(c)
  /\ RepliesWith(c, CancelledError)
  /\ UNCHANGED <<team, asks, ids, made>>

AllReplied ==
  /\ \A c \in Calls : stage[c] = "replied"
  /\ UNCHANGED serverVars

ServerNext ==
  \/ \E c \in Calls :
       \/ \E r \in Inbox : \/ Forbid(c, r) \/ Preview(c, r) \/ Create(c, r)
                           \/ ReadStatus(c, r) \/ UseTool(c, r) \/ UnknownTool(c, r)
       \/ TeamReportsStatus(c) \/ TeamToolEnds(c) \/ CreateTaskEnds(c)
       \/ CreationGoesOn(c) \/ CancelCall(c) \/ CallCancelled(c)
  \/ AllReplied

ServerSpec == ServerInit /\ [][ServerNext]_serverVars

\* The event loop runs what is ready; a team ends what it was asked.
ServerFairness ==
  \A c \in Calls :
    /\ WF_serverVars(CreationGoesOn(c) \/ CallCancelled(c))
    /\ WF_serverVars(CreateTaskEnds(c))
    /\ WF_serverVars(TeamReportsStatus(c))
    /\ WF_serverVars(TeamToolEnds(c))

FairServerSpec == ServerSpec /\ ServerFairness

(***************************************************************************)
(* Properties                                                              *)
(***************************************************************************)
Replies ==
  [kind : {"none", "ok", "error", "cancelled"}, code : {"none"} \cup Codes,
   retryable : BOOLEAN, ready : BOOLEAN, ids : SUBSET IdNames, task : References \cup {None}]

\* Every variable stays in its set, and a call's stage is that of its creation.
ServerTypeOK ==
  /\ TypeOK
  /\ team \in Teams /\ Builds(team)
  /\ stage \in [Calls -> {"new", "create", "status", "tool", "replied"}]
  /\ asks \in [Calls -> Inbox \cup {None}]
  /\ ids \in [Calls -> Seq(IdNames) \cup IdEdits]
  /\ made \in [Calls -> Replies]
  /\ reply \in [Calls -> Replies]
  /\ \A c \in Calls :
       /\ stage[c] = "create" => pc[c] \in {"waiting", "creating"}
       /\ reply[c].kind = "none" <=> stage[c] # "replied"

Asked(c, name) == asks[c] # None /\ asks[c].name = name
Said(c) == reply[c].kind = "ok"

\* A status answer names only tasks the call asked about, and to a token caller
\* only tasks its token was signed for (checked_statuses, after the await).
StatusIsOfTheAsked ==
  \A c \in Calls : Asked(c, "status") /\ Said(c) =>
    /\ reply[c].ids \subseteq ToSet(asks[c].args.taskIds)
    /\ asks[c].caller.token => reply[c].ids \subseteq ToSet(asks[c].caller.binding)

\* Past its limit in UTF-16 units, though not in the characters a schema counts.
Wide(s, limit) == Characters[s] + Astral[s] > limit

TooWide(name, args) ==
  \/ name = "create" /\ Wide(args.userId, Published.userId)
  \/ name = "status" /\ \E i \in DOMAIN args.taskIds : Wide(args.taskIds[i], Published.taskId)

\* What tools/list shows is what can be called: a listed tool that is given
\* arguments its published schema allows is refused by the server for its input
\* exactly when a user id or task id in them is within its limit in characters
\* and past it in UTF-16 units, where task.py and the schema differ; the
\* descriptor can always be read; what is not listed runs nothing.
PublishedCallsAreServed ==
  \A c \in Calls : asks[c] # None /\ Authorized(asks[c]) =>
    /\ asks[c].name \in Listed /\ InputSchemaAllows(asks[c].name, asks[c].args) =>
         IF TooWide(asks[c].name, asks[c].args) THEN reply[c] = Error("INVALID_INPUT", FALSE)
         ELSE reply[c] # Error("INVALID_INPUT", FALSE) \/ reply[c] \in Failures
    /\ Asked(c, "descriptor") => Said(c)
    /\ asks[c].name \notin Listed => reply[c] = Error("INVALID_INPUT", FALSE)

\* Team code that may change something runs only for a caller with the create
\* scope, and create_task only for the requester the token names and a draft
\* that is ready; the same holds of a call that is told of another's creation.
StateChangesAreGated ==
  \A c \in Calls :
    LET r == asks[c] IN
      /\ pc[c] = "creating" \/ (Asked(c, "create") /\ Said(c)) =>
           /\ r.caller.token => "create" \in r.caller.scopes
           /\ r.caller.token => r.caller.subject = r.args.userId
           /\ verdict(team.rules, to_intake_draft(r.args.draft)).ready
      /\ stage[c] = "tool" /\ r.caller.token /\ "create" \notin r.caller.scopes =>
           \A i \in DOMAIN team.tools :
             team.tools[i].name = r.name => team.tools[i].read_only

\* Preview and creation judge one draft alike: one previewed as ready is not
\* refused as NOT_READY, and one previewed as not ready is not created.
PreviewDecides ==
  \A c, d \in Calls :
    Asked(c, "validate") /\ Said(c) /\ Asked(d, "create")
      /\ asks[c].args.draft = asks[d].args.draft =>
        IF reply[c].ready THEN reply[d] # Error("NOT_READY", FALSE) \/ reply[d] \in Failures
        ELSE pc[d] # "creating" /\ ~Said(d)

\* Every call that is told how a merged creation ended is told the same.
MergedCallsAgree ==
  \A c, d \in Calls :
    answer[c].kind \in {"created", "failed"} /\ answer[d].by = answer[c].by =>
      reply[d] = reply[c]

\* A call that reached the team, or waits for another's creation, is replied to.
EveryCallIsReplied ==
  \A c \in Calls : stage[c] \notin {"new", "replied"} ~> stage[c] = "replied"

\* draft.py: an unreadable draft is answered with a verdict, not an error.
UnreadableIsNotReady ==
  \A c \in Calls :
    Asked(c, "validate") /\ Authorized(asks[c]) /\ ~asks[c].args.draft.readable =>
      Said(c) /\ ~reply[c].ready
=============================================================================
