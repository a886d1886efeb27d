# Intake team SDK: a TLA+ verification project

The repository is an SDK, in JavaScript and in Python, with which a department
("team") publishes its intake process as an MCP server: a host's assistant
previews a draft, creates a task and reads its status. This project models the
parts of the SDK whose correctness depends on the order in which things happen,
checks them with TLC on small instances, and proves the central facts with TLAPS
for any number of calls, keys, users, clocks, tokens and requests.

## The system

| Component | State it keeps | Operations | What is hard |
|---|---|---|---|
| Task creation, JS `team/task-creation.ts` | `inFlight`: per definition, a map from idempotency key to the promise of the running creation | `createTask`, `attemptCreation` | concurrent calls with one key, aborts at any await, takeover, a team that fails or hangs |
| Task creation, Python `server.py` `_create_task` | `_in_flight`: the same map of `_Flight` objects | `_create_task` | the same on asyncio: cancellation is an exception, a team may end without suspending |
| Team server, both `team-server.ts`, `team-authorization.ts`, `tool-result.ts`; `server.py` | none between calls | list tools, call tool: authorize, dispatch, check the result, report errors | order of the checks; what a failing check reports; a status read bound to a token |
| Task input and output checks `task-input.helper.ts`, `contract-output.ts`; `task.py`, `_contract_output.py` | none | read arguments, check what a team returns | limits, duplicates, blank values |
| Service tokens `service-token.ts`; `service_token.py` | none (a `jti` is not remembered) | sign, verify, digest of task ids | two clocks, tolerance and lifetime, replays, two implementations that must agree |
| HTTP transport `http.ts`; `http_transport.py` | per request: body read so far, whether a response has started; the listener | startup checks, token, body, MCP transport, errors, shutdown | errors after the response has started, disconnects, order of the checks, cancellation during shutdown |
| Stdio transports | none | connect, or exit 1 | pure I/O |
| Draft reading, readiness report, rendering, text helpers | a report's two lists | read a draft, collect blockers and warnings | a verdict that shares the report's lists; a verdict past the schema's limits |
| Environment configuration | none | read variables once | sequential |
| Contract, generated code, generator script | none | constants | generated |

How they interact: the HTTP transport verifies the token of a request and hands
the caller to a team server (JavaScript: a new server for each request; Python:
one server, the caller looked up for each call). The server authorizes and
dispatches; `intake_create_task` goes through task creation, whose map is shared
by every server object of one definition in one process. Task creation calls the
team's own `createTask`, which writes to the department's tracker. The host
retries with the same key and cancels calls; cancelling, or closing the
connection, aborts the call's signal (JavaScript) or cancels its task (Python).

### What makes each component correct

* Task creation: one running `createTask` per key; a call is told only the
  outcome of a creation of its own key; an abort is never shared; the waiters of
  an abandoned creation start it again once; every waiter is answered.
* Creation across a process and a department: one task per key, and every call
  told of success told of the same task, through retries, aborts and restarts.
* Team server: nothing of the team runs before the gates that protect it; a
  result that leaves the server satisfies the published schema; a status answer
  names only tasks that were asked about and that the token covers.
* Tokens: both SDKs judge every token alike; a token is accepted only within its
  lifetime and the tolerance, whatever the two clocks do.
* HTTP: at most one response is started; the body is not read before the token
  is checked; startup refuses what would fail every request; shutdown lets
  requests finish.
* Readiness: a verdict does not change after it was given, and is `ready` exactly
  when it has no blocker.

## Modules

| Module | Models | Role |
|---|---|---|
| `MergedCreation` | what both SDKs promise concurrent create calls | abstract specification |
| `JsTaskCreation` | `task-creation.ts` | detailed specification, implements `MergedCreation` |
| `PyTaskCreation` | `_create_task`, `_Flight`, `_in_flight` of `server.py` | detailed specification, implements `MergedCreation` |
| `IdempotentCreation` | what a host may rely on when it repeats a call: README.md, "Idempotency" | abstract specification |
| `CreationSystem` | `JsTaskCreation` composed with a host, a department, its tracker and crashes | composition, implements `IdempotentCreation` |
| `TokenRules` | signing and judging one token: `service-token.ts`, `service_token.py`, and the status read of `team-authorization.ts`, `server.py` | pure rules |
| `ServiceTokens` | a host and department servers, each with a clock, and the tokens between them | specification over `TokenRules` |
| `ContractRules` | reading arguments and drafts, the readiness report, the output schemas and the checks of what a team returns: `draft.py`, `readiness.py`, `task.py`, `_contract_output.py`, `_generated.py`, `contract.py` | pure rules |
| `PyTeamServer` | `build_team_server` and everything it calls: `server.py` | composition of `PyTaskCreation` with concurrent calls of all tools, over `ContractRules` |
| `PyHttpServer` | `http_transport.py`, and the settings of `env.py` it starts from | detailed specification |
| `MCJsTaskCreation`, `MCPyTaskCreation`, `MCCreationSystem`, `MCServiceTokens`, `MCPyTeamServer`, `MCPyHttpServer` | instances for TLC | model checking |
| `JsTaskCreation_proofs`, `PyTaskCreation_proofs`, `ServiceTokens_proofs`, `PyTeamServer_proofs`, `PyHttpServer_proofs` | type correctness and safety | proofs |
| `JsTaskCreation_refines`, `PyTaskCreation_refines` | implementation of `MergedCreation` | proofs |
| `CreationSystem_proofs` | safety, and implementation of `IdempotentCreation` | proofs |

### JsTaskCreation

A step is one run of synchronous code between two awaits; nothing else of the
process runs meanwhile. `pc[c]` says which await call `c` is in:

| `pc` | the code |
|---|---|
| `"new"` | the request has not been handled yet |
| `"waiting"` | line 69, `await running` |
| `"creating"` | line 88, `await attemptCreation(...)` |
| `"settling"` | `attemptCreation` has returned, line 92 not yet reached |
| `"answered"` | returned or thrown |

A call owns at most one flight, so a flight is named by its owner: `pending[k]`
is the map, `running[c]` the flight `c` awaited last, `outcome[f]` the
`FlightOutcome`. `Refuse` and `Enter` run the two gates (lines 45-59) and the
head of the loop; `Join` and `Start` are its two branches. `TeamSettles` is the
department's promise; `Classify` the end of `attemptCreation`, which names a
failure by the signal; `Settle` lines 90-98. `Wake` lets the waiters of one
flight resume: they were queued together when the promise resolved, so nothing
else runs until all of them have (`Quiet`), in an order the model leaves open,
though the runtime keeps one. `ResumeShared`, `ResumeAborted` and `ResumeLoop`
are the three ways out of the await. `Abort` is the host cancelling the call.
Between `TeamSettles`, `Classify`, `Settle` and `Wake` any other step may come in;
the runtime's microtask queue allows fewer orders, so what holds here holds there.

### PyTaskCreation

The owner runs the team's `create_task` itself, so the end of the team's code and
the end of the flight are one step, `Finish`; and until that code first suspends
nothing else runs: `current` is the call executing it, `Suspend` its first real
await. What comes out of it does not depend on whether its call was cancelled: a
result, an `Exception`, or `CancelledError` (or another `BaseException`), which the
call's own cancellation raises at an await, which the team may turn into either of
the others, and which its code may raise by itself, from something else that was
cancelled. The last leaves the flight unsettled: `Finish(c, "abandoned")`. So
`AbortIsNotShared` says that a call which ends with it was cancelled or ran the
`create_task` that raised it, and in no case waited for one that did.
`LeaveCancelled` ends a cancelled waiter (or a call that had not begun). A waiter that `done.set()` has scheduled may still be
cancelled before it runs; one that is cancelled while it runs is not stopped until
its next await, so `ResumeLoop` has no guard on `cancelled`.

### MergedCreation

A call is new, following a creation, creating, or answered. A creation ends
created, failed, or abandoned: in JavaScript only if its own call was aborted, in
Python also by the team's code alone (`TeamGivesUp`). A follower of a
created or failed creation is told its outcome; a follower of an abandoned one is
free to begin it again, or to follow whoever did. A creation begins only when none
with its key runs. The refinement mapping reads `follows` off `running` and hides
`pending`, `team`, the batch of waiters and, in JavaScript, the interval between
the outcome and its publication (`ended` is the outcome of an answered owner).

### CreationSystem

Adds the department: `Recognise` looks the key up and, if it is new, sends a
write; `Land` and `Drop` are the write's fate, whether or not its call still runs;
`Resolve` and `Reject` settle the promise. `Crash` answers every call the process
held with `"lost"` and empties the in-flight map. The host may repeat any key at
any time and cancel any call. The department is not in the repository: it is
modelled as README.md tells a team to write it, in the scenarios for which that is
enough:

* the tracker keeps a key unique: aborted calls may leave writes behind and the
  process may crash at any point;
* the tracker does not (search, then create): then `createTask` must not settle
  while its write is on its way, and the process must not crash with a write on
  its way (the second conjunct of `Crash`).

`ScenarioAssumption` asks for one of the two. Outside them the department's recipe
alone allows a second task (an aborted `fetch` is rejected at once while its write
still travels, and the takeover searches before it lands): this is the team's part
of the contract, and the reason the two scenarios are separated.

`IdempotentCreation` knows only what was asked, made and told: a key has a task
made for it once, by a call that carries it, and a call is told of that task or of
nothing. The refinement mapping reads `asks` off `key`, `made` off the tracker, and
`told` off the task in the hands of the call whose creation an answer names. A write
that lands is a `Create`, an answer of success a `Tell`; searching, settling,
resuming, aborting and crashing are stutters.

### TokenRules and ServiceTokens

`TokenRules` has no state: `JsSigns` and `PySigns` say which requests are signed,
`ClaimsOf` and `Token` what is signed, `JsVerifies` and `PyVerifies` which tokens
are accepted, conjunct by conjunct in the order of the code, `CallerOf` the caller
a handler then sees, `JsCovers` and `PyCovers` whether it may read a list of tasks.
A claim keeps its JSON type (`TimeTypes`, `TextTypes`), because each SDK tests types
in its language's own way: `"digits"` is an integer with more digits than a double
has room for, `"overflow"` an exponent like `1e400`. A signature is the pair of what
was signed and the secret, a digest the list it was computed from: HMAC and SHA-256
count as injective. Base64, JSON and the reasons of a refusal are left out.

`ServiceTokens` adds time in milliseconds. `now` is the host's clock and `skew[d]`
what department `d`'s is ahead of it. `Sign` is `signServiceToken` or
`sign_service_token`; `Present` gives a token to a server, where both SDKs judge it,
so that one behaviour compares them; `last` is that token with both verdicts. A token
may be presented at any server, at any later time, any number of times, and changed
on its way (`Changed`). `HandBuilt` tokens are a good one with one claim replaced,
like the shared fixtures', signed with either department's secret.

### ContractRules

A text is one of five: empty, blank, padded with blanks, plain, or past every
length limit; what is not a text is absent, `null` or of another JSON type. These
are the values the checks tell apart. `to_intake_draft` reads a draft (trimmed,
what is blank or no text counts as absent; a team's own fields keep their text
until `field_value` reads them), `verdict` is a report after the chain of calls a
team's `validate` makes on it, in their order. The schemas of `_generated.py` are
predicates: `DescriptorFits`, `VerdictFits`, `TicketFits`, `TaskReferenceFits`,
`TaskStatusFits` and `StatusesFit` for results, `InputSchemaAllows` for arguments.
Next to them stand the checks the code writes by hand (`ReadableCreation`,
`ReadableTaskIds`, `checked_task_reference`, `checked_statuses`,
`UsableNames`), so that a property can compare the two. What a caller's key, user id
and task ids are held to is written in two places and measured in two ways, and both
are kept: `Published` has the limits of the schema, which counts `Characters`
(`SchemaLength`); `MaxKeyLength`, `MaxUserIdLength`, `MaxTaskIds` and
`MaxTaskIdLength` are those of `task.py`, which measures user ids and task ids with
`js_length`, where a character beyond U+FFFF (`Astral`) counts twice. These are the
contract's own numbers; the maximum numbers of fields, issues and notes, which
only one place states, are constants. `checked_statuses` is the set of places in the team's list
whose statuses are passed on: nothing asks in which order they are, only how many
there are and which tasks they name, so a reply keeps the set of those.

### PyTeamServer

One definition served, and concurrent calls of any tool by any caller. `stage[c]`
says where call `c` is: in creation, in `get_task_status`, in a team tool, or
replied. `asks[c]` is its request, `ids[c]` the list of task ids `_dispatch` shares
with the team, `made[c]` the task or the error its `create_task` ended with, `reply[c]`
its result. The module EXTENDS `PyTaskCreation`: a call of `intake_create_task` that
passes `Authorized` and `ReadableCreation` becomes one of its calls through
`Gate`, in the same step, and `CreateTaskEnds` and `CreationGoesOn` are its steps
with the replies they cause (`CreationsAnswered`).

What runs before the first await is one step: `Forbid`, `Preview` (descriptor,
validate, render: they never await), the refusals inside `Create` and
`ReadStatus`, and `UnknownTool`. `TeamReportsStatus` and `TeamToolEnds` are the end of
the team's code, with a result or an exception; `StatusReply` reads the list of
ids as the team left it. `CancelCall` and `CallCancelled` are the host giving up,
at whatever await the call is in. `Structured` turns a payload that does not fit
its schema into `INTERNAL`, `Failures` are `_failure`'s results. `Builds` is what
startup requires of a definition. A `TaskError` keeps its code and its `retryable`
whoever raises it: `create_task`, `get_task_status` and team tools, and also `validate`
(`Raised`, in the preview and, through `GateError`, at the gate) and `render`; any
other exception is `Internal`. Not distinguished: which text an error carries.

`PublishedCallsAreServed` compares the two measures. A call whose arguments the
published schema allows is refused as `INVALID_INPUT` exactly when it is `TooWide`: a
user id or a task id within its limit in characters and past it in UTF-16 units. That
exception is in the code (`task.py:78`, `task.py:103` against `_generated.py:646` and
`:727`), and `packages/python/README.md` states both sides of it: a user id of "1 to 128
characters", and text measured in UTF-16 units. In every other case the schema and the
code agree.

### PyHttpServer

| variable | the code |
|---|---|
| `server` | the listener: down, refused at startup, up, draining (`should_exit`), stopped, or cut off by a cancellation of its own |
| `outer` | `run_http_team_server`: at `await shield(serving)`, at the bare `await serving`, or ended |
| `head`, `phase` | what a request brings, and where in `_McpEndpoint.__call__` it is |
| `sent`, `kept` | bytes that arrived, and bytes in `_read_body`'s `chunks` |
| `starts`, `status` | how many responses were started on the request, and the status of the last |
| `seen` | the caller `_request_caller` gave to the tool handler |

A body is a number of bytes and the byte that closes its JSON value: a prefix
parses exactly from that byte on, if it ever does, unless `json.loads` gives up on its
nesting: that `RecursionError` leaves `__call__` outside its `try`, and Starlette answers
500 (`Judge`). `ReadChunk` is one round of
`_read_body`, with any cut of the bytes still to come and a last message that may be
empty; `ReadDisconnect` is the round that receives `http.disconnect`, which ends
the loop and has the bytes so far judged as the body. The MCP library is external
(`RunTool`, `TransportStarts`, `TransportReturns`, `TransportRaises`): it may run a
tool for the JSON body it is handed, starts at most one response, returns once it
has, and may raise at any point, before or after. `Raise` is the error handler.
`CancelOuter` is a cancellation from outside: the first stops the shield and sets
`should_exit`, a second one, at the bare await, cancels the listener's own task.

## Runs

| Run | Bounds | Shows |
|---|---|---|
| `js_creation` | 3 calls, 2 keys, 2 users | the safety and liveness properties of `JsTaskCreation`, and that it implements `MergedCreation` |
| `py_creation` | 3 calls, 2 keys, 2 users | the same of `PyTaskCreation`, but for the two properties it does not have |
| `creation_system` | 3 calls, 2 keys, 2 crashes | one task per key, agreement of the answers, the reason searching is enough, and that the whole implements `IdempotentCreation` |
| `js_hung_owner` | 2 calls, 1 key | finding 3 |
| `py_takeover` | 3 calls, 1 key | finding 1 |
| `py_cancelled_failure` | 3 calls, 1 key | finding 2 |
| `tokens` | maximum lifetime 2 s, tolerance 1 s, 2 departments, skews -2.5 s to 1 s, half-second ticks, 1 token signed and any number of presentations | how long, where and for what a token is good, and that the SDKs agree |
| `token_digest` | the same with 1 department | finding 4 |
| `team_server` | 2 calls, 1 key, 6 definitions, 44 requests, limits of 2 fields and 2 issues, ids at and past their limits of length | who reaches team code, what a preview says of a creation, what a status answer names, that merged calls are told the same, that every call is answered |
| `team_unreadable_draft` | the same, 1 definition with every field required | finding 5 |
| `team_edited_ids` | the same, teams that edit the list | finding 6 |
| `http_server` | 2 requests, 1 caller, bodies of 0, 2 and 3 bytes, a limit of 2, 2 cancellations | responses, the body limit, who runs a tool, the order and the end of shutdown |

Three calls are the smallest number with an owner and two waiters of it, which
takeover needs; with two keys a call of the other key runs beside any pair. Two
users give every outcome of the requester gate, which only compares names. The
proofs cover every other size. Symmetry over calls and keys is used only where no
liveness property is checked.

For tokens the contract's 300 and 30 seconds become 2 and 1: the rules only add and
compare them, and the smallest values that leave room between the limits put every
limit within a few ticks. Half-second ticks meet both halves of a second; the skews
are none, the tolerance exactly on either side, and past it. `Horizon` lets the last
token expire on the slowest server, `SignBy` signs in two different halves of a
second, `MaxSent` is one because no rule relates two tokens. Hand-built tokens are
presented before the host has signed, which they do not depend on, and `last` is
forgotten with time, because servers remember nothing: both only keep the states
few. The clock stops at `Horizon`, so deadlock is not checked in these two runs. The
proofs have none of these bounds but `Horizon`, which may be any number.

In the team server the contract's 25 fields and issues and 10 notes become two, two and
one: the rules compare lengths with them, so a list at the limit and one past it are
enough. The limits on keys, user ids and task ids are the contract's: there are texts of
exactly 128 and 256 characters, a user id of 65 emoji and a task id of 129, and lists of
50 and 51 ids and of 51 statuses.
The definitions have rules of each kind, rules that raise a `TaskError` and anything
else, a `render` that raises, no status tool, and three that startup refuses (a title too long, a reserved name, a name twice); the
requests have each tool with callers that lack a scope, a subject or the binding,
and drafts that are unreadable, padded, blank or of the wrong type. Two calls give
an owner and a waiter, a preview beside a creation, and each tool beside another; three
calls of one key are `py_creation`'s. In `team_server` no team edits the list of ids
it is handed; `team_edited_ids` lifts that.

For HTTP, a limit of two bytes with bodies of none, two and three has a body at the
limit, past it and absent, cut in every way; two requests are one that ends and one
that is still in flight at shutdown; two cancellations are all the code has awaits
for. The listener may stay up for ever and ends for good, so deadlock is not checked.

Every property is checked to be falsifiable by a mutation of a definition, kept
beside it in the module: a map that is not looked at again, a flight that is
forgotten early, an abort that is shared, and so on.

### Fairness

`LoopFairness`: the event loop runs every continuation that is due (weak fairness
of `Classify`, `Settle`, `Wake` and of the resumption of each waiter; in Python also
of a running call reaching its first await). Both runtimes' queues are first in,
first out, so this is what they guarantee. `TeamAnswers`: a `createTask` that was
called ends some time, one way or another. The code does not guarantee it; it is
what a department owes, and `EveryWaiterIsAnswered` holds only with it. No
fairness is assumed of arrivals, aborts or cancellations. `js_hung_owner` is checked
with `LoopFairness` alone.

`ServerFairness` is the same for `PyTeamServer`: the event loop runs every call that
can go on, and `create_task`, `get_task_status` and team tools that were called end.
`PyHttpServer`'s `Fairness`: a client whose body is being read goes on sending or
leaves; the MCP transport returns or raises, which holds because team calls end; and
uvicorn stops once it is told to and no request is left. The first is not the
code's to guarantee: `_read_body` has no timeout, and a client that neither sends
nor leaves keeps shutdown waiting. Nothing makes a cancellation come, and the first
one is enough for `CancellationEnds`.

## Findings

1. **Python takeover without an await.** (`py_takeover`.) When a cancelled
   flight's waiters resume and `create_task` returns without suspending, the first
   one creates, takes its entry out of the map and ends before the second looks:
   each waiter calls `create_task`. `packages/python/README.md` says concurrent
   calls are merged into one `create_task` call. The team's idempotency still keeps
   the task single. JavaScript always awaits between the two, and `TakeoverOnce`
   is proved of it.
2. **Python shares a cancelled owner's failure.** (`py_cancelled_failure`.) An
   owner whose `create_task` converts the cancellation into an ordinary exception
   settles its flight as failed, and every waiter is raised that error, which the
   documentation says is not shared. JavaScript decides by the signal.
3. **A hung aborted owner.** (`js_hung_owner`.) A waiter starts again when the
   aborted owner's `createTask` settles, not when it is aborted; a `createTask` that
   ignores the signal and never settles keeps its key for ever.
4. **A list only one SDK can hash.** (`token_digest`.) A task id with a lone surrogate
   has no UTF-8 form. `service_token.py` says no JavaScript host can have signed such a
   list; `JSON.stringify` escapes the surrogate, so a JavaScript host signs it, a
   JavaScript server answers the read, and a Python server refuses it.
5. **An unreadable draft that is not "not ready".** (`team_unreadable_draft`.) A
   descriptor may list 25 fields, a verdict 25 blockers. A team that requires all its
   25 fields and one core field reports 26 for an empty draft, the output check
   raises, and the host is told `INTERNAL` where `draft.py` and
   `packages/python/README.md` promise a failed readiness check. (The same README says
   that too many items are `INTERNAL`; the two meet here.)
6. **Statuses checked against an edited list.** (`team_edited_ids`.) `_dispatch`
   gives the team the list it later checks the answer against. A `get_task_status`
   that changes the list in place has unasked statuses passed on, or asked ones
   dropped. A copy in `_dispatch` would end this.

Noted without a run: a second cancellation at the bare `await serving`
(`http_transport.py:148`) cuts off the requests the first one was letting finish
(`EndsInOrder` asks for order after one); `_server_name` in
`stdio_transport.py` is evaluated before the `try` that reports errors; a body nested
too deeply for `json.loads` is answered 500 and not 400; a malformed task reference is reported
as `INTERNAL` that must not be retried, every other `INTERNAL` as retryable.

Noted without a run: both SDKs sign a lifetime of half a second and a blank subject,
which every server then refuses, although the error of an out-of-range lifetime says a
token lives between 1 and 300 seconds. `HonestIsAccepted` therefore asks for whole
seconds and a subject that is not blank.

## Proofs

Assumption: `NoneAssumption`, that `None` is not a call, a key or a user. The sets
of calls, keys and users are otherwise arbitrary, infinite ones included. About
tokens: `RulesAssumption` (lifetime and tolerance are numbers), `NamesAssumption`
(names are not blank), `ClockAssumption` (clocks are past the epoch, and `FarFuture`
further ahead than any of them can accept) and `RequestAssumption`. About the
team server: `ServerAssumption` (`None` is no request, `Nobody` is a user name, and
callers have a subject, a `TaskError` has one of the contract's codes, what `validate`
raises is a `TaskError` or `INTERNAL`, and lengths are numbers). About the
composed system: `ScenarioAssumption`. About HTTP: `HttpAssumption` (`None` is no caller, and the
sizes and bounds are numbers).

`OneCreationPerKey` is not inductive: nothing in it says why a call that finds no
entry in the map finds no owner. The inductive invariant `IndInv` of
`JsTaskCreation_proofs` has these parts, each preserved by a lemma of its own with
one step per action:

* `TypeInv`: the types, and that every call past the gates has a key;
* `MapMatchesOwners`: a call owns a flight exactly when the map's entry for its key
  is that call; this gives `OneCreationPerKey` at once;
* `OutcomeMatchesPc`: an outcome is known exactly when the owner has got that far,
  and in JavaScript only an aborted call's is `"abandoned"`;
* `NoForgottenWaiter`;
* `AnswersInv`: `ToldOfItsOwnKey` and `AbortIsNotShared`;
* `TakeoverInv`: the calls in `resuming` are exactly the waiters of one flight, and
  a call that has taken that flight over already holds the map's entry while the
  rest of the batch resumes; from this `TakenOverOnce`.

The Python invariant has the same parts but the last. Both refinement theorems
prove that the initial states map to initial states and that each step, under the
invariant, maps to a step of `MergedCreation` or a stutter.

`CreationSystem_proofs` cannot reuse `IndInv`, because a crash is no step of
`JsTaskCreation` (`ProcessIsJsTaskCreation`: every other step is). Its invariant
`SysInv` keeps of the server's parts what survives a crash and adds the department:

* `SysTypes` and `Arrived`: a call has its key from its arrival on, and only calls
  that have arrived are looked up, written or found;
* `MapMatchesOwners`, and `createTask` runs only for owners;
* `FoundBacksSuccess`: the task a call has in hand is in the tracker under the call's
  key, a call whose write is on its way has none yet, and each success names a
  call with a task in hand. This is what a crash cannot undo;
* `WritersHold`, of a department that searches: a write on its way belongs to a
  `createTask` that still runs, for a key without a task. With the map it gives
  `WriterHoldsTheKey`, and with that the write that lands finds no task of another;
* `OneTaskPerKey` itself.

With a tracker that keeps keys unique, `Land` decides alone. `SuccessesAgree` and the
refinement follow from `SuccessNamesTheTask`: what a call was told is exactly the set
of tasks of its key. `ToldStays` shows that no later step, `Recognise`, `Land` or a
crash, changes what was told.

For tokens the invariant `IInv` says that a token in flight carries exactly the claims
of its request and its second of signing (`SentAsSigned`), and that the verdicts of
`last` are those of the clock the server still shows, about claims of known types
(`LastAsJudged`). Freshness is then arithmetic: `Seconds` rounds two clocks down, and
the lemmas `SecondsBounds`, `SecondsFromBelow` and `SecondsFromAbove` show that the
rounding never lengthens a life, whatever the skew. `BothSdksAgree` needs the claim
types: the integers the languages disagree about are those no double can hold, and
`DigitsAreUntimely` shows that the time checks refuse them.

`PyTeamServer_proofs` first shows that every step of the server is a step of
`PyTaskCreation` or leaves its variables alone (`StepIsCreation`), so that
everything proved there holds here (`ServerCreates`, `ServerCreatesOnce`). The
server's own invariant, `ServerInv`, is proved together with `IndInv`: `StageTells`
ties a call's stage to its `pc`; `AsAsked` says what a request must have passed for
its call to be in its stage (`MayBeIn`) and which results it may be replied with
(`MayBeReplied`), which is what the gates leave behind; `CreationsTold` says that
the reply of a call that was told how a creation ended, with which task or error, is
what that creation's own call made of it. The two measures of a text are compared in
`ReadableUnlessWide`: within the schema's limits, `task.py` reads the arguments exactly
when they are not too wide, which the equality of the two sets of limits is needed for.
The gates and the preview are then compared case by case. `StatusInv`
relates a reply to the list its call shares with the team: it names tasks of that list
as the team left it, and that list is the one asked for, which the token covers, if the
team does not edit it. `StatusOfTheAsked` assumes that (`IdEdits = {}`); without it
the property is false (finding 6).

In `PyHttpServer_proofs`, `ListenerFollows` relates the listener to
`run_http_team_server`, `PhaseTells` the phase of a request to the responses started
on it, `KeptUnlessRefused` says that a body's kept bytes are all that arrived unless it
was refused for its size, and `HandedOn` that a request the transport has was read to
its closing byte, or is empty or no JSON.

| Theorem | Module | States |
|---|---|---|
| `TypeCorrect` | `JsTaskCreation_proofs`, `PyTaskCreation_proofs` | `Spec => []TypeOK` |
| `OneCreation` | both | `Spec => []OneCreationPerKey` |
| `NobodyForgotten` | both | `Spec => []NoForgottenWaiter` |
| `AnswersAreTrue` | both | `Spec => []ToldOfItsOwnKey` |
| `AbortStaysPrivate` | both | `Spec => []AbortIsNotShared` |
| `TakeoverOnce` | `JsTaskCreation_proofs` | `Spec => []TakenOverOnce` |
| `Implementation` | `JsTaskCreation_refines`, `PyTaskCreation_refines` | `Spec => ImplementsMergedCreation` |
| `TypeCorrect`, `Freshness`, `HonestyPays`, `OneVerdict`, `NamedCaller`, `CoveredRead` | `ServiceTokens_proofs` | `Spec => []P` for the six properties of the run `tokens`, in its order |
| `SysTypeCorrect`, `OneTask`, `AgreedSuccess`, `WriterHolds` | `CreationSystem_proofs` | `SysSpec => []P` for `SysTypeOK`, `OneTaskPerKey`, `SuccessesAgree`, `WriterHoldsTheKey` |
| `ProcessIsJsTaskCreation` | `CreationSystem_proofs` | `SysSpec => Init /\ [][Next \/ Crash]_vars` |
| `Idempotence` | `CreationSystem_proofs` | `SysSpec => ImplementsIdempotentCreation` |
| `ServerMerges` | `PyTeamServer_proofs` | `ServerSpec => ImplementsMergedCreation` |
| `ServerTypeCorrect` | `PyTeamServer_proofs` | `ServerSpec => []ServerTypeOK` |
| `StatusOfTheAsked` | `PyTeamServer_proofs` | `ServerSpec => []StatusIsOfTheAsked`, if teams do not edit the list |
| `ServerCreates`, `ServerCreatesOnce` | `PyTeamServer_proofs` | `ServerSpec => Spec`, and with it `OneCreationPerKey` and `ToldOfItsOwnKey` |
| `ChangesAreGated`, `PreviewIsTheVerdict`, `MergedAgree`, `PublishedIsServed` | `PyTeamServer_proofs` | `ServerSpec => []P` for `StateChangesAreGated`, `PreviewDecides`, `MergedCallsAgree`, `PublishedCallsAreServed` |
| `TypeCorrect`, `AnsweredOnce`, `ToolsRunForVerifiedCalls`, `RefusedPastTheLimit`, `ShutdownInOrder` | `PyHttpServer_proofs` | `Spec => []P` for `TypeOK`, `OneResponse`, `ToolsRunForWholeVerifiedCalls`, `RefusedExactlyPastTheLimit`, `EndsInOrder` |

Only model-checked: `EveryWaiterIsAnswered`, `EveryCallIsReplied`, `EveryRequestEnds`
and `CancellationEnds`, because liveness under fairness is beyond the prover. Every
other property of the passing runs is stated by one of these theorems. Not proved
either: what `verdict` keeps of a team's rules (`SelectSeq` over a list of any length
is an induction the installed provers cannot do); the theorems about previews and
creation need only that both read the same verdict.

## Not modelled

* The JavaScript team server, HTTP transport, input checks, draft reading and
  readiness report. The rules are the Python SDK's, in the same order; what differs
  is the library underneath (express, the MCP package's own tool registration),
  which is not in the repository. JavaScript's creation and tokens are modelled.
* The stdio transports (connect, or report and exit), rendering and the search of a
  draft's prose (text), and the reading of lists and pairs from the environment
  (sequential, once, before anything runs).
* The generator, the public exports and the TypeScript copies of the contract, which
  restate it.
* Of the Python HTTP transport: the health route, the announcement of the bound
  address, and a cancellation while the listener is still starting.

## Next

The same composition with the Python server, which may take one creation over twice
(finding 1): that the department's own recognition of keys still keeps the task
single is argued there and not checked. The JavaScript HTTP transport, for its
startup checks, which leave out the team tool names (`http.ts:95`).
