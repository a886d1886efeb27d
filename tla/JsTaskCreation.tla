--------------------------- MODULE JsTaskCreation ---------------------------
(***************************************************************************)
(* createTask of the JavaScript SDK (task-creation.ts): the gates in front *)
(* of a team's own createTask, and the merging of concurrent calls that    *)
(* carry one idempotencyKey.  One Node process, one team definition.       *)
(*                                                                         *)
(* A step is one run of synchronous code between two awaits.  A flight is  *)
(* named by the call that owns it: a call owns at most one, since it ends  *)
(* when its flight does.                                                   *)
(***************************************************************************)

CONSTANTS Calls,  \* create_task calls that reach this process
          Keys,   \* idempotency keys
          Users,  \* users a token or a requester may name
          None

ASSUME NoneAssumption == None \notin Calls \cup Keys \cup Users

VARIABLES pc,       \* pc[c]: which await, if any, call c is in
          key,      \* key[c]: input.idempotencyKey
          aborted,  \* the calls whose context.signal is aborted
          pending,  \* inFlight.get(definition): the flight of each key
          running,  \* running[c]: the flight c awaited last
          team,     \* team[c]: the promise of the team's createTask for c
          outcome,  \* outcome[c]: the FlightOutcome of c's flight
          answer,   \* answer[c]: what c returned or threw
          resuming  \* the waiters whose continuations run back to back

vars == <<pc, key, aborted, pending, running, team, outcome, answer, resuming>>

(***************************************************************************)
(* The gates                                                               *)
(***************************************************************************)
\* What the gates look at: the token's subject (None when the server has no
\* authentication), the requester named in the input, and what the team's
\* validate says of the draft, or that it throws.
Requests == [key : Keys, caller : Users \cup {None}, requester : Users,
             verdict : {"ready", "not_ready", "throws"}]

Refusal(r) ==
  IF r.caller # None /\ r.caller # r.requester THEN "FORBIDDEN"
  ELSE CASE r.verdict = "ready"     -> "none"
         [] r.verdict = "not_ready" -> "NOT_READY"
         [] r.verdict = "throws"    -> "raised"

Refused(code) == [kind |-> code, by |-> None]
Told(f, how) == [kind |-> how, by |-> f]
Unanswered == [kind |-> "none", by |-> None]
AbortError == [kind |-> "aborted", by |-> None]

Init ==
  /\ pc = [c \in Calls |-> "new"]
  /\ key = [c \in Calls |-> None]
  /\ aborted = {}
  /\ pending = [k \in Keys |-> None]
  /\ running = [c \in Calls |-> None]
  /\ team = [c \in Calls |-> "none"]
  /\ outcome = [c \in Calls |-> "none"]
  /\ answer = [c \in Calls |-> Unanswered]
  /\ resuming = {}

\* Nothing else runs while the continuations of one flight's waiters do: they
\* were queued together, when the flight's promise resolved.
Quiet == resuming = {}

(***************************************************************************)
(* The head of the loop: await the flight of this key, or, when there is   *)
(* none, register one and call the team.                                   *)
(***************************************************************************)
\* Mutation: any creation under way is joined, whatever its key.
JoinAny(c, k) ==
  \E j \in Keys :
    /\ pending[j] # None
    /\ pc' = [pc EXCEPT ![c] = "waiting"]
    /\ running' = [running EXCEPT ![c] = pending[j]]
    /\ UNCHANGED <<pending, team>>

Join(c, k) ==
  /\ pending[k] # None
  /\ pc' = [pc EXCEPT ![c] = "waiting"]
  /\ running' = [running EXCEPT ![c] = pending[k]]
  /\ UNCHANGED <<pending, team>>

StartFlight(c, k) ==
  /\ pc' = [pc EXCEPT ![c] = "creating"]
  /\ pending' = [pending EXCEPT ![k] = c]
  /\ team' = [team EXCEPT ![c] = "running"]
  /\ UNCHANGED running

\* Mutation: the map is not looked at before a flight is registered.
StartWithoutLooking(c, k) == StartFlight(c, k)

Start(c, k) == pending[k] = None /\ StartFlight(c, k)

(***************************************************************************)
(* A call arrives and runs up to its first await.                          *)
(***************************************************************************)
Refuse(c, r) ==
  /\ Quiet
  /\ pc[c] = "new"
  /\ Refusal(r) # "none"
  /\ pc' = [pc EXCEPT ![c] = "answered"]
  /\ answer' = [answer EXCEPT ![c] = Refused(Refusal(r))]
  /\ UNCHANGED <<key, aborted, pending, running, team, outcome, resuming>>

Enter(c, r) ==
  /\ Quiet
  /\ pc[c] = "new"
  /\ Refusal(r) = "none"
  /\ key' = [key EXCEPT ![c] = r.key]
  /\ Join(c, r.key) \/ Start(c, r.key)
  /\ UNCHANGED <<aborted, outcome, answer, resuming>>

(***************************************************************************)
(* The team's promise settles, at a time and in a way of the team's own:   *)
(* with a task reference, with one that fails checkedTaskReference, or     *)
(* with a rejection.  An aborted call's team may still answer.             *)
(***************************************************************************)
TeamSettles(c, how) ==
  /\ Quiet
  /\ team[c] = "running"
  /\ team' = [team EXCEPT ![c] = how]
  /\ UNCHANGED <<pc, key, aborted, pending, running, outcome, answer, resuming>>

\* Mutation: the team's rejection escapes attemptCreation as it is.
OutcomeOfRejection(c) == IF team[c] = "resolved" THEN "created" ELSE team[c]

\* Mutation: every rejection counts as an abort.
OutcomeOfAnyRejection(c) == IF team[c] = "resolved" THEN "created" ELSE "abandoned"

\* attemptCreation: whatever failed, the signal decides what it is called.
OutcomeOf(c) ==
  IF team[c] = "resolved" THEN "created"
  ELSE IF c \in aborted THEN "abandoned" ELSE "failed"

\* Mutation: the flight leaves the map as soon as the team has answered.
ClassifyAndForget(c) ==
  /\ Quiet
  /\ pc[c] = "creating"
  /\ team[c] \in {"resolved", "malformed", "rejected"}
  /\ pc' = [pc EXCEPT ![c] = "settling"]
  /\ outcome' = [outcome EXCEPT ![c] = OutcomeOf(c)]
  /\ pending' = [pending EXCEPT ![key[c]] = None]
  /\ UNCHANGED <<key, aborted, running, team, answer, resuming>>

Classify(c) ==
  /\ Quiet
  /\ pc[c] = "creating"
  /\ team[c] \in {"resolved", "malformed", "rejected"}
  /\ pc' = [pc EXCEPT ![c] = "settling"]
  /\ outcome' = [outcome EXCEPT ![c] = OutcomeOf(c)]
  /\ UNCHANGED <<key, aborted, pending, running, team, answer, resuming>>

\* What the owner returns or throws: an abandoned flight's error is the
\* team's own reaction to the abort.
OwnAnswer(c) ==
  IF outcome[c] = "abandoned" THEN AbortError ELSE Told(c, outcome[c])

\* The owner takes its flight out of the map, settles it and ends.
Settle(c) ==
  /\ Quiet
  /\ pc[c] = "settling"
  /\ pending' = IF pending[key[c]] = c THEN [pending EXCEPT ![key[c]] = None]
                ELSE pending
  /\ pc' = [pc EXCEPT ![c] = "answered"]
  /\ answer' = [answer EXCEPT ![c] = OwnAnswer(c)]
  /\ UNCHANGED <<key, aborted, running, team, outcome, resuming>>

(***************************************************************************)
(* The waiters of a settled flight resume, back to back.                   *)
(***************************************************************************)
Waiters(f) == {c \in Calls : pc[c] = "waiting" /\ running[c] = f}

\* Mutation: an abandoned flight's promise is never resolved.
WakeUnlessAbandoned(f) ==
  /\ Quiet
  /\ pc[f] = "answered"
  /\ outcome[f] # "abandoned"
  /\ Waiters(f) # {}
  /\ resuming' = Waiters(f)
  /\ UNCHANGED <<pc, key, aborted, pending, running, team, outcome, answer>>

Wake(f) ==
  /\ Quiet
  /\ pc[f] = "answered"
  /\ Waiters(f) # {}
  /\ resuming' = Waiters(f)
  /\ UNCHANGED <<pc, key, aborted, pending, running, team, outcome, answer>>

\* Mutation: whoever waited is told that the task was created.
ResumeSharedAsCreated(c) ==
  /\ c \in resuming
  /\ outcome[running[c]] \in {"created", "failed"}
  /\ pc' = [pc EXCEPT ![c] = "answered"]
  /\ answer' = [answer EXCEPT ![c] = Told(running[c], "created")]
  /\ resuming' = resuming \ {c}
  /\ UNCHANGED <<key, aborted, pending, running, team, outcome>>

\* A waiter of a flight that reached the team's answer shares it.
ResumeShared(c) ==
  /\ c \in resuming
  /\ outcome[running[c]] \in {"created", "failed"}
  /\ pc' = [pc EXCEPT ![c] = "answered"]
  /\ answer' = [answer EXCEPT ![c] = Told(running[c], outcome[running[c]])]
  /\ resuming' = resuming \ {c}
  /\ UNCHANGED <<key, aborted, pending, running, team, outcome>>

\* Mutation: the abort of the owner is thrown to whoever waited.
ResumeAbortedShared(c) ==
  /\ c \in resuming
  /\ outcome[running[c]] = "abandoned"
  /\ pc' = [pc EXCEPT ![c] = "answered"]
  /\ answer' = [answer EXCEPT ![c] = AbortError]
  /\ resuming' = resuming \ {c}
  /\ UNCHANGED <<key, aborted, pending, running, team, outcome>>

\* A waiter of an abandoned flight throws if it was aborted too.
ResumeAborted(c) ==
  /\ c \in resuming
  /\ outcome[running[c]] = "abandoned"
  /\ c \in aborted
  /\ pc' = [pc EXCEPT ![c] = "answered"]
  /\ answer' = [answer EXCEPT ![c] = AbortError]
  /\ resuming' = resuming \ {c}
  /\ UNCHANGED <<key, aborted, pending, running, team, outcome>>

\* Mutation: an if in place of the loop, so the map is not looked at again.
ResumeWithoutLoop(c) ==
  /\ c \in resuming
  /\ outcome[running[c]] = "abandoned"
  /\ c \notin aborted
  /\ StartFlight(c, key[c])
  /\ resuming' = resuming \ {c}
  /\ UNCHANGED <<key, aborted, outcome, answer>>

\* Otherwise it goes round the loop: it takes the creation over, or joins the
\* call that already has.
ResumeLoop(c) ==
  /\ c \in resuming
  /\ outcome[running[c]] = "abandoned"
  /\ c \notin aborted
  /\ Join(c, key[c]) \/ Start(c, key[c])
  /\ resuming' = resuming \ {c}
  /\ UNCHANGED <<key, aborted, outcome, answer>>

\* The host cancels the request, or its connection closes.
Abort(c) ==
  /\ Quiet
  /\ c \notin aborted
  /\ pc[c] # "answered"
  /\ aborted' = aborted \cup {c}
  /\ UNCHANGED <<pc, key, pending, running, team, outcome, answer, resuming>>

\* Every call has ended: the process idles.
Idle ==
  /\ \A c \in Calls : pc[c] = "answered"
  /\ UNCHANGED vars

Next ==
  \/ \E c \in Calls :
       \/ \E r \in Requests : Refuse(c, r) \/ Enter(c, r)
       \/ \E how \in {"resolved", "malformed", "rejected"} : TeamSettles(c, how)
       \/ Classify(c)
       \/ Settle(c)
       \/ Wake(c)
       \/ ResumeShared(c)
       \/ ResumeAborted(c)
       \/ ResumeLoop(c)
       \/ Abort(c)
  \/ Idle

Spec == Init /\ [][Next]_vars

\* The event loop runs every continuation that is due.
LoopFairness ==
  \A c \in Calls :
    /\ WF_vars(Classify(c))
    /\ WF_vars(Settle(c))
    /\ WF_vars(Wake(c))
    /\ WF_vars(ResumeShared(c) \/ ResumeAborted(c) \/ ResumeLoop(c))

\* The department answers every createTask it is given, one way or another.
TeamAnswers ==
  \A c \in Calls :
    WF_vars(\E how \in {"resolved", "malformed", "rejected"} : TeamSettles(c, how))

LoopSpec == Spec /\ LoopFairness
FairSpec == Spec /\ LoopFairness /\ TeamAnswers

(***************************************************************************)
(* Properties                                                              *)
(***************************************************************************)
Answers == [kind : {"none", "FORBIDDEN", "NOT_READY", "raised", "aborted",
                    "created", "failed"},
            by : Calls \cup {None}]

\* Every variable stays in its set.
TypeOK ==
  /\ pc \in [Calls -> {"new", "waiting", "creating", "settling", "answered"}]
  /\ key \in [Calls -> Keys \cup {None}]
  /\ aborted \subseteq Calls
  /\ pending \in [Keys -> Calls \cup {None}]
  /\ running \in [Calls -> Calls \cup {None}]
  /\ team \in [Calls -> {"none", "running", "resolved", "malformed", "rejected"}]
  /\ outcome \in [Calls -> {"none", "created", "failed", "abandoned"}]
  /\ answer \in [Calls -> Answers]
  /\ resuming \subseteq Calls

Owns(c) == pc[c] \in {"creating", "settling"}

\* No two createTask of the team run at once for one key, whoever the
\* requesters are and however creations are aborted and taken over.
OneCreationPerKey ==
  \A c, d \in Calls : Owns(c) /\ Owns(d) /\ key[c] = key[d] => c = d

\* A call that waits, waits for a flight of its own key that is in the map or
\* whose outcome is about to reach it: nobody waits for a promise that was
\* forgotten.
NoForgottenWaiter ==
  \A c \in Calls : pc[c] = "waiting" =>
    LET f == running[c] IN
      /\ f \in Calls
      /\ key[f] = key[c]
      /\ \/ Owns(f) /\ pending[key[c]] = f
         \/ pc[f] = "answered" /\ outcome[f] # "none"

\* A call that is told how a creation ended is told the truth about a flight
\* of its own key: the one it owned, or the last one it waited for.
ToldOfItsOwnKey ==
  \A c \in Calls : answer[c].kind \in {"created", "failed"} =>
    LET f == answer[c].by IN
      /\ f \in Calls
      /\ key[f] = key[c]
      /\ outcome[f] = answer[c].kind
      /\ f = c \/ f = running[c]

\* An abort is never shared: only a call that was itself aborted is answered
\* with one.
AbortIsNotShared ==
  \A c \in Calls : answer[c].kind = "aborted" => c \in aborted

\* The calls that waited for one abandoned flight start it again once between
\* them: running[c] of a call that went on to own a flight is the flight it
\* took over.
TakenOverOnce ==
  \A c, d \in Calls :
    /\ outcome[c] # "none" \/ Owns(c)
    /\ outcome[d] # "none" \/ Owns(d)
    /\ running[c] # None
    /\ running[c] = running[d]
    => c = d

\* A call that waits is answered in the end, through any number of aborted
\* owners, provided the department answers what it is asked.
EveryWaiterIsAnswered ==
  \A c \in Calls : pc[c] = "waiting" ~> pc[c] = "answered"

\* README.md: a waiter starts the creation again when the call that owns it is
\* aborted before the team answers.  Stated of the event loop alone, with no
\* promise that the team ever answers an aborted call.
AbortedIsStartedAgain ==
  \A c, d \in Calls :
    (c \in aborted /\ pc[c] = "creating" /\ pc[d] = "waiting" /\ running[d] = c)
      ~> (pc[d] # "waiting" \/ running[d] # c \/ d \in aborted)

(***************************************************************************)
(* The merging is the one MergedCreation specifies.                        *)
(***************************************************************************)
Phase(c) ==
  CASE pc[c] = "new"      -> "new"
    [] pc[c] = "waiting"  -> "following"
    [] Owns(c)            -> "creating"
    [] pc[c] = "answered" -> "answered"

PublicAnswer(c) ==
  IF answer[c].kind \in {"FORBIDDEN", "NOT_READY", "raised"}
  THEN [kind |-> "refused", by |-> None] ELSE answer[c]

Merged == INSTANCE MergedCreation WITH
  TeamGivesUp <- FALSE,
  phase   <- [c \in Calls |-> Phase(c)],
  ended   <- [c \in Calls |-> IF pc[c] = "answered" THEN outcome[c] ELSE "none"],
  follows <- running,
  answer  <- [c \in Calls |-> PublicAnswer(c)]

\* Every behaviour of this module is one of the abstract specification.
ImplementsMergedCreation == Merged!Spec
=============================================================================
