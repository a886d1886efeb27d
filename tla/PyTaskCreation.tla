--------------------------- MODULE PyTaskCreation ---------------------------
(***************************************************************************)
(* _create_task of the Python SDK (server.py): the same gates and merging  *)
(* as JsTaskCreation, on asyncio.  One process, one TeamDefinition.        *)
(*                                                                         *)
(* What differs from the JavaScript SDK: a cancelled call is ended by an   *)
(* exception raised at its await, not by a signal it reads; the team's     *)
(* create_task runs inside the call that owns the flight, so its end and   *)
(* the flight's are one step; and it may end before it first suspends.     *)
(* A flight is named by the call that owns it.                             *)
(***************************************************************************)

CONSTANTS Calls, Keys, Users, None

ASSUME NoneAssumption == None \notin Calls \cup Keys \cup Users

VARIABLES pc,        \* pc[c]: which await, if any, call c is in
          key,       \* key[c]: input["idempotencyKey"]
          cancelled, \* the calls whose task has been asked to cancel
          pending,   \* _in_flight[definition]: the flight of each key
          running,   \* running[c]: the flight c waited for last
          outcome,   \* outcome[c]: c's _Flight once done is set; abandoned
                     \* is a flight that is done and not settled
          answer,    \* answer[c]: what c returned or raised
          resuming,  \* the waiters scheduled together by one done.set()
          current    \* the call executing the team's create_task, None if the
                     \* event loop is between steps

vars == <<pc, key, cancelled, pending, running, outcome, answer, resuming, current>>

(***************************************************************************)
(* The gates: as in JsTaskCreation.                                        *)
(***************************************************************************)
Requests == [key : Keys, caller : Users \cup {None}, requester : Users,
             verdict : {"ready", "not_ready", "raises"}]

Refusal(r) ==
  IF r.caller # None /\ r.caller # r.requester THEN "FORBIDDEN"
  ELSE CASE r.verdict = "ready"     -> "none"
         [] r.verdict = "not_ready" -> "NOT_READY"
         [] r.verdict = "raises"    -> "raised"  \* whatever validate raised

Refused(code) == [kind |-> code, by |-> None]
Told(f, how) == [kind |-> how, by |-> f]
Unanswered == [kind |-> "none", by |-> None]
Cancelled == [kind |-> "aborted", by |-> None]

Init ==
  /\ pc = [c \in Calls |-> "new"]
  /\ key = [c \in Calls |-> None]
  /\ cancelled = {}
  /\ pending = [k \in Keys |-> None]
  /\ running = [c \in Calls |-> None]
  /\ outcome = [c \in Calls |-> "none"]
  /\ answer = [c \in Calls |-> Unanswered]
  /\ resuming = {}
  /\ current = None

\* One task runs at a time, and the waiters one done.set() scheduled stand
\* next to each other in the ready queue.
LoopFree == current = None
Quiet == LoopFree /\ resuming = {}

(***************************************************************************)
(* The head of the loop                                                    *)
(***************************************************************************)
\* Mutation: any creation under way is joined, whatever its key.
JoinAny(c, k) ==
  \E j \in Keys :
    /\ pending[j] # None
    /\ pc' = [pc EXCEPT ![c] = "waiting"]
    /\ running' = [running EXCEPT ![c] = pending[j]]
    /\ UNCHANGED <<pending, current>>

Join(c, k) ==
  /\ pending[k] # None
  /\ pc' = [pc EXCEPT ![c] = "waiting"]
  /\ running' = [running EXCEPT ![c] = pending[k]]
  /\ UNCHANGED <<pending, current>>

StartFlight(c, k) ==
  /\ pc' = [pc EXCEPT ![c] = "creating"]
  /\ pending' = [pending EXCEPT ![k] = c]
  /\ current' = c
  /\ UNCHANGED running

\* Mutation: the map is not looked at before a flight is registered.
StartWithoutLooking(c, k) == StartFlight(c, k)

Start(c, k) == pending[k] = None /\ StartFlight(c, k)

Refuse(c, r) ==
  /\ Quiet
  /\ pc[c] = "new"
  /\ Refusal(r) # "none"
  /\ pc' = [pc EXCEPT ![c] = "answered"]
  /\ answer' = [answer EXCEPT ![c] = Refused(Refusal(r))]
  /\ UNCHANGED <<key, cancelled, pending, running, outcome, resuming, current>>

Enter(c, r) ==
  /\ Quiet
  /\ pc[c] = "new"
  /\ Refusal(r) = "none"
  /\ key' = [key EXCEPT ![c] = r.key]
  /\ Join(c, r.key) \/ Start(c, r.key)
  /\ UNCHANGED <<cancelled, outcome, answer, resuming>>

(***************************************************************************)
(* The team's create_task                                                  *)
(***************************************************************************)
\* It awaits something for the first time; until then nothing else ran.
Suspend(c) ==
  /\ current = c
  /\ current' = None
  /\ UNCHANGED <<pc, key, cancelled, pending, running, outcome, answer, resuming>>

\* Mutation: the finally block marks the entry instead of deleting it.
FinishMarks(c, how) ==
  /\ pc[c] = "creating"
  /\ Quiet \/ current = c
  /\ pending' = [pending EXCEPT ![key[c]] = "done"]
  /\ outcome' = [outcome EXCEPT ![c] = how]
  /\ pc' = [pc EXCEPT ![c] = "answered"]
  /\ answer' = [answer EXCEPT ![c] =
                  IF how = "abandoned" THEN Cancelled ELSE Told(c, how)]
  /\ current' = None
  /\ UNCHANGED <<key, cancelled, running, resuming>>

\* Mutation: the entry is deleted on success only, with no finally.
FinishDeletesOnSuccess(c, how) ==
  /\ pc[c] = "creating"
  /\ Quiet \/ current = c
  /\ pending' = IF how = "created" THEN [pending EXCEPT ![key[c]] = None]
                ELSE pending
  /\ outcome' = [outcome EXCEPT ![c] = how]
  /\ pc' = [pc EXCEPT ![c] = "answered"]
  /\ answer' = [answer EXCEPT ![c] =
                  IF how = "abandoned" THEN Cancelled ELSE Told(c, how)]
  /\ current' = None
  /\ UNCHANGED <<key, cancelled, running, resuming>>

\* What can come out of it, whether its call is cancelled or not: a result; an
\* Exception, which a malformed reference is too; or CancelledError, which the
\* call's own cancellation raises at an await, which the team may catch and turn
\* into either of the others, and which its code may raise by itself, from
\* something else that was cancelled.
\*
\* The owner settles its flight, or on CancelledError leaves it unsettled;
\* takes it out of the map; sets done; and ends.
Finish(c, how) ==
  /\ pc[c] = "creating"
  /\ Quiet \/ current = c
  /\ pending' = IF pending[key[c]] = c THEN [pending EXCEPT ![key[c]] = None]
                ELSE pending
  /\ outcome' = [outcome EXCEPT ![c] = how]
  /\ pc' = [pc EXCEPT ![c] = "answered"]
  /\ answer' = [answer EXCEPT ![c] =
                  IF how = "abandoned" THEN Cancelled ELSE Told(c, how)]
  /\ current' = None
  /\ UNCHANGED <<key, cancelled, running, resuming>>

(***************************************************************************)
(* The waiters of a flight that is done                                    *)
(***************************************************************************)
Waiters(f) == {c \in Calls : pc[c] = "waiting" /\ running[c] = f}

\* Mutation: done is set only by a flight that settled.
WakeIfSettled(f) ==
  /\ Quiet
  /\ pc[f] = "answered"
  /\ outcome[f] # "abandoned"
  /\ Waiters(f) # {}
  /\ resuming' = Waiters(f)
  /\ UNCHANGED <<pc, key, cancelled, pending, running, outcome, answer, current>>

Wake(f) ==
  /\ Quiet
  /\ pc[f] = "answered"
  /\ Waiters(f) # {}
  /\ resuming' = Waiters(f)
  /\ UNCHANGED <<pc, key, cancelled, pending, running, outcome, answer, current>>

ResumeShared(c) ==
  /\ LoopFree
  /\ c \in resuming
  /\ outcome[running[c]] \in {"created", "failed"}
  /\ pc' = [pc EXCEPT ![c] = "answered"]
  /\ answer' = [answer EXCEPT ![c] = Told(running[c], outcome[running[c]])]
  /\ resuming' = resuming \ {c}
  /\ UNCHANGED <<key, cancelled, pending, running, outcome, current>>

\* Mutation: a waiter of an unsettled flight shares its CancelledError.
ResumeLoopShares(c) ==
  /\ LoopFree
  /\ c \in resuming
  /\ outcome[running[c]] = "abandoned"
  /\ pc' = [pc EXCEPT ![c] = "answered"]
  /\ answer' = [answer EXCEPT ![c] = Cancelled]
  /\ resuming' = resuming \ {c}
  /\ UNCHANGED <<key, cancelled, pending, running, outcome, current>>

\* No cancellation check stands before the takeover: a call cancelled since
\* it was scheduled learns of it at its next await.
ResumeLoop(c) ==
  /\ LoopFree
  /\ c \in resuming
  /\ outcome[running[c]] = "abandoned"
  /\ Join(c, key[c]) \/ Start(c, key[c])
  /\ resuming' = resuming \ {c}
  /\ UNCHANGED <<key, cancelled, outcome, answer>>

(***************************************************************************)
(* Cancellation                                                            *)
(***************************************************************************)
Cancel(c) ==
  /\ Quiet
  /\ c \notin cancelled
  /\ pc[c] # "answered"
  /\ cancelled' = cancelled \cup {c}
  /\ UNCHANGED <<pc, key, pending, running, outcome, answer, resuming, current>>

\* Mutation: the finally block covers the wait too, so a cancelled waiter
\* takes the flight it waited for out of the map.
LeaveCancelledForgets(c) ==
  /\ LoopFree
  /\ resuming = {} \/ c \in resuming
  /\ c \in cancelled
  /\ pc[c] \in {"new", "waiting"}
  /\ pending' = [k \in Keys |-> IF k = key[c] THEN None ELSE pending[k]]
  /\ pc' = [pc EXCEPT ![c] = "answered"]
  /\ answer' = [answer EXCEPT ![c] = Cancelled]
  /\ resuming' = resuming \ {c}
  /\ UNCHANGED <<key, cancelled, running, outcome, current>>

\* CancelledError is raised in a call that waits, or before it gets that far.
LeaveCancelled(c) ==
  /\ LoopFree
  /\ resuming = {} \/ c \in resuming
  /\ c \in cancelled
  /\ pc[c] \in {"new", "waiting"}
  /\ pc' = [pc EXCEPT ![c] = "answered"]
  /\ answer' = [answer EXCEPT ![c] = Cancelled]
  /\ resuming' = resuming \ {c}
  /\ UNCHANGED <<key, cancelled, pending, running, outcome, current>>

Idle ==
  /\ \A c \in Calls : pc[c] = "answered"
  /\ UNCHANGED vars

Next ==
  \/ \E c \in Calls :
       \/ \E r \in Requests : Refuse(c, r) \/ Enter(c, r)
       \/ Suspend(c)
       \/ \E how \in {"created", "failed", "abandoned"} : Finish(c, how)
       \/ Wake(c)
       \/ ResumeShared(c)
       \/ ResumeLoop(c)
       \/ Cancel(c)
       \/ LeaveCancelled(c)
  \/ Idle

Spec == Init /\ [][Next]_vars

\* The event loop runs what is ready, and code that runs gets to an await.
LoopFairness ==
  \A c \in Calls :
    /\ WF_vars(Suspend(c))
    /\ WF_vars(Wake(c))
    /\ WF_vars(ResumeShared(c) \/ ResumeLoop(c) \/ LeaveCancelled(c))

\* The department ends every create_task it is given, one way or another.
TeamAnswers ==
  \A c \in Calls :
    WF_vars(\E how \in {"created", "failed", "abandoned"} : Finish(c, how))

FairSpec == Spec /\ LoopFairness /\ TeamAnswers

(***************************************************************************)
(* Properties                                                              *)
(***************************************************************************)
Answers == [kind : {"none", "FORBIDDEN", "NOT_READY", "raised", "aborted",
                    "created", "failed"},
            by : Calls \cup {None}]

\* Every variable stays in its set.
TypeOK ==
  /\ pc \in [Calls -> {"new", "waiting", "creating", "answered"}]
  /\ key \in [Calls -> Keys \cup {None}]
  /\ cancelled \subseteq Calls
  /\ pending \in [Keys -> Calls \cup {None}]
  /\ running \in [Calls -> Calls \cup {None}]
  /\ outcome \in [Calls -> {"none", "created", "failed", "abandoned"}]
  /\ answer \in [Calls -> Answers]
  /\ resuming \subseteq Calls
  /\ current \in Calls \cup {None}

\* No two create_task calls run at once for one key, whoever the requesters
\* are and however creations are cancelled and taken over.
OneCreationPerKey ==
  \A c, d \in Calls :
    pc[c] = "creating" /\ pc[d] = "creating" /\ key[c] = key[d] => c = d

\* A call that waits, waits for a flight of its own key that is in the map or
\* that is done and about to wake it.
NoForgottenWaiter ==
  \A c \in Calls : pc[c] = "waiting" =>
    LET f == running[c] IN
      /\ f \in Calls
      /\ key[f] = key[c]
      /\ \/ pc[f] = "creating" /\ pending[key[c]] = f
         \/ pc[f] = "answered" /\ outcome[f] # "none"

\* A call that is told how a creation ended is told the truth about a flight
\* of its own key: the one it owned, or the last one it waited for.
ToldOfItsOwnKey ==
  \A c \in Calls : answer[c].kind \in {"created", "failed"} =>
    LET f == answer[c].by IN
      /\ f \in Calls
      /\ key[f] = key[c]
      /\ outcome[f] = answer[c].kind
      /\ f = c \/ f = running[c]

\* A cancellation is never shared: only a call that was itself cancelled, or
\* whose own run of create_task raised it, ends with CancelledError; one that
\* waited for such a run does not.
AbortIsNotShared ==
  \A c \in Calls : answer[c].kind = "aborted" => c \in cancelled \/ outcome[c] = "abandoned"

\* A call that waits ends, through any number of cancelled owners, provided
\* the department ends what it is asked.
EveryWaiterIsAnswered ==
  \A c \in Calls : pc[c] = "waiting" ~> pc[c] = "answered"

\* The calls that waited for one abandoned flight start it again once between
\* them.
TakenOverOnce ==
  \A c, d \in Calls :
    /\ outcome[c] # "none" \/ pc[c] = "creating"
    /\ outcome[d] # "none" \/ pc[d] = "creating"
    /\ running[c] # None
    /\ running[c] = running[d]
    => c = d

\* A call that was not cancelled is not answered with the failure of one that
\* was: it starts the creation again.
CancelledFailureIsNotShared ==
  \A c \in Calls :
    answer[c].kind = "failed" /\ c \notin cancelled => answer[c].by \notin cancelled

(***************************************************************************)
(* The merging is the one MergedCreation specifies.                        *)
(***************************************************************************)
Phase(c) == IF pc[c] = "waiting" THEN "following" ELSE pc[c]

PublicAnswer(c) ==
  IF answer[c].kind \in {"FORBIDDEN", "NOT_READY", "raised"}
  THEN [kind |-> "refused", by |-> None] ELSE answer[c]

Merged == INSTANCE MergedCreation WITH
  TeamGivesUp <- TRUE,
  phase   <- [c \in Calls |-> Phase(c)],
  aborted <- cancelled,
  ended   <- outcome,
  follows <- running,
  answer  <- [c \in Calls |-> PublicAnswer(c)]

\* Every behaviour of this module is one of the abstract specification.
ImplementsMergedCreation == Merged!Spec
=============================================================================
