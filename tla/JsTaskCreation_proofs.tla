----------------------- MODULE JsTaskCreation_proofs -----------------------
(***************************************************************************)
(* Proofs about JsTaskCreation: the type invariant, the invariant of the   *)
(* in-flight map and its waiters, and the safety properties they imply,    *)
(* for any number of calls and keys.                                       *)
(***************************************************************************)
EXTENDS JsTaskCreation, TLAPS

\* The calls that began a creation.
Began(c) == Owns(c) \/ outcome[c] # "none"

\* A call past the gates has a key, and only waiters are resuming.
KeysKnown ==
  /\ \A c \in Calls : pc[c] \in {"waiting", "creating", "settling"} => key[c] \in Keys
  /\ \A c \in resuming : pc[c] = "waiting"

TypeInv == TypeOK /\ KeysKnown

\* The map holds exactly the flights that are under way, each under its key.
MapMatchesOwners ==
  /\ \A c \in Calls : Owns(c) => pending[key[c]] = c
  /\ \A k \in Keys : pending[k] # None =>
       Owns(pending[k]) /\ key[pending[k]] = k

\* A flight has an outcome from the moment its owner has classified it.
OutcomeMatchesPc ==
  \A c \in Calls :
    /\ pc[c] = "settling" => outcome[c] # "none"
    /\ pc[c] \in {"new", "waiting", "creating"} => outcome[c] = "none"
    /\ outcome[c] = "abandoned" => c \in aborted

\* The calls resuming are all the waiters of a flight that has settled.
ResumingMatchesWaiters ==
  \A c \in resuming :
    /\ pc[running[c]] = "answered"
    /\ \A d \in Calls : pc[d] = "waiting" /\ running[d] = running[c] => d \in resuming

\* Every call is unanswered until it ends.
AnswerMatchesPc ==
  \A c \in Calls :
    /\ pc[c] # "answered" => answer[c].kind = "none"
    /\ pc[c] = "new" => running[c] = None

\* A call that took a flight over did so after that flight ended, and while
\* a waiter of that flight has yet to resume, it still owns the next one.
TakeoverMatchesBatch ==
  /\ \A d \in Calls : Began(d) /\ running[d] # None =>
       running[d] \in Calls /\ pc[running[d]] = "answered"
  /\ \A c, d \in Calls :
       pc[c] = "waiting" /\ Began(d) /\ running[c] = running[d] =>
         c \in resuming /\ Owns(d) /\ key[d] = key[c]

AnswersInv == AnswerMatchesPc /\ ToldOfItsOwnKey /\ AbortIsNotShared

TakeoverInv == ResumingMatchesWaiters /\ TakeoverMatchesBatch /\ TakenOverOnce

IndInv ==
  /\ TypeInv
  /\ MapMatchesOwners
  /\ OutcomeMatchesPc
  /\ NoForgottenWaiter
  /\ AnswersInv
  /\ TakeoverInv

(***************************************************************************)
(* Types                                                                   *)
(***************************************************************************)
LEMMA InitType == Init => TypeInv
  BY DEF Init, TypeInv, TypeOK, KeysKnown, Answers, Unanswered

\* A refused call is answered with an error code.
LEMMA RefusalCodes ==
  ASSUME NEW r \in Requests
  PROVE  Refusal(r) \in {"none", "FORBIDDEN", "NOT_READY", "raised"}
  BY DEF Requests, Refusal

\* Every step keeps the types.
LEMMA NextType == TypeInv /\ [Next]_vars => TypeInv'
  <1> SUFFICES ASSUME TypeInv, [Next]_vars PROVE TypeInv'
    OBVIOUS
  <1> USE DEF TypeInv, TypeOK, KeysKnown
  <1>1. ASSUME NEW c \in Calls, NEW r \in Requests, Refuse(c, r) PROVE TypeInv'
    BY <1>1, RefusalCodes DEF Refuse, Refused, Answers
  <1>2. ASSUME NEW c \in Calls, NEW r \in Requests, Enter(c, r) PROVE TypeInv'
    <2>1. r.key \in Keys
      BY DEF Requests
    <2>2. QED
      BY <1>2, <2>1 DEF Enter, Join, Start, StartFlight
  <1>3. ASSUME NEW c \in Calls,
               NEW how \in {"resolved", "malformed", "rejected"},
               TeamSettles(c, how)
        PROVE  TypeInv'
    BY <1>3 DEF TeamSettles
  <1>4. ASSUME NEW c \in Calls, Classify(c) PROVE TypeInv'
    BY <1>4 DEF Classify, OutcomeOf
  <1>5. ASSUME NEW c \in Calls, Settle(c) PROVE TypeInv'
    <2>1. OwnAnswer(c) \in Answers
      BY DEF OwnAnswer, Told, AbortError, Answers
    <2>2. QED
      BY <1>5, <2>1 DEF Settle
  <1>6. ASSUME NEW c \in Calls, Wake(c) PROVE TypeInv'
    BY <1>6 DEF Wake, Waiters
  <1>7. ASSUME NEW c \in Calls, ResumeShared(c) PROVE TypeInv'
    BY <1>7 DEF ResumeShared, Told, Answers
  <1>8. ASSUME NEW c \in Calls, ResumeAborted(c) PROVE TypeInv'
    BY <1>8 DEF ResumeAborted, AbortError, Answers
  <1>9. ASSUME NEW c \in Calls, ResumeLoop(c) PROVE TypeInv'
    BY <1>9 DEF ResumeLoop, Join, Start, StartFlight
  <1>10. ASSUME NEW c \in Calls, Abort(c) PROVE TypeInv'
    BY <1>10 DEF Abort
  <1>11. CASE UNCHANGED vars
    BY <1>11 DEF vars
  <1>12. QED
    BY <1>1, <1>2, <1>3, <1>4, <1>5, <1>6, <1>7, <1>8, <1>9, <1>10, <1>11
    DEF Next, Idle

\* Every variable of the program stays in its set, in every state.
THEOREM TypeCorrect == Spec => []TypeOK
  BY InitType, NextType, PTL DEF Spec, TypeInv

(***************************************************************************)
(* One lemma per part of the inductive invariant                           *)
(***************************************************************************)
LEMMA NextMap == IndInv /\ [Next]_vars => MapMatchesOwners'
  <1> SUFFICES ASSUME IndInv, [Next]_vars PROVE MapMatchesOwners'
    OBVIOUS
  <1> USE NoneAssumption DEF IndInv, TypeInv, KeysKnown, MapMatchesOwners, TypeOK, Owns
  <1>1. ASSUME NEW c \in Calls, NEW r \in Requests, Refuse(c, r)
        PROVE  MapMatchesOwners'
    BY <1>1 DEF Refuse
  <1>2. ASSUME NEW c \in Calls, NEW r \in Requests, Enter(c, r)
        PROVE  MapMatchesOwners'
    <2>1. r.key \in Keys
      BY DEF Requests
    <2>2. CASE Join(c, r.key)
      BY <1>2, <2>1, <2>2 DEF Enter, Join
    <2>3. CASE Start(c, r.key)
      BY <1>2, <2>1, <2>3 DEF Enter, Start, StartFlight
    <2>4. QED
      BY <1>2, <2>2, <2>3 DEF Enter
  <1>3. ASSUME NEW c \in Calls,
               NEW how \in {"resolved", "malformed", "rejected"},
               TeamSettles(c, how)
        PROVE  MapMatchesOwners'
    BY <1>3 DEF TeamSettles
  <1>4. ASSUME NEW c \in Calls, Classify(c) PROVE MapMatchesOwners'
    BY <1>4 DEF Classify
  <1>5. ASSUME NEW c \in Calls, Settle(c) PROVE MapMatchesOwners'
    BY <1>5 DEF Settle
  <1>6. ASSUME NEW c \in Calls, Wake(c) PROVE MapMatchesOwners'
    BY <1>6 DEF Wake
  <1>7. ASSUME NEW c \in Calls, ResumeShared(c) PROVE MapMatchesOwners'
    BY <1>7 DEF ResumeShared
  <1>8. ASSUME NEW c \in Calls, ResumeAborted(c) PROVE MapMatchesOwners'
    BY <1>8 DEF ResumeAborted
  <1>9. ASSUME NEW c \in Calls, ResumeLoop(c) PROVE MapMatchesOwners'
    BY <1>9 DEF ResumeLoop, Join, Start, StartFlight, ResumingMatchesWaiters
  <1>10. ASSUME NEW c \in Calls, Abort(c) PROVE MapMatchesOwners'
    BY <1>10 DEF Abort
  <1>11. CASE UNCHANGED vars
    BY <1>11 DEF vars
  <1>12. QED
    BY <1>1, <1>2, <1>3, <1>4, <1>5, <1>6, <1>7, <1>8, <1>9, <1>10, <1>11
    DEF Next, Idle

\* Every step keeps a flight's outcome and its owner's place together.
LEMMA NextOutcome == IndInv /\ [Next]_vars => OutcomeMatchesPc'
  <1> SUFFICES ASSUME IndInv, [Next]_vars PROVE OutcomeMatchesPc'
    OBVIOUS
  <1> USE DEF IndInv, TypeInv, TypeOK, KeysKnown, OutcomeMatchesPc
  <1>1. ASSUME NEW c \in Calls, NEW r \in Requests, Refuse(c, r)
        PROVE  OutcomeMatchesPc'
    BY <1>1 DEF Refuse
  <1>2. ASSUME NEW c \in Calls, NEW r \in Requests, Enter(c, r)
        PROVE  OutcomeMatchesPc'
    BY <1>2 DEF Enter, Join, Start, StartFlight
  <1>3. ASSUME NEW c \in Calls,
               NEW how \in {"resolved", "malformed", "rejected"},
               TeamSettles(c, how)
        PROVE  OutcomeMatchesPc'
    BY <1>3 DEF TeamSettles
  <1>4. ASSUME NEW c \in Calls, Classify(c) PROVE OutcomeMatchesPc'
    BY <1>4 DEF Classify, OutcomeOf
  <1>5. ASSUME NEW c \in Calls, Settle(c) PROVE OutcomeMatchesPc'
    BY <1>5 DEF Settle
  <1>6. ASSUME NEW c \in Calls, Wake(c) PROVE OutcomeMatchesPc'
    BY <1>6 DEF Wake
  <1>7. ASSUME NEW c \in Calls, ResumeShared(c) PROVE OutcomeMatchesPc'
    BY <1>7 DEF ResumeShared
  <1>8. ASSUME NEW c \in Calls, ResumeAborted(c) PROVE OutcomeMatchesPc'
    BY <1>8 DEF ResumeAborted
  <1>9. ASSUME NEW c \in Calls, ResumeLoop(c) PROVE OutcomeMatchesPc'
    BY <1>9 DEF ResumeLoop, Join, Start, StartFlight
  <1>10. ASSUME NEW c \in Calls, Abort(c) PROVE OutcomeMatchesPc'
    BY <1>10 DEF Abort
  <1>11. CASE UNCHANGED vars
    BY <1>11 DEF vars
  <1>12. QED
    BY <1>1, <1>2, <1>3, <1>4, <1>5, <1>6, <1>7, <1>8, <1>9, <1>10, <1>11
    DEF Next, Idle

\* A waiter's flight: where it is before and after a step.
LEMMA NextWaiter == IndInv /\ [Next]_vars => NoForgottenWaiter'
  <1> SUFFICES ASSUME IndInv, [Next]_vars PROVE NoForgottenWaiter'
    OBVIOUS
  <1> USE NoneAssumption
      DEF IndInv, TypeInv, TypeOK, KeysKnown, NoForgottenWaiter, Owns
  <1>1. ASSUME NEW c \in Calls, NEW r \in Requests, Refuse(c, r)
        PROVE  NoForgottenWaiter'
    BY <1>1 DEF Refuse
  <1>2. ASSUME NEW c \in Calls, NEW r \in Requests, Enter(c, r)
        PROVE  NoForgottenWaiter'
    <2>1. r.key \in Keys
      BY DEF Requests
    <2>2. CASE Join(c, r.key)
      BY <1>2, <2>1, <2>2 DEF Enter, Join, MapMatchesOwners
    <2>3. CASE Start(c, r.key)
      BY <1>2, <2>1, <2>3 DEF Enter, Start, StartFlight, MapMatchesOwners
    <2>4. QED
      BY <1>2, <2>2, <2>3 DEF Enter
  <1>3. ASSUME NEW c \in Calls,
               NEW how \in {"resolved", "malformed", "rejected"},
               TeamSettles(c, how)
        PROVE  NoForgottenWaiter'
    BY <1>3 DEF TeamSettles
  <1>4. ASSUME NEW c \in Calls, Classify(c) PROVE NoForgottenWaiter'
    BY <1>4 DEF Classify
  <1>5. ASSUME NEW c \in Calls, Settle(c) PROVE NoForgottenWaiter'
    BY <1>5 DEF Settle, OutcomeMatchesPc
  <1>6. ASSUME NEW c \in Calls, Wake(c) PROVE NoForgottenWaiter'
    BY <1>6 DEF Wake
  <1>7. ASSUME NEW c \in Calls, ResumeShared(c) PROVE NoForgottenWaiter'
    BY <1>7 DEF ResumeShared
  <1>8. ASSUME NEW c \in Calls, ResumeAborted(c) PROVE NoForgottenWaiter'
    BY <1>8 DEF ResumeAborted
  <1>9. ASSUME NEW c \in Calls, ResumeLoop(c) PROVE NoForgottenWaiter'
    <2>1. CASE Join(c, key[c])
      BY <1>9, <2>1 DEF ResumeLoop, Join, MapMatchesOwners
    <2>2. CASE Start(c, key[c])
      BY <1>9, <2>2 DEF ResumeLoop, Start, StartFlight, MapMatchesOwners
    <2>3. QED
      BY <1>9, <2>1, <2>2 DEF ResumeLoop
  <1>10. ASSUME NEW c \in Calls, Abort(c) PROVE NoForgottenWaiter'
    BY <1>10 DEF Abort
  <1>11. CASE UNCHANGED vars
    BY <1>11 DEF vars
  <1>12. QED
    BY <1>1, <1>2, <1>3, <1>4, <1>5, <1>6, <1>7, <1>8, <1>9, <1>10, <1>11
    DEF Next, Idle

\* What calls are answered.
LEMMA NextAnswers == IndInv /\ [Next]_vars => AnswersInv'
  <1> SUFFICES ASSUME IndInv, [Next]_vars PROVE AnswersInv'
    OBVIOUS
  <1> USE NoneAssumption
      DEF IndInv, TypeInv, TypeOK, KeysKnown, OutcomeMatchesPc, AnswersInv,
          AnswerMatchesPc, ToldOfItsOwnKey, AbortIsNotShared
  <1>1. ASSUME NEW c \in Calls, NEW r \in Requests, Refuse(c, r)
        PROVE  AnswersInv'
    BY <1>1, RefusalCodes DEF Refuse, Refused
  <1>2. ASSUME NEW c \in Calls, NEW r \in Requests, Enter(c, r)
        PROVE  AnswersInv'
    BY <1>2 DEF Enter, Join, Start, StartFlight
  <1>3. ASSUME NEW c \in Calls,
               NEW how \in {"resolved", "malformed", "rejected"},
               TeamSettles(c, how)
        PROVE  AnswersInv'
    BY <1>3 DEF TeamSettles
  <1>4. ASSUME NEW c \in Calls, Classify(c) PROVE AnswersInv'
    BY <1>4 DEF Classify
  <1>5. ASSUME NEW c \in Calls, Settle(c) PROVE AnswersInv'
    BY <1>5 DEF Settle, OwnAnswer, Told, AbortError
  <1>6. ASSUME NEW c \in Calls, Wake(c) PROVE AnswersInv'
    BY <1>6 DEF Wake
  <1>7. ASSUME NEW c \in Calls, ResumeShared(c) PROVE AnswersInv'
    BY <1>7 DEF ResumeShared, Told, NoForgottenWaiter, Owns
  <1>8. ASSUME NEW c \in Calls, ResumeAborted(c) PROVE AnswersInv'
    BY <1>8 DEF ResumeAborted, AbortError
  <1>9. ASSUME NEW c \in Calls, ResumeLoop(c) PROVE AnswersInv'
    BY <1>9 DEF ResumeLoop, Join, Start, StartFlight
  <1>10. ASSUME NEW c \in Calls, Abort(c) PROVE AnswersInv'
    BY <1>10 DEF Abort
  <1>11. CASE UNCHANGED vars
    BY <1>11 DEF vars
  <1>12. QED
    BY <1>1, <1>2, <1>3, <1>4, <1>5, <1>6, <1>7, <1>8, <1>9, <1>10, <1>11
    DEF Next, Idle

\* Who takes a flight over.
LEMMA NextTakeover == IndInv /\ [Next]_vars => TakeoverInv'
  <1> SUFFICES ASSUME IndInv, [Next]_vars PROVE TakeoverInv'
    OBVIOUS
  <1> USE NoneAssumption
      DEF IndInv, TypeInv, TypeOK, KeysKnown, OutcomeMatchesPc, TakeoverInv,
          ResumingMatchesWaiters, TakeoverMatchesBatch, TakenOverOnce, Began,
          Owns
  <1>1. ASSUME NEW c \in Calls, NEW r \in Requests, Refuse(c, r)
        PROVE  TakeoverInv'
    BY <1>1 DEF Refuse
  <1>2. ASSUME NEW c \in Calls, NEW r \in Requests, Enter(c, r)
        PROVE  TakeoverInv'
    <2>1. CASE Join(c, r.key)
      BY <1>2, <2>1 DEF Enter, Join,
          Requests, MapMatchesOwners, NoForgottenWaiter, AnswerMatchesPc, AnswersInv
    <2>2. CASE Start(c, r.key)
      BY <1>2, <2>2 DEF Enter, Start, StartFlight,
          Requests, MapMatchesOwners, NoForgottenWaiter, AnswerMatchesPc, AnswersInv
    <2>3. QED
      BY <1>2, <2>1, <2>2 DEF Enter
  <1>3. ASSUME NEW c \in Calls,
               NEW how \in {"resolved", "malformed", "rejected"},
               TeamSettles(c, how)
        PROVE  TakeoverInv'
    BY <1>3 DEF TeamSettles
  <1>4. ASSUME NEW c \in Calls, Classify(c) PROVE TakeoverInv'
    BY <1>4 DEF Classify
  <1>5. ASSUME NEW c \in Calls, Settle(c) PROVE TakeoverInv'
    BY <1>5 DEF Settle, Quiet, NoForgottenWaiter
  <1>6. ASSUME NEW c \in Calls, Wake(c) PROVE TakeoverInv'
    BY <1>6 DEF Wake, Waiters, Quiet
  <1>7. ASSUME NEW c \in Calls, ResumeShared(c) PROVE TakeoverInv'
    BY <1>7 DEF ResumeShared
  <1>8. ASSUME NEW c \in Calls, ResumeAborted(c) PROVE TakeoverInv'
    BY <1>8 DEF ResumeAborted
  <1>9. ASSUME NEW c \in Calls, ResumeLoop(c) PROVE TakeoverInv'
    <2>1. CASE Join(c, key[c])
      BY <1>9, <2>1 DEF ResumeLoop, Join, MapMatchesOwners, NoForgottenWaiter
    <2>2. CASE Start(c, key[c])
      BY <1>9, <2>2 DEF ResumeLoop, Start, StartFlight, MapMatchesOwners, NoForgottenWaiter
    <2>3. QED
      BY <1>9, <2>1, <2>2 DEF ResumeLoop
  <1>10. ASSUME NEW c \in Calls, Abort(c) PROVE TakeoverInv'
    BY <1>10 DEF Abort
  <1>11. CASE UNCHANGED vars
    BY <1>11 DEF vars
  <1>12. QED
    BY <1>1, <1>2, <1>3, <1>4, <1>5, <1>6, <1>7, <1>8, <1>9, <1>10, <1>11
    DEF Next, Idle

(***************************************************************************)
(* The invariants of every reachable state                                 *)
(***************************************************************************)
LEMMA InitInd == Init => IndInv
  <1> SUFFICES ASSUME Init PROVE IndInv
    OBVIOUS
  <1> USE NoneAssumption DEF Init, Owns, Began, Unanswered
  <1>1. TypeInv
    BY InitType
  <1>2. MapMatchesOwners /\ OutcomeMatchesPc /\ NoForgottenWaiter
    BY DEF MapMatchesOwners, OutcomeMatchesPc, NoForgottenWaiter
  <1>3. AnswersInv
    BY DEF AnswersInv, AnswerMatchesPc, ToldOfItsOwnKey, AbortIsNotShared
  <1>4. TakeoverInv
    BY DEF TakeoverInv, ResumingMatchesWaiters, TakeoverMatchesBatch,
           TakenOverOnce
  <1>5. QED
    BY <1>1, <1>2, <1>3, <1>4 DEF IndInv

\* The inductive invariant holds in every state.
THEOREM InductiveInvariant == Spec => []IndInv
  <1>1. IndInv /\ [Next]_vars => IndInv'
    BY NextType, NextMap, NextOutcome, NextWaiter, NextAnswers, NextTakeover
    DEF IndInv
  <1>2. QED
    BY InitInd, <1>1, PTL DEF Spec

\* At most one createTask of the team runs for a key at a time.
THEOREM OneCreation == Spec => []OneCreationPerKey
  <1>1. IndInv => OneCreationPerKey
    BY DEF IndInv, MapMatchesOwners, OneCreationPerKey
  <1>2. QED
    BY InductiveInvariant, <1>1, PTL

\* Nobody waits for a flight that is neither in the map nor settled.
THEOREM NobodyForgotten == Spec => []NoForgottenWaiter
  <1>1. IndInv => NoForgottenWaiter
    BY DEF IndInv
  <1>2. QED
    BY InductiveInvariant, <1>1, PTL

\* A call is told only of the outcome of a creation of its own key.
THEOREM AnswersAreTrue == Spec => []ToldOfItsOwnKey
  <1>1. IndInv => ToldOfItsOwnKey
    BY DEF IndInv, AnswersInv
  <1>2. QED
    BY InductiveInvariant, <1>1, PTL

\* An abort reaches only calls that were aborted themselves.
THEOREM AbortStaysPrivate == Spec => []AbortIsNotShared
  <1>1. IndInv => AbortIsNotShared
    BY DEF IndInv, AnswersInv
  <1>2. QED
    BY InductiveInvariant, <1>1, PTL

\* However many calls waited for an abandoned flight, one starts it again.
THEOREM TakeoverOnce == Spec => []TakenOverOnce
  <1>1. IndInv => TakenOverOnce
    BY DEF IndInv, TakeoverInv
  <1>2. QED
    BY InductiveInvariant, <1>1, PTL
=============================================================================
