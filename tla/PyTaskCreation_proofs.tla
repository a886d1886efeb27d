----------------------- MODULE PyTaskCreation_proofs -----------------------
(***************************************************************************)
(* Proofs about PyTaskCreation, along the lines of JsTaskCreation_proofs:  *)
(* what fails there, that one takeover is enough, is not claimed here.     *)
(***************************************************************************)
EXTENDS PyTaskCreation, TLAPS

\* A call past the gates has a key, and only waiters are resuming.
KeysKnown ==
  /\ \A c \in Calls : pc[c] \in {"waiting", "creating"} => key[c] \in Keys
  /\ \A c \in resuming : pc[c] = "waiting"

TypeInv == TypeOK /\ KeysKnown

\* The map holds exactly the flights that are under way, each under its key.
MapMatchesOwners ==
  /\ \A c \in Calls : pc[c] = "creating" => pending[key[c]] = c
  /\ \A k \in Keys : pending[k] # None =>
       pc[pending[k]] = "creating" /\ key[pending[k]] = k

\* A flight has an outcome once its owner has ended.
OutcomeMatchesPc ==
  \A c \in Calls : pc[c] \in {"new", "waiting", "creating"} => outcome[c] = "none"

\* The calls resuming wait for a flight that is done.
ResumingMatchesWaiters == \A c \in resuming : pc[running[c]] = "answered"

\* Every call is unanswered until it ends.
AnswerMatchesPc == \A c \in Calls : pc[c] # "answered" => answer[c].kind = "none"

AnswersInv == AnswerMatchesPc /\ ToldOfItsOwnKey /\ AbortIsNotShared

IndInv ==
  /\ TypeInv
  /\ MapMatchesOwners
  /\ OutcomeMatchesPc
  /\ NoForgottenWaiter
  /\ ResumingMatchesWaiters
  /\ AnswersInv

(***************************************************************************)
(* Types                                                                   *)
(***************************************************************************)
LEMMA InitType == Init => TypeInv
  BY DEF Init, TypeInv, TypeOK, KeysKnown, Answers, Unanswered

\* A refused call is answered with an error code.
LEMMA RefusalCodes ==
  ASSUME NEW r \in Requests
  PROVE  Refusal(r) \in {"none", "FORBIDDEN", "NOT_READY", "raised"}
  BY DEF Requests, Refusal

\* Every step keeps the types.
LEMMA NextType == TypeInv /\ [Next]_vars => TypeInv'
  <1> SUFFICES ASSUME TypeInv, [Next]_vars PROVE TypeInv'
    OBVIOUS
  <1> USE DEF TypeInv, TypeOK, KeysKnown
  <1>1. ASSUME NEW c \in Calls, NEW r \in Requests, Refuse(c, r)
        PROVE  TypeInv'
    BY <1>1, RefusalCodes DEF Refuse, Refused, Answers
  <1>2. ASSUME NEW c \in Calls, NEW r \in Requests, Enter(c, r)
        PROVE  TypeInv'
    <2>1. r.key \in Keys
      BY DEF Requests
    <2>2. CASE Join(c, r.key)
      BY <1>2, <2>1, <2>2 DEF Enter, Join
    <2>3. CASE Start(c, r.key)
      BY <1>2, <2>1, <2>3 DEF Enter, Start, StartFlight
    <2>4. QED
      BY <1>2, <2>2, <2>3 DEF Enter
  <1>3. ASSUME NEW c \in Calls, Suspend(c) PROVE TypeInv'
    BY <1>3 DEF Suspend
  <1>4. ASSUME NEW c \in Calls, NEW how \in {"created", "failed", "abandoned"},
               Finish(c, how)
        PROVE  TypeInv'
    BY <1>4 DEF Finish, Cancelled, Told, Answers
  <1>5. ASSUME NEW c \in Calls, Wake(c) PROVE TypeInv'
    BY <1>5 DEF Wake, Waiters
  <1>6. ASSUME NEW c \in Calls, ResumeShared(c) PROVE TypeInv'
    BY <1>6 DEF ResumeShared, Told, Answers
  <1>7. ASSUME NEW c \in Calls, ResumeLoop(c) PROVE TypeInv'
    BY <1>7 DEF ResumeLoop, Join, Start, StartFlight
  <1>8. ASSUME NEW c \in Calls, Cancel(c) PROVE TypeInv'
    BY <1>8 DEF Cancel
  <1>9. ASSUME NEW c \in Calls, LeaveCancelled(c) PROVE TypeInv'
    BY <1>9 DEF LeaveCancelled, Cancelled, Answers
  <1>10. CASE UNCHANGED vars
    BY <1>10 DEF vars
  <1>11. QED
    BY <1>1, <1>2, <1>3, <1>4, <1>5, <1>6, <1>7, <1>8, <1>9, <1>10
    DEF Next, Idle

\* Every variable of the program stays in its set, in every state.
THEOREM TypeCorrect == Spec => []TypeOK
  BY InitType, NextType, PTL DEF Spec, TypeInv

(***************************************************************************)
(* One lemma per part of the inductive invariant                           *)
(***************************************************************************)
LEMMA NextMap == IndInv /\ [Next]_vars => MapMatchesOwners'
  <1> SUFFICES ASSUME IndInv, [Next]_vars PROVE MapMatchesOwners'
    OBVIOUS
  <1> USE NoneAssumption DEF IndInv, TypeInv, TypeOK, KeysKnown, MapMatchesOwners
  <1>1. ASSUME NEW c \in Calls, NEW r \in Requests, Refuse(c, r)
        PROVE  MapMatchesOwners'
    BY <1>1 DEF Refuse
  <1>2. ASSUME NEW c \in Calls, NEW r \in Requests, Enter(c, r)
        PROVE  MapMatchesOwners'
    <2>1. r.key \in Keys
      BY DEF Requests
    <2>2. CASE Join(c, r.key)
      BY <1>2, <2>1, <2>2 DEF Enter, Join
    <2>3. CASE Start(c, r.key)
      BY <1>2, <2>1, <2>3 DEF Enter, Start, StartFlight
    <2>4. QED
      BY <1>2, <2>2, <2>3 DEF Enter
  <1>3. ASSUME NEW c \in Calls, Suspend(c) PROVE MapMatchesOwners'
    BY <1>3 DEF Suspend
  <1>4. ASSUME NEW c \in Calls, NEW how \in {"created", "failed", "abandoned"},
               Finish(c, how)
        PROVE  MapMatchesOwners'
    BY <1>4 DEF Finish
  <1>5. ASSUME NEW c \in Calls, Wake(c) PROVE MapMatchesOwners'
    BY <1>5 DEF Wake
  <1>6. ASSUME NEW c \in Calls, ResumeShared(c) PROVE MapMatchesOwners'
    BY <1>6 DEF ResumeShared
  <1>7. ASSUME NEW c \in Calls, ResumeLoop(c) PROVE MapMatchesOwners'
    BY <1>7 DEF ResumeLoop, Join, Start, StartFlight
  <1>8. ASSUME NEW c \in Calls, Cancel(c) PROVE MapMatchesOwners'
    BY <1>8 DEF Cancel
  <1>9. ASSUME NEW c \in Calls, LeaveCancelled(c) PROVE MapMatchesOwners'
    BY <1>9 DEF LeaveCancelled
  <1>10. CASE UNCHANGED vars
    BY <1>10 DEF vars
  <1>11. QED
    BY <1>1, <1>2, <1>3, <1>4, <1>5, <1>6, <1>7, <1>8, <1>9, <1>10
    DEF Next, Idle

\* Every step keeps a flight's outcome and its owner's place together.
LEMMA NextOutcome == IndInv /\ [Next]_vars => OutcomeMatchesPc'
  <1> SUFFICES ASSUME IndInv, [Next]_vars PROVE OutcomeMatchesPc'
    OBVIOUS
  <1> USE DEF IndInv, TypeInv, TypeOK, KeysKnown, OutcomeMatchesPc
  <1>1. ASSUME NEW c \in Calls, NEW r \in Requests, Refuse(c, r)
        PROVE  OutcomeMatchesPc'
    BY <1>1 DEF Refuse
  <1>2. ASSUME NEW c \in Calls, NEW r \in Requests, Enter(c, r)
        PROVE  OutcomeMatchesPc'
    BY <1>2 DEF Enter, Join, Start, StartFlight
  <1>3. ASSUME NEW c \in Calls, Suspend(c) PROVE OutcomeMatchesPc'
    BY <1>3 DEF Suspend
  <1>4. ASSUME NEW c \in Calls, NEW how \in {"created", "failed", "abandoned"},
               Finish(c, how)
        PROVE  OutcomeMatchesPc'
    BY <1>4 DEF Finish
  <1>5. ASSUME NEW c \in Calls, Wake(c) PROVE OutcomeMatchesPc'
    BY <1>5 DEF Wake
  <1>6. ASSUME NEW c \in Calls, ResumeShared(c) PROVE OutcomeMatchesPc'
    BY <1>6 DEF ResumeShared
  <1>7. ASSUME NEW c \in Calls, ResumeLoop(c) PROVE OutcomeMatchesPc'
    BY <1>7 DEF ResumeLoop, Join, Start, StartFlight
  <1>8. ASSUME NEW c \in Calls, Cancel(c) PROVE OutcomeMatchesPc'
    BY <1>8 DEF Cancel
  <1>9. ASSUME NEW c \in Calls, LeaveCancelled(c) PROVE OutcomeMatchesPc'
    BY <1>9 DEF LeaveCancelled
  <1>10. CASE UNCHANGED vars
    BY <1>10 DEF vars
  <1>11. QED
    BY <1>1, <1>2, <1>3, <1>4, <1>5, <1>6, <1>7, <1>8, <1>9, <1>10
    DEF Next, Idle

\* Every step keeps each waiter with a flight it will hear from.
LEMMA NextWaiter == IndInv /\ [Next]_vars => (NoForgottenWaiter /\ ResumingMatchesWaiters)'
  <1> SUFFICES ASSUME IndInv, [Next]_vars PROVE (NoForgottenWaiter /\ ResumingMatchesWaiters)'
    OBVIOUS
  <1> USE NoneAssumption
      DEF IndInv, TypeInv, TypeOK, KeysKnown, NoForgottenWaiter, ResumingMatchesWaiters
  <1>1. ASSUME NEW c \in Calls, NEW r \in Requests, Refuse(c, r)
        PROVE  (NoForgottenWaiter /\ ResumingMatchesWaiters)'
    BY <1>1 DEF Refuse
  <1>2. ASSUME NEW c \in Calls, NEW r \in Requests, Enter(c, r)
        PROVE  (NoForgottenWaiter /\ ResumingMatchesWaiters)'
    <2>1. r.key \in Keys
      BY DEF Requests
    <2>2. CASE Join(c, r.key)
      BY <1>2, <2>1, <2>2 DEF Enter, Join, MapMatchesOwners
    <2>3. CASE Start(c, r.key)
      BY <1>2, <2>1, <2>3 DEF Enter, Start, StartFlight, MapMatchesOwners
    <2>4. QED
      BY <1>2, <2>2, <2>3 DEF Enter
  <1>3. ASSUME NEW c \in Calls, Suspend(c) PROVE (NoForgottenWaiter /\ ResumingMatchesWaiters)'
    BY <1>3 DEF Suspend
  <1>4. ASSUME NEW c \in Calls, NEW how \in {"created", "failed", "abandoned"},
               Finish(c, how)
        PROVE  (NoForgottenWaiter /\ ResumingMatchesWaiters)'
    BY <1>4 DEF Finish
  <1>5. ASSUME NEW c \in Calls, Wake(c) PROVE (NoForgottenWaiter /\ ResumingMatchesWaiters)'
    BY <1>5 DEF Wake, Waiters
  <1>6. ASSUME NEW c \in Calls, ResumeShared(c) PROVE (NoForgottenWaiter /\ ResumingMatchesWaiters)'
    BY <1>6 DEF ResumeShared
  <1>7. ASSUME NEW c \in Calls, ResumeLoop(c) PROVE (NoForgottenWaiter /\ ResumingMatchesWaiters)'
    <2>1. CASE Join(c, key[c])
      BY <1>7, <2>1 DEF ResumeLoop, Join, MapMatchesOwners
    <2>2. CASE Start(c, key[c])
      BY <1>7, <2>2 DEF ResumeLoop, Start, StartFlight, MapMatchesOwners
    <2>3. QED
      BY <1>7, <2>1, <2>2 DEF ResumeLoop
  <1>8. ASSUME NEW c \in Calls, Cancel(c) PROVE (NoForgottenWaiter /\ ResumingMatchesWaiters)'
    BY <1>8 DEF Cancel
  <1>9. ASSUME NEW c \in Calls, LeaveCancelled(c) PROVE (NoForgottenWaiter /\ ResumingMatchesWaiters)'
    BY <1>9 DEF LeaveCancelled
  <1>10. CASE UNCHANGED vars
    BY <1>10 DEF vars
  <1>11. QED
    BY <1>1, <1>2, <1>3, <1>4, <1>5, <1>6, <1>7, <1>8, <1>9, <1>10
    DEF Next, Idle

\* What calls are answered.
LEMMA NextAnswers == IndInv /\ [Next]_vars => AnswersInv'
  <1> SUFFICES ASSUME IndInv, [Next]_vars PROVE AnswersInv'
    OBVIOUS
  <1> USE NoneAssumption
      DEF IndInv, TypeInv, TypeOK, KeysKnown, OutcomeMatchesPc, AnswersInv, AnswerMatchesPc,
          ToldOfItsOwnKey, AbortIsNotShared
  <1>1. ASSUME NEW c \in Calls, NEW r \in Requests, Refuse(c, r)
        PROVE  AnswersInv'
    BY <1>1, RefusalCodes DEF Refuse, Refused
  <1>2. ASSUME NEW c \in Calls, NEW r \in Requests, Enter(c, r)
        PROVE  AnswersInv'
    BY <1>2 DEF Enter, Join, Start, StartFlight
  <1>3. ASSUME NEW c \in Calls, Suspend(c) PROVE AnswersInv'
    BY <1>3 DEF Suspend
  <1>4. ASSUME NEW c \in Calls, NEW how \in {"created", "failed", "abandoned"},
               Finish(c, how)
        PROVE  AnswersInv'
    BY <1>4 DEF Finish, Told, Cancelled
  <1>5. ASSUME NEW c \in Calls, Wake(c) PROVE AnswersInv'
    BY <1>5 DEF Wake
  <1>6. ASSUME NEW c \in Calls, ResumeShared(c) PROVE AnswersInv'
    BY <1>6 DEF ResumeShared, Told, NoForgottenWaiter
  <1>7. ASSUME NEW c \in Calls, ResumeLoop(c) PROVE AnswersInv'
    BY <1>7 DEF ResumeLoop, Join, Start, StartFlight
  <1>8. ASSUME NEW c \in Calls, Cancel(c) PROVE AnswersInv'
    BY <1>8 DEF Cancel
  <1>9. ASSUME NEW c \in Calls, LeaveCancelled(c) PROVE AnswersInv'
    BY <1>9 DEF LeaveCancelled, Cancelled
  <1>10. CASE UNCHANGED vars
    BY <1>10 DEF vars
  <1>11. QED
    BY <1>1, <1>2, <1>3, <1>4, <1>5, <1>6, <1>7, <1>8, <1>9, <1>10
    DEF Next, Idle

(***************************************************************************)
(* The invariants of every reachable state                                 *)
(***************************************************************************)
LEMMA InitInd == Init => IndInv
  <1> SUFFICES ASSUME Init PROVE IndInv
    OBVIOUS
  <1> USE NoneAssumption DEF Init, Unanswered
  <1>1. TypeInv
    BY InitType
  <1>2. MapMatchesOwners /\ OutcomeMatchesPc /\ NoForgottenWaiter
    BY DEF MapMatchesOwners, OutcomeMatchesPc, NoForgottenWaiter
  <1>3. AnswersInv /\ ResumingMatchesWaiters
    BY DEF AnswersInv, AnswerMatchesPc, ToldOfItsOwnKey, AbortIsNotShared,
           ResumingMatchesWaiters
  <1>4. QED
    BY <1>1, <1>2, <1>3 DEF IndInv

\* The inductive invariant holds in every state.
THEOREM InductiveInvariant == Spec => []IndInv
  <1>1. IndInv /\ [Next]_vars => IndInv'
    BY NextType, NextMap, NextOutcome, NextWaiter, NextAnswers DEF IndInv
  <1>2. QED
    BY InitInd, <1>1, PTL DEF Spec

\* At most one create_task of the team runs for a key at a time.
THEOREM OneCreation == Spec => []OneCreationPerKey
  <1>1. IndInv => OneCreationPerKey
    BY DEF IndInv, MapMatchesOwners, OneCreationPerKey
  <1>2. QED
    BY InductiveInvariant, <1>1, PTL

\* Nobody waits for a flight that is neither in the map nor done.
THEOREM NobodyForgotten == Spec => []NoForgottenWaiter
  <1>1. IndInv => NoForgottenWaiter
    BY DEF IndInv
  <1>2. QED
    BY InductiveInvariant, <1>1, PTL

\* A call is told only of the outcome of a creation of its own key.
THEOREM AnswersAreTrue == Spec => []ToldOfItsOwnKey
  <1>1. IndInv => ToldOfItsOwnKey
    BY DEF IndInv, AnswersInv
  <1>2. QED
    BY InductiveInvariant, <1>1, PTL

\* CancelledError ends only calls that were cancelled themselves, or whose own
\* create_task raised it.
THEOREM AbortStaysPrivate == Spec => []AbortIsNotShared
  <1>1. IndInv => AbortIsNotShared
    BY DEF IndInv, AnswersInv
  <1>2. QED
    BY InductiveInvariant, <1>1, PTL
=============================================================================
