----------------------- MODULE JsTaskCreation_refines -----------------------
(***************************************************************************)
(* The JavaScript SDK's merging implements MergedCreation: every step of   *)
(* the program is a step of the abstract specification or leaves its       *)
(* variables unchanged.                                                    *)
(***************************************************************************)
EXTENDS JsTaskCreation_proofs

\* Both start with nothing in flight.
LEMMA InitMaps == Init => Merged!Init
  BY DEF Init, Merged!Init, Phase, Owns, PublicAnswer, Unanswered,
         Merged!Unanswered

\* The abstract specification's functions, and what a step that moves one
\* call does to them.
phases == [c \in Calls |-> Phase(c)]
endings == [c \in Calls |-> IF pc[c] = "answered" THEN outcome[c] ELSE "none"]
answers == [c \in Calls |-> PublicAnswer(c)]

\* A step that only moves one call between phases.
LEMMA MoveMaps ==
  ASSUME TypeOK, NEW c \in Calls,
         NEW p \in {"new", "waiting", "creating", "settling", "answered"},
         pc' = [pc EXCEPT ![c] = p],
         NEW q \in {"new", "following", "creating", "answered"},
         q = CASE p = "new"                      -> "new"
               [] p = "waiting"                  -> "following"
               [] p \in {"creating", "settling"} -> "creating"
               [] p = "answered"                 -> "answered"
  PROVE  phases' = [phases EXCEPT ![c] = q]
  BY DEF TypeOK, phases, Phase, Owns

\* A step that answers one call.
LEMMA AnswerMaps ==
  ASSUME TypeOK, NEW c \in Calls, NEW a \in Answers,
         answer' = [answer EXCEPT ![c] = a],
         NEW b,
         b = IF a.kind \in {"FORBIDDEN", "NOT_READY", "raised"}
             THEN [kind |-> "refused", by |-> None] ELSE a
  PROVE  answers' = [answers EXCEPT ![c] = b]
  BY DEF TypeOK, answers, PublicAnswer

\* Only the end of a flight changes how an attempt ended.
LEMMA EndingMaps ==
  ASSUME TypeOK, OutcomeMatchesPc, UNCHANGED outcome,
         NEW c \in Calls, pc[c] \in {"new", "waiting"},
         NEW p, pc' = [pc EXCEPT ![c] = p]
  PROVE  UNCHANGED endings
  BY DEF TypeOK, OutcomeMatchesPc, endings

\* What each phase says of pc.
LEMMA PhaseOf ==
  ASSUME TypeOK, NEW c \in Calls
  PROVE  /\ phases[c] = Phase(c)
         /\ pc[c] = "new" <=> Phase(c) = "new"
         /\ pc[c] = "waiting" <=> Phase(c) = "following"
         /\ pc[c] = "answered" <=> Phase(c) = "answered"
         /\ Owns(c) <=> Phase(c) = "creating"
  BY DEF TypeOK, phases, Phase, Owns

\* The flights of a key that the abstract specification sees running.
LEMMA RunningIsPending ==
  ASSUME IndInv, NEW k \in Keys
  PROVE  Merged!Running(k) = IF pending[k] = None THEN {} ELSE {pending[k]}
  <1> USE NoneAssumption DEF IndInv, TypeInv, TypeOK, MapMatchesOwners
  <1>1. Merged!Running(k) = {f \in Calls : Owns(f) /\ key[f] = k}
    BY PhaseOf DEF Merged!Running, phases
  <1>2. QED
    BY <1>1 DEF Owns

\* The two ways out of the head of the loop are the abstract Begin and Follow.
LEMMA StartMaps ==
  ASSUME IndInv, NEW c \in Calls, NEW k \in Keys, pc[c] \in {"new", "waiting"},
         Merged!Free(c), Merged!HasKey(c, k), Start(c, k),
         UNCHANGED <<aborted, answer, outcome>>
  PROVE  Merged!Begin(c)
  <1>1. Merged!Running(k) = {}
    BY RunningIsPending DEF Start
  <1>2. pc' = [pc EXCEPT ![c] = "creating"] /\ UNCHANGED running
    BY DEF Start, StartFlight
  <1>3. phases' = [phases EXCEPT ![c] = "creating"] /\ UNCHANGED endings
    BY <1>2, MoveMaps, EndingMaps DEF IndInv, TypeInv
  <1>4. UNCHANGED answers
    BY DEF answers, PublicAnswer
  <1>5. QED
    BY <1>1, <1>2, <1>3, <1>4, Zenon DEF Merged!Begin, phases, endings, answers

\* A step that joins one call to a flight.
LEMMA JoinMaps ==
  ASSUME IndInv, NEW c \in Calls, NEW k \in Keys, pc[c] \in {"new", "waiting"},
         Merged!Free(c), Merged!HasKey(c, k), Join(c, k),
         UNCHANGED <<aborted, answer, outcome>>
  PROVE  Merged!Follow(c)
  <1>1. pending[k] \in Merged!Running(k)
    BY RunningIsPending DEF Join
  <1>2. /\ pc' = [pc EXCEPT ![c] = "waiting"]
        /\ running' = [running EXCEPT ![c] = pending[k]]
    BY DEF Join
  <1>3. phases' = [phases EXCEPT ![c] = "following"] /\ UNCHANGED endings
    BY <1>2, MoveMaps, EndingMaps DEF IndInv, TypeInv
  <1>4. UNCHANGED answers
    BY DEF answers, PublicAnswer
  <1>5. QED
    BY <1>1, <1>2, <1>3, <1>4, Zenon DEF Merged!Follow, phases, endings, answers

\* The end of a flight is a step of the abstract specification.
LEMMA EndIsNext ==
  ASSUME NEW c \in Calls, NEW how \in {"created", "failed", "abandoned"},
         Merged!End(c, how)
  PROVE  Merged!Next
  BY Zenon DEF Merged!Next

\* Every step is one of the abstract specification, or none.
LEMMA StepMaps == IndInv /\ [Next]_vars => [Merged!Next]_Merged!vars
  <1> SUFFICES ASSUME IndInv, [Next]_vars PROVE [Merged!Next]_Merged!vars
    OBVIOUS
  <1> USE NoneAssumption DEF IndInv, TypeInv, TypeOK, KeysKnown
  <1>1. ASSUME NEW c \in Calls, NEW r \in Requests, Refuse(c, r)
        PROVE  Merged!Refuse(c)
    BY <1>1, RefusalCodes DEF Phase, Owns, Refuse, OutcomeMatchesPc, Merged!Refuse, PublicAnswer, Refused,
       Merged!Refused
  <1>2. ASSUME NEW c \in Calls, NEW r \in Requests, Enter(c, r)
        PROVE  Merged!Begin(c) \/ Merged!Follow(c)
    <2>1. r.key \in Keys /\ pc[c] = "new"
      BY <1>2 DEF Requests, Enter
    <2>2. Merged!Free(c) /\ Merged!HasKey(c, r.key)
      BY <1>2, <2>1, PhaseOf DEF Merged!Free, Merged!HasKey, Enter, phases
    <2>3. QED
      BY <1>2, <2>1, <2>2, StartMaps, JoinMaps DEF Enter
  <1>3. ASSUME NEW c \in Calls,
               NEW how \in {"resolved", "malformed", "rejected"},
               TeamSettles(c, how)
        PROVE  UNCHANGED Merged!vars
    BY <1>3 DEF TeamSettles, Phase, Owns, Merged!vars, PublicAnswer
  <1>4. ASSUME NEW c \in Calls, Classify(c) PROVE UNCHANGED Merged!vars
    BY <1>4 DEF Classify, Phase, Owns, Merged!vars, PublicAnswer
  <1>5. ASSUME NEW c \in Calls,
               NEW how \in {"created", "failed", "abandoned"},
               Settle(c), outcome[c] = how
        PROVE  Merged!Next
    <2>1. Merged!End(c, how)
      BY <1>5 DEF Phase, Owns, Settle, Merged!End, PublicAnswer, OwnAnswer,
         OutcomeMatchesPc, Told, Merged!Told, AbortError, Merged!Aborted
    <2>2. QED
      BY <2>1, EndIsNext
  <1>6. ASSUME NEW c \in Calls, Wake(c) PROVE UNCHANGED Merged!vars
    BY <1>6 DEF Wake, Phase, Owns, Merged!vars, PublicAnswer
  <1>7. ASSUME NEW c \in Calls, ResumeShared(c) PROVE Merged!Deliver(c)
    <2>1. /\ pc[c] = "waiting"
          /\ running[c] \in Calls
          /\ pc[running[c]] = "answered"
      BY <1>7 DEF ResumeShared, TakeoverInv, ResumingMatchesWaiters,
         NoForgottenWaiter
    <2>2. phases' = [phases EXCEPT ![c] = "answered"] /\ UNCHANGED endings
      BY <1>7, <2>1, MoveMaps, EndingMaps DEF ResumeShared
    <2>3. Told(running[c], outcome[running[c]]) \in Answers
      BY <1>7, <2>1 DEF ResumeShared, Told, Answers
    <2>4. answers' =
            [answers EXCEPT ![c] = Told(running[c], outcome[running[c]])]
      BY <1>7, <2>3, AnswerMaps DEF ResumeShared, Told
    <2>5. QED
      BY <1>7, <2>1, <2>2, <2>4, PhaseOf
      DEF ResumeShared, Merged!Deliver, Told, Merged!Told, phases, endings,
          answers
  <1>8. ASSUME NEW c \in Calls, ResumeAborted(c) PROVE Merged!Leave(c)
    <2>1. pc[c] = "waiting"
      BY <1>8 DEF ResumeAborted
    <2>2. phases' = [phases EXCEPT ![c] = "answered"] /\ UNCHANGED endings
      BY <1>8, <2>1, MoveMaps, EndingMaps DEF ResumeAborted
    <2>3. AbortError \in Answers
      BY DEF AbortError, Answers
    <2>4. answers' = [answers EXCEPT ![c] = AbortError]
      BY <1>8, <2>3, AnswerMaps DEF ResumeAborted, AbortError
    <2>5. QED
      BY <1>8, <2>1, <2>2, <2>4, PhaseOf
      DEF ResumeAborted, Merged!Leave, AbortError, Merged!Aborted, phases,
          endings, answers
  <1>9. ASSUME NEW c \in Calls, ResumeLoop(c)
        PROVE  Merged!Begin(c) \/ Merged!Follow(c)
    <2>1. key[c] \in Keys /\ pc[c] = "waiting"
      BY <1>9 DEF ResumeLoop
    <2>2. Merged!Free(c) /\ Merged!HasKey(c, key[c])
      BY <1>9, <2>1, PhaseOf
      DEF ResumeLoop, TakeoverInv, ResumingMatchesWaiters, NoForgottenWaiter,
          Merged!Free, Merged!HasKey, phases
    <2>3. QED
      BY <1>9, <2>1, <2>2, StartMaps, JoinMaps DEF ResumeLoop
  <1>10. ASSUME NEW c \in Calls, Abort(c) PROVE Merged!Abort(c)
    BY <1>10 DEF Abort, Phase, Owns, Merged!Abort, PublicAnswer
  <1>11. CASE UNCHANGED vars
    BY <1>11 DEF vars, Phase, Owns, Merged!vars, PublicAnswer
  <1>12. QED
    <2>1. ASSUME NEW c \in Calls, Settle(c) PROVE Merged!Next
      <3>1. outcome[c] \in {"created", "failed", "abandoned"}
        BY <2>1 DEF Settle, OutcomeMatchesPc
      <3>2. QED
        BY <2>1, <1>5, <3>1
    <2>2. QED
      BY <1>1, <1>2, <1>3, <1>4, <2>1, <1>6, <1>7, <1>8, <1>9, <1>10, <1>11
      DEF Next, Idle, Merged!Next

\* Every behaviour of the program is a behaviour of MergedCreation.
THEOREM Implementation == Spec => ImplementsMergedCreation
  BY InitMaps, StepMaps, InductiveInvariant, PTL
  DEF Spec, ImplementsMergedCreation, Merged!Spec
=============================================================================
