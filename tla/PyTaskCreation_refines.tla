----------------------- MODULE PyTaskCreation_refines -----------------------
(***************************************************************************)
(* The Python SDK's merging implements MergedCreation, as the JavaScript   *)
(* SDK's does.                                                             *)
(***************************************************************************)
EXTENDS PyTaskCreation_proofs

\* The abstract specification's functions of the calls.
phases == [c \in Calls |-> Phase(c)]
answers == [c \in Calls |-> PublicAnswer(c)]

\* Both start with nothing in flight.
LEMMA InitMaps == Init => Merged!Init
  BY DEF Init, Merged!Init, Phase, PublicAnswer, Unanswered, Merged!Unanswered

\* The phase each place in the code maps to.
LEMMA PhaseOf ==
  ASSUME TypeOK, NEW c \in Calls
  PROVE  /\ phases[c] = Phase(c)
         /\ pc[c] = "new" <=> Phase(c) = "new"
         /\ pc[c] = "waiting" <=> Phase(c) = "following"
         /\ pc[c] = "answered" <=> Phase(c) = "answered"
         /\ pc[c] = "creating" <=> Phase(c) = "creating"
  BY DEF TypeOK, phases, Phase

\* What a step that moves one call, or answers it, does to them.
LEMMA MoveMaps ==
  ASSUME TypeOK, NEW c \in Calls,
         NEW p \in {"new", "waiting", "creating", "answered"},
         pc' = [pc EXCEPT ![c] = p]
  PROVE  phases' =
           [phases EXCEPT ![c] = IF p = "waiting" THEN "following" ELSE p]
  BY DEF TypeOK, phases, Phase

\* A step that answers one call.
LEMMA AnswerMaps ==
  ASSUME TypeOK, NEW c \in Calls, NEW a \in Answers,
         answer' = [answer EXCEPT ![c] = a],
         NEW b,
         b = IF a.kind \in {"FORBIDDEN", "NOT_READY", "raised"}
             THEN [kind |-> "refused", by |-> None] ELSE a
  PROVE  answers' = [answers EXCEPT ![c] = b]
  BY DEF TypeOK, answers, PublicAnswer

\* The flights of a key that the abstract specification sees running.
LEMMA RunningIsPending ==
  ASSUME IndInv, NEW k \in Keys
  PROVE  Merged!Running(k) = IF pending[k] = None THEN {} ELSE {pending[k]}
  <1> USE NoneAssumption DEF IndInv, TypeInv, TypeOK, MapMatchesOwners
  <1>1. Merged!Running(k) = {f \in Calls : pc[f] = "creating" /\ key[f] = k}
    BY PhaseOf DEF Merged!Running, phases
  <1>2. QED
    BY <1>1

\* The two ways out of the head of the loop are the abstract Begin and Follow.
LEMMA StartMaps ==
  ASSUME IndInv, NEW c \in Calls, NEW k \in Keys,
         Merged!Free(c), Merged!HasKey(c, k), Start(c, k),
         UNCHANGED <<cancelled, answer, outcome>>
  PROVE  Merged!Begin(c)
  <1>1. Merged!Running(k) = {}
    BY RunningIsPending DEF Start
  <1>2. phases' = [phases EXCEPT ![c] = "creating"] /\ UNCHANGED answers
    BY MoveMaps DEF Start, StartFlight, IndInv, TypeInv, answers, PublicAnswer
  <1>3. UNCHANGED running
    BY DEF Start, StartFlight
  <1>4. QED
    BY <1>1, <1>2, <1>3, Zenon DEF Merged!Begin, phases, answers

\* A step that joins one call to a flight.
LEMMA JoinMaps ==
  ASSUME IndInv, NEW c \in Calls, NEW k \in Keys,
         Merged!Free(c), Merged!HasKey(c, k), Join(c, k),
         UNCHANGED <<cancelled, answer, outcome>>
  PROVE  Merged!Follow(c)
  <1>1. pending[k] \in Merged!Running(k)
    BY RunningIsPending DEF Join
  <1>2. phases' = [phases EXCEPT ![c] = "following"] /\ UNCHANGED answers
    BY MoveMaps DEF Join, IndInv, TypeInv, answers, PublicAnswer
  <1>3. running' = [running EXCEPT ![c] = pending[k]]
    BY DEF Join
  <1>4. QED
    BY <1>1, <1>2, <1>3, Zenon DEF Merged!Follow, phases, answers

\* Every step is one of the abstract specification, or none.
LEMMA StepMaps == IndInv /\ [Next]_vars => [Merged!Next]_Merged!vars
  <1> SUFFICES ASSUME IndInv, [Next]_vars PROVE [Merged!Next]_Merged!vars
    OBVIOUS
  <1> USE NoneAssumption DEF IndInv, TypeInv, TypeOK, KeysKnown
  <1>1. ASSUME NEW c \in Calls, NEW r \in Requests, Refuse(c, r)
        PROVE  Merged!Refuse(c)
    BY <1>1, RefusalCodes DEF Refuse, Phase, Merged!Refuse, PublicAnswer,
       Refused, Merged!Refused
  <1>2. ASSUME NEW c \in Calls, NEW r \in Requests, Enter(c, r)
        PROVE  Merged!Begin(c) \/ Merged!Follow(c)
    <2>1. r.key \in Keys /\ pc[c] = "new"
      BY <1>2 DEF Requests, Enter
    <2>2. Merged!Free(c) /\ Merged!HasKey(c, r.key)
      BY <1>2, <2>1, PhaseOf DEF Merged!Free, Merged!HasKey, Enter, phases
    <2>3. QED
      BY <1>2, <2>1, <2>2, StartMaps, JoinMaps DEF Enter
  <1>3. ASSUME NEW c \in Calls, Suspend(c) PROVE UNCHANGED Merged!vars
    BY <1>3 DEF Suspend, Merged!vars, Phase, PublicAnswer
  <1>4. ASSUME NEW c \in Calls, NEW how \in {"created", "failed", "abandoned"},
               Finish(c, how)
        PROVE  Merged!Next
    <2>1. Merged!End(c, how)
      BY <1>4 DEF Finish, Merged!End, Phase, PublicAnswer, Told,
         Merged!Told, Cancelled, Merged!Aborted
    <2>2. QED
      BY <2>1, Zenon DEF Merged!Next
  <1>5. ASSUME NEW c \in Calls, Wake(c) PROVE UNCHANGED Merged!vars
    BY <1>5 DEF Wake, Merged!vars, Phase, PublicAnswer
  <1>6. ASSUME NEW c \in Calls, ResumeShared(c) PROVE Merged!Deliver(c)
    BY <1>6 DEF ResumeShared, Merged!Deliver, Phase, PublicAnswer, Told,
       Merged!Told
  <1>7. ASSUME NEW c \in Calls, ResumeLoop(c)
        PROVE  Merged!Begin(c) \/ Merged!Follow(c)
    <2>1. key[c] \in Keys /\ pc[c] = "waiting"
      BY <1>7 DEF ResumeLoop
    <2>2. Merged!Free(c) /\ Merged!HasKey(c, key[c])
      BY <1>7, <2>1, PhaseOf DEF ResumeLoop, Merged!Free, Merged!HasKey, phases
    <2>3. QED
      BY <1>7, <2>1, <2>2, StartMaps, JoinMaps DEF ResumeLoop
  <1>8. ASSUME NEW c \in Calls, Cancel(c) PROVE Merged!Abort(c)
    BY <1>8 DEF Cancel, Merged!Abort, Phase, PublicAnswer
  <1>9. ASSUME NEW c \in Calls, LeaveCancelled(c) PROVE Merged!Leave(c)
    BY <1>9 DEF LeaveCancelled, Merged!Leave, Phase, PublicAnswer, Cancelled,
       Merged!Aborted
  <1>10. CASE UNCHANGED vars
    BY <1>10 DEF vars, Merged!vars, Phase, PublicAnswer
  <1>11. QED
    BY <1>1, <1>2, <1>3, <1>4, <1>5, <1>6, <1>7, <1>8, <1>9, <1>10
    DEF Next, Idle, Merged!Next

\* Every behaviour of the program is a behaviour of MergedCreation.
THEOREM Implementation == Spec => ImplementsMergedCreation
  BY InitMaps, StepMaps, InductiveInvariant, PTL
  DEF Spec, ImplementsMergedCreation, Merged!Spec
=============================================================================
