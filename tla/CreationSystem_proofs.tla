----------------------- MODULE CreationSystem_proofs -----------------------
(***************************************************************************)
(* Proofs about CreationSystem: the types, the invariant that relates the  *)
(* server's map, the department's writes and the tracker, the safety       *)
(* properties it implies, and the implementation of IdempotentCreation,    *)
(* for any number of calls, keys and crashes.                              *)
(***************************************************************************)
EXTENDS CreationSystem, TLAPS

Pcs == {"new", "waiting", "creating", "settling", "answered"}
Promises == {"none", "running", "resolved", "malformed", "rejected"}
Outcomes == {"none", "created", "failed", "abandoned"}

\* TypeOK but for a lost call's answer, and the department's variables.
SysTypes ==
  /\ pc \in [Calls -> Pcs]
  /\ key \in [Calls -> Keys \cup {None}]
  /\ aborted \subseteq Calls
  /\ pending \in [Keys -> Calls \cup {None}]
  /\ running \in [Calls -> Calls \cup {None}]
  /\ team \in [Calls -> Promises]
  /\ outcome \in [Calls -> Outcomes]
  /\ resuming \subseteq Calls
  /\ SysTypeOK

\* A call has its key from the moment it arrives.  The department is asked by
\* calls that have arrived, and what it does it does for those.
Arrived ==
  /\ \A c \in Calls : IF pc[c] = "new" THEN key[c] = None ELSE key[c] \in Keys
  /\ \A c \in asked : pc[c] # "new"
  /\ \A c \in resuming : pc[c] = "waiting"
  /\ \A c \in Calls : pc[c] = "waiting" =>
       running[c] \in Calls /\ pc[running[c]] # "new" /\ key[running[c]] = key[c]
  /\ tasks \subseteq asked

\* The map holds exactly the flights that are under way, each under its key,
\* and createTask runs for those only.
MapMatchesOwners ==
  /\ \A c \in Calls : Owns(c) => pending[key[c]] = c
  /\ \A k \in Keys : pending[k] # None =>
       pending[k] \in Calls /\ Owns(pending[k]) /\ key[pending[k]] = k
  /\ \A c \in Calls : team[c] = "running" => pc[c] = "creating"

\* The task a createTask has in hand is in the tracker under its call's key,
\* and is what every success rests on.
FoundBacksSuccess ==
  /\ \A c \in Calls : found[c] # None => c \in asked /\ found[c] \in Existing(key[c])
  /\ \A c \in wire : found[c] = None
  /\ \A c \in Calls :
       team[c] = "resolved" \/ outcome[c] = "created" => found[c] # None
  /\ \A c \in Calls : pc[c] # "answered" => answer[c].kind = "none"
  /\ \A c \in Calls : answer[c].kind = "created" =>
       LET f == answer[c].by IN
         f \in Calls /\ found[f] # None /\ key[f] = key[c]

\* A department that searches, then creates, has writes on their way only for
\* calls that still hold their key, which nobody has created a task for.
WritersHold ==
  ~scenario.unique =>
    \A c \in wire : team[c] = "running" /\ Existing(key[c]) = {}

SysInv ==
  /\ SysTypes
  /\ Arrived
  /\ MapMatchesOwners
  /\ FoundBacksSuccess
  /\ WritersHold
  /\ OneTaskPerKey

(***************************************************************************)
(* Types                                                                   *)
(***************************************************************************)
\* A request that passes the gates carries a key.
LEMMA GoodKey == \A r \in GoodRequests : r.key \in Keys /\ Refusal(r) = "none"
  BY DEF GoodRequests, Requests, Refusal

LEMMA InitTypes == SysInit => SysTypes
  <1> SUFFICES ASSUME SysInit PROVE SysTypes
    OBVIOUS
  <1>1. crashes \in 0..scenario.crashes
    BY ScenarioAssumption DEF SysInit, ScenarioType
  <1>2. QED
    BY <1>1 DEF SysInit, Init, SysTypes, SysTypeOK, Answers, Unanswered, Pcs,
       Promises, Outcomes

\* Every step keeps the types.
LEMMA NextTypes == SysInv /\ [SysNext]_sysVars => SysTypes'
  <1> SUFFICES ASSUME SysInv, [SysNext]_sysVars PROVE SysTypes'
    OBVIOUS
  <1> USE DEF SysInv, SysTypes, SysTypeOK, Pcs, Promises, Outcomes
  <1>1. ASSUME NEW c \in Calls, NEW r \in GoodRequests, Enter(c, r),
               UNCHANGED storeVars
        PROVE  SysTypes'
    BY <1>1, GoodKey DEF Enter, Join, Start, StartFlight, storeVars
  <1>2. ASSUME NEW c \in Calls, Classify(c), UNCHANGED storeVars PROVE SysTypes'
    BY <1>2 DEF Classify, OutcomeOf, storeVars
  <1>3. ASSUME NEW c \in Calls, Settle(c), UNCHANGED storeVars PROVE SysTypes'
    <2>1. OwnAnswer(c) \in Answers
      BY DEF OwnAnswer, Told, AbortError, Answers
    <2>2. QED
      BY <1>3, <2>1 DEF Settle, storeVars
  <1>4. ASSUME NEW c \in Calls, Wake(c), UNCHANGED storeVars PROVE SysTypes'
    BY <1>4 DEF Wake, Waiters, storeVars
  <1>5. ASSUME NEW c \in Calls, ResumeShared(c), UNCHANGED storeVars
        PROVE  SysTypes'
    BY <1>5 DEF ResumeShared, Told, Answers, storeVars
  <1>6. ASSUME NEW c \in Calls, ResumeAborted(c), UNCHANGED storeVars
        PROVE  SysTypes'
    BY <1>6 DEF ResumeAborted, AbortError, Answers, storeVars
  <1>7. ASSUME NEW c \in Calls, ResumeLoop(c), UNCHANGED storeVars
        PROVE  SysTypes'
    BY <1>7 DEF ResumeLoop, Join, Start, StartFlight, Arrived, storeVars
  <1>8. ASSUME NEW c \in Calls, Abort(c), UNCHANGED storeVars PROVE SysTypes'
    BY <1>8 DEF Abort, storeVars
  <1>9. ASSUME NEW c \in Calls, Recognise(c) PROVE SysTypes'
    BY <1>9 DEF Recognise, Existing, vars
  <1>10. ASSUME NEW c \in Calls, Land(c) PROVE SysTypes'
    BY <1>10 DEF Land, Existing, vars
  <1>11. ASSUME NEW c \in Calls, Drop(c) PROVE SysTypes'
    BY <1>11 DEF Drop, vars
  <1>12. ASSUME NEW c \in Calls, Resolve(c) PROVE SysTypes'
    BY <1>12 DEF Resolve, TeamSettles, storeVars
  <1>13. ASSUME NEW c \in Calls, Reject(c) PROVE SysTypes'
    BY <1>13 DEF Reject, TeamSettles, storeVars
  <1>14. ASSUME Crash PROVE SysTypes'
    <2>1. scenario.crashes \in Nat
      BY ScenarioAssumption DEF ScenarioType
    <2>2. crashes' \in 0..scenario'.crashes
      BY <1>14, <2>1 DEF Crash
    <2>3. QED
      BY <1>14, <2>2 DEF Crash
  <1>15. CASE UNCHANGED sysVars
    BY <1>15 DEF sysVars, storeVars, vars
  <1>16. QED
    BY <1>1, <1>2, <1>3, <1>4, <1>5, <1>6, <1>7, <1>8, <1>9, <1>10, <1>11,
       <1>12,
       <1>13, <1>14, <1>15
    DEF SysNext, ServerStep, SysIdle

(***************************************************************************)
(* One lemma per part of the invariant                                     *)
(***************************************************************************)
\* Every step keeps what is known of the calls that have arrived.
LEMMA NextArrived == SysInv /\ [SysNext]_sysVars => Arrived'
  <1> SUFFICES ASSUME SysInv, [SysNext]_sysVars PROVE Arrived'
    OBVIOUS
  <1> USE DEF SysInv, SysTypes, SysTypeOK, Pcs, Promises, Arrived
  <1>1. ASSUME NEW c \in Calls, NEW r \in GoodRequests, Enter(c, r),
               UNCHANGED storeVars
        PROVE  Arrived'
    BY <1>1, GoodKey, NoneAssumption DEF Enter, Join, Start, StartFlight,
       MapMatchesOwners, Owns, storeVars
  <1>2. ASSUME NEW c \in Calls, Classify(c), UNCHANGED storeVars PROVE Arrived'
    BY <1>2 DEF Classify, storeVars
  <1>3. ASSUME NEW c \in Calls, Settle(c), UNCHANGED storeVars PROVE Arrived'
    BY <1>3 DEF Settle, storeVars
  <1>4. ASSUME NEW c \in Calls, Wake(c), UNCHANGED storeVars PROVE Arrived'
    BY <1>4 DEF Wake, Waiters, storeVars
  <1>5. ASSUME NEW c \in Calls, ResumeShared(c), UNCHANGED storeVars
        PROVE  Arrived'
    BY <1>5 DEF ResumeShared, storeVars
  <1>6. ASSUME NEW c \in Calls, ResumeAborted(c), UNCHANGED storeVars
        PROVE  Arrived'
    BY <1>6 DEF ResumeAborted, storeVars
  <1>7. ASSUME NEW c \in Calls, ResumeLoop(c), UNCHANGED storeVars
        PROVE  Arrived'
    BY <1>7, NoneAssumption DEF ResumeLoop, Join, Start, StartFlight,
       MapMatchesOwners, Owns, storeVars
  <1>8. ASSUME NEW c \in Calls, Abort(c), UNCHANGED storeVars PROVE Arrived'
    BY <1>8 DEF Abort, storeVars
  <1>9. ASSUME NEW c \in Calls, Recognise(c) PROVE Arrived'
    BY <1>9 DEF Recognise, MapMatchesOwners, vars
  <1>10. ASSUME NEW c \in Calls, Land(c) PROVE Arrived'
    BY <1>10 DEF Land, vars
  <1>11. ASSUME NEW c \in Calls, Drop(c) PROVE Arrived'
    BY <1>11 DEF Drop, vars
  <1>12. ASSUME NEW c \in Calls, Resolve(c) PROVE Arrived'
    BY <1>12 DEF Resolve, TeamSettles, storeVars
  <1>13. ASSUME NEW c \in Calls, Reject(c) PROVE Arrived'
    BY <1>13 DEF Reject, TeamSettles, storeVars
  <1>14. ASSUME Crash PROVE Arrived'
    BY <1>14 DEF Crash, Held
  <1>15. CASE UNCHANGED sysVars
    BY <1>15 DEF sysVars, storeVars, vars
  <1>16. QED
    BY <1>1, <1>2, <1>3, <1>4, <1>5, <1>6, <1>7, <1>8, <1>9, <1>10, <1>11,
       <1>12,
       <1>13, <1>14, <1>15
    DEF SysNext, ServerStep, SysIdle

\* Every step keeps the map and the owners together.
LEMMA NextMap == SysInv /\ [SysNext]_sysVars => MapMatchesOwners'
  <1> SUFFICES ASSUME SysInv, [SysNext]_sysVars PROVE MapMatchesOwners'
    OBVIOUS
  <1> USE NoneAssumption DEF SysInv, SysTypes, SysTypeOK, Pcs, Promises,
          Arrived, MapMatchesOwners, Owns
  <1>1. ASSUME NEW c \in Calls, NEW r \in GoodRequests, Enter(c, r),
               UNCHANGED storeVars
        PROVE  MapMatchesOwners'
    BY <1>1, GoodKey DEF Enter, Join, Start, StartFlight, storeVars
  <1>2. ASSUME NEW c \in Calls, Classify(c), UNCHANGED storeVars
        PROVE  MapMatchesOwners'
    BY <1>2 DEF Classify, storeVars
  <1>3. ASSUME NEW c \in Calls, Settle(c), UNCHANGED storeVars
        PROVE  MapMatchesOwners'
    BY <1>3 DEF Settle, storeVars
  <1>4. ASSUME NEW c \in Calls, Wake(c), UNCHANGED storeVars
        PROVE  MapMatchesOwners'
    BY <1>4 DEF Wake, storeVars
  <1>5. ASSUME NEW c \in Calls, ResumeShared(c), UNCHANGED storeVars
        PROVE  MapMatchesOwners'
    BY <1>5 DEF ResumeShared, storeVars
  <1>6. ASSUME NEW c \in Calls, ResumeAborted(c), UNCHANGED storeVars
        PROVE  MapMatchesOwners'
    BY <1>6 DEF ResumeAborted, storeVars
  <1>7. ASSUME NEW c \in Calls, ResumeLoop(c), UNCHANGED storeVars
        PROVE  MapMatchesOwners'
    BY <1>7 DEF ResumeLoop, Join, Start, StartFlight, storeVars
  <1>8. ASSUME NEW c \in Calls, Abort(c), UNCHANGED storeVars
        PROVE  MapMatchesOwners'
    BY <1>8 DEF Abort, storeVars
  <1>9. ASSUME NEW c \in Calls, Recognise(c) PROVE MapMatchesOwners'
    BY <1>9 DEF Recognise, vars
  <1>10. ASSUME NEW c \in Calls, Land(c) PROVE MapMatchesOwners'
    BY <1>10 DEF Land, vars
  <1>11. ASSUME NEW c \in Calls, Drop(c) PROVE MapMatchesOwners'
    BY <1>11 DEF Drop, vars
  <1>12. ASSUME NEW c \in Calls, Resolve(c) PROVE MapMatchesOwners'
    BY <1>12 DEF Resolve, TeamSettles, storeVars
  <1>13. ASSUME NEW c \in Calls, Reject(c) PROVE MapMatchesOwners'
    BY <1>13 DEF Reject, TeamSettles, storeVars
  <1>14. ASSUME Crash PROVE MapMatchesOwners'
    BY <1>14 DEF Crash, Held
  <1>15. CASE UNCHANGED sysVars
    BY <1>15 DEF sysVars, storeVars, vars
  <1>16. QED
    BY <1>1, <1>2, <1>3, <1>4, <1>5, <1>6, <1>7, <1>8, <1>9, <1>10, <1>11,
       <1>12,
       <1>13, <1>14, <1>15
    DEF SysNext, ServerStep, SysIdle

\* Every step keeps the tasks in hand in the tracker, and a success backed.
LEMMA NextFound == SysInv /\ [SysNext]_sysVars => FoundBacksSuccess'
  <1> SUFFICES ASSUME SysInv, [SysNext]_sysVars PROVE FoundBacksSuccess'
    OBVIOUS
  <1> USE NoneAssumption DEF SysInv, SysTypes, SysTypeOK, Pcs, Promises,
          FoundBacksSuccess, Existing
  <1>1. ASSUME NEW c \in Calls, NEW r \in GoodRequests, Enter(c, r),
               UNCHANGED storeVars
        PROVE  FoundBacksSuccess'
    BY <1>1, GoodKey DEF Enter, Join, Start, StartFlight, storeVars, Arrived
  <1>2. ASSUME NEW c \in Calls, Classify(c), UNCHANGED storeVars
        PROVE  FoundBacksSuccess'
    BY <1>2 DEF Classify, OutcomeOf, storeVars
  <1>3. ASSUME NEW c \in Calls, Settle(c), UNCHANGED storeVars
        PROVE  FoundBacksSuccess'
    BY <1>3 DEF Settle, OwnAnswer, AbortError, Told, storeVars
  <1>4. ASSUME NEW c \in Calls, Wake(c), UNCHANGED storeVars
        PROVE  FoundBacksSuccess'
    BY <1>4 DEF Wake, storeVars
  <1>5. ASSUME NEW c \in Calls, ResumeShared(c), UNCHANGED storeVars
        PROVE  FoundBacksSuccess'
    BY <1>5 DEF ResumeShared, Arrived, Told, storeVars
  <1>6. ASSUME NEW c \in Calls, ResumeAborted(c), UNCHANGED storeVars
        PROVE  FoundBacksSuccess'
    BY <1>6 DEF ResumeAborted, AbortError, storeVars
  <1>7. ASSUME NEW c \in Calls, ResumeLoop(c), UNCHANGED storeVars
        PROVE  FoundBacksSuccess'
    BY <1>7 DEF ResumeLoop, Join, Start, StartFlight, Arrived, storeVars
  <1>8. ASSUME NEW c \in Calls, Abort(c), UNCHANGED storeVars
        PROVE  FoundBacksSuccess'
    BY <1>8 DEF Abort, storeVars
  <1>9. ASSUME NEW c \in Calls, Recognise(c) PROVE FoundBacksSuccess'
    BY <1>9 DEF Recognise, vars
  <1>10. ASSUME NEW c \in Calls, Land(c) PROVE FoundBacksSuccess'
    BY <1>10 DEF Land, Arrived, vars
  <1>11. ASSUME NEW c \in Calls, Drop(c) PROVE FoundBacksSuccess'
    BY <1>11 DEF Drop, vars
  <1>12. ASSUME NEW c \in Calls, Resolve(c) PROVE FoundBacksSuccess'
    BY <1>12 DEF Resolve, TeamSettles, storeVars
  <1>13. ASSUME NEW c \in Calls, Reject(c) PROVE FoundBacksSuccess'
    BY <1>13 DEF Reject, TeamSettles, storeVars
  <1>14. ASSUME Crash PROVE FoundBacksSuccess'
    BY <1>14 DEF Crash, Held, Lost
  <1>15. CASE UNCHANGED sysVars
    BY <1>15 DEF sysVars, storeVars, vars
  <1>16. QED
    BY <1>1, <1>2, <1>3, <1>4, <1>5, <1>6, <1>7, <1>8, <1>9, <1>10, <1>11,
       <1>12,
       <1>13, <1>14, <1>15
    DEF SysNext, ServerStep, SysIdle

\* Every step keeps the writers of a department that searches in place.
LEMMA NextWriters == SysInv /\ [SysNext]_sysVars => WritersHold'
  <1> SUFFICES ASSUME SysInv, [SysNext]_sysVars PROVE WritersHold'
    OBVIOUS
  <1> USE ScenarioAssumption DEF SysInv, SysTypes, SysTypeOK, Pcs, Promises,
          Arrived, WritersHold, Existing
  <1>1. ASSUME NEW c \in Calls, NEW r \in GoodRequests, Enter(c, r),
               UNCHANGED storeVars
        PROVE  WritersHold'
    BY <1>1, GoodKey DEF Enter, Join, Start, StartFlight, storeVars
  <1>2. ASSUME NEW c \in Calls, Classify(c), UNCHANGED storeVars
        PROVE  WritersHold'
    BY <1>2 DEF Classify, storeVars
  <1>3. ASSUME NEW c \in Calls, Settle(c), UNCHANGED storeVars
        PROVE  WritersHold'
    BY <1>3 DEF Settle, storeVars
  <1>4. ASSUME NEW c \in Calls, Wake(c), UNCHANGED storeVars PROVE WritersHold'
    BY <1>4 DEF Wake, storeVars
  <1>5. ASSUME NEW c \in Calls, ResumeShared(c), UNCHANGED storeVars
        PROVE  WritersHold'
    BY <1>5 DEF ResumeShared, storeVars
  <1>6. ASSUME NEW c \in Calls, ResumeAborted(c), UNCHANGED storeVars
        PROVE  WritersHold'
    BY <1>6 DEF ResumeAborted, storeVars
  <1>7. ASSUME NEW c \in Calls, ResumeLoop(c), UNCHANGED storeVars
        PROVE  WritersHold'
    BY <1>7 DEF ResumeLoop, Join, Start, StartFlight, storeVars
  <1>8. ASSUME NEW c \in Calls, Abort(c), UNCHANGED storeVars PROVE WritersHold'
    BY <1>8 DEF Abort, storeVars
  <1>9. ASSUME NEW c \in Calls, Recognise(c) PROVE WritersHold'
    BY <1>9 DEF Recognise, vars
  <1>10. ASSUME NEW c \in Calls, Land(c) PROVE WritersHold'
    <2> SUFFICES ASSUME ~scenario.unique, NEW d \in wire, d # c
                 PROVE  team[d] = "running" /\ Existing(key[d])' = {}
      BY <1>10 DEF Land, vars
    <2>1. Owns(c) /\ Owns(d)
      BY <1>10 DEF Land, MapMatchesOwners, Owns
    <2>2. key[c] # key[d]
      BY <1>10, <2>1 DEF Land, MapMatchesOwners
    <2>3. QED
      BY <1>10, <2>2 DEF Land, vars
  <1>11. ASSUME NEW c \in Calls, Drop(c) PROVE WritersHold'
    BY <1>11 DEF Drop, vars
  <1>12. ASSUME NEW c \in Calls, Resolve(c) PROVE WritersHold'
    BY <1>12 DEF Resolve, TeamSettles, FoundBacksSuccess, storeVars
  <1>13. ASSUME NEW c \in Calls, Reject(c) PROVE WritersHold'
    BY <1>13 DEF Reject, TeamSettles, storeVars
  <1>14. ASSUME Crash PROVE WritersHold'
    BY <1>14 DEF Crash, Held
  <1>15. CASE UNCHANGED sysVars
    BY <1>15 DEF sysVars, storeVars, vars
  <1>16. QED
    BY <1>1, <1>2, <1>3, <1>4, <1>5, <1>6, <1>7, <1>8, <1>9, <1>10, <1>11,
       <1>12,
       <1>13, <1>14, <1>15
    DEF SysNext, ServerStep, SysIdle

\* Every step keeps one task for a key.
LEMMA NextOneTask == SysInv /\ [SysNext]_sysVars => OneTaskPerKey'
  <1> SUFFICES ASSUME SysInv, [SysNext]_sysVars PROVE OneTaskPerKey'
    OBVIOUS
  <1> USE DEF SysInv, SysTypes, SysTypeOK, Pcs, Promises, Arrived,
          OneTaskPerKey, Existing
  <1>1. ASSUME NEW c \in Calls, NEW r \in GoodRequests, Enter(c, r),
               UNCHANGED storeVars
        PROVE  OneTaskPerKey'
    BY <1>1, GoodKey DEF Enter, Join, Start, StartFlight, storeVars
  <1>2. ASSUME NEW c \in Calls, Classify(c), UNCHANGED storeVars
        PROVE  OneTaskPerKey'
    BY <1>2 DEF Classify, storeVars
  <1>3. ASSUME NEW c \in Calls, Settle(c), UNCHANGED storeVars
        PROVE  OneTaskPerKey'
    BY <1>3 DEF Settle, storeVars
  <1>4. ASSUME NEW c \in Calls, Wake(c), UNCHANGED storeVars
        PROVE  OneTaskPerKey'
    BY <1>4 DEF Wake, storeVars
  <1>5. ASSUME NEW c \in Calls, ResumeShared(c), UNCHANGED storeVars
        PROVE  OneTaskPerKey'
    BY <1>5 DEF ResumeShared, storeVars
  <1>6. ASSUME NEW c \in Calls, ResumeAborted(c), UNCHANGED storeVars
        PROVE  OneTaskPerKey'
    BY <1>6 DEF ResumeAborted, storeVars
  <1>7. ASSUME NEW c \in Calls, ResumeLoop(c), UNCHANGED storeVars
        PROVE  OneTaskPerKey'
    BY <1>7 DEF ResumeLoop, Join, Start, StartFlight, storeVars
  <1>8. ASSUME NEW c \in Calls, Abort(c), UNCHANGED storeVars
        PROVE  OneTaskPerKey'
    BY <1>8 DEF Abort, storeVars
  <1>9. ASSUME NEW c \in Calls, Recognise(c) PROVE OneTaskPerKey'
    BY <1>9 DEF Recognise, vars
  <1>10. ASSUME NEW c \in Calls, Land(c) PROVE OneTaskPerKey'
    BY <1>10 DEF Land, WritersHold, vars
  <1>11. ASSUME NEW c \in Calls, Drop(c) PROVE OneTaskPerKey'
    BY <1>11 DEF Drop, vars
  <1>12. ASSUME NEW c \in Calls, Resolve(c) PROVE OneTaskPerKey'
    BY <1>12 DEF Resolve, TeamSettles, storeVars
  <1>13. ASSUME NEW c \in Calls, Reject(c) PROVE OneTaskPerKey'
    BY <1>13 DEF Reject, TeamSettles, storeVars
  <1>14. ASSUME Crash PROVE OneTaskPerKey'
    BY <1>14 DEF Crash
  <1>15. CASE UNCHANGED sysVars
    BY <1>15 DEF sysVars, storeVars, vars
  <1>16. QED
    BY <1>1, <1>2, <1>3, <1>4, <1>5, <1>6, <1>7, <1>8, <1>9, <1>10, <1>11,
       <1>12,
       <1>13, <1>14, <1>15
    DEF SysNext, ServerStep, SysIdle

(***************************************************************************)
(* The invariant, and the safety properties it implies                     *)
(***************************************************************************)
LEMMA InitSysInv == SysInit => SysInv
  <1> SUFFICES ASSUME SysInit PROVE SysInv
    OBVIOUS
  <1> USE DEF SysInit, Init
  <1>1. SysTypes
    BY InitTypes
  <1>2. Arrived
    BY DEF Arrived
  <1>3. MapMatchesOwners
    BY DEF MapMatchesOwners, Owns
  <1>4. FoundBacksSuccess
    BY DEF FoundBacksSuccess, Unanswered
  <1>5. WritersHold /\ OneTaskPerKey
    BY DEF WritersHold, OneTaskPerKey
  <1>6. QED
    BY <1>1, <1>2, <1>3, <1>4, <1>5 DEF SysInv

LEMMA NextSysInv == SysInv /\ [SysNext]_sysVars => SysInv'
  BY NextTypes, NextArrived, NextMap, NextFound, NextWriters, NextOneTask
  DEF SysInv

LEMMA SysInvHolds == SysSpec => []SysInv
  BY InitSysInv, NextSysInv, PTL DEF SysSpec

\* A success names the task of its key that is in the tracker.
LEMMA SuccessNamesTheTask ==
  ASSUME SysInv, NEW c \in Calls, answer[c].kind = "created"
  PROVE  /\ answer[c].by \in Calls
         /\ found[answer[c].by] # None
         /\ found[answer[c].by] \in Existing(key[c])
         /\ ToldTasks(c) = Existing(key[c])
  <1> DEFINE f == answer[c].by
  <1>1. f \in Calls /\ found[f] # None /\ key[f] = key[c]
    BY DEF SysInv, FoundBacksSuccess
  <1>2. found[f] \in Existing(key[c])
    BY <1>1 DEF SysInv, FoundBacksSuccess
  <1>3. Existing(key[c]) = {found[f]}
    BY <1>2 DEF SysInv, OneTaskPerKey, Existing
  <1>4. QED
    BY <1>1, <1>2, <1>3 DEF ToldTasks

\* Every call told of success is told of exactly the tasks of its key.
SuccessNamed ==
  \A c \in Calls : answer[c].kind = "created" =>
    ToldTasks(c) = Existing(key[c]) /\ Existing(key[c]) # {}

LEMMA SuccessNamedNext == SysInv' => SuccessNamed'
  <1>1. SysInv => SuccessNamed
    BY SuccessNamesTheTask DEF SuccessNamed
  <1>2. QED
    BY <1>1, PTL

\* Two successes of one key are told of one task.
LEMMA SuccessesAgreeFromInv == SysInv => SuccessesAgree
  <1> SUFFICES ASSUME SysInv, NEW c \in Calls, NEW d \in Calls,
                      answer[c].kind = "created", answer[d].kind = "created",
                      key[c] = key[d]
               PROVE  /\ found[answer[c].by] \in Existing(key[c])
                      /\ found[answer[c].by] = found[answer[d].by]
    BY DEF SuccessesAgree
  <1>1. /\ found[answer[c].by] \in Existing(key[c])
        /\ found[answer[d].by] \in Existing(key[d])
    BY SuccessNamesTheTask
  <1>2. QED
    BY <1>1 DEF SysInv, OneTaskPerKey, Existing

\* Two calls whose createTask runs for one key are one call.
LEMMA WriterHoldsFromInv == SysInv => WriterHoldsTheKey
  <1> SUFFICES ASSUME SysInv, ~scenario.unique, NEW c \in wire, NEW d \in Calls,
                      team[d] = "running", key[d] = key[c]
               PROVE  d = c
    BY DEF WriterHoldsTheKey
  <1>1. c \in Calls /\ team[c] = "running"
    BY DEF SysInv, SysTypes, SysTypeOK, WritersHold
  <1>2. Owns(c) /\ Owns(d)
    BY <1>1 DEF SysInv, MapMatchesOwners, Owns
  <1>3. QED
    BY <1>1, <1>2 DEF SysInv, MapMatchesOwners

\* The department's variables and every answer stay in their sets.
THEOREM SysTypeCorrect == SysSpec => []SysTypeOK
  BY SysInvHolds, PTL DEF SysInv, SysTypes

\* At most one task is ever created for a key, whatever was repeated, aborted,
\* taken over, written late or cut off by a crash: either because the tracker
\* keeps keys unique or because createTask searches and finishes what it sent.
THEOREM OneTask == SysSpec => []OneTaskPerKey
  BY SysInvHolds, PTL DEF SysInv

\* Every call for a key that is told of a task is told of the one in the tracker.
THEOREM AgreedSuccess == SysSpec => []SuccessesAgree
  BY SysInvHolds, SuccessesAgreeFromInv, PTL

\* While a department that searches has a write on its way, only the call that
\* sent it runs createTask for that key.
THEOREM WriterHolds == SysSpec => []WriterHoldsTheKey
  BY SysInvHolds, WriterHoldsFromInv, PTL

\* Between two crashes the process is JsTaskCreation: whatever the host and the
\* department do, it takes no other step than that module's.
THEOREM ProcessIsJsTaskCreation == SysSpec => Init /\ [][Next \/ Crash]_vars
  <1>1. ASSUME [SysNext]_sysVars PROVE [Next \/ Crash]_vars
    <2>1. ASSUME NEW c \in Calls, ServerStep(c) PROVE Next
      BY <2>1 DEF ServerStep, GoodRequests, Next
    <2>2. ASSUME NEW c \in Calls, Resolve(c) \/ Reject(c) PROVE Next
      BY <2>2 DEF Resolve, Reject, Next
    <2>3. ASSUME NEW c \in Calls, Recognise(c) \/ Land(c) \/ Drop(c)
          PROVE  UNCHANGED vars
      BY <2>3 DEF Recognise, Land, Drop
    <2>4. CASE SysIdle \/ UNCHANGED sysVars
      BY <2>4 DEF SysIdle, sysVars
    <2>5. QED
      BY <1>1, <2>1, <2>2, <2>3, <2>4 DEF SysNext
  <1>2. SysInit => Init
    BY DEF SysInit
  <1>3. QED
    BY <1>1, <1>2, PTL DEF SysSpec

(***************************************************************************)
(* The system implements IdempotentCreation: an arrival is an Ask, a write *)
(* that lands a Create, an answer of success a Tell, and every other step, *)
(* a crash included, a stutter.                                            *)
(***************************************************************************)
LEMMA InitImplements == SysInit => Idempotent!Init
  BY DEF SysInit, Init, Idempotent!Init, Existing, ToldTasks, Unanswered

\* A task in hand stays in hand, so what was told does not change.
LEMMA ToldStays ==
  ASSUME SysInv, [SysNext]_sysVars, NEW c \in Calls,
         "created" \in {answer[c].kind, answer'[c].kind} => answer'[c] = answer[c]
  PROVE  ToldTasks(c)' = ToldTasks(c)
  <1>1. \A f \in Calls : found[f] # None => found'[f] = found[f]
    <2> USE DEF SysInv, SysTypes, SysTypeOK
    <2>1. ASSUME NEW d \in Calls, Recognise(d)
          PROVE  \A f \in Calls : found[f] # None => found'[f] = found[f]
      BY <2>1 DEF Recognise, FoundBacksSuccess
    <2>2. ASSUME NEW d \in Calls, Land(d)
          PROVE  \A f \in Calls : found[f] # None => found'[f] = found[f]
      BY <2>2 DEF Land, FoundBacksSuccess
    <2>3. CASE UNCHANGED found
      BY <2>3
    <2>4. QED
      BY <2>1, <2>2, <2>3
      DEF SysNext, ServerStep, Drop, Resolve, Reject, Crash, SysIdle, storeVars,
          sysVars
  <1>2. CASE answer[c].kind = "created"
    <2>1. answer[c].by \in Calls /\ found[answer[c].by] # None
      BY <1>2, SuccessNamesTheTask
    <2>2. QED
      BY <1>1, <1>2, <2>1 DEF ToldTasks
  <1>3. CASE answer[c].kind # "created"
    BY <1>3 DEF ToldTasks
  <1>4. QED
    BY <1>2, <1>3

\* The steps that leave keys, answers and tasks alone are stutters.
LEMMA Stutter ==
  ASSUME SysInv, [SysNext]_sysVars, UNCHANGED <<key, answer, tasks>>
  PROVE  UNCHANGED Idempotent!vars
  <1>1. \A c \in Calls : ToldTasks(c)' = ToldTasks(c)
    BY ToldStays
  <1>2. \A k \in Keys : Existing(k)' = Existing(k)
    BY DEF Existing
  <1>3. QED
    BY <1>1, <1>2 DEF Idempotent!vars

\* A call that is answered, told of a task or not.
LEMMA Answering ==
  ASSUME SysInv, [SysNext]_sysVars, NEW c \in Calls, NEW a,
         answer' = [answer EXCEPT ![c] = a], UNCHANGED <<key, tasks, found>>,
         pc[c] # "answered", key[c] \in Keys, SysInv'
  PROVE  [Idempotent!Next]_(Idempotent!vars)
  <1> USE DEF SysInv, SysTypes, SysTypeOK
  <1>1. \A d \in Calls : d # c => ToldTasks(d)' = ToldTasks(d)
    BY ToldStays
  <1>2. /\ \A k \in Keys : Existing(k)' = Existing(k)
        /\ ToldTasks(c) = {}
    BY DEF Existing, FoundBacksSuccess, ToldTasks
  <1>3. CASE answer'[c].kind = "created"
    <2>1. ToldTasks(c)' = Existing(key[c]) /\ Existing(key[c]) # {}
      BY <1>3, SuccessNamedNext DEF SuccessNamed, Existing
    <2>2. [d \in Calls |-> ToldTasks(d)]'
            = [[d \in Calls |-> ToldTasks(d)] EXCEPT ![c] = Existing(key[c])]
      BY <1>1, <2>1
    <2>3. [k \in Keys |-> Existing(k)]' = [k \in Keys |-> Existing(k)]
      BY <1>2
    <2>4. Idempotent!Tell(c)
      BY <1>2, <2>1, <2>2, <2>3, NoneAssumption DEF Idempotent!Tell
    <2>5. QED
      BY <2>4 DEF Idempotent!Next
  <1>4. CASE answer'[c].kind # "created"
    <2>1. ToldTasks(c)' = {}
      BY <1>4 DEF ToldTasks
    <2>2. QED
      BY <1>1, <1>2, <2>1 DEF Idempotent!vars
  <1>5. QED
    BY <1>3, <1>4

\* A call that arrives, with whatever flight it joins or starts.
LEMMA Arriving ==
  ASSUME SysInv, [SysNext]_sysVars, NEW c \in Calls, NEW r \in GoodRequests,
         Enter(c, r), UNCHANGED storeVars
  PROVE  Idempotent!Next
  <1> USE DEF SysInv, SysTypes, SysTypeOK
  <1>1. pc[c] = "new" /\ key[c] = None /\ r.key \in Keys
    BY GoodKey DEF Enter, Arrived
  <1>2. c \notin tasks
    BY <1>1 DEF Arrived
  <1>3. \A k \in Keys : Existing(k)' = Existing(k)
    BY <1>2 DEF Existing, Enter, storeVars
  <1>4. \A d \in Calls : ToldTasks(d)' = ToldTasks(d)
    BY ToldStays DEF Enter
  <1>5. Idempotent!Ask(c, r.key)
    BY <1>1, <1>3, <1>4 DEF Idempotent!Ask, Enter
  <1>6. QED
    BY <1>1, <1>5 DEF Idempotent!Next

\* A write that reaches the tracker.
LEMMA Landing ==
  ASSUME SysInv, [SysNext]_sysVars, NEW c \in Calls, Land(c)
  PROVE  [Idempotent!Next]_(Idempotent!vars)
  <1> USE DEF SysInv, SysTypes, SysTypeOK
  <1>1. c \in Calls /\ key[c] \in Keys /\ UNCHANGED <<key, answer>>
    BY DEF Land, Arrived, vars
  <1>2. CASE UNCHANGED tasks
    BY <1>1, <1>2, Stutter
  <1>3. CASE tasks' = tasks \cup {c} /\ Existing(key[c]) = {}
    <2>1. /\ Existing(key[c])' = {c}
          /\ \A k \in Keys : k # key[c] => Existing(k)' = Existing(k)
      BY <1>1, <1>3 DEF Existing
    <2>2. [k \in Keys |-> Existing(k)]'
            = [[k \in Keys |-> Existing(k)] EXCEPT ![key[c]] = {c}]
      BY <1>1, <2>1
    <2>3. \A d \in Calls : ToldTasks(d)' = ToldTasks(d)
      BY <1>1, ToldStays
    <2>4. Idempotent!Create(c)
      BY <1>1, <1>3, <2>2, <2>3, NoneAssumption DEF Idempotent!Create
    <2>5. QED
      BY <2>4 DEF Idempotent!Next
  <1>4. ~scenario.unique => Existing(key[c]) = {}
    BY DEF Land, WritersHold
  <1>5. QED
    BY <1>2, <1>3, <1>4 DEF Land

\* Every step of the system is a step of the abstract specification or a
\* stutter.
LEMMA NextImplements ==
  SysInv /\ SysInv' /\ [SysNext]_sysVars => [Idempotent!Next]_(Idempotent!vars)
  <1> SUFFICES ASSUME SysInv, SysInv', [SysNext]_sysVars
               PROVE  [Idempotent!Next]_(Idempotent!vars)
    OBVIOUS
  <1>1. ASSUME NEW c \in Calls, NEW r \in GoodRequests, Enter(c, r),
               UNCHANGED storeVars
        PROVE  [Idempotent!Next]_(Idempotent!vars)
    BY <1>1, Arriving
  <1>2. ASSUME NEW c \in Calls, UNCHANGED storeVars,
               Settle(c) \/ ResumeShared(c) \/ ResumeAborted(c)
        PROVE  [Idempotent!Next]_(Idempotent!vars)
    <2>1. \E a : answer' = [answer EXCEPT ![c] = a]
      BY <1>2 DEF Settle, ResumeShared, ResumeAborted
    <2>2. pc[c] \in {"waiting", "settling"} /\ key[c] \in Keys
      BY <1>2 DEF Settle, ResumeShared, ResumeAborted, SysInv, Arrived
    <2>3. UNCHANGED <<key, tasks, found>>
      BY <1>2 DEF Settle, ResumeShared, ResumeAborted, storeVars
    <2>4. QED
      BY <2>1, <2>2, <2>3, Answering
  <1>3. ASSUME NEW c \in Calls, UNCHANGED storeVars,
               Classify(c) \/ Wake(c) \/ ResumeLoop(c) \/ Abort(c)
        PROVE  [Idempotent!Next]_(Idempotent!vars)
    BY <1>3, Stutter DEF Classify, Wake, ResumeLoop, Abort, storeVars
  <1>4. ASSUME NEW c \in Calls, Land(c)
        PROVE  [Idempotent!Next]_(Idempotent!vars)
    BY <1>4, Landing
  <1>5. ASSUME NEW c \in Calls, Recognise(c) \/ Drop(c) \/ Resolve(c) \/
          Reject(c)
        PROVE  [Idempotent!Next]_(Idempotent!vars)
    BY <1>5, Stutter
    DEF Recognise, Drop, Resolve, Reject, TeamSettles, vars, storeVars
  <1>6. ASSUME Crash PROVE [Idempotent!Next]_(Idempotent!vars)
    <2>1. \A c \in Calls : ToldTasks(c)' = ToldTasks(c)
      <3> SUFFICES ASSUME NEW c \in Calls PROVE ToldTasks(c)' = ToldTasks(c)
        OBVIOUS
      <3>1. CASE Held(c)
        <4>1. answer[c].kind = "none" /\ answer'[c].kind = "lost"
          BY <1>6, <3>1 DEF Crash, Held, Lost, SysInv, FoundBacksSuccess
        <4>2. QED
          BY <4>1, ToldStays
      <3>2. CASE ~Held(c)
        BY <1>6, <3>2, ToldStays DEF Crash
      <3>3. QED
        BY <3>1, <3>2
    <2>2. \A k \in Keys : Existing(k)' = Existing(k)
      BY <1>6 DEF Crash, Existing
    <2>3. QED
      BY <1>6, <2>1, <2>2 DEF Idempotent!vars, Crash
  <1>7. CASE UNCHANGED sysVars
    BY <1>7, Stutter DEF sysVars, storeVars, vars
  <1>8. QED
    BY <1>1, <1>2, <1>3, <1>4, <1>5, <1>6, <1>7 DEF SysNext, ServerStep, SysIdle

\* Server, department and host together keep the promise of IdempotentCreation:
\* one task for a key, and no call is told of another one.
THEOREM Idempotence == SysSpec => ImplementsIdempotentCreation
  <1>1. SysInv /\ [SysNext]_sysVars => [Idempotent!Next]_(Idempotent!vars)
    BY NextSysInv, NextImplements
  <1>2. QED
    BY InitImplements, SysInvHolds, <1>1, PTL
    DEF SysSpec, ImplementsIdempotentCreation, Idempotent!Spec
=============================================================================
