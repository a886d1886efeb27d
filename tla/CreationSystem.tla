--------------------------- MODULE CreationSystem ---------------------------
(***************************************************************************)
(* One team server process (JsTaskCreation), the host that calls it, and   *)
(* the department behind it: the team's createTask and its tracker.  The   *)
(* host calls again with the same key, cancels, and the process may crash; *)
(* a write the department has sent to its tracker lands all the same.      *)
(*                                                                         *)
(* The department is not part of the repository.  It is modelled as the    *)
(* README tells a team to write it: recognise the key in your own storage, *)
(* then create.  A task is named by the call whose createTask made it.     *)
(***************************************************************************)
EXTENDS JsTaskCreation, Naturals

CONSTANT Scenarios  \* what the department and the process do; see below

VARIABLES
  scenario, \* one of Scenarios, fixed
  tasks,    \* the tracker's tasks
  wire,     \* the calls whose write is on its way to the tracker
  found,    \* found[c]: the task c's createTask has in hand, None if none
  asked,    \* the calls whose createTask has looked the key up
  crashes   \* restarts of the process so far

storeVars == <<scenario, tasks, wire, found, asked, crashes>>
sysVars == <<vars, storeVars>>

(***************************************************************************)
(* unique: the tracker itself refuses a second task for a key and returns  *)
(*   the first (otherwise: search, then create).                           *)
(* tidy: createTask does not settle while its write is on its way          *)
(*   (otherwise: an aborted call is rejected at once, as fetch does).      *)
(* crashes: how often the process may crash; with a write on its way only  *)
(*   if the tracker keeps keys unique.                                     *)
(***************************************************************************)
ScenarioType == [unique : BOOLEAN, tidy : BOOLEAN, crashes : Nat]

\* For one task per key, one of the two is enough, and less is not.
ASSUME ScenarioAssumption ==
  \A s \in Scenarios : s \in ScenarioType /\ (s.unique \/ s.tidy)

SysInit ==
  /\ Init
  /\ scenario \in Scenarios
  /\ tasks = {}
  /\ wire = {}
  /\ found = [c \in Calls |-> None]
  /\ asked = {}
  /\ crashes = 0

Existing(k) == {t \in tasks : key[t] = k}

(***************************************************************************)
(* The server, as JsTaskCreation has it.  The host only sends requests     *)
(* that pass the gates; it may send one more for any key at any time.      *)
(***************************************************************************)
GoodRequests ==
  {r \in Requests : r.verdict = "ready" /\ r.caller = r.requester}

ServerStep(c) ==
  /\ \/ \E r \in GoodRequests : Enter(c, r)
     \/ Classify(c)
     \/ Settle(c)
     \/ Wake(c)
     \/ ResumeShared(c)
     \/ ResumeAborted(c)
     \/ ResumeLoop(c)
     \/ Abort(c)
  /\ UNCHANGED storeVars

(***************************************************************************)
(* The team's createTask                                                   *)
(***************************************************************************)
Recognise(c) ==
  /\ team[c] = "running"
  /\ c \notin asked
  /\ asked' = asked \cup {c}
  /\ IF Existing(key[c]) = {}
     THEN wire' = wire \cup {c} /\ UNCHANGED found
     ELSE /\ \E t \in Existing(key[c]) : found' = [found EXCEPT ![c] = t]
          /\ UNCHANGED wire
  /\ UNCHANGED <<vars, scenario, tasks, crashes>>

\* The write reaches the tracker, whether or not anyone still waits for it.
Land(c) ==
  /\ c \in wire
  /\ wire' = wire \ {c}
  /\ IF scenario.unique /\ Existing(key[c]) # {}
     THEN /\ \E t \in Existing(key[c]) : found' = [found EXCEPT ![c] = t]
          /\ UNCHANGED tasks
     ELSE /\ tasks' = tasks \cup {c}
          /\ found' = [found EXCEPT ![c] = c]
  /\ UNCHANGED <<vars, scenario, asked, crashes>>

\* The write is lost on its way.
Drop(c) ==
  /\ c \in wire
  /\ wire' = wire \ {c}
  /\ UNCHANGED <<vars, scenario, tasks, found, asked, crashes>>

Resolve(c) ==
  /\ found[c] # None
  /\ TeamSettles(c, "resolved")
  /\ UNCHANGED storeVars

Reject(c) ==
  /\ c \in wire => c \in aborted /\ ~scenario.tidy
  /\ TeamSettles(c, "rejected")
  /\ UNCHANGED storeVars

(***************************************************************************)
(* The process stops and starts again: every call it held is lost, and so  *)
(* is the in-flight map.  Calls that have not arrived reach the new one.   *)
(***************************************************************************)
Lost == [kind |-> "lost", by |-> None]
Held(c) == pc[c] \in {"waiting", "creating", "settling"}

Crash ==
  /\ crashes < scenario.crashes
  /\ scenario.unique \/ wire = {}
  /\ crashes' = crashes + 1
  /\ pc' = [c \in Calls |-> IF Held(c) THEN "answered" ELSE pc[c]]
  /\ answer' = [c \in Calls |-> IF Held(c) THEN Lost ELSE answer[c]]
  /\ team' = [c \in Calls |-> "none"]
  /\ pending' = [k \in Keys |-> None]
  /\ resuming' = {}
  /\ UNCHANGED <<key, aborted, running, outcome, scenario, tasks, wire, found, asked>>

SysIdle ==
  /\ \A c \in Calls : pc[c] = "answered" /\ c \notin wire
  /\ UNCHANGED sysVars

SysNext ==
  \/ \E c \in Calls :
       ServerStep(c) \/ Recognise(c) \/ Land(c) \/ Drop(c) \/ Resolve(c) \/ Reject(c)
  \/ Crash
  \/ SysIdle

SysSpec == SysInit /\ [][SysNext]_sysVars

(***************************************************************************)
(* Properties                                                              *)
(***************************************************************************)
\* Every variable of the store stays in its set, and so does every answer.
SysTypeOK ==
  /\ answer \in [Calls -> Answers \cup {Lost}]
  /\ scenario \in Scenarios
  /\ tasks \subseteq Calls
  /\ wire \subseteq asked
  /\ asked \subseteq Calls
  /\ found \in [Calls -> Calls \cup {None}]
  /\ crashes \in 0..scenario.crashes

\* One task is created for a key, however the calls for it were repeated,
\* aborted, taken over and cut off.
OneTaskPerKey ==
  \A t, u \in tasks : key[t] = key[u] => t = u

\* Every call for a key that is told of a task is told of the same one, and
\* that task is in the tracker: the host can repeat a call it has lost.
SuccessesAgree ==
  \A c, d \in Calls :
    answer[c].kind = "created" /\ answer[d].kind = "created" /\ key[c] = key[d] =>
      /\ found[answer[c].by] \in Existing(key[c])
      /\ found[answer[c].by] = found[answer[d].by]

\* While a department that searches, then creates, has a write for a key on its
\* way, no createTask but the one that sent it runs for that key: nothing else
\* looks the key up meanwhile, which is what makes searching enough.
WriterHoldsTheKey ==
  ~scenario.unique =>
    \A c \in wire : \A d \in Calls :
      team[d] = "running" /\ key[d] = key[c] => d = c

(***************************************************************************)
(* Server, department and host together are the idempotent creation the    *)
(* README promises.                                                        *)
(***************************************************************************)
ToldTasks(c) ==
  IF answer[c].kind = "created" THEN {found[answer[c].by]} ELSE {}

Idempotent == INSTANCE IdempotentCreation WITH
  asks <- key,
  made <- [k \in Keys |-> Existing(k)],
  told <- [c \in Calls |-> ToldTasks(c)]

\* Every behaviour of the system, its retries, aborts, takeovers, late writes
\* and crashes, is one of the abstract specification.
ImplementsIdempotentCreation == Idempotent!Spec
=============================================================================
