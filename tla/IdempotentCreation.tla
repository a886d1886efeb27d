------------------------- MODULE IdempotentCreation -------------------------
(***************************************************************************)
(* What a host may rely on (README.md, "Idempotency"), whatever happens to *)
(* the calls in between: at most one task is ever created for a key, by    *)
(* one of the calls that carry it, and a call that is told of a task is    *)
(* told of that one.  Nothing is promised to a call that fails, is aborted *)
(* or is lost: the host repeats it with the same key.                      *)
(*                                                                         *)
(* A task is named by the call that created it.  CreationSystem is shown   *)
(* to implement this.                                                      *)
(***************************************************************************)
CONSTANTS Calls, Keys, None

VARIABLES asks,  \* asks[c]: the key call c carries, None until it arrives
          made,  \* made[k]: the tasks created for key k
          told   \* told[c]: the tasks call c was told of

vars == <<asks, made, told>>

Init ==
  /\ asks = [c \in Calls |-> None]
  /\ made = [k \in Keys |-> {}]
  /\ told = [c \in Calls |-> {}]

Ask(c, k) ==
  /\ asks[c] = None
  /\ asks' = [asks EXCEPT ![c] = k]
  /\ UNCHANGED <<made, told>>

\* The one creation of a task for the key of call c.
Create(c) ==
  /\ asks[c] # None
  /\ made[asks[c]] = {}
  /\ made' = [made EXCEPT ![asks[c]] = {c}]
  /\ UNCHANGED <<asks, told>>

Tell(c) ==
  /\ asks[c] # None
  /\ told[c] = {}
  /\ made[asks[c]] # {}
  /\ told' = [told EXCEPT ![c] = made[asks[c]]]
  /\ UNCHANGED <<asks, made>>

Next ==
  \E c \in Calls : (\E k \in Keys : Ask(c, k)) \/ Create(c) \/ Tell(c)

Spec == Init /\ [][Next]_vars
=============================================================================
