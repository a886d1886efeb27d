--------------------------- MODULE MergedCreation ---------------------------
(***************************************************************************)
(* What a team server promises to concurrent create_task calls, whichever  *)
(* SDK it is built with: calls that carry one idempotencyKey are merged    *)
(* into one running creation, a finished creation answers the calls that   *)
(* followed it, and a creation given up by an abort answers nobody but its *)
(* own call.  A creation attempt is named by the call that began it: a     *)
(* call begins at most one.                                                *)
(*                                                                         *)
(* JsTaskCreation and PyTaskCreation are shown to implement this.          *)
(***************************************************************************)
CONSTANTS Calls,   \* create_task calls that reach one team server process
          Keys,    \* idempotency keys
          None,    \* "no call", "no key"
          TeamGivesUp \* whether a creation may be given up by the team's code
                      \* alone, as Python's may, where every CancelledError does

VARIABLES phase,   \* phase[c]: where call c is
          key,     \* key[c]: its idempotency key, None until it arrives
          aborted, \* the calls whose host gave up on them
          ended,   \* ended[f]: how the attempt begun by call f ended
          follows, \* follows[c]: the attempt c last followed, None if none
          answer   \* answer[c]: what c was answered

vars == <<phase, key, aborted, ended, follows, answer>>

\* What a call is answered: refused at the gates, given up, or told how an
\* attempt ended.  A refusal's wording is not distinguished here.
Refused == [kind |-> "refused", by |-> None]
Aborted == [kind |-> "aborted", by |-> None]
Told(f, how) == [kind |-> how, by |-> f]
Unanswered == [kind |-> "none", by |-> None]

Init ==
  /\ phase = [c \in Calls |-> "new"]
  /\ key = [c \in Calls |-> None]
  /\ aborted = {}
  /\ ended = [c \in Calls |-> "none"]
  /\ follows = [c \in Calls |-> None]
  /\ answer = [c \in Calls |-> Unanswered]

\* A call may set out on a creation when it has just arrived, or when the
\* attempt it followed was given up.
Free(c) ==
  \/ phase[c] = "new"
  \/ phase[c] = "following" /\ ended[follows[c]] = "abandoned"

\* The key a call sets out with: the one it arrives with, then for ever.
HasKey(c, k) ==
  /\ k \in Keys
  /\ phase[c] = "new" \/ key[c] = k
  /\ key' = [key EXCEPT ![c] = k]

Running(k) == {f \in Calls : phase[f] = "creating" /\ key[f] = k}

Refuse(c) ==
  /\ phase[c] = "new"
  /\ phase' = [phase EXCEPT ![c] = "answered"]
  /\ answer' = [answer EXCEPT ![c] = Refused]
  /\ UNCHANGED <<key, aborted, ended, follows>>

Begin(c) ==
  \E k \in Keys :
    /\ Free(c)
    /\ HasKey(c, k)
    /\ Running(k) = {}
    /\ phase' = [phase EXCEPT ![c] = "creating"]
    /\ UNCHANGED <<aborted, ended, follows, answer>>

Follow(c) ==
  \E k \in Keys :
    /\ Free(c)
    /\ HasKey(c, k)
    /\ \E f \in Running(k) : follows' = [follows EXCEPT ![c] = f]
    /\ phase' = [phase EXCEPT ![c] = "following"]
    /\ UNCHANGED <<aborted, ended, answer>>

\* An attempt ends once, and its own call is answered with it.  It is given up
\* for an abort of that call, or by the team.
End(f, how) ==
  /\ phase[f] = "creating"
  /\ how = "abandoned" => f \in aborted \/ TeamGivesUp
  /\ phase' = [phase EXCEPT ![f] = "answered"]
  /\ ended' = [ended EXCEPT ![f] = how]
  /\ answer' = [answer EXCEPT ![f] =
                  IF how = "abandoned" THEN Aborted ELSE Told(f, how)]
  /\ UNCHANGED <<key, aborted, follows>>

Deliver(c) ==
  /\ phase[c] = "following"
  /\ ended[follows[c]] \in {"created", "failed"}
  /\ phase' = [phase EXCEPT ![c] = "answered"]
  /\ answer' = [answer EXCEPT ![c] = Told(follows[c], ended[follows[c]])]
  /\ UNCHANGED <<key, aborted, ended, follows>>

Leave(c) ==
  /\ phase[c] \in {"new", "following"}
  /\ c \in aborted
  /\ phase' = [phase EXCEPT ![c] = "answered"]
  /\ answer' = [answer EXCEPT ![c] = Aborted]
  /\ UNCHANGED <<key, aborted, ended, follows>>

Abort(c) ==
  /\ phase[c] # "answered"
  /\ aborted' = aborted \cup {c}
  /\ UNCHANGED <<phase, key, ended, follows, answer>>

Next ==
  \E c \in Calls :
    \/ Refuse(c)
    \/ Begin(c)
    \/ Follow(c)
    \/ \E how \in {"created", "failed", "abandoned"} : End(c, how)
    \/ Deliver(c)
    \/ Leave(c)
    \/ Abort(c)

Spec == Init /\ [][Next]_vars
=============================================================================
