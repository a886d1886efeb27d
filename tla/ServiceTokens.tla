--------------------------- MODULE ServiceTokens ---------------------------
(***************************************************************************)
(* A host that signs tokens by its own clock, and department servers that  *)
(* judge them by theirs.  A token travels as long as it likes and may      *)
(* arrive more than once: no server remembers a jti.  Besides the host's   *)
(* tokens a server is shown tokens built by hand, as the shared fixtures   *)
(* are: a good one with one claim replaced, signed again or not.           *)
(*                                                                         *)
(* Every token is judged by both SDKs, so one behaviour compares them.     *)
(* Bounds: Horizon, SignBy and MaxSent; and tokens are built by hand only  *)
(* before the host has signed one, which they have nothing to do with.     *)
(***************************************************************************)
EXTENDS TokenRules, FiniteSets

CONSTANTS Skews,     \* a server's clock minus the host's, in milliseconds
          Steps,     \* how far the clocks may advance at once
          Begin,     \* the host's clock at first
          Horizon,   \* the host's clock at last
          SignBy,    \* the host's clock when it signs, at the latest
          Lifetimes, \* lifetimes a host asks for, in milliseconds
          IdLists,   \* lists of task ids a host asks about
          MaxSent    \* how many tokens it signs

ASSUME ClockAssumption ==
  /\ Skews \subseteq Int /\ Steps \subseteq Nat
  /\ Begin \in Nat /\ Horizon \in Nat /\ Begin <= Horizon
  /\ \A k \in Skews :
       /\ 0 <= Begin + k
       /\ Horizon + k < (FarFuture - MaxLifetimeSeconds - ClockToleranceSeconds)
                         * MILLISECONDS_PER_SECOND

ASSUME RequestAssumption == Lifetimes \subseteq Int /\ IdLists \subseteq Seq(TaskIds)

VARIABLES now,  \* the host's clock
          skew, \* skew[d]: how far the clock of d is ahead of it
          sent, \* the tokens signed, with what they were signed for and when
          last  \* the token just presented, and what the SDKs made of it;
                \* servers remember nothing, so it is forgotten with time

tokenVars == <<now, skew, sent, last>>

Requests ==
  [audience : Departments, subject : Users \cup {None, NoText},
   taskIds : IdLists \cup {None}, scopes : SUBSET Scopes, lifetime : Lifetimes]

ClockOf(d) == now + skew[d]

Judged(ok, claims) == IF ok THEN [ok |-> TRUE, caller |-> CallerOf(claims)]
                            ELSE [ok |-> FALSE]

Nothing == [seen |-> FALSE]

Init ==
  /\ now = Begin
  /\ skew \in [Departments -> Skews]
  /\ sent = {}
  /\ last = Nothing

Tick ==
  /\ \E step \in Steps : now + step <= Horizon /\ now' = now + step
  /\ last' = Nothing
  /\ UNCHANGED <<skew, sent>>

(***************************************************************************)
(* The host signs for one call, with either SDK, or is refused.            *)
(***************************************************************************)
Sign(r, by) ==
  /\ Cardinality(sent) < MaxSent /\ now <= SignBy
  /\ IF by = "js" THEN JsSigns(r) ELSE PySigns(r)
  /\ sent' = sent \cup {[token |-> Token(ClaimsOf(r, now), r.audience),
                         request |-> r, at |-> now]}
  /\ last' = Nothing
  /\ UNCHANGED <<now, skew>>

(***************************************************************************)
(* A token reaches a server.                                               *)
(***************************************************************************)
Present(t, d) ==
  /\ last = Nothing
  /\ last' = [seen |-> TRUE, token |-> t, to |-> d, at |-> now,
              js |-> Judged(JsVerifies(t, d, ClockOf(d)), t.claims),
              py |-> Judged(PyVerifies(t, d, ClockOf(d)), t.claims)]
  /\ UNCHANGED <<now, skew, sent>>

\* The fixtures' replacements for one claim; times are around the server's.
Around(d) ==
  LET s == Seconds(ClockOf(d))
      reach == MaxLifetimeSeconds + ClockToleranceSeconds + 1
  IN [type : {"integer"}, n : (s - reach)..(s + reach)]
       \cup [type : TimeTypes \ {"integer", "digits"}, n : {0, s}]
       \cup [type : {"digits"}, n : {FarFuture, -FarFuture}]

Texts(S) == [type : TextTypes, text : S \cup {NoText}]

Replaced(d, claims) ==
  {[claims EXCEPT !.iat = v] : v \in Around(d)}
    \cup {[claims EXCEPT !.exp = v] : v \in Around(d)}
    \cup {[claims EXCEPT !.iss = v] : v \in Texts({Host})}
    \cup {[claims EXCEPT !.aud = v] : v \in Texts(Departments)}
    \cup {[claims EXCEPT !.sub = v] : v \in Texts(Users)}
    \cup {[claims EXCEPT !.jti = v] : v \in Texts({"uuid"})}
    \cup {[claims EXCEPT !.scope.type = v] : v \in TextTypes}
    \cup {[claims EXCEPT !.binding = v] :
            v \in [type : TextTypes, digest : BOOLEAN, of : {<<>>} \cup IdLists]}

Specimen(d) ==
  ClaimsOf([audience |-> d, subject |-> None, taskIds |-> None, scopes |-> Scopes,
            lifetime |-> MaxLifetimeSeconds * MILLISECONDS_PER_SECOND], ClockOf(d))

HandBuilt(d) ==
  {Token(c, secret) : c \in Replaced(d, Specimen(d)), secret \in Departments}

\* A token that was changed after it was signed.
Changed(t) ==
  {[t EXCEPT !.readable = FALSE], [t EXCEPT !.alg = "none"],
   [t EXCEPT !.claims.exp.n = @ + 1]}
    \cup {[t EXCEPT !.claims.sub = Text(u)] : u \in Users}
    \cup {[t EXCEPT !.claims.aud = Text(d)] : d \in Departments}

Next ==
  \/ Tick
  \/ \E r \in Requests, by \in {"js", "py"} : Sign(r, by)
  \/ \E s \in sent, d \in Departments :
       \E t \in {s.token} \cup Changed(s.token) : Present(t, d)
  \/ /\ sent = {}
     /\ \E d \in Departments : \E t \in HandBuilt(d) : Present(t, d)

Spec == Init /\ [][Next]_tokenVars

(***************************************************************************)
(* Properties                                                              *)
(***************************************************************************)
\* Clocks are integers, and whatever was signed was within the contract's
\* lifetime.
TypeOK ==
  /\ now \in Begin..Horizon
  /\ skew \in [Departments -> Skews]
  /\ \A s \in sent :
       /\ s.at \in Begin..now
       /\ s.request \in Requests
       /\ s.token.claims.iat.n = Seconds(s.at)
       /\ s.token.claims.exp.n - Seconds(s.at) \in 0..MaxLifetimeSeconds
  /\ last.seen => last.at \in Begin..now /\ last.to \in Departments

\* A token the host signed and the server accepted.
Accepted(s, verdict) == last.seen /\ last.token = s.token /\ verdict.ok

\* However long a token travels or however often it is sent again, it is
\* accepted no later than its lifetime, the tolerance and the server's lag
\* behind the host allow; and not while the server's clock shows a time before
\* it was signed by more than the tolerance and the second that clock is in.
AcceptedIsFresh ==
  last.seen => \A s \in {x \in sent : Accepted(x, last.js) \/ Accepted(x, last.py)} :
    /\ last.at - s.at < s.request.lifetime
                        + ClockToleranceSeconds * MILLISECONDS_PER_SECOND - skew[last.to]
    /\ s.at - (last.at + skew[last.to])
         < (ClockToleranceSeconds + 1) * MILLISECONDS_PER_SECOND

\* What the tolerance is for: while the clocks differ by no more than it, a
\* token is accepted from the moment it is signed until its expiry by the
\* clock of the host that signed it.
WithinTolerance(d) ==
  /\ skew[d] <= ClockToleranceSeconds * MILLISECONDS_PER_SECOND
  /\ -skew[d] <= ClockToleranceSeconds * MILLISECONDS_PER_SECOND

HonestIsAccepted ==
  last.seen => \A s \in sent :
    /\ last.token = s.token
    /\ last.to = s.request.audience
    /\ s.request.subject # NoText
    /\ s.request.lifetime % MILLISECONDS_PER_SECOND = 0
    /\ WithinTolerance(last.to)
    /\ last.at < Seconds(s.at) * MILLISECONDS_PER_SECOND + s.request.lifetime
    => last.js.ok /\ last.py.ok

\* Both SDKs accept the same tokens, and see the same caller in them.
BothSdksAgree == last.seen => last.js = last.py

\* A claim is believed only under a signature of the host's: a caller seen in
\* a token that carries a host's signature is the one that host named, at the
\* department it was named for.
CallerIsWhoTheHostNamed ==
  last.seen /\ last.js.ok =>
    \A s \in sent : last.token.signature = s.token.signature =>
      /\ last.to = s.request.audience
      /\ last.js.caller.subject = s.request.subject
      /\ last.js.caller.scopes = s.request.scopes

\* A status read that is let through is the read the host signed: the same
\* ids, in the same order, for a requester it named.
CoveredIsWhatWasSigned ==
  last.seen => \A s \in {x \in sent : Accepted(x, last.js)} :
    \A ids \in IdLists :
      (JsCovers(last.js.caller, ids) \/ PyCovers(last.py.caller, ids)) =>
        ids = s.request.taskIds /\ s.request.subject \in Users

\* service_token.py: a list that cannot be hashed there is one no JavaScript
\* host can have signed, so whatever is signed for a status read is covered.
SignedReadIsCovered ==
  last.seen => \A s \in sent :
    Accepted(s, last.py) /\ s.request.taskIds # None /\ s.request.subject # None =>
      PyCovers(last.py.caller, s.request.taskIds)
=============================================================================
