----------------------------- MODULE TokenRules -----------------------------
(***************************************************************************)
(* Service tokens as both SDKs sign and judge them (service-token.ts,      *)
(* service_token.py): what a signed token says, which presentations of it  *)
(* each SDK accepts, and what it then takes the caller to be.              *)
(*                                                                         *)
(* A claim keeps its JSON type, since each language tests types its own    *)
(* way.  A signature is the pair of what was signed and with which secret, *)
(* a digest the list it was computed from: both are as good as injective.  *)
(* Why a token is refused is told to nobody, so a refusal has no reason.   *)
(***************************************************************************)
EXTENDS Integers, Sequences

CONSTANTS MaxLifetimeSeconds,    \* SERVICE_TOKEN_RULES of the contract
          ClockToleranceSeconds,
          FarFuture,      \* seconds that no clock and no lifetime reaches, and
                          \* from which on a JSON number is no double
          Departments,    \* team servers; each shares a secret of its own,
                          \* named like the department, with the host
          Host,           \* the issuer all of them expect
          Users, Scopes,
          TaskIds,
          LoneSurrogates, \* the task ids with no UTF-8 form
          None

ASSUME RulesAssumption ==
  /\ MaxLifetimeSeconds \in Nat /\ MaxLifetimeSeconds > 0
  /\ ClockToleranceSeconds \in Nat
  /\ FarFuture \in Nat

NoText == ""

ASSUME NamesAssumption ==
  /\ NoText \notin Users \cup Departments \cup {Host, None}
  /\ None \notin Users \cup Departments
  /\ LoneSurrogates \subseteq TaskIds

MILLISECONDS_PER_SECOND == 1000
Seconds(ms) == ms \div MILLISECONDS_PER_SECOND

(***************************************************************************)
(* Claims.  "digits" is an integer written with more digits than a double  *)
(* has room for, "overflow" an exponent such as 1e400.                     *)
(***************************************************************************)
TimeTypes == {"absent", "null", "boolean", "string", "fraction", "overflow",
              "integer", "digits"}
TimeClaim == [type : TimeTypes, n : Int]
TextTypes == {"absent", "null", "number", "string"}

Integer(n) == [type |-> "integer", n |-> n]
Text(t) == [type |-> "string", text |-> t]
AbsentText == [type |-> "absent", text |-> NoText]
AbsentBinding == [type |-> "absent", digest |-> FALSE, of |-> <<>>]
Digest(ids) == [type |-> "string", digest |-> TRUE, of |-> ids]

(***************************************************************************)
(* Signing                                                                 *)
(***************************************************************************)
\* signServiceToken in JavaScript hashes any list: JSON.stringify escapes a
\* lone surrogate.
JsSigns(r) ==
  /\ r.lifetime > 0
  /\ r.lifetime <= MaxLifetimeSeconds * MILLISECONDS_PER_SECOND

\* task_ids_digest raises for a list that has no UTF-8 form.
PyHashable(ids) == \A i \in DOMAIN ids : ids[i] \notin LoneSurrogates

PySigns(r) ==
  /\ r.lifetime > 0
  /\ r.lifetime <= MaxLifetimeSeconds * MILLISECONDS_PER_SECOND
  /\ r.taskIds # None => PyHashable(r.taskIds)

\* A lifetime is a JSON number of seconds, here in milliseconds; with part of
\* a second in it, exp is no integer.
Expiry(iat, lifetime) ==
  [type |-> IF lifetime % MILLISECONDS_PER_SECOND = 0 THEN "integer" ELSE "fraction",
   n |-> iat + lifetime \div MILLISECONDS_PER_SECOND]

\* Mutation: the lifetime is counted in milliseconds, the issue time in seconds.
ClaimsWithoutUnits(r, ms) ==
  [iss |-> Text(Host), aud |-> Text(r.audience),
   sub |-> IF r.subject = None THEN AbsentText ELSE Text(r.subject),
   binding |-> IF r.taskIds = None THEN AbsentBinding ELSE Digest(r.taskIds),
   scope |-> [type |-> "string", words |-> r.scopes],
   iat |-> Integer(Seconds(ms)), exp |-> Integer(Seconds(ms) + r.lifetime),
   jti |-> Text("uuid")]

ClaimsOf(r, ms) ==
  [iss |-> Text(Host), aud |-> Text(r.audience),
   sub |-> IF r.subject = None THEN AbsentText ELSE Text(r.subject),
   binding |-> IF r.taskIds = None THEN AbsentBinding ELSE Digest(r.taskIds),
   scope |-> [type |-> "string", words |-> r.scopes],
   iat |-> Integer(Seconds(ms)), exp |-> Expiry(Seconds(ms), r.lifetime),
   jti |-> Text("uuid")]

Signature(alg, claims, secret) == [alg |-> alg, claims |-> claims, secret |-> secret]

\* readable: three segments, the first two the base64url JSON of an object.
Token(claims, secret) ==
  [readable |-> TRUE, alg |-> "HS256", claims |-> claims,
   signature |-> Signature("HS256", claims, secret)]

(***************************************************************************)
(* Judging                                                                 *)
(***************************************************************************)
\* Number.isInteger: what a double cannot hold is Infinity, and no integer.
JsInteger(v) == v.type = "integer"

PyIsNumber(v) == v.type \in {"boolean", "integer", "digits", "fraction", "overflow"}
PyIsFloat(v) == v.type \in {"fraction", "overflow"}

\* Mutation: bool is an int, and an int is an integer.
PyIntegerOrBool(v) == PyIsNumber(v) /\ ~PyIsFloat(v)

\* An int of any size, or a float without a fraction; bool is an int, and left out.
PyInteger(v) == PyIsNumber(v) /\ v.type # "boolean" /\ ~PyIsFloat(v)

\* Mutation: the tolerance is not applied to the issue time.
TimelyAtIssue(iat, exp, ms) ==
  /\ ~(exp + ClockToleranceSeconds <= Seconds(ms))
  /\ ~(iat > Seconds(ms))
  /\ ~(exp <= iat \/ exp - iat > MaxLifetimeSeconds)

\* Mutation: a token is still good in the second it expires.
TimelyTooLong(iat, exp, ms) ==
  /\ ~(exp + ClockToleranceSeconds < Seconds(ms))
  /\ ~(iat - ClockToleranceSeconds > Seconds(ms))
  /\ ~(exp <= iat \/ exp - iat > MaxLifetimeSeconds)

JsTimely(iat, exp, ms) ==
  /\ ~(exp + ClockToleranceSeconds <= Seconds(ms))
  /\ ~(iat - ClockToleranceSeconds > Seconds(ms))
  /\ ~(exp <= iat \/ exp - iat > MaxLifetimeSeconds)

PyTimely(iat, exp, ms) ==
  /\ ~(exp + ClockToleranceSeconds <= Seconds(ms))
  /\ ~(iat - ClockToleranceSeconds > Seconds(ms))
  /\ ~(exp <= iat \/ exp - iat > MaxLifetimeSeconds)

FilledText(v) == v.type = "string" /\ v.text # NoText

\* Mutation: the signature is computed and not compared.
JsVerifiesUnsigned(t, d, ms) ==
  /\ t.readable
  /\ t.alg = "HS256"
  /\ t.claims.iss = Text(Host)
  /\ t.claims.aud = Text(d)
  /\ JsInteger(t.claims.iat) /\ JsInteger(t.claims.exp)
  /\ JsTimely(t.claims.iat.n, t.claims.exp.n, ms)
  /\ FilledText(t.claims.jti)
  /\ t.claims.scope.type = "string"
  /\ t.claims.sub.type = "absent" \/ FilledText(t.claims.sub)
  /\ t.claims.binding.type = "absent"
       \/ (t.claims.binding.type = "string" /\ t.claims.binding.digest)

\* verifyServiceToken at department d, whose clock shows ms.
JsVerifies(t, d, ms) ==
  /\ t.readable
  /\ t.alg = "HS256"
  /\ t.signature = Signature(t.alg, t.claims, d)
  /\ t.claims.iss = Text(Host)
  /\ t.claims.aud = Text(d)
  /\ JsInteger(t.claims.iat) /\ JsInteger(t.claims.exp)
  /\ JsTimely(t.claims.iat.n, t.claims.exp.n, ms)
  /\ FilledText(t.claims.jti)
  /\ t.claims.scope.type = "string"
  /\ t.claims.sub.type = "absent" \/ FilledText(t.claims.sub)
  /\ t.claims.binding.type = "absent"
       \/ (t.claims.binding.type = "string" /\ t.claims.binding.digest)

\* verify_service_token; dict.get answers None for a claim that is absent.
PyVerifies(t, d, ms) ==
  /\ t.readable
  /\ t.alg = "HS256"
  /\ t.signature = Signature(t.alg, t.claims, d)
  /\ t.claims.iss.type = "string" /\ t.claims.iss.text = Host
  /\ t.claims.aud.type = "string" /\ t.claims.aud.text = d
  /\ PyInteger(t.claims.iat) /\ PyInteger(t.claims.exp)
  /\ PyTimely(t.claims.iat.n, t.claims.exp.n, ms)
  /\ FilledText(t.claims.jti)
  /\ t.claims.scope.type = "string"
  /\ t.claims.sub.type # "absent" => FilledText(t.claims.sub)
  /\ t.claims.binding.type # "absent" =>
       t.claims.binding.type = "string" /\ t.claims.binding.digest

\* The caller a tool handler sees; binding is the taskIdsDigest.
CallerOf(claims) ==
  [subject |-> IF claims.sub.type = "string" THEN claims.sub.text ELSE None,
   bound   |-> claims.binding.type = "string",
   binding |-> claims.binding.of,
   scopes  |-> claims.scope.words,
   expiresAt |-> claims.exp.n]

(***************************************************************************)
(* A status read is for the exact list the token was signed for.           *)
(***************************************************************************)
\* Mutation: the ids are compared as a set.
JsCoversInAnyOrder(caller, ids) ==
  /\ caller.subject # None
  /\ caller.bound
  /\ {caller.binding[i] : i \in DOMAIN caller.binding} = {ids[i] : i \in DOMAIN ids}

JsCovers(caller, ids) ==
  caller.subject # None /\ caller.bound /\ caller.binding = ids

\* A list that cannot be hashed is not covered.
PyCovers(caller, ids) ==
  /\ PyHashable(ids) /\ caller.bound /\ caller.binding = ids
  /\ caller.subject # None
=============================================================================
