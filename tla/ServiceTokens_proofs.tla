------------------------ MODULE ServiceTokens_proofs ------------------------
(***************************************************************************)
(* Proofs about ServiceTokens, for any lifetimes, tolerance, clocks and    *)
(* number of tokens: how long a token is good for by two clocks that need  *)
(* not agree, that both SDKs judge every token alike, and that a caller    *)
(* and a status read are what the host signed.                             *)
(***************************************************************************)
EXTENDS ServiceTokens, TLAPS

-----------------------------------------------------------------------------
(***************************************************************************)
(* Whole seconds of a clock in milliseconds                                *)
(***************************************************************************)
\* Seconds (Math.floor, //) rounds down to the second a clock is in.
LEMMA SecondsBounds ==
  ASSUME NEW x \in Int
  PROVE  /\ Seconds(x) \in Int
         /\ Seconds(x) * 1000 <= x
         /\ x < Seconds(x) * 1000 + 1000
  BY DEF Seconds, MILLISECONDS_PER_SECOND

\* A clock at or past the start of a second shows that second or a later one.
LEMMA SecondsFromBelow ==
  ASSUME NEW x \in Int, NEW n \in Int, n * 1000 <= x
  PROVE  n <= Seconds(x)
  BY SecondsBounds

\* A clock before the start of a second shows an earlier one.
LEMMA SecondsFromAbove ==
  ASSUME NEW x \in Int, NEW n \in Int, x < n * 1000
  PROVE  Seconds(x) < n
  BY SecondsBounds

\* What an SDK signs for lives for no more whole seconds than the contract's
\* maximum, and for at least one if it lives for whole seconds.
LEMMA LifetimeBounds ==
  ASSUME NEW L \in Int, 0 < L, L <= MaxLifetimeSeconds * 1000
  PROVE  /\ L \div 1000 \in 0..MaxLifetimeSeconds
         /\ (L \div 1000) * 1000 <= L
         /\ L % 1000 = 0 => L = (L \div 1000) * 1000 /\ 0 < L \div 1000
  BY RulesAssumption
-----------------------------------------------------------------------------
(***************************************************************************)
(* The tokens that come up, and the inductive invariant                    *)
(***************************************************************************)
TextClaim == [type : TextTypes, text : Users \cup Departments \cup {Host, NoText, "uuid"}]

\* An integer too long for a double lies beyond every clock.
SignedTime ==
  {v \in TimeClaim : v.type = "digits" => v.n \in {FarFuture, -FarFuture}}

BindingClaim == [type : TextTypes, digest : BOOLEAN, of : IdLists \cup {<<>>}]
ScopeClaim == [type : TextTypes, words : SUBSET Scopes]

Claims ==
  [iss : TextClaim, aud : TextClaim, sub : TextClaim, binding : BindingClaim,
   scope : ScopeClaim, iat : SignedTime, exp : SignedTime, jti : TextClaim]

ClocksRun == now \in Begin..Horizon /\ skew \in [Departments -> Skews]

\* Every token in flight says what was asked for, at the time it was signed.
SentAsSigned ==
  \A s \in sent :
    /\ s.at \in Begin..now
    /\ s.request \in Requests
    /\ 0 < s.request.lifetime
    /\ s.request.lifetime <= MaxLifetimeSeconds * 1000
    /\ s.token = Token(ClaimsOf(s.request, s.at), s.request.audience)

\* The verdicts are those of the clock the server still shows.
LastAsJudged ==
  last.seen =>
    /\ last.at = now
    /\ last.to \in Departments
    /\ last.token.claims \in Claims
    /\ last.js = Judged(JsVerifies(last.token, last.to, ClockOf(last.to)),
                        last.token.claims)
    /\ last.py = Judged(PyVerifies(last.token, last.to, ClockOf(last.to)),
                        last.token.claims)

IInv == ClocksRun /\ SentAsSigned /\ LastAsJudged
-----------------------------------------------------------------------------
(***************************************************************************)
(* Every token presented has claims of these types                         *)
(***************************************************************************)
AnyRequests ==
  [audience : Departments, subject : Users \cup {None, NoText},
   taskIds : IdLists \cup {None}, scopes : SUBSET Scopes, lifetime : Int]

\* A request of the model is one of the general shape.
LEMMA RequestTypes ==
  ASSUME NEW r \in Requests
  PROVE  /\ r \in AnyRequests
         /\ r.audience \in Departments
         /\ r.subject \in Users \cup {None, NoText}
         /\ r.taskIds \in IdLists \cup {None}
         /\ r.scopes \in SUBSET Scopes
         /\ r.lifetime \in Int
  BY RequestAssumption DEF Requests, AnyRequests

\* exp is iat and the lifetime's whole seconds.
LEMMA ExpiryTypes ==
  ASSUME NEW iat \in Int, NEW L \in Int
  PROVE  /\ Expiry(iat, L) \in SignedTime
         /\ Expiry(iat, L).n \in Int
         /\ Expiry(iat, L).n = iat + L \div 1000
         /\ Expiry(iat, L).type \in {"integer", "fraction"}
         /\ L % 1000 = 0 => Expiry(iat, L).type = "integer"
  <1>1. L \div 1000 \in Int
    OBVIOUS
  <1>2. QED
    BY <1>1 DEF Expiry, SignedTime, TimeClaim, TimeTypes, MILLISECONDS_PER_SECOND

\* The same, as one statement the provers can instantiate.
LEMMA ExpirySigned == \A iat, L \in Int : Expiry(iat, L) \in SignedTime
  BY ExpiryTypes

\* What the host signs.
LEMMA ClaimsOfTypes ==
  ASSUME NEW r \in AnyRequests, NEW ms \in Int
  PROVE  ClaimsOf(r, ms) \in Claims
  <1>1. Text(Host) \in TextClaim /\ Text(r.audience) \in TextClaim /\ Text("uuid") \in TextClaim
    BY DEF AnyRequests, Text, TextClaim, TextTypes
  <1>2. (IF r.subject = None THEN AbsentText ELSE Text(r.subject)) \in TextClaim
    BY DEF AnyRequests, Text, AbsentText, TextClaim, TextTypes
  <1>3. (IF r.taskIds = None THEN AbsentBinding ELSE Digest(r.taskIds))
          \in BindingClaim
    BY DEF AnyRequests, AbsentBinding, Digest, BindingClaim, TextTypes
  <1>4. [type |-> "string", words |-> r.scopes] \in ScopeClaim
    BY DEF AnyRequests, ScopeClaim, TextTypes
  <1>5. /\ Seconds(ms) \in Int
        /\ r.lifetime \in Int
    <2>1. Seconds(ms) \in Int
      BY SecondsBounds
    <2>2. r.lifetime \in Int
      BY DEF AnyRequests
    <2>3. QED
      BY <2>1, <2>2
  <1>6. Integer(Seconds(ms)) \in SignedTime
    BY <1>5 DEF Integer, SignedTime, TimeClaim, TimeTypes
  <1>7. Expiry(Seconds(ms), r.lifetime) \in SignedTime
    BY <1>5, ExpirySigned
  <1>8. QED
    BY <1>1, <1>2, <1>3, <1>4, <1>6, <1>7 DEF ClaimsOf, Claims

\* A token that was changed after it was signed.
LEMMA ChangedTypes ==
  ASSUME NEW c \in Claims, NEW a, NEW t \in Changed(Token(c, a)),
         c.exp.type \in {"integer", "fraction"}
  PROVE  t.claims \in Claims
  <1> DEFINE w == Token(c, a)
  <1>1. w.claims = c /\ c.exp \in SignedTime /\ c.exp.n \in Int
    BY DEF Token, Claims, SignedTime, TimeClaim
  <1>2. CASE t \in {[w EXCEPT !.readable = FALSE], [w EXCEPT !.alg = "none"]}
    BY <1>1, <1>2 DEF Token
  <1>3. CASE t = [w EXCEPT !.claims.exp.n = @ + 1]
    <2>1. t.claims = [c EXCEPT !.exp.n = @ + 1]
      BY <1>3 DEF Token
    <2>2. [c.exp EXCEPT !.n = @ + 1] \in SignedTime
      BY <1>1 DEF SignedTime, TimeClaim
    <2>3. QED
      BY <2>1, <2>2 DEF Claims
  <1>4. CASE \E u \in Users : t = [w EXCEPT !.claims.sub = Text(u)]
    <2>1. PICK u \in Users : t = [w EXCEPT !.claims.sub = Text(u)]
      BY <1>4
    <2>2. t.claims = [c EXCEPT !.sub = Text(u)]
      BY <2>1 DEF Token
    <2>3. Text(u) \in TextClaim
      BY DEF Text, TextClaim, TextTypes
    <2>4. QED
      BY <2>2, <2>3 DEF Claims
  <1>5. CASE \E d \in Departments : t = [w EXCEPT !.claims.aud = Text(d)]
    <2>1. PICK d \in Departments : t = [w EXCEPT !.claims.aud = Text(d)]
      BY <1>5
    <2>2. t.claims = [c EXCEPT !.aud = Text(d)]
      BY <2>1 DEF Token
    <2>3. Text(d) \in TextClaim
      BY DEF Text, TextClaim, TextTypes
    <2>4. QED
      BY <2>2, <2>3 DEF Claims
  <1>6. QED
    BY <1>2, <1>3, <1>4, <1>5 DEF Changed

\* Seconds on a server's clock: from zero to below anything FarFuture is near.
LEMMA ClockBounds ==
  ASSUME ClocksRun, NEW d \in Departments
  PROVE  /\ ClockOf(d) \in Int
         /\ Seconds(ClockOf(d)) \in Int
         /\ 0 <= Seconds(ClockOf(d))
         /\ Seconds(ClockOf(d)) < FarFuture - MaxLifetimeSeconds - ClockToleranceSeconds
  <1>1. /\ ClockOf(d) \in Int
        /\ 0 <= ClockOf(d)
        /\ ClockOf(d) < (FarFuture - MaxLifetimeSeconds - ClockToleranceSeconds) * 1000
    <2>1. skew[d] \in Skews /\ now \in Int /\ Begin <= now /\ now <= Horizon
      BY ClockAssumption DEF ClocksRun
    <2>2. /\ skew[d] \in Int
          /\ 0 <= Begin + skew[d]
          /\ Horizon + skew[d]
               < (FarFuture - MaxLifetimeSeconds - ClockToleranceSeconds) * 1000
      BY <2>1, ClockAssumption DEF MILLISECONDS_PER_SECOND
    <2>3. QED
      BY <2>1, <2>2, ClockAssumption, RulesAssumption DEF ClockOf
  <1>2. FarFuture - MaxLifetimeSeconds - ClockToleranceSeconds \in Int
    BY RulesAssumption
  <1>3. QED
    BY <1>1, <1>2, SecondsBounds, SecondsFromBelow, SecondsFromAbove

\* A good token with one claim replaced.
LEMMA HandBuiltTypes ==
  ASSUME ClocksRun, NEW d \in Departments, NEW t \in HandBuilt(d)
  PROVE  t.claims \in Claims
  <1> DEFINE c == Specimen(d)
  <1>1. c \in Claims
    <2> DEFINE r == [audience |-> d, subject |-> None, taskIds |-> None,
                     scopes |-> Scopes,
                     lifetime |-> MaxLifetimeSeconds * MILLISECONDS_PER_SECOND]
    <2>1. r \in AnyRequests
      BY RulesAssumption DEF AnyRequests, MILLISECONDS_PER_SECOND
    <2>2. ClockOf(d) \in Int
      BY ClockBounds
    <2> HIDE DEF r
    <2>3. ClaimsOf(r, ClockOf(d)) \in Claims
      BY <2>1, <2>2, ClaimsOfTypes
    <2>4. QED
      BY <2>3 DEF Specimen, r
  <1>2. PICK e \in Replaced(d, c), a \in Departments : t = Token(e, a)
    BY DEF HandBuilt
  <1>3. Around(d) \subseteq SignedTime
    <2>1. Seconds(ClockOf(d)) \in Int
      BY ClockBounds
    <2>2. QED
      BY <2>1, RulesAssumption DEF Around, SignedTime, TimeClaim, TimeTypes
  <1>4. e \in Claims
    <2>1. Texts({Host}) \subseteq TextClaim /\ Texts(Departments) \subseteq TextClaim
          /\ Texts(Users) \subseteq TextClaim /\ Texts({"uuid"}) \subseteq TextClaim
      BY DEF Texts, TextClaim
    <2>2. [type : TextTypes, digest : BOOLEAN, of : {<<>>} \cup IdLists] \subseteq BindingClaim
      BY DEF BindingClaim
    <2>3. \A v \in TextTypes : [c.scope EXCEPT !.type = v] \in ScopeClaim
      BY <1>1 DEF Claims, ScopeClaim
    <2>4. QED
      BY <1>1, <1>2, <1>3, <2>1, <2>2, <2>3 DEF Replaced, Claims
  <1>5. QED
    BY <1>2, <1>4 DEF Token
-----------------------------------------------------------------------------
(***************************************************************************)
(* Both SDKs judge such a token alike                                      *)
(***************************************************************************)
\* The only integers the two tell apart are those no double can hold, and they
\* are out of time for both.
LEMMA DigitsAreUntimely ==
  ASSUME NEW v \in SignedTime, NEW w \in SignedTime, ClocksRun,
         NEW d \in Departments,
         PyInteger(v), PyInteger(w), PyTimely(v.n, w.n, ClockOf(d))
  PROVE  v.type = "integer" /\ w.type = "integer"
  <1> DEFINE s == Seconds(ClockOf(d))
  <1>1. /\ v.type \in {"integer", "digits"} /\ v.n \in Int
        /\ v.type = "digits" => v.n = FarFuture \/ v.n = -FarFuture
    BY DEF PyInteger, PyIsNumber, PyIsFloat, SignedTime, TimeClaim
  <1>2. /\ w.type \in {"integer", "digits"} /\ w.n \in Int
        /\ w.type = "digits" => w.n = FarFuture \/ w.n = -FarFuture
    BY DEF PyInteger, PyIsNumber, PyIsFloat, SignedTime, TimeClaim
  <1>3. /\ s \in Int /\ 0 <= s
        /\ s < FarFuture - MaxLifetimeSeconds - ClockToleranceSeconds
    BY ClockBounds
  <1>4. /\ ~(w.n + ClockToleranceSeconds <= s)
        /\ ~(v.n - ClockToleranceSeconds > s)
        /\ ~(w.n - v.n > MaxLifetimeSeconds)
    BY DEF PyTimely
  <1> HIDE DEF s
  <1>5. /\ v.n # FarFuture /\ v.n # -FarFuture
        /\ w.n # FarFuture /\ w.n # -FarFuture
    BY <1>1, <1>2, <1>3, <1>4, RulesAssumption
  <1>6. QED
    BY <1>1, <1>2, <1>5

\* Comparing a claim with a string is comparing its type and its characters.
LEMMA TextEquality ==
  ASSUME NEW v \in TextClaim, NEW x
  PROVE  v = Text(x) <=> v.type = "string" /\ v.text = x
  <1>1. v = [type |-> v.type, text |-> v.text]
    BY DEF TextClaim
  <1>2. QED
    BY <1>1 DEF Text

\* What one SDK accepts the other accepts too.
LEMMA SameVerdict ==
  ASSUME NEW t, t.claims \in Claims, ClocksRun, NEW d \in Departments
  PROVE  JsVerifies(t, d, ClockOf(d)) <=> PyVerifies(t, d, ClockOf(d))
  <1> DEFINE c == t.claims
             ms == ClockOf(d)
  <1>1. /\ c.iss = Text(Host) <=> c.iss.type = "string" /\ c.iss.text = Host
        /\ c.aud = Text(d) <=> c.aud.type = "string" /\ c.aud.text = d
    <2>1. c.iss \in TextClaim /\ c.aud \in TextClaim
      BY DEF Claims
    <2>2. QED
      BY <2>1, TextEquality
  <1>2. c.iat \in SignedTime /\ c.exp \in SignedTime
    BY DEF Claims
  <1>3. JsInteger(c.iat) /\ JsInteger(c.exp) /\ JsTimely(c.iat.n, c.exp.n, ms)
          <=> PyInteger(c.iat) /\ PyInteger(c.exp) /\ PyTimely(c.iat.n, c.exp.n, ms)
    <2>1. JsTimely(c.iat.n, c.exp.n, ms) <=> PyTimely(c.iat.n, c.exp.n, ms)
      BY DEF JsTimely, PyTimely
    <2>2. ASSUME JsInteger(c.iat), JsInteger(c.exp)
          PROVE  PyInteger(c.iat) /\ PyInteger(c.exp)
      BY <2>2 DEF JsInteger, PyInteger, PyIsNumber, PyIsFloat
    <2>3. ASSUME PyInteger(c.iat), PyInteger(c.exp), PyTimely(c.iat.n, c.exp.n, ms)
          PROVE  JsInteger(c.iat) /\ JsInteger(c.exp)
      BY <2>3, <1>2, DigitsAreUntimely DEF JsInteger
    <2>4. QED
      BY <2>1, <2>2, <2>3
  <1>4. QED
    BY <1>1, <1>3 DEF JsVerifies, PyVerifies
-----------------------------------------------------------------------------
(***************************************************************************)
(* The invariant is inductive                                              *)
(***************************************************************************)
LEMMA InitIInv == Init => IInv
  <1> SUFFICES ASSUME Init PROVE IInv
    OBVIOUS
  <1>1. ClocksRun
    BY ClockAssumption DEF Init, ClocksRun
  <1>2. SentAsSigned
    BY DEF Init, SentAsSigned
  <1>3. LastAsJudged
    BY DEF Init, Nothing, LastAsJudged
  <1>4. QED
    BY <1>1, <1>2, <1>3 DEF IInv

\* What is known of a token in flight.
LEMMA SentTypes ==
  ASSUME IInv, NEW s \in sent
  PROVE  /\ s.at \in Int /\ Begin <= s.at /\ s.at <= now /\ now \in Int
         /\ s.request \in Requests
         /\ s.token.claims = ClaimsOf(s.request, s.at)
         /\ s.token.claims \in Claims
  <1>1. /\ now \in Begin..Horizon
        /\ s.at \in Begin..now
        /\ s.request \in Requests
        /\ s.token = Token(ClaimsOf(s.request, s.at), s.request.audience)
    BY DEF IInv, ClocksRun, SentAsSigned
  <1>2. s.at \in Int /\ Begin <= s.at /\ s.at <= now /\ now \in Int
    BY <1>1, ClockAssumption
  <1>3. s.token.claims = ClaimsOf(s.request, s.at)
    BY <1>1 DEF Token
  <1>4. QED
    BY <1>1, <1>2, <1>3, RequestTypes, ClaimsOfTypes

\* A server judges a token and records the verdicts.
LEMMA PresentKeepsIInv ==
  ASSUME IInv, NEW t, t.claims \in Claims, NEW d \in Departments, Present(t, d)
  PROVE  IInv'
  <1>1. ClocksRun'
    BY DEF Present, IInv, ClocksRun
  <1>2. SentAsSigned'
    BY DEF Present, IInv, SentAsSigned
  <1>3. LastAsJudged'
    <2>1. ClockOf(d)' = ClockOf(d)
      BY DEF Present, ClockOf
    <2>2. QED
      BY <2>1 DEF Present, LastAsJudged
  <1>4. QED
    BY <1>1, <1>2, <1>3 DEF IInv

\* Every step keeps the invariant.
LEMMA NextIInv == IInv /\ [Next]_tokenVars => IInv'
  <1> SUFFICES ASSUME IInv, [Next]_tokenVars PROVE IInv'
    OBVIOUS
  <1>1. CASE Tick
    <2>1. now' \in Begin..Horizon /\ now <= now'
      BY <1>1, ClockAssumption DEF Tick, IInv, ClocksRun
    <2>2. ClocksRun'
      BY <1>1, <2>1 DEF Tick, IInv, ClocksRun
    <2>3. SentAsSigned'
      <3> SUFFICES ASSUME NEW s \in sent
                   PROVE  s.at \in Begin..now'
        BY <1>1 DEF Tick, IInv, SentAsSigned
      <3>1. QED
        BY <2>1, SentTypes, ClockAssumption
    <2>4. LastAsJudged'
      BY <1>1 DEF Tick, Nothing, LastAsJudged
    <2>5. QED
      BY <2>2, <2>3, <2>4 DEF IInv
  <1>2. ASSUME NEW r \in Requests, NEW by \in {"js", "py"}, Sign(r, by)
        PROVE  IInv'
    <2>1. 0 < r.lifetime /\ r.lifetime <= MaxLifetimeSeconds * 1000
      BY <1>2, RequestTypes DEF Sign, JsSigns, PySigns, MILLISECONDS_PER_SECOND
    <2>2. now \in Begin..now
      BY ClockAssumption DEF IInv, ClocksRun
    <2>3. ClocksRun'
      BY <1>2 DEF Sign, IInv, ClocksRun
    <2>4. SentAsSigned'
      BY <1>2, <2>1, <2>2 DEF Sign, IInv, SentAsSigned
    <2>5. LastAsJudged'
      BY <1>2 DEF Sign, Nothing, LastAsJudged
    <2>6. QED
      BY <2>3, <2>4, <2>5 DEF IInv
  <1>3. ASSUME NEW s \in sent, NEW d \in Departments,
               NEW t \in {s.token} \cup Changed(s.token), Present(t, d)
        PROVE  IInv'
    <2>1. /\ s.token = Token(s.token.claims, s.request.audience)
          /\ s.token.claims \in Claims
          /\ s.token.claims.exp.type \in {"integer", "fraction"}
      <3>1. /\ s.token = Token(ClaimsOf(s.request, s.at), s.request.audience)
            /\ s.token.claims = ClaimsOf(s.request, s.at)
            /\ s.token.claims \in Claims
        BY SentTypes DEF IInv, SentAsSigned
      <3>2. ClaimsOf(s.request, s.at).exp.type \in {"integer", "fraction"}
        BY DEF ClaimsOf, Expiry
      <3>3. QED
        BY <3>1, <3>2
    <2>2. t.claims \in Claims
      BY <2>1, ChangedTypes
    <2>3. QED
      BY <1>3, <2>2, PresentKeepsIInv
  <1>4. ASSUME NEW d \in Departments, NEW t \in HandBuilt(d), Present(t, d)
        PROVE  IInv'
    <2>1. t.claims \in Claims
      BY HandBuiltTypes DEF IInv
    <2>2. QED
      BY <1>4, <2>1, PresentKeepsIInv
  <1>5. CASE UNCHANGED tokenVars
    BY <1>5 DEF tokenVars, IInv, ClocksRun, SentAsSigned, LastAsJudged, ClockOf
  <1>6. QED
    BY <1>1, <1>2, <1>3, <1>4, <1>5 DEF Next

\* Every reachable state satisfies it: a token in flight says what was signed,
\* and the verdicts are those of the clock the server still shows.
THEOREM Invariant == Spec => []IInv
  <1>1. QED
    BY InitIInv, NextIInv, PTL DEF Spec
-----------------------------------------------------------------------------
(***************************************************************************)
(* What follows in every state                                             *)
(***************************************************************************)
\* What the host's token says of its time.
LEMMA SentTimes ==
  ASSUME IInv, NEW s \in sent
  PROVE  /\ s.request.lifetime \in Int /\ 0 < s.request.lifetime
         /\ s.request.lifetime <= MaxLifetimeSeconds * 1000
         /\ s.token.claims.iat.n = Seconds(s.at)
         /\ s.token.claims.exp.n = Seconds(s.at) + s.request.lifetime \div 1000
         /\ s.token.claims.iat.type = "integer"
         /\ s.request.lifetime % 1000 = 0 => s.token.claims.exp.type = "integer"
  <1> DEFINE L == s.request.lifetime
  <1>1. s.request \in Requests /\ s.token.claims = ClaimsOf(s.request, s.at)
        /\ s.at \in Int
    BY SentTypes
  <1>2. L \in Int
    BY <1>1, RequestTypes
  <1>3. Seconds(s.at) \in Int
    BY <1>1, SecondsBounds
  <1>4. 0 < L /\ L <= MaxLifetimeSeconds * 1000
    BY DEF IInv, SentAsSigned
  <1>5. s.token.claims.iat = Integer(Seconds(s.at))
        /\ s.token.claims.exp = Expiry(Seconds(s.at), L)
    BY <1>1 DEF ClaimsOf
  <1>6. /\ s.token.claims.exp.n = Seconds(s.at) + L \div 1000
        /\ L % 1000 = 0 => s.token.claims.exp.type = "integer"
    BY <1>5 DEF Expiry, MILLISECONDS_PER_SECOND
  <1>7. QED
    BY <1>2, <1>4, <1>5, <1>6 DEF Integer

\* The second a token was signed in.
LEMMA SentSeconds ==
  ASSUME IInv, NEW s \in sent
  PROVE  /\ Seconds(s.at) \in Int
         /\ Seconds(s.at) * 1000 <= s.at
         /\ s.at < Seconds(s.at) * 1000 + 1000
  <1> DEFINE a == s.at
  <1>1. a \in Int
    BY SentTypes
  <1> HIDE DEF a
  <1>2. Seconds(a) \in Int /\ Seconds(a) * 1000 <= a /\ a < Seconds(a) * 1000 + 1000
    BY <1>1, SecondsBounds
  <1>3. QED
    BY <1>2 DEF a

\* The lifetime alone, and a server's clock.
LEMMA SentLifetime ==
  ASSUME IInv, NEW s \in sent
  PROVE  /\ s.request.lifetime \in Int /\ 0 < s.request.lifetime
         /\ s.request.lifetime <= MaxLifetimeSeconds * 1000
  BY SentTimes

\* A server's clock is the host's and its skew.
LEMMA SkewTypes ==
  ASSUME IInv, NEW d \in Departments
  PROVE  skew[d] \in Int /\ ClockOf(d) = now + skew[d] /\ ClockOf(d) \in Int
  <1>1. skew[d] \in Int
    BY ClockAssumption DEF IInv, ClocksRun
  <1>2. now \in Int
    BY ClockAssumption DEF IInv, ClocksRun
  <1>3. QED
    BY <1>1, <1>2 DEF ClockOf

\* Types follow from the invariant.
LEMMA IInvTypeOK == IInv => TypeOK
  <1> SUFFICES ASSUME IInv PROVE TypeOK
    OBVIOUS
  <1>1. now \in Begin..Horizon /\ skew \in [Departments -> Skews]
    BY DEF IInv, ClocksRun
  <1>2. ASSUME NEW s \in sent
        PROVE  /\ s.at \in Begin..now
               /\ s.request \in Requests
               /\ s.token.claims.iat.n = Seconds(s.at)
               /\ s.token.claims.exp.n - Seconds(s.at) \in 0..MaxLifetimeSeconds
    <2> DEFINE L == s.request.lifetime
    <2>1. s.at \in Begin..now /\ s.request \in Requests /\ s.at \in Int
      BY SentTypes DEF IInv, SentAsSigned
    <2>2. Seconds(s.at) \in Int
      BY <2>1, SecondsBounds
    <2>3. L \div 1000 \in 0..MaxLifetimeSeconds
      BY SentTimes, LifetimeBounds
    <2>4. s.token.claims.exp.n - Seconds(s.at) = L \div 1000
      <3> HIDE DEF L
      <3>1. s.token.claims.exp.n = Seconds(s.at) + L \div 1000
        BY SentTimes DEF L
      <3>2. L \div 1000 \in Int
        BY <2>3
      <3>3. QED
        BY <3>1, <3>2, <2>2
    <2>5. QED
      BY <2>1, <2>3, <2>4, SentTimes
  <1>3. last.seen => last.at \in Begin..now /\ last.to \in Departments
    BY <1>1, ClockAssumption DEF IInv, LastAsJudged
  <1>4. QED
    BY <1>1, <1>2, <1>3 DEF TypeOK

\* So does that both verdicts are one.
LEMMA IInvAgree == IInv => BothSdksAgree
  <1> SUFFICES ASSUME IInv, last.seen PROVE last.js = last.py
    BY DEF BothSdksAgree
  <1>1. JsVerifies(last.token, last.to, ClockOf(last.to))
          <=> PyVerifies(last.token, last.to, ClockOf(last.to))
    BY SameVerdict DEF IInv, LastAsJudged
  <1>2. QED
    BY <1>1 DEF IInv, LastAsJudged, Judged

\* Whichever SDK accepted a token, JavaScript's conditions hold of it.
LEMMA AcceptedWasVerified ==
  ASSUME IInv, last.seen, last.js.ok \/ last.py.ok
  PROVE  /\ JsVerifies(last.token, last.to, ClockOf(last.to))
         /\ last.js.ok
         /\ last.js.caller = CallerOf(last.token.claims)
  <1>1. last.js.ok
    BY IInvAgree DEF BothSdksAgree
  <1>2. QED
    BY <1>1 DEF IInv, LastAsJudged, Judged

\* An accepted token, for a clock c of the server: rounding never costs more
\* than it may.
LEMMA FreshVerdict ==
  ASSUME IInv, NEW s \in sent, NEW c \in Int,
         JsTimely(s.token.claims.iat.n, s.token.claims.exp.n, c)
  PROVE  /\ c < s.at + s.request.lifetime + ClockToleranceSeconds * 1000
         /\ s.at < c + (ClockToleranceSeconds + 1) * 1000
  <1> DEFINE L == s.request.lifetime
             iat == s.token.claims.iat.n
             exp == s.token.claims.exp.n
             q == L \div 1000
  <1>1. s.at \in Int /\ L \in Int
    BY SentTypes, SentLifetime
  <1>2. q \in Int /\ q * 1000 <= L
    BY SentLifetime, LifetimeBounds
  <1>3. iat \in Int /\ iat = Seconds(s.at)
    BY SentSeconds, SentTimes
  <1>4. exp = Seconds(s.at) + q
    BY SentTimes
  <1> DEFINE sc == Seconds(c)
  <1>5. sc \in Int /\ sc * 1000 <= c /\ c < sc * 1000 + 1000
    BY SecondsBounds
  <1>6. iat * 1000 <= s.at /\ s.at < iat * 1000 + 1000
    BY <1>3, SentSeconds
  <1>7. ~(exp + ClockToleranceSeconds <= sc) /\ ~(iat - ClockToleranceSeconds > sc)
    BY DEF JsTimely
  <1> HIDE DEF L, iat, exp, q, sc
  <1>8. exp = iat + q
    BY <1>3, <1>4
  <1>9. c < s.at + L + ClockToleranceSeconds * 1000
        /\ s.at < c + (ClockToleranceSeconds + 1) * 1000
    BY <1>1, <1>2, <1>3, <1>5, <1>6, <1>7, <1>8, RulesAssumption
  <1>10. QED
    BY <1>9 DEF L

\* So does that an accepted token is fresh.
LEMMA IInvFresh == IInv => AcceptedIsFresh
  <1> SUFFICES ASSUME IInv, last.seen, NEW s \in sent, last.token = s.token,
                      last.js.ok \/ last.py.ok
               PROVE  /\ last.at - s.at < s.request.lifetime
                            + ClockToleranceSeconds * MILLISECONDS_PER_SECOND
                            - skew[last.to]
                      /\ s.at - (last.at + skew[last.to])
                           < (ClockToleranceSeconds + 1) * MILLISECONDS_PER_SECOND
    BY DEF AcceptedIsFresh, Accepted
  <1> DEFINE d == last.to
             c == ClockOf(d)
             L == s.request.lifetime
  <1>1. /\ s.at \in Int /\ now \in Int /\ d \in Departments /\ last.at = now
        /\ L \in Int /\ 0 < L /\ L <= MaxLifetimeSeconds * 1000
    BY SentTypes, SentLifetime DEF IInv, LastAsJudged
  <1>2. skew[d] \in Int /\ c = now + skew[d] /\ c \in Int
    BY <1>1, SkewTypes
  <1>3. JsTimely(s.token.claims.iat.n, s.token.claims.exp.n, c)
    BY AcceptedWasVerified DEF JsVerifies
  <1>5. c < s.at + L + ClockToleranceSeconds * 1000
        /\ s.at < c + (ClockToleranceSeconds + 1) * 1000
    BY <1>2, <1>3, FreshVerdict
  <1>6. now - s.at < L + ClockToleranceSeconds * 1000 - skew[d]
        /\ s.at - (now + skew[d]) < (ClockToleranceSeconds + 1) * 1000
    <2> HIDE DEF d, c, L
    <2>1. QED
      BY <1>1, <1>2, <1>5, RulesAssumption
  <1>7. QED
    BY <1>1, <1>6 DEF MILLISECONDS_PER_SECOND

\* The arithmetic of an honest token: its clock is at or after its signing,
\* before its expiry, and read with an error e of the tolerance at most.
LEMMA HonestArithmetic ==
  ASSUME NEW a \in Int, NEW n \in Int, NEW e \in Int, NEW q \in Int,
         0 < q, q <= MaxLifetimeSeconds, a <= n,
         e <= ClockToleranceSeconds * 1000, -e <= ClockToleranceSeconds * 1000,
         n < Seconds(a) * 1000 + q * 1000,
         NEW iat \in Int, iat = Seconds(a), NEW exp \in Int, exp = iat + q,
         NEW c \in Int, c = n + e
  PROVE  JsTimely(iat, exp, c)
  <1> DEFINE sa == Seconds(a)
             sc == Seconds(c)
  <1>1. q \in Int /\ 0 < q /\ q <= MaxLifetimeSeconds
    OBVIOUS
  <1>2. sa \in Int /\ sa * 1000 <= a /\ ClockToleranceSeconds \in Int
    BY SecondsBounds, RulesAssumption
  <1>3. sc \in Int
    BY SecondsBounds
  <1>4. sc < sa + q + ClockToleranceSeconds
    <2>1. n + e < (sa + q + ClockToleranceSeconds) * 1000
      BY <1>1, <1>2
    <2>2. sa + q + ClockToleranceSeconds \in Int /\ n + e \in Int
      BY <1>1, <1>2
    <2>3. QED
      BY <2>1, <2>2, SecondsFromAbove
  <1>5. sa - ClockToleranceSeconds <= sc
    <2>1. (sa - ClockToleranceSeconds) * 1000 <= n + e
      BY <1>1, <1>2
    <2>2. sa - ClockToleranceSeconds \in Int /\ n + e \in Int
      BY <1>1, <1>2
    <2>3. QED
      BY <2>1, <2>2, SecondsFromBelow
  <1> HIDE DEF sa, sc
  <1>6. /\ ~(exp + ClockToleranceSeconds <= sc)
        /\ ~(iat - ClockToleranceSeconds > sc)
        /\ ~(exp <= iat \/ exp - iat > MaxLifetimeSeconds)
    <2>1. iat = sa
      BY DEF sa
    <2>2. QED
      BY <2>1, <1>1, <1>2, <1>3, <1>4, <1>5, RulesAssumption
  <1>7. QED
    BY <1>6 DEF JsTimely, sc

\* The claims of a host's token, one by one.
LEMMA ClaimsOfFields ==
  ASSUME NEW r, NEW ms
  PROVE  LET c == ClaimsOf(r, ms)
         IN  /\ c.iss = Text(Host) /\ c.aud = Text(r.audience)
             /\ c.jti = Text("uuid")
             /\ c.sub = IF r.subject = None THEN AbsentText ELSE Text(r.subject)
             /\ c.binding = IF r.taskIds = None THEN AbsentBinding ELSE Digest(r.taskIds)
             /\ c.scope.type = "string" /\ c.scope.words = r.scopes
  BY DEF ClaimsOf

\* Everything but its time is right about a token at the server it is for.
LEMMA HonestVerifies ==
  ASSUME IInv, NEW s \in sent, s.request.subject # NoText, NEW ms,
         JsInteger(s.token.claims.iat), JsInteger(s.token.claims.exp),
         JsTimely(s.token.claims.iat.n, s.token.claims.exp.n, ms)
  PROVE  JsVerifies(s.token, s.request.audience, ms)
  <1> DEFINE r == s.request
             c == s.token.claims
  <1>1. s.token = Token(ClaimsOf(r, s.at), r.audience) /\ c = ClaimsOf(r, s.at)
    BY SentTypes DEF IInv, SentAsSigned
  <1>2. /\ c.iss = Text(Host) /\ c.aud = Text(r.audience)
        /\ c.jti = Text("uuid") /\ c.scope.type = "string"
    BY <1>1, ClaimsOfFields
  <1>3. FilledText(c.jti)
    <2>1. "uuid" # NoText
      BY Zenon DEF NoText
    <2>2. QED
      BY <1>2, <2>1 DEF Text, FilledText
  <1>4. c.sub.type = "absent" \/ FilledText(c.sub)
    <2>1. c.sub = IF r.subject = None THEN AbsentText ELSE Text(r.subject)
      BY <1>1, ClaimsOfFields
    <2>2. QED
      BY <2>1 DEF Text, AbsentText, FilledText
  <1>5. c.binding.type = "absent" \/ (c.binding.type = "string" /\ c.binding.digest)
    <2>1. c.binding = IF r.taskIds = None THEN AbsentBinding ELSE Digest(r.taskIds)
      BY <1>1, ClaimsOfFields
    <2>2. QED
      BY <2>1 DEF AbsentBinding, Digest
  <1>6. s.token.readable
    BY <1>1 DEF Token
  <1>7. s.token.alg = "HS256" /\ s.token.signature = Signature("HS256", c, r.audience)
    BY <1>1 DEF Token
  <1>8. QED
    BY <1>2, <1>3, <1>4, <1>5, <1>6, <1>7 DEF JsVerifies

\* By the server's clock the token is timely, and its times are integers.
LEMMA HonestIsTimely ==
  ASSUME IInv, NEW s \in sent, NEW d \in Departments, WithinTolerance(d),
         s.request.lifetime % 1000 = 0,
         now < Seconds(s.at) * 1000 + s.request.lifetime
  PROVE  /\ JsInteger(s.token.claims.iat) /\ JsInteger(s.token.claims.exp)
         /\ JsTimely(s.token.claims.iat.n, s.token.claims.exp.n, ClockOf(d))
  <1> DEFINE L == s.request.lifetime
             e == skew[d]
  <1>1. s.at \in Int /\ now \in Int /\ s.at <= now
    BY SentTypes
  <1>2. L \in Int /\ 0 < L /\ L <= MaxLifetimeSeconds * 1000
    BY SentLifetime
  <1>3. e \in Int /\ ClockOf(d) = now + e
    BY SkewTypes
  <1>4. e <= ClockToleranceSeconds * 1000 /\ -e <= ClockToleranceSeconds * 1000
    BY DEF WithinTolerance, MILLISECONDS_PER_SECOND
  <1>5. /\ s.token.claims.iat.type = "integer" /\ s.token.claims.exp.type = "integer"
        /\ s.token.claims.iat.n = Seconds(s.at)
        /\ s.token.claims.exp.n = Seconds(s.at) + L \div 1000
    BY SentTimes
  <1>6. PICK q \in Int : /\ L = q * 1000 /\ 0 < q /\ q <= MaxLifetimeSeconds
                         /\ s.token.claims.exp.n = Seconds(s.at) + q
    BY <1>2, <1>5, LifetimeBounds
  <1>7. JsTimely(s.token.claims.iat.n, s.token.claims.exp.n, ClockOf(d))
    <2>1. Seconds(s.at) \in Int /\ ClockOf(d) \in Int
      BY SentSeconds, SkewTypes
    <2>2. /\ s.token.claims.iat.n \in Int
          /\ s.token.claims.exp.n \in Int
          /\ s.token.claims.exp.n = s.token.claims.iat.n + q
      BY <1>5, <1>6, <2>1
    <2>3. now < Seconds(s.at) * 1000 + q * 1000
      BY <1>6
    <2>4. QED
      BY <1>1, <1>3, <1>4, <1>5, <1>6, <2>1, <2>2, <2>3, HonestArithmetic
  <1>8. QED
    BY <1>5, <1>7 DEF JsInteger

\* So does that an honest token is accepted.
LEMMA IInvHonest == IInv => HonestIsAccepted
  <1> SUFFICES ASSUME IInv, last.seen, NEW s \in sent, last.token = s.token,
                      last.to = s.request.audience, s.request.subject # NoText,
                      s.request.lifetime % 1000 = 0, WithinTolerance(last.to),
                      last.at < Seconds(s.at) * 1000 + s.request.lifetime
               PROVE  last.js.ok /\ last.py.ok
    BY DEF HonestIsAccepted, MILLISECONDS_PER_SECOND
  <1>1. last.to \in Departments /\ last.at = now
    BY DEF IInv, LastAsJudged
  <1>2. JsVerifies(last.token, last.to, ClockOf(last.to))
    BY <1>1, HonestIsTimely, HonestVerifies
  <1>3. last.js.ok
    BY <1>2 DEF IInv, LastAsJudged, Judged
  <1>4. QED
    BY <1>3, IInvAgree DEF BothSdksAgree

\* A signature is of one list of claims, with one secret.
LEMMA SignatureFields ==
  ASSUME NEW a, NEW c, NEW k
  PROVE  Signature(a, c, k).claims = c /\ Signature(a, c, k).secret = k
  BY DEF Signature

\* A token carries the signature of its own claims.
LEMMA TokenSignature ==
  ASSUME NEW c, NEW k
  PROVE  Token(c, k).signature = Signature("HS256", c, k)
  BY DEF Token

\* A caller the token named, if it carries the host's signature.
LEMMA IInvCaller == IInv => CallerIsWhoTheHostNamed
  <1> SUFFICES ASSUME IInv, last.seen, last.js.ok, NEW s \in sent,
                      last.token.signature = s.token.signature
               PROVE  /\ last.to = s.request.audience
                      /\ last.js.caller.subject = s.request.subject
                      /\ last.js.caller.scopes = s.request.scopes
    BY DEF CallerIsWhoTheHostNamed
  <1> DEFINE r == s.request
             c == last.token.claims
  <1>1. /\ last.token.signature = Signature(last.token.alg, c, last.to)
        /\ last.js.caller = CallerOf(c)
    BY AcceptedWasVerified DEF JsVerifies
  <1>2. s.token.signature = Signature("HS256", ClaimsOf(r, s.at), r.audience)
    BY TokenSignature DEF IInv, SentAsSigned
  <1>3. c = ClaimsOf(r, s.at) /\ last.to = r.audience
    <2>1. last.token.signature.claims = c /\ last.token.signature.secret = last.to
      BY <1>1, SignatureFields
    <2>2. /\ s.token.signature.claims = ClaimsOf(r, s.at)
          /\ s.token.signature.secret = r.audience
      BY <1>2, SignatureFields
    <2>3. QED
      BY <2>1, <2>2
  <1>4. /\ c.sub = IF r.subject = None THEN AbsentText ELSE Text(r.subject)
        /\ c.scope.words = r.scopes
    BY <1>3, ClaimsOfFields
  <1>5. CallerOf(c).subject = r.subject
    BY <1>4 DEF CallerOf, AbsentText, Text
  <1>6. CallerOf(c).scopes = r.scopes
    BY <1>4 DEF CallerOf
  <1>7. QED
    BY <1>1, <1>3, <1>5, <1>6

\* A list that is covered is the list that was signed.
LEMMA IInvCovered == IInv => CoveredIsWhatWasSigned
  <1> SUFFICES ASSUME IInv, last.seen, NEW s \in sent, last.token = s.token, last.js.ok,
                      NEW ids \in IdLists,
                      JsCovers(last.js.caller, ids) \/ PyCovers(last.py.caller, ids)
               PROVE  ids = s.request.taskIds /\ s.request.subject \in Users
    BY DEF CoveredIsWhatWasSigned, Accepted
  <1> DEFINE r == s.request
             c == s.token.claims
             k == last.js.caller
  <1>1. /\ k = CallerOf(c)
        /\ c.sub.type = "absent" \/ FilledText(c.sub)
    BY AcceptedWasVerified DEF JsVerifies
  <1>2. k.subject # None /\ k.bound /\ k.binding = ids
    BY IInvAgree DEF BothSdksAgree, JsCovers, PyCovers
  <1>3. /\ r \in Requests /\ c = ClaimsOf(r, s.at)
    BY SentTypes
  <1>4. /\ c.sub = IF r.subject = None THEN AbsentText ELSE Text(r.subject)
        /\ c.binding = IF r.taskIds = None THEN AbsentBinding ELSE Digest(r.taskIds)
    BY <1>3, ClaimsOfFields
  <1>5. ids = r.taskIds
    <2>1. k.bound = (c.binding.type = "string") /\ k.binding = c.binding.of
      BY <1>1 DEF CallerOf
    <2>2. c.binding.type = "string" /\ c.binding.of = ids
      BY <1>2, <2>1
    <2>3. QED
      BY <1>4, <2>2 DEF AbsentBinding, Digest
  <1>6. r.subject \in Users
    <2>1. r.subject # None
      BY <1>1, <1>2, <1>4 DEF CallerOf, AbsentText
    <2>2. r.subject # NoText
      BY <1>1, <1>4, <2>1 DEF FilledText, Text
    <2>3. QED
      BY <1>3, <2>1, <2>2, RequestTypes
  <1>7. QED
    BY <1>5, <1>6
-----------------------------------------------------------------------------
(***************************************************************************)
(* The theorems                                                            *)
(***************************************************************************)
\* Whatever is signed lives no longer than the contract's maximum, for any
\* number of tokens, servers and ticks.
THEOREM TypeCorrect == Spec => []TypeOK
  <1>1. QED
    BY Invariant, IInvTypeOK, PTL

\* However a token travels, no server accepts it longer than its lifetime, the
\* tolerance and the server's lag allow: a captured token goes stale.
THEOREM Freshness == Spec => []AcceptedIsFresh
  <1>1. QED
    BY Invariant, IInvFresh, PTL

\* And none refuses an honest one while its clock is within the tolerance.
THEOREM HonestyPays == Spec => []HonestIsAccepted
  <1>1. QED
    BY Invariant, IInvHonest, PTL

\* A department may change its SDK without a caller noticing.
THEOREM OneVerdict == Spec => []BothSdksAgree
  <1>1. QED
    BY Invariant, IInvAgree, PTL

\* A signature binds department, requester and scopes together.
THEOREM NamedCaller == Spec => []CallerIsWhoTheHostNamed
  <1>1. QED
    BY Invariant, IInvCaller, PTL

\* A status read goes through for the signed list of ids and for no other.
THEOREM CoveredRead == Spec => []CoveredIsWhatWasSigned
  <1>1. QED
    BY Invariant, IInvCovered, PTL
=============================================================================
