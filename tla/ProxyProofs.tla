----------------------------- MODULE ProxyProofs -----------------------------
(***************************************************************************)
(* Proofs about internal/proxy: the HTTP proxy (HttpProxy), for any hosts, *)
(* registrations and requests, any number of requests at once and any      *)
(* limits, and the rate limiter that it asks (RateLimit), for any keys,    *)
(* callers, bursts and registry size.                                      *)
(***************************************************************************)
EXTENDS HttpProxy, RateLimit, FiniteSetTheorems, SequenceTheorems, TLAPS

-----------------------------------------------------------------------------
(* HttpProxy *)

(* The type of the state. *)
Config == [allowed : SUBSET Hosts, base : SUBSET Hosts,
           baseURL : URL \cup {NoURL},
           auth : {"none", "missing", "header", "kerberos", "unregistered"},
           mtls : BOOLEAN]

Hop == [url : URL \cup {NoURL}, auth : BOOLEAN, body : BOOLEAN]

Early == {"idle", "domains", "reread", "resolve"}
Late == {"limit", "check", "send", "wire", "sso", "replay"}

Exec == [pc : Early \cup Late \cup {"done"}, pa : Config, req : Request,
         asks : 0..MaxRateRetries, attempt : 0..MaxRetries, hop : Hop,
         hops : 0..MaxRedirects, answered : Nat, retried : BOOLEAN,
         flow : {"none", "reactive", "form", "redirect", "replayed"},
         legs : Nat,
         res : {"none", "no_config", "invalid_url", "rate_limited",
                "request_cancelled", "method_not_allowed", "auth_required",
                "auth_failed", "transport_error", "original", "response"}]

TargetOf(x) == IF x.req.url # NoURL THEN x.req.url ELSE x.pa.baseURL

(* A configuration whose domains are all anchored in A: its base domains,  *)
(* against which request domains are validated, are in A themselves.       *)
Rooted(pa, A) ==
  /\ pa.base \subseteq A
  /\ \A h \in pa.allowed : IsSubdomain(h, A)
  /\ pa.baseURL # NoURL => IsSubdomain(pa.baseURL.host, A)

(* One request: its copy of the configuration, its target once resolved,   *)
(* and the hop it is at.                                                   *)
Confined(x, A) ==
  /\ Rooted(x.pa, A)
  /\ x.pc \in Late => TargetOf(x) # NoURL /\ IsSubdomain(TargetOf(x).host, A)
  /\ x.hop # NoHop => x.hop.url # NoURL /\ IsSubdomain(x.hop.url.host, A)
  /\ x.pc = "wire" => x.hop # NoHop

(* Where credentials are available, the whole chain is HTTPS.              *)
Secure(x) ==
  /\ x.pc \in Late /\ AuthAvailable(x.pa) => TargetOf(x).scheme = "https"
  /\ x.pc = "wire" =>
       /\ AuthAvailable(x.pa) => x.hop.url.scheme = "https"
       /\ x.hop.auth => AuthAvailable(x.pa)
       /\ x.hop.auth \/ x.hop.body => x.hop.url.host = TargetOf(x).host
  /\ x.pc = "sso" /\ x.hop.auth => x.hop.url.scheme = "https"

(* How many answers a request can have had where it is: one per attempt,   *)
(* one more once a challenge has been answered, and the replay's.          *)
Answers(x) == IF isIdempotent(x.req.method) THEN MaxRetries + 2 ELSE 1

Counted(x) ==
  /\ ~isIdempotent(x.req.method) => x.attempt = 0
  /\ x.pc \in Early \cup {"limit", "check", "send"} => x.flow = "none"
  /\ x.pc = "wire" =>
       x.flow = "none" \/ (x.flow = "replayed" /\ isIdempotent(x.req.method))
  /\ x.pc = "sso" => x.flow \in {"reactive", "form", "redirect"}
  /\ x.pc = "replay" => x.flow = "replayed" /\ isIdempotent(x.req.method)
  /\ x.pc # "done" /\ x.flow = "none" => x.answered <= x.attempt
  /\ x.pc # "done" => x.answered <= x.attempt + 1
  /\ x.answered <= Answers(x)

Sound(x, A) == x \in Exec /\ Confined(x, A) /\ Secure(x) /\ Counted(x)

ProxyInv ==
  /\ plugin \in Config
  /\ anchors \subseteq Hosts
  /\ registered \in 0..MaxRegistrations
  /\ cooldown \in BOOLEAN
  /\ Rooted(plugin, anchors)
  /\ plugin.base \subseteq plugin.allowed
  /\ DOMAIN ex = Execs /\ ex = [e \in Execs |-> ex[e]]
  /\ \A e \in Execs : Sound(ex[e], anchors)

----------------------------------------------------------------------------
(* The admitted list keeps what was allowed and adds nothing but what was  *)
(* asked for.                                                              *)
LEMMA AdmittedBounds ==
  ASSUME NEW A, NEW D, NEW a \in Admitted(A, D)
  PROVE  A \subseteq a /\ a \subseteq A \cup D
  BY DEF Admitted

LEMMA LimitsNat ==
  /\ MaxRetries \in Nat /\ MaxRateRetries \in Nat /\ MaxRedirects \in Nat
  /\ SamlMaxLegs \in Nat /\ MaxRegistrations \in Nat
  BY ProxyAssumption

LEMMA Unregistered == NotRegistered \in Config /\ \A A : Rooted(NotRegistered, A)
<1>1. NotRegistered \in Config BY DEF NotRegistered, Config
<1> QED BY <1>1 DEF NotRegistered, Rooted

LEMMA NotStartedSound == ASSUME NEW A PROVE Sound(NotStarted, A)
<1>1. NoRequest \in Request BY DEF NoRequest, Request, Methods
<1>2. NoHop \in Hop BY DEF NoHop, Hop
<1>3. NotStarted \in Exec
  BY <1>1, <1>2, Unregistered, ProxyAssumption
     DEF NotStarted, Exec, Early, Late
<1>4. Confined(NotStarted, A)
  BY Unregistered DEF Confined, NotStarted, Late
<1>5. Secure(NotStarted) BY DEF Secure, NotStarted, Late
<1>6. Counted(NotStarted)
  BY ProxyAssumption DEF Counted, NotStarted, NoRequest, Answers, Early
<1> QED BY <1>3, <1>4, <1>5, <1>6 DEF Sound

(* More anchors never harm. *)
LEMMA RootedGrows ==
  ASSUME NEW pa, NEW A, NEW B, A \subseteq B, Rooted(pa, A)
  PROVE  Rooted(pa, B)
  BY DEF Rooted, IsSubdomain

LEMMA SoundGrows ==
  ASSUME NEW x, NEW A, NEW B, A \subseteq B, Sound(x, A)
  PROVE  Sound(x, B)
<1>1. Rooted(x.pa, B) BY RootedGrows DEF Sound, Confined
<1> QED BY <1>1 DEF Sound, Confined, IsSubdomain

(* A request that returns. *)
Codes == {"none", "no_config", "invalid_url", "rate_limited",
          "request_cancelled", "method_not_allowed", "auth_required",
          "auth_failed", "transport_error", "original", "response"}

LEMMA ReturnedSound ==
  ASSUME NEW x \in Exec, NEW A, NEW code \in Codes, x.answered <= Answers(x)
  PROVE  Sound(Returned(x, code), A)
<1> DEFINE r == Returned(x, code)
<1>1. NotStarted \in Exec BY NotStartedSound DEF Sound
<1>2. /\ r \in Exec
      /\ r.pc = "done" /\ r.pa = NotRegistered /\ r.req = x.req
      /\ r.hop = NoHop /\ r.attempt = 0 /\ r.answered = x.answered
  BY <1>1 DEF Returned, Exec, NotStarted, Codes
<1>3. Confined(r, A) BY <1>2, Unregistered DEF Confined, Late
<1>4. Secure(r) BY <1>2 DEF Secure, Late
<1>5. Counted(r) BY <1>2 DEF Counted, Answers, Early
<1> QED BY <1>2, <1>3, <1>4, <1>5 DEF Sound

----------------------------------------------------------------------------
LEMMA StepSound ==
  ASSUME ProxyInv, NEW e \in Execs, NEW r, Sound(r, anchors), Step(e, r),
         UNCHANGED <<plugin, anchors, registered>>, cooldown' \in BOOLEAN
  PROVE  ProxyInv'
<1>1. ex' = [ex EXCEPT ![e] = r] BY DEF Step
<1>2. DOMAIN ex' = Execs /\ ex' = [d \in Execs |-> ex'[d]]
  BY <1>1 DEF ProxyInv
<1>3. \A d \in Execs : Sound(ex'[d], anchors)
  BY <1>1 DEF ProxyInv
<1> QED BY <1>2, <1>3 DEF ProxyInv

LEMMA DoneSound ==
  ASSUME ProxyInv, NEW e \in Execs, NEW code \in Codes, Done(e, code),
         UNCHANGED <<plugin, anchors, registered>>, cooldown' \in BOOLEAN
  PROVE  ProxyInv'
<1>1. Sound(ex[e], anchors) BY DEF ProxyInv
<1>2. Sound(Returned(ex[e], code), anchors)
  BY <1>1, ReturnedSound DEF Sound, Counted
<1> QED BY <1>2, StepSound DEF Done

----------------------------------------------------------------------------
(* Execute, one lemma per group of steps. *)
Quiet == UNCHANGED <<plugin, anchors, registered>> /\ cooldown' \in BOOLEAN

LEMMA SnapshotInv ==
  ASSUME ProxyInv, NEW e \in Execs, NEW q \in Inputs[e], Snapshot(e, q)
  PROVE  ProxyInv'
<1>1. Quiet BY DEF Snapshot, ProxyInv, Quiet
<1>2. CASE Done(e, "no_config") BY <1>1, <1>2, DoneSound DEF Quiet, Codes
<1>3. ASSUME NEW d \in SUBSET q.domains,
             Step(e, [NotStarted EXCEPT !.pa = plugin,
                        !.pc = IF d = {} THEN "resolve" ELSE "domains",
                        !.req = [q EXCEPT !.domains = d]])
      PROVE  ProxyInv'
  <2> DEFINE q1 == [q EXCEPT !.domains = d]
             to == IF d = {} THEN "resolve" ELSE "domains"
             r == [NotStarted EXCEPT !.pa = plugin, !.pc = to, !.req = q1]
  <2>1. Sound(NotStarted, anchors) BY NotStartedSound
  <2>2. q \in Request BY RequestAssumption
  <2>3. q1 \in Request BY <2>2 DEF Request
  <2>4. to \in Early BY DEF Early
  <2> HIDE DEF q1, to
  <2>5. /\ r \in Exec
        /\ r.pc = to /\ r.pa = plugin /\ r.hop = NoHop
        /\ r.flow = "none" /\ r.answered = 0 /\ r.attempt = 0
    BY <2>1, <2>3, <2>4 DEF Sound, Exec, NotStarted, ProxyInv
  <2>6. r.pc \notin Late \cup {"done"} BY <2>4, <2>5 DEF Early, Late
  <2>7. Confined(r, anchors) BY <2>5, <2>6 DEF Confined, Late, ProxyInv
  <2>8. Secure(r) BY <2>6 DEF Secure, Late
  <2>9. Counted(r)
    BY <2>4, <2>5, <2>6, ProxyAssumption DEF Counted, Answers, Late
  <2>10. Sound(r, anchors) BY <2>5, <2>7, <2>8, <2>9 DEF Sound
  <2> QED BY <1>1, <1>3, <2>10, StepSound DEF Quiet, q1, to
<1> QED BY <1>2, <1>3 DEF Snapshot

(* A request that changes only its program counter and its wait counter.   *)
LEMMA MoveSound ==
  ASSUME NEW x, NEW A, Sound(x, A), NEW to \in Early \cup {"limit", "check", "send"},
         NEW n \in 0..MaxRateRetries, x.pc \in Early \cup {"limit", "check"},
         to \in Late => x.pc \in Late
  PROVE  Sound([x EXCEPT !.pc = to, !.asks = n], A)
<1> DEFINE r == [x EXCEPT !.pc = to, !.asks = n]
<1>1. /\ r \in Exec /\ r.pc = to
      /\ r.pa = x.pa /\ r.req = x.req /\ r.hop = x.hop /\ r.flow = x.flow
      /\ r.answered = x.answered /\ r.attempt = x.attempt
  BY DEF Sound, Exec, Early, Late
<1>2. TargetOf(r) = TargetOf(x) BY <1>1 DEF TargetOf
<1>3. to # "wire" /\ to # "sso" /\ to # "replay" /\ to # "done" /\ x.pc # "done"
  BY DEF Early
<1>4. Confined(r, A) BY <1>1, <1>2, <1>3 DEF Sound, Confined
<1>5. Secure(r) BY <1>1, <1>2, <1>3 DEF Sound, Secure
<1>6. Counted(r) BY <1>1, <1>3 DEF Sound, Counted, Answers
<1> QED BY <1>1, <1>4, <1>5, <1>6 DEF Sound

LEMMA RereadInv ==
  ASSUME ProxyInv, NEW e \in Execs, RereadAllowed(e) PROVE ProxyInv'
<1> DEFINE x == ex[e]
           a == IF plugin = NotRegistered THEN x.pa.allowed ELSE plugin.allowed
           c == [x.pa EXCEPT !.allowed = a]
           r == [x EXCEPT !.pc = "resolve", !.pa = c]
<1>1. Quiet /\ x.pc = "reread" BY DEF RereadAllowed, ProxyInv, Quiet, On
<1>2. Sound(x, anchors) BY DEF ProxyInv
<1>3. /\ a \in SUBSET Hosts /\ \A h \in a : IsSubdomain(h, anchors)
      /\ x.pa \in Config
  BY <1>2 DEF ProxyInv, Rooted, Sound, Confined, Exec, Config
<1> HIDE DEF a
<1>4. c \in Config /\ Rooted(c, anchors)
  BY <1>2, <1>3 DEF Config, Rooted, Sound, Confined
<1> HIDE DEF c
<1>5. /\ r \in Exec /\ r.pc = "resolve" /\ r.pa = c /\ r.hop = x.hop
      /\ r.req = x.req /\ r.flow = x.flow /\ r.answered = x.answered
      /\ r.attempt = x.attempt
  BY <1>2, <1>4 DEF Sound, Exec, Early
<1>6. Confined(r, anchors) BY <1>2, <1>4, <1>5 DEF Confined, Sound, Late
<1>7. Secure(r) BY <1>5 DEF Secure, Late
<1>8. Counted(r) BY <1>1, <1>2, <1>5 DEF Counted, Sound, Answers, Early
<1>9. Sound(r, anchors) BY <1>5, <1>6, <1>7, <1>8 DEF Sound
<1>10. Step(e, r) BY DEF RereadAllowed, Step, a, c
<1> QED BY <1>1, <1>9, <1>10, StepSound DEF Quiet

LEMMA TargetIs ==
  ASSUME NEW e \in Execs PROVE Target(e) = TargetOf(ex[e])
  BY DEF Target, TargetOf, Req

(* The request's target is settled: a URL of an allowed host, or of the    *)
(* registered base URL, and HTTPS where credentials are available.         *)
LEMMA ResolveInv ==
  ASSUME ProxyInv, NEW e \in Execs, ResolveURL(e) PROVE ProxyInv'
<1> DEFINE x == ex[e]
           c == [x.pa EXCEPT !.base = {}]
           q == [x.req EXCEPT !.domains = {}]
           r == [x EXCEPT !.pc = "limit", !.pa = c, !.req = q]
<1>1. Quiet /\ x.pc = "resolve" BY DEF ResolveURL, ProxyInv, Quiet, On
<1>2. Sound(x, anchors) BY DEF ProxyInv
<1>3. CASE ~Resolves(e)
  BY <1>1, <1>3, DoneSound DEF ResolveURL, Quiet, Codes
<1>4. CASE Resolves(e)
  <2>1. /\ c \in Config /\ q \in Request
        /\ c.allowed = x.pa.allowed /\ c.base = {} /\ c.auth = x.pa.auth
        /\ c.baseURL = x.pa.baseURL /\ q.url = x.req.url
        /\ q.method = x.req.method
    BY <1>2 DEF Sound, Exec, Config, Request
  <2>2. Step(e, r) BY <1>4 DEF ResolveURL, Step
  <2> HIDE DEF c, q
  <2>3. /\ r \in Exec /\ r.pc = "limit" /\ r.pa = c /\ r.hop = x.hop
        /\ r.req = q /\ r.flow = x.flow /\ r.answered = x.answered
        /\ r.attempt = x.attempt
    BY <1>2, <2>1 DEF Sound, Exec, Late
  <2>4. TargetOf(r) = TargetOf(x) BY <2>1, <2>3 DEF TargetOf
  <2>5. TargetOf(x) # NoURL /\ IsSubdomain(TargetOf(x).host, anchors)
    <3>1. CASE x.req.url # NoURL
      BY <1>2, <1>4, <3>1 DEF Resolves, Req, TargetOf, Sound, Confined, Rooted
    <3>2. CASE x.req.url = NoURL
      BY <1>2, <1>4, <3>2, TargetIs
         DEF Resolves, Req, TargetOf, Sound, Confined, Rooted
    <3> QED BY <3>1, <3>2
  <2>6. AuthAvailable(c) => TargetOf(x).scheme = "https"
    BY <1>4, <2>1, TargetIs DEF Resolves, AuthAvailable
  <2>7. Confined(r, anchors)
    BY <1>2, <2>1, <2>3, <2>4, <2>5 DEF Confined, Sound, Rooted
  <2>8. Secure(r) BY <2>3, <2>4, <2>6 DEF Secure
  <2>9. Counted(r)
    BY <1>1, <1>2, <2>1, <2>3 DEF Counted, Sound, Answers, Early
  <2>10. Sound(r, anchors) BY <2>3, <2>7, <2>8, <2>9 DEF Sound
  <2> QED BY <1>1, <2>2, <2>10, StepSound DEF Quiet
<1> QED BY <1>3, <1>4

LEMMA LimitInv ==
  ASSUME ProxyInv, NEW e \in Execs,
         \/ \E a \in {"now", "soon", "late"}, b \in BOOLEAN : RateLimited(e, a, b)
         \/ CheckMethod(e)
  PROVE  ProxyInv'
<1> DEFINE x == ex[e]
<1>1. Quiet /\ x.pc \in {"limit", "check"}
  BY DEF RateLimited, CheckMethod, ProxyInv, Quiet, On
<1>2. Sound(x, anchors) /\ x \in Exec BY DEF ProxyInv, Sound
<1>3. ASSUME NEW code \in Codes, Done(e, code) PROVE ProxyInv'
  BY <1>1, <1>3, DoneSound DEF Quiet
<1>4. ASSUME NEW to \in {"limit", "check", "send"}, NEW n \in 0..MaxRateRetries,
             Step(e, [x EXCEPT !.pc = to, !.asks = n])
      PROVE  ProxyInv'
  <2>1. Sound([x EXCEPT !.pc = to, !.asks = n], anchors)
    BY <1>1, <1>2, MoveSound DEF Late
  <2> QED BY <1>1, <1>4, <2>1, StepSound DEF Quiet
<1>5. ASSUME NEW a \in {"now", "soon", "late"}, NEW b \in BOOLEAN,
             RateLimited(e, a, b)
      PROVE  ProxyInv'
  <2>1. CASE a = "now"
    <3>1. Step(e, [x EXCEPT !.pc = "check", !.asks = 0])
      BY <1>5, <2>1 DEF RateLimited
    <3>2. 0 \in 0..MaxRateRetries BY LimitsNat
    <3> QED BY <1>4, <3>1, <3>2
  <2>2. CASE a = "late" \/ (a = "soon" /\ x.asks >= MaxRateRetries)
    <3>1. Done(e, "rate_limited")
      <4>1. CASE a = "late" BY <1>5, <4>1 DEF RateLimited
      <4>2. CASE a = "soon" /\ x.asks >= MaxRateRetries
        <5>1. ~(x.asks < MaxRateRetries) BY <1>2, <4>2, LimitsNat DEF Exec
        <5> QED BY <1>5, <4>2, <5>1 DEF RateLimited
      <4> QED BY <2>2, <4>1, <4>2
    <3> QED BY <1>3, <3>1 DEF Codes
  <2>3. CASE a = "soon" /\ ~(x.asks >= MaxRateRetries)
    <3>1. x.asks < MaxRateRetries /\ x.asks + 1 \in 0..MaxRateRetries
      BY <1>2, <2>3, ProxyAssumption DEF Exec
    <3>2. CASE b BY <1>3, <1>5, <2>3, <3>1, <3>2 DEF RateLimited, Codes
    <3>3. CASE ~b
      <4>1. Step(e, [x EXCEPT !.asks = x.asks + 1])
        BY <1>5, <2>3, <3>1, <3>3 DEF RateLimited
      <4>2. x.pc = "limit" BY <1>5 DEF RateLimited, On
      <4>3. [x EXCEPT !.asks = x.asks + 1]
              = [x EXCEPT !.pc = "limit", !.asks = x.asks + 1]
        BY <1>2, <4>2 DEF Exec
      <4> QED BY <1>4, <3>1, <4>1, <4>3
    <3> QED BY <3>2, <3>3
  <2> QED BY <2>1, <2>2, <2>3
<1>6. CASE CheckMethod(e)
  <2>1. \/ \E code \in Codes : Done(e, code)
        \/ Step(e, [x EXCEPT !.pc = "send"])
    BY <1>6 DEF CheckMethod, Codes
  <2>2. [x EXCEPT !.pc = "send"] = [x EXCEPT !.pc = "send", !.asks = x.asks]
        /\ x.asks \in 0..MaxRateRetries
    BY <1>2 DEF Exec
  <2> QED BY <1>3, <1>4, <2>1, <2>2
<1> QED BY <1>5, <1>6

----------------------------------------------------------------------------
(* Sending, and what comes back. *)
LEMMA HopSound ==
  ASSUME NEW x, NEW A, Sound(x, A), x.pc \in {"send", "wire", "replay"},
         NEW h \in Hop, NEW n \in 0..MaxRedirects, NEW b \in BOOLEAN,
         h.url # NoURL, IsSubdomain(h.url.host, A),
         AuthAvailable(x.pa) => h.url.scheme = "https",
         h.auth => AuthAvailable(x.pa),
         h.auth \/ h.body => h.url.host = TargetOf(x).host
  PROVE  Sound([x EXCEPT !.pc = "wire", !.hops = n, !.retried = b, !.hop = h], A)
<1> DEFINE r == [x EXCEPT !.pc = "wire", !.hops = n, !.retried = b, !.hop = h]
<1>1. /\ r \in Exec /\ r.pc = "wire" /\ r.hop = h
      /\ r.pa = x.pa /\ r.req = x.req /\ r.flow = x.flow
      /\ r.answered = x.answered /\ r.attempt = x.attempt
  BY DEF Sound, Exec, Late
<1>2. TargetOf(r) = TargetOf(x) BY <1>1 DEF TargetOf
<1>3. h # NoHop BY DEF NoHop
<1>4. Confined(r, A) BY <1>1, <1>2, <1>3 DEF Sound, Confined, Late
<1>5. Secure(r) BY <1>1, <1>2 DEF Sound, Secure, Late
<1>6. Counted(r) BY <1>1 DEF Sound, Counted, Answers, Early
<1> QED BY <1>1, <1>4, <1>5, <1>6 DEF Sound

(* What the first hop is: the target, with credentials only if there are   *)
(* any and the request did not decline them.                               *)
LEMMA FirstHopSound ==
  ASSUME NEW e \in Execs, NEW A, Sound(ex[e], A), ex[e].pc \in Late
  PROVE  /\ FirstHop(e) \in Hop
         /\ FirstHop(e).url = TargetOf(ex[e])
         /\ FirstHop(e).auth => AuthAvailable(ex[e].pa)
<1> DEFINE x == ex[e]
<1> DEFINE t == TargetOf(x)
           b == x.req.method # "GET"
           a == ~x.req.noAuth /\ AuthAvailable(x.pa)
<1>1. FirstHop(e) = [url |-> t, body |-> b, auth |-> a]
  BY TargetIs DEF FirstHop, Req
<1>2. t \in URL \cup {NoURL}
  BY DEF TargetOf, Sound, Exec, Request, Config
<1>3. a \in BOOLEAN /\ b \in BOOLEAN OBVIOUS
<1>4. a => AuthAvailable(x.pa) OBVIOUS
<1> HIDE DEF t, a, b
<1>5. FirstHop(e) \in Hop BY <1>1, <1>2, <1>3 DEF Hop
<1>6. FirstHop(e).url = t /\ FirstHop(e).auth = a BY <1>1
<1> QED BY <1>4, <1>5, <1>6 DEF t

LEMMA SendInv ==
  ASSUME ProxyInv, NEW e \in Execs, NEW ok \in BOOLEAN, Send(e, ok)
  PROVE  ProxyInv'
<1> DEFINE x == ex[e]
           h == FirstHop(e)
           r == [x EXCEPT !.pc = "wire", !.hops = 0, !.retried = FALSE, !.hop = h]
<1>1. Quiet /\ x.pc \in {"send", "replay"} BY DEF Send, ProxyInv, Quiet, On
<1>2. Sound(x, anchors) BY DEF ProxyInv
<1>3. CASE ~ok
  <2>1. Done(e, "original") \/ Done(e, "auth_failed") BY <1>3 DEF Send
  <2> QED BY <1>1, <2>1, DoneSound DEF Quiet, Codes
<1>4. CASE ok
  <2>1. /\ h \in Hop /\ h.url = TargetOf(x)
        /\ h.auth => AuthAvailable(x.pa)
    BY <1>1, <1>2, FirstHopSound DEF Late
  <2>2. /\ TargetOf(x) # NoURL /\ IsSubdomain(TargetOf(x).host, anchors)
        /\ AuthAvailable(x.pa) => TargetOf(x).scheme = "https"
    BY <1>1, <1>2 DEF Sound, Confined, Secure, Late
  <2>3. 0 \in 0..MaxRedirects /\ FALSE \in BOOLEAN BY LimitsNat
  <2>4. Step(e, r) BY <1>4 DEF Send
  <2> HIDE DEF h
  <2>5. Sound(r, anchors) BY <1>1, <1>2, <2>1, <2>2, <2>3, HopSound
  <2> QED BY <1>1, <2>4, <2>5, StepSound DEF Quiet
<1> QED BY <1>3, <1>4

LEMMA RedirectInv ==
  ASSUME ProxyInv, NEW e \in Execs, NEW to \in URL, NEW keep \in BOOLEAN,
         Redirect(e, to, keep)
  PROVE  ProxyInv'
<1> DEFINE x == ex[e]
           h == NextHop(e, to, keep)
           n == x.hops + 1
           r == [x EXCEPT !.pc = "wire", !.hops = n, !.retried = x.retried,
                          !.hop = h]
<1>1. Quiet /\ x.pc = "wire" BY DEF Redirect, ProxyInv, Quiet, On
<1>2. Sound(x, anchors) /\ x \in Exec BY DEF ProxyInv, Sound
<1>3. /\ FirstHop(e) \in Hop
      /\ FirstHop(e).auth => AuthAvailable(x.pa)
  BY <1>1, <1>2, FirstHopSound DEF Late
<1>4. /\ h.url = to
      /\ h.auth <=> FirstHop(e).auth /\ SameSite(e, to)
      /\ h.body <=> keep /\ FirstHop(e).body /\ SameSite(e, to)
  BY DEF NextHop
<1>5. h \in Hop
  <2>1. /\ (FirstHop(e).auth /\ SameSite(e, to)) \in BOOLEAN
        /\ (keep /\ FirstHop(e).body /\ SameSite(e, to)) \in BOOLEAN
    OBVIOUS
  <2> QED BY <2>1, Zenon DEF NextHop, Hop
<1>6. to # NoURL /\ IsSubdomain(to.host, anchors)
  <2>1. to.host \in x.pa.allowed BY DEF Redirect, RedirectAllowed
  <2>2. IsSubdomain(to.host, anchors)
    BY <1>2, <2>1 DEF Sound, Confined, Rooted
  <2>3. to # NoURL BY ProxyAssumption DEF URL, NoURL
  <2> QED BY <2>2, <2>3
<1>7. AuthAvailable(x.pa) => to.scheme = "https"
  BY <1>1, <1>2 DEF Redirect, RedirectAllowed, Sound, Secure, URL, Schemes
<1>8. SameSite(e, to) => to.host = TargetOf(x).host
  BY TargetIs DEF SameSite
<1>9. n \in 0..MaxRedirects /\ x.retried \in BOOLEAN
  BY <1>2, LimitsNat DEF Redirect, Exec
<1>10. Step(e, r)
  <2>1. Step(e, [x EXCEPT !.hops = n, !.hop = h]) BY DEF Redirect
  <2>2. [x EXCEPT !.hops = n, !.hop = h] = r BY <1>1, <1>2 DEF Exec
  <2> QED BY <2>1, <2>2
<1> HIDE DEF h, n
<1>11. Sound(r, anchors)
  BY <1>1, <1>2, <1>3, <1>4, <1>5, <1>6, <1>7, <1>8, <1>9, HopSound
<1> QED BY <1>1, <1>10, <1>11, StepSound DEF Quiet

LEMMA NegotiateInv ==
  ASSUME ProxyInv, NEW e \in Execs, Negotiate(e) PROVE ProxyInv'
<1> DEFINE x == ex[e]
           r == [x EXCEPT !.pc = "wire", !.hops = x.hops, !.retried = TRUE,
                          !.hop = x.hop]
<1>1. Quiet /\ x.pc = "wire" BY DEF Negotiate, ProxyInv, Quiet, On
<1>2. Sound(x, anchors) /\ x \in Exec BY DEF ProxyInv, Sound
<1>3. x.hop \in Hop /\ x.hops \in 0..MaxRedirects /\ TRUE \in BOOLEAN
  BY <1>2 DEF Exec
<1>4. /\ x.hop.url # NoURL /\ IsSubdomain(x.hop.url.host, anchors)
      /\ AuthAvailable(x.pa) => x.hop.url.scheme = "https"
      /\ x.hop.auth => AuthAvailable(x.pa)
      /\ x.hop.auth \/ x.hop.body => x.hop.url.host = TargetOf(x).host
  BY <1>1, <1>2 DEF Sound, Confined, Secure
<1>5. Sound(r, anchors) BY <1>1, <1>2, <1>3, <1>4, HopSound
<1>6. Step(e, r)
  <2>1. Step(e, [x EXCEPT !.retried = TRUE]) BY DEF Negotiate
  <2>2. [x EXCEPT !.retried = TRUE] = r BY <1>1, <1>2 DEF Exec
  <2> QED BY <2>1, <2>2
<1> QED BY <1>1, <1>5, <1>6, StepSound DEF Quiet

(* An answer ends the request, sends it again or starts a login.           *)
LEMMA ResponseInv ==
  ASSUME ProxyInv, NEW e \in Execs,
         NEW status \in {"ok", "retry", "denied", "login"},
         NEW cancelled \in BOOLEAN, Response(e, status, cancelled)
  PROVE  ProxyInv'
<1> DEFINE x == ex[e]
           n == x.answered + 1
           r == [x EXCEPT !.answered = n, !.hop = NoHop, !.hops = 0]
<1>1. Quiet /\ x.pc = "wire" BY DEF Response, ProxyInv, Quiet, On
<1>2. Sound(x, anchors) /\ x \in Exec BY DEF ProxyInv, Sound
<1>3. /\ NoHop \in Hop /\ n \in Nat /\ 0 \in 0..MaxRedirects
      /\ n = x.answered + 1
  BY <1>2, LimitsNat DEF NoHop, Hop, Exec
<1> HIDE DEF n
<1>4. /\ r \in Exec
      /\ r.pc = "wire" /\ r.pa = x.pa /\ r.req = x.req /\ r.flow = x.flow
      /\ r.attempt = x.attempt /\ r.answered = n /\ r.hop = NoHop
  BY <1>1, <1>2, <1>3 DEF Exec
<1>5. /\ x.attempt \in 0..MaxRetries /\ x.answered \in Nat
      /\ x.flow = "none" \/ (x.flow = "replayed" /\ isIdempotent(x.req.method))
      /\ x.flow = "none" => x.answered <= x.attempt
      /\ x.answered <= x.attempt + 1
      /\ ~isIdempotent(x.req.method) => x.attempt = 0
  BY <1>1, <1>2 DEF Sound, Counted, Exec
<1>6. /\ TargetOf(x) # NoURL /\ IsSubdomain(TargetOf(x).host, anchors)
      /\ AuthAvailable(x.pa) => TargetOf(x).scheme = "https"
      /\ Rooted(x.pa, anchors)
  BY <1>1, <1>2 DEF Sound, Confined, Secure, Late
<1>7. r.answered <= Answers(r)
  BY <1>3, <1>4, <1>5, LimitsNat DEF Answers
<1>8. ASSUME NEW code \in Codes, Step(e, Returned(r, code)) PROVE ProxyInv'
  <2>1. Sound(Returned(r, code), anchors) BY <1>4, <1>7, ReturnedSound
  <2> QED BY <1>1, <1>8, <2>1, StepSound DEF Quiet
<1>9. ASSUME MayRetry(e, status),
             Step(e, [r EXCEPT !.pc = "send", !.attempt = r.attempt + 1])
      PROVE  ProxyInv'
  <2> DEFINE k == r.attempt + 1
             s == [r EXCEPT !.pc = "send", !.attempt = k]
  <2>1. x.flow # "replayed" /\ isIdempotent(x.req.method) /\ x.attempt < MaxRetries
    BY <1>9 DEF MayRetry, Req
  <2>k. k \in 0..MaxRetries /\ k = x.attempt + 1
    BY <1>4, <1>5, <2>1, LimitsNat
  <2> HIDE DEF k
  <2>2. /\ s \in Exec /\ s.pc = "send" /\ s.pa = x.pa /\ s.req = x.req
        /\ s.flow = x.flow /\ s.attempt = k /\ s.answered = n /\ s.hop = NoHop
    BY <1>4, <2>k DEF Exec, Late
  <2>3. TargetOf(s) = TargetOf(x) BY <2>2 DEF TargetOf
  <2>4. Confined(s, anchors) BY <1>6, <2>2, <2>3 DEF Confined
  <2>5. Secure(s) BY <1>6, <2>2, <2>3 DEF Secure
  <2>6. Counted(s)
    BY <1>3, <1>5, <2>1, <2>2, <2>k, LimitsNat DEF Counted, Answers
  <2>7. Sound(s, anchors) BY <2>2, <2>4, <2>5, <2>6 DEF Sound
  <2> QED BY <1>1, <1>9, <2>7, StepSound DEF Quiet, k
<1>10. ASSUME Challenge(e, status), NEW f \in {"reactive", "form"},
              Step(e, [r EXCEPT !.pc = "sso", !.legs = 0, !.flow = f])
       PROVE  ProxyInv'
  <2> DEFINE s == [r EXCEPT !.pc = "sso", !.legs = 0, !.flow = f]
  <2>1. x.flow = "none"
    BY <1>5, <1>10 DEF Challenge
  <2>2. /\ s \in Exec /\ s.pc = "sso" /\ s.pa = x.pa /\ s.req = x.req
        /\ s.flow = f /\ s.attempt = x.attempt
        /\ s.answered = n /\ s.hop = NoHop
    BY <1>4 DEF Exec, Late
  <2>3. TargetOf(s) = TargetOf(x) BY <2>2 DEF TargetOf
  <2>4. Confined(s, anchors) BY <1>6, <2>2, <2>3 DEF Confined
  <2>5. Secure(s) BY <1>6, <2>2, <2>3 DEF Secure, NoHop
  <2>6. Counted(s)
    BY <1>3, <1>5, <1>7, <1>4, <2>1, <2>2, LimitsNat DEF Counted, Answers, Early
  <2>7. Sound(s, anchors) BY <2>2, <2>4, <2>5, <2>6 DEF Sound
  <2> QED BY <1>1, <1>10, <2>7, StepSound DEF Quiet
<1>11. \/ /\ MayRetry(e, status)
          /\ \/ Step(e, Returned(r, "request_cancelled"))
             \/ Step(e, [r EXCEPT !.pc = "send", !.attempt = r.attempt + 1])
       \/ /\ Challenge(e, status)
          /\ \E f \in {"reactive", "form"} :
               Step(e, [r EXCEPT !.pc = "sso", !.legs = 0, !.flow = f])
       \/ Step(e, Returned(r, "response"))
  <2>1. CASE MayRetry(e, status)
    <3>1. ~Challenge(e, status) BY <2>1 DEF MayRetry, Challenge
    <3> QED BY <2>1, <3>1 DEF Response, n
  <2>2. CASE Challenge(e, status) /\ ~MayRetry(e, status)
    BY <2>2 DEF Response, n
  <2>3. CASE ~Challenge(e, status) /\ ~MayRetry(e, status)
    BY <2>3 DEF Response, n
  <2> QED BY <2>1, <2>2, <2>3
<1> HIDE DEF r
<1> QED BY <1>8, <1>9, <1>10, <1>11 DEF Codes

LEMMA TransportErrorInv ==
  ASSUME ProxyInv, NEW e \in Execs, TransportError(e) PROVE ProxyInv'
<1>1. Quiet BY DEF TransportError, ProxyInv, Quiet
<1>2. Done(e, "original") \/ Done(e, "transport_error") BY DEF TransportError
<1> QED BY <1>1, <1>2, DoneSound DEF Quiet, Codes

(* The login. *)
LEMMA LegInv ==
  ASSUME ProxyInv, NEW e \in Execs, NEW to \in URL, SamlLeg(e, to)
  PROVE  ProxyInv'
<1> DEFINE x == ex[e]
           h == [url |-> to, auth |-> TRUE, body |-> TRUE]
           n == x.legs + 1
           r == [x EXCEPT !.legs = n, !.hop = h]
<1>1. Quiet /\ x.pc = "sso" BY DEF SamlLeg, ProxyInv, Quiet, On
<1>2. Sound(x, anchors) /\ x \in Exec BY DEF ProxyInv, Sound
<1>3. h \in Hop /\ h.url = to /\ n \in Nat BY <1>2 DEF Hop, Exec
<1>12. Step(e, r) BY DEF SamlLeg
<1> HIDE DEF h, n
<1>4. /\ r \in Exec /\ r.pc = "sso" /\ r.pa = x.pa /\ r.req = x.req
      /\ r.flow = x.flow /\ r.attempt = x.attempt
      /\ r.answered = x.answered /\ r.hop.url = to
  BY <1>1, <1>2, <1>3 DEF Exec
<1>5. to # NoURL /\ to.host # NoURL.host /\ to.scheme = "https"
  BY ProxyAssumption DEF URL, NoURL, SamlLeg, DomainAllowedForSSO
<1>6. IsSubdomain(to.host, anchors)
  <2>1. to.host \in x.pa.allowed \/ to.host = x.pa.baseURL.host
    BY DEF SamlLeg, DomainAllowedForSSO
  <2>2. to.host = x.pa.baseURL.host => x.pa.baseURL # NoURL BY <1>5
  <2> QED BY <1>2, <2>1, <2>2 DEF Sound, Confined, Rooted
<1>7. TargetOf(r) = TargetOf(x) BY <1>4 DEF TargetOf
<1>8. Confined(r, anchors)
  BY <1>1, <1>2, <1>4, <1>5, <1>6, <1>7 DEF Confined, Sound
<1>9. Secure(r) BY <1>1, <1>2, <1>4, <1>5, <1>7 DEF Secure, Sound
<1>10. Counted(r) BY <1>1, <1>2, <1>4 DEF Counted, Sound, Answers
<1>11. Sound(r, anchors) BY <1>4, <1>8, <1>9, <1>10 DEF Sound
<1> QED BY <1>1, <1>11, <1>12, StepSound DEF Quiet

LEMMA LoginInv ==
  ASSUME ProxyInv, NEW e \in Execs, SamlFails(e) \/ SamlSucceeds(e)
  PROVE  ProxyInv'
<1> DEFINE x == ex[e]
<1>1. UNCHANGED <<plugin, anchors, registered>> /\ x.pc = "sso"
  BY DEF SamlFails, SamlSucceeds, On
<1>2. cooldown' \in BOOLEAN
  BY Zenon DEF ProxyInv, SamlFails, SamlSucceeds
<1>3. Sound(x, anchors) /\ x \in Exec BY DEF ProxyInv, Sound
<1>4. CASE Done(e, "original") BY <1>1, <1>2, <1>4, DoneSound DEF Codes
<1>5. CASE Step(e, [x EXCEPT !.flow = "redirect", !.legs = 0])
  <2> DEFINE r == [x EXCEPT !.flow = "redirect", !.legs = 0]
  <2>1. /\ r \in Exec /\ r.pc = "sso" /\ r.pa = x.pa /\ r.req = x.req
        /\ r.flow = "redirect" /\ r.attempt = x.attempt
        /\ r.answered = x.answered /\ r.hop = x.hop
    BY <1>1, <1>3 DEF Exec
  <2>2. TargetOf(r) = TargetOf(x) BY <2>1 DEF TargetOf
  <2>3. Confined(r, anchors) BY <1>1, <1>3, <2>1, <2>2 DEF Confined, Sound
  <2>4. Secure(r) BY <1>1, <1>3, <2>1, <2>2 DEF Secure, Sound
  <2>5. Counted(r) BY <1>1, <1>3, <2>1 DEF Counted, Sound, Answers, Early
  <2>6. Sound(r, anchors) BY <2>1, <2>3, <2>4, <2>5 DEF Sound
  <2> QED BY <1>1, <1>2, <1>5, <2>6, StepSound
<1>6. CASE /\ isIdempotent(x.req.method)
           /\ Step(e, [x EXCEPT !.pc = "replay", !.flow = "replayed",
                                !.hop = NoHop, !.legs = 0])
  <2> DEFINE r == [x EXCEPT !.pc = "replay", !.flow = "replayed",
                            !.hop = NoHop, !.legs = 0]
  <2>1. NoHop \in Hop BY DEF NoHop, Hop
  <2>2. /\ r \in Exec /\ r.pc = "replay" /\ r.pa = x.pa /\ r.req = x.req
        /\ r.flow = "replayed" /\ r.attempt = x.attempt
        /\ r.answered = x.answered /\ r.hop = NoHop
    BY <1>3, <2>1 DEF Exec, Late
  <2>3. TargetOf(r) = TargetOf(x) BY <2>2 DEF TargetOf
  <2>4. Confined(r, anchors)
    BY <1>1, <1>3, <2>2, <2>3 DEF Confined, Sound, Late
  <2>5. Secure(r) BY <1>1, <1>3, <2>2, <2>3 DEF Secure, Sound, Late
  <2>6. Counted(r) BY <1>1, <1>3, <1>6, <2>2 DEF Counted, Sound, Answers, Early
  <2>7. Sound(r, anchors) BY <2>2, <2>4, <2>5, <2>6 DEF Sound
  <2> QED BY <1>1, <1>2, <1>6, <2>7, StepSound
<1>7. CASE SamlFails(e) BY <1>4, <1>5, <1>7 DEF SamlFails
<1>8. CASE SamlSucceeds(e)
  <2>1. CASE isIdempotent(Req(e).method)
    BY <1>6, <1>8, <2>1 DEF SamlSucceeds, Req
  <2>2. CASE ~isIdempotent(Req(e).method)
    BY <1>4, <1>8, <2>2 DEF SamlSucceeds
  <2> QED BY <2>1, <2>2
<1> QED BY <1>7, <1>8

----------------------------------------------------------------------------
(* The steps that change the registration. *)

(* A request's domains are validated against its copy of the base domains, *)
(* which stays anchored even if the plugin was registered anew meanwhile.  *)
LEMMA ValidAnchored ==
  ASSUME ProxyInv, NEW e \in Execs, NEW d \in ValidDomains(e)
  PROVE  d \in Hosts /\ IsSubdomain(d, anchors)
<1>1. Sound(ex[e], anchors) BY DEF ProxyInv
<1>2. d \in Hosts
  BY <1>1 DEF ValidDomains, Req, Sound, Exec, Request
<1>3. IsSubdomain(d, anchors)
  BY <1>1 DEF ValidDomains, Sound, Confined, Rooted, IsSubdomain
<1> QED BY <1>2, <1>3

LEMMA DomainsInv ==
  ASSUME ProxyInv, NEW e \in Execs, AddAllowedDomains(e) PROVE ProxyInv'
<1> DEFINE x == ex[e]
           to == IF ValidDomains(e) = {} THEN "resolve" ELSE "reread"
           r == [x EXCEPT !.pc = to]
<1>1. /\ x.pc = "domains" /\ Step(e, r)
      /\ UNCHANGED <<anchors, registered, cooldown>>
  BY DEF AddAllowedDomains, On
<1>2. Sound(x, anchors) /\ x \in Exec BY DEF ProxyInv, Sound
<1>3. Sound(r, anchors)
  <2>1. to \in Early /\ to \notin Late BY DEF Early, Late
  <2>2. x.asks \in 0..MaxRateRetries BY <1>2 DEF Exec
  <2> HIDE DEF to
  <2>3. r = [x EXCEPT !.pc = to, !.asks = x.asks] BY <1>2 DEF Exec
  <2> QED BY <1>1, <1>2, <2>1, <2>2, <2>3, MoveSound DEF Early
<1>4. /\ plugin' \in Config /\ Rooted(plugin', anchors)
      /\ plugin'.base \subseteq plugin'.allowed
  <2>1. CASE plugin' = plugin BY <2>1 DEF ProxyInv
  <2>2. CASE \E a \in Admitted(plugin.allowed, ValidDomains(e)) :
               plugin' = [plugin EXCEPT !.allowed = a]
    <3>1. PICK a \in Admitted(plugin.allowed, ValidDomains(e)) :
            plugin' = [plugin EXCEPT !.allowed = a]
      BY <2>2
    <3>2. /\ plugin.allowed \subseteq a
          /\ a \subseteq plugin.allowed \cup ValidDomains(e)
      BY AdmittedBounds
    <3>3. a \in SUBSET Hosts /\ \A h \in a : IsSubdomain(h, anchors)
      BY <3>2, ValidAnchored DEF ProxyInv, Config, Rooted
    <3>4. /\ plugin' \in Config /\ plugin'.allowed = a
          /\ plugin'.base = plugin.base /\ plugin'.baseURL = plugin.baseURL
      BY <3>1, <3>3 DEF ProxyInv, Config
    <3> QED BY <3>2, <3>3, <3>4 DEF ProxyInv, Rooted
  <2> QED BY <2>1, <2>2 DEF AddAllowedDomains
<1>5. ex' = [ex EXCEPT ![e] = r] BY <1>1 DEF Step
<1>6. DOMAIN ex' = Execs /\ ex' = [d \in Execs |-> ex'[d]]
  BY <1>5 DEF ProxyInv
<1>7. \A d \in Execs : Sound(ex'[d], anchors)
  BY <1>3, <1>5 DEF ProxyInv
<1> QED BY <1>1, <1>4, <1>6, <1>7 DEF ProxyInv

(* The manager's steps leave the requests alone and only add anchors.      *)
LEMMA ManagerFrame ==
  ASSUME ProxyInv, UNCHANGED <<ex, cooldown>>,
         anchors \subseteq anchors', anchors' \subseteq Hosts,
         registered' \in 0..MaxRegistrations,
         plugin' \in Config, Rooted(plugin', anchors'),
         plugin'.base \subseteq plugin'.allowed
  PROVE  ProxyInv'
<1>1. \A e \in Execs : Sound(ex'[e], anchors')
  BY SoundGrows DEF ProxyInv
<1> QED BY <1>1 DEF ProxyInv

LEMMA ManagerInv == ASSUME ProxyInv, ManagerStep PROVE ProxyInv'
<1>1. ASSUME NEW r \in Registrations, RegisterPlugin(r) PROVE ProxyInv'
  <2>1. r \in Registration /\ (r.baseURL # NoURL => r.baseURL.host \in r.allowed)
    BY RegistrationAssumption
  <2>2. /\ plugin' = [allowed |-> r.allowed, base |-> r.allowed,
                      baseURL |-> r.baseURL, auth |-> r.auth, mtls |-> r.mtls]
        /\ anchors' = anchors \cup r.allowed
        /\ UNCHANGED <<ex, cooldown>>
    BY <1>1 DEF RegisterPlugin
  <2>3. plugin' \in Config BY <2>1, <2>2 DEF Config, Registration
  <2>4. r.allowed \subseteq Hosts BY <2>1 DEF Registration
  <2>5. \A h \in r.allowed : IsSubdomain(h, anchors')
    BY <2>2, <2>4, ProxyAssumption DEF IsSubdomain
  <2>6. Rooted(plugin', anchors') BY <2>1, <2>2, <2>5 DEF Rooted
  <2>7. registered' \in 0..MaxRegistrations
    BY <1>1, LimitsNat DEF RegisterPlugin, ProxyInv
  <2> QED BY <2>2, <2>3, <2>4, <2>6, <2>7, ManagerFrame DEF ProxyInv
<1>2. CASE UnregisterPlugin
  BY <1>2, ManagerFrame, Unregistered
     DEF UnregisterPlugin, ProxyInv, NotRegistered
<1>3. CASE AddBaseDomains(InitDomains)
  <2>1. PICK a \in Admitted(plugin.allowed, InitDomains),
             known \in SUBSET (InitDomains \cap plugin.allowed) :
          LET base == plugin.base \cup (a \ plugin.allowed) \cup known IN
            /\ plugin' = [plugin EXCEPT !.allowed = a, !.base = base]
            /\ anchors' = anchors \cup base
    BY <1>3 DEF AddBaseDomains
  <2> DEFINE base == plugin.base \cup (a \ plugin.allowed) \cup known
  <2>2. /\ plugin.allowed \subseteq a
        /\ a \subseteq plugin.allowed \cup InitDomains
    BY AdmittedBounds
  <2>3. /\ a \in SUBSET Hosts /\ base \in SUBSET Hosts
        /\ base \subseteq a
    BY <2>2, RequestAssumption DEF ProxyInv, Config
  <2>4. /\ plugin' = [plugin EXCEPT !.allowed = a, !.base = base]
        /\ anchors' = anchors \cup base
        /\ a \ plugin.allowed \subseteq base
    BY <2>1
  <2> HIDE DEF base
  <2>5. /\ plugin' \in Config /\ plugin'.allowed = a /\ plugin'.base = base
        /\ plugin'.baseURL = plugin.baseURL
    BY <2>3, <2>4 DEF ProxyInv, Config
  <2>6. ASSUME NEW h \in a PROVE IsSubdomain(h, anchors')
    <3>1. CASE h \in plugin.allowed
      BY <2>4, <3>1 DEF ProxyInv, Rooted, IsSubdomain
    <3>2. CASE h \in base
      BY <2>3, <2>4, <3>2, ProxyAssumption DEF IsSubdomain
    <3> QED BY <2>4, <3>1, <3>2
  <2>7. Rooted(plugin', anchors')
    BY <2>4, <2>5, <2>6 DEF ProxyInv, Rooted, IsSubdomain
  <2> QED BY <1>3, <2>3, <2>4, <2>5, <2>7, ManagerFrame
          DEF AddBaseDomains, ProxyInv
<1> QED BY <1>1, <1>2, <1>3 DEF ManagerStep

----------------------------------------------------------------------------
LEMMA InitProxyInv == ASSUME ProxyInit PROVE ProxyInv
<1>1. \A e \in Execs : Sound(ex[e], {})
  BY NotStartedSound DEF ProxyInit
<1>2. DOMAIN ex = Execs /\ ex = [e \in Execs |-> ex[e]] BY DEF ProxyInit
<1>3. /\ plugin \in Config /\ Rooted(plugin, anchors)
      /\ plugin.base \subseteq plugin.allowed
  BY Unregistered DEF ProxyInit, NotRegistered
<1>4. registered \in 0..MaxRegistrations BY LimitsNat DEF ProxyInit
<1>5. cooldown \in BOOLEAN BY Zenon DEF ProxyInit
<1>6. anchors = {} BY DEF ProxyInit
<1> QED BY <1>1, <1>2, <1>3, <1>4, <1>5, <1>6 DEF ProxyInv

LEMMA NextProxyInv == ASSUME ProxyInv, [ProxyNext]_proxyVars PROVE ProxyInv'
<1>1. ASSUME NEW e \in Execs, ExecuteStep(e) PROVE ProxyInv'
  BY <1>1, DomainsInv, RereadInv, ResolveInv, LimitInv, SendInv, RedirectInv,
     NegotiateInv, ResponseInv, TransportErrorInv, LegInv, LoginInv
     DEF ExecuteStep
<1>2. CASE CooldownEnds
  <2>1. cooldown' \in BOOLEAN BY <1>2, Zenon DEF CooldownEnds
  <2> QED BY <1>2, <2>1 DEF CooldownEnds, ProxyInv
<1>3. CASE UNCHANGED proxyVars BY <1>3 DEF proxyVars, ProxyInv
<1> QED BY <1>1, <1>2, <1>3, SnapshotInv, ManagerInv DEF ProxyNext

(* Every behaviour of the proxy satisfies the inductive invariant. *)
THEOREM ProxyInvariant == ProxySpec => []ProxyInv
  BY InitProxyInv, NextProxyInv, PTL DEF ProxySpec

(* However registrations, init_ok answers and the domains that requests    *)
(* ask for interleave, the plugin's allowlist, every hop of every request  *)
(* and every login leg stay within the domains the manager registered.     *)
THEOREM HostsAreAnchored == ProxySpec => []HostsAnchored
<1>1. ASSUME ProxyInv PROVE HostsAnchored
  BY <1>1 DEF ProxyInv, Rooted, Sound, Confined, HostsAnchored, Anchored
<1> QED BY <1>1, ProxyInvariant, PTL

(* Credentials and bodies reach only the host the request was made to, and *)
(* credentials only over HTTPS, along every chain of redirects, retries,   *)
(* Negotiate answers and login replays.                                    *)
THEOREM CredentialsStay == ProxySpec => []CredentialsStayHome
<1>1. ASSUME ProxyInv PROVE CredentialsStayHome
  BY <1>1, TargetIs DEF ProxyInv, Sound, Secure, CredentialsStayHome
<1> QED BY <1>1, ProxyInvariant, PTL

(* A server answers a non-idempotent request at most once.                 *)
THEOREM MutationsAreSentOnce == ProxySpec => []MutationsOnce
<1>1. ASSUME ProxyInv PROVE MutationsOnce
  BY <1>1 DEF ProxyInv, Sound, Counted, Answers, MutationsOnce, Req
<1> QED BY <1>1, ProxyInvariant, PTL

(* Redirects, retries and rate-limit waits stay within their limits.       *)
THEOREM ProxyTypeCorrect == ProxySpec => []TypeOKProxy
<1>1. ASSUME ProxyInv PROVE TypeOKProxy
  BY <1>1 DEF ProxyInv, Sound, Exec, Config, Early, Late, TypeOKProxy
<1> QED BY <1>1, ProxyInvariant, PTL

-----------------------------------------------------------------------------
(* RateLimit *)

Buckets == 1..Len(tokens)

(* The registry: the list holds the keys that have a bucket, each once.    *)
Listing(o, l) ==
  /\ \A i, j \in DOMAIN o : o[i] = o[j] => i = j
  /\ \A i \in DOMAIN o : l[o[i]] # 0
  /\ \A k \in RateKeys : l[k] # 0 => \E i \in DOMAIN o : o[i] = k

Listed == Listing(order, limiters) /\ Len(order) <= MaxEntries

(* The tokens that the buckets of key k still hold, as a set: own says for *)
(* which key each bucket was created, which the state no longer shows once *)
(* the bucket is evicted.                                                  *)
Chips(t, own, k) ==
  {x \in (1..Len(t)) \X (1..KeyBurst) : own[x[1]] = k /\ x[2] <= t[x[1]]}

Held(k) == IF limiters[k] # 0 THEN 1 ELSE 0

(* Every token granted to a key, and every one its buckets still hold, was *)
(* part of the burst of a bucket that was created for it, or put back.     *)
Balanced(own, k) ==
  granted[k] + Cardinality(Chips(tokens, own, k))
    = KeyBurst * (evicted[k] + Held(k)) + credited[k]

Owned(own) ==
  /\ own \in [Buckets -> RateKeys]
  /\ \A k \in RateKeys : limiters[k] # 0 =>
       limiters[k] \in Buckets /\ own[limiters[k]] = k
  /\ \A c \in RateCallers :
       /\ allow[c].pc # "idle" => allow[c].key \in RateKeys
       /\ allow[c].pc = "reserve" =>
            allow[c].bucket \in Buckets /\ own[allow[c].bucket] = allow[c].key
  /\ \A k \in RateKeys : Balanced(own, k)

RateInv == /\ TypeOKRate
           /\ Len(tokens) <= MaxBuckets
           /\ Listed
           /\ \E own \in [Buckets -> RateKeys] : Owned(own)

----------------------------------------------------------------------------
(* The first in, first out list. *)
LEMMA TailListing ==
  ASSUME NEW o \in Seq(RateKeys), o # <<>>, NEW l \in [RateKeys -> Nat],
         Listing(o, l)
  PROVE  /\ Tail(o) \in Seq(RateKeys) /\ Len(Tail(o)) = Len(o) - 1
         /\ Head(o) \in RateKeys
         /\ Listing(Tail(o), [l EXCEPT ![Head(o)] = 0])
<1> DEFINE t == Tail(o)
           h == Head(o)
           l1 == [l EXCEPT ![h] = 0]
<1>1. /\ t \in Seq(RateKeys) /\ Len(t) = Len(o) - 1 /\ Len(o) \in Nat
      /\ h \in RateKeys /\ h = o[1] /\ 1 \in DOMAIN o
      /\ DOMAIN t = 1..(Len(o) - 1) /\ DOMAIN o = 1..Len(o)
      /\ \A i \in DOMAIN t : t[i] = o[i + 1] /\ i + 1 \in DOMAIN o /\ i + 1 # 1
  OBVIOUS
<1>2. \A i \in DOMAIN o : o[i] \in RateKeys OBVIOUS
<1> HIDE DEF t, h
<1>3. ASSUME NEW i \in DOMAIN t, NEW j \in DOMAIN t, t[i] = t[j]
      PROVE  i = j
  <2>1. i + 1 = j + 1 BY <1>1, <1>3 DEF Listing
  <2>2. i \in Int /\ j \in Int BY <1>1
  <2> QED BY <2>1, <2>2
<1>4. \A i \in DOMAIN t : l1[t[i]] # 0
  BY <1>1, <1>2 DEF Listing
<1>5. ASSUME NEW k \in RateKeys, l1[k] # 0
      PROVE  \E i \in DOMAIN t : t[i] = k
  <2>1. k # h /\ l[k] # 0 BY <1>1, <1>5
  <2>2. PICK j \in DOMAIN o : o[j] = k BY <2>1 DEF Listing
  <2>3. j # 1 BY <1>1, <2>1, <2>2
  <2>4. j - 1 \in DOMAIN t /\ (j - 1) + 1 = j BY <1>1, <2>2, <2>3
  <2> QED BY <1>1, <2>2, <2>4
<1>6. Listing(t, l1) BY <1>3, <1>4, <1>5 DEF Listing
<1> QED BY <1>1, <1>6 DEF t, h

LEMMA AppendListing ==
  ASSUME NEW o \in Seq(RateKeys), NEW l \in [RateKeys -> Nat], Listing(o, l),
         NEW k \in RateKeys, l[k] = 0, NEW b \in Nat \ {0}
  PROVE  Listing(Append(o, k), [l EXCEPT ![k] = b])
<1> DEFINE a == Append(o, k)
           l1 == [l EXCEPT ![k] = b]
<1>1. /\ Len(o) \in Nat /\ DOMAIN o = 1..Len(o) /\ DOMAIN a = 1..(Len(o) + 1)
      /\ \A i \in DOMAIN o : i \in DOMAIN a /\ a[i] = o[i] /\ o[i] \in RateKeys
      /\ \A i \in DOMAIN a : i \in DOMAIN o \/ i = Len(o) + 1
      /\ a[Len(o) + 1] = k /\ Len(o) + 1 \in DOMAIN a
  OBVIOUS
<1> HIDE DEF a
<1>2. \A i \in DOMAIN o : o[i] # k BY DEF Listing
<1>3. \A i, j \in DOMAIN a : a[i] = a[j] => i = j
  BY <1>1, <1>2 DEF Listing
<1>4. \A i \in DOMAIN a : l1[a[i]] # 0
  BY <1>1 DEF Listing
<1>5. ASSUME NEW x \in RateKeys, l1[x] # 0
      PROVE  \E i \in DOMAIN a : a[i] = x
  <2>1. CASE x = k BY <1>1, <2>1
  <2>2. CASE x # k
    <3>1. l[x] # 0 BY <1>5, <2>2
    <3> QED BY <1>1, <3>1 DEF Listing
  <2> QED BY <2>1, <2>2
<1>6. Listing(a, l1) BY <1>3, <1>4, <1>5 DEF Listing
<1> QED BY <1>6 DEF a

(* A list without repetitions is as long as its set of elements. *)
LEMMA ListingCount ==
  ASSUME NEW o \in Seq(RateKeys), NEW l, Listing(o, l)
  PROVE  Cardinality({o[i] : i \in DOMAIN o}) = Len(o)
<1> DEFINE S == {o[i] : i \in 1..Len(o)}
<1>1. Len(o) \in Nat /\ DOMAIN o = 1..Len(o) OBVIOUS
<1>2. o \in [1..Len(o) -> S] OBVIOUS
<1>3. o \in Bijection(1..Len(o), S)
  BY <1>1, <1>2 DEF Bijection, Injection, Surjection, IsInjective, Listing
<1>4. ExistsBijection(1..Len(o), S) BY <1>3 DEF ExistsBijection
<1> QED BY <1>1, <1>4, FS_CountingElements

----------------------------------------------------------------------------
(* Counting tokens. *)
LEMMA ChipsFinite ==
  ASSUME NEW t \in Seq(0..KeyBurst), NEW own, NEW k
  PROVE  /\ IsFiniteSet(Chips(t, own, k))
         /\ Cardinality(Chips(t, own, k)) \in Nat
<1>1. Len(t) \in Int /\ KeyBurst \in Int /\ 1 \in Int BY RateAssumption
<1>2. IsFiniteSet(1..Len(t)) /\ IsFiniteSet(1..KeyBurst)
  BY <1>1, FS_Interval
<1>3. IsFiniteSet((1..Len(t)) \X (1..KeyBurst)) BY <1>2, FS_Product
<1>4. Chips(t, own, k) \subseteq (1..Len(t)) \X (1..KeyBurst) BY DEF Chips
<1> QED BY <1>3, <1>4, FS_Subset, FS_CardinalityType

(* Bucket b, with n tokens in t, has one less in u. *)
OneLess(t, u, b, n) ==
  /\ t \in Seq(0..KeyBurst) /\ u \in Seq(0..KeyBurst) /\ Len(u) = Len(t)
  /\ b \in 1..Len(t) /\ n \in 1..KeyBurst /\ t[b] = n /\ u[b] = n - 1
  /\ \A i \in 1..Len(t) : i # b => u[i] = t[i]

(* The top token of bucket b comes or goes. *)
LEMMA ChipChange ==
  ASSUME NEW t, NEW u, NEW b, NEW n, OneLess(t, u, b, n), NEW own, NEW k
  PROVE  /\ own[b] = k => Cardinality(Chips(t, own, k))
                              = Cardinality(Chips(u, own, k)) + 1
         /\ own[b] # k => Cardinality(Chips(t, own, k))
                              = Cardinality(Chips(u, own, k))
<1>1. KeyBurst \in Nat /\ n \in Nat /\ n - 1 \in 0..KeyBurst
      /\ Len(t) \in Nat /\ \A i \in 1..Len(t) : t[i] \in 0..KeyBurst
  <2>1. KeyBurst \in Nat /\ n \in 1..KeyBurst /\ t \in Seq(0..KeyBurst)
    BY RateAssumption DEF OneLess
  <2> QED BY <2>1
<1>2. /\ t \in Seq(0..KeyBurst) /\ u \in Seq(0..KeyBurst)
      /\ Len(u) = Len(t) /\ b \in 1..Len(t) /\ n \in 1..KeyBurst
      /\ t[b] = n
  BY DEF OneLess
<1>3. u[b] = n - 1 /\ \A i \in 1..Len(t) : i # b => u[i] = t[i]
  BY DEF OneLess
<1>4. ASSUME own[b] = k PROVE Chips(t, own, k) = Chips(u, own, k) \cup {<<b, n>>}
  <2>1. \A x \in (1..Len(t)) \X (1..KeyBurst) :
          x[2] <= t[x[1]] <=> x[2] <= u[x[1]] \/ x = <<b, n>>
    <3> TAKE x \in (1..Len(t)) \X (1..KeyBurst)
    <3>1. x[1] \in 1..Len(t) /\ x[2] \in 1..KeyBurst /\ x = <<x[1], x[2]>>
      OBVIOUS
    <3>2. CASE x[1] = b
      <4>1. x = <<b, n>> <=> x[2] = n BY <3>1, <3>2
      <4>2. x[2] <= n <=> x[2] <= n - 1 \/ x[2] = n BY <1>1, <3>1
      <4> QED BY <1>2, <1>3, <3>2, <4>1, <4>2
    <3>3. CASE x[1] # b BY <1>3, <3>1, <3>3
    <3> QED BY <3>2, <3>3
  <2>2. <<b, n>> \in (1..Len(t)) \X (1..KeyBurst) BY <1>2
  <2> QED BY <1>2, <1>4, <2>1, <2>2 DEF Chips
<1>5. <<b, n>> \notin Chips(u, own, k) BY <1>1, <1>3 DEF Chips
<1>6. ASSUME own[b] # k PROVE Chips(t, own, k) = Chips(u, own, k)
  BY <1>2, <1>3, <1>6 DEF Chips
<1>7. IsFiniteSet(Chips(u, own, k)) /\ Cardinality(Chips(u, own, k)) \in Nat
  BY <1>2, ChipsFinite
<1>8. Cardinality(Chips(u, own, k) \cup {<<b, n>>})
        = Cardinality(Chips(u, own, k)) + 1
  BY <1>5, <1>7, FS_AddElement
<1> QED BY <1>4, <1>6, <1>8

(* Bucket b is the newest in u, and full; f and g name the owners.         *)
OneMore(t, f, u, g, b) ==
  /\ t \in Seq(0..KeyBurst) /\ u = Append(t, KeyBurst) /\ b = Len(t) + 1
  /\ \A i \in 1..Len(t) : g[i] = f[i]

(* A new bucket brings a burst of tokens to its owner. *)
LEMMA ChipsOfNew ==
  ASSUME NEW t, NEW f, NEW u, NEW g, NEW b, NEW k,
         OneMore(t, f, u, g, b)
  PROVE  /\ g[b] = k => Cardinality(Chips(u, g, k))
                             = Cardinality(Chips(t, f, k)) + KeyBurst
         /\ g[b] # k => Cardinality(Chips(u, g, k))
                             = Cardinality(Chips(t, f, k))
<1> DEFINE N == {b} \X (1..KeyBurst)
<1> USE DEF OneMore
<1>1. /\ KeyBurst \in Nat /\ Len(t) \in Nat /\ Len(u) = b /\ b \in Nat
      /\ b \notin 1..Len(t)
      /\ u[b] = KeyBurst /\ \A i \in 1..Len(t) : u[i] = t[i]
      /\ 1..b = (1..Len(t)) \cup {b}
  BY RateAssumption
<1>2. Chips(u, g, k) = Chips(t, f, k) \cup (IF g[b] = k THEN N ELSE {})
  <2>1. \A x \in (1..Len(t)) \X (1..KeyBurst) :
          x \in Chips(u, g, k) <=> x \in Chips(t, f, k)
    BY <1>1 DEF Chips
  <2>2. \A x \in N : x \in Chips(u, g, k) <=> g[b] = k
    BY <1>1 DEF Chips
  <2>3. Chips(u, g, k) \subseteq ((1..Len(t)) \X (1..KeyBurst)) \cup N
    BY <1>1 DEF Chips
  <2>4. Chips(t, f, k) \subseteq (1..Len(t)) \X (1..KeyBurst) BY DEF Chips
  <2> QED BY <2>1, <2>2, <2>3, <2>4
<1>3. IsFiniteSet(Chips(t, f, k)) /\ Cardinality(Chips(t, f, k)) \in Nat
  BY ChipsFinite
<1>4. CASE g[b] = k
  <2>1. IsFiniteSet(N) /\ Cardinality(N) = KeyBurst
    <3>1. IsFiniteSet({b}) /\ Cardinality({b}) = 1 BY FS_Singleton
    <3>2. IsFiniteSet(1..KeyBurst) /\ Cardinality(1..KeyBurst) = KeyBurst
      <4>1. Cardinality(1..KeyBurst) = IF 1 > KeyBurst THEN 0 ELSE KeyBurst - 1 + 1
        BY <1>1, FS_Interval
      <4> QED BY <1>1, <4>1, FS_Interval
    <3>3. IsFiniteSet(N) /\ Cardinality(N) = Cardinality({b}) * Cardinality(1..KeyBurst)
      BY <3>1, <3>2, FS_Product
    <3> QED BY <1>1, <3>1, <3>2, <3>3
  <2>2. Chips(t, f, k) \cap N = {} BY <1>1 DEF Chips
  <2>3. Cardinality(Chips(t, f, k) \cap N) = 0 BY <2>2, FS_EmptySet
  <2>4. Cardinality(Chips(t, f, k) \cup N)
          = Cardinality(Chips(t, f, k)) + Cardinality(N)
              - Cardinality(Chips(t, f, k) \cap N)
    BY <1>3, <2>1, FS_Union
  <2> QED BY <1>1, <1>2, <1>3, <1>4, <2>1, <2>3, <2>4
<1>5. CASE g[b] # k
  BY <1>2, <1>3, <1>5
<1> QED BY <1>4, <1>5

----------------------------------------------------------------------------
(* What a step that only moves calls preserves. *)
LEMMA KeepBalance ==
  ASSUME NEW own, NEW k \in RateKeys, Balanced(own, k),
         UNCHANGED <<limiters, tokens, granted, evicted, credited>>
  PROVE  Balanced(own, k)'
BY DEF Balanced, Held, Chips

LEMMA InitRate == RateInit => RateInv
<1> SUFFICES ASSUME RateInit PROVE RateInv OBVIOUS
<1>1. TypeOKRate /\ Len(tokens) <= MaxBuckets
  <2>1. allow \in [RateCallers -> [pc : {"idle", "lookup", "create", "reserve"},
                                   key : RateKeys \cup {"none"},
                                   bucket : 0..MaxBuckets]]
    BY RateAssumption DEF RateInit, NoCall
  <2>2. tokens \in Seq(0..KeyBurst) /\ order \in Seq(RateKeys)
        /\ Len(tokens) <= MaxBuckets
    BY RateAssumption DEF RateInit
  <2> QED BY <2>1, <2>2, RateAssumption DEF RateInit, TypeOKRate
<1>2. Listed BY RateAssumption DEF RateInit, Listed, Listing
<1>3. PICK own \in [Buckets -> RateKeys] : TRUE
  <2>1. Buckets = {} BY DEF RateInit, Buckets
  <2>2. [i \in Buckets |-> CHOOSE k \in RateKeys : TRUE] \in [Buckets -> RateKeys]
    BY <2>1
  <2> QED BY <2>2
<1>4. ASSUME NEW k \in RateKeys PROVE Balanced(own, k)
  <2>1. Chips(tokens, own, k) = {} BY DEF RateInit, Chips
  <2>2. Cardinality(Chips(tokens, own, k)) = 0 BY <2>1, FS_EmptySet
  <2> QED BY <2>2, RateAssumption DEF RateInit, Balanced, Held
<1>5. Owned(own) BY <1>3, <1>4 DEF Owned, RateInit, NoCall
<1> QED BY <1>1, <1>2, <1>3, <1>5 DEF RateInv

LEMMA AllowGlobalKeeps ==
  ASSUME RateInv, NEW c \in RateCallers, NEW k \in RateKeys, AllowGlobal(c, k)
  PROVE  RateInv'
<1>1. TypeOKRate' /\ (Len(tokens) <= MaxBuckets)'
  <2>1. allow' \in [RateCallers -> [pc : {"idle", "lookup", "create", "reserve"},
                                   key : RateKeys \cup {"none"},
                                   bucket : 0..MaxBuckets]]
    <3>1. 0 \in 0..MaxBuckets BY RateAssumption
    <3> QED BY <3>1 DEF RateInv, TypeOKRate, AllowGlobal, NoCall
  <2>2. global' \in 0..GlobalBurst
    BY RateAssumption DEF RateInv, TypeOKRate, AllowGlobal
  <2> QED BY <2>1, <2>2 DEF RateInv, TypeOKRate, AllowGlobal
<1>2. Listed' BY DEF RateInv, Listed, Listing, AllowGlobal
<1>3. PICK own \in [Buckets -> RateKeys] : Owned(own) BY DEF RateInv
<1>4. \A x \in RateKeys : Balanced(own, x)'
  BY <1>3, KeepBalance DEF Owned, AllowGlobal
<1>5. \A d \in RateCallers :
        IF d = c THEN allow'[d].pc = "lookup" /\ allow'[d].key = k
                 ELSE allow'[d] = allow[d]
  BY DEF RateInv, TypeOKRate, AllowGlobal, NoCall
<1>6. Owned(own)' /\ own \in [Buckets' -> RateKeys]
  BY <1>3, <1>4, <1>5 DEF Owned, AllowGlobal, Buckets
<1> QED BY <1>1, <1>2, <1>6 DEF RateInv

AllowCalls == [pc : {"idle", "lookup", "create", "reserve"},
               key : RateKeys \cup {"none"}, bucket : 0..MaxBuckets]

(* A caller that goes on with the bucket of its key. *)
LEMMA OwnedMoves ==
  ASSUME NEW own \in [Buckets -> RateKeys], Owned(own), NEW c \in RateCallers,
         UNCHANGED <<limiters, tokens, evicted, granted, credited>>,
         \A d \in RateCallers \ {c} : allow'[d] = allow[d],
         allow'[c].key = allow[c].key, allow[c].pc # "idle",
         allow'[c].pc = "reserve" =>
           limiters[allow[c].key] # 0 /\ allow'[c].bucket = limiters[allow[c].key]
  PROVE  Owned(own)' /\ own \in [Buckets' -> RateKeys]
<1>1. \A x \in RateKeys : Balanced(own, x)' BY KeepBalance DEF Owned
<1>2. Buckets' = Buckets BY DEF Buckets
<1>3. \A d \in RateCallers :
        /\ allow'[d].pc # "idle" => allow'[d].key \in RateKeys
        /\ allow'[d].pc = "reserve" =>
             allow'[d].bucket \in Buckets /\ own[allow'[d].bucket] = allow'[d].key
  <2>1. allow[c].key \in RateKeys BY DEF Owned
  <2>2. limiters[allow[c].key] # 0 =>
          limiters[allow[c].key] \in Buckets /\ own[limiters[allow[c].key]] = allow[c].key
    BY <2>1 DEF Owned
  <2>3. \A d \in RateCallers \ {c} :
          /\ allow[d].pc # "idle" => allow[d].key \in RateKeys
          /\ allow[d].pc = "reserve" =>
               allow[d].bucket \in Buckets /\ own[allow[d].bucket] = allow[d].key
    BY DEF Owned
  <2> QED BY <2>1, <2>2, <2>3
<1>4. \A k \in RateKeys : limiters'[k] # 0 =>
        limiters'[k] \in Buckets /\ own[limiters'[k]] = k
  BY DEF Owned
<1> QED BY <1>1, <1>2, <1>3, <1>4 DEF Owned

LEMMA LookupKeeps ==
  ASSUME RateInv, NEW c \in RateCallers, Lookup(c)
  PROVE  RateInv'
<1>1. PICK own \in [Buckets -> RateKeys] : Owned(own) BY DEF RateInv
<1>2. allow[c].key \in RateKeys /\ limiters[allow[c].key] \in 0..MaxBuckets
  BY <1>1 DEF Owned, Lookup, RateInv, TypeOKRate
<1>3. PICK n, pc : /\ n = limiters[allow[c].key]
                   /\ pc = IF n = 0 THEN "create" ELSE "reserve"
  OBVIOUS
<1>4. /\ allow' \in [RateCallers -> AllowCalls]
      /\ allow'[c].pc = pc /\ allow'[c].bucket = n /\ allow'[c].key = allow[c].key
      /\ \A d \in RateCallers \ {c} : allow'[d] = allow[d]
  <2>1. allow \in [RateCallers -> AllowCalls] BY DEF RateInv, TypeOKRate, AllowCalls
  <2>2. allow' = [allow EXCEPT ![c].pc = pc, ![c].bucket = n] BY <1>3 DEF Lookup
  <2>3. pc \in {"create", "reserve"} /\ n \in 0..MaxBuckets BY <1>2, <1>3
  <2>4. PICK r : r = [allow[c] EXCEPT !.pc = pc, !.bucket = n] OBVIOUS
  <2>5. r \in AllowCalls /\ r.pc = pc /\ r.bucket = n /\ r.key = allow[c].key
    BY <2>1, <2>3, <2>4 DEF AllowCalls
  <2>6. allow' = [allow EXCEPT ![c] = r] BY <2>2, <2>4
  <2> QED BY <2>1, <2>5, <2>6
<1>5. TypeOKRate' /\ (Len(tokens) <= MaxBuckets)'
  BY <1>4 DEF RateInv, TypeOKRate, AllowCalls, Lookup
<1>6. Listed' BY DEF RateInv, Listed, Listing, Lookup
<1>7. Owned(own)' /\ own \in [Buckets' -> RateKeys]
  BY <1>1, <1>3, <1>4, OwnedMoves DEF Lookup
<1> QED BY <1>5, <1>6, <1>7 DEF RateInv

LEMMA ReserveKeeps ==
  ASSUME RateInv, NEW c \in RateCallers, Reserve(c)
  PROVE  RateInv'
<1> DEFINE b == allow[c].bucket
           k == allow[c].key
<1>1. PICK own \in [Buckets -> RateKeys] : Owned(own) BY DEF RateInv
<1>2. k \in RateKeys /\ b \in 1..Len(tokens) /\ own[b] = k
  BY <1>1 DEF Owned, Reserve, Buckets
<1>3. /\ tokens \in Seq(0..KeyBurst) /\ KeyBurst \in Nat
      /\ granted \in [RateKeys -> Nat] /\ evicted \in [RateKeys -> Nat]
      /\ credited \in [RateKeys -> Nat]
      /\ allow' = [allow EXCEPT ![c] = NoCall]
      /\ UNCHANGED <<limiters, order, global, refills, evicted, credited>>
  BY RateAssumption DEF RateInv, TypeOKRate, Reserve
<1>4. allow' \in [RateCallers -> [pc : {"idle", "lookup", "create", "reserve"},
                                  key : RateKeys \cup {"none"},
                                  bucket : 0..MaxBuckets]]
  BY <1>3, RateAssumption DEF RateInv, TypeOKRate, NoCall
<1>5. /\ tokens' \in Seq(0..KeyBurst) /\ Len(tokens') = Len(tokens)
      /\ granted' \in [RateKeys -> Nat]
      /\ \A x \in RateKeys : Balanced(own, x)'
  <2>1. CASE tokens[b] > 0
    <3> DEFINE n == tokens[b]
    <3>1. n \in 1..KeyBurst BY <1>2, <1>3, <2>1
    <3>2. tokens' = [tokens EXCEPT ![b] = n - 1]
          /\ granted' = [granted EXCEPT ![k] = granted[k] + 1]
      BY <2>1 DEF Reserve
    <3> HIDE DEF n
    <3>3. tokens[b] = n BY DEF n
    <3> HIDE DEF b, k
    <3>4. /\ tokens' \in Seq(0..KeyBurst) /\ Len(tokens') = Len(tokens)
          /\ \A x \in RateKeys :
               Cardinality(Chips(tokens, own, x))
                 = Cardinality(Chips(tokens', own, x))
                     + (IF own[b] = x THEN 1 ELSE 0)
      <4>1. ASSUME NEW x \in RateKeys
            PROVE  /\ tokens' \in Seq(0..KeyBurst) /\ Len(tokens') = Len(tokens)
                   /\ Cardinality(Chips(tokens, own, x))
                        = Cardinality(Chips(tokens', own, x))
                            + (IF own[b] = x THEN 1 ELSE 0)
        <5>1. n - 1 \in 0..KeyBurst BY <1>3, <3>1
        <5>2. /\ tokens' \in Seq(0..KeyBurst) /\ Len(tokens') = Len(tokens)
              /\ tokens'[b] = n - 1
              /\ \A i \in 1..Len(tokens) : i # b => tokens'[i] = tokens[i]
          BY <1>2, <1>3, <3>2, <5>1
        <5>3. /\ own[b] = x => Cardinality(Chips(tokens, own, x))
                                = Cardinality(Chips(tokens', own, x)) + 1
              /\ own[b] # x => Cardinality(Chips(tokens, own, x))
                                = Cardinality(Chips(tokens', own, x))
          <6>1. OneLess(tokens, tokens', b, n)
            BY <1>2, <1>3, <3>1, <3>3, <5>2 DEF OneLess
          <6> QED BY <6>1, ChipChange
        <5> QED BY <1>3, <5>2, <5>3, ChipsFinite
      <4> QED BY <1>2, <4>1
    <3>5. granted' \in [RateKeys -> Nat]
          /\ \A x \in RateKeys :
               granted'[x] = granted[x] + (IF k = x THEN 1 ELSE 0)
      BY <1>2, <1>3, <3>2
    <3>6. ASSUME NEW x \in RateKeys PROVE Balanced(own, x)'
      <4>1. Balanced(own, x) BY <1>1 DEF Owned
      <4>2. Cardinality(Chips(tokens', own, x)) \in Nat BY <3>4, ChipsFinite
      <4>3. granted'[x] + Cardinality(Chips(tokens', own, x))
              = granted[x] + Cardinality(Chips(tokens, own, x))
        <5>1. Cardinality(Chips(tokens, own, x))
                = Cardinality(Chips(tokens', own, x)) + (IF k = x THEN 1 ELSE 0)
          BY <1>2, <3>4
        <5>2. granted'[x] = granted[x] + (IF k = x THEN 1 ELSE 0)
              /\ granted[x] \in Nat
          BY <1>3, <3>5
        <5> HIDE DEF k
        <5> QED BY <4>2, <5>1, <5>2
      <4> QED BY <1>3, <4>1, <4>3 DEF Balanced, Held
    <3> QED BY <3>4, <3>5, <3>6
  <2>2. CASE ~ (tokens[b] > 0)
    <3>1. UNCHANGED <<tokens, granted>> BY <2>2 DEF Reserve
    <3> QED BY <1>1, <1>3, <3>1, KeepBalance DEF Owned
  <2> QED BY <2>1, <2>2
<1>6. TypeOKRate' /\ (Len(tokens) <= MaxBuckets)'
  BY <1>3, <1>4, <1>5 DEF RateInv, TypeOKRate
<1>7. Listed' BY <1>3 DEF RateInv, Listed, Listing
<1>8. \A d \in RateCallers :
        IF d = c THEN allow'[d].pc = "idle" ELSE allow'[d] = allow[d]
  BY <1>3 DEF RateInv, TypeOKRate, NoCall
<1>9. Owned(own)' /\ own \in [Buckets' -> RateKeys]
  BY <1>1, <1>3, <1>5, <1>8 DEF Owned, Buckets
<1> QED BY <1>6, <1>7, <1>9 DEF RateInv

(* A new bucket for key k.  The oldest bucket, when it has to make room, is *)
(* no longer held but still owned: one burst is then due to an eviction.   *)
LEMMA NewLimiterKeeps ==
  ASSUME RateInv, NEW c \in RateCallers, NEW k \in RateKeys,
         allow[c].pc = "create", allow[c].key = k, limiters[k] = 0,
         NewLimiter(c, k), UNCHANGED <<global, refills, granted, credited>>
  PROVE  RateInv'
<1> DEFINE full == Len(order) >= MaxEntries
           kept == IF full THEN Tail(order) ELSE order
           h == Head(order)
           gone == IF full THEN [limiters EXCEPT ![h] = 0] ELSE limiters
           b == Len(tokens) + 1
<1>1. PICK own \in [Buckets -> RateKeys] : Owned(own) BY DEF RateInv
<1>2. /\ limiters \in [RateKeys -> 0..MaxBuckets]
      /\ limiters \in [RateKeys -> Nat] /\ order \in Seq(RateKeys)
      /\ tokens \in Seq(0..KeyBurst) /\ KeyBurst \in Nat
      /\ MaxEntries \in Nat \ {0} /\ MaxBuckets \in Nat
      /\ granted \in [RateKeys -> Nat] /\ evicted \in [RateKeys -> Nat]
      /\ credited \in [RateKeys -> Nat]
      /\ Len(order) \in Nat /\ Len(order) <= MaxEntries
      /\ Listing(order, limiters)
  BY RateAssumption DEF RateInv, TypeOKRate, Listed
<1>3. /\ b \in Nat \ {0} /\ b \in 0..MaxBuckets /\ b <= MaxBuckets
      /\ 1..b = (1..Len(tokens)) \cup {b} /\ b \notin 1..Len(tokens)
      /\ Len(tokens) \in Nat
  <2>1. b <= MaxBuckets BY DEF NewLimiter
  <2>2. Len(tokens) \in Nat BY <1>2
  <2> QED BY <1>2, <2>1, <2>2
<1>4. /\ tokens' = Append(tokens, KeyBurst)
      /\ limiters' = [gone EXCEPT ![k] = b]
      /\ order' = Append(kept, k)
      /\ evicted' = IF full THEN [evicted EXCEPT ![h] = evicted[h] + 1]
                    ELSE evicted
      /\ allow' = [allow EXCEPT ![c].pc = "reserve", ![c].bucket = b]
      /\ UNCHANGED <<global, refills, granted, credited>>
  BY DEF NewLimiter
<1>5. /\ kept \in Seq(RateKeys) /\ Len(kept) \in Nat /\ Len(kept) < MaxEntries
      /\ gone \in [RateKeys -> 0..MaxBuckets] /\ gone \in [RateKeys -> Nat]
      /\ Listing(kept, gone) /\ gone[k] = 0
      /\ full => h \in RateKeys /\ limiters[h] # 0
  <2>1. CASE full
    <3>1. order # <<>> BY <1>2, <2>1
    <3>2. /\ Tail(order) \in Seq(RateKeys) /\ Len(Tail(order)) = Len(order) - 1
          /\ h \in RateKeys /\ Listing(Tail(order), [limiters EXCEPT ![h] = 0])
      BY <1>2, <3>1, TailListing
    <3>3. limiters[h] # 0
      <4>1. 1 \in DOMAIN order /\ h = order[1] BY <1>2, <3>1
      <4>2. Listing(order, limiters) BY <1>2
      <4> QED BY <4>1, <4>2 DEF Listing
    <3>4. kept = Tail(order) /\ gone = [limiters EXCEPT ![h] = 0] BY <2>1
    <3>5. /\ gone \in [RateKeys -> 0..MaxBuckets] /\ gone \in [RateKeys -> Nat]
          /\ gone[k] = 0
      BY <1>2, <3>4
    <3>6. Len(kept) \in Nat /\ Len(kept) < MaxEntries
      <4>1. Len(kept) = Len(order) - 1 BY <3>2, <3>4
      <4>2. Len(order) \in Nat /\ Len(order) # 0 BY <1>2, <3>1
      <4> QED BY <1>2, <4>1, <4>2
    <3> QED BY <3>2, <3>3, <3>4, <3>5, <3>6
  <2>2. CASE ~ full BY <1>2, <2>2
  <2> QED BY <2>1, <2>2
<1> HIDE DEF kept, gone, full, b
<1>6. Listed'
  <2>1. Listing(order', limiters') BY <1>3, <1>4, <1>5, AppendListing
  <2>2. Len(order') = Len(kept) + 1 BY <1>4, <1>5
  <2>3. (Len(order) <= MaxEntries)' BY <1>2, <1>5, <2>2
  <2> QED BY <2>1, <2>3 DEF Listed
<1>7. /\ tokens' \in Seq(0..KeyBurst) /\ Len(tokens') = b
      /\ order' \in Seq(RateKeys)
      /\ limiters' \in [RateKeys -> 0..MaxBuckets]
      /\ evicted' \in [RateKeys -> Nat]
  <2>1. tokens' \in Seq(0..KeyBurst) /\ Len(tokens') = b
    BY <1>2, <1>4 DEF b
  <2>2. evicted' \in [RateKeys -> Nat]
    <3>1. CASE full
      <4>1. evicted' = [evicted EXCEPT ![h] = evicted[h] + 1] BY <1>4, <3>1
      <4>2. evicted[h] \in Nat /\ h \in RateKeys
        <5>1. h \in RateKeys BY <1>5, <3>1
        <5> QED BY <1>2, <5>1
      <4>3. evicted[h] + 1 \in Nat BY <4>2
      <4> QED BY <1>2, <4>1, <4>2, <4>3
    <3>2. CASE ~ full BY <1>2, <1>4, <3>2
    <3> QED BY <3>1, <3>2
  <2> QED BY <1>3, <1>4, <1>5, <2>1, <2>2
<1>8. allow' \in [RateCallers -> [pc : {"idle", "lookup", "create", "reserve"},
                                  key : RateKeys \cup {"none"},
                                  bucket : 0..MaxBuckets]]
      /\ \A d \in RateCallers :
           IF d = c THEN allow'[d].key = k /\ allow'[d].bucket = b
                    ELSE allow'[d] = allow[d]
  <2>1. allow \in [RateCallers -> AllowCalls] BY DEF RateInv, TypeOKRate, AllowCalls
  <2>2. PICK n, pc : n = b /\ pc = "reserve" OBVIOUS
  <2>3. n \in 0..MaxBuckets /\ pc \in {"create", "reserve"} BY <1>3, <2>2
  <2>4. allow' = [allow EXCEPT ![c].pc = pc, ![c].bucket = n] BY <1>4, <2>2
  <2>5. PICK r : r = [allow[c] EXCEPT !.pc = pc, !.bucket = n] OBVIOUS
  <2>6. r \in AllowCalls /\ r.bucket = n /\ r.key = k
    BY <2>1, <2>3, <2>5 DEF AllowCalls
  <2>7. allow' = [allow EXCEPT ![c] = r] BY <2>4, <2>5
  <2>8. allow' \in [RateCallers -> AllowCalls] BY <2>1, <2>6, <2>7
  <2>9. \A d \in RateCallers : allow'[d] = IF d = c THEN r ELSE allow[d]
    BY <2>1, <2>7
  <2> QED BY <2>2, <2>6, <2>8, <2>9 DEF AllowCalls
<1>9. TypeOKRate' /\ (Len(tokens) <= MaxBuckets)'
  <2>1. global' \in 0..GlobalBurst /\ refills' \in 0..MaxRefills
        /\ granted' \in [RateKeys -> Nat] /\ credited' \in [RateKeys -> Nat]
    BY <1>4 DEF RateInv, TypeOKRate
  <2> QED BY <1>3, <1>7, <1>8, <2>1 DEF TypeOKRate
<1>10. PICK own1 : /\ own1 \in [1..b -> RateKeys] /\ own1[b] = k
                   /\ \A i \in 1..Len(tokens) : own1[i] = own[i]
  <2> DEFINE f == [i \in 1..b |-> IF i = b THEN k ELSE own[i]]
  <2>1. \A i \in 1..Len(tokens) : own[i] \in RateKeys BY DEF Buckets
  <2>2. f \in [1..b -> RateKeys] BY <1>3, <2>1
  <2>3. f[b] = k /\ \A i \in 1..Len(tokens) : f[i] = own[i] BY <1>3
  <2> QED BY <2>2, <2>3
<1>11. ASSUME NEW x \in RateKeys
       PROVE  /\ own1[b] = x => Cardinality(Chips(tokens', own1, x))
                                  = Cardinality(Chips(tokens, own, x)) + KeyBurst
              /\ own1[b] # x => Cardinality(Chips(tokens', own1, x))
                                  = Cardinality(Chips(tokens, own, x))
  <2>1. OneMore(tokens, own, tokens', own1, b)
    BY <1>2, <1>4, <1>10 DEF OneMore, b
  <2> QED BY <2>1, ChipsOfNew
<1>12. ASSUME NEW x \in RateKeys PROVE Balanced(own1, x)'
  <2> DEFINE chips == Cardinality(Chips(tokens, own, x))
             chips1 == Cardinality(Chips(tokens', own1, x))
             e == evicted[x]
             held == IF limiters[x] # 0 THEN 1 ELSE 0
             held1 == IF limiters'[x] # 0 THEN 1 ELSE 0
  <2>1. granted[x] + chips = KeyBurst * (e + held) + credited[x]
    BY <1>1 DEF Owned, Balanced, Held
  <2>2. (k = x => chips1 = chips + KeyBurst) /\ (k # x => chips1 = chips)
    BY <1>10, <1>11
  <2>3. chips \in Nat BY <1>2, ChipsFinite
  <2>4. evicted'[x] + held1 = e + held + (IF k = x THEN 1 ELSE 0)
    <3>1. limiters'[x] = (IF x = k THEN b ELSE gone[x]) BY <1>4, <1>5
    <3>2. CASE full
      <4>1. /\ h \in RateKeys /\ h # k
            /\ gone[x] = (IF x = h THEN 0 ELSE limiters[x])
            /\ evicted'[x] = (IF x = h THEN e + 1 ELSE e) /\ e \in Nat
        BY <1>2, <1>4, <1>5, <3>2 DEF gone
      <4> QED BY <1>3, <1>5, <3>1, <3>2, <4>1
    <3>3. CASE ~ full
      <4>1. gone[x] = limiters[x] /\ evicted'[x] = e /\ e \in Nat
        BY <1>2, <1>4, <3>3 DEF gone
      <4> QED BY <1>3, <1>5, <3>1, <4>1
    <3> QED BY <3>2, <3>3
  <2>5. \A n \in Nat : KeyBurst * (n + 1) = KeyBurst * n + KeyBurst
    BY <1>2
  <2>6. e + held \in Nat /\ KeyBurst * (e + held) \in Nat
    <3>1. e \in Nat /\ held \in Nat BY <1>2
    <3> HIDE DEF e, held
    <3>2. e + held \in Nat BY <3>1
    <3> QED BY <1>2, <3>2
  <2>7. granted'[x] = granted[x] /\ credited'[x] = credited[x]
        /\ granted[x] \in Nat /\ credited[x] \in Nat
    BY <1>2, <1>4
  <2> HIDE DEF chips, chips1, e, held, held1
  <2>8. granted'[x] + chips1 = KeyBurst * (evicted'[x] + held1) + credited'[x]
    <3>1. CASE k = x
      <4>1. KeyBurst * (evicted'[x] + held1) = KeyBurst * (e + held) + KeyBurst
        BY <2>4, <2>5, <2>6, <3>1
      <4> DEFINE due == KeyBurst * (e + held)
                 due1 == KeyBurst * (evicted'[x] + held1)
      <4>2. due \in Nat /\ due1 = due + KeyBurst BY <2>6, <4>1
      <4>3. granted[x] + chips = due + credited[x] BY <2>1
      <4> HIDE DEF due, due1
      <4>4. granted'[x] + chips1 = due1 + credited'[x]
        <5>1. chips1 = chips + KeyBurst BY <2>2, <3>1
        <5>2. KeyBurst \in Nat BY <1>2
        <5> QED BY <2>3, <2>7, <4>2, <4>3, <5>1, <5>2
      <4> QED BY <4>4 DEF due1
    <3>2. CASE k # x
      <4>1. evicted'[x] + held1 = e + held BY <2>4, <2>6, <3>2
      <4>2. chips1 = chips BY <2>2, <3>2
      <4> QED BY <2>1, <2>7, <4>1, <4>2
    <3> QED BY <3>1, <3>2
  <2> QED BY <2>8 DEF Balanced, Held, chips1, held1
<1>13. \A x \in RateKeys : limiters'[x] # 0 =>
         limiters'[x] \in 1..b /\ own1[limiters'[x]] = x
  <2> TAKE x \in RateKeys
  <2>1. CASE x = k BY <1>3, <1>4, <1>5, <1>10, <2>1
  <2>2. CASE x # k /\ limiters'[x] # 0
    <3>1. limiters'[x] = gone[x] BY <1>4, <1>5, <2>2
    <3>2. limiters'[x] = limiters[x] BY <1>2, <1>5, <2>2, <3>1 DEF gone
    <3>3. limiters[x] \in 1..Len(tokens) /\ own[limiters[x]] = x
      BY <1>1, <2>2, <3>2 DEF Owned, Buckets
    <3> QED BY <1>3, <1>10, <3>2, <3>3
  <2> QED BY <2>1, <2>2
<1>14. \A d \in RateCallers :
         /\ allow'[d].pc # "idle" => allow'[d].key \in RateKeys
         /\ allow'[d].pc = "reserve" =>
              allow'[d].bucket \in 1..b /\ own1[allow'[d].bucket] = allow'[d].key
  <2> TAKE d \in RateCallers
  <2>1. CASE d = c BY <1>3, <1>8, <1>10, <2>1
  <2>2. CASE d # c
    <3>1. allow'[d] = allow[d] BY <1>8, <2>2
    <3>2. /\ allow[d].pc # "idle" => allow[d].key \in RateKeys
          /\ allow[d].pc = "reserve" =>
               allow[d].bucket \in 1..Len(tokens)
               /\ own[allow[d].bucket] = allow[d].key
      BY <1>1 DEF Owned, Buckets
    <3> QED BY <1>3, <1>10, <3>1, <3>2
  <2> QED BY <2>1, <2>2
<1>15. Owned(own1)' /\ own1 \in [Buckets' -> RateKeys]
  BY <1>7, <1>10, <1>12, <1>13, <1>14 DEF Owned, Buckets
<1> QED BY <1>6, <1>9, <1>15 DEF RateInv

LEMMA CreateKeeps ==
  ASSUME RateInv, NEW c \in RateCallers, Create(c)
  PROVE  RateInv'
<1> DEFINE k == allow[c].key
<1>1. PICK own \in [Buckets -> RateKeys] : Owned(own) BY DEF RateInv
<1>2. allow[c].pc = "create" /\ k \in RateKeys BY <1>1 DEF Owned, Create
<1>3. CASE limiters[k] = 0 BY <1>2, <1>3, NewLimiterKeeps DEF Create
<1>4. CASE limiters[k] # 0
  <2>1. /\ allow' = [allow EXCEPT ![c].pc = "reserve",
                                  ![c].bucket = limiters[k]]
        /\ UNCHANGED <<limiters, order, tokens, evicted, global, refills,
                       granted, credited>>
    BY <1>4 DEF Create
  <2>2. PICK n, pc : n = limiters[k] /\ pc = "reserve" OBVIOUS
  <2>3. /\ allow' \in [RateCallers -> AllowCalls]
        /\ allow'[c].pc = pc /\ allow'[c].bucket = n /\ allow'[c].key = k
        /\ \A d \in RateCallers \ {c} : allow'[d] = allow[d]
    <3>1. allow \in [RateCallers -> AllowCalls] BY DEF RateInv, TypeOKRate, AllowCalls
    <3>2. n \in 0..MaxBuckets BY <1>2, <2>2 DEF RateInv, TypeOKRate
    <3>3. pc \in {"create", "reserve"} BY <2>2
    <3>4. allow' = [allow EXCEPT ![c].pc = pc, ![c].bucket = n] BY <2>1, <2>2
    <3>5. PICK r : r = [allow[c] EXCEPT !.pc = pc, !.bucket = n] OBVIOUS
    <3>6. r \in AllowCalls /\ r.pc = pc /\ r.bucket = n /\ r.key = k
      BY <3>1, <3>2, <3>3, <3>5 DEF AllowCalls
    <3>7. allow' = [allow EXCEPT ![c] = r] BY <3>4, <3>5
    <3> QED BY <3>1, <3>6, <3>7
  <2>4. TypeOKRate' /\ (Len(tokens) <= MaxBuckets)'
    BY <2>1, <2>3 DEF RateInv, TypeOKRate, AllowCalls
  <2>5. Listed' BY <2>1 DEF RateInv, Listed, Listing
  <2>6. Owned(own)' /\ own \in [Buckets' -> RateKeys]
    BY <1>1, <1>2, <1>4, <2>1, <2>2, <2>3, OwnedMoves
  <2> QED BY <2>4, <2>5, <2>6 DEF RateInv
<1> QED BY <1>3, <1>4

LEMMA RefillKeyKeeps ==
  ASSUME RateInv, NEW k \in RateKeys, RefillKey(k)
  PROVE  RateInv'
<1> DEFINE b == limiters[k]
           n == tokens[b] + 1
<1>1. PICK own \in [Buckets -> RateKeys] : Owned(own) BY DEF RateInv
<1>2. b \in 1..Len(tokens) /\ own[b] = k
  BY <1>1 DEF Owned, RefillKey, Buckets
<1>3. /\ tokens \in Seq(0..KeyBurst) /\ KeyBurst \in Nat
      /\ granted \in [RateKeys -> Nat] /\ evicted \in [RateKeys -> Nat]
      /\ credited \in [RateKeys -> Nat]
      /\ refills \in 0..MaxRefills /\ refills < MaxRefills
      /\ refills' = refills + 1 /\ MaxRefills \in Nat
      /\ credited' = [credited EXCEPT ![k] = credited[k] + 1]
      /\ tokens[b] < KeyBurst
      /\ UNCHANGED <<limiters, order, global, allow, granted, evicted>>
  BY RateAssumption DEF RateInv, TypeOKRate, RefillKey
<1>4. n \in 1..KeyBurst /\ tokens[b] = n - 1
  <2>1. tokens[b] \in 0..KeyBurst BY <1>2, <1>3
  <2> QED BY <1>3, <2>1
<1>5. tokens' = [tokens EXCEPT ![b] = n] BY DEF RefillKey
<1> HIDE DEF n, b
<1>6. /\ tokens' \in Seq(0..KeyBurst) /\ Len(tokens') = Len(tokens)
      /\ tokens'[b] = n
      /\ \A i \in 1..Len(tokens) : i # b => tokens'[i] = tokens[i]
  <2>1. n \in 0..KeyBurst BY <1>3, <1>4
  <2> QED BY <1>2, <1>3, <1>5, <2>1
<1>7. ASSUME NEW x \in RateKeys
      PROVE  Cardinality(Chips(tokens', own, x))
               = Cardinality(Chips(tokens, own, x))
                   + (IF own[b] = x THEN 1 ELSE 0)
  <2>1. b \in 1..Len(tokens') BY <1>2, <1>6
  <2>2. /\ own[b] = x => Cardinality(Chips(tokens', own, x))
                          = Cardinality(Chips(tokens, own, x)) + 1
        /\ own[b] # x => Cardinality(Chips(tokens', own, x))
                          = Cardinality(Chips(tokens, own, x))
    <3>1. OneLess(tokens', tokens, b, n)
      BY <1>3, <1>4, <1>6, <2>1 DEF OneLess
    <3> QED BY <3>1, ChipChange
  <2> QED BY <1>3, <2>2, ChipsFinite
<1>8. credited' \in [RateKeys -> Nat]
      /\ \A x \in RateKeys :
           credited'[x] = credited[x] + (IF k = x THEN 1 ELSE 0)
  BY <1>3
<1>9. ASSUME NEW x \in RateKeys PROVE Balanced(own, x)'
  <2> DEFINE due == KeyBurst * (evicted[x] + Held(x))
             chips == Cardinality(Chips(tokens, own, x))
             chips1 == Cardinality(Chips(tokens', own, x))
  <2>1. granted[x] + chips = due + credited[x] BY <1>1 DEF Owned, Balanced
  <2>2. chips1 = chips + (IF k = x THEN 1 ELSE 0) BY <1>2, <1>7
  <2>3. chips \in Nat BY <1>3, ChipsFinite
  <2>4. due \in Nat BY <1>3 DEF Held
  <2> HIDE DEF due, chips, chips1
  <2>5. granted[x] + chips1 = due + credited'[x]
    BY <1>3, <1>8, <2>1, <2>2, <2>3, <2>4
  <2> QED BY <1>3, <2>5 DEF Balanced, Held, due, chips1
<1>10. TypeOKRate' /\ (Len(tokens) <= MaxBuckets)'
  <2>1. refills' \in 0..MaxRefills BY <1>3 DEF RateInv, TypeOKRate
  <2>2. tokens' \in Seq(0..KeyBurst) /\ (Len(tokens) <= MaxBuckets)'
    BY <1>6 DEF RateInv
  <2>3. credited' \in [RateKeys -> Nat] BY <1>8
  <2>4. UNCHANGED <<limiters, order, global, allow, granted, evicted>> BY <1>3
  <2> QED BY <2>1, <2>2, <2>3, <2>4 DEF RateInv, TypeOKRate
<1>11. Listed' BY <1>3 DEF RateInv, Listed, Listing
<1>12. Owned(own)' /\ own \in [Buckets' -> RateKeys]
  BY <1>1, <1>3, <1>6, <1>9 DEF Owned, Buckets
<1> QED BY <1>10, <1>11, <1>12 DEF RateInv

LEMMA RefillGlobalKeeps ==
  ASSUME RateInv, RefillGlobal
  PROVE  RateInv'
<1>1. TypeOKRate' /\ (Len(tokens) <= MaxBuckets)'
  BY RateAssumption DEF RateInv, TypeOKRate, RefillGlobal
<1>2. Listed' BY DEF RateInv, Listed, Listing, RefillGlobal
<1>3. PICK own \in [Buckets -> RateKeys] : Owned(own) BY DEF RateInv
<1>4. \A x \in RateKeys : Balanced(own, x)'
  BY <1>3, KeepBalance DEF Owned, RefillGlobal
<1>5. Owned(own)' /\ own \in [Buckets' -> RateKeys]
  BY <1>3, <1>4 DEF Owned, RefillGlobal, Buckets
<1> QED BY <1>1, <1>2, <1>5 DEF RateInv

LEMMA NextRate == RateInv /\ [RateNext]_rateVars => RateInv'
<1> SUFFICES ASSUME RateInv, [RateNext]_rateVars PROVE RateInv' OBVIOUS
<1>1. CASE UNCHANGED rateVars
  <2>1. PICK own \in [Buckets -> RateKeys] : Owned(own) BY DEF RateInv
  <2>2. \A x \in RateKeys : Balanced(own, x)'
    BY <1>1, <2>1, KeepBalance DEF Owned, rateVars
  <2>3. Owned(own)' /\ own \in [Buckets' -> RateKeys]
    BY <1>1, <2>1, <2>2 DEF Owned, Buckets, rateVars
  <2>4. TypeOKRate' /\ (Len(tokens) <= MaxBuckets)' /\ Listed'
    BY <1>1 DEF RateInv, TypeOKRate, Listed, Listing, rateVars
  <2> QED BY <2>3, <2>4 DEF RateInv
<1>2. CASE RateNext
  BY <1>2, AllowGlobalKeeps, LookupKeeps, CreateKeeps, ReserveKeeps,
     RefillKeyKeeps, RefillGlobalKeeps DEF RateNext
<1> QED BY <1>1, <1>2

----------------------------------------------------------------------------
(* The inductive invariant: some assignment of buckets to keys accounts    *)
(* for every token granted, held and put back.                             *)
THEOREM RateInvariant == RateSpec => []RateInv
<1> QED BY InitRate, NextRate, PTL DEF RateSpec

(* No interleaving of first uses, evictions and late Reserve calls gives a *)
(* key more than a burst per registration and what time put back (Allow    *)
(* and getLimiter).                                                        *)
THEOREM BudgetsHold == RateSpec => []KeyBudget
<1>1. RateInv => KeyBudget
  <2> SUFFICES ASSUME RateInv, NEW k \in RateKeys
               PROVE  granted[k] <= KeyBurst * (1 + evicted[k]) + credited[k]
    BY DEF KeyBudget
  <2>1. PICK own \in [Buckets -> RateKeys] : Owned(own) BY DEF RateInv
  <2> DEFINE chips == Cardinality(Chips(tokens, own, k))
             n == evicted[k]
             due == KeyBurst * n
  <2>2. granted[k] + chips = KeyBurst * (n + Held(k)) + credited[k]
    BY <2>1 DEF Owned, Balanced
  <2>3. /\ granted[k] \in Nat /\ n \in Nat /\ credited[k] \in Nat
        /\ KeyBurst \in Nat /\ tokens \in Seq(0..KeyBurst)
    BY RateAssumption DEF RateInv, TypeOKRate
  <2>4. chips \in Nat BY <2>3, ChipsFinite
  <2>5. due \in Nat /\ KeyBurst * (1 + n) = due + KeyBurst
        /\ KeyBurst * (n + 1) = due + KeyBurst /\ KeyBurst * (n + 0) = due
    BY <2>3
  <2>6. Held(k) = 1 \/ Held(k) = 0 BY DEF Held
  <2>7. KeyBurst * (n + Held(k)) = due + KeyBurst
        \/ KeyBurst * (n + Held(k)) = due
    BY <2>5, <2>6
  <2> HIDE DEF chips, due, n
  <2>8. granted[k] <= due + KeyBurst + credited[k]
    BY <2>2, <2>3, <2>4, <2>5, <2>7
  <2> QED BY <2>5, <2>8 DEF n
<1> QED BY <1>1, RateInvariant, PTL

(* The list of keys and the map of buckets never disagree, and the registry *)
(* never outgrows its limit (getLimiter).                                   *)
THEOREM OrderAndMapAgree == RateSpec => []OrderMatchesMap
<1>1. RateInv => OrderMatchesMap
  <2> SUFFICES ASSUME RateInv PROVE OrderMatchesMap OBVIOUS
  <2>1. order \in Seq(RateKeys) /\ Listing(order, limiters)
        /\ Len(order) <= MaxEntries
    BY DEF RateInv, TypeOKRate, Listed
  <2>2. \A i \in DOMAIN order : order[i] \in RateKeys BY <2>1
  <2>3. {order[i] : i \in DOMAIN order} = {k \in RateKeys : limiters[k] # 0}
    BY <2>1, <2>2 DEF Listing
  <2>4. Cardinality({order[i] : i \in DOMAIN order}) = Len(order)
    BY <2>1, ListingCount
  <2> QED BY <2>1, <2>3, <2>4 DEF OrderMatchesMap
<1> QED BY <1>1, RateInvariant, PTL

(* The variables keep their types.                                         *)
THEOREM RateTypeCorrect == RateSpec => []TypeOKRate
<1>1. RateInv => TypeOKRate BY DEF RateInv
<1> QED BY <1>1, RateInvariant, PTL

=============================================================================
