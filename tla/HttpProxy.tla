----------------------------- MODULE HttpProxy -----------------------------
(***************************************************************************)
(* internal/proxy for one plugin: Execute runs an http_request of the      *)
(* plugin, with the redirects, retries, Kerberos and SAML exchanges that   *)
(* follow.  Requests run concurrently with each other and with the         *)
(* manager, which registers the plugin, adds the domains its init_ok named *)
(* and unregisters it during a reload.  Execute works on a copy of the     *)
(* registration taken under the lock.                                      *)
(*                                                                         *)
(* Servers are external: they redirect and answer as they like.            *)
(***************************************************************************)
EXTENDS Integers, FiniteSets

CONSTANTS
  Hosts,            \* host names, normalised (domaincheck.Normalize)
  Parents,          \* Parents[h]: h and the domains above it
  Refusable,        \* hosts domaincheck.Validate refuses: addresses, localhost
  Registrations,    \* what the manager may register, see Registration
  InitDomains,      \* domains an init_ok may add
  Execs,            \* concurrent requests
  Inputs,           \* Inputs[e]: what request e may ask for, see Request
  ReadOnly,         \* server started with --read-only
  MaxDynamicDomains, MaxTotalDomains, MaxRetries, MaxRateRetries, MaxRedirects, SamlMaxLegs,
  MaxRegistrations  \* bound: registrations by the manager

ASSUME ProxyAssumption ==
  /\ Parents \in [Hosts -> SUBSET Hosts]
  /\ \A h \in Hosts : h \in Parents[h]
  /\ "none" \notin Hosts
  /\ \A n \in {MaxDynamicDomains, MaxTotalDomains, MaxRetries, MaxRateRetries,
               MaxRedirects, SamlMaxLegs, MaxRegistrations} : n \in Nat

VARIABLES
  plugin,      \* the plugin's entry of p.plugins
  anchors,     \* history: every domain it was registered or initialised with
  registered,  \* registrations so far
  ex,          \* the requests
  cooldown     \* samlCooldowns has an entry for the plugin and URL

proxyVars == <<plugin, anchors, registered, ex, cooldown>>

----------------------------------------------------------------------------
Schemes == {"http", "https"}
URL == [host : Hosts, scheme : Schemes]
NoURL == [host |-> "none", scheme |-> "https"]
Methods == {"GET", "PUT", "POST"}
Registration == [allowed : SUBSET Hosts, baseURL : URL \cup {NoURL},
                 auth : {"none", "missing", "header", "kerberos"},
                 mtls : BOOLEAN]
Request == [url : URL \cup {NoURL}, method : Methods, noAuth : BOOLEAN,
            domains : SUBSET Hosts, access : {"read", "write"}]
NoRequest == [url |-> NoURL, method |-> "GET", noAuth |-> TRUE, domains |-> {},
              access |-> "read"]
NotRegistered == [allowed |-> {}, base |-> {}, baseURL |-> NoURL,
                  auth |-> "unregistered", mtls |-> FALSE]

(* registerWithProxy adds the host of base_url to the allowed domains.     *)
ASSUME RegistrationAssumption ==
  /\ Registrations \subseteq Registration
  /\ \A r \in Registrations : r.baseURL # NoURL => r.baseURL.host \in r.allowed
ASSUME RequestAssumption ==
  /\ InitDomains \subseteq Hosts
  /\ Inputs \in [Execs -> SUBSET Request]

(* One request on the wire; `body` also stands for its Content-Type.       *)
NoHop == [url |-> NoURL, auth |-> FALSE, body |-> FALSE]
NotStarted == [pc |-> "idle", pa |-> NotRegistered, req |-> NoRequest, asks |-> 0, attempt |-> 0,
               hop |-> NoHop, hops |-> 0, answered |-> 0,
               retried |-> FALSE, flow |-> "none", legs |-> 0, res |-> "none"]

Step(e, r) == ex' = [ex EXCEPT ![e] = r]
On(e, pc) == ex[e].pc = pc
Returned(x, code) == [NotStarted EXCEPT !.pc = "done", !.req = x.req,
                                       !.answered = x.answered, !.res = code]
Done(e, code) == Step(e, Returned(ex[e], code))

(* domaincheck.IsSubdomain and Contains.                                   *)
IsSubdomain(d, bases) == Parents[d] \cap bases # {}

isIdempotent(method) == method \in {"GET", "PUT"}
isReadOnlyMethod(method) == method = "GET"

(* An auth provider has credentials; without them it may still exist.      *)
AuthAvailable(pa) == pa.auth \in {"header", "kerberos"}

TypeOKProxy ==
  /\ plugin.allowed \cup plugin.base \subseteq Hosts
  /\ anchors \subseteq Hosts /\ registered \in 0..MaxRegistrations
  /\ cooldown \in BOOLEAN
  /\ \A e \in Execs :
       /\ ex[e].pc \in {"idle", "domains", "reread", "resolve", "limit", "check",
                        "send", "wire", "sso", "replay", "done"}
       /\ ex[e].hops \in 0..MaxRedirects /\ ex[e].attempt \in 0..MaxRetries
       /\ ex[e].asks \in 0..MaxRateRetries

----------------------------------------------------------------------------
ProxyInit ==
  /\ plugin = NotRegistered /\ anchors = {} /\ registered = 0
  /\ cooldown = FALSE
  /\ ex = [e \in Execs |-> NotStarted]

RegisterPlugin(r) ==
  /\ registered < MaxRegistrations
  /\ registered' = registered + 1
  /\ plugin' = [allowed |-> r.allowed, base |-> r.allowed,
                baseURL |-> r.baseURL, auth |-> r.auth, mtls |-> r.mtls]
  /\ anchors' = anchors \cup r.allowed
  /\ UNCHANGED <<ex, cooldown>>

UnregisterPlugin ==
  /\ plugin # NotRegistered
  /\ plugin' = NotRegistered
  /\ UNCHANGED <<anchors, registered, ex, cooldown>>

(* The loop of AddAllowedDomains and AddBaseDomains: one by one while      *)
(* there is room; which ones fit depends on the order of the list.         *)
Admitted(allowed, domains) ==
  {allowed \cup new : new \in {n \in SUBSET (domains \ allowed) :
     LET room == MaxTotalDomains - Cardinality(allowed) IN
     \/ Cardinality(n) <= room /\ n = domains \ allowed
     \/ Cardinality(n) = room
     \/ room < 0 /\ n = {}}}

(* A domain that was allowed before becomes a base domain as well, unless  *)
(* the limit was reached first.                                            *)
AddBaseDomains(domains) ==
  /\ plugin # NotRegistered
  /\ \E a \in Admitted(plugin.allowed, domains),
        known \in SUBSET (domains \cap plugin.allowed) :
       /\ Cardinality(a) < MaxTotalDomains => known = domains \cap plugin.allowed
       /\ Cardinality(plugin.allowed) >= MaxTotalDomains => known = {}
       /\ LET base == plugin.base \cup (a \ plugin.allowed) \cup known IN
            /\ plugin' = [plugin EXCEPT !.allowed = a, !.base = base]
            /\ anchors' = anchors \cup base
  /\ UNCHANGED <<registered, ex, cooldown>>

----------------------------------------------------------------------------
(* Execute: the copy taken under the read lock.  The request's list of     *)
(* domains is cut off at maxDynamicDomains.                                *)
Snapshot(e, q) ==
  /\ On(e, "idle") /\ q \in Inputs[e]
  /\ IF plugin = NotRegistered THEN Done(e, "no_config")
     ELSE \E d \in SUBSET q.domains :
            /\ \/ d = q.domains /\ Cardinality(d) <= MaxDynamicDomains
               \/ d # q.domains /\ Cardinality(d) = MaxDynamicDomains
            /\ Step(e, [NotStarted EXCEPT !.pa = plugin,
                          !.pc = IF d = {} THEN "resolve" ELSE "domains",
                          !.req = [q EXCEPT !.domains = d]])
  /\ UNCHANGED <<plugin, anchors, registered, cooldown>>
Req(e) == ex[e].req

(* Mutant: a request's domains need not belong to a base domain.           *)
ValidDomainsAny(e) == Req(e).domains \ Refusable

ValidDomains(e) ==
  {d \in Req(e).domains \ Refusable : IsSubdomain(d, ex[e].pa.base)}

(* AddAllowedDomains, validated against the copy, added to the entry that  *)
(* is registered now.                                                      *)
AddAllowedDomains(e) ==
  /\ On(e, "domains")
  /\ IF ValidDomains(e) = {} \/ plugin = NotRegistered THEN UNCHANGED plugin
     ELSE \E a \in Admitted(plugin.allowed, ValidDomains(e)) :
            plugin' = [plugin EXCEPT !.allowed = a]
  /\ Step(e, [ex[e] EXCEPT !.pc = IF ValidDomains(e) = {} THEN "resolve"
                                  ELSE "reread"])
  /\ UNCHANGED <<anchors, registered, cooldown>>

RereadAllowed(e) ==
  /\ On(e, "reread")
  /\ Step(e, [ex[e] EXCEPT !.pc = "resolve",
                !.pa.allowed = IF plugin = NotRegistered THEN @
                               ELSE plugin.allowed])
  /\ UNCHANGED <<plugin, anchors, registered, cooldown>>

(* resolveURL: the target, or none.                                        *)
Target(e) == IF Req(e).url # NoURL THEN Req(e).url ELSE ex[e].pa.baseURL
Resolves(e) ==
  LET pa == ex[e].pa IN
  /\ Req(e).url # NoURL => Req(e).url.host \in pa.allowed
  /\ Target(e) # NoURL
  /\ pa.mtls \/ AuthAvailable(pa) => Target(e).scheme = "https"

ResolveURL(e) ==
  /\ On(e, "resolve")
  /\ IF Resolves(e)
     THEN Step(e, [ex[e] EXCEPT !.pc = "limit", !.pa.base = {},
                                !.req.domains = {}])
     ELSE Done(e, "invalid_url")
  /\ UNCHANGED <<plugin, anchors, registered, cooldown>>

(* The rate-limit loop.  "now": a token; "soon": a wait of at most         *)
(* maxRateLimitWait, which the caller's context may end; "late": longer.   *)
RateLimited(e, answer, cancelled) ==
  /\ On(e, "limit")
  /\ CASE answer = "now" ->
            Step(e, [ex[e] EXCEPT !.pc = "check", !.asks = 0])
       [] answer = "late" \/ (answer = "soon" /\ ex[e].asks >= MaxRateRetries) ->
            Done(e, "rate_limited")
       [] answer = "soon" /\ ex[e].asks < MaxRateRetries ->
            IF cancelled THEN Done(e, "request_cancelled")
            ELSE Step(e, [ex[e] EXCEPT !.asks = @ + 1])
  /\ UNCHANGED <<plugin, anchors, registered, cooldown>>

(* Who may use a mutating method.                                          *)
CheckMethod(e) ==
  LET q == Req(e)
      mutating == ~isReadOnlyMethod(q.method)
      pa == ex[e].pa
  IN /\ On(e, "check")
     /\ CASE mutating /\ (ReadOnly \/ q.access = "read") ->
               Done(e, "method_not_allowed")
          [] mutating /\ ~ReadOnly /\ q.access # "read" /\ pa.auth # "none"
               /\ (q.noAuth \/ ~AuthAvailable(pa)) -> Done(e, "auth_required")
          [] OTHER -> Step(e, [ex[e] EXCEPT !.pc = "send"])
     /\ UNCHANGED <<plugin, anchors, registered, cooldown>>

(* One attempt: buildRequest drops the headers a plugin must not set,      *)
(* injectAuth or the SPNEGO transport adds the credentials.                *)
FirstHop(e) ==
  LET q == Req(e) IN
  [url |-> Target(e), body |-> q.method # "GET",
   auth |-> ~q.noAuth /\ AuthAvailable(ex[e].pa)]

Send(e, ok) ==
  /\ On(e, "send") \/ On(e, "replay")
  /\ IF ok THEN Step(e, [ex[e] EXCEPT !.pc = "wire", !.hops = 0, !.retried = FALSE,
                           !.hop = FirstHop(e)])
     ELSE Done(e, IF On(e, "replay") THEN "original" ELSE "auth_failed")
  /\ UNCHANGED <<plugin, anchors, registered, cooldown>>

(* allowlistCheckRedirect, after net/http has made the next request from   *)
(* the first one.  `keep`: a 307 or 308, which keeps method and body.      *)
RedirectAllowed(e, to) ==
  /\ to.host \in ex[e].pa.allowed
  /\ ~(ex[e].hop.url.scheme = "https" /\ to.scheme = "http")

(* Mutant: compared with the previous hop instead of the first one.        *)
SameSitePrevious(e, to) == to.host = ex[e].hop.url.host

SameSite(e, to) == to.host = Target(e).host

NextHop(e, to, keep) ==
  LET f == FirstHop(e) IN
  [url |-> to,
   auth |-> f.auth /\ SameSite(e, to),
   body |-> keep /\ f.body /\ SameSite(e, to)]

(* Mutant: the length of the chain is not looked at.                       *)
RedirectUnlimited(e, to, keep) ==
  /\ On(e, "wire")
  /\ RedirectAllowed(e, to)
  /\ Step(e, [ex[e] EXCEPT !.hop = NextHop(e, to, keep)])
  /\ UNCHANGED <<plugin, anchors, registered, cooldown>>

Redirect(e, to, keep) ==
  /\ On(e, "wire") /\ ex[e].hops < MaxRedirects
  /\ RedirectAllowed(e, to)
  /\ Step(e, [ex[e] EXCEPT !.hops = @ + 1, !.hop = NextHop(e, to, keep)])
  /\ UNCHANGED <<plugin, anchors, registered, cooldown>>

(* SPNEGORoundTripper: a 401 with Negotiate makes it send the request once *)
(* more, with a fresh token, unless a redirect has led to another host.    *)
Negotiate(e) ==
  /\ On(e, "wire") /\ ex[e].pa.auth = "kerberos" /\ ~Req(e).noAuth
  /\ ~ex[e].retried /\ SameSite(e, ex[e].hop.url)
  /\ Step(e, [ex[e] EXCEPT !.retried = TRUE])
  /\ UNCHANGED <<plugin, anchors, registered, cooldown>>

(* No answer: the dialer refuses the address, too many redirects, timeout. *)
TransportError(e) ==
  /\ On(e, "wire")
  /\ Done(e, IF ex[e].flow = "replayed" THEN "original" ELSE "transport_error")
  /\ UNCHANGED <<plugin, anchors, registered, cooldown>>

(* Which answers are taken for a SAML challenge: 401 or 403 with HTML, or  *)
(* a login page with 200, unless a login has just succeeded.               *)
Challenge(e, status) ==
  /\ ex[e].pa.auth = "kerberos" /\ ~Req(e).noAuth /\ ex[e].flow # "replayed"
  /\ status = "denied" \/ (status = "login" /\ ~cooldown)

MayRetry(e, status) ==
  /\ status = "retry" /\ ex[e].flow # "replayed"
  /\ isIdempotent(Req(e).method) /\ ex[e].attempt < MaxRetries

(* The answer to the last hop; a blocked redirect is one too.  Retries     *)
(* wait, and the wait may be cancelled.                                    *)
Response(e, status, cancelled) ==
  /\ On(e, "wire")
  /\ LET r == [ex[e] EXCEPT !.answered = @ + 1, !.hop = NoHop, !.hops = 0] IN
     Step(e, CASE MayRetry(e, status) ->
                    IF cancelled
                    THEN Returned(r, "request_cancelled")
                    ELSE [r EXCEPT !.pc = "send", !.attempt = @ + 1]
               [] Challenge(e, status) ->
                    [r EXCEPT !.pc = "sso", !.legs = 0,
                      !.flow = IF status = "denied" THEN "reactive" ELSE "form"]
               [] OTHER -> Returned(r, "response"))
  /\ UNCHANGED <<plugin, anchors, registered, cooldown>>

----------------------------------------------------------------------------
(* isDomainAllowedForSSO.                                                  *)
DomainAllowedForSSO(e, to) ==
  /\ to.scheme = "https"
  /\ to.host \in ex[e].pa.allowed \/ to.host = ex[e].pa.baseURL.host

(* A request of the login: to the identity provider, back with the         *)
(* assertion, then the forms and redirects that the service answers with.  *)
SamlLeg(e, to) ==
  /\ On(e, "sso") /\ ex[e].legs < 2 + SamlMaxLegs
  /\ DomainAllowedForSSO(e, to)
  /\ Step(e, [ex[e] EXCEPT !.legs = @ + 1,
                !.hop = [url |-> to, auth |-> TRUE, body |-> TRUE]])
  /\ UNCHANGED <<plugin, anchors, registered, cooldown>>

(* One of the first two legs fails: after the form-first flow the          *)
(* redirect-first one is tried, otherwise the plugin gets the challenge.   *)
SamlFails(e) ==
  /\ On(e, "sso") /\ ex[e].legs <= 2
  /\ IF ex[e].flow = "form"
     THEN Step(e, [ex[e] EXCEPT !.flow = "redirect", !.legs = 0])
     ELSE Done(e, "original")
  /\ UNCHANGED <<plugin, anchors, registered, cooldown>>

(* Mutant: after the login every request is repeated.                      *)
SamlSucceedsAlways(e) ==
  /\ On(e, "sso") /\ ex[e].legs >= 2
  /\ cooldown' = (cooldown \/ ex[e].flow # "reactive")
  /\ Step(e, [ex[e] EXCEPT !.pc = "replay", !.flow = "replayed",
                                   !.hop = NoHop, !.legs = 0])
  /\ UNCHANGED <<plugin, anchors, registered>>

(* Logged in.  The 200 path starts its cooldown; only an idempotent        *)
(* request is sent again.                                                  *)
SamlSucceeds(e) ==
  /\ On(e, "sso") /\ ex[e].legs >= 2
  /\ cooldown' = (cooldown \/ ex[e].flow # "reactive")
  /\ IF isIdempotent(Req(e).method)
     THEN Step(e, [ex[e] EXCEPT !.pc = "replay", !.flow = "replayed",
                                   !.hop = NoHop, !.legs = 0])
     ELSE Done(e, "original")
  /\ UNCHANGED <<plugin, anchors, registered>>

CooldownEnds ==
  /\ cooldown /\ cooldown' = FALSE
  /\ UNCHANGED <<plugin, anchors, registered, ex>>

----------------------------------------------------------------------------
ExecuteStep(e) ==
  \/ AddAllowedDomains(e) \/ RereadAllowed(e) \/ ResolveURL(e) \/ CheckMethod(e)
  \/ \E a \in {"now", "soon", "late"}, b \in BOOLEAN : RateLimited(e, a, b)
  \/ \E ok \in BOOLEAN : Send(e, ok)
  \/ \E to \in URL : SamlLeg(e, to) \/ \E k \in BOOLEAN : Redirect(e, to, k)
  \/ Negotiate(e) \/ TransportError(e) \/ SamlFails(e) \/ SamlSucceeds(e)
  \/ \E s \in {"ok", "retry", "denied", "login"}, b \in BOOLEAN :
       Response(e, s, b)

ManagerStep ==
  \/ \E r \in Registrations : RegisterPlugin(r)
  \/ UnregisterPlugin
  \/ AddBaseDomains(InitDomains)

ProxyNext ==
  \/ \E e \in Execs : ExecuteStep(e) \/ \E q \in Inputs[e] : Snapshot(e, q)
  \/ ManagerStep \/ CooldownEnds

(* A request is driven by its own goroutine, and every wait in it has a    *)
(* timer: the client's timeout, the bounded sleeps.  It is enough that     *)
(* some goroutine that can go on does.                                     *)
ProxyFairness == WF_proxyVars(\E e \in Execs : ExecuteStep(e))

ProxySpec == ProxyInit /\ [][ProxyNext]_proxyVars /\ ProxyFairness

----------------------------------------------------------------------------
Anchored(h) == IsSubdomain(h, anchors)

(* Every domain the plugin may reach, and every host a request, one of its *)
(* redirects or a login leg is sent to, is one the manager registered or a *)
(* subdomain of one, whatever domains requests ask for and however they    *)
(* interleave with registration; base domains stay allowed (Execute,       *)
(* AddAllowedDomains, AddBaseDomains, resolveURL).                         *)
HostsAnchored ==
  /\ plugin # NotRegistered =>
       /\ plugin.base \subseteq plugin.allowed
       /\ \A h \in plugin.allowed : Anchored(h)
  /\ \A e \in Execs : ex[e].hop # NoHop => Anchored(ex[e].hop.url.host)

(* Along any chain of redirects, retries and replays, credentials and      *)
(* request bodies reach only the host the request was first made to, and   *)
(* credentials only over HTTPS; login legs are HTTPS too                   *)
(* (allowlistCheckRedirect, resolveURL, isDomainAllowedForSSO).            *)
CredentialsStayHome ==
  \A e \in Execs :
    /\ ex[e].pc = "wire" =>
         /\ ex[e].hop.auth \/ ex[e].hop.body =>
              ex[e].hop.url.host = Target(e).host
         /\ ex[e].hop.auth => ex[e].hop.url.scheme = "https"
    /\ ex[e].pc = "sso" /\ ex[e].hop.auth => ex[e].hop.url.scheme = "https"

(* A server answers a non-idempotent request at most once, the Negotiate   *)
(* challenge aside: neither the retry loop nor the replay after a login    *)
(* repeats it.  An idempotent one is sent at most once more than the retry *)
(* limit allows (Execute, trySAMLSSO, handleReactiveSAML).                 *)
MutationsOnce ==
  \A e \in Execs : 
    ex[e].answered <= IF isIdempotent(Req(e).method) THEN MaxRetries + 2 ELSE 1

(* Every request gets an answer: redirects, retries, rate-limit waits and  *)
(* login legs are all bounded (Execute).                                   *)
Underway == \E e \in Execs : ex[e].pc \notin {"idle", "done"}
ExecuteReturns == Underway ~> ~Underway

=============================================================================
