----------------------------- MODULE MCServices -----------------------------
(* Bounds for model-checking the services of the core: HttpProxy,          *)
(* RateLimit, Collector and PluginSdk.  They share no variable; a          *)
(* behaviour explores the one that `explored` names.                       *)
EXTENDS HttpProxy, RateLimit, Collector, PluginSdk

VARIABLE explored

MCParents == [h \in Hosts |-> IF h = "sub" THEN {"sub", "home"} ELSE {h}]
At(h, s) == [host |-> h, scheme |-> s]
Home == [host |-> "home", scheme |-> "https"]
MCRegistrations ==
  {[allowed |-> {"home", "idp"}, baseURL |-> Home, auth |-> a, mtls |-> FALSE] :
     a \in {"missing", "header", "kerberos"}}
    \cup {[allowed |-> {"idp"}, baseURL |-> NoURL, auth |-> "none", mtls |-> TRUE]}
Ask(u, m, n, d, a) == [url |-> u, method |-> m, noAuth |-> n, domains |-> d,
                       access |-> a]
MCInputs ==
  [e1 |-> {Ask(NoURL, m, FALSE, {}, "write") : m \in Methods}
          \cup {Ask(At("home", "http"), "GET", FALSE, {}, "write"),
                Ask(At("sub", "https"), "PUT", FALSE, {"sub", "other", "local"}, "write"),
                Ask(NoURL, "POST", FALSE, {}, "read"),
                Ask(NoURL, "POST", TRUE, {}, "write")},
   e2 |-> {Ask(At("local", "https"), "GET", TRUE, {"sub", "other"}, "read")}]

(* Two requests race for the allowlist up to the rate limiter; one of them *)
(* goes all the way.                                                       *)
Early == {"idle", "domains", "reread", "resolve", "done"}
ProxyStep ==
  \/ explored = "proxy" /\ ProxyNext /\ ex'["e2"].pc = "idle"
  \/ explored = "pair" /\ ProxyNext /\ \A e \in Execs : ex'[e].pc \in Early

MCStatPlugin == [t \in StatTools |-> t]
MCStatWork ==
  [kind : {"call"}, tool : {"s"}, size : {1, 2}]
    \cup [kind : {"call"}, tool : {"u"}, size : {1}]
    \cup [kind : {"read", "schema"}, tool : {"u"}, size : {1}]

ServicesInit ==
  /\ ProxyInit /\ RateInit /\ StatInit /\ SdkInit
  /\ explored \in {"proxy", "pair", "rate", "stats", "sdk"}
  /\ explored # "stats" => retentionDays = 0 /\ statDisk = NoStats
  /\ explored # "sdk" => ~oneshot
ServicesNext ==
  /\ \/ ProxyStep /\ UNCHANGED <<rateVars, statVars, sdkVars>>
     \/ explored = "rate" /\ RateNext /\ UNCHANGED <<proxyVars, statVars, sdkVars>>
     \/ explored = "stats" /\ StatNext /\ UNCHANGED <<proxyVars, rateVars, sdkVars>>
     \/ explored = "sdk" /\ SdkNext /\ UNCHANGED <<proxyVars, rateVars, statVars>>
  /\ UNCHANGED explored
ServicesSpec ==
  /\ ServicesInit
  /\ [][ServicesNext]_<<proxyVars, rateVars, statVars, sdkVars, explored>>
  /\ ProxyFairness /\ StatFairness /\ SdkFairness
=============================================================================
