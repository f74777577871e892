--------------------------- MODULE PluginLifecycle ---------------------------
(***************************************************************************)
(* The life of the plugins of one server: internal/plugin/manager.go with  *)
(* the process states of process.go, the locks of dispatch.go, the tool    *)
(* registrations of internal/server/server.go and the start-up and         *)
(* shutdown sequence of cmd/wtmcp/main.go.                                 *)
(*                                                                         *)
(* Four kinds of actor share the manager's maps: the start-up goroutine    *)
(* (LoadAll, StartPending, SwapStartFailedTools), reloads (the             *)
(* plugin_reload tool and the control directory watcher), tool calls, and  *)
(* main's shutdown.  A Handle is an identity: reload replaces the handle   *)
(* in the map while callers may still hold the old one.                    *)
(***************************************************************************)
EXTENDS Naturals, FiniteSets

CONSTANTS
  Plugins,       \* the discovered plugins (m.manifests)
  Names,         \* the names a reload may be asked for
  Handles,       \* handle identities
  NoHandle,
  Persistent,    \* plugins with execution: persistent
  Providers,     \* plugins that provide auth
  Skipped,       \* plugins topologicalSort skips (unresolvable dependencies)
  Grouped,       \* plugins with a credential group read from env.d
  DependsOn,     \* plugin -> the plugins it depends on
  Auth,          \* plugin -> the auth providers it cannot work without
  Callers,       \* goroutines running a tool's handler
  McpReloaders,  \* goroutines running plugin_reload
  CtlReloaders,  \* the control watcher
  Drains         \* the MCP transport returns only after its requests ended

Reloaders == McpReloaders \cup CtlReloaders

ASSUME LifecycleAssumption ==
  /\ Plugins \subseteq Names
  /\ NoHandle \notin Handles
  /\ Persistent \subseteq Plugins /\ Providers \subseteq Plugins
  /\ Skipped \subseteq Plugins /\ Grouped \subseteq Plugins
  /\ DependsOn \in [Plugins -> SUBSET Plugins]
  /\ Auth \in [Plugins -> SUBSET Providers]
  /\ McpReloaders \cap CtlReloaders = {}
  /\ Drains \in BOOLEAN

VARIABLES
  handles,   \* m.handles; NoHandle for a missing key
  hstate,    \* handle -> state of its process; "free" for no such object
  hplugin,   \* handle -> the plugin it was made for
  up,        \* handles whose OS process is running
  disabled,  \* the keys of m.disabled
  proxied,   \* plugins registered with the HTTP proxy
  served,    \* plugins with file directories and dynamic domains registered
  tools,     \* what the MCP server lists for each plugin
  boot,      \* the start-up goroutine
  todo,      \* plugins its present loop has still to visit
  pass2,     \* the plugins of the levels not started yet
  loadDone,  \* m.loadDone is closed
  swap,      \* SwapStartFailedTools' snapshot of m.disabled, being visited
  rpc,       \* reloaders: where each is,
  rname,     \*   the plugin it reloads,
  old,       \*   the handle it found and locks,
  new,       \*   the handle it makes,
  stub,      \*   and whether it saw the plugin disabled afterwards
  cpc,       \* callers: where each is,
  ch,        \*   and the handle it holds
  main,      \* main's shutdown sequence
  ctxDone,   \* SIGINT or SIGTERM has cancelled the context
  ending,    \* ListenAndServe takes no new requests
  cleaned,   \* cleanupDone is closed
  stops      \* ShutdownAll's snapshot, being stopped

heapVars == <<handles, hstate, hplugin, up>>
regVars == <<disabled, proxied, served>>
bootVars == <<boot, todo, pass2, loadDone, swap>>
reloadVars == <<rpc, rname, old, new, stub>>
callVars == <<cpc, ch>>
mainVars == <<main, ctxDone, ending, cleaned, stops>>
vars == <<heapVars, regVars, tools, bootVars, reloadVars, callVars, mainVars>>

HandleOrNone == Handles \cup {NoHandle}
NoName == ""

(* Where a reloader holds m.reloadMu, and with it old's reload lock or the *)
(* place in front of new readers that a waiting writer has.                *)
Locked == {"hlock", "env", "unload", "stop", "load", "start", "init", "publish"}
ReloaderPC == {"idle", "wait", "mu", "reg", "apply"} \cup Locked
Holds(r) == rpc[r] \in Locked

TypeOK ==
  /\ handles \in [Plugins -> HandleOrNone]
  /\ hstate \in [Handles -> {"free", "unloaded", "starting", "running",
                             "failed", "stopping"}]
  /\ hplugin \in [Handles -> Plugins \cup {NoName}]
  /\ up \subseteq Handles
  /\ disabled \subseteq Names
  /\ proxied \subseteq Plugins /\ served \subseteq Plugins
  /\ tools \in [Plugins -> {"none", "normal", "stub"}]
  /\ boot \in {"providers", "filter", "prepare", "start", "swap", "swapping"}
  /\ todo \subseteq Plugins /\ pass2 \subseteq Plugins /\ swap \subseteq Names
  /\ loadDone \in BOOLEAN
  /\ rpc \in [Reloaders -> ReloaderPC]
  /\ rname \in [Reloaders -> Names \cup {NoName}]
  /\ old \in [Reloaders -> HandleOrNone]
  /\ new \in [Reloaders -> HandleOrNone]
  /\ stub \in [Reloaders -> BOOLEAN]
  /\ cpc \in [Callers -> {"idle", "rlock", "check", "flight"}]
  /\ ch \in [Callers -> HandleOrNone]
  /\ \A c \in Callers : cpc[c] = "idle" <=> ch[c] = NoHandle
  /\ main \in {"load", "serve", "cleanup", "stopping", "exited"}
  /\ ctxDone \in BOOLEAN /\ ending \in BOOLEAN /\ cleaned \in BOOLEAN
  /\ stops \subseteq Handles

(* LoadAll has sorted the plugins and disabled the skipped ones. *)
Init ==
  /\ handles = [p \in Plugins |-> NoHandle]
  /\ hstate = [h \in Handles |-> "free"]
  /\ hplugin = [h \in Handles |-> NoName]
  /\ up = {}
  /\ disabled = Skipped
  /\ proxied = {} /\ served = {}
  /\ tools = [p \in Plugins |-> "none"]
  /\ boot = "providers"
  /\ todo = Providers \ Skipped
  /\ pass2 = {}
  /\ loadDone = FALSE
  /\ swap = {}
  /\ rpc = [r \in Reloaders |-> "idle"]
  /\ rname = [r \in Reloaders |-> NoName]
  /\ old = [r \in Reloaders |-> NoHandle]
  /\ new = [r \in Reloaders |-> NoHandle]
  /\ stub = [r \in Reloaders |-> FALSE]
  /\ cpc = [c \in Callers |-> "idle"]
  /\ ch = [c \in Callers |-> NoHandle]
  /\ main = "load"
  /\ ctxDone = FALSE /\ ending = FALSE /\ cleaned = FALSE
  /\ stops = {}


----------------------------------------------------------------------------
(* Handles *)

(* NewHandle: an object nobody else knows, whichever. *)
Fresh == {h \in Handles : hstate[h] = "free"}
NewHandle == CHOOSE h \in Fresh : TRUE

(* IsReady *)
Ready(h) == hplugin[h] \notin Persistent \/ hstate[h] = "running"

SetState(h, st) == hstate' = [hstate EXCEPT ![h] = st]

(* Stop on a handle without a process changes nothing. *)
Stopped(h) == [g \in Handles |-> IF g = h /\ hstate[g] # "unloaded"
                                   THEN "stopping" ELSE hstate[g]]

(* Handles without references or process go back to the free pool before   *)
(* anything else happens, so that a finite set of identities is enough for *)
(* any number of reloads.                                                  *)
Garbage ==
  {h \in Handles \ (up \cup stops \cup Fresh) :
     /\ \A p \in Plugins : handles[p] # h
     /\ \A r \in Reloaders : h \notin {old[r], new[r]}
     /\ \A c \in Callers : ch[c] # h}

Collect ==
  /\ Garbage # {}
  /\ hstate' = [h \in Handles |-> IF h \in Garbage THEN "free" ELSE hstate[h]]
  /\ hplugin' = [h \in Handles |-> IF h \in Garbage THEN NoName ELSE hplugin[h]]
  /\ UNCHANGED <<handles, up, regVars, tools, bootVars, reloadVars, callVars,
                 mainVars>>

(* The process dies by itself.  Only ReadLoop notices: the state stays     *)
(* StateRunning.                                                           *)
Crash(h) ==
  /\ h \in up
  /\ hstate[h] = "running"
  /\ up' = up \ {h}
  /\ UNCHANGED <<handles, hstate, hplugin, regVars, tools, bootVars, reloadVars,
                 callVars, mainVars>>

(* disablePlugin, also for a name that is no plugin. *)
Disable(n) ==
  /\ disabled' = disabled \cup {n}
  /\ handles' = [handles EXCEPT ![n] = NoHandle]
  /\ served' = served \ {n}
  /\ proxied' = proxied \ {n}

----------------------------------------------------------------------------
(* The start-up goroutine *)

(* A plugin of the present loop; topologicalSort puts dependencies first. *)
Visit(p) ==
  /\ p \in todo
  /\ DependsOn[p] \cap todo = {}
  /\ todo' = todo \ {p}

(* LoadAll, pass 1: Load an auth provider.  A failure is only logged; when *)
(* the SAML login failed, the proxy registration stays.                    *)
LoadProvider(p) ==
  /\ boot = "providers"
  /\ Visit(p)
  /\ \/ LET h == NewHandle IN
          /\ Fresh # {}
          /\ handles' = [handles EXCEPT ![p] = h]
          /\ hplugin' = [hplugin EXCEPT ![h] = p]
          /\ SetState(h, IF p \in Persistent THEN "running" ELSE "unloaded")
          /\ up' = IF p \in Persistent THEN up \cup {h} ELSE up
          /\ proxied' = proxied \cup {p}
          /\ served' = served \cup {p}
     \/ /\ proxied' \in {proxied, proxied \cup {p}}
        /\ UNCHANGED <<heapVars, served>>
  /\ UNCHANGED <<disabled, tools, boot, pass2, loadDone, swap, reloadVars,
                 callVars, mainVars>>

ProvidersLoaded ==
  /\ boot = "providers"
  /\ todo = {}
  /\ boot' = "filter"
  /\ todo' = Plugins \ (Providers \cup Skipped)
  /\ UNCHANGED <<heapVars, regVars, tools, pass2, loadDone, swap, reloadVars,
                 callVars, mainVars>>

(* Pass 2: plugins whose env.d group is bad, and those all of whose auth   *)
(* providers are disabled, are disabled; the others go to the levels.      *)
ProviderDisabled(p) == Auth[p] # {} /\ Auth[p] \subseteq disabled

FilterPlugin(p) ==
  /\ boot = "filter"
  /\ Visit(p)
  /\ \/ /\ p \in Grouped \/ ProviderDisabled(p)
        /\ Disable(p)
        /\ UNCHANGED pass2
     \/ /\ ~ProviderDisabled(p)
        /\ pass2' = pass2 \cup {p}
        /\ UNCHANGED <<handles, regVars>>
  /\ UNCHANGED <<hstate, hplugin, up, tools, boot, loadDone, swap, reloadVars,
                 callVars, mainVars>>

Filtered ==
  /\ boot = "filter"
  /\ todo = {}
  /\ boot' = "prepare"
  /\ todo' = pass2
  /\ UNCHANGED <<heapVars, regVars, tools, pass2, loadDone, swap, reloadVars,
                 callVars, mainVars>>

(* preparePlugin and what LoadAll does with the handle. *)
PreparePlugin(p) ==
  /\ boot = "prepare"
  /\ Visit(p)
  /\ \/ /\ Disable(p)
        /\ UNCHANGED <<hstate, hplugin>>
     \/ LET h == NewHandle IN
          /\ Fresh # {}
          /\ handles' = [handles EXCEPT ![p] = h]
          /\ hplugin' = [hplugin EXCEPT ![h] = p]
          /\ SetState(h, "unloaded")
          /\ proxied' = proxied \cup {p}
          /\ served' = IF p \in Persistent THEN served ELSE served \cup {p}
          /\ UNCHANGED disabled
  /\ UNCHANGED <<up, tools, boot, pass2, loadDone, swap, reloadVars, callVars,
                 mainVars>>

(* server.New registers the tools; requests are accepted from here on. *)
NewServer ==
  /\ boot = "prepare"
  /\ todo = {}
  /\ boot' = "start"
  /\ main' = "serve"
  /\ tools' = [p \in Plugins |-> IF p \in disabled THEN "stub" ELSE "normal"]
  /\ UNCHANGED <<heapVars, regVars, todo, pass2, loadDone, swap, reloadVars,
                 callVars, ctxDone, ending, cleaned, stops>>

(* dependencyLevels: the next level has no dependency in a later one.      *)
(* Its prepared persistent plugins start in parallel.                      *)
Level == {p \in pass2 : DependsOn[p] \cap pass2 = {}}
Prepared == {p \in Level \cap Persistent : handles[p] # NoHandle}

LaunchPlugin(p) ==
  /\ boot = "start"
  /\ p \in Prepared
  /\ hstate[handles[p]] = "unloaded"
  /\ SetState(handles[p], "starting")
  /\ up' = up \cup {handles[p]}
  /\ UNCHANGED <<handles, hplugin, regVars, tools, bootVars, reloadVars,
                 callVars, mainVars>>

(* Mutant of InitPlugin: a process that fails the handshake is not killed. *)
InitPluginUnkilled(p) ==
  /\ boot = "start"
  /\ p \in Prepared
  /\ hstate[handles[p]] = "starting"
  /\ SetState(handles[p], "running") \/ SetState(handles[p], "failed")
  /\ UNCHANGED <<handles, hplugin, up, regVars, tools, bootVars, reloadVars,
                 callVars, mainVars>>

(* The init handshake ends; a process that fails it is killed. *)
InitPlugin(p) ==
  /\ boot = "start"
  /\ p \in Prepared
  /\ hstate[handles[p]] = "starting"
  /\ \/ SetState(handles[p], "running") /\ UNCHANGED up
     \/ SetState(handles[p], "failed") /\ up' = up \ {handles[p]}
  /\ UNCHANGED <<handles, hplugin, regVars, tools, bootVars, reloadVars,
                 callVars, mainVars>>

(* Mutant of CollectLevel: a plugin that failed keeps its handle. *)
CollectLevelKeepingHandles ==
  /\ boot = "start"
  /\ pass2 # {}
  /\ \A p \in Prepared : hstate[handles[p]] \in {"running", "failed"}
  /\ LET lost == {p \in Prepared : hstate[handles[p]] = "failed"}
     IN /\ disabled' = disabled \cup lost
        /\ proxied' = proxied \ lost
        /\ served' = served \cup (Prepared \ lost)
  /\ pass2' = pass2 \ Level
  /\ UNCHANGED <<heapVars, tools, boot, todo, loadDone, swap, reloadVars,
                 callVars, mainVars>>

(* startLevel, after wg.Wait: one critical section of handlesMu. *)
CollectLevel ==
  /\ boot = "start"
  /\ pass2 # {}
  /\ \A p \in Prepared : hstate[handles[p]] \in {"running", "failed"}
  /\ LET lost == {p \in Prepared : hstate[handles[p]] = "failed"}
     IN /\ handles' = [p \in Plugins |-> IF p \in lost THEN NoHandle
                                                       ELSE handles[p]]
        /\ disabled' = disabled \cup lost
        /\ proxied' = proxied \ lost
        /\ served' = served \cup (Prepared \ lost)
  /\ pass2' = pass2 \ Level
  /\ UNCHANGED <<hstate, hplugin, up, tools, boot, todo, loadDone, swap,
                 reloadVars, callVars, mainVars>>

CloseLoadDone ==
  /\ boot = "start"
  /\ pass2 = {}
  /\ boot' = "swap"
  /\ loadDone' = TRUE
  /\ UNCHANGED <<heapVars, regVars, tools, todo, pass2, swap, reloadVars,
                 callVars, mainVars>>

(* SwapStartFailedTools ranges over a snapshot of m.disabled.  (Taking it  *)
(* panics if a reload of an unknown name has left an entry there.)         *)
SwapSnapshot ==
  /\ boot = "swap"
  /\ boot' = "swapping"
  /\ swap' = disabled
  /\ UNCHANGED <<heapVars, regVars, tools, todo, pass2, loadDone, reloadVars,
                 callVars, mainVars>>

(* When swap is empty, the start-up goroutine has ended. *)
SwapTools(p) ==
  /\ boot = "swapping"
  /\ p \in swap
  /\ swap' = swap \ {p}
  /\ tools' = [tools EXCEPT ![p] = "stub"]
  /\ UNCHANGED <<heapVars, regVars, boot, todo, pass2, loadDone, reloadVars,
                 callVars, mainVars>>

BootStep ==
  \/ \E p \in Plugins : \/ LoadProvider(p)
                        \/ FilterPlugin(p)
                        \/ PreparePlugin(p)
                        \/ LaunchPlugin(p)
                        \/ InitPlugin(p)
                        \/ SwapTools(p)
  \/ ProvidersLoaded
  \/ Filtered
  \/ NewServer
  \/ CollectLevel
  \/ CloseLoadDone
  \/ SwapSnapshot

----------------------------------------------------------------------------
(* Reloads: ReloadPlugin around Manager.Reload *)

Goto(r, pc) == rpc' = [rpc EXCEPT ![r] = pc]

(* Return from Manager.Reload: both locks are released. *)
LeaveReload(r, pc) ==
  /\ Goto(r, pc)
  /\ old' = [old EXCEPT ![r] = NoHandle]
  /\ new' = [new EXCEPT ![r] = NoHandle]

(* With an error ReloadPlugin returns at once and leaves the tools alone. *)
FailReload(r) ==
  /\ LeaveReload(r, "idle")
  /\ rname' = [rname EXCEPT ![r] = NoName]

BeginReload(r, n) ==
  /\ rpc[r] = "idle"
  /\ main \in {"serve", "cleanup"}
  /\ r \in McpReloaders => main = "serve" /\ ~ending
  /\ r \in CtlReloaders => ~cleaned
  /\ Goto(r, "wait")
  /\ rname' = [rname EXCEPT ![r] = n]
  /\ UNCHANGED <<heapVars, regVars, tools, bootVars, old, new, stub, callVars,
                 mainVars>>

WaitLoaded(r) ==
  /\ rpc[r] = "wait"
  /\ loadDone
  /\ Goto(r, "mu")
  /\ UNCHANGED <<heapVars, regVars, tools, bootVars, rname, old, new, stub,
                 callVars, mainVars>>

Handle(n) == IF n \in Plugins THEN handles[n] ELSE NoHandle

(* Mutant of LockReload: reloads are not serialised. *)
LockReloadAlways(r) ==
  /\ rpc[r] = "mu"
  /\ old' = [old EXCEPT ![r] = Handle(rname[r])]
  /\ Goto(r, "hlock")
  /\ UNCHANGED <<heapVars, regVars, tools, bootVars, rname, new, stub, callVars,
                 mainVars>>

(* m.reloadMu, then the current handle. *)
LockReload(r) ==
  /\ rpc[r] = "mu"
  /\ \A s \in Reloaders : ~Holds(s)
  /\ old' = [old EXCEPT ![r] = Handle(rname[r])]
  /\ Goto(r, "hlock")
  /\ UNCHANGED <<heapVars, regVars, tools, bootVars, rname, new, stub, callVars,
                 mainVars>>

Reading(c) == cpc[c] \in {"check", "flight"}

(* Mutant of LockHandle: reload does not wait for calls in progress. *)
LockHandleAlways(r) ==
  /\ rpc[r] = "hlock"
  /\ Goto(r, "env")
  /\ UNCHANGED <<heapVars, regVars, tools, bootVars, rname, old, new, stub,
                 callVars, mainVars>>

(* ReloadLock: no call holds the read side. *)
LockHandle(r) ==
  /\ rpc[r] = "hlock"
  /\ \A c \in Callers : Reading(c) => ch[c] # old[r] \/ old[r] = NoHandle
  /\ Goto(r, "env")
  /\ UNCHANGED <<heapVars, regVars, tools, bootVars, rname, old, new, stub,
                 callVars, mainVars>>

(* Mutant of ReReadEnv: an error is tried again instead of returned. *)
ReReadEnvAgain(r) ==
  /\ rpc[r] = "env"
  /\ LET n == rname[r]
         next == IF Handle(n) # NoHandle THEN "unload" ELSE "load"
     IN \/ /\ n \in Grouped
           /\ disabled' = disabled \ {n}
           /\ Goto(r, next)
        \/ /\ n \in Grouped
           /\ Goto(r, "hlock")
           /\ UNCHANGED disabled
        \/ /\ n \in Grouped => n \notin disabled
           /\ Goto(r, next)
           /\ UNCHANGED disabled
  /\ UNCHANGED <<heapVars, proxied, served, tools, bootVars, rname, old, new,
                 stub, callVars, mainVars>>

(* Only a plugin with a credential group has its env.d file read again.    *)
(* Success clears m.disabled; an error ends the reload if the plugin was   *)
(* disabled or the directory itself is bad, and is ignored otherwise.      *)
ReReadEnv(r) ==
  /\ rpc[r] = "env"
  /\ LET n == rname[r]
         next == IF Handle(n) # NoHandle THEN "unload" ELSE "load"
     IN \/ /\ n \in Grouped
           /\ disabled' = disabled \ {n}
           /\ Goto(r, next)
           /\ UNCHANGED <<rname, old, new>>
        \/ /\ n \in Grouped
           /\ FailReload(r)
           /\ UNCHANGED disabled
        \/ /\ n \in Grouped => n \notin disabled
           /\ Goto(r, next)
           /\ UNCHANGED <<rname, old, new, disabled>>
  /\ UNCHANGED <<heapVars, proxied, served, tools, bootVars, stub, callVars,
                 mainVars>>

(* Unload up to and including Stop's state change. *)
Unload(r) ==
  /\ rpc[r] = "unload"
  /\ LET n == rname[r]
         h == handles[n]
     IN /\ handles' = [handles EXCEPT ![n] = NoHandle]
        /\ hstate' = Stopped(h)
  /\ Goto(r, "stop")
  /\ UNCHANGED <<hplugin, up, regVars, tools, bootVars, rname, old, new, stub,
                 callVars, mainVars>>

(* Stop returns.  Whatever way the process ended, an exit status that is   *)
(* not zero is an error, and Unload and Reload return it.                  *)
StopReturns(r) ==
  /\ rpc[r] = "stop"
  /\ up' = up \ {old[r]}
  /\ \/ /\ served' = served \ {rname[r]}
        /\ Goto(r, "load")
        /\ UNCHANGED <<rname, old, new>>
     \/ /\ rname[r] \in Persistent
        /\ FailReload(r)
        /\ UNCHANGED served
  /\ UNCHANGED <<handles, hstate, hplugin, disabled, proxied, tools, bootVars,
                 stub, callVars, mainVars>>

(* Load: preparePlugin. *)
PrepareFails(r) ==
  /\ rpc[r] = "load"
  /\ Disable(rname[r])
  /\ FailReload(r)
  /\ UNCHANGED <<hstate, hplugin, up, tools, bootVars, stub, callVars, mainVars>>

(* Mutant of Prepare: RegisterPlugin is missing. *)
PrepareUnregistered(r) ==
  /\ rpc[r] = "load"
  /\ rname[r] \in Plugins
  /\ LET h == NewHandle IN
       /\ Fresh # {}
       /\ SetState(h, "unloaded")
       /\ hplugin' = [hplugin EXCEPT ![h] = rname[r]]
       /\ new' = [new EXCEPT ![r] = h]
  /\ Goto(r, "start")
  /\ UNCHANGED <<handles, up, regVars, tools, bootVars, rname, old, stub,
                 callVars, mainVars>>

Prepare(r) ==
  /\ rpc[r] = "load"
  /\ rname[r] \in Plugins
  /\ LET h == NewHandle IN
       /\ Fresh # {}
       /\ SetState(h, "unloaded")
       /\ hplugin' = [hplugin EXCEPT ![h] = rname[r]]
       /\ new' = [new EXCEPT ![r] = h]
  /\ proxied' = proxied \cup {rname[r]}
  /\ Goto(r, "start")
  /\ UNCHANGED <<handles, up, disabled, served, tools, bootVars, rname, old,
                 stub, callVars, mainVars>>

StartNew(r) ==
  /\ rpc[r] = "start"
  /\ IF rname[r] \in Persistent
       THEN /\ SetState(new[r], "starting")
            /\ up' = up \cup {new[r]}
            /\ Goto(r, "init")
       ELSE /\ Goto(r, "publish")
            /\ UNCHANGED <<hstate, up>>
  /\ UNCHANGED <<handles, hplugin, regVars, tools, bootVars, rname, old, new,
                 stub, callVars, mainVars>>

InitSucceeds(r) ==
  /\ rpc[r] = "init"
  /\ SetState(new[r], "running")
  /\ Goto(r, "publish")
  /\ UNCHANGED <<handles, hplugin, up, regVars, tools, bootVars, rname, old,
                 new, stub, callVars, mainVars>>

(* Mutant of InitFails: the process that failed its init is left running. *)
InitFailsUnkilled(r) ==
  /\ rpc[r] = "init"
  /\ SetState(new[r], "failed")
  /\ Disable(rname[r])
  /\ FailReload(r)
  /\ UNCHANGED <<hplugin, up, tools, bootVars, stub, callVars, mainVars>>

(* doInit kills the process, Load unregisters it, Reload disables it. *)
InitFails(r) ==
  /\ rpc[r] = "init"
  /\ SetState(new[r], "failed")
  /\ up' = up \ {new[r]}
  /\ Disable(rname[r])
  /\ FailReload(r)
  /\ UNCHANGED <<hplugin, tools, bootVars, stub, callVars, mainVars>>

(* Load stores the handle once everything is registered.  m.disabled is    *)
(* not touched.                                                            *)
Publish(r) ==
  /\ rpc[r] = "publish"
  /\ served' = served \cup {rname[r]}
  /\ handles' = [handles EXCEPT ![rname[r]] = new[r]]
  /\ LeaveReload(r, "reg")
  /\ UNCHANGED <<hstate, hplugin, up, disabled, proxied, tools, bootVars, rname,
                 stub, callVars, mainVars>>

(* Back in ReloadPlugin, without a lock: look whether the plugin is        *)
(* disabled, then register stubs or tools.                                 *)
ReadDisabled(r) ==
  /\ rpc[r] = "reg"
  /\ stub' = [stub EXCEPT ![r] = rname[r] \in disabled]
  /\ Goto(r, "apply")
  /\ UNCHANGED <<heapVars, regVars, tools, bootVars, rname, old, new, callVars,
                 mainVars>>

RegisterTools(r) ==
  /\ rpc[r] = "apply"
  /\ tools' = [tools EXCEPT ![rname[r]] = IF stub[r] THEN "stub" ELSE "normal"]
  /\ stub' = [stub EXCEPT ![r] = FALSE]
  /\ rname' = [rname EXCEPT ![r] = NoName]
  /\ Goto(r, "idle")
  /\ UNCHANGED <<heapVars, regVars, bootVars, old, new, callVars, mainVars>>

ReloadStep(r) ==
  \/ WaitLoaded(r)
  \/ LockReload(r)
  \/ LockHandle(r)
  \/ ReReadEnv(r)
  \/ Unload(r)
  \/ StopReturns(r)
  \/ PrepareFails(r)
  \/ Prepare(r)
  \/ StartNew(r)
  \/ InitSucceeds(r)
  \/ InitFails(r)
  \/ Publish(r)
  \/ ReadDisabled(r)
  \/ RegisterTools(r)

----------------------------------------------------------------------------
(* Tool calls: the registered handler and Handle.CallTool *)

GotoCall(c, pc) == cpc' = [cpc EXCEPT ![c] = pc]

(* Mutant of Lookup: the check for a missing handle is gone. *)
LookupMissing(c, p) ==
  /\ cpc[c] = "idle"
  /\ main = "serve" /\ ~ending
  /\ tools[p] = "normal"
  /\ handles[p] = NoHandle \/ Ready(handles[p])
  /\ GotoCall(c, "rlock")
  /\ ch' = [ch EXCEPT ![c] = handles[p]]
  /\ UNCHANGED <<heapVars, regVars, tools, bootVars, reloadVars, mainVars>>

(* Manager.CallTool finds a ready handle.  (If not, or if the tool is a    *)
(* stub, the call ends in an error at once.)                               *)
Lookup(c, p) ==
  /\ cpc[c] = "idle"
  /\ main = "serve" /\ ~ending
  /\ tools[p] = "normal"
  /\ handles[p] # NoHandle
  /\ Ready(handles[p])
  /\ GotoCall(c, "rlock")
  /\ ch' = [ch EXCEPT ![c] = handles[p]]
  /\ UNCHANGED <<heapVars, regVars, tools, bootVars, reloadVars, mainVars>>

(* reloadMu.RLock waits for a writer that holds the lock or waits for it. *)
RLock(c) ==
  /\ cpc[c] = "rlock"
  /\ \A r \in Reloaders : Holds(r) => old[r] # ch[c]
  /\ GotoCall(c, "check")
  /\ UNCHANGED <<heapVars, regVars, tools, bootVars, reloadVars, ch, mainVars>>

EndCall(c) ==
  /\ GotoCall(c, "idle")
  /\ ch' = [ch EXCEPT ![c] = NoHandle]

(* plugin_reloaded *)
Reloaded(c) ==
  /\ cpc[c] = "check"
  /\ hstate[ch[c]] = "stopping"
  /\ EndCall(c)
  /\ UNCHANGED <<heapVars, regVars, tools, bootVars, reloadVars, mainVars>>

(* callPersistent or callOneshot begins.  CallTool would first restart a   *)
(* process in StateFailed; InFlightRunning shows that it never meets one.  *)
Dispatch(c) ==
  /\ cpc[c] = "check"
  /\ hstate[ch[c]] # "stopping"
  /\ GotoCall(c, "flight")
  /\ UNCHANGED <<heapVars, regVars, tools, bootVars, reloadVars, ch, mainVars>>

(* It returns, at the latest some time after the tool call timeout. *)
CallReturns(c) ==
  /\ cpc[c] = "flight"
  /\ EndCall(c)
  /\ UNCHANGED <<heapVars, regVars, tools, bootVars, reloadVars, mainVars>>

CallStep(c) ==
  \/ RLock(c)
  \/ Reloaded(c)
  \/ Dispatch(c)
  \/ CallReturns(c)

----------------------------------------------------------------------------
(* main *)

(* The context ends, and with it what ListenAndServe accepts. *)
Signal ==
  /\ ~ctxDone
  /\ ctxDone' = TRUE
  /\ ending' = TRUE
  /\ UNCHANGED <<heapVars, regVars, tools, bootVars, reloadVars, callVars, main,
                 cleaned, stops>>

ClientLeaves ==
  /\ main = "serve"
  /\ ~ending
  /\ ending' = TRUE
  /\ UNCHANGED <<heapVars, regVars, tools, bootVars, reloadVars, callVars, main,
                 ctxDone, cleaned, stops>>

(* ListenAndServe: on a signal or at the end of the client's stream. *)
ListenReturns ==
  /\ main = "serve"
  /\ ending
  /\ Drains => /\ \A c \in Callers : cpc[c] = "idle"
               /\ \A r \in McpReloaders : rpc[r] = "idle"
  /\ main' = "cleanup"
  /\ UNCHANGED <<heapVars, regVars, tools, bootVars, reloadVars, callVars,
                 ctxDone, ending, cleaned, stops>>

(* Mutant of CleanUp: the watcher is not waited for. *)
CleanUpUnwaited ==
  /\ main \in {"serve", "cleanup"}
  /\ ctxDone
  /\ ~cleaned
  /\ cleaned' = TRUE
  /\ UNCHANGED <<heapVars, regVars, tools, bootVars, reloadVars, callVars, main,
                 ctxDone, ending, stops>>

(* The cleanup goroutine: after the signal it stops the control watcher,   *)
(* which finishes the command it is processing.                            *)
CleanUp ==
  /\ main \in {"serve", "cleanup"}
  /\ ctxDone
  /\ ~cleaned
  /\ \A r \in CtlReloaders : rpc[r] = "idle"
  /\ cleaned' = TRUE
  /\ UNCHANGED <<heapVars, regVars, tools, bootVars, reloadVars, callVars, main,
                 ctxDone, ending, stops>>

(* cleanupDone, WaitLoaded, then ShutdownAll takes its snapshot. *)
BeginShutdown ==
  /\ main = "cleanup"
  /\ cleaned
  /\ loadDone
  /\ main' = "stopping"
  /\ stops' = {handles[p] : p \in Plugins} \ {NoHandle}
  /\ UNCHANGED <<heapVars, regVars, tools, bootVars, reloadVars, callVars,
                 ctxDone, ending, cleaned>>

StopHandle(h) ==
  /\ main = "stopping"
  /\ h \in stops
  /\ stops' = stops \ {h}
  /\ up' = up \ {h}
  /\ hstate' = Stopped(h)
  /\ UNCHANGED <<handles, hplugin, regVars, tools, bootVars, reloadVars,
                 callVars, main, ctxDone, ending, cleaned>>

Exit ==
  /\ main = "stopping"
  /\ stops = {}
  /\ main' = "exited"
  /\ UNCHANGED <<heapVars, regVars, tools, bootVars, reloadVars, callVars,
                 ctxDone, ending, cleaned, stops>>

MainStep ==
  \/ ListenReturns
  \/ CleanUp
  \/ BeginShutdown
  \/ \E h \in Handles : StopHandle(h)
  \/ Exit

----------------------------------------------------------------------------
Step ==
  \/ BootStep
  \/ \E r \in Reloaders : ReloadStep(r) \/ \E n \in Names : BeginReload(r, n)
  \/ \E c \in Callers : CallStep(c) \/ \E p \in Plugins : Lookup(c, p)
  \/ \E h \in Handles : Crash(h)
  \/ Signal
  \/ ClientLeaves
  \/ MainStep

Running == main # "exited" /\ Garbage = {}

Next ==
  \/ Running /\ Step
  \/ Collect
  \/ main = "exited" /\ UNCHANGED vars

(* Started goroutines keep running: processes answer or time out, and      *)
(* calls, once begun, return.  Nobody is forced to call, reload or leave.  *)
(* Go's Mutex and RWMutex do not starve a waiter, and select chooses       *)
(* evenly between the watcher's ticker and its closed stop channel.        *)
Live(A) == main # "exited" /\ A

Fairness ==
  /\ WF_vars(Live(BootStep))
  /\ \A r \in Reloaders : WF_vars(Live(ReloadStep(r)))
                          /\ SF_vars(Live(LockReload(r)))
  /\ \A c \in Callers : WF_vars(Live(CallStep(c))) /\ SF_vars(Live(RLock(c)))
  /\ WF_vars(Live(MainStep)) /\ SF_vars(Live(CleanUp))
  /\ WF_vars(Collect)

Spec == Init /\ [][Next]_vars /\ Fairness

----------------------------------------------------------------------------
(* Properties *)

(* A call that is talking to a plugin talks to a process nobody has        *)
(* stopped: reload waits for the calls on the old handle, and the calls    *)
(* that waited for the reload turn back.  (Shutdown does not wait.)        *)
InFlightRunning ==
  \A c \in Callers :
    cpc[c] = "flight" /\ main \notin {"stopping", "exited"}
      => Ready(ch[c])

(* Every running process can be found: through m.handles, or by the one    *)
(* goroutine that is stopping or starting it.  So no interleaving of       *)
(* reloads, failures and shutdown leaves a process behind.                 *)
NoOrphans ==
  /\ \A h \in up :
       \/ handles[hplugin[h]] = h
       \/ \E r \in Reloaders : \/ old[r] = h /\ rpc[r] = "stop"
                               \/ new[r] = h
  /\ main = "exited" => up = {}

(* A plugin never has two processes, which would both write its files and  *)
(* refresh its tokens.                                                     *)
OneProcess == \A g, h \in up : hplugin[g] = hplugin[h] => g = h

(* A plugin in m.handles is registered with the proxy, so that its HTTP    *)
(* requests find their credentials.                                        *)
LoadedIsProxied == \A p \in Plugins : handles[p] # NoHandle => p \in proxied

(* Every reload comes back: the wait for start-up, the two locks and the   *)
(* calls in progress never wait for each other in a circle.                *)
ReloadsReturn ==
  \A r \in Reloaders : rpc[r] # "idle" ~> (rpc[r] = "idle" \/ main = "exited")

(* A signal ends the server. *)
SignalExits == ctxDone ~> (main = "exited")

----------------------------------------------------------------------------
(* What a message says and the code does not do: this one is violated.     *)

(* The text of the stubs, "after fixing, run plugin_reload(name) to        *)
(* enable": a reload that succeeded registers the plugin's tools.          *)
ReloadEnables == \A r \in Reloaders : rpc[r] = "apply" => ~stub[r]

=============================================================================
