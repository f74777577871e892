---------------------------- MODULE ToolSurface ----------------------------
(***************************************************************************)
(* What an MCP client sees: internal/server/server.go, toolindex.go and    *)
(* discovery.go.  Tools, stubs of disabled plugins, the owner map, the     *)
(* search index and the resources are five registries that start-up,       *)
(* reloads, resource invalidations and calls read and write one after the  *)
(* other; only the manager's part of a reload is serialised.               *)
(*                                                                         *)
(* The manager appears by the outcome of its operations (PluginLifecycle   *)
(* has their steps).                                                       *)
(***************************************************************************)
EXTENDS Integers, Sequences, FiniteSets

CONSTANTS
  ToolsOf,         \* [plugins -> tools of plugin.yaml as it was at start-up],
                   \* each [name, read, dryRun, compiles]
  UrisOf,          \* [plugins -> resources it may provide]; {}: no provider
  Grouped,         \* plugins with a credential group
  Reserved,        \* names of the management tools
  SurfaceSettings, \* [readOnly, elicitation : "off" | "lenient" | "strict"]
  Reloaders,       \* plugin_reload handlers and the control watcher
  MaxEvents        \* bound on reloads, invalidations, calls and changes

ASSUME SettingsAssumption ==
  SurfaceSettings \subseteq [readOnly : BOOLEAN, elicitation : {"off", "lenient", "strict"}]
ASSUME UrisAssumption == UrisOf = [p \in DOMAIN ToolsOf |-> UrisOf[p]]

Plugins == DOMAIN ToolsOf
Defs(p) == {ToolsOf[p][i] : i \in DOMAIN ToolsOf[p]}
Declared(p) == {d.name : d \in Defs(p)}
ToolNames == Reserved \cup UNION {Declared(p) : p \in Plugins}
AllUris == UNION {UrisOf[p] : p \in Plugins}
Nobody == "nobody"
Core == "core"

VARIABLES
  settings,
  handles, disabled,   \* m.handles (ready ones) and m.disabled
  gen, held, offers,   \* a plugin's handle, its resource list, what it would list
  tools, owners, index, resources,   \* the registries
  boot, reload, inval, call,
  events               \* how many of the bounded events have happened
surfaceVars == <<settings, handles, disabled, gen, held, offers,
                 tools, owners, index, resources, boot, reload, inval, call, events>>
manager == <<handles, disabled, gen, offers>>
registries == <<tools, owners, index, resources>>
actors == <<boot, reload, inval, call>>

NoReload == [pc |-> "idle"]
NoInval == [pc |-> "idle"]
NoToolCall == [pc |-> "idle"]
Entry(by, kind) == [by |-> by, kind |-> kind]
NoEntry == Entry(Nobody, "none")

-----------------------------------------------------------------------------
(* Registering *)

Listable(d) == (settings.readOnly => d.read) /\ d.name \notin Reserved

(* registerPluginTools: read-only mode, reserved names, names owned by     *)
(* another plugin and schemas that do not compile are skipped.             *)
Registrable(p, os) ==
  {d.name : d \in {e \in Defs(p) : Listable(e) /\ e.compiles /\ os[e.name] \in {Nobody, p}}}
WithTools(ts, os, p) ==
  [n \in ToolNames |-> IF n \in Registrable(p, os) THEN Entry(p, "normal") ELSE ts[n]]
WithOwner(os, p) ==
  [n \in ToolNames |-> IF n \in Registrable(p, os) THEN p ELSE os[n]]

(* registerDisabledPluginTools looks at no owner. *)
StubNames(p) == {d.name : d \in {e \in Defs(p) : Listable(e)}}
WithStubs(ts, p) ==
  [n \in ToolNames |-> IF n \in StubNames(p) THEN Entry(p, "stub") ELSE ts[n]]
WithoutTools(ts, names) ==
  [n \in ToolNames |-> IF n \in names THEN NoEntry ELSE ts[n]]

(* buildEntries; LoadedPlugins counts handles that are ready. *)
Entries ==
  {e \in [tool : ToolNames, plugin : handles \cup disabled, disabled : BOOLEAN] :
     /\ \E d \in Defs(e.plugin) : d.name = e.tool /\ (settings.readOnly => d.read)
     /\ e.disabled = (e.plugin \in disabled)}

(* A resource is read through the handle it was registered for. *)
WithResources(rs, uris, g) == [u \in AllUris |-> IF u \in uris THEN g ELSE rs[u]]
WithoutResources(rs, uris) == WithResources(rs, uris, 0)

(* New, after LoadAll: tools in some order of the plugins, then stubs. *)
AnyOf(S, p) == IF S = {} THEN p = Nobody ELSE p \in S
Unowned == [n \in ToolNames |-> Nobody]
SurfaceInit ==
  /\ settings \in SurfaceSettings
  /\ disabled \in SUBSET Plugins /\ handles = {}
  /\ gen = [p \in Plugins |-> 0]
  /\ held = [p \in Plugins |-> {}] /\ offers = UrisOf
  /\ owners \in [ToolNames -> Plugins \cup {Nobody}]
  /\ \A n \in ToolNames :
       AnyOf({p \in Plugins \ disabled : n \in Registrable(p, Unowned)}, owners[n])
  /\ \E stubs \in [ToolNames -> Plugins \cup {Nobody}] :
       /\ \A n \in ToolNames : AnyOf({p \in disabled : n \in StubNames(p)}, stubs[n])
       /\ tools = [n \in ToolNames |->
            IF n \in Reserved THEN Entry(Core, "normal")
            ELSE IF stubs[n] # Nobody THEN Entry(stubs[n], "stub")
            ELSE IF owners[n] # Nobody THEN Entry(owners[n], "normal") ELSE NoEntry]
  /\ index = Entries
  /\ resources = [u \in AllUris |-> 0]
  /\ boot = "start" /\ reload = [r \in Reloaders |-> NoReload]
  /\ inval = NoInval /\ call = NoToolCall
  /\ events = 0

Happens == events < MaxEvents /\ events' = events + 1

(* Others are working on a registry while a reload is under way. *)
Disturb ==
  reload' = [r \in Reloaders |-> IF reload[r].pc \in {"idle", "done"} THEN reload[r]
                                 ELSE [reload[r] EXCEPT !.alone = FALSE]]
Quiet(r) ==
  /\ boot = "done" /\ inval.pc = "idle"
  /\ \A o \in Reloaders \ {r} : reload[o].pc \in {"idle", "done"}

-----------------------------------------------------------------------------
(* Start-up, in the background *)

StartPending(started) ==
  /\ boot = "start" /\ boot' = "swap"
  /\ handles' = started
  /\ disabled' = disabled \cup (Plugins \ started)
  /\ gen' = [p \in Plugins |-> IF p \in started THEN 1 ELSE 0]
  /\ held' = [p \in Plugins |-> IF p \in started THEN offers[p] ELSE {}]
  /\ Disturb
  /\ UNCHANGED <<settings, offers, registries, inval, call, events>>

(* SwapStartFailedTools: a plugin whose first tool is registered as usual  *)
(* has all its names deleted and stubs registered.                         *)
Swaps(p) ==
  /\ p \in disabled /\ ToolsOf[p] # <<>>
  /\ tools[ToolsOf[p][1].name].kind = "normal"
SwapStartFailedTools ==
  /\ boot = "swap"
  /\ IF \E p \in Plugins : Swaps(p)
     THEN \E p \in Plugins :
            /\ Swaps(p)
            /\ tools' = WithStubs(WithoutTools(tools, Declared(p)), p)
            /\ boot' = "swap"
     ELSE boot' = "resources" /\ UNCHANGED tools
  /\ Disturb
  /\ UNCHANGED <<settings, manager, held, owners, index, resources, inval, call, events>>

RegisterPluginResources ==
  /\ boot = "resources" /\ boot' = "index"
  /\ resources' = [u \in AllUris |->
       IF \E p \in handles : u \in held[p]
       THEN gen[CHOOSE p \in handles : u \in held[p]] ELSE resources[u]]
  /\ Disturb
  /\ UNCHANGED <<settings, manager, held, tools, owners, index, inval, call, events>>

Rebuild ==
  /\ boot = "index" /\ boot' = "done" /\ index' = Entries
  /\ Disturb
  /\ UNCHANGED <<settings, manager, held, tools, owners, resources, inval, call, events>>

-----------------------------------------------------------------------------
(* ReloadPlugin *)

Reloading(r, pc) == reload[r].pc = pc
Proceed(r, pc) == reload' = [reload EXCEPT ![r].pc = pc]

(* The names and resources of the plugin as it is now. *)
Collect(r, p) ==
  /\ reload[r].pc \in {"idle", "done"}
  /\ Happens
  /\ ~settings.readOnly
  /\ reload' = [o \in Reloaders |->
       IF o = r THEN [pc |-> "reload", plugin |-> p, names |-> Declared(p),
                      uris |-> IF p \in handles THEN held[p] ELSE {},
                      entries |-> {}, alone |-> Quiet(r)]
       ELSE IF reload[o].pc \in {"idle", "done"} THEN reload[o]
       ELSE [reload[o] EXCEPT !.alone = FALSE]]
  /\ UNCHANGED <<settings, manager, held, registries, boot, inval, call>>

(* Manager.Reload keeps the manifest of start-up, so no name goes.  It may fail before the  *)
(* plugin is touched, or after, and then disables it.                      *)
ManagerReloads(r) ==
  /\ Reloading(r, "reload") /\ boot # "start"
  /\ LET p == reload[r].plugin IN
       /\ handles' = handles \cup {p}
       /\ disabled' = IF p \in Grouped THEN disabled \ {p} ELSE disabled
       /\ gen' = [gen EXCEPT ![p] = @ + 1]
       /\ held' = [held EXCEPT ![p] = offers[p]]
  /\ Proceed(r, "unregister")
  /\ UNCHANGED <<settings, offers, registries, boot, inval, call, events>>
ManagerFails(r, touched) ==
  /\ Reloading(r, "reload") /\ boot # "start"
  /\ LET p == reload[r].plugin IN
       /\ handles' = IF touched THEN handles \ {p} ELSE handles
       /\ disabled' = IF touched THEN disabled \cup {p} ELSE disabled
  /\ Proceed(r, "done")
  /\ UNCHANGED <<settings, gen, held, offers, registries, boot, inval,
                 call, events>>

(* Mutant of OldUris: asked of the handle that is there now. *)
OldUrisLate(r) ==
  held[reload[r].plugin]
(* The resources that were collected before the manager reloaded. *)
OldUris(r) ==
  reload[r].uris

Unregister(r) ==
  /\ Reloading(r, "unregister")
  /\ resources' = WithoutResources(resources, OldUris(r))
  /\ owners' = [n \in ToolNames |->
       IF owners[n] = reload[r].plugin THEN Nobody ELSE owners[n]]
  /\ Proceed(r, "register")
  /\ UNCHANGED <<settings, manager, held, tools, index, boot, inval, call, events>>

(* Disabled is asked first: a disabled plugin has a manifest as well. *)
Register(r) ==
  /\ Reloading(r, "register")
  /\ LET p == reload[r].plugin IN
       IF p \in disabled
       THEN tools' = WithStubs(tools, p) /\ UNCHANGED <<owners, resources>>
       ELSE /\ tools' = WithTools(tools, owners, p)
            /\ owners' = WithOwner(owners, p)
            /\ resources' = IF p \in handles
                            THEN WithResources(resources, held[p], gen[p]) ELSE resources
  /\ Proceed(r, "scan")
  /\ UNCHANGED <<settings, manager, held, index, boot, inval, call, events>>

(* Names that are gone are deleted; the index is computed, then published. *)
DeleteAndScan(r) ==
  /\ Reloading(r, "scan")
  /\ tools' = WithoutTools(tools, reload[r].names \ Declared(reload[r].plugin))
  /\ reload' = [reload EXCEPT ![r].pc = "publish", ![r].entries = Entries]
  /\ UNCHANGED <<settings, manager, held, owners, index, resources, boot, inval, call, events>>
Publish(r) ==
  /\ Reloading(r, "publish")
  /\ index' = reload[r].entries
  /\ Proceed(r, "done")
  /\ UNCHANGED <<settings, manager, held, tools, owners, resources, boot, inval, call, events>>

-----------------------------------------------------------------------------
(* invalidatePluginResources, started by a call's result *)

Invalidate(p) ==
  /\ inval.pc = "idle" /\ p \in handles /\ UrisOf[p] # {}
  /\ Happens
  /\ inval' = [pc |-> "list", plugin |-> p, gen |-> gen[p], old |-> held[p], new |-> {}]
  /\ Disturb
  /\ UNCHANGED <<settings, manager, held, registries, boot, call>>

(* ListResources of the handle, which a reload may have stopped. *)
ListResources ==
  /\ inval.pc = "list"
  /\ inval' = IF inval.plugin \in handles /\ gen[inval.plugin] = inval.gen
              THEN [inval EXCEPT !.pc = "apply", !.new = offers[inval.plugin]]
              ELSE NoInval
  /\ Disturb
  /\ UNCHANGED <<settings, manager, held, registries, boot, call, events>>
ApplyResources ==
  /\ inval.pc = "apply" /\ inval' = NoInval
  /\ held' = [held EXCEPT ![inval.plugin] =
       IF gen[inval.plugin] = inval.gen THEN inval.new ELSE @]
  /\ resources' = WithResources(WithoutResources(resources, inval.old \ inval.new),
                                inval.new, inval.gen)
  /\ Disturb
  /\ UNCHANGED <<settings, manager, tools, owners, index, boot, call, events>>

-----------------------------------------------------------------------------
(* A tool's handler *)

(* The definition n's handler was made with: a name that a manifest has    *)
(* twice is registered twice, and the last one stays.                      *)
Definition(p, n) ==
  LET ds == {i \in DOMAIN ToolsOf[p] :
               LET d == ToolsOf[p][i] IN d.name = n /\ Listable(d) /\ d.compiles}
  IN ToolsOf[p][CHOOSE i \in ds : \A j \in ds : j <= i]

(* The manager takes any plugin that declares the name. *)
HandleFor(n, p) == n \in Declared(p)

Blocks(answer) ==
  \/ answer = "unsupported" /\ settings.elicitation = "strict"
  \/ answer \in {"error", "declined"}

(* Rate limit, a missing handle or invalid parameters end the call. *)
HandleToolCall(n, p, dry) ==
  /\ call.pc \in {"idle", "returned", "dispatched"} /\ tools[n].kind = "normal"
  /\ tools[n].by # Core /\ HandleFor(n, p)
  /\ Happens
  /\ LET d == Definition(tools[n].by, n)
         dryRun == d.dryRun /\ dry
         ask == ~d.read /\ settings.elicitation # "off" /\ ~dryRun
     IN call' = [tool |-> n, plugin |-> p, write |-> ~d.read /\ ~dryRun, asked |-> ask,
                 answer |-> "none",
                 pc |-> IF p \notin handles \/ (settings.readOnly /\ ~d.read)
                        THEN "returned" ELSE IF ask THEN "ask" ELSE "dispatched"]
  /\ UNCHANGED <<settings, manager, held, registries, boot, reload, inval>>

(* Mutant of Elicit: an error counts as consent. *)
ElicitErrorIgnored(answer) ==
  /\ call.pc = "ask"
  /\ call' = [call EXCEPT !.answer = answer,
                !.pc = IF answer = "declined" THEN "returned" ELSE "dispatched"]
  /\ UNCHANGED <<settings, manager, held, registries, boot, reload, inval, events>>
Elicit(answer) ==
  /\ call.pc = "ask"
  /\ call' = [call EXCEPT !.answer = answer,
                !.pc = IF Blocks(answer) THEN "returned" ELSE "dispatched"]
  /\ UNCHANGED <<settings, manager, held, registries, boot, reload, inval, events>>

(* What a plugin would list changes (external). *)
OffersChange(p, uris) ==
  /\ uris \in SUBSET UrisOf[p] /\ uris # offers[p]
  /\ offers' = [offers EXCEPT ![p] = uris] /\ Happens
  /\ UNCHANGED <<settings, handles, disabled, gen, held, registries, actors>>

-----------------------------------------------------------------------------
ReloadStep(r) ==
  \/ \E p \in Plugins : Collect(r, p)
  \/ ManagerReloads(r) \/ \E t \in BOOLEAN : ManagerFails(r, t)
  \/ Unregister(r) \/ Register(r) \/ DeleteAndScan(r) \/ Publish(r)
SurfaceNext ==
  \/ \E S \in SUBSET (Plugins \ disabled) : StartPending(S)
  \/ SwapStartFailedTools \/ RegisterPluginResources \/ Rebuild
  \/ \E r \in Reloaders : ReloadStep(r)
  \/ \E p \in Plugins : Invalidate(p)
  \/ ListResources \/ ApplyResources
  \/ \E n \in ToolNames, p \in Plugins, dry \in BOOLEAN : HandleToolCall(n, p, dry)
  \/ \E a \in {"accept", "declined", "error", "unsupported"} : Elicit(a)
  \/ \E p \in Plugins : \E uris \in SUBSET UrisOf[p] : OffersChange(p, uris)
SurfaceSpec == SurfaceInit /\ [][SurfaceNext]_surfaceVars

-----------------------------------------------------------------------------
(* No interleaving of registration, swapping, reloading and calling lets a *)
(* call through with write access that the user has not confirmed, unless  *)
(* confirmation is off or the client has none and strict mode is off; and  *)
(* in read-only mode no write tool is listed, found by tool_search or      *)
(* called (registerPluginTools, registerDisabledPluginTools, buildEntries).*)
WriteTool(p, n) == \A d \in Defs(p) : d.name = n => ~d.read
WritesAreIntended ==
  /\ (call.pc = "dispatched" /\ call.write) =>
       \/ settings.elicitation = "off" \/ call.answer = "accept"
       \/ call.answer = "unsupported" /\ settings.elicitation = "lenient"
  /\ settings.readOnly =>
       /\ \A n \in ToolNames \ Reserved :
            tools[n].kind # "none" => ~WriteTool(tools[n].by, n)
       /\ \A e \in index : ~WriteTool(e.plugin, e.tool)
       /\ call.pc = "dispatched" => ~call.write

(* A reload that nobody disturbed leaves the five registries as the        *)
(* manager is then: every tool of the plugin is registered, as a stub if   *)
(* the plugin is disabled and otherwise to it or to the plugin that owns   *)
(* the name; the index lists it accordingly; its resources are read        *)
(* through the new handle and those it no longer has are gone              *)
(* (ReloadPlugin).                                                         *)
Refreshed(r) ==
  LET p == reload[r].plugin IN
    /\ \A d \in Defs(p) : (Listable(d) /\ (d.compiles \/ p \in disabled)) =>
         IF p \in disabled THEN tools[d.name] = Entry(p, "stub")
         ELSE IF owners[d.name] = p THEN tools[d.name] = Entry(p, "normal")
         ELSE owners[d.name] # Nobody
    /\ {e \in index : e.plugin = p} = {e \in Entries : e.plugin = p}
    /\ \A u \in held[p] : p \notin disabled => resources[u] = gen[p]
    /\ \A u \in reload[r].uris \ held[p] : resources[u] = 0
ReloadRefreshes ==
  [][\A r \in Reloaders :
       (Reloading(r, "publish") /\ reload[r].alone /\ Reloading(r, "done")')
         => Refreshed(r)']_surfaceVars

=============================================================================
