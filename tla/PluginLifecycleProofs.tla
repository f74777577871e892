----------------------- MODULE PluginLifecycleProofs -----------------------
(***************************************************************************)
(* Proofs about PluginLifecycle, for any number of plugins, handles,       *)
(* callers and reloaders.                                                  *)
(***************************************************************************)
EXTENDS PluginLifecycle, TLAPS

(* A handle in the map belongs to the plugin it is stored under. *)
MapOK ==
  \A p \in Plugins :
    handles[p] # NoHandle => /\ handles[p] \in Handles
                             /\ hplugin[handles[p]] = p
                             /\ hstate[handles[p]] # "free"

(* m.reloadMu, and the wait for loadDone that comes before it. *)
Mutex ==
  /\ \A r, s \in Reloaders : Holds(r) /\ Holds(s) => r = s
  /\ \A r \in Reloaders : rpc[r] \notin {"idle", "wait"} => loadDone
  /\ \A r \in Reloaders : rpc[r] # "idle" => rname[r] \in Names
  /\ loadDone => boot \in {"swap", "swapping"}

(* Until Unload, the locked handle is the one in the map; from then on the *)
(* plugin has none, and until Stop returns old is its handle.              *)
OldOK ==
  \A r \in Reloaders :
    /\ old[r] # NoHandle => Holds(r) /\ hstate[old[r]] # "free"
    /\ rpc[r] \in {"hlock", "env", "unload"} => old[r] = Handle(rname[r])
    /\ rpc[r] = "unload" => rname[r] \in Plugins /\ old[r] # NoHandle
    /\ rpc[r] = "stop" => /\ rname[r] \in Plugins
                          /\ old[r] # NoHandle
                          /\ hplugin[old[r]] = rname[r]
    /\ rpc[r] \in {"stop", "load", "start", "init", "publish"}
         => Handle(rname[r]) = NoHandle

(* Load's handle is known to nobody else until it is published, neither to *)
(* callers nor to shutdown's snapshot.                                     *)
NewOK ==
  /\ \A h \in stops : hstate[h] # "free"
  /\ \A r \in Reloaders :
    /\ new[r] # NoHandle <=> rpc[r] \in {"start", "init", "publish"}
    /\ new[r] # NoHandle =>
         /\ rname[r] \in Plugins
         /\ hplugin[new[r]] = rname[r]
         /\ new[r] # old[r]
         /\ new[r] \notin stops
         /\ \A c \in Callers : ch[c] # new[r]
    /\ rpc[r] = "start" => hstate[new[r]] = "unloaded"
    /\ rpc[r] = "init" => hstate[new[r]] = "starting"
    /\ rpc[r] = "publish" => hstate[new[r]] # "free"

(* The processes: each is in the map, being stopped or being started. *)
UpOK ==
  \A h \in up :
    /\ hstate[h] \in {"starting", "running", "stopping"}
    /\ hplugin[h] \in Plugins
    /\ \/ handles[hplugin[h]] = h
       \/ \E r \in Reloaders : \/ old[r] = h /\ rpc[r] = "stop"
                               \/ new[r] = h

(* A caller's handle was ready when it was looked up; since then it may    *)
(* have been stopped, but not while the caller holds the read lock.        *)
CallOK ==
  \A c \in Callers :
    cpc[c] # "idle" =>
      /\ hstate[ch[c]] # "free"
      /\ hplugin[ch[c]] \in Persistent
           => hstate[ch[c]] \in {"running", "stopping"}
      /\ Reading(c) => \A r \in Reloaders :
           Holds(r) /\ rpc[r] # "hlock" => old[r] # ch[c]

(* LoadAll's loops visit each plugin before it has a handle. *)
BootOK ==
  /\ boot \in {"providers", "filter", "prepare"} =>
       \A p \in todo : handles[p] = NoHandle
  /\ boot \in {"providers", "filter"} =>
       \A p \in Plugins \ Providers : handles[p] = NoHandle
  /\ boot = "providers" => todo \subseteq Providers
  /\ boot = "filter" => todo \cap Providers = {}
  /\ pass2 \cap Providers = {}
  /\ main = "load" <=> boot \in {"providers", "filter", "prepare"}

(* A plugin being loaded is registered with the proxy already. *)
ProxyOK ==
  /\ LoadedIsProxied
  /\ \A r \in Reloaders :
    rpc[r] \in {"start", "init", "publish"} => rname[r] \in proxied

(* When the transport drains its requests, shutdown meets no reload. *)
ShutOK ==
  Drains => /\ main \in {"cleanup", "stopping", "exited"} =>
                 \A r \in McpReloaders : rpc[r] = "idle"
            /\ cleaned => \A r \in CtlReloaders : rpc[r] = "idle"
            /\ main \in {"stopping", "exited"} =>
                 cleaned /\ loadDone /\ up \subseteq stops
            /\ main = "exited" => stops = {}

Inv == /\ TypeOK /\ MapOK /\ Mutex /\ OldOK /\ NewOK /\ UpOK /\ CallOK
       /\ BootOK /\ InFlightRunning /\ ProxyOK /\ ShutOK

USE LifecycleAssumption
    DEF heapVars, regVars, bootVars, reloadVars, callVars, mainVars, Locked,
        ReloaderPC, Holds, HandleOrNone, Handle, Reading, Ready, SetState,
        Stopped, Disable, Visit, Goto, LeaveReload, FailReload, GotoCall, EndCall

(* A handle allocated by Load or LoadAll is one nothing refers to yet. *)
LEMMA FreshHandle == Fresh # {} => NewHandle \in Fresh
  BY DEF NewHandle

(***************************************************************************)
(* Every action keeps Inv: one lemma per action, and in it one step per    *)
(* conjunct the action can disturb. First the start-up goroutine: LoadAll, *)
(* StartPending and the swap of the tools of plugins that failed to start. *)
(***************************************************************************)
LEMMA LoadProviderInv ==
  ASSUME Inv, NEW p \in Plugins, LoadProvider(p)
  PROVE  Inv'
<1>1. TypeOK'
  BY FreshHandle DEF Inv, TypeOK, LoadProvider, Fresh
<1>2. MapOK'
  BY FreshHandle DEF Inv, TypeOK, MapOK, NewOK, OldOK, LoadProvider, Fresh
<1>3. OldOK'
  BY FreshHandle DEF Inv, TypeOK, MapOK, Mutex, OldOK, LoadProvider, Fresh
<1>4. NewOK'
  BY FreshHandle DEF Inv, TypeOK, NewOK, LoadProvider, Fresh
<1>5. UpOK'
  BY FreshHandle DEF Inv, TypeOK, MapOK, Mutex, OldOK, NewOK, UpOK, BootOK,
      LoadProvider, Fresh
<1>6. CallOK'
  BY FreshHandle DEF Inv, TypeOK, CallOK, LoadProvider, Fresh
<1>7. BootOK'
  BY FreshHandle DEF Inv, TypeOK, BootOK, Mutex, NewOK, LoadProvider, Fresh
<1>8. InFlightRunning'
  BY FreshHandle DEF Inv, TypeOK, MapOK, Mutex, OldOK, NewOK, CallOK, BootOK,
      InFlightRunning, LoadProvider, Fresh
<1>9. ProxyOK'
  BY FreshHandle DEF Inv, TypeOK, ProxyOK, LoadedIsProxied, LoadProvider,
      Fresh
<1>10. ShutOK'
  BY FreshHandle DEF Inv, TypeOK, Mutex, UpOK, MapOK, OldOK, NewOK, BootOK,
      ShutOK, Reloaders, LoadProvider, Fresh
<1>11. Mutex'
  BY DEF Inv, Mutex, LoadProvider
<1> QED BY <1>1, <1>2, <1>3, <1>4, <1>5, <1>6, <1>7, <1>8, <1>9, <1>10, <1>11
    DEF Inv

LEMMA FilterPluginInv ==
  ASSUME Inv, NEW p \in Plugins, FilterPlugin(p)
  PROVE  Inv'
<1>1. TypeOK'
  BY DEF Inv, TypeOK, FilterPlugin
<1>2. MapOK'
  BY DEF Inv, TypeOK, MapOK, FilterPlugin
<1>3. OldOK'
  BY DEF Inv, TypeOK, MapOK, Mutex, OldOK, FilterPlugin
<1>4. UpOK'
  BY DEF Inv, TypeOK, MapOK, Mutex, OldOK, NewOK, UpOK, BootOK, FilterPlugin
<1>5. BootOK'
  BY DEF Inv, TypeOK, BootOK, FilterPlugin
<1>6. ProxyOK'
  BY DEF Inv, TypeOK, Mutex, NewOK, BootOK, OldOK, ProxyOK, LoadedIsProxied,
      FilterPlugin
<1>7. Mutex' /\ NewOK' /\ CallOK' /\ InFlightRunning' /\ ShutOK'
  BY DEF Inv, Mutex, NewOK, CallOK, InFlightRunning, ShutOK, Reloaders,
      FilterPlugin
<1> QED BY <1>1, <1>2, <1>3, <1>4, <1>5, <1>6, <1>7 DEF Inv

LEMMA PreparePluginInv ==
  ASSUME Inv, NEW p \in Plugins, PreparePlugin(p)
  PROVE  Inv'
<1>1. TypeOK'
  BY FreshHandle DEF Inv, TypeOK, Mutex, NewOK, OldOK, PreparePlugin, Fresh
<1>2. MapOK'
  BY FreshHandle DEF Inv, TypeOK, MapOK, NewOK, OldOK, PreparePlugin, Fresh
<1>3. OldOK'
  BY FreshHandle DEF Inv, TypeOK, MapOK, Mutex, OldOK, PreparePlugin, Fresh
<1>4. NewOK'
  BY FreshHandle DEF Inv, TypeOK, NewOK, PreparePlugin, Fresh
<1>5. UpOK'
  BY FreshHandle DEF Inv, TypeOK, MapOK, Mutex, OldOK, NewOK, UpOK, BootOK,
      PreparePlugin, Fresh
<1>6. CallOK'
  BY FreshHandle DEF Inv, TypeOK, CallOK, PreparePlugin, Fresh
<1>7. BootOK'
  BY FreshHandle DEF Inv, TypeOK, BootOK, PreparePlugin, Fresh
<1>8. InFlightRunning'
  BY FreshHandle DEF Inv, TypeOK, MapOK, Mutex, OldOK, NewOK, CallOK, BootOK,
      InFlightRunning, PreparePlugin, Fresh
<1>9. ProxyOK'
  BY FreshHandle DEF Inv, TypeOK, Mutex, NewOK, BootOK, OldOK, ProxyOK,
      LoadedIsProxied, PreparePlugin, Fresh
<1>10. Mutex' /\ ShutOK'
  BY DEF Inv, Mutex, ShutOK, Reloaders, PreparePlugin
<1> QED BY <1>1, <1>2, <1>3, <1>4, <1>5, <1>6, <1>7, <1>8, <1>9, <1>10 DEF Inv

LEMMA LaunchPluginInv ==
  ASSUME Inv, NEW p \in Plugins, LaunchPlugin(p)
  PROVE  Inv'
<1>1. TypeOK'
  BY DEF Inv, TypeOK, LaunchPlugin, Prepared, Level
<1>2. MapOK'
  BY DEF Inv, MapOK, LaunchPlugin, Prepared, Level
<1>3. OldOK'
  BY DEF Inv, OldOK, LaunchPlugin, Prepared, Level
<1>4. NewOK'
  BY DEF Inv, TypeOK, MapOK, Mutex, OldOK, NewOK, CallOK, LaunchPlugin,
      Prepared, Level
<1>5. UpOK'
  BY DEF Inv, TypeOK, MapOK, Mutex, OldOK, NewOK, UpOK, BootOK, LaunchPlugin,
      Prepared, Level
<1>6. CallOK'
  BY DEF Inv, CallOK, LaunchPlugin, Prepared, Level
<1>7. InFlightRunning'
  BY DEF Inv, InFlightRunning, LaunchPlugin, Prepared, Level
<1>8. ShutOK'
  BY DEF Inv, TypeOK, Mutex, UpOK, MapOK, OldOK, NewOK, BootOK, ShutOK,
      Reloaders, LaunchPlugin, Prepared, Level
<1>9. Mutex' /\ BootOK' /\ ProxyOK'
  BY DEF Inv, Mutex, BootOK, ProxyOK, LoadedIsProxied, LaunchPlugin
<1> QED BY <1>1, <1>2, <1>3, <1>4, <1>5, <1>6, <1>7, <1>8, <1>9 DEF Inv

LEMMA InitPluginInv ==
  ASSUME Inv, NEW p \in Plugins, InitPlugin(p)
  PROVE  Inv'
<1>1. TypeOK'
  BY DEF Inv, TypeOK, InitPlugin, Prepared, Level
<1>2. MapOK'
  BY DEF Inv, TypeOK, MapOK, InitPlugin, Prepared, Level
<1>3. OldOK'
  BY DEF Inv, TypeOK, OldOK, InitPlugin, Prepared, Level
<1>4. NewOK'
  BY DEF Inv, TypeOK, MapOK, Mutex, OldOK, NewOK, CallOK, InitPlugin,
      Prepared, Level
<1>5. UpOK'
  BY DEF Inv, TypeOK, UpOK, InitPlugin, Prepared, Level
<1>6. CallOK'
  BY DEF Inv, TypeOK, CallOK, InitPlugin, Prepared, Level
<1>7. InFlightRunning'
  BY DEF Inv, TypeOK, InFlightRunning, InitPlugin, Prepared, Level
<1>8. ShutOK'
  BY DEF Inv, ShutOK, Reloaders, InitPlugin, Prepared, Level
<1>9. Mutex' /\ BootOK' /\ ProxyOK'
  BY DEF Inv, Mutex, BootOK, ProxyOK, LoadedIsProxied, InitPlugin
<1> QED BY <1>1, <1>2, <1>3, <1>4, <1>5, <1>6, <1>7, <1>8, <1>9 DEF Inv

LEMMA SwapToolsInv ==
  ASSUME Inv, NEW p \in Plugins, SwapTools(p)
  PROVE  Inv'
<1>1. TypeOK'
  BY DEF Inv, TypeOK, SwapTools
<1>2. MapOK' /\ Mutex' /\ OldOK' /\ NewOK' /\ UpOK' /\ CallOK' /\ BootOK' /\ InFlightRunning' /\ ProxyOK' /\ ShutOK'
  BY DEF Inv, MapOK, Mutex, OldOK, NewOK, UpOK, CallOK, BootOK,
      InFlightRunning, ProxyOK, ShutOK, LoadedIsProxied, Reloaders, SwapTools
<1> QED BY <1>1, <1>2 DEF Inv

LEMMA ProvidersLoadedInv ==
  ASSUME Inv, ProvidersLoaded
  PROVE  Inv'
<1>1. TypeOK'
  BY DEF Inv, TypeOK, ProvidersLoaded
<1>2. Mutex'
  BY DEF Inv, Mutex, ProvidersLoaded
<1>3. BootOK'
  BY DEF Inv, BootOK, ProvidersLoaded
<1>4. ShutOK'
  BY DEF Inv, ShutOK, Reloaders, ProvidersLoaded
<1>5. MapOK' /\ OldOK' /\ NewOK' /\ UpOK' /\ CallOK' /\ InFlightRunning' /\ ProxyOK'
  BY DEF Inv, MapOK, OldOK, NewOK, UpOK, CallOK, InFlightRunning, ProxyOK,
      LoadedIsProxied, ProvidersLoaded
<1> QED BY <1>1, <1>2, <1>3, <1>4, <1>5 DEF Inv

LEMMA FilteredInv ==
  ASSUME Inv, Filtered
  PROVE  Inv'
<1>1. TypeOK'
  BY DEF Inv, TypeOK, Filtered
<1>2. Mutex'
  BY DEF Inv, Mutex, Filtered
<1>3. BootOK'
  BY DEF Inv, TypeOK, BootOK, Filtered
<1>4. ShutOK'
  BY DEF Inv, ShutOK, Reloaders, Filtered
<1>5. MapOK' /\ OldOK' /\ NewOK' /\ UpOK' /\ CallOK' /\ InFlightRunning' /\ ProxyOK'
  BY DEF Inv, MapOK, OldOK, NewOK, UpOK, CallOK, InFlightRunning, ProxyOK,
      LoadedIsProxied, Filtered
<1> QED BY <1>1, <1>2, <1>3, <1>4, <1>5 DEF Inv

LEMMA NewServerInv ==
  ASSUME Inv, NewServer
  PROVE  Inv'
<1>1. TypeOK'
  BY DEF Inv, TypeOK, NewServer
<1>2. Mutex'
  BY DEF Inv, Mutex, NewServer
<1>3. BootOK'
  BY DEF Inv, BootOK, NewServer
<1>4. InFlightRunning'
  BY DEF Inv, TypeOK, MapOK, Mutex, OldOK, NewOK, CallOK, BootOK,
      InFlightRunning, NewServer
<1>5. ShutOK'
  BY DEF Inv, ShutOK, Reloaders, NewServer
<1>6. MapOK' /\ OldOK' /\ NewOK' /\ UpOK' /\ CallOK' /\ ProxyOK'
  BY DEF Inv, MapOK, OldOK, NewOK, UpOK, CallOK, ProxyOK, LoadedIsProxied,
      NewServer
<1> QED BY <1>1, <1>2, <1>3, <1>4, <1>5, <1>6 DEF Inv

LEMMA CollectLevelInv ==
  ASSUME Inv, CollectLevel
  PROVE  Inv'
<1>1. TypeOK'
  BY DEF Inv, TypeOK, CollectLevel, Prepared, Level
<1>2. MapOK'
  BY DEF Inv, MapOK, CollectLevel, Prepared, Level
<1>3. OldOK'
  BY DEF Inv, TypeOK, MapOK, Mutex, OldOK, CollectLevel, Prepared, Level
<1>4. UpOK'
  BY DEF Inv, UpOK, CollectLevel, Prepared, Level
<1>5. BootOK'
  BY DEF Inv, BootOK, CollectLevel, Prepared, Level
<1>6. ProxyOK'
  BY DEF Inv, TypeOK, Mutex, NewOK, BootOK, OldOK, ProxyOK, LoadedIsProxied,
      CollectLevel, Prepared, Level
<1>7. Mutex' /\ NewOK' /\ CallOK' /\ InFlightRunning' /\ ShutOK'
  BY DEF Inv, Mutex, NewOK, CallOK, InFlightRunning, ShutOK, Reloaders,
      CollectLevel
<1> QED BY <1>1, <1>2, <1>3, <1>4, <1>5, <1>6, <1>7 DEF Inv

LEMMA CloseLoadDoneInv ==
  ASSUME Inv, CloseLoadDone
  PROVE  Inv'
<1>1. TypeOK'
  BY DEF Inv, TypeOK, CloseLoadDone
<1>2. Mutex'
  BY DEF Inv, Mutex, CloseLoadDone
<1>3. BootOK'
  BY DEF Inv, BootOK, CloseLoadDone
<1>4. ShutOK'
  BY DEF Inv, ShutOK, Reloaders, CloseLoadDone
<1>5. MapOK' /\ OldOK' /\ NewOK' /\ UpOK' /\ CallOK' /\ InFlightRunning' /\ ProxyOK'
  BY DEF Inv, MapOK, OldOK, NewOK, UpOK, CallOK, InFlightRunning, ProxyOK,
      LoadedIsProxied, CloseLoadDone
<1> QED BY <1>1, <1>2, <1>3, <1>4, <1>5 DEF Inv

LEMMA SwapSnapshotInv ==
  ASSUME Inv, SwapSnapshot
  PROVE  Inv'
<1>1. TypeOK'
  BY DEF Inv, TypeOK, SwapSnapshot
<1>2. Mutex'
  BY DEF Inv, Mutex, SwapSnapshot
<1>3. BootOK'
  BY DEF Inv, BootOK, SwapSnapshot
<1>4. ShutOK'
  BY DEF Inv, ShutOK, Reloaders, SwapSnapshot
<1>5. MapOK' /\ OldOK' /\ NewOK' /\ UpOK' /\ CallOK' /\ InFlightRunning' /\ ProxyOK'
  BY DEF Inv, MapOK, OldOK, NewOK, UpOK, CallOK, InFlightRunning, ProxyOK,
      LoadedIsProxied, SwapSnapshot
<1> QED BY <1>1, <1>2, <1>3, <1>4, <1>5 DEF Inv

(***************************************************************************)
(* The steps of Manager.Reload and of the server's ReloadPlugin around it. *)
(***************************************************************************)
LEMMA BeginReloadInv ==
  ASSUME Inv, NEW r \in Reloaders, NEW n \in Names, BeginReload(r, n)
  PROVE  Inv'
<1>1. TypeOK'
  BY DEF Inv, TypeOK, BeginReload
<1>2. Mutex'
  BY DEF Inv, TypeOK, Mutex, BeginReload
<1>3. OldOK'
  BY DEF Inv, OldOK, BeginReload
<1>4. NewOK'
  BY DEF Inv, NewOK, BeginReload
<1>5. UpOK'
  BY DEF Inv, UpOK, BeginReload
<1>6. CallOK'
  BY DEF Inv, CallOK, BeginReload
<1>7. ProxyOK'
  BY DEF Inv, ProxyOK, LoadedIsProxied, BeginReload
<1>8. ShutOK'
  BY DEF Inv, ShutOK, Reloaders, BeginReload
<1>9. MapOK' /\ BootOK' /\ InFlightRunning'
  BY DEF Inv, MapOK, BootOK, InFlightRunning, BeginReload
<1> QED BY <1>1, <1>2, <1>3, <1>4, <1>5, <1>6, <1>7, <1>8, <1>9 DEF Inv

LEMMA WaitLoadedInv ==
  ASSUME Inv, NEW r \in Reloaders, WaitLoaded(r)
  PROVE  Inv'
<1>1. TypeOK'
  BY DEF Inv, TypeOK, WaitLoaded
<1>2. Mutex'
  BY DEF Inv, Mutex, WaitLoaded
<1>3. OldOK'
  BY DEF Inv, OldOK, WaitLoaded
<1>4. NewOK'
  BY DEF Inv, NewOK, WaitLoaded
<1>5. UpOK'
  BY DEF Inv, UpOK, WaitLoaded
<1>6. CallOK'
  BY DEF Inv, CallOK, WaitLoaded
<1>7. ProxyOK'
  BY DEF Inv, ProxyOK, LoadedIsProxied, WaitLoaded
<1>8. ShutOK'
  BY DEF Inv, ShutOK, Reloaders, WaitLoaded
<1>9. MapOK' /\ BootOK' /\ InFlightRunning'
  BY DEF Inv, MapOK, BootOK, InFlightRunning, WaitLoaded
<1> QED BY <1>1, <1>2, <1>3, <1>4, <1>5, <1>6, <1>7, <1>8, <1>9 DEF Inv

LEMMA LockReloadInv ==
  ASSUME Inv, NEW r \in Reloaders, LockReload(r)
  PROVE  Inv'
<1>1. TypeOK'
  BY DEF Inv, TypeOK, LockReload
<1>2. Mutex'
  BY DEF Inv, Mutex, LockReload
<1>3. OldOK'
  BY DEF Inv, TypeOK, MapOK, Mutex, OldOK, LockReload
<1>4. NewOK'
  BY DEF Inv, NewOK, LockReload
<1>5. UpOK'
  BY DEF Inv, UpOK, LockReload
<1>6. CallOK'
  BY DEF Inv, CallOK, LockReload
<1>7. ProxyOK'
  BY DEF Inv, ProxyOK, LoadedIsProxied, LockReload
<1>8. ShutOK'
  BY DEF Inv, ShutOK, Reloaders, LockReload
<1>9. MapOK' /\ BootOK' /\ InFlightRunning'
  BY DEF Inv, MapOK, BootOK, InFlightRunning, LockReload
<1> QED BY <1>1, <1>2, <1>3, <1>4, <1>5, <1>6, <1>7, <1>8, <1>9 DEF Inv

LEMMA LockHandleInv ==
  ASSUME Inv, NEW r \in Reloaders, LockHandle(r)
  PROVE  Inv'
<1>1. TypeOK'
  BY DEF Inv, TypeOK, LockHandle
<1>2. Mutex'
  BY DEF Inv, Mutex, LockHandle
<1>3. OldOK'
  BY DEF Inv, OldOK, LockHandle
<1>4. NewOK'
  BY DEF Inv, NewOK, LockHandle
<1>5. UpOK'
  BY DEF Inv, UpOK, LockHandle
<1>6. CallOK'
  BY DEF Inv, TypeOK, CallOK, LockHandle
<1>7. ProxyOK'
  BY DEF Inv, ProxyOK, LoadedIsProxied, LockHandle
<1>8. ShutOK'
  BY DEF Inv, ShutOK, Reloaders, LockHandle
<1>9. MapOK' /\ BootOK' /\ InFlightRunning'
  BY DEF Inv, MapOK, BootOK, InFlightRunning, LockHandle
<1> QED BY <1>1, <1>2, <1>3, <1>4, <1>5, <1>6, <1>7, <1>8, <1>9 DEF Inv

LEMMA ReReadEnvInv ==
  ASSUME Inv, NEW r \in Reloaders, ReReadEnv(r)
  PROVE  Inv'
<1>1. TypeOK'
  BY DEF Inv, TypeOK, ReReadEnv
<1>2. Mutex'
  BY DEF Inv, TypeOK, Mutex, ReReadEnv
<1>3. OldOK'
  BY DEF Inv, TypeOK, OldOK, ReReadEnv
<1>4. NewOK'
  BY DEF Inv, TypeOK, NewOK, ReReadEnv
<1>5. UpOK'
  BY DEF Inv, TypeOK, MapOK, Mutex, OldOK, NewOK, UpOK, BootOK, ReReadEnv
<1>6. CallOK'
  BY DEF Inv, TypeOK, CallOK, ReReadEnv
<1>7. ProxyOK'
  BY DEF Inv, TypeOK, ProxyOK, LoadedIsProxied, ReReadEnv
<1>8. ShutOK'
  BY DEF Inv, TypeOK, ShutOK, Reloaders, ReReadEnv
<1>9. MapOK' /\ BootOK' /\ InFlightRunning'
  BY DEF Inv, MapOK, BootOK, InFlightRunning, ReReadEnv
<1> QED BY <1>1, <1>2, <1>3, <1>4, <1>5, <1>6, <1>7, <1>8, <1>9 DEF Inv

LEMMA UnloadInv ==
  ASSUME Inv, NEW r \in Reloaders, Unload(r)
  PROVE  Inv'
<1>1. TypeOK'
  BY DEF Inv, TypeOK, Unload
<1>2. MapOK'
  BY DEF Inv, MapOK, Unload
<1>3. Mutex'
  BY DEF Inv, Mutex, Unload
<1>4. OldOK'
  BY DEF Inv, TypeOK, MapOK, Mutex, OldOK, Unload
<1>5. NewOK'
  BY DEF Inv, TypeOK, MapOK, Mutex, OldOK, NewOK, CallOK, Unload
<1>6. UpOK'
  BY DEF Inv, TypeOK, MapOK, Mutex, OldOK, NewOK, UpOK, BootOK, Unload
<1>7. CallOK'
  BY DEF Inv, TypeOK, CallOK, Unload
<1>8. BootOK'
  BY DEF Inv, BootOK, Unload
<1>9. InFlightRunning'
  BY DEF Inv, TypeOK, MapOK, Mutex, OldOK, NewOK, CallOK, BootOK,
      InFlightRunning, Unload
<1>10. ProxyOK'
  BY DEF Inv, ProxyOK, LoadedIsProxied, Unload
<1>11. ShutOK'
  BY DEF Inv, ShutOK, Reloaders, Unload
<1> QED BY <1>1, <1>2, <1>3, <1>4, <1>5, <1>6, <1>7, <1>8, <1>9, <1>10, <1>11
    DEF Inv

LEMMA StopReturnsInv ==
  ASSUME Inv, NEW r \in Reloaders, StopReturns(r)
  PROVE  Inv'
<1>1. TypeOK'
  BY DEF Inv, TypeOK, StopReturns
<1>2. Mutex'
  BY DEF Inv, TypeOK, Mutex, StopReturns
<1>3. OldOK'
  BY DEF Inv, TypeOK, OldOK, StopReturns
<1>4. NewOK'
  BY DEF Inv, TypeOK, NewOK, StopReturns
<1>5. UpOK'
  BY DEF Inv, TypeOK, MapOK, Mutex, OldOK, NewOK, UpOK, BootOK, StopReturns
<1>6. CallOK'
  BY DEF Inv, TypeOK, CallOK, StopReturns
<1>7. ProxyOK'
  BY DEF Inv, TypeOK, ProxyOK, LoadedIsProxied, StopReturns
<1>8. ShutOK'
  BY DEF Inv, TypeOK, ShutOK, Reloaders, StopReturns
<1>9. MapOK' /\ BootOK' /\ InFlightRunning'
  BY DEF Inv, MapOK, BootOK, InFlightRunning, StopReturns
<1> QED BY <1>1, <1>2, <1>3, <1>4, <1>5, <1>6, <1>7, <1>8, <1>9 DEF Inv

LEMMA PrepareFailsInv ==
  ASSUME Inv, NEW r \in Reloaders, PrepareFails(r)
  PROVE  Inv'
<1>1. TypeOK'
  <2>1. rname[r] \in Names BY DEF Inv, TypeOK, Mutex, PrepareFails
  <2>2. handles' \in [Plugins -> Handles \cup {NoHandle}]
    BY DEF Inv, TypeOK, PrepareFails
  <2>3. /\ disabled' \subseteq Names
        /\ proxied' \subseteq Plugins /\ served' \subseteq Plugins
    BY <2>1 DEF Inv, TypeOK, PrepareFails
  <2> QED BY <2>2, <2>3 DEF Inv, TypeOK, PrepareFails
<1>2. MapOK'
  BY DEF Inv, MapOK, PrepareFails
<1>3. Mutex'
  BY DEF Inv, TypeOK, Mutex, PrepareFails
<1>4. OldOK'
  BY DEF Inv, TypeOK, OldOK, PrepareFails
<1>5. NewOK'
  BY DEF Inv, NewOK, PrepareFails
<1>6. UpOK'
  BY DEF Inv, TypeOK, MapOK, Mutex, OldOK, NewOK, UpOK, BootOK, PrepareFails
<1>7. CallOK'
  BY DEF Inv, TypeOK, CallOK, PrepareFails
<1>8. BootOK'
  BY DEF Inv, BootOK, PrepareFails
<1>9. ProxyOK'
  BY DEF Inv, TypeOK, Mutex, NewOK, BootOK, OldOK, ProxyOK, LoadedIsProxied,
      PrepareFails
<1>10. ShutOK'
  BY DEF Inv, ShutOK, Reloaders, PrepareFails
<1>11. InFlightRunning'
  BY DEF Inv, InFlightRunning, PrepareFails
<1> QED BY <1>1, <1>2, <1>3, <1>4, <1>5, <1>6, <1>7, <1>8, <1>9, <1>10, <1>11
    DEF Inv

LEMMA PrepareInv ==
  ASSUME Inv, NEW r \in Reloaders, Prepare(r)
  PROVE  Inv'
<1>1. TypeOK'
  BY FreshHandle DEF Inv, TypeOK, Prepare, Fresh
<1>2. MapOK'
  BY FreshHandle DEF Inv, MapOK, Prepare, Fresh
<1>3. Mutex'
  BY FreshHandle DEF Inv, Mutex, Prepare, Fresh
<1>4. OldOK'
  BY FreshHandle DEF Inv, OldOK, Prepare, Fresh
<1>5. NewOK'
  BY FreshHandle DEF Inv, TypeOK, MapOK, Mutex, OldOK, NewOK, CallOK, Prepare,
      Fresh
<1>6. UpOK'
  BY FreshHandle DEF Inv, TypeOK, MapOK, Mutex, OldOK, NewOK, UpOK, BootOK,
      Prepare, Fresh
<1>7. CallOK'
  BY FreshHandle DEF Inv, CallOK, Prepare, Fresh
<1>8. InFlightRunning'
  BY FreshHandle DEF Inv, TypeOK, MapOK, Mutex, OldOK, NewOK, CallOK, BootOK,
      InFlightRunning, Prepare, Fresh
<1>9. ProxyOK'
  BY FreshHandle DEF Inv, ProxyOK, LoadedIsProxied, Prepare, Fresh
<1>10. ShutOK'
  BY FreshHandle DEF Inv, ShutOK, Reloaders, Prepare, Fresh
<1>11. BootOK'
  BY DEF Inv, BootOK, Prepare
<1> QED BY <1>1, <1>2, <1>3, <1>4, <1>5, <1>6, <1>7, <1>8, <1>9, <1>10, <1>11
    DEF Inv

LEMMA StartNewInv ==
  ASSUME Inv, NEW r \in Reloaders, StartNew(r)
  PROVE  Inv'
<1>1. TypeOK'
  BY DEF Inv, TypeOK, Mutex, NewOK, OldOK, StartNew
<1>2. MapOK'
  BY DEF Inv, TypeOK, MapOK, StartNew
<1>3. Mutex'
  BY DEF Inv, TypeOK, Mutex, StartNew
<1>4. OldOK'
  BY DEF Inv, TypeOK, OldOK, StartNew
<1>5. NewOK'
  BY DEF Inv, TypeOK, MapOK, Mutex, OldOK, NewOK, CallOK, StartNew
<1>6. UpOK'
  BY DEF Inv, TypeOK, MapOK, Mutex, OldOK, NewOK, UpOK, BootOK, StartNew
<1>7. CallOK'
  BY DEF Inv, TypeOK, MapOK, Mutex, OldOK, NewOK, CallOK, StartNew
<1>8. InFlightRunning'
  BY DEF Inv, TypeOK, MapOK, Mutex, OldOK, NewOK, CallOK, BootOK,
      InFlightRunning, StartNew
<1>9. ProxyOK'
  BY DEF Inv, TypeOK, ProxyOK, LoadedIsProxied, StartNew
<1>10. ShutOK'
  BY DEF Inv, TypeOK, ShutOK, Reloaders, StartNew
<1>11. BootOK'
  BY DEF Inv, BootOK, StartNew
<1> QED BY <1>1, <1>2, <1>3, <1>4, <1>5, <1>6, <1>7, <1>8, <1>9, <1>10, <1>11
    DEF Inv

LEMMA InitSucceedsInv ==
  ASSUME Inv, NEW r \in Reloaders, InitSucceeds(r)
  PROVE  Inv'
<1>1. TypeOK'
  BY DEF Inv, TypeOK, InitSucceeds
<1>2. MapOK'
  BY DEF Inv, MapOK, InitSucceeds
<1>3. Mutex'
  BY DEF Inv, Mutex, InitSucceeds
<1>4. OldOK'
  BY DEF Inv, OldOK, InitSucceeds
<1>5. NewOK'
  BY DEF Inv, TypeOK, MapOK, Mutex, OldOK, NewOK, CallOK, InitSucceeds
<1>6. UpOK'
  BY DEF Inv, UpOK, InitSucceeds
<1>7. CallOK'
  BY DEF Inv, CallOK, InitSucceeds
<1>8. InFlightRunning'
  BY DEF Inv, InFlightRunning, InitSucceeds
<1>9. ProxyOK'
  BY DEF Inv, ProxyOK, LoadedIsProxied, InitSucceeds
<1>10. ShutOK'
  BY DEF Inv, ShutOK, Reloaders, InitSucceeds
<1>11. BootOK'
  BY DEF Inv, BootOK, InitSucceeds
<1> QED BY <1>1, <1>2, <1>3, <1>4, <1>5, <1>6, <1>7, <1>8, <1>9, <1>10, <1>11
    DEF Inv

LEMMA InitFailsInv ==
  ASSUME Inv, NEW r \in Reloaders, InitFails(r)
  PROVE  Inv'
<1>1. TypeOK'
  BY DEF Inv, TypeOK, Mutex, NewOK, OldOK, InitFails
<1>2. MapOK'
  BY DEF Inv, MapOK, InitFails
<1>3. Mutex'
  BY DEF Inv, TypeOK, Mutex, InitFails
<1>4. OldOK'
  BY DEF Inv, TypeOK, OldOK, InitFails
<1>5. NewOK'
  BY DEF Inv, TypeOK, MapOK, Mutex, OldOK, NewOK, CallOK, InitFails
<1>6. UpOK'
  BY DEF Inv, TypeOK, MapOK, Mutex, OldOK, NewOK, UpOK, BootOK, InitFails
<1>7. CallOK'
  BY DEF Inv, TypeOK, MapOK, Mutex, OldOK, NewOK, CallOK, InitFails
<1>8. BootOK'
  BY DEF Inv, BootOK, InitFails
<1>9. InFlightRunning'
  BY DEF Inv, TypeOK, MapOK, Mutex, OldOK, NewOK, CallOK, BootOK,
      InFlightRunning, InitFails
<1>10. ProxyOK'
  BY DEF Inv, TypeOK, Mutex, NewOK, BootOK, OldOK, ProxyOK, LoadedIsProxied,
      InitFails
<1>11. ShutOK'
  BY DEF Inv, ShutOK, Reloaders, InitFails
<1> QED BY <1>1, <1>2, <1>3, <1>4, <1>5, <1>6, <1>7, <1>8, <1>9, <1>10, <1>11
    DEF Inv

LEMMA PublishInv ==
  ASSUME Inv, NEW r \in Reloaders, Publish(r)
  PROVE  Inv'
<1>1. TypeOK'
  BY DEF Inv, TypeOK, Mutex, NewOK, OldOK, Publish
<1>2. MapOK'
  BY DEF Inv, TypeOK, MapOK, NewOK, OldOK, Publish
<1>3. Mutex'
  BY DEF Inv, Mutex, Publish
<1>4. OldOK'
  BY DEF Inv, TypeOK, MapOK, Mutex, OldOK, Publish
<1>5. NewOK'
  BY DEF Inv, TypeOK, NewOK, Publish
<1>6. UpOK'
  BY DEF Inv, TypeOK, MapOK, Mutex, OldOK, NewOK, UpOK, BootOK, Publish
<1>7. CallOK'
  BY DEF Inv, TypeOK, CallOK, Publish
<1>8. BootOK'
  BY DEF Inv, TypeOK, BootOK, Mutex, NewOK, Publish
<1>9. ProxyOK'
  BY DEF Inv, ProxyOK, LoadedIsProxied, Publish
<1>10. ShutOK'
  BY DEF Inv, ShutOK, Reloaders, Publish
<1>11. InFlightRunning'
  BY DEF Inv, InFlightRunning, Publish
<1> QED BY <1>1, <1>2, <1>3, <1>4, <1>5, <1>6, <1>7, <1>8, <1>9, <1>10, <1>11
    DEF Inv

LEMMA ReadDisabledInv ==
  ASSUME Inv, NEW r \in Reloaders, ReadDisabled(r)
  PROVE  Inv'
<1>1. TypeOK'
  BY DEF Inv, TypeOK, ReadDisabled
<1>2. Mutex'
  BY DEF Inv, Mutex, ReadDisabled
<1>3. OldOK'
  BY DEF Inv, OldOK, ReadDisabled
<1>4. NewOK'
  BY DEF Inv, NewOK, ReadDisabled
<1>5. UpOK'
  BY DEF Inv, UpOK, ReadDisabled
<1>6. CallOK'
  BY DEF Inv, CallOK, ReadDisabled
<1>7. ProxyOK'
  BY DEF Inv, ProxyOK, LoadedIsProxied, ReadDisabled
<1>8. ShutOK'
  BY DEF Inv, ShutOK, Reloaders, ReadDisabled
<1>9. MapOK' /\ BootOK' /\ InFlightRunning'
  BY DEF Inv, MapOK, BootOK, InFlightRunning, ReadDisabled
<1> QED BY <1>1, <1>2, <1>3, <1>4, <1>5, <1>6, <1>7, <1>8, <1>9 DEF Inv

LEMMA RegisterToolsInv ==
  ASSUME Inv, NEW r \in Reloaders, RegisterTools(r)
  PROVE  Inv'
<1>1. TypeOK'
  BY DEF Inv, TypeOK, RegisterTools
<1>2. Mutex'
  BY DEF Inv, TypeOK, Mutex, RegisterTools
<1>3. OldOK'
  BY DEF Inv, OldOK, RegisterTools
<1>4. NewOK'
  BY DEF Inv, NewOK, RegisterTools
<1>5. UpOK'
  BY DEF Inv, UpOK, RegisterTools
<1>6. CallOK'
  BY DEF Inv, CallOK, RegisterTools
<1>7. ProxyOK'
  BY DEF Inv, ProxyOK, LoadedIsProxied, RegisterTools
<1>8. ShutOK'
  BY DEF Inv, ShutOK, Reloaders, RegisterTools
<1>9. MapOK' /\ BootOK' /\ InFlightRunning'
  BY DEF Inv, MapOK, BootOK, InFlightRunning, RegisterTools
<1> QED BY <1>1, <1>2, <1>3, <1>4, <1>5, <1>6, <1>7, <1>8, <1>9 DEF Inv

(***************************************************************************)
(* The steps of a tool call: look-up, read lock, dispatch, return.         *)
(***************************************************************************)
LEMMA LookupInv ==
  ASSUME Inv, NEW c \in Callers, NEW p \in Plugins, Lookup(c, p)
  PROVE  Inv'
<1>1. TypeOK'
  BY DEF Inv, TypeOK, Lookup
<1>2. NewOK'
  BY DEF Inv, TypeOK, MapOK, Mutex, OldOK, NewOK, CallOK, Lookup
<1>3. CallOK'
  BY DEF Inv, TypeOK, MapOK, Mutex, OldOK, NewOK, CallOK, Lookup
<1>4. InFlightRunning'
  BY DEF Inv, InFlightRunning, Lookup
<1>5. MapOK' /\ Mutex' /\ OldOK' /\ UpOK' /\ BootOK' /\ ProxyOK' /\ ShutOK'
  BY DEF Inv, MapOK, Mutex, OldOK, UpOK, BootOK, ProxyOK, ShutOK,
      LoadedIsProxied, Reloaders, Lookup
<1> QED BY <1>1, <1>2, <1>3, <1>4, <1>5 DEF Inv

LEMMA RLockInv ==
  ASSUME Inv, NEW c \in Callers, RLock(c)
  PROVE  Inv'
<1>1. TypeOK'
  BY DEF Inv, TypeOK, RLock
<1>2. CallOK'
  BY DEF Inv, CallOK, RLock
<1>3. InFlightRunning'
  BY DEF Inv, InFlightRunning, RLock
<1>4. MapOK' /\ Mutex' /\ OldOK' /\ NewOK' /\ UpOK' /\ BootOK' /\ ProxyOK' /\ ShutOK'
  BY DEF Inv, MapOK, Mutex, OldOK, NewOK, UpOK, BootOK, ProxyOK, ShutOK,
      LoadedIsProxied, Reloaders, RLock
<1> QED BY <1>1, <1>2, <1>3, <1>4 DEF Inv

LEMMA ReloadedInv ==
  ASSUME Inv, NEW c \in Callers, Reloaded(c)
  PROVE  Inv'
<1>1. TypeOK'
  BY DEF Inv, TypeOK, Reloaded
<1>2. NewOK'
  BY DEF Inv, NewOK, Reloaded
<1>3. CallOK'
  BY DEF Inv, TypeOK, CallOK, Reloaded
<1>4. InFlightRunning'
  BY DEF Inv, InFlightRunning, Reloaded
<1>5. MapOK' /\ Mutex' /\ OldOK' /\ UpOK' /\ BootOK' /\ ProxyOK' /\ ShutOK'
  BY DEF Inv, MapOK, Mutex, OldOK, UpOK, BootOK, ProxyOK, ShutOK,
      LoadedIsProxied, Reloaders, Reloaded
<1> QED BY <1>1, <1>2, <1>3, <1>4, <1>5 DEF Inv

LEMMA DispatchInv ==
  ASSUME Inv, NEW c \in Callers, Dispatch(c)
  PROVE  Inv'
<1>1. TypeOK'
  BY DEF Inv, TypeOK, Dispatch
<1>2. CallOK'
  BY DEF Inv, CallOK, Dispatch
<1>3. InFlightRunning'
  BY DEF Inv, TypeOK, MapOK, Mutex, OldOK, NewOK, CallOK, BootOK,
      InFlightRunning, Dispatch
<1>4. MapOK' /\ Mutex' /\ OldOK' /\ NewOK' /\ UpOK' /\ BootOK' /\ ProxyOK' /\ ShutOK'
  BY DEF Inv, MapOK, Mutex, OldOK, NewOK, UpOK, BootOK, ProxyOK, ShutOK,
      LoadedIsProxied, Reloaders, Dispatch
<1> QED BY <1>1, <1>2, <1>3, <1>4 DEF Inv

LEMMA CallReturnsInv ==
  ASSUME Inv, NEW c \in Callers, CallReturns(c)
  PROVE  Inv'
<1>1. TypeOK'
  BY DEF Inv, TypeOK, CallReturns
<1>2. NewOK'
  BY DEF Inv, NewOK, CallReturns
<1>3. CallOK'
  BY DEF Inv, TypeOK, CallOK, CallReturns
<1>4. InFlightRunning'
  BY DEF Inv, TypeOK, InFlightRunning, CallReturns
<1>5. MapOK' /\ Mutex' /\ OldOK' /\ UpOK' /\ BootOK' /\ ProxyOK' /\ ShutOK'
  BY DEF Inv, MapOK, Mutex, OldOK, UpOK, BootOK, ProxyOK, ShutOK,
      LoadedIsProxied, Reloaders, CallReturns
<1> QED BY <1>1, <1>2, <1>3, <1>4, <1>5 DEF Inv

(***************************************************************************)
(* The steps of main: the end of the transport and the shutdown sequence.  *)
(***************************************************************************)
LEMMA SignalInv ==
  ASSUME Inv, Signal
  PROVE  Inv'
<1>1. TypeOK'
  BY DEF Inv, TypeOK, Signal
<1>2. MapOK' /\ Mutex' /\ OldOK' /\ NewOK' /\ UpOK' /\ CallOK' /\ BootOK' /\ InFlightRunning' /\ ProxyOK' /\ ShutOK'
  BY DEF Inv, MapOK, Mutex, OldOK, NewOK, UpOK, CallOK, BootOK,
      InFlightRunning, ProxyOK, ShutOK, LoadedIsProxied, Reloaders, Signal
<1> QED BY <1>1, <1>2 DEF Inv

LEMMA ClientLeavesInv ==
  ASSUME Inv, ClientLeaves
  PROVE  Inv'
<1>1. TypeOK'
  BY DEF Inv, TypeOK, ClientLeaves
<1>2. MapOK' /\ Mutex' /\ OldOK' /\ NewOK' /\ UpOK' /\ CallOK' /\ BootOK' /\ InFlightRunning' /\ ProxyOK' /\ ShutOK'
  BY DEF Inv, MapOK, Mutex, OldOK, NewOK, UpOK, CallOK, BootOK,
      InFlightRunning, ProxyOK, ShutOK, LoadedIsProxied, Reloaders,
      ClientLeaves
<1> QED BY <1>1, <1>2 DEF Inv

LEMMA ListenReturnsInv ==
  ASSUME Inv, ListenReturns
  PROVE  Inv'
<1>1. TypeOK'
  BY DEF Inv, TypeOK, ListenReturns
<1>2. BootOK'
  BY DEF Inv, BootOK, ListenReturns
<1>3. InFlightRunning'
  BY DEF Inv, InFlightRunning, ListenReturns
<1>4. ShutOK'
  BY DEF Inv, ShutOK, Reloaders, ListenReturns
<1>5. MapOK' /\ Mutex' /\ OldOK' /\ NewOK' /\ UpOK' /\ CallOK' /\ ProxyOK'
  BY DEF Inv, MapOK, Mutex, OldOK, NewOK, UpOK, CallOK, ProxyOK,
      LoadedIsProxied, ListenReturns
<1> QED BY <1>1, <1>2, <1>3, <1>4, <1>5 DEF Inv

LEMMA CleanUpInv ==
  ASSUME Inv, CleanUp
  PROVE  Inv'
<1>1. TypeOK'
  BY DEF Inv, TypeOK, CleanUp
<1>2. ShutOK'
  BY DEF Inv, ShutOK, Reloaders, CleanUp
<1>3. MapOK' /\ Mutex' /\ OldOK' /\ NewOK' /\ UpOK' /\ CallOK' /\ BootOK' /\ InFlightRunning' /\ ProxyOK'
  BY DEF Inv, MapOK, Mutex, OldOK, NewOK, UpOK, CallOK, BootOK,
      InFlightRunning, ProxyOK, LoadedIsProxied, CleanUp
<1> QED BY <1>1, <1>2, <1>3 DEF Inv

LEMMA BeginShutdownInv ==
  ASSUME Inv, BeginShutdown
  PROVE  Inv'
<1>1. TypeOK'
  BY DEF Inv, TypeOK, BeginShutdown
<1>2. NewOK'
  BY DEF Inv, TypeOK, MapOK, Mutex, OldOK, NewOK, CallOK, BeginShutdown
<1>3. BootOK'
  BY DEF Inv, BootOK, BeginShutdown
<1>4. InFlightRunning'
  BY DEF Inv, InFlightRunning, BeginShutdown
<1>5. ShutOK'
  BY DEF Inv, TypeOK, Mutex, UpOK, MapOK, OldOK, NewOK, BootOK, ShutOK,
      Reloaders, BeginShutdown
<1>6. MapOK' /\ Mutex' /\ OldOK' /\ UpOK' /\ CallOK' /\ ProxyOK'
  BY DEF Inv, MapOK, Mutex, OldOK, UpOK, CallOK, ProxyOK, LoadedIsProxied,
      BeginShutdown
<1> QED BY <1>1, <1>2, <1>3, <1>4, <1>5, <1>6 DEF Inv

LEMMA StopHandleInv ==
  ASSUME Inv, NEW h \in Handles, StopHandle(h)
  PROVE  Inv'
<1>1. TypeOK'
  BY DEF Inv, TypeOK, StopHandle
<1>2. MapOK'
  BY DEF Inv, MapOK, StopHandle
<1>3. OldOK'
  BY DEF Inv, TypeOK, OldOK, StopHandle
<1>4. NewOK'
  BY DEF Inv, TypeOK, NewOK, StopHandle
<1>5. UpOK'
  BY DEF Inv, TypeOK, UpOK, StopHandle
<1>6. CallOK'
  BY DEF Inv, TypeOK, CallOK, StopHandle
<1>7. InFlightRunning'
  BY DEF Inv, InFlightRunning, StopHandle
<1>8. ShutOK'
  BY DEF Inv, ShutOK, Reloaders, StopHandle
<1>9. Mutex' /\ BootOK' /\ ProxyOK'
  BY DEF Inv, Mutex, BootOK, ProxyOK, LoadedIsProxied, StopHandle
<1> QED BY <1>1, <1>2, <1>3, <1>4, <1>5, <1>6, <1>7, <1>8, <1>9 DEF Inv

LEMMA ExitInv ==
  ASSUME Inv, Exit
  PROVE  Inv'
<1>1. TypeOK'
  BY DEF Inv, TypeOK, Exit
<1>2. BootOK'
  BY DEF Inv, BootOK, Exit
<1>3. InFlightRunning'
  BY DEF Inv, InFlightRunning, Exit
<1>4. ShutOK'
  BY DEF Inv, ShutOK, Reloaders, Exit
<1>5. MapOK' /\ Mutex' /\ OldOK' /\ NewOK' /\ UpOK' /\ CallOK' /\ ProxyOK'
  BY DEF Inv, MapOK, Mutex, OldOK, NewOK, UpOK, CallOK, ProxyOK,
      LoadedIsProxied, Exit
<1> QED BY <1>1, <1>2, <1>3, <1>4, <1>5 DEF Inv

(***************************************************************************)
(* What the environment does: a process dies, an unreachable handle is     *)
(* collected.                                                              *)
(***************************************************************************)
LEMMA CrashInv ==
  ASSUME Inv, NEW h \in Handles, Crash(h)
  PROVE  Inv'
<1>1. TypeOK'
  BY DEF Inv, TypeOK, Crash
<1>2. UpOK'
  BY DEF Inv, UpOK, Crash
<1>3. ShutOK'
  BY DEF Inv, ShutOK, Reloaders, Crash
<1>4. MapOK' /\ Mutex' /\ OldOK' /\ NewOK' /\ CallOK' /\ BootOK' /\ InFlightRunning' /\ ProxyOK'
  BY DEF Inv, MapOK, Mutex, OldOK, NewOK, CallOK, BootOK, InFlightRunning,
      ProxyOK, LoadedIsProxied, Crash
<1> QED BY <1>1, <1>2, <1>3, <1>4 DEF Inv

LEMMA CollectInv ==
  ASSUME Inv, Collect
  PROVE  Inv'
<1>1. TypeOK'
  BY DEF Inv, TypeOK, Collect, Garbage, Fresh
<1>2. MapOK'
  BY DEF Inv, MapOK, Collect, Garbage, Fresh
<1>3. OldOK'
  BY DEF Inv, TypeOK, OldOK, Collect, Garbage, Fresh
<1>4. NewOK'
  BY DEF Inv, TypeOK, NewOK, Collect, Garbage, Fresh
<1>5. UpOK'
  BY DEF Inv, TypeOK, UpOK, Collect, Garbage, Fresh
<1>6. CallOK'
  BY DEF Inv, TypeOK, CallOK, Collect, Garbage, Fresh
<1>7. InFlightRunning'
  BY DEF Inv, TypeOK, InFlightRunning, Collect, Garbage, Fresh
<1>8. Mutex' /\ BootOK' /\ ProxyOK' /\ ShutOK'
  BY DEF Inv, Mutex, BootOK, ProxyOK, ShutOK, LoadedIsProxied, Reloaders,
      Collect
<1> QED BY <1>1, <1>2, <1>3, <1>4, <1>5, <1>6, <1>7, <1>8 DEF Inv

(***************************************************************************)
(* The lemmas above, put together along the structure of Next.             *)
(***************************************************************************)
LEMMA InitInv == ASSUME Init PROVE Inv
<1>1. TypeOK BY DEF Init, TypeOK
<1>2. MapOK /\ Mutex /\ OldOK /\ NewOK /\ UpOK
  BY DEF Init, MapOK, Mutex, OldOK, NewOK, UpOK
<1>3. CallOK /\ BootOK /\ InFlightRunning /\ ProxyOK /\ ShutOK
  BY DEF Init, CallOK, BootOK, InFlightRunning, ProxyOK, LoadedIsProxied, ShutOK
<1> QED BY <1>1, <1>2, <1>3 DEF Inv

LEMMA BootInv == ASSUME Inv, BootStep PROVE Inv'
  BY LoadProviderInv, FilterPluginInv, PreparePluginInv, LaunchPluginInv,
     InitPluginInv, SwapToolsInv, ProvidersLoadedInv, FilteredInv, NewServerInv,
     CollectLevelInv, CloseLoadDoneInv, SwapSnapshotInv
  DEF BootStep

LEMMA ReloadInv ==
  ASSUME Inv, NEW r \in Reloaders, ReloadStep(r)
  PROVE  Inv'
  BY WaitLoadedInv, LockReloadInv, LockHandleInv, ReReadEnvInv, UnloadInv,
     StopReturnsInv, PrepareFailsInv, PrepareInv, StartNewInv, InitSucceedsInv,
     InitFailsInv, PublishInv, ReadDisabledInv, RegisterToolsInv
  DEF ReloadStep

LEMMA CallInv == ASSUME Inv, NEW c \in Callers, CallStep(c) PROVE Inv'
  BY RLockInv, ReloadedInv, DispatchInv, CallReturnsInv DEF CallStep

LEMMA MainInv == ASSUME Inv, MainStep PROVE Inv'
  BY ListenReturnsInv, CleanUpInv, BeginShutdownInv, StopHandleInv, ExitInv
  DEF MainStep

LEMMA NextInv == ASSUME Inv, [Next]_vars PROVE Inv'
<1>1. CASE Step
  <2>1. CASE BootStep BY <2>1, BootInv
  <2>2. CASE \E r \in Reloaders : ReloadStep(r) BY <2>2, ReloadInv
  <2>3. CASE \E r \in Reloaders, n \in Names : BeginReload(r, n)
    BY <2>3, BeginReloadInv
  <2>4. CASE \E c \in Callers : CallStep(c) BY <2>4, CallInv
  <2>5. CASE \E c \in Callers, p \in Plugins : Lookup(c, p) BY <2>5, LookupInv
  <2>6. CASE \E h \in Handles : Crash(h) BY <2>6, CrashInv
  <2>7. CASE Signal \/ ClientLeaves BY <2>7, SignalInv, ClientLeavesInv
  <2>8. CASE MainStep BY <2>8, MainInv
  <2> QED BY <1>1, <2>1, <2>2, <2>3, <2>4, <2>5, <2>6, <2>7, <2>8 DEF Step
<1>2. CASE Collect BY <1>2, CollectInv
<1>3. CASE UNCHANGED vars
  <2>1. TypeOK' BY <1>3 DEF Inv, TypeOK, vars
  <2>2. MapOK' /\ Mutex' /\ OldOK' /\ NewOK' /\ UpOK'
    BY <1>3 DEF Inv, MapOK, Mutex, OldOK, NewOK, UpOK, vars
  <2>3. CallOK' /\ BootOK' /\ InFlightRunning' /\ ProxyOK' /\ ShutOK'
    BY <1>3 DEF Inv, CallOK, BootOK, InFlightRunning, ProxyOK, LoadedIsProxied,
                ShutOK, vars
  <2> QED BY <2>1, <2>2, <2>3 DEF Inv
<1> QED BY <1>1, <1>2, <1>3 DEF Next

----------------------------------------------------------------------------
(* The inductive invariant of start-up, reloads, calls and shutdown. *)
THEOREM LifecycleInvariant == Spec => []Inv
<1>1. Init => Inv BY InitInv
<1>2. Inv /\ [Next]_vars => Inv' BY NextInv
<1> QED BY <1>1, <1>2, PTL DEF Spec

(* TypeOK, for every set of plugins, handles and goroutines. *)
THEOREM TypeCorrect == Spec => []TypeOK
<1>1. Inv => TypeOK BY DEF Inv
<1> QED BY <1>1, LifecycleInvariant, PTL

(* A call that CallTool has dispatched talks to a process nobody has       *)
(* stopped, whatever reloads of the plugin run beside it.                  *)
THEOREM CallsMeetNoReload == Spec => []InFlightRunning
<1>1. Inv => InFlightRunning BY DEF Inv
<1> QED BY <1>1, LifecycleInvariant, PTL

(* The process of a plugin is the one in m.handles, the one being stopped  *)
(* or the one being started, and reloadMu makes these exclude each other.  *)
LEMMA InvOneProcess == ASSUME Inv PROVE OneProcess
<1> DEFINE Reloading(r, x) ==
      (old[r] = x /\ rpc[r] = "stop") \/ new[r] = x
<1>1. ASSUME NEW r \in Reloaders, NEW x \in up, Reloading(r, x)
      PROVE  Holds(r) /\ hplugin[x] = rname[r] /\ handles[rname[r]] = NoHandle
  BY <1>1 DEF Inv, TypeOK, OldOK, NewOK
<1>2. ASSUME NEW r \in Reloaders, NEW x \in up, NEW y \in up,
             Reloading(r, x), hplugin[x] = hplugin[y]
      PROVE  x = y
  <2>1. Holds(r) /\ hplugin[x] = rname[r] /\ handles[rname[r]] = NoHandle
    BY <1>1, <1>2
  <2>2. handles[hplugin[y]] # y
    BY <1>2, <2>1 DEF Inv, TypeOK
  <2>3. PICK s \in Reloaders : Reloading(s, y)
    BY <2>2 DEF Inv, UpOK
  <2>4. Holds(s) BY <1>1, <2>3
  <2>5. s = r BY <2>1, <2>4 DEF Inv, Mutex
  <2> QED BY <1>2, <2>3, <2>5 DEF Inv, TypeOK, NewOK
<1>3. SUFFICES ASSUME NEW g \in up, NEW h \in up, hplugin[g] = hplugin[h]
               PROVE  g = h
  BY DEF OneProcess
<1>4. CASE \E r \in Reloaders : Reloading(r, g) BY <1>2, <1>3, <1>4
<1>5. CASE \E r \in Reloaders : Reloading(r, h) BY <1>2, <1>3, <1>5
<1>6. CASE handles[hplugin[g]] = g /\ handles[hplugin[h]] = h
  BY <1>3, <1>6
<1> QED BY <1>4, <1>5, <1>6 DEF Inv, UpOK

(* No interleaving of start-up, reloads, crashes and shutdown gives one    *)
(* plugin two processes.                                                   *)
THEOREM ProcessIsUnique == Spec => []OneProcess
<1>1. Inv => OneProcess BY InvOneProcess
<1> QED BY <1>1, LifecycleInvariant, PTL

(* Every plugin in m.handles is registered with the proxy. *)
THEOREM LoadedPluginsAreProxied == Spec => []LoadedIsProxied
<1>1. Inv => LoadedIsProxied BY DEF Inv, ProxyOK
<1> QED BY <1>1, LifecycleInvariant, PTL

(* If the MCP transport waits for its requests, every process can be found *)
(* at all times and none is left when main returns.                        *)
THEOREM NothingIsOrphaned == ASSUME Drains PROVE Spec => []NoOrphans
<1>1. Inv => NoOrphans
  <2>1. UpOK /\ ShutOK => NoOrphans BY DEF UpOK, ShutOK, NoOrphans
  <2> QED BY <2>1 DEF Inv
<1> QED BY <1>1, LifecycleInvariant, PTL

=============================================================================
