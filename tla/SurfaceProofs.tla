---------------------------- MODULE SurfaceProofs ----------------------------
(***************************************************************************)
(* Proofs about the two sides of a call: what an MCP client sees of the    *)
(* plugins (ToolSurface), and which of the core's requests a plugin's own  *)
(* requests are served for (PluginSdk).                                    *)
(***************************************************************************)
EXTENDS ToolSurface, PluginSdk, TLAPS

----------------------------------------------------------------------------
(* ToolSurface *)

(* A call: what was asked of the user is remembered with it. *)
Calls ==
  [tool : ToolNames, plugin : Plugins, write : BOOLEAN, asked : BOOLEAN,
   answer : {"none", "accept", "declined", "error", "unsupported"},
   pc : {"returned", "ask", "dispatched"}]

WritesInv ==
  /\ settings \in SurfaceSettings
  /\ call = NoToolCall \/ call \in Calls
  /\ call.pc = "ask" /\ settings.readOnly => ~call.write
  /\ settings.readOnly => \A r \in Reloaders : reload[r].pc = "idle"
  /\ WritesAreIntended

LEMMA StubsAreReads ==
  ASSUME NEW p, NEW n \in StubNames(p), settings.readOnly
  PROVE  ~WriteTool(p, n) /\ n \notin Reserved
BY DEF StubNames, Listable, WriteTool

LEMMA OwnedAreReads ==
  ASSUME NEW p, NEW os, NEW n \in Registrable(p, os), settings.readOnly
  PROVE  ~WriteTool(p, n)
BY DEF Registrable, Listable, WriteTool

LEMMA EntriesAreReads ==
  ASSUME settings.readOnly, NEW e \in Entries
  PROVE  ~WriteTool(e.plugin, e.tool)
BY DEF Entries, WriteTool

LEMMA InitWrites == SurfaceInit => WritesInv
<1> SUFFICES ASSUME SurfaceInit PROVE WritesInv OBVIOUS
<1>1. settings \in SurfaceSettings /\ call = NoToolCall /\ call.pc = "idle"
      /\ \A r \in Reloaders : reload[r].pc = "idle"
  BY DEF SurfaceInit, NoToolCall, NoReload
<1>2. ASSUME settings.readOnly, NEW n \in ToolNames \ Reserved, tools[n].kind # "none"
      PROVE  ~WriteTool(tools[n].by, n)
  <2>1. PICK stubs \in [ToolNames -> Plugins \cup {Nobody}] :
          /\ \A m \in ToolNames : AnyOf({p \in disabled : m \in StubNames(p)}, stubs[m])
          /\ tools = [m \in ToolNames |->
               IF m \in Reserved THEN Entry(Core, "normal")
               ELSE IF stubs[m] # Nobody THEN Entry(stubs[m], "stub")
               ELSE IF owners[m] # Nobody THEN Entry(owners[m], "normal") ELSE NoEntry]
    BY DEF SurfaceInit
  <2>2. tools[n] = IF stubs[n] # Nobody THEN Entry(stubs[n], "stub")
                   ELSE IF owners[n] # Nobody THEN Entry(owners[n], "normal") ELSE NoEntry
    BY <1>2, <2>1
  <2>3. CASE stubs[n] # Nobody
    <3>1. n \in StubNames(stubs[n]) BY <1>2, <2>1, <2>3 DEF AnyOf
    <3> QED BY <1>2, <2>2, <2>3, <3>1, StubsAreReads DEF Entry
  <2>4. CASE stubs[n] = Nobody /\ owners[n] # Nobody
    <3>1. n \in Registrable(owners[n], Unowned)
      BY <1>2, <2>4 DEF SurfaceInit, AnyOf
    <3> QED BY <1>2, <2>2, <2>4, <3>1, OwnedAreReads DEF Entry
  <2>5. CASE stubs[n] = Nobody /\ owners[n] = Nobody
    BY <1>2, <2>2, <2>5 DEF NoEntry, Entry
  <2> QED BY <2>3, <2>4, <2>5
<1>3. settings.readOnly => \A e \in index : ~WriteTool(e.plugin, e.tool)
  BY EntriesAreReads DEF SurfaceInit
<1> QED BY <1>1, <1>2, <1>3 DEF WritesInv, WritesAreIntended

(* The steps that touch no registry, and leave the reloads where they are. *)
LEMMA QuietWrites ==
  ASSUME WritesInv, UNCHANGED <<settings, tools, index, call>>,
         settings.readOnly => \A r \in Reloaders : reload'[r].pc = "idle"
  PROVE  WritesInv'
BY DEF WritesInv, WritesAreIntended, WriteTool, Defs

LEMMA DisturbIdle ==
  ASSUME Disturb, \A r \in Reloaders : reload[r].pc = "idle"
  PROVE  \A r \in Reloaders : reload'[r].pc = "idle"
BY DEF Disturb

LEMMA SwapWrites ==
  ASSUME WritesInv, SwapStartFailedTools
  PROVE  WritesInv'
<1>1. UNCHANGED <<settings, index, call>> BY DEF SwapStartFailedTools
<1>2. settings.readOnly => \A r \in Reloaders : reload'[r].pc = "idle"
  BY DisturbIdle DEF WritesInv, SwapStartFailedTools
<1>3. ASSUME settings.readOnly, NEW n \in ToolNames \ Reserved, tools'[n].kind # "none"
      PROVE  ~WriteTool(tools'[n].by, n)
  <2>1. CASE tools' = tools BY <1>3, <2>1 DEF WritesInv, WritesAreIntended
  <2>2. CASE \E p \in Plugins : tools' = WithStubs(WithoutTools(tools, Declared(p)), p)
    <3>1. PICK p \in Plugins : tools' = WithStubs(WithoutTools(tools, Declared(p)), p)
      BY <2>2
    <3>2. CASE n \in StubNames(p)
      <4>1. tools'[n] = Entry(p, "stub") BY <3>1, <3>2 DEF WithStubs
      <4> QED BY <1>3, <3>2, <4>1, StubsAreReads DEF Entry
    <3>3. CASE n \notin StubNames(p)
      <4>1. tools'[n] = NoEntry \/ tools'[n] = tools[n]
        BY <3>1, <3>3 DEF WithStubs, WithoutTools
      <4>2. tools'[n] = tools[n] BY <1>3, <4>1 DEF NoEntry, Entry
      <4> QED BY <1>3, <4>2 DEF WritesInv, WritesAreIntended
    <3> QED BY <3>2, <3>3
  <2> QED BY <2>1, <2>2 DEF SwapStartFailedTools
<1> QED BY <1>1, <1>2, <1>3 DEF WritesInv, WritesAreIntended, WriteTool, Defs

LEMMA RebuildWrites ==
  ASSUME WritesInv, Rebuild
  PROVE  WritesInv'
<1>1. UNCHANGED <<settings, tools, call>> /\ index' = Entries BY DEF Rebuild
<1>2. settings.readOnly => \A r \in Reloaders : reload'[r].pc = "idle"
  BY DisturbIdle DEF WritesInv, Rebuild
<1>3. settings.readOnly => \A e \in index' : ~WriteTool(e.plugin, e.tool)
  BY <1>1, EntriesAreReads
<1> QED BY <1>1, <1>2, <1>3 DEF WritesInv, WritesAreIntended, WriteTool, Defs

(* In read-only mode nothing is reloaded. *)
LEMMA ReloadWrites ==
  ASSUME WritesInv, NEW r \in Reloaders, ReloadStep(r)
  PROVE  WritesInv'
<1>1. ~settings.readOnly
  BY DEF WritesInv, ReloadStep, Collect, ManagerReloads, ManagerFails, Unregister,
         Register, DeleteAndScan, Publish, Reloading
<1>2. UNCHANGED <<settings, call>>
  BY DEF ReloadStep, Collect, ManagerReloads, ManagerFails, Unregister,
         Register, DeleteAndScan, Publish
<1> QED BY <1>1, <1>2 DEF WritesInv, WritesAreIntended

LEMMA CallWrites ==
  ASSUME WritesInv, NEW n \in ToolNames, NEW p \in Plugins, NEW dry \in BOOLEAN,
         HandleToolCall(n, p, dry)
  PROVE  WritesInv'
<1> DEFINE d == Definition(tools[n].by, n)
           dryRun == d.dryRun /\ dry
           write == ~d.read /\ ~dryRun
           ask == ~d.read /\ settings.elicitation # "off" /\ ~dryRun
           pc == IF p \notin handles \/ (settings.readOnly /\ ~d.read)
                 THEN "returned" ELSE IF ask THEN "ask" ELSE "dispatched"
<1>1. call' = [tool |-> n, plugin |-> p, write |-> write, asked |-> ask,
               answer |-> "none", pc |-> pc]
      /\ UNCHANGED <<settings, tools, index, reload>>
  BY DEF HandleToolCall, registries
<1>2. write \in BOOLEAN /\ ask \in BOOLEAN OBVIOUS
<1>3. pc \in {"returned", "ask", "dispatched"} OBVIOUS
<1>4. pc # "returned" /\ settings.readOnly => ~write OBVIOUS
<1>5. pc = "dispatched" /\ write => settings.elicitation = "off" OBVIOUS
<1> HIDE DEF write, ask, pc
<1>6. call' \in Calls /\ call'.pc = pc /\ call'.write = write
  BY <1>1, <1>2, <1>3 DEF Calls
<1> QED BY <1>1, <1>4, <1>5, <1>6 DEF WritesInv, WritesAreIntended, WriteTool, Defs

LEMMA ElicitWrites ==
  ASSUME WritesInv, NEW a \in {"accept", "declined", "error", "unsupported"}, Elicit(a)
  PROVE  WritesInv'
<1> DEFINE pc == IF Blocks(a) THEN "returned" ELSE "dispatched"
<1>1. call \in Calls BY DEF WritesInv, Elicit, NoToolCall
<1>2. call' = [call EXCEPT !.answer = a, !.pc = pc]
      /\ UNCHANGED <<settings, tools, index, reload>>
  BY DEF Elicit, registries
<1>3. pc \in {"returned", "dispatched"} OBVIOUS
<1>4. settings.elicitation \in {"off", "lenient", "strict"}
  BY SettingsAssumption DEF WritesInv
<1>5. pc = "dispatched" =>
        \/ settings.elicitation = "off" \/ a = "accept"
        \/ a = "unsupported" /\ settings.elicitation = "lenient"
  BY <1>4 DEF Blocks
<1> HIDE DEF pc
<1>6. call' \in Calls /\ call'.pc = pc /\ call'.write = call.write /\ call'.answer = a
  BY <1>1, <1>2, <1>3 DEF Calls
<1>7. settings.readOnly => ~call.write BY DEF WritesInv, Elicit
<1> QED
  BY <1>2, <1>3, <1>5, <1>6, <1>7 DEF WritesInv, WritesAreIntended, WriteTool, Defs

LEMMA NextWrites == WritesInv /\ [SurfaceNext]_surfaceVars => WritesInv'
<1> SUFFICES ASSUME WritesInv, [SurfaceNext]_surfaceVars PROVE WritesInv' OBVIOUS
<1>1. CASE UNCHANGED surfaceVars BY <1>1, QuietWrites DEF surfaceVars, WritesInv
<1>2. CASE \/ \E S \in SUBSET (Plugins \ disabled) : StartPending(S)
           \/ RegisterPluginResources
           \/ \E p \in Plugins : Invalidate(p)
           \/ ListResources \/ ApplyResources
  <2>1. Disturb /\ UNCHANGED <<settings, tools, index, call>>
    BY <1>2 DEF StartPending, RegisterPluginResources, Invalidate, ListResources,
                ApplyResources, registries
  <2> QED BY <2>1, DisturbIdle, QuietWrites DEF WritesInv
<1>3. CASE \E p \in Plugins : \E uris \in SUBSET UrisOf[p] : OffersChange(p, uris)
  BY <1>3, QuietWrites DEF OffersChange, registries, actors, WritesInv
<1>4. CASE SwapStartFailedTools BY <1>4, SwapWrites
<1>5. CASE Rebuild BY <1>5, RebuildWrites
<1>6. CASE \E r \in Reloaders : ReloadStep(r) BY <1>6, ReloadWrites
<1>7. CASE \E n \in ToolNames, p \in Plugins, dry \in BOOLEAN : HandleToolCall(n, p, dry)
  BY <1>7, CallWrites
<1>8. CASE \E a \in {"accept", "declined", "error", "unsupported"} : Elicit(a)
  BY <1>8, ElicitWrites
<1> QED BY <1>1, <1>2, <1>3, <1>4, <1>5, <1>6, <1>7, <1>8 DEF SurfaceNext

(* The inductive invariant behind WritesAreIntended. *)
THEOREM WritesInvariant == SurfaceSpec => []WritesInv
<1> QED BY InitWrites, NextWrites, PTL DEF SurfaceSpec

(* A write reaches a plugin only as the user has it: confirmed, or with    *)
(* confirmation off; and never in read-only mode (registerPluginTools,     *)
(* registerDisabledPluginTools, buildEntries, elicitation).                *)
THEOREM WritesAreTheUsers == SurfaceSpec => []WritesAreIntended
<1>1. WritesInv => WritesAreIntended BY DEF WritesInv
<1> QED BY <1>1, WritesInvariant, PTL

(* How far a reload that nobody disturbs has brought the registries. *)
Busy == {"reload", "unregister", "register", "scan", "publish"}

Registered(r) ==
  LET p == reload[r].plugin IN
  /\ \A d \in Defs(p) : (Listable(d) /\ (d.compiles \/ p \in disabled)) =>
       IF p \in disabled THEN tools[d.name] = Entry(p, "stub")
       ELSE IF owners[d.name] = p THEN tools[d.name] = Entry(p, "normal")
       ELSE owners[d.name] # Nobody
  /\ \A u \in held[p] : p \notin disabled => resources[u] = gen[p]
  /\ \A u \in reload[r].uris \ held[p] : resources[u] = 0

Undisturbed(r) == reload[r].pc \in Busy /\ reload[r].alone

Follows(r) ==
  LET me == reload[r] IN
  /\ Quiet(r)
  /\ me.pc # "reload" => me.plugin \in handles \cup disabled
  /\ me.pc = "register" => \A u \in me.uris : resources[u] = 0
  /\ me.pc \in {"scan", "publish"} => Registered(r)
  /\ me.pc = "publish" => me.entries = Entries

Reloads ==
  [pc : Busy \cup {"done"}, plugin : Plugins, names : SUBSET ToolNames,
   uris : SUBSET AllUris, alone : BOOLEAN,
   entries : SUBSET [tool : ToolNames, plugin : Plugins, disabled : BOOLEAN]]

ReloadTypes ==
  /\ reload \in [Reloaders -> {NoReload} \cup Reloads]
  /\ handles \subseteq Plugins /\ disabled \subseteq Plugins
  /\ held \in [Plugins -> SUBSET AllUris] /\ offers \in [Plugins -> SUBSET AllUris]
  /\ inval.pc \in {"idle", "list"} \/ inval.new \subseteq AllUris
  /\ \A r \in Reloaders :
       reload[r].pc \in Busy => reload[r].names = Declared(reload[r].plugin)

ReloadInv == ReloadTypes /\ \A r \in Reloaders : Undisturbed(r) => Follows(r)

LEMMA InitReload == SurfaceInit => ReloadInv
<1> SUFFICES ASSUME SurfaceInit PROVE ReloadInv OBVIOUS
<1>1. \A r \in Reloaders : reload[r] = NoReload /\ reload[r].pc \notin Busy
  BY DEF SurfaceInit, NoReload, Busy
<1>2. offers \in [Plugins -> SUBSET AllUris]
  <2>1. \A p \in Plugins : UrisOf[p] \subseteq AllUris BY DEF AllUris
  <2>2. UrisOf = [p \in Plugins |-> UrisOf[p]] BY UrisAssumption DEF Plugins
  <2>3. offers = UrisOf BY DEF SurfaceInit
  <2> QED BY <2>1, <2>2, <2>3
<1>3. ReloadTypes BY <1>1, <1>2 DEF SurfaceInit, ReloadTypes, NoInval
<1> QED BY <1>1, <1>3 DEF ReloadInv, Undisturbed

(* Whoever disturbs the reloads owes them nothing. *)
LEMMA Disturbed ==
  ASSUME ReloadInv, Disturb, NEW r \in Reloaders
  PROVE  ~Undisturbed(r)'
<1>1. reload[r] = NoReload \/ reload[r] \in Reloads BY DEF ReloadInv, ReloadTypes
<1>2. reload[r].pc \in {"idle", "done"} => reload'[r].pc \notin Busy
  BY DEF Disturb, Busy
<1>3. CASE reload[r].pc \notin {"idle", "done"}
  <2>1. reload[r] \in Reloads BY <1>1, <1>3 DEF NoReload
  <2>2. reload'[r] = [reload[r] EXCEPT !.alone = FALSE] BY <1>3 DEF Disturb
  <2> QED BY <2>1, <2>2 DEF Reloads, Undisturbed
<1> QED BY <1>2, <1>3 DEF Undisturbed

LEMMA DisturbTypes ==
  ASSUME ReloadInv, Disturb, handles' \subseteq Plugins, disabled' \subseteq Plugins,
         held' \in [Plugins -> SUBSET AllUris], offers' \in [Plugins -> SUBSET AllUris],
         inval'.pc \in {"idle", "list"} \/ inval'.new \subseteq AllUris
  PROVE  ReloadInv'
<1>1. ASSUME NEW r \in Reloaders
      PROVE  /\ reload'[r] \in {NoReload} \cup Reloads
             /\ reload'[r].pc \in Busy => reload'[r].names = Declared(reload'[r].plugin)
  <2>1. reload[r] = NoReload \/ reload[r] \in Reloads BY DEF ReloadInv, ReloadTypes
  <2>2. CASE reload[r].pc \in {"idle", "done"}
    BY <2>1, <2>2 DEF Disturb, Busy
  <2>3. CASE reload[r].pc \notin {"idle", "done"}
    <3>1. reload[r] \in Reloads BY <2>1, <2>3 DEF NoReload
    <3>2. reload'[r] = [reload[r] EXCEPT !.alone = FALSE] BY <2>3 DEF Disturb
    <3>3. reload[r].pc \in Busy => reload[r].names = Declared(reload[r].plugin)
      BY DEF ReloadInv, ReloadTypes
    <3> QED BY <3>1, <3>2, <3>3 DEF Reloads
  <2> QED BY <2>2, <2>3
<1>2. reload' \in [Reloaders -> {NoReload} \cup Reloads] BY <1>1 DEF Disturb
<1>3. ReloadTypes' BY <1>1, <1>2 DEF ReloadTypes, Declared, Defs, Plugins
<1> QED BY <1>3, Disturbed DEF ReloadInv

LEMMA OthersReload ==
  ASSUME ReloadInv,
         \/ \E S \in SUBSET (Plugins \ disabled) : StartPending(S)
         \/ SwapStartFailedTools \/ RegisterPluginResources \/ Rebuild
         \/ \E p \in Plugins : Invalidate(p)
         \/ ListResources \/ ApplyResources
  PROVE  ReloadInv'
<1>1. Disturb
  BY DEF StartPending, SwapStartFailedTools, RegisterPluginResources, Rebuild,
         Invalidate, ListResources, ApplyResources
<1>2. /\ handles \subseteq Plugins /\ disabled \subseteq Plugins
      /\ held \in [Plugins -> SUBSET AllUris] /\ offers \in [Plugins -> SUBSET AllUris]
      /\ inval.pc \in {"idle", "list"} \/ inval.new \subseteq AllUris
  BY DEF ReloadInv, ReloadTypes
<1>3. CASE \E S \in SUBSET (Plugins \ disabled) : StartPending(S)
  <2>1. PICK S \in SUBSET (Plugins \ disabled) : StartPending(S) BY <1>3
  <2>2. held' \in [Plugins -> SUBSET AllUris] BY <1>2, <2>1 DEF StartPending
  <2>3. handles' \subseteq Plugins /\ disabled' \subseteq Plugins
        /\ UNCHANGED <<offers, inval>>
    BY <1>2, <2>1 DEF StartPending
  <2> QED BY <1>1, <1>2, <2>2, <2>3, DisturbTypes
<1>4. CASE SwapStartFailedTools \/ RegisterPluginResources \/ Rebuild
  <2>1. UNCHANGED <<handles, disabled, held, offers, inval>>
    BY <1>4 DEF SwapStartFailedTools, RegisterPluginResources, Rebuild, manager
  <2> QED BY <1>1, <1>2, <2>1, DisturbTypes
<1>5. CASE \E p \in Plugins : Invalidate(p)
  <2>1. UNCHANGED <<handles, disabled, held, offers>> /\ inval'.pc = "list"
    BY <1>5 DEF Invalidate, manager
  <2> QED BY <1>1, <1>2, <2>1, DisturbTypes
<1>6. CASE ListResources
  <2>1. UNCHANGED <<handles, disabled, held, offers>> BY <1>6 DEF ListResources, manager
  <2> QED BY <1>1, <1>2, <1>6, <2>1, DisturbTypes DEF ListResources, NoInval
<1>7. CASE ApplyResources
  <2>1. UNCHANGED <<handles, disabled, offers>> /\ inval' = NoInval
    BY <1>7 DEF ApplyResources, manager
  <2>2. inval.new \subseteq AllUris BY <1>2, <1>7 DEF ApplyResources
  <2>3. held' \in [Plugins -> SUBSET AllUris]
    BY <1>2, <1>7, <2>2 DEF ApplyResources
  <2> QED BY <1>1, <1>2, <2>1, <2>3, DisturbTypes DEF NoInval
<1> QED BY <1>3, <1>4, <1>5, <1>6, <1>7

(* A reload's own step: the others wait or are disturbed themselves. *)
LEMMA OwnStep ==
  ASSUME ReloadInv, NEW r \in Reloaders, reload[r].pc \in Busy,
         NEW me \in Reloads, reload' = [reload EXCEPT ![r] = me],
         me.pc \in Busy => me.names = Declared(me.plugin),
         UNCHANGED <<settings, boot, inval, offers>>,
         handles' \subseteq Plugins, disabled' \subseteq Plugins,
         held' \in [Plugins -> SUBSET AllUris],
         Undisturbed(r)' => Follows(r)'
  PROVE  ReloadInv'
<1>1. reload \in [Reloaders -> {NoReload} \cup Reloads] /\ reload'[r] = me
  BY DEF ReloadInv, ReloadTypes
<1>2. ReloadTypes'
  <2>1. reload' \in [Reloaders -> {NoReload} \cup Reloads] BY <1>1
  <2>2. ASSUME NEW o \in Reloaders, reload'[o].pc \in Busy
        PROVE  reload'[o].names = Declared(reload'[o].plugin)
    <3>1. o # r => reload'[o] = reload[o] BY <1>1
    <3> QED BY <1>1, <2>2, <3>1 DEF ReloadInv, ReloadTypes
  <2> QED BY <2>1, <2>2 DEF ReloadInv, ReloadTypes, Declared, Defs, Plugins
<1>3. ASSUME NEW o \in Reloaders, o # r PROVE ~Undisturbed(o)'
  <2>1. ~Undisturbed(o)
    <3>1. reload[r].pc \notin {"idle", "done"} BY DEF Busy
    <3> QED BY <1>3, <3>1 DEF ReloadInv, Follows, Quiet
  <2>2. reload'[o] = reload[o] BY <1>1, <1>3
  <2> QED BY <2>1, <2>2 DEF Undisturbed
<1> QED BY <1>2, <1>3 DEF ReloadInv

LEMMA StepOn ==
  ASSUME ReloadInv, NEW r \in Reloaders, reload[r].pc \in Busy, NEW pc \in Busy \cup {"done"},
         NEW me, me = [reload[r] EXCEPT !.pc = pc]
  PROVE  /\ reload[r] \in Reloads /\ me \in Reloads /\ me.pc = pc
         /\ me.plugin = reload[r].plugin /\ me.names = reload[r].names
         /\ me.uris = reload[r].uris /\ me.alone = reload[r].alone
         /\ me.entries = reload[r].entries
         /\ reload[r].names = Declared(reload[r].plugin)
         /\ me.plugin \in Plugins /\ me.uris \subseteq AllUris
<1>1. reload[r] \in Reloads
  BY DEF ReloadInv, ReloadTypes, NoReload, Busy
<1>2. me \in Reloads /\ me.pc = pc
      /\ me.plugin = reload[r].plugin /\ me.names = reload[r].names
      /\ me.uris = reload[r].uris /\ me.alone = reload[r].alone
      /\ me.entries = reload[r].entries
      /\ me.plugin \in Plugins /\ me.uris \subseteq AllUris
  BY <1>1 DEF Reloads
<1>3. reload[r].names = Declared(reload[r].plugin) BY DEF ReloadInv, ReloadTypes
<1> QED BY <1>1, <1>2, <1>3

(* It stays alone. *)
LEMMA StillQuiet ==
  ASSUME NEW r \in Reloaders, ReloadInv, NEW me,
         reload' = [reload EXCEPT ![r] = me], UNCHANGED <<boot, inval>>, Quiet(r)
  PROVE  Quiet(r)'
<1>1. \A o \in Reloaders \ {r} : reload'[o] = reload[o] BY DEF ReloadInv, ReloadTypes
<1> QED BY <1>1 DEF Quiet

LEMMA CollectReload ==
  ASSUME ReloadInv, NEW r \in Reloaders, NEW p \in Plugins, Collect(r, p)
  PROVE  ReloadInv'
<1> DEFINE quiet == Quiet(r)
           uris == IF p \in handles THEN held[p] ELSE {}
           me == [pc |-> "reload", plugin |-> p, names |-> Declared(p),
                  uris |-> uris, entries |-> {}, alone |-> quiet]
<1>1. quiet \in BOOLEAN BY DEF Quiet
<1>2. uris \subseteq AllUris BY DEF ReloadInv, ReloadTypes
<1>3. Declared(p) \subseteq ToolNames BY DEF ToolNames
<1>4. reload' = [o \in Reloaders |->
        IF o = r THEN me
        ELSE IF reload[o].pc \in {"idle", "done"} THEN reload[o]
        ELSE [reload[o] EXCEPT !.alone = FALSE]]
      /\ UNCHANGED <<settings, handles, disabled, gen, offers, held, boot, inval>>
  BY DEF Collect, manager
<1>5. quiet => Quiet(r)
  OBVIOUS
<1> HIDE DEF quiet, uris
<1>6. me \in Reloads /\ me.pc = "reload" /\ me.names = Declared(me.plugin)
  BY <1>1, <1>2, <1>3 DEF Reloads, Busy
<1>7. me.alone = quiet OBVIOUS
<1> HIDE DEF me
<1>8. reload'[r] = me BY <1>4
<1>9. ASSUME NEW o \in Reloaders, o # r
      PROVE  /\ reload'[o] \in {NoReload} \cup Reloads
             /\ reload'[o].pc \in Busy => reload'[o].names = Declared(reload'[o].plugin)
             /\ ~Undisturbed(o)'
             /\ reload[o].pc \in {"idle", "done"} => reload'[o] = reload[o]
  <2>1. reload[o] = NoReload \/ reload[o] \in Reloads BY DEF ReloadInv, ReloadTypes
  <2>2. CASE reload[o].pc \in {"idle", "done"}
    BY <1>4, <1>9, <2>1, <2>2 DEF Busy, Undisturbed
  <2>3. CASE reload[o].pc \notin {"idle", "done"}
    <3>1. reload[o] \in Reloads BY <2>1, <2>3 DEF NoReload
    <3>2. reload'[o] = [reload[o] EXCEPT !.alone = FALSE] BY <1>4, <1>9, <2>3
    <3>3. reload[o].pc \in Busy => reload[o].names = Declared(reload[o].plugin)
      BY DEF ReloadInv, ReloadTypes
    <3> QED BY <2>3, <3>1, <3>2, <3>3 DEF Reloads, Undisturbed
  <2> QED BY <2>2, <2>3
<1>10. ReloadTypes'
  <2>1. reload' \in [Reloaders -> {NoReload} \cup Reloads]
    BY <1>4, <1>6, <1>8, <1>9
  <2>2. \A o \in Reloaders :
          reload'[o].pc \in Busy => reload'[o].names = Declared(reload'[o].plugin)
    BY <1>6, <1>8, <1>9
  <2> QED BY <1>4, <2>1, <2>2 DEF ReloadInv, ReloadTypes, Declared, Defs, Plugins
<1>11. ASSUME me.alone PROVE Follows(r)'
  <2>1. Quiet(r) BY <1>5, <1>7, <1>11
  <2>2. Quiet(r)' BY <1>4, <1>9, <2>1 DEF Quiet
  <2> QED BY <1>6, <1>8, <2>2 DEF Follows
<1> QED BY <1>8, <1>9, <1>10, <1>11 DEF ReloadInv, Undisturbed

LEMMA ManagerReload ==
  ASSUME ReloadInv, NEW r \in Reloaders,
         ManagerReloads(r) \/ \E t \in BOOLEAN : ManagerFails(r, t)
  PROVE  ReloadInv'
<1>1. reload[r].pc = "reload" /\ reload[r].pc \in Busy
  BY DEF ManagerReloads, ManagerFails, Reloading, Busy
<1>2. handles \subseteq Plugins /\ disabled \subseteq Plugins
      /\ held \in [Plugins -> SUBSET AllUris] /\ offers \in [Plugins -> SUBSET AllUris]
  BY DEF ReloadInv, ReloadTypes
<1>3. CASE ManagerReloads(r)
  <2> DEFINE p == reload[r].plugin
  <2>1. PICK me : me = [reload[r] EXCEPT !.pc = "unregister"] OBVIOUS
  <2>2. reload[r] \in Reloads /\ me \in Reloads /\ me.pc = "unregister" /\ me.plugin = p
        /\ me.names = Declared(me.plugin) /\ me.alone = reload[r].alone /\ p \in Plugins
    BY <1>1, <2>1, StepOn DEF Busy
  <2>3. reload' = [reload EXCEPT ![r] = me] /\ UNCHANGED <<settings, boot, inval, offers>>
        /\ handles' = handles \cup {p} /\ disabled' \subseteq disabled
        /\ held' = [held EXCEPT ![p] = offers[p]]
    BY <1>3, <2>1 DEF ManagerReloads, Proceed
  <2>4. reload'[r] = me BY <2>3 DEF ReloadInv, ReloadTypes
  <2>5. ASSUME Undisturbed(r)' PROVE Follows(r)'
    <3>1. Quiet(r) BY <1>1, <2>2, <2>4, <2>5 DEF ReloadInv, Undisturbed, Follows
    <3>2. Quiet(r)' BY <2>3, <3>1, StillQuiet
    <3> QED BY <2>2, <2>3, <2>4, <3>2 DEF Follows
  <2>6. held' \in [Plugins -> SUBSET AllUris] BY <1>2, <2>2, <2>3
  <2>7. handles' \subseteq Plugins /\ disabled' \subseteq Plugins BY <1>2, <2>2, <2>3
  <2> QED BY <1>1, <2>2, <2>3, <2>5, <2>6, <2>7, OwnStep
<1>4. CASE \E t \in BOOLEAN : ManagerFails(r, t)
  <2> DEFINE p == reload[r].plugin
  <2>1. PICK me : me = [reload[r] EXCEPT !.pc = "done"] OBVIOUS
  <2>2. me \in Reloads /\ me.pc = "done" /\ p \in Plugins /\ me.plugin = p
    BY <1>1, <2>1, StepOn
  <2>3. reload' = [reload EXCEPT ![r] = me]
        /\ UNCHANGED <<settings, boot, inval, offers, held>>
        /\ handles' \subseteq handles /\ disabled' \subseteq disabled \cup {p}
    BY <1>4, <2>1 DEF ManagerFails, Proceed
  <2>4. reload'[r] = me BY <2>3 DEF ReloadInv, ReloadTypes
  <2>5. ~Undisturbed(r)' BY <2>2, <2>4 DEF Undisturbed, Busy
  <2>6. held' \in [Plugins -> SUBSET AllUris] BY <1>2, <2>3
  <2>7. handles' \subseteq Plugins /\ disabled' \subseteq Plugins BY <1>2, <2>2, <2>3
  <2> QED BY <1>1, <2>2, <2>3, <2>5, <2>6, <2>7, OwnStep DEF Busy
<1> QED BY <1>3, <1>4

(* A step of a reload that leaves the manager and the resource lists. *)
LEMMA RegistryStep ==
  ASSUME ReloadInv, NEW r \in Reloaders, reload[r].pc \in Busy,
         NEW me, me \in Reloads, reload' = [reload EXCEPT ![r] = me],
         me.plugin = reload[r].plugin, me.alone = reload[r].alone,
         me.names = reload[r].names, me.uris = reload[r].uris,
         UNCHANGED <<settings, boot, inval, handles, disabled, gen, held, offers>>,
         (/\ me.alone /\ me.pc \in Busy /\ Follows(r)) =>
           /\ me.pc # "reload" => me.plugin \in handles \cup disabled
           /\ me.pc = "register" => \A u \in me.uris : resources'[u] = 0
           /\ me.pc \in {"scan", "publish"} => Registered(r)'
           /\ me.pc = "publish" => me.entries = Entries
  PROVE  ReloadInv'
<1>1. reload'[r] = me BY DEF ReloadInv, ReloadTypes
<1>2. me.pc \in Busy => me.names = Declared(me.plugin) BY DEF ReloadInv, ReloadTypes
<1>3. Entries' = Entries BY DEF Entries, ToolNames, Declared, Defs, Plugins
<1>4. ASSUME Undisturbed(r)' PROVE Follows(r)'
  <2>1. me.alone /\ me.pc \in Busy BY <1>1, <1>4 DEF Undisturbed
  <2>2. Follows(r) BY <2>1 DEF ReloadInv, Undisturbed
  <2>3. Quiet(r)' BY <2>2, StillQuiet DEF Follows
  <2> QED BY <1>1, <1>3, <2>1, <2>2, <2>3 DEF Follows
<1>5. /\ handles' \subseteq Plugins /\ disabled' \subseteq Plugins
      /\ held' \in [Plugins -> SUBSET AllUris]
  BY DEF ReloadInv, ReloadTypes
<1> QED BY <1>2, <1>4, <1>5, OwnStep

LEMMA UnregisterReload ==
  ASSUME ReloadInv, NEW r \in Reloaders, Unregister(r)
  PROVE  ReloadInv'
<1>1. reload[r].pc = "unregister" /\ reload[r].pc \in Busy
  BY DEF Unregister, Reloading, Busy
<1>2. PICK me : me = [reload[r] EXCEPT !.pc = "register"] OBVIOUS
<1>3. /\ me \in Reloads /\ me.pc = "register" /\ me.plugin = reload[r].plugin
      /\ me.names = reload[r].names /\ me.uris = reload[r].uris
      /\ me.alone = reload[r].alone /\ me.uris \subseteq AllUris
  BY <1>1, <1>2, StepOn DEF Busy
<1>4. /\ reload' = [reload EXCEPT ![r] = me]
      /\ resources' = WithoutResources(resources, me.uris)
      /\ UNCHANGED <<settings, boot, inval, handles, disabled, gen, held, offers>>
  BY <1>2, <1>3 DEF Unregister, Proceed, OldUris, manager
<1>5. \A u \in me.uris : resources'[u] = 0
  BY <1>3, <1>4 DEF WithoutResources, WithResources
<1>6. Follows(r) => me.plugin \in handles \cup disabled BY <1>1, <1>3 DEF Follows
<1> QED BY <1>1, <1>3, <1>4, <1>5, <1>6, RegistryStep

LEMMA RegisterReload ==
  ASSUME ReloadInv, NEW r \in Reloaders, Register(r)
  PROVE  ReloadInv'
<1> DEFINE p == reload[r].plugin
<1>1. reload[r].pc = "register" /\ reload[r].pc \in Busy
  BY DEF Register, Reloading, Busy
<1>2. PICK me : me = [reload[r] EXCEPT !.pc = "scan"] OBVIOUS
<1>3. /\ me \in Reloads /\ me.pc = "scan" /\ me.plugin = p
      /\ me.names = reload[r].names /\ me.uris = reload[r].uris
      /\ me.alone = reload[r].alone /\ me.uris \subseteq AllUris /\ p \in Plugins
  BY <1>1, <1>2, StepOn DEF Busy
<1>4. /\ reload' = [reload EXCEPT ![r] = me]
      /\ UNCHANGED <<settings, boot, inval, handles, disabled, gen, held, offers>>
  BY <1>2 DEF Register, Proceed, manager
<1>5. reload'[r] = me BY <1>4 DEF ReloadInv, ReloadTypes
<1>6. \A d \in Defs(p) : d.name \in ToolNames BY <1>3 DEF ToolNames, Declared
<1>7. held[p] \subseteq AllUris BY <1>3 DEF ReloadInv, ReloadTypes
<1>8. ASSUME Follows(r) PROVE Registered(r)' /\ p \in handles \cup disabled
  <2>1. p \in handles \cup disabled /\ \A u \in me.uris : resources[u] = 0
    BY <1>1, <1>3, <1>8 DEF Follows
  <2>2. CASE p \in disabled
    <3>1. tools' = WithStubs(tools, p) /\ resources' = resources
      BY <2>2 DEF Register
    <3>2. ASSUME NEW d \in Defs(p), Listable(d) PROVE tools'[d.name] = Entry(p, "stub")
      <4>1. d.name \in StubNames(p) BY <3>2 DEF StubNames
      <4> QED BY <1>6, <3>1, <3>2, <4>1 DEF WithStubs
    <3>3. \A d \in Defs(p) : Listable(d)' <=> Listable(d) BY <1>4 DEF Listable
    <3> QED BY <1>3, <1>4, <1>5, <2>1, <2>2, <3>1, <3>2, <3>3 DEF Registered, Defs
  <2>3. CASE p \notin disabled
    <3>1. /\ tools' = WithTools(tools, owners, p) /\ owners' = WithOwner(owners, p)
          /\ resources' = WithResources(resources, held[p], gen[p])
      BY <2>1, <2>3 DEF Register
    <3>2. ASSUME NEW d \in Defs(p), Listable(d), d.compiles
          PROVE  IF owners'[d.name] = p THEN tools'[d.name] = Entry(p, "normal")
                 ELSE owners'[d.name] # Nobody
      <4>1. CASE owners[d.name] \in {Nobody, p}
        <5>1. d.name \in Registrable(p, owners) BY <3>2, <4>1 DEF Registrable
        <5> QED BY <1>6, <3>1, <3>2, <5>1 DEF WithTools, WithOwner
      <4>2. CASE owners[d.name] \notin {Nobody, p}
        <5>1. d.name \notin Registrable(p, owners) BY <4>2 DEF Registrable
        <5>2. owners'[d.name] = owners[d.name] BY <1>6, <3>1, <3>2, <5>1 DEF WithOwner
        <5> QED BY <4>2, <5>2
      <4> QED BY <4>1, <4>2
    <3>3. \A d \in Defs(p) : Listable(d)' <=> Listable(d) BY <1>4 DEF Listable
    <3>4. \A u \in held[p] : resources'[u] = gen[p] BY <1>7, <3>1 DEF WithResources
    <3>5. \A u \in me.uris \ held[p] : resources'[u] = 0
      BY <1>3, <2>1, <3>1 DEF WithResources
    <3>6. \A d \in Defs(p) : (Listable(d)' /\ d.compiles) =>
             IF owners'[d.name] = p THEN tools'[d.name] = Entry(p, "normal")
             ELSE owners'[d.name] # Nobody
      BY <3>2, <3>3
    <3>7. reload'[r].plugin = p /\ reload'[r].uris = me.uris /\ p \notin disabled'
          /\ held' = held /\ gen' = gen
      BY <1>3, <1>4, <1>5, <2>3
    <3>8. Registered(r)' BY <3>4, <3>5, <3>6, <3>7 DEF Registered, Defs
    <3> QED BY <2>1, <3>8
  <2> QED BY <2>1, <2>2, <2>3
<1> QED BY <1>1, <1>3, <1>4, <1>8, RegistryStep

LEMMA ScanReload ==
  ASSUME ReloadInv, NEW r \in Reloaders, DeleteAndScan(r)
  PROVE  ReloadInv'
<1> DEFINE p == reload[r].plugin
<1>1. reload[r].pc = "scan" /\ reload[r].pc \in Busy /\ reload[r] \in Reloads
  BY DEF DeleteAndScan, Reloading, Busy, ReloadInv, ReloadTypes, NoReload
<1>2. PICK me : me = [reload[r] EXCEPT !.pc = "publish", !.entries = Entries] OBVIOUS
<1>3. Entries \in SUBSET [tool : ToolNames, plugin : Plugins, disabled : BOOLEAN]
  <2>1. handles \cup disabled \subseteq Plugins BY DEF ReloadInv, ReloadTypes
  <2> QED BY <2>1 DEF Entries
<1>4. /\ me \in Reloads /\ me.pc = "publish" /\ me.plugin = p
      /\ me.names = reload[r].names /\ me.uris = reload[r].uris
      /\ me.alone = reload[r].alone /\ me.entries = Entries
      /\ p \in Plugins /\ me.names = Declared(p)
  <2>1. "publish" \in Busy BY DEF Busy
  <2> QED BY <1>1, <1>2, <1>3, <2>1 DEF Reloads, ReloadInv, ReloadTypes
<1>5. /\ reload' = [reload EXCEPT ![r] = me]
      /\ tools' = WithoutTools(tools, {})
      /\ UNCHANGED <<settings, boot, inval, handles, disabled, gen, held, offers,
                     owners, resources>>
  <2>1. reload' = [reload EXCEPT ![r].pc = "publish", ![r].entries = Entries]
    BY DEF DeleteAndScan
  <2>2. reload' = [reload EXCEPT ![r] = me]
    BY <1>2, <2>1 DEF ReloadInv, ReloadTypes
  <2> QED BY <1>4, <2>2 DEF DeleteAndScan, manager
<1>6. reload'[r] = me BY <1>5 DEF ReloadInv, ReloadTypes
<1>7. \A d \in Defs(p) : d.name \in ToolNames BY <1>4 DEF ToolNames, Declared
<1>8. ASSUME Follows(r) PROVE Registered(r)' /\ p \in handles \cup disabled
  <2>1. Registered(r) /\ p \in handles \cup disabled BY <1>1, <1>8 DEF Follows
  <2>2. \A d \in Defs(p) : tools'[d.name] = tools[d.name]
    BY <1>5, <1>7 DEF WithoutTools
  <2>3. \A d \in Defs(p) : Listable(d)' <=> Listable(d) BY <1>5 DEF Listable
  <2> QED BY <1>4, <1>5, <1>6, <2>1, <2>2, <2>3 DEF Registered, Defs
<1> QED BY <1>1, <1>4, <1>5, <1>8, RegistryStep

LEMMA PublishReload ==
  ASSUME ReloadInv, NEW r \in Reloaders, Publish(r)
  PROVE  ReloadInv'
<1>1. reload[r].pc = "publish" /\ reload[r].pc \in Busy
  BY DEF Publish, Reloading, Busy
<1>2. PICK me : me = [reload[r] EXCEPT !.pc = "done"] OBVIOUS
<1>3. /\ me \in Reloads /\ me.pc = "done" /\ me.plugin = reload[r].plugin
      /\ me.names = reload[r].names /\ me.uris = reload[r].uris
      /\ me.alone = reload[r].alone
  BY <1>1, <1>2, StepOn
<1>4. /\ reload' = [reload EXCEPT ![r] = me]
      /\ UNCHANGED <<settings, boot, inval, handles, disabled, gen, held, offers>>
  BY <1>2 DEF Publish, Proceed, manager
<1>5. me.pc \notin Busy BY <1>3 DEF Busy
<1> QED BY <1>1, <1>3, <1>4, <1>5, RegistryStep

LEMMA NextReload == ReloadInv /\ [SurfaceNext]_surfaceVars => ReloadInv'
<1> SUFFICES ASSUME ReloadInv, [SurfaceNext]_surfaceVars PROVE ReloadInv' OBVIOUS
<1>1. ASSUME UNCHANGED <<settings, handles, disabled, gen, held, tools, owners, index,
                         resources, boot, reload, inval>>,
             offers' \in [Plugins -> SUBSET AllUris]
      PROVE  ReloadInv'
  <2>1. ReloadTypes' BY <1>1 DEF ReloadInv, ReloadTypes, Declared, Defs, Plugins
  <2>2. Entries' = Entries BY <1>1 DEF Entries, ToolNames, Declared, Defs, Plugins
  <2>3. ASSUME NEW r \in Reloaders, Undisturbed(r)' PROVE Follows(r)'
    <3>1. Follows(r) BY <1>1, <2>3 DEF ReloadInv, Undisturbed
    <3>2. Quiet(r)' <=> Quiet(r) BY <1>1 DEF Quiet
    <3>3. Registered(r)' <=> Registered(r)
      BY <1>1 DEF Registered, Listable, Defs
    <3> QED BY <1>1, <2>2, <3>1, <3>2, <3>3 DEF Follows
  <2> QED BY <2>1, <2>3 DEF ReloadInv
<1>2. offers \in [Plugins -> SUBSET AllUris] BY DEF ReloadInv, ReloadTypes
<1>3. CASE UNCHANGED surfaceVars BY <1>1, <1>2, <1>3 DEF surfaceVars
<1>4. CASE \/ \E n \in ToolNames, p \in Plugins, dry \in BOOLEAN : HandleToolCall(n, p, dry)
           \/ \E a \in {"accept", "declined", "error", "unsupported"} : Elicit(a)
  <2>1. UNCHANGED <<settings, handles, disabled, gen, held, tools, owners, index,
                    resources, boot, reload, inval, offers>>
    BY <1>4 DEF HandleToolCall, Elicit, manager, registries
  <2> QED BY <1>1, <1>2, <2>1
<1>5. CASE \E p \in Plugins : \E uris \in SUBSET UrisOf[p] : OffersChange(p, uris)
  <2>1. PICK p \in Plugins : \E uris \in SUBSET UrisOf[p] : OffersChange(p, uris) BY <1>5
  <2>2. PICK uris \in SUBSET UrisOf[p] : OffersChange(p, uris) BY <2>1
  <2>3. uris \subseteq AllUris BY DEF AllUris
  <2>4. offers' \in [Plugins -> SUBSET AllUris] BY <1>2, <2>2, <2>3 DEF OffersChange
  <2>5. UNCHANGED <<settings, handles, disabled, gen, held, tools, owners, index,
                    resources, boot, reload, inval>>
    BY <2>2 DEF OffersChange, registries, actors
  <2> QED BY <1>1, <2>4, <2>5
<1>6. CASE \/ \E S \in SUBSET (Plugins \ disabled) : StartPending(S)
           \/ SwapStartFailedTools \/ RegisterPluginResources \/ Rebuild
           \/ \E p \in Plugins : Invalidate(p)
           \/ ListResources \/ ApplyResources
  BY <1>6, OthersReload
<1>7. CASE \E r \in Reloaders : ReloadStep(r)
  BY <1>7, CollectReload, ManagerReload, UnregisterReload, RegisterReload, ScanReload,
     PublishReload DEF ReloadStep
<1> QED BY <1>3, <1>4, <1>5, <1>6, <1>7 DEF SurfaceNext

(* The inductive invariant behind ReloadRefreshes: how far an undisturbed  *)
(* reload has brought the registries.                                      *)
THEOREM ReloadInvariant == SurfaceSpec => []ReloadInv
<1> QED BY InitReload, NextReload, PTL DEF SurfaceSpec

(* Only Publish ends a reload that was about to publish. *)
LEMMA OnlyPublish ==
  ASSUME ReloadInv, SurfaceNext, NEW r \in Reloaders, reload[r].pc = "publish",
         reload'[r].pc = "done"
  PROVE  Publish(r)
<1>1. reload \in [Reloaders -> {NoReload} \cup Reloads] BY DEF ReloadInv, ReloadTypes
<1>2. reload[r] \in Reloads BY <1>1 DEF NoReload
<1>3. CASE Disturb
  <2>1. reload'[r] = [reload[r] EXCEPT !.alone = FALSE] BY <1>3 DEF Disturb
  <2> QED BY <1>2, <2>1 DEF Reloads
<1>4. CASE reload' = reload BY <1>4
<1>5. ASSUME NEW o \in Reloaders, ReloadStep(o), o # r PROVE FALSE
  <2>1. CASE \E p \in Plugins : Collect(o, p)
    <3>1. reload'[r] = [reload[r] EXCEPT !.alone = FALSE] BY <1>5, <2>1 DEF Collect
    <3> QED BY <1>2, <3>1 DEF Reloads
  <2>2. CASE DeleteAndScan(o)
    BY <1>1, <1>5, <2>2 DEF DeleteAndScan
  <2>3. CASE \/ ManagerReloads(o) \/ \E t \in BOOLEAN : ManagerFails(o, t)
             \/ Unregister(o) \/ Register(o) \/ Publish(o)
    <3>1. PICK pc : Proceed(o, pc)
      BY <2>3 DEF ManagerReloads, ManagerFails, Unregister, Register, Publish
    <3> QED BY <1>1, <1>5, <3>1 DEF Proceed
  <2> QED BY <1>5, <2>1, <2>2, <2>3 DEF ReloadStep
<1>6. ASSUME ReloadStep(r) PROVE Publish(r)
  BY <1>6 DEF ReloadStep, Collect, ManagerReloads, ManagerFails, Unregister, Register,
              DeleteAndScan, Reloading
<1>7. \/ Disturb \/ reload' = reload \/ \E o \in Reloaders : ReloadStep(o)
  BY DEF SurfaceNext, StartPending, SwapStartFailedTools, RegisterPluginResources,
         Rebuild, Invalidate, ListResources, ApplyResources, HandleToolCall, Elicit,
         OffersChange, actors
<1> QED BY <1>3, <1>4, <1>5, <1>6, <1>7

(* A reload that nobody disturbs brings tools, owners, index and resources *)
(* to where the manager is (ReloadPlugin).                                 *)
THEOREM ReloadsRefresh == SurfaceSpec => ReloadRefreshes
<1>1. ReloadInv /\ [SurfaceNext]_surfaceVars =>
        [\A r \in Reloaders :
           (Reloading(r, "publish") /\ reload[r].alone /\ Reloading(r, "done")')
             => Refreshed(r)']_surfaceVars
  <2> SUFFICES ASSUME ReloadInv, SurfaceNext, NEW r \in Reloaders,
                      reload[r].pc = "publish", reload[r].alone, reload'[r].pc = "done"
               PROVE  Refreshed(r)'
    BY DEF Reloading, surfaceVars
  <2>1. Publish(r) BY OnlyPublish
  <2>2. Follows(r) BY DEF ReloadInv, Undisturbed, Busy
  <2>3. reload'[r].plugin = reload[r].plugin /\ reload'[r].uris = reload[r].uris
    <3>1. reload[r] \in Reloads BY DEF ReloadInv, ReloadTypes, NoReload
    <3>2. reload'[r] = [reload[r] EXCEPT !.pc = "done"]
      BY <2>1 DEF Publish, Proceed, ReloadInv, ReloadTypes
    <3> QED BY <3>1, <3>2 DEF Reloads
  <2>4. UNCHANGED <<settings, handles, disabled, gen, held, tools, owners, resources>>
        /\ index' = Entries
    BY <2>1, <2>2 DEF Publish, Follows, manager
  <2>5. Entries' = Entries BY <2>4 DEF Entries, ToolNames, Declared, Defs, Plugins
  <2>6. Registered(r)' BY <2>2, <2>3, <2>4 DEF Follows, Registered, Listable, Defs
  <2> QED BY <2>4, <2>5, <2>6 DEF Refreshed, Registered
<1> QED BY <1>1, ReloadInvariant, PTL DEF SurfaceSpec, ReloadRefreshes

----------------------------------------------------------------------------
(* PluginSdk *)

RequestKinds == {"init", "tool", "unknown", "list", "read", "shutdown"}
Requests ==
  [kind : RequestKinds,
   st : {"sent", "draining", "failed", "closing", "ok", "error"}]

(* The requests the plugin may be working for: a oneshot process has its   *)
(* call and no other.                                                      *)
Known(r) == r \in DOMAIN requests /\ (oneshot /\ ~eof => r = callMu)
Works(r) == Known(r) /\ requests[r].kind # "unknown"
CallIDOf(r) == IF requests[r].kind = "tool" THEN r ELSE 0

ToPlugin ==
  {m \in [type : {"request", "response"}, n : Nat] : m.type = "request" => Known(m.n)}
Services ==
  {m \in [type : {"service"}, n : Nat, parent : Nat, for : Nat] :
     Works(m.for) /\ m.parent = CallIDOf(m.for)}
Results == {m \in [type : {"result"}, n : Nat, ok : BOOLEAN] : m.n \in DOMAIN requests}
Process ==
  {s \in [pc : {"recv", "run", "wait"}, cur : Nat, callID : Nat, wid : Nat] :
     IF s.pc = "recv" THEN s.callID = 0
     ELSE Works(s.cur) /\ s.callID = CallIDOf(s.cur)}

(* A oneshot process gets calls, and none of them drains. *)
OnlyCalls ==
  oneshot => \A r \in DOMAIN requests : IsCall(r) /\ requests[r].st # "draining"

SdkInv ==
  /\ oneshot \in BOOLEAN /\ eof \in BOOLEAN /\ sent \in Nat /\ serving.n \in Nat
  /\ requests \in Seq(Requests) /\ OnlyCalls
  /\ stdin \in Seq(ToPlugin) /\ stdout \in Seq(Services \cup Results)
  /\ sdk \in {Down} \cup Process
  /\ handled = NoService \/ handled.for \in DOMAIN requests
  /\ ServedInContext

LEMMA LargerSet ==
  ASSUME NEW S, NEW T, S \subseteq T, NEW s \in Seq(S)
  PROVE  s \in Seq(T)
OBVIOUS

LEMMA Remains ==
  ASSUME NEW S, NEW s \in Seq(S), NEW t, t = <<>> \/ t = s \/ (s # <<>> /\ t = Tail(s))
  PROVE  t \in Seq(S)
<1>1. <<>> \in Seq(S) OBVIOUS
<1>2. s # <<>> => Tail(s) \in Seq(S) OBVIOUS
<1> QED BY <1>1, <1>2

LEMMA Listed ==
  ASSUME NEW S, NEW n \in Nat, NEW f, f \in [1..n -> S]
  PROVE  f \in Seq(S)
OBVIOUS

LEMMA InitSdk == SdkInit => SdkInv
<1> SUFFICES ASSUME SdkInit PROVE SdkInv OBVIOUS
<1>1. requests \in Seq(Requests) /\ OnlyCalls
  <2>1. [kind |-> "init", st |-> "sent"] \in Requests BY DEF Requests, RequestKinds
  <2>2. requests = IF oneshot THEN <<>> ELSE <<[kind |-> "init", st |-> "sent"]>>
    BY DEF SdkInit
  <2>3. oneshot => DOMAIN requests = {} BY <2>2
  <2> QED BY <2>1, <2>2, <2>3 DEF OnlyCalls
<1>2. ~oneshot => 1 \in DOMAIN requests BY DEF SdkInit
<1>3. stdin \in Seq(ToPlugin)
  <2>1. ~oneshot => RequestMsg(1) \in ToPlugin BY <1>2 DEF ToPlugin, RequestMsg, Known
  <2> QED BY <2>1 DEF SdkInit
<1>4. sdk \in {Down} \cup Process BY DEF SdkInit, Down, Waiting, Process
<1>5. ServedInContext BY DEF SdkInit, ServedInContext
<1>6. stdout \in Seq(Services \cup Results) /\ handled = NoService BY DEF SdkInit
<1>7. oneshot \in BOOLEAN /\ eof \in BOOLEAN /\ sent \in Nat /\ serving.n \in Nat
  BY DEF SdkInit, NoService
<1> QED BY <1>1, <1>3, <1>4, <1>5, <1>6, <1>7 DEF SdkInv

(* Requests are added and move on; those that are known stay so. *)
Keeps ==
  /\ oneshot' = oneshot /\ DOMAIN requests \subseteq DOMAIN requests'
  /\ \A r \in DOMAIN requests : requests'[r].kind = requests[r].kind
  /\ \A r \in DOMAIN requests : Known(r) => Known(r)'

LEMMA KeptSets ==
  ASSUME Keeps
  PROVE  /\ ToPlugin \subseteq ToPlugin' /\ Services \subseteq Services'
         /\ Results \subseteq Results' /\ Process \subseteq Process'
<1>1. \A r : Known(r) => Known(r)' /\ requests'[r].kind = requests[r].kind
  BY DEF Keeps, Known
<1>2. \A r : Works(r) => Works(r)' /\ CallIDOf(r)' = CallIDOf(r)
  BY <1>1 DEF Works, CallIDOf
<1> QED BY <1>1, <1>2 DEF ToPlugin, Services, Results, Process, Keeps

(* A step leaves the invariant if the messages and the process are fine    *)
(* for the new requests.                                                   *)
LEMMA SdkStep ==
  ASSUME SdkInv, Keeps, eof' \in BOOLEAN, sent' \in Nat, serving'.n \in Nat,
         requests' \in Seq(Requests), OnlyCalls', handled' = handled,
         stdin' \in Seq(ToPlugin'), stdout' \in Seq((Services \cup Results)'),
         sdk' \in {Down} \cup Process'
  PROVE  SdkInv'
<1>1. handled' = NoService \/ handled'.for \in DOMAIN requests' BY DEF SdkInv, Keeps
<1>2. ServedInContext'
  BY DEF SdkInv, Keeps, ServedInContext, IsCall
<1> QED BY <1>1, <1>2 DEF SdkInv, Keeps

LEMMA StatusOnly ==
  ASSUME SdkInv, NEW f, f \in Seq(Requests), requests' = f,
         DOMAIN f = DOMAIN requests,
         \A r \in DOMAIN requests : f[r].kind = requests[r].kind,
         oneshot' = oneshot, ~eof /\ oneshot => eof' \/ callMu' = callMu,
         eof => eof'
  PROVE  Keeps
BY DEF Keeps, Known, SdkInv

LEMMA BecomeFacts ==
  ASSUME SdkInv, NEW r \in DOMAIN requests,
         NEW st \in {"sent", "draining", "failed", "closing", "ok", "error"}
  PROVE  /\ Become(r, st) \in Seq(Requests) /\ DOMAIN Become(r, st) = DOMAIN requests
         /\ \A q \in DOMAIN requests : Become(r, st)[q].kind = requests[q].kind
         /\ \A q \in DOMAIN requests : Become(r, st)[q].st \in {requests[q].st, st}
<1>1. requests \in Seq(Requests) BY DEF SdkInv
<1>2. [requests[r] EXCEPT !.st = st] \in Requests
  <2>1. requests[r] \in Requests BY <1>1
  <2> QED BY <2>1 DEF Requests
<1>3. Become(r, st) = [requests EXCEPT ![r] = [requests[r] EXCEPT !.st = st]]
  BY DEF Become
<1>4. [requests[r] EXCEPT !.st = st].kind = requests[r].kind
      /\ [requests[r] EXCEPT !.st = st].st = st
  <2>1. requests[r] \in Requests BY <1>1
  <2> QED BY <2>1 DEF Requests
<1> DEFINE new == [requests[r] EXCEPT !.st = st]
<1> HIDE DEF new
<1> QED BY <1>1, <1>2, <1>3, <1>4 DEF new

(* A request is sent. *)
LEMMA Sends ==
  ASSUME SdkInv, NEW kind \in RequestKinds, SendRequest(kind),
         oneshot => kind \in {"tool", "unknown"} /\ callMu = 0,
         ~oneshot \/ callMu' = Len(requests) + 1,
         sdk' = sdk \/ sdk' = Waiting(0)
  PROVE  SdkInv'
<1> DEFINE n == Len(requests) + 1
           q == [kind |-> kind, st |-> "sent"]
<1>1. requests \in Seq(Requests) /\ q \in Requests /\ n \in Nat
  BY DEF SdkInv, Requests
<1>2. requests' = Append(requests, q) /\ ~eof
      /\ stdin' = Append(stdin, RequestMsg(n))
      /\ UNCHANGED <<oneshot, eof, stdout, serving, sent, handled>>
  BY DEF SendRequest
<1>3. q.kind = kind /\ q.st = "sent" OBVIOUS
<1> HIDE DEF q
<1>4. /\ requests' \in Seq(Requests) /\ DOMAIN requests \subseteq DOMAIN requests'
      /\ \A r \in DOMAIN requests : requests'[r] = requests[r]
      /\ DOMAIN requests' = DOMAIN requests \cup {n} /\ requests'[n] = q
      /\ 0 \notin DOMAIN requests
  BY <1>1, <1>2
<1>5. \A r \in DOMAIN requests : Known(r) => Known(r)'
  BY <1>2, <1>4 DEF Known
<1>6. Keeps BY <1>2, <1>4, <1>5 DEF Keeps
<1>7. OnlyCalls'
  BY <1>2, <1>3, <1>4 DEF SdkInv, OnlyCalls, IsCall
<1>8. stdin' \in Seq(ToPlugin')
  <2>1. stdin \in Seq(ToPlugin') BY <1>6, KeptSets, LargerSet DEF SdkInv
  <2>2. RequestMsg(n) \in ToPlugin'
    BY <1>1, <1>2, <1>4 DEF ToPlugin, RequestMsg, Known
  <2> QED BY <1>2, <2>1, <2>2
<1>9. stdout' \in Seq((Services \cup Results)')
  BY <1>2, <1>6, KeptSets, LargerSet DEF SdkInv
<1>10. sdk' \in {Down} \cup Process'
  <2>1. Waiting(0) \in Process' BY DEF Waiting, Process
  <2> QED BY <1>6, <2>1, KeptSets DEF SdkInv
<1> QED BY <1>2, <1>4, <1>6, <1>7, <1>8, <1>9, <1>10, SdkStep DEF SdkInv

LEMMA CallsSdk ==
  ASSUME SdkInv,
         \/ \E k \in {"tool", "unknown"} : CallTool(k) \/ CallOneshot(k)
         \/ \E k \in SdkKinds : Query(k)
  PROVE  SdkInv'
<1>1. CASE \E k \in {"tool", "unknown"} : CallTool(k) \/ CallOneshot(k)
  BY <1>1, Sends DEF CallTool, CallOneshot, RequestKinds
<1>2. CASE \E k \in SdkKinds : Query(k)
  BY <1>2, Sends, SdkAssumption DEF Query, RequestKinds
<1> QED BY <1>1, <1>2

(* A request moves on while the plugin stays or dies. *)
LEMMA MovesOn ==
  ASSUME SdkInv, NEW f, f \in Seq(Requests), requests' = f,
         DOMAIN f = DOMAIN requests,
         \A r \in DOMAIN requests : f[r].kind = requests[r].kind,
         oneshot => \A r \in DOMAIN requests : f[r].st # "draining",
         oneshot' = oneshot, ~eof /\ oneshot => eof' \/ callMu' = callMu,
         eof => eof', eof' \in BOOLEAN,
         stdin' = <<>> \/ stdin' = stdin,
         stdout' = <<>> \/ stdout' = stdout \/ (stdout # <<>> /\ stdout' = Tail(stdout)),
         sdk' = sdk \/ sdk' = Down, serving' = serving \/ serving' = NoService,
         sent' = sent, handled' = handled
  PROVE  SdkInv'
<1>1. Keeps BY StatusOnly
<1>2. OnlyCalls' BY DEF SdkInv, OnlyCalls, IsCall
<1>3. stdin' \in Seq(ToPlugin')
  <2>1. stdin \in Seq(ToPlugin') BY <1>1, KeptSets, LargerSet DEF SdkInv
  <2> QED BY <2>1, Remains
<1>4. stdout' \in Seq((Services \cup Results)')
  <2>1. stdout \in Seq((Services \cup Results)') BY <1>1, KeptSets, LargerSet DEF SdkInv
  <2> QED BY <2>1, Remains
<1>5. sdk' \in {Down} \cup Process' BY <1>1, KeptSets DEF SdkInv
<1>6. serving'.n \in Nat BY DEF SdkInv, NoService
<1> QED BY <1>1, <1>2, <1>3, <1>4, <1>5, <1>6, SdkStep DEF SdkInv

LEMMA TimersSdk ==
  ASSUME SdkInv, NEW r \in DOMAIN requests, TimesOut(r) \/ DrainTimer(r)
  PROVE  SdkInv'
<1>1. PICK f : f = requests' OBVIOUS
<1>2. \/ requests' = requests
      \/ requests' = Become(r, "failed") /\ (~oneshot \/ DrainTimer(r))
      \/ requests' = Become(r, "draining") /\ ~oneshot
  BY DEF TimesOut, DrainTimer
<1>3. /\ f \in Seq(Requests) /\ DOMAIN f = DOMAIN requests
      /\ \A q \in DOMAIN requests : f[q].kind = requests[q].kind
  <2>1. CASE f = requests BY <2>1 DEF SdkInv
  <2>2. CASE f = Become(r, "failed") BY <2>2, BecomeFacts DEF SdkInv
  <2>3. CASE f = Become(r, "draining") BY <2>3, BecomeFacts DEF SdkInv
  <2> QED BY <1>1, <1>2, <2>1, <2>2, <2>3
<1>4. oneshot => ~DrainTimer(r) BY DEF SdkInv, OnlyCalls, DrainTimer
<1>5. oneshot => \A q \in DOMAIN requests : f[q].st # "draining"
  BY <1>1, <1>2, <1>4 DEF SdkInv, OnlyCalls
<1>6. /\ UNCHANGED <<oneshot, eof, stdout, serving, sent, handled>>
      /\ oneshot => callMu' = callMu
      /\ stdin' = <<>> \/ stdin' = stdin
      /\ sdk' = sdk \/ sdk' = Down
  BY <1>4 DEF TimesOut, DrainTimer
<1>7. eof \in BOOLEAN BY DEF SdkInv
<1> QED BY <1>1, <1>3, <1>5, <1>6, <1>7, MovesOn

LEMMA ReadResultSdk ==
  ASSUME SdkInv, ReadResult
  PROVE  SdkInv'
<1> DEFINE m == Head(stdout)
           st == IF requests[m.n].st = "draining" THEN "failed"
                 ELSE IF oneshot THEN "closing" ELSE IF m.ok THEN "ok" ELSE "error"
<1>1. m \in Services \cup Results /\ stdout # <<>> /\ m.type = "result"
  BY DEF SdkInv, ReadResult
<1>2. m.n \in DOMAIN requests BY <1>1 DEF Services, Results
<1>3. st \in {"sent", "draining", "failed", "closing", "ok", "error"}
      /\ st # "draining"
  OBVIOUS
<1>4. requests' = requests \/ requests' = Become(m.n, st) BY DEF ReadResult
<1>5. PICK f : f = requests' OBVIOUS
<1> HIDE DEF st
<1>6. /\ f \in Seq(Requests) /\ DOMAIN f = DOMAIN requests
      /\ \A q \in DOMAIN requests : f[q].kind = requests[q].kind
  <2>1. CASE f = requests BY <2>1 DEF SdkInv
  <2>2. CASE f = Become(m.n, st)
    <3>1. PICK r \in DOMAIN requests : r = m.n BY <1>2
    <3>2. PICK to : to = st OBVIOUS
    <3>3. /\ Become(r, to) \in Seq(Requests) /\ DOMAIN Become(r, to) = DOMAIN requests
          /\ \A q \in DOMAIN requests : Become(r, to)[q].kind = requests[q].kind
      BY <1>3, <3>2, BecomeFacts
    <3> QED BY <2>2, <3>1, <3>2, <3>3
  <2> QED BY <1>4, <1>5, <2>1, <2>2
<1>7. oneshot => \A q \in DOMAIN requests : f[q].st # "draining"
  <2>1. CASE f = requests BY <2>1 DEF SdkInv, OnlyCalls
  <2>2. CASE f = Become(m.n, st)
    <3>1. PICK r \in DOMAIN requests : r = m.n BY <1>2
    <3>2. PICK to : to = st OBVIOUS
    <3>3. \A q \in DOMAIN requests : Become(r, to)[q].st \in {requests[q].st, to}
      BY <1>3, <3>2, BecomeFacts
    <3> QED BY <1>3, <2>2, <3>1, <3>2, <3>3 DEF SdkInv, OnlyCalls
  <2> QED BY <1>4, <1>5, <2>1, <2>2
<1>8. /\ UNCHANGED <<oneshot, serving, sent, handled>>
      /\ eof' = oneshot /\ ~eof /\ stdout' = Tail(stdout)
      /\ stdin' = <<>> \/ stdin' = stdin
      /\ sdk' = sdk \/ sdk' = Down
  BY DEF ReadResult
<1>9. eof' \in BOOLEAN BY <1>8 DEF SdkInv
<1> QED BY <1>1, <1>5, <1>6, <1>7, <1>8, <1>9, MovesOn

LEMMA CoreExitsSdk ==
  ASSUME SdkInv, CoreExits
  PROVE  SdkInv'
<1>1. requests \in Seq(Requests) BY DEF SdkInv
<1>2. PICK f : f = [r \in DOMAIN requests |->
        IF Pending(r) THEN [requests[r] EXCEPT !.st = "failed"] ELSE requests[r]]
  OBVIOUS
<1>3. \A r \in DOMAIN requests :
        /\ f[r] \in Requests /\ f[r].kind = requests[r].kind
        /\ f[r].st \in {"failed", requests[r].st}
  <2>1. \A r \in DOMAIN requests : requests[r] \in Requests BY <1>1
  <2> QED BY <1>2, <2>1 DEF Requests
<1>4. f \in Seq(Requests) /\ DOMAIN f = DOMAIN requests
  <2>1. DOMAIN f = 1..Len(requests) /\ Len(requests) \in Nat BY <1>1, <1>2
  <2>2. DOMAIN requests = 1..Len(requests) BY <1>1
  <2>3. f \in [1..Len(requests) -> Requests] BY <1>2, <1>3, <2>2
  <2> QED BY <2>1, <2>2, <2>3, Listed
<1>5. requests' = f /\ eof' = TRUE /\ stdout' = <<>> /\ serving' = NoService
      /\ UNCHANGED <<oneshot, stdin, sdk, sent, handled>>
  BY <1>2 DEF CoreExits
<1>6. oneshot => \A r \in DOMAIN requests : f[r].st # "draining"
  BY <1>3 DEF SdkInv, OnlyCalls
<1> QED BY <1>3, <1>4, <1>5, <1>6, MovesOn

LEMMA ScanEndsSdk ==
  ASSUME SdkInv, ScanEnds
  PROVE  SdkInv'
<1>1. requests \in Seq(Requests) BY DEF SdkInv
<1> DEFINE ended(r) == [requests[r] EXCEPT !.st = CASE Pending(r) -> "failed"
                                                   [] @ = "closing" -> "ok"
                                                   [] OTHER -> @]
<1>2. ASSUME NEW r \in DOMAIN requests
      PROVE  /\ ended(r) \in Requests /\ ended(r).kind = requests[r].kind
             /\ ended(r).st \in {"failed", "ok", requests[r].st}
  <2>1. requests[r] \in Requests BY <1>1
  <2> QED BY <2>1 DEF Requests
<1>3. PICK f : f = [r \in DOMAIN requests |-> ended(r)] OBVIOUS
<1>4. requests' = f /\ eof' = FALSE /\ stdin' = <<>> /\ stdout' = <<>> /\ sdk = Down
      /\ UNCHANGED <<oneshot, serving, sdk, sent, handled>> /\ callMu' = 0
  BY <1>3 DEF ScanEnds
<1> HIDE DEF ended
<1>5. f \in Seq(Requests) /\ DOMAIN f = DOMAIN requests
  <2>1. DOMAIN requests = 1..Len(requests) /\ Len(requests) \in Nat BY <1>1
  <2>2. f \in [1..Len(requests) -> Requests] BY <1>2, <1>3, <2>1
  <2> QED BY <2>1, <2>2, Listed
<1>6. \A r \in DOMAIN requests : /\ f[r].kind = requests[r].kind
                                 /\ f[r].st \in {"failed", "ok", requests[r].st}
  BY <1>2, <1>3
<1>7. OnlyCalls' BY <1>4, <1>5, <1>6 DEF SdkInv, OnlyCalls, IsCall
<1>8. handled' = NoService \/ handled'.for \in DOMAIN requests'
  BY <1>4, <1>5 DEF SdkInv
<1>9. ServedInContext' BY <1>4, <1>5, <1>6 DEF SdkInv, ServedInContext, IsCall
<1>10. stdin' \in Seq(ToPlugin') /\ stdout' \in Seq((Services \cup Results)')
  BY <1>4
<1> QED BY <1>4, <1>5, <1>7, <1>8, <1>9, <1>10 DEF SdkInv

(* Nothing but the messages and the plugin changes. *)
LEMMA Messages ==
  ASSUME SdkInv, UNCHANGED <<oneshot, requests, callMu, eof, handled>>,
         sent' \in Nat, serving'.n \in Nat,
         NEW i, i \in Seq(ToPlugin), stdin' = i,
         NEW o, o \in Seq(Services \cup Results), stdout' = o,
         NEW s, s \in {Down} \cup Process, sdk' = s
  PROVE  SdkInv'
<1>1. Keeps BY DEF Keeps, Known
<1>2. requests' \in Seq(Requests) /\ OnlyCalls' /\ eof' \in BOOLEAN
  BY DEF SdkInv, OnlyCalls, IsCall
<1>3. stdin' \in Seq(ToPlugin') BY <1>1, KeptSets, LargerSet
<1>4. stdout' \in Seq((Services \cup Results)') BY <1>1, KeptSets, LargerSet
<1>5. sdk' \in {Down} \cup Process' BY <1>1, KeptSets
<1> QED BY <1>1, <1>2, <1>3, <1>4, <1>5, SdkStep

LEMMA Sequences ==
  ASSUME NEW S, NEW s \in Seq(S)
  PROVE  /\ <<>> \in Seq(S) /\ \A e \in S : Append(s, e) \in Seq(S)
         /\ s # <<>> => Head(s) \in S /\ Tail(s) \in Seq(S)
OBVIOUS

(* The context of a service request is the one of the request it is for.   *)
LEMMA InContext ==
  ASSUME SdkInv, NEW m \in Services, ~eof
  PROVE  /\ m.for \in DOMAIN requests
         /\ IsCall(m.for) => /\ \A c \in Context(m) : c.r = m.for
                             /\ m.for \in Active => Context(m) # {}
         /\ ~IsCall(m.for) => /\ \A c \in Context(m) : c.access = "read"
                              /\ Active = {m.for} => Context(m) # {}
<1>1. /\ m.for \in DOMAIN requests /\ requests[m.for].kind # "unknown"
      /\ oneshot => m.for = callMu
      /\ m.parent = CallIDOf(m.for)
  BY DEF Services, Works, Known
<1>2. m.for # 0 BY <1>1 DEF SdkInv
<1>3. PICK r : r = m.for OBVIOUS
<1>4. ASSUME IsCall(r) PROVE /\ \A c \in Context(m) : c.r = r
                             /\ r \in Active => Context(m) # {}
  <2>1. m.parent = r /\ r # 0 BY <1>1, <1>2, <1>3, <1>4 DEF CallIDOf, IsCall
  <2>2. CASE oneshot
    <3>1. Context(m) = {[r |-> r, access |-> "call"]}
      BY <1>1, <1>3, <2>2 DEF Context
    <3> QED BY <3>1
  <2>3. CASE ~oneshot
    <3>1. Context(m) = {[r |-> q, access |-> IF IsCall(q) THEN "call" ELSE "read"] :
                          q \in Active \cap {r}}
      BY <2>1, <2>3 DEF Context
    <3>2. ASSUME NEW c \in Context(m) PROVE c.r = r
      <4>1. PICK q \in Active \cap {r} :
              c = [r |-> q, access |-> IF IsCall(q) THEN "call" ELSE "read"]
        BY <3>1
      <4> QED BY <4>1
    <3>3. ASSUME r \in Active PROVE Context(m) # {}
      <4>1. [r |-> r, access |-> IF IsCall(r) THEN "call" ELSE "read"] \in Context(m)
        BY <3>1, <3>3
      <4> QED BY <4>1
    <3> QED BY <3>2, <3>3
  <2> QED BY <2>2, <2>3
<1>5. ASSUME ~IsCall(r) PROVE /\ \A c \in Context(m) : c.access = "read"
                              /\ Active = {r} => Context(m) # {}
  <2>1. m.parent = 0 BY <1>1, <1>3, <1>5 DEF CallIDOf, IsCall
  <2>2. ~oneshot BY <1>1, <1>3, <1>5 DEF SdkInv, OnlyCalls
  <2>3. Context(m) = {[r |-> q, access |-> "read"] : q \in {x \in Active : Active = {x}}}
    BY <2>1, <2>2 DEF Context
  <2>4. ASSUME NEW c \in Context(m) PROVE c.access = "read"
    <3>1. PICK q \in {x \in Active : Active = {x}} : c = [r |-> q, access |-> "read"]
      BY <2>3, <2>4
    <3> QED BY <3>1
  <2>5. ASSUME Active = {r} PROVE Context(m) # {}
    <3>1. r \in {x \in Active : Active = {x}} BY <2>5
    <3>2. [r |-> r, access |-> "read"] \in Context(m) BY <2>3, <3>1
    <3> QED BY <3>2
  <2> QED BY <2>4, <2>5
<1> QED BY <1>1, <1>3, <1>4, <1>5

LEMMA ReadServiceSdk ==
  ASSUME SdkInv, ReadService
  PROVE  SdkInv'
<1> DEFINE m == Head(stdout)
<1>1. m \in Services \cup Results /\ stdout # <<>> /\ m.type = "service" /\ ~eof
      /\ Tail(stdout) \in Seq(Services \cup Results)
  BY Sequences DEF SdkInv, ReadService
<1>2. m \in Services /\ m.n \in Nat BY <1>1 DEF Services, Results
<1>3. /\ UNCHANGED <<oneshot, requests, callMu, eof, sdk, sent>>
      /\ stdout' = Tail(stdout)
      /\ handled' = [n |-> m.n, for |-> m.for, ctx |-> Context(m), active |-> Active]
      /\ stdin' = stdin \/ stdin' = Append(stdin, [type |-> "response", n |-> m.n])
      /\ serving' = serving \/ serving' = m
  BY DEF ReadService, Refuse
<1> HIDE DEF m
<1>4. Keeps BY <1>3 DEF Keeps, Known
<1>5. [type |-> "response", n |-> m.n] \in ToPlugin BY <1>2 DEF ToPlugin
<1>6. stdin' \in Seq(ToPlugin')
  <2>1. stdin' \in Seq(ToPlugin) BY <1>3, <1>5, Sequences DEF SdkInv
  <2> QED BY <1>4, <2>1, KeptSets, LargerSet
<1>7. stdout' \in Seq((Services \cup Results)')
  BY <1>1, <1>3, <1>4, KeptSets, LargerSet
<1>8. sdk' \in {Down} \cup Process' BY <1>3, <1>4, KeptSets DEF SdkInv
<1>9. requests' \in Seq(Requests) /\ OnlyCalls' /\ eof' \in BOOLEAN
  BY <1>3 DEF SdkInv, OnlyCalls, IsCall
<1>10. /\ handled'.for = m.for /\ handled'.ctx = Context(m) /\ handled'.active = Active
  BY <1>3
<1>11. \A r : IsCall(r)' <=> IsCall(r) BY <1>3 DEF IsCall
<1>12. ServedInContext'
  BY <1>1, <1>2, <1>10, <1>11, InContext DEF ServedInContext
<1>13. handled'.for \in DOMAIN requests' BY <1>1, <1>2, <1>3, <1>10, InContext
<1> QED BY <1>2, <1>3, <1>6, <1>7, <1>8, <1>9, <1>12, <1>13 DEF SdkInv

LEMMA ServiceDoneSdk ==
  ASSUME SdkInv, ServiceDone
  PROVE  SdkInv'
<1>1. serving.n \in Nat BY DEF SdkInv
<1>2. [type |-> "response", n |-> serving.n] \in ToPlugin BY <1>1 DEF ToPlugin
<1>3. PICK i : i = IF sdk = Down THEN stdin
                   ELSE Append(stdin, [type |-> "response", n |-> serving.n])
  OBVIOUS
<1>4. i \in Seq(ToPlugin) BY <1>2, <1>3, Sequences DEF SdkInv
<1>5. /\ stdin' = i /\ serving' = NoService
      /\ UNCHANGED <<oneshot, requests, callMu, eof, stdout, sdk, sent, handled>>
  BY <1>3 DEF ServiceDone
<1>6. PICK o, s : o = stdout /\ s = sdk OBVIOUS
<1> QED BY <1>4, <1>5, <1>6, Messages DEF SdkInv, NoService

(* The plugin's own steps. *)
LEMMA PluginStep ==
  ASSUME SdkInv, UNCHANGED Sdk, sent' \in Nat,
         NEW i, i \in Seq(ToPlugin), stdin' = i,
         NEW o, o \in Seq(Services \cup Results), stdout' = o,
         NEW s, s \in {Down} \cup Process, sdk' = s
  PROVE  SdkInv'
BY Messages DEF Sdk, SdkInv

LEMMA ReadsFacts ==
  ASSUME SdkInv, NEW kind, Reads(kind)
  PROVE  /\ sdk \in Process /\ sdk.pc = "recv" /\ sdk.callID = 0
         /\ Known(Head(stdin).n) /\ Head(stdin).n \in Nat
         /\ requests[Head(stdin).n].kind = kind
         /\ stdin' = Tail(stdin) /\ Tail(stdin) \in Seq(ToPlugin)
<1>1. sdk \in Process /\ sdk.pc = "recv" /\ sdk.callID = 0
  BY DEF SdkInv, Reads, SdkAt, Process
<1>2. Head(stdin) \in ToPlugin /\ Tail(stdin) \in Seq(ToPlugin)
  BY Sequences DEF SdkInv, Reads
<1> QED BY <1>1, <1>2 DEF Reads, Take, ToPlugin

LEMMA HandleSdk ==
  ASSUME SdkInv, NEW kind, Handle(kind)
  PROVE  SdkInv'
<1> DEFINE r == Head(stdin).n
<1>1. /\ sdk \in Process /\ sdk.callID = 0 /\ Known(r) /\ r \in Nat
      /\ requests[r].kind = kind /\ stdin' = Tail(stdin)
      /\ Tail(stdin) \in Seq(ToPlugin)
  BY ReadsFacts DEF Handle
<1>2. kind # "unknown" BY SdkAssumption DEF Handle
<1>3. PICK s : s = [sdk EXCEPT !.pc = "run", !.cur = r,
                               !.callID = IF kind = "tool" THEN r ELSE @]
  OBVIOUS
<1> HIDE DEF r
<1>4. s \in Process BY <1>1, <1>2, <1>3 DEF Process, Works, CallIDOf
<1>5. sdk' = s /\ UNCHANGED <<Sdk, stdout, sent>> BY <1>3 DEF Handle, r
<1>6. PICK i, o : i = Tail(stdin) /\ o = stdout OBVIOUS
<1> QED BY <1>1, <1>4, <1>5, <1>6, PluginStep DEF SdkInv

LEMMA AnswerSdk ==
  ASSUME SdkInv, Shutdown \/ \E k \in SdkKinds \cup {"init"} : Default(k)
  PROVE  SdkInv'
<1> DEFINE r == Head(stdin).n
<1>1. \E kind : \E ok \in BOOLEAN :
        /\ Reads(kind) /\ Result(r, ok) /\ sdk' \in {sdk, Down} /\ UNCHANGED <<Sdk, sent>>
  <2>1. CASE Shutdown BY <2>1 DEF Shutdown
  <2>2. CASE \E k \in SdkKinds \cup {"init"} : Default(k)
    <3>1. PICK k : Default(k) BY <2>2
    <3>2. (k \in {"init", "list"}) \in BOOLEAN OBVIOUS
    <3> QED BY <3>1, <3>2 DEF Default
  <2> QED BY <2>1, <2>2
<1> PICK kind, ok : /\ ok \in BOOLEAN /\ Reads(kind) /\ Result(r, ok)
                    /\ sdk' \in {sdk, Down} /\ UNCHANGED <<Sdk, sent>>
  BY <1>1
<1>2. /\ sdk \in Process /\ Known(r) /\ r \in Nat
      /\ stdin' = Tail(stdin) /\ Tail(stdin) \in Seq(ToPlugin)
  BY ReadsFacts
<1>3. [type |-> "result", n |-> r, ok |-> ok] \in Results BY <1>2 DEF Results, Known
<1>4. PICK o : o = Append(stdout, [type |-> "result", n |-> r, ok |-> ok]) OBVIOUS
<1>5. o \in Seq(Services \cup Results) BY <1>3, <1>4, Sequences DEF SdkInv
<1>6. stdout' = o BY <1>4 DEF Result
<1>7. PICK i : i = Tail(stdin) OBVIOUS
<1> QED BY <1>2, <1>5, <1>6, <1>7, PluginStep DEF SdkInv

LEMMA ServiceSdk ==
  ASSUME SdkInv, Service
  PROVE  SdkInv'
<1>1. sdk \in Process /\ sdk.pc = "run" /\ sent \in Nat
  BY DEF SdkInv, Service, SdkAt
<1> DEFINE m == [type |-> "service", n |-> sent + 1, parent |-> sdk.callID, for |-> sdk.cur]
<1>2. Works(sdk.cur) /\ sdk.callID = CallIDOf(sdk.cur)
      /\ sdk.cur \in Nat /\ sdk.callID \in Nat
  BY <1>1 DEF Process
<1>3. m \in Services BY <1>1, <1>2 DEF Services
<1>4. PICK o : o = Append(stdout, m) OBVIOUS
<1> HIDE DEF m
<1>5. o \in Seq(Services \cup Results) BY <1>3, <1>4, Sequences DEF SdkInv
<1>6. PICK w, s : w = sent + 1 /\ s = [sdk EXCEPT !.pc = "wait", !.wid = w] OBVIOUS
<1>7. s \in Process
  <2>1. w \in Nat BY <1>1, <1>6
  <2> QED BY <1>1, <1>2, <1>6, <2>1 DEF Process
<1>8. stdout' = o /\ sdk' = s /\ sent' = sent + 1 /\ UNCHANGED <<Sdk, stdin>>
  BY <1>4, <1>6 DEF Service, m
<1>9. PICK i : i = stdin OBVIOUS
<1> QED BY <1>1, <1>5, <1>7, <1>8, <1>9, PluginStep DEF SdkInv

LEMMA WaitSdk ==
  ASSUME SdkInv, WaitFor \/ WaitForEOF
  PROVE  SdkInv'
<1>1. sdk \in Process /\ sdk.pc = "wait" BY DEF SdkInv, WaitFor, WaitForEOF, SdkAt
<1>2. [sdk EXCEPT !.pc = "run"] \in Process BY <1>1 DEF Process
<1>3. PICK i, o, s : i = stdin' /\ o = stdout /\ s = sdk' OBVIOUS
<1>4. i \in Seq(ToPlugin)
  BY <1>3, Sequences DEF SdkInv, WaitFor, WaitForEOF, Take
<1>5. s \in Process BY <1>1, <1>2, <1>3 DEF WaitFor, WaitForEOF
<1>6. UNCHANGED <<Sdk, stdout, sent>> BY DEF WaitFor, WaitForEOF
<1> QED BY <1>3, <1>4, <1>5, <1>6, PluginStep DEF SdkInv

LEMMA ReturnSdk ==
  ASSUME SdkInv, Return
  PROVE  SdkInv'
<1>1. sdk \in Process /\ sdk.pc = "run" BY DEF SdkInv, Return, SdkAt
<1>2. PICK ok \in BOOLEAN : Result(sdk.cur, ok) BY DEF Return
<1>3. sdk.cur \in DOMAIN requests /\ sdk.cur \in Nat BY <1>1 DEF Process, Works, Known
<1>4. [type |-> "result", n |-> sdk.cur, ok |-> ok] \in Results BY <1>3 DEF Results
<1>5. PICK o : o = Append(stdout, [type |-> "result", n |-> sdk.cur, ok |-> ok]) OBVIOUS
<1>6. o \in Seq(Services \cup Results) BY <1>4, <1>5, Sequences DEF SdkInv
<1>7. PICK s, i : s = Leave /\ i = stdin OBVIOUS
<1>8. s \in Process BY <1>1, <1>7 DEF Leave, Process
<1>9. stdout' = o /\ sdk' = s /\ UNCHANGED <<Sdk, stdin, sent>>
  BY <1>2, <1>5, <1>7 DEF Return, Result
<1> QED BY <1>6, <1>7, <1>8, <1>9, PluginStep DEF SdkInv

LEMMA DiesSdk ==
  ASSUME SdkInv, Ends \/ SdkCrashes
  PROVE  SdkInv'
<1>1. PICK i, o : i = stdin' /\ o = stdout OBVIOUS
<1>2. i \in Seq(ToPlugin) BY <1>1, Sequences DEF SdkInv, Ends, SdkCrashes
<1>3. sdk' = Down /\ UNCHANGED <<Sdk, stdout, sent>> BY DEF Ends, SdkCrashes
<1>4. PICK s : s = Down OBVIOUS
<1> QED BY <1>1, <1>2, <1>3, <1>4, PluginStep DEF SdkInv

LEMMA NextSdk == SdkInv /\ [SdkNext]_sdkVars => SdkInv'
<1> SUFFICES ASSUME SdkInv, [SdkNext]_sdkVars PROVE SdkInv' OBVIOUS
<1>1. CASE UNCHANGED sdkVars
  <2>1. PICK i, o, s : i = stdin /\ o = stdout /\ s = sdk OBVIOUS
  <2>2. UNCHANGED Sdk /\ UNCHANGED <<sent, stdin, stdout, sdk>> BY <1>1 DEF sdkVars, Sdk
  <2> QED BY <2>1, <2>2, PluginStep DEF SdkInv
<1>2. CASE \/ \E k \in {"tool", "unknown"} : CallTool(k) \/ CallOneshot(k)
           \/ \E k \in SdkKinds : Query(k)
  BY <1>2, CallsSdk
<1>3. CASE \E r \in DOMAIN requests : TimesOut(r) \/ DrainTimer(r) BY <1>3, TimersSdk
<1>4. CASE CoreStep \/ CoreExits
  BY <1>4, ReadServiceSdk, ServiceDoneSdk, ReadResultSdk, ScanEndsSdk, CoreExitsSdk
     DEF CoreStep
<1>5. CASE Plugin \/ SdkCrashes
  BY <1>5, HandleSdk, AnswerSdk, ServiceSdk, WaitSdk, ReturnSdk, DiesSdk DEF Plugin
<1> QED BY <1>1, <1>2, <1>3, <1>4, <1>5 DEF SdkNext

(* The inductive invariant of PluginSdk.                                   *)
THEOREM SdkInvariant == SdkSpec => []SdkInv
<1> QED BY InitSdk, NextSdk, PTL DEF SdkSpec

(* Whatever times out, crashes or overtakes: a service request runs under  *)
(* the context of the request it was made for, or is refused (parent_id,   *)
(* ReadLoop, callOneshot).                                                 *)
THEOREM ServicesKeepContext == SdkSpec => []ServedInContext
<1>1. SdkInv => ServedInContext BY DEF SdkInv
<1> QED BY <1>1, SdkInvariant, PTL

=============================================================================
