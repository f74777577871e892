----------------------------- MODULE Discovery -----------------------------
(***************************************************************************)
(* config.yaml, the wtmcpctl commands that edit it, and what the server    *)
(* makes of it: Manager.Discover, which selects the plugins, and           *)
(* topologicalSort and dependencyLevels, which order them.  The commands   *)
(* share no lock: each reads the file, edits a section and renames a new   *)
(* file over the old one.  The agents' JSON files are edited the same way. *)
(***************************************************************************)
EXTENDS Integers, Sequences, FiniteSets, FiniteSetsExt

CONSTANTS
  Candidates,   \* the plugin directories' manifests in the order they are read:
                \* [name, user, valid, enabled, auth, group, task, linked, deps]
  Ctls,         \* wtmcpctl processes
  CtlCommands,  \* [op, names] a user may run
  StartConfigs, \* contents of config.yaml to start from
  MaxCtlRuns    \* bound: commands run altogether

ConfigKeys == {"enabled", "disabled", "userPlugins", "providersOff", "stats"}
CtlOps == {"enable", "disable", "manage", "only", "clear", "user-plugins",
           "provider-enable", "provider-disable", "stats-set",
           "agent-enable", "agent-disable"}

(* defaultPluginDirs, used unless config.yaml sets plugin_dirs, puts the   *)
(* user's directory after the system's; "only" refuses to run without names. *)
ASSUME DiscoveryAssumption ==
  /\ Candidates \in Seq({Candidates[i] : i \in DOMAIN Candidates})
  /\ \A i, j \in DOMAIN Candidates :
       i < j /\ Candidates[i].user => Candidates[j].user
  /\ \A cfg \in StartConfigs : DOMAIN cfg = ConfigKeys
  /\ \A cmd \in CtlCommands :
       cmd.op \in CtlOps /\ (cmd.op = "only" => cmd.names # {})

NoGroup == "none"
Names == {Candidates[i].name : i \in DOMAIN Candidates}

VARIABLES cfgFile, agentFile, ctl, ctlRuns
discoveryVars == <<cfgFile, agentFile, ctl, ctlRuns>>

Resting == [pc |-> "idle"]
OurServers == {"wtmcp", "wtmcp-legacy"}
NoAgentFile == [there |-> FALSE, servers |-> {}, settings |-> FALSE]

DiscoveryInit ==
  /\ cfgFile \in StartConfigs
  /\ agentFile \in [there : {TRUE}, servers : {{"wtmcp-legacy", "other"}}, settings : {FALSE}]
                   \cup {NoAgentFile}
  /\ ctl = [c \in Ctls |-> Resting] /\ ctlRuns = 0

-----------------------------------------------------------------------------
(* Manager.Discover *)

(* The two lists of the configuration; the allowlist wins. *)
Selected(cfg, n) ==
  IF cfg.enabled # {} THEN n \in cfg.enabled ELSE n \notin cfg.disabled

UserMayLoad(acc, m) ==
  ~m.linked /\ ~m.auth /\ m.group \notin acc.groups

(* One manifest of the scan.  acc keeps what was accepted, the groups that *)
(* system plugins own and the sandbox task ids in use; an id stays in use  *)
(* when the user plugin that took it is refused.                           *)
Scan(cfg, acc, m) ==
  IF \/ ~m.valid \/ ~m.enabled \/ ~Selected(cfg, m.name)
     \/ m.user /\ ~cfg.userPlugins
     \/ \E a \in acc.plugins : a.name = m.name
     \/ \E t \in acc.tasks : t[1] = m.task /\ t[2] # m.name
  THEN acc
  ELSE [plugins |-> IF m.user /\ ~UserMayLoad(acc, m) THEN acc.plugins
                    ELSE acc.plugins \cup {m},
        groups  |-> IF m.user \/ m.group = NoGroup THEN acc.groups
                    ELSE acc.groups \cup {m.group},
        tasks   |-> acc.tasks \cup {<<m.task, m.name>>}]

Discover(cfg) ==
  LET Step[i \in 0..Len(Candidates)] ==
        IF i = 0 THEN [plugins |-> {}, groups |-> {}, tasks |-> {}]
        ELSE Scan(cfg, Step[i - 1], Candidates[i])
  IN  Step[Len(Candidates)].plugins

-----------------------------------------------------------------------------
(* topologicalSort and dependencyLevels *)

NamesOf(ms) == {m.name : m \in ms}
DepsOf(ms, n) == UNION {m.deps : m \in {x \in ms : x.name = n}}

(* The pre-filter: rounds over the manifests until nothing more is skipped. *)
SkippedOnce(ms) == {n \in NamesOf(ms) : ~(DepsOf(ms, n) \subseteq NamesOf(ms))}
Skipped(ms) ==
  LET Round[i \in 0..Cardinality(ms)] ==
        IF i = 0 THEN {}
        ELSE {n \in NamesOf(ms) :
                \E d \in DepsOf(ms, n) : d \notin NamesOf(ms) \/ d \in Round[i - 1]}
  IN  Round[Cardinality(ms)]

(* The depth-first visit fails when it meets a plugin it is visiting: some *)
(* of the plugins all need another one of them.                            *)
Sorted(ms) == {m \in ms : m.name \notin Skipped(ms)}
Circular(ms) ==
  \E S \in SUBSET NamesOf(Sorted(ms)) \ {{}} :
    \A n \in S : DepsOf(ms, n) \cap S # {}

(* One more than the deepest dependency that is in the order. *)
DependencyLevel(ms) ==
  LET names == NamesOf(Sorted(ms))
      depth[n \in names] == Max({0} \cup {depth[d] + 1 : d \in DepsOf(ms, n) \cap names})
  IN  depth

-----------------------------------------------------------------------------
(* wtmcpctl *)

(* updateConfigStringList and updateConfigBool: one key of one section is *)
(* set or removed, the rest of the document stays.                        *)
SetKeyDropsSection(doc, key, value) ==
  IF key \in {"enabled", "disabled"} /\ value = {}
  THEN [doc EXCEPT !.enabled = {}, !.disabled = {}, !.userPlugins = FALSE]
  ELSE [doc EXCEPT ![key] = value]
SetKey(doc, key, value) == [doc EXCEPT ![key] = value]

Edit(key, value, then) == [key |-> key, value |-> value, then |-> then]
LastEdit(key, value) == <<Edit(key, value, FALSE)>>

(* The edits of a command, from what its discovery read (seen) and, for   *)
(* the blocklist, from a second read of the file (now).                   *)
Shown(cfg) == NamesOf(Discover([cfg EXCEPT !.enabled = {}, !.disabled = {}]))
Edits(cmd, seen, now) ==
  LET allowlist == seen.enabled # {}
  IN  CASE cmd.op = "enable" ->
             IF allowlist THEN LastEdit("enabled", seen.enabled \cup cmd.names)
             ELSE LastEdit("disabled", now.disabled \ cmd.names)
        [] cmd.op = "disable" ->
             IF allowlist THEN LastEdit("enabled", seen.enabled \ cmd.names)
             ELSE LastEdit("disabled", now.disabled \cup cmd.names)
        [] cmd.op = "manage" ->
             IF allowlist THEN LastEdit("enabled", cmd.names)
             ELSE LastEdit("disabled", Shown(seen) \ cmd.names)
        [] cmd.op = "only" -> <<Edit("enabled", cmd.names, TRUE),
                                Edit("disabled", {}, FALSE)>>
        [] cmd.op = "clear" -> LastEdit("enabled", {})
        [] cmd.op = "user-plugins" -> LastEdit("userPlugins", cmd.names # {})
        [] cmd.op = "provider-enable" ->
             LastEdit("providersOff", seen.providersOff \ cmd.names)
        [] cmd.op = "provider-disable" ->
             LastEdit("providersOff", seen.providersOff \cup cmd.names)
        [] cmd.op = "stats-set" -> LastEdit("stats", cmd.names)

Agents == {"agent-enable", "agent-disable"}

(* agentEnable and agentDisable: a disable removes an empty file. *)
AgentEdit(f, op) ==
  IF op = "agent-enable"
  THEN [f EXCEPT !.there = TRUE, !.servers = (@ \ OurServers) \cup {"wtmcp"}]
  ELSE LET left == f.servers \ OurServers
       IN  IF f.servers \cap OurServers = {} THEN f
           ELSE IF left = {} /\ ~f.settings THEN NoAgentFile
           ELSE [f EXCEPT !.servers = left]

(* A command starts: config.Load, or the agent's file. *)
RunCommand(c) ==
  /\ ctl[c] = Resting /\ ctlRuns < MaxCtlRuns
  /\ \E cmd \in CtlCommands :
       ctl' = [ctl EXCEPT ![c] =
                 IF cmd.op \in Agents
                 THEN [pc |-> "rename", cmd |-> cmd, start |-> agentFile, alone |-> TRUE,
                       doc |-> AgentEdit(agentFile, cmd.op), todo |-> <<>>]
                 ELSE [pc |-> "decide", cmd |-> cmd, start |-> cfgFile, alone |-> TRUE]]
  /\ ctlRuns' = ctlRuns + 1
  /\ UNCHANGED <<cfgFile, agentFile>>

Decide(c) ==
  /\ ctl[c].pc = "decide"
  /\ ctl' = [ctl EXCEPT ![c] =
       [pc |-> "read", cmd |-> @.cmd, start |-> @.start, alone |-> @.alone,
        todo |-> Edits(@.cmd, @.start, cfgFile)]]
  /\ UNCHANGED <<cfgFile, agentFile, ctlRuns>>

(* The edit re-reads the file ... *)
ReadDoc(c) ==
  /\ ctl[c].pc = "read"
  /\ LET e == Head(ctl[c].todo)
     IN  ctl' = [ctl EXCEPT ![c] =
           [pc |-> "rename", cmd |-> @.cmd, start |-> @.start, alone |-> @.alone,
            doc |-> SetKey(cfgFile, e.key, e.value), todo |-> Tail(@.todo)]]
  /\ UNCHANGED <<cfgFile, agentFile, ctlRuns>>

(* ... and atomicWriteFile replaces it, or fails and ends the command. *)
Ended(c) == [ctl EXCEPT ![c] = Resting]
Renamed(c, others) ==
  [d \in Ctls |->
     IF d = c THEN IF ctl[c].todo = <<>> THEN Resting
                   ELSE [pc |-> "read", cmd |-> ctl[c].cmd, start |-> ctl[c].start,
                         alone |-> ctl[c].alone, todo |-> ctl[c].todo]
     ELSE IF d \in others THEN [ctl[d] EXCEPT !.alone = FALSE] ELSE ctl[d]]

Rename(c) ==
  /\ ctl[c].pc = "rename"
  /\ LET isAgent == ctl[c].cmd.op \in Agents
         others == {d \in Ctls \ {c} : ctl[d] # Resting /\ (ctl[d].cmd.op \in Agents) = isAgent}
     IN  /\ IF isAgent THEN agentFile' = ctl[c].doc /\ UNCHANGED cfgFile
            ELSE cfgFile' = ctl[c].doc /\ UNCHANGED agentFile
         /\ ctl' = Renamed(c, others)
  /\ UNCHANGED ctlRuns

(* The write fails, or the process is interrupted. *)
Abandon(c) ==
  /\ ctl[c] # Resting /\ ctl' = Ended(c)
  /\ UNCHANGED <<cfgFile, agentFile, ctlRuns>>

DiscoveryNext ==
  \E c \in Ctls : RunCommand(c) \/ Decide(c) \/ ReadDoc(c) \/ Rename(c) \/ Abandon(c)

DiscoverySpec == DiscoveryInit /\ [][DiscoveryNext]_discoveryVars

-----------------------------------------------------------------------------
(* Properties *)

(* Whatever the edits leave in config.yaml, the server's plan is sound: no *)
(* two plugins share a name or a sandbox task id, no user plugin has the   *)
(* name or the credential group of a loaded system plugin, a plugin is     *)
(* skipped exactly when some chain of dependencies leads from it to one    *)
(* that is not loaded, and without cycles every plugin is started at a     *)
(* later level than all it depends on.                                     *)
LacksDependency(ms, S) ==
  {n \in NamesOf(ms) : \E d \in DepsOf(ms, n) : d \notin NamesOf(ms) \/ d \in S}
PlanIsSound ==
  LET ms == Discover(cfgFile)
      level == DependencyLevel(ms)
  IN  /\ \A a, b \in ms : a # b => a.name # b.name /\ a.task # b.task
      /\ \A a, b \in ms : (a.user /\ ~b.user) =>
           (a.group = NoGroup \/ a.group # b.group)
      /\ LacksDependency(ms, Skipped(ms)) = Skipped(ms)
      /\ \A S \in SUBSET Skipped(ms) : LacksDependency(ms, S) = S => S = Skipped(ms)
      /\ ~Circular(ms) => \A m \in Sorted(ms) : \A d \in m.deps :
           d \in DOMAIN level /\ level[d] < level[m.name]

(* The editor and the loader agree: a command that no other command        *)
(* overlapped has, with its last rename, the effect it was asked for on    *)
(* the plugins the server selects, and changes nothing else.  A disable     *)
(* that empties the allowlist is left out: it makes the server load every  *)
(* plugin again, the disabled one included.  The other servers in an       *)
(* agent's file stay, and ours is there exactly when it was enabled.       *)
SelectedBy(cfg) == {n \in Names : Selected(cfg, n)}
Asked(cmd, old, new) ==
  CASE cmd.op = "enable" -> SelectedBy(new) = SelectedBy(old) \cup (cmd.names \cap Names)
    [] cmd.op = "disable" -> \/ SelectedBy(new) = SelectedBy(old) \ cmd.names
                             \/ old.enabled # {} /\ old.enabled \subseteq cmd.names
    [] cmd.op = "only" -> SelectedBy(new) = cmd.names \cap Names
    [] cmd.op = "manage" ->
         \/ SelectedBy(new) \cap Shown(old) = cmd.names \cap Shown(old)
         \/ old.enabled # {} /\ cmd.names = {}
    [] OTHER -> new.enabled = old.enabled \/ cmd.op = "clear"
Kept(cmd, old, new) ==
  /\ cmd.op # "user-plugins" => new.userPlugins = old.userPlugins
  /\ cmd.op \notin {"provider-enable", "provider-disable"} =>
       new.providersOff = old.providersOff
  /\ cmd.op # "stats-set" => new.stats = old.stats
  /\ cmd.op \notin {"enable", "disable", "only", "manage"} => new.disabled = old.disabled
  /\ cmd.op \in {"enable", "disable"} => (new.enabled = old.enabled \/ old.enabled # {})
AgentAsked(op, old, new) ==
  /\ new.servers \ OurServers = old.servers \ OurServers /\ new.settings = old.settings
  /\ new.servers \cap OurServers = IF op = "agent-enable" THEN {"wtmcp"} ELSE {}
CommandTakesEffect ==
  [][\A c \in Ctls :
       (ctl[c].pc = "rename" /\ Rename(c) /\ ctl'[c] = Resting /\ ctl[c].alone) =>
         IF ctl[c].cmd.op \in Agents
         THEN AgentAsked(ctl[c].cmd.op, ctl[c].start, agentFile')
         ELSE /\ Asked(ctl[c].cmd, ctl[c].start, cfgFile')
              /\ Kept(ctl[c].cmd, ctl[c].start, cfgFile')]_discoveryVars

=============================================================================
