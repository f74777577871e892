----------------------------- MODULE Collector -----------------------------
(***************************************************************************)
(* The statistics collector (internal/stats): tool calls are recorded by   *)
(* the goroutines that serve them, a debounce timer writes the totals to   *)
(* stats.json, Close flushes them when the server ends, the next server    *)
(* loads them.  A call is the number of its output tokens; the other       *)
(* numbers of an aggregate (errors, input tokens, durations) are summed    *)
(* the same way.  The ring buffer of single calls is written and never     *)
(* read, so it is left out.                                                *)
(***************************************************************************)
EXTENDS Integers, FiniteSets, FiniteSetsExt

CONSTANTS
  StatTools,      \* names of tools; the resources they read go by the same names
  StatPlugin,     \* [StatTools -> plugin names]
  Recorders,      \* goroutines that serve calls
  StatWork,       \* [kind, tool, size]: calls (with their output tokens), reads of
                  \* resources, registrations of schemas
  MaxDay,         \* bound: days 0..MaxDay
  MaxRecords,     \* bound: calls ever made
  MaxStarts,      \* bound: servers ever started
  Retentions      \* values of stats.retention_days, 0 for "keep all"

ASSUME StatAssumption ==
  /\ IsFiniteSet(StatTools) /\ StatPlugin = [t \in StatTools |-> StatPlugin[t]]
  /\ StatWork \subseteq [kind : {"call", "read", "schema"}, tool : StatTools, size : Nat]
  /\ MaxDay \in Nat /\ Retentions \subseteq Nat

VARIABLES
  statServer,     \* "down" | "up" | "closing" (Close called) | "closed" (Close done)
  col,            \* the collector's maps: agg, daily, schemas, resources
  statDisk,       \* stats.json: a snapshot, NoStats or BadStats
  persistTmr,     \* "nil" | "armed" | "fired"
  savers,         \* timer functions that wait for the mutex
  recorder,       \* what every goroutine does
  today,
  retentionDays,
  statStarts, records,   \* counters for the bounds
  owed            \* calls of each tool that the running server must still save

statVars == <<statServer, col, statDisk, persistTmr, savers, recorder, today,
              retentionDays, statStarts, records, owed>>

Days == 0..MaxDay
PluginsOfTools == {StatPlugin[t] : t \in StatTools}
NoAgg == [calls |-> 0, tokens |-> 0, max |-> 0]
EmptyCol == [agg |-> [t \in StatTools |-> NoAgg],
             daily |-> [d \in Days |-> [t \in StatTools |-> NoAgg]],
             schemas |-> {},
             resources |-> [t \in StatTools |-> 0]]
NoStats == [kind |-> "none"]
BadStats == [kind |-> "bad"]
SnapshotOf(c) == [kind |-> "snapshot", col |-> c]
NotRecording == [pc |-> "idle"]

StatInit ==
  /\ statServer = "down" /\ col = EmptyCol /\ statDisk \in {NoStats, BadStats}
  /\ persistTmr = "nil" /\ savers = 0
  /\ recorder = [r \in Recorders |-> NotRecording]
  /\ today = 0 /\ retentionDays \in Retentions
  /\ statStarts = 0 /\ records = 0 /\ owed = [t \in StatTools |-> 0]

-----------------------------------------------------------------------------
(* Operators on aggregates *)

AddCall(a, n) == [calls |-> a.calls + 1, tokens |-> a.tokens + n,
                  max |-> IF n > a.max THEN n ELSE a.max]

(* One tool's totals over the days of a range: sums, and the largest of   *)
(* the daily maxima.                                                      *)
AggregateDailyRange(daily, since, until, t) ==
  LET days == {d \in Days : since <= d /\ d <= until}
  IN  [calls  |-> SumFunctionOnSet([d \in Days |-> daily[d][t].calls], days),
       tokens |-> SumFunctionOnSet([d \in Days |-> daily[d][t].tokens], days),
       max    |-> Max({0} \cup {daily[d][t].max : d \in days})]

(* The totals of the tools of one plugin, by the name an aggregate keeps. *)
ToolsOfPlugin(p) == {t \in StatTools : StatPlugin[t] = p}
PluginSummary(c, p) ==
  SumFunctionOnSet([t \in StatTools |-> c.agg[t].calls], ToolsOfPlugin(p))

Pruned(c) ==
  IF retentionDays = 0 THEN c
  ELSE [c EXCEPT !.daily =
          [d \in Days |-> IF d < today - retentionDays
                          THEN [t \in StatTools |-> NoAgg] ELSE c.daily[d]]]

-----------------------------------------------------------------------------
(* saveLocked: prune, then replace the file.  A failed write is logged,   *)
(* and what it should have saved is owed no more.                          *)
SaveLocked ==
  /\ col' = Pruned(col)
  /\ \/ statDisk' = SnapshotOf(col') /\ owed' = owed
     \/ statDisk' = statDisk /\ owed' = [t \in StatTools |-> 0]

(* scheduleSave: a pending timer is stopped, a new one armed; a function  *)
(* that already runs is not stopped.                                      *)
ScheduleSaveOnce == IF persistTmr = "nil" THEN "armed" ELSE persistTmr
ScheduleSave == "armed"

(* SetPersistPath at server start: what the file holds; an unreadable     *)
(* file is logged and the server starts from nothing.                     *)
LoadTotalsOnly ==
  IF statDisk.kind = "snapshot" THEN [EmptyCol EXCEPT !.agg = statDisk.col.agg]
  ELSE EmptyCol
Load == IF statDisk.kind = "snapshot" THEN statDisk.col ELSE EmptyCol

StartStats ==
  /\ statServer = "down" /\ statStarts < MaxStarts
  /\ statServer' = "up" /\ statStarts' = statStarts + 1
  /\ col' = Load
  /\ UNCHANGED <<statDisk, persistTmr, savers, recorder, today, retentionDays,
                 records, owed>>

(* A tool call begins, or a resource is read, or a plugin registers a tool. *)
Begin(r) ==
  /\ statServer = "up" /\ recorder[r] = NotRecording /\ records < MaxRecords
  /\ \E w \in StatWork :
       recorder' = [recorder EXCEPT
         ![r] = [pc |-> "serve", kind |-> w.kind, tool |-> w.tool, size |-> w.size,
                 start |-> today]]
  /\ records' = records + 1
  /\ UNCHANGED <<statServer, col, statDisk, persistTmr, savers, today,
                 retentionDays, statStarts, owed>>

(* Record, RecordSchema and RecordResourceRead first look at c.closed ... *)
CheckClosed(r) ==
  /\ recorder[r].pc = "serve"
  /\ recorder' = IF statServer = "up" THEN [recorder EXCEPT ![r].pc = "lock"]
                 ELSE [recorder EXCEPT ![r] = NotRecording]
  /\ UNCHANGED <<statServer, col, statDisk, persistTmr, savers, today,
                 retentionDays, statStarts, records, owed>>

(* ... and later, under the mutex, change the maps.  The day of a call is *)
(* the one it started on.  Schemas do not schedule a save.                *)
Updated(c, w) ==
  CASE w.kind = "call" ->
         [c EXCEPT !.agg[w.tool] = AddCall(@, w.size),
                   !.daily[w.start][w.tool] = AddCall(@, w.size)]
    [] w.kind = "read" -> [c EXCEPT !.resources[w.tool] = @ + 1]
    [] w.kind = "schema" -> [c EXCEPT !.schemas = @ \cup {w.tool}]

Commit(r) ==
  LET w == recorder[r]
  IN  /\ w.pc = "lock"
      /\ col' = Updated(col, w)
      /\ persistTmr' = IF w.kind = "schema" THEN persistTmr ELSE ScheduleSave
      /\ owed' = IF w.kind = "call" /\ statServer = "up"
                 THEN [owed EXCEPT ![w.tool] = col'.agg[w.tool].calls] ELSE owed
      /\ recorder' = [recorder EXCEPT ![r] = NotRecording]
      /\ UNCHANGED <<statServer, statDisk, savers, today, retentionDays,
                     statStarts, records>>

(* A plugin is unregistered: RemovePluginSchemas, RemovePluginResources.  *)
RemovePlugin(p) ==
  LET gone == ToolsOfPlugin(p)
  IN  /\ statServer = "up"
      /\ col' = [col EXCEPT !.schemas = @ \ gone,
                   !.resources = [t \in StatTools |-> IF t \in gone THEN 0 ELSE @[t]]]
      /\ UNCHANGED <<statServer, statDisk, persistTmr, savers, recorder, today,
                     retentionDays, statStarts, records, owed>>

TimerFires ==
  /\ persistTmr = "armed"
  /\ persistTmr' = "fired" /\ savers' = savers + 1
  /\ UNCHANGED <<statServer, col, statDisk, recorder, today, retentionDays,
                 statStarts, records, owed>>

TimerSave ==
  /\ savers > 0 /\ savers' = savers - 1
  /\ SaveLocked
  /\ UNCHANGED <<statServer, persistTmr, recorder, today, retentionDays,
                 statStarts, records>>

(* Close sets the flag, then flushes under the mutex. *)
CloseFlag ==
  /\ statServer = "up" /\ statServer' = "closing"
  /\ UNCHANGED <<col, statDisk, persistTmr, savers, recorder, today,
                 retentionDays, statStarts, records, owed>>

CloseFlush ==
  /\ statServer = "closing" /\ statServer' = "closed"
  /\ persistTmr' = "nil" /\ SaveLocked
  /\ UNCHANGED <<savers, recorder, today, retentionDays, statStarts, records>>

(* The process ends, after Close or by a crash: its memory is gone, and a *)
(* crash writes off what was not saved.                                   *)
Exit(crash) ==
  /\ \/ crash /\ statServer \in {"up", "closing"}
        /\ owed' = [t \in StatTools |-> 0]
     \/ ~crash /\ statServer = "closed" /\ owed' = owed
  /\ statServer' = "down" /\ col' = EmptyCol
  /\ persistTmr' = "nil" /\ savers' = 0
  /\ recorder' = [r \in Recorders |-> NotRecording]
  /\ UNCHANGED <<statDisk, today, retentionDays, statStarts, records>>

(* wtmcpctl stats reset removes the file; a running server is not told.   *)
StatsReset ==
  /\ statDisk.kind # "none" /\ statDisk' = NoStats
  /\ owed' = [t \in StatTools |-> 0]
  /\ UNCHANGED <<statServer, col, persistTmr, savers, recorder, today,
                 retentionDays, statStarts, records>>

Midnight ==
  /\ today < MaxDay /\ today' = today + 1
  /\ UNCHANGED <<statServer, col, statDisk, persistTmr, savers, recorder,
                 retentionDays, statStarts, records, owed>>

StatNext ==
  \/ StartStats \/ TimerFires \/ TimerSave \/ CloseFlag \/ CloseFlush
  \/ StatsReset \/ Midnight
  \/ \E crash \in BOOLEAN : Exit(crash)
  \/ \E p \in PluginsOfTools : RemovePlugin(p)
  \/ \E r \in Recorders : Begin(r) \/ CheckClosed(r) \/ Commit(r)

(* The runtime runs every goroutine and every timer that is ready.  Nothing *)
(* obliges a server to close, a user to call tools or the clock to pass      *)
(* midnight.                                                                *)
StatFairness == WF_statVars(TimerFires \/ TimerSave \/ CloseFlush)

StatSpec == StatInit /\ [][StatNext]_statVars /\ StatFairness

-----------------------------------------------------------------------------
(* Properties *)

(* All views of one collector agree, through concurrent calls, midnight,   *)
(* pruning, crashes and reloads: with every day kept, the totals of a tool *)
(* are what AggregateDailyRange finds over all days, in memory and in the  *)
(* file alike; with retention they are never less; the plugins' totals sum *)
(* up to the tools' totals.                                                *)
Agrees(c) ==
  /\ \A t \in StatTools :
       LET all == AggregateDailyRange(c.daily, 0, MaxDay, t)
       IN  IF retentionDays = 0 THEN c.agg[t] = all
           ELSE all.calls <= c.agg[t].calls /\ all.max <= c.agg[t].max
  /\ SumFunction([p \in PluginsOfTools |-> PluginSummary(c, p)])
       = SumFunction([t \in StatTools |-> c.agg[t].calls])
ViewsAgree ==
  Agrees(col) /\ (statDisk.kind = "snapshot" => Agrees(statDisk.col))

(* A call that was recorded before the server was told to end reaches     *)
(* stats.json, by the timer or by Close, unless the server crashes, the    *)
(* write fails or the user resets the file first.                          *)
Saved(t, n) == statDisk.kind = "snapshot" /\ statDisk.col.agg[t].calls >= n
Settled(t) == owed[t] = 0 \/ Saved(t, owed[t])
AllSettled == \A t \in StatTools : Settled(t)
RecordedIsSaved == ~AllSettled ~> AllSettled

=============================================================================
