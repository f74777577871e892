---------------------------- MODULE Credentials ----------------------------
(***************************************************************************)
(* One credential group: internal/credentials and the credential commands  *)
(* of wtmcpctl (cmd/wtmcpctl/cred_ops.go).                                 *)
(*                                                                         *)
(* A credential lives in the OS keyring, in the group's env.d file, or in  *)
(* both.  The keyring cannot be enumerated, so .migration.yaml records     *)
(* which of its keys belong to the group and whether the group has been    *)
(* migrated.  Every wtmcpctl command is a process of its own: it loads     *)
(* .migration.yaml, changes the stores one call at a time, may fail or be  *)
(* killed between any two, and runs beside a server that holds a copy of   *)
(* .migration.yaml from its own start.                                     *)
(***************************************************************************)
EXTENDS Integers, FiniteSets

CONSTANTS
  CredKeys,     \* key names of the group
  TokenKeys,    \* those the server stores itself when it saves an OAuth token
  CredValues,
  Unquoted,     \* what loadGroup makes of a value: surrounding quotes go
  EnvVars,      \* keys that also resolve from the process environment
  MaxCommands   \* bound: wtmcpctl commands run

NoValue == "none"

ASSUME TokenKeysAssumption == TokenKeys \subseteq CredKeys
ASSUME UnquotedAssumption == Unquoted \in [CredValues -> CredValues]
ASSUME CommandsAssumption == MaxCommands \in Nat
ASSUME ValuesAssumption == CredValues # {} /\ NoValue \notin CredValues

VARIABLES
  keyring,   \* OS keyring entries of service "wtmcp.<group>"
  available, \* the keyring answers; it may stop and start at any moment
  envd,      \* text of env.d/<group>.env, per key
  mfile,     \* .migration.yaml
  mem,       \* MigrationState of the running command
  srv,       \* MigrationState of the server, loaded when it started
  stale,     \* history: the server has saved a copy that was out of date
  backup,    \* the encrypted backup file
  cmd,       \* the running command, or the last one
  cpc,       \* where it is; "idle": none is running
  creds,     \* the credentials it works on
  todo,      \* keys it has still to store
  cur,       \* the key it is at
  wrote,     \* keys it has written: `stored` of migrate, `restored` of restore
  result,    \* how it ended
  before,    \* history: the keyring when it started
  left       \* commands that may still be run

stores == <<keyring, envd, mfile, backup>>
credVars == <<keyring, available, envd, mfile, mem, srv, stale, backup, cmd,
              cpc, creds, todo, cur, wrote, result, before, left>>

----------------------------------------------------------------------------
NoKey == "nokey"
CredMap == [CredKeys -> CredValues \cup {NoValue}]
Nothing == [k \in CredKeys |-> NoValue]
KeysOf(m) == {k \in CredKeys : m[k] # NoValue}
Only(k, v) == [Nothing EXCEPT ![k] = v]

Migration == [migrated : BOOLEAN, tracked : SUBSET CredKeys]
NoMigration == [migrated |-> FALSE, tracked |-> {}]
NoCommand == [op |-> "none", opt |-> {}]
Backups == [kind : {"none", "torn"}]
             \cup [kind : {"whole"}, state : BOOLEAN, payload : CredMap]

(* EnvDStore.loadGroup: quotes around a value are not part of it. *)
LoadGroup == [k \in CredKeys |-> IF envd[k] = NoValue THEN NoValue
                                 ELSE Unquoted[envd[k]]]

(* KeyringStore.Get: a keyring that does not answer and a missing key are  *)
(* both errors.                                                            *)
KeyringHas(k) == available /\ keyring[k] # NoValue

(* Service.Get finds the key: keyring then environment for a migrated      *)
(* group, env.d first for another one.                                     *)
GetSource(m, k) ==
  CASE ~m.migrated /\ LoadGroup[k] # NoValue -> "env.d"
    [] (m.migrated \/ LoadGroup[k] = NoValue) /\ KeyringHas(k) -> "keyring"
    [] (m.migrated \/ LoadGroup[k] = NoValue) /\ ~KeyringHas(k) ->
         IF k \in EnvVars THEN "envvar" ELSE "notfound"

(* Service.GetAll, which is what the plugins get: env.d, overlaid by every *)
(* tracked key that the keyring yields.                                    *)
GetAll(m, answering) ==
  [k \in CredKeys |-> IF k \in m.tracked /\ answering /\ keyring[k] # NoValue
                      THEN keyring[k] ELSE LoadGroup[k]]

TypeOKCred ==
  /\ keyring \in CredMap /\ envd \in CredMap /\ creds \in CredMap
  /\ before \in CredMap
  /\ available \in BOOLEAN /\ stale \in BOOLEAN
  /\ mfile \in Migration /\ mem \in Migration /\ srv \in Migration
  /\ backup \in Backups
  /\ cmd \in [op : {"none", "set", "migrate", "import", "restore", "delete",
                    "export", "backup"}, opt : SUBSET {"merge", "mark",
                    "keyring", "env.d"}]
  /\ cpc \in {"idle", "backup", "pick", "set", "track", "mark", "remove",
              "undo", "kdel", "untrack", "edel", "ewrite"}
  /\ todo \subseteq CredKeys /\ wrote \subseteq CredKeys
  /\ cur \in CredKeys \cup {NoKey}
  /\ result \in {"none", "ok", "error", "rolled back", "killed"}
  /\ left \in 0..MaxCommands

----------------------------------------------------------------------------
(* The group as earlier commands left it.  Every combination occurs: set   *)
(* --keyring fills the keyring of an unmigrated group, migrate may keep    *)
(* the env.d file, and a save of .migration.yaml that failed was only      *)
(* logged, so a key may be stored and not tracked, or tracked and gone.    *)
CredInit ==
  /\ keyring \in CredMap /\ envd \in CredMap /\ mfile \in Migration
  /\ backup \in [kind : {"none"}]
                  \cup [kind : {"whole"}, state : {TRUE}, payload : CredMap]
  /\ available = TRUE /\ srv = mfile /\ stale = FALSE
  /\ cpc = "idle" /\ result = "none" /\ left = MaxCommands
  /\ cmd = NoCommand /\ mem = NoMigration /\ creds = Nothing
  /\ todo = {} /\ cur = NoKey /\ wrote = {} /\ before = Nothing

(* initCredService: every command loads .migration.yaml afresh.            *)
Command(op, opt, first, c) ==
  /\ cpc = "idle" /\ left > 0
  /\ left' = left - 1
  /\ mem' = mfile
  /\ cmd' = [op |-> op, opt |-> opt]
  /\ cpc' = first
  /\ creds' = c /\ todo' = KeysOf(c) /\ wrote' = {} /\ cur' = NoKey
  /\ before' = keyring /\ result' = "none"
  /\ UNCHANGED <<stores, available, srv, stale>>

(* The process ends and takes its memory with it.                          *)
End(r) ==
  /\ cpc' = "idle" /\ result' = r
  /\ cmd' = NoCommand /\ mem' = NoMigration /\ creds' = Nothing
  /\ todo' = {} /\ cur' = NoKey /\ wrote' = {} /\ before' = Nothing

Continue(p) == cpc' = p /\ UNCHANGED <<result, cmd, before>>

(* credentials set: refused unless the group is migrated or --keyring.     *)
RunCredSet(k, v, force) ==
  /\ force \/ mfile.migrated
  /\ Command("set", {}, "pick", Only(k, v))

(* credentials rotate: the key must resolve; an unmigrated group is        *)
(* refused by Service.Set.                                                 *)
RunCredRotate(k, v) ==
  /\ GetSource(mfile, k) # "notfound" /\ mfile.migrated
  /\ Command("set", {}, "pick", Only(k, v))

(* credentials migrate, after the questions: everything GetAll yields is   *)
(* stored in the keyring.                                                  *)
RunCredMigrate(withBackup) ==
  /\ ~mfile.migrated /\ available
  /\ KeysOf(GetAll(mfile, available)) # {}
  /\ Command("migrate", {}, IF withBackup THEN "backup" ELSE "pick",
             GetAll(mfile, available))

(* credentials import: refused unless migrated or --mark-migrated.         *)
RunCredImport(c, mark) ==
  /\ KeysOf(c) # {}
  /\ mark \/ mfile.migrated
  /\ Command("import", IF mark THEN {"mark"} ELSE {}, "pick", c)

(* credentials export to the default path, the group's env.d file.         *)
RunCredExport ==
  /\ KeysOf(GetAll(mfile, available)) # {}
  /\ Command("export", {}, "ewrite", GetAll(mfile, available))

RunCredBackup == Command("backup", {}, "backup", Nothing)

(* credentials restore: a torn file does not decrypt and changes nothing.  *)
RunCredRestore(merge) ==
  /\ backup.kind = "whole"
  /\ Command("restore", IF merge THEN {"merge"} ELSE {}, "pick",
             backup.payload)

(* credentials delete, from both stores or from one of them.               *)
RunCredDelete(k, where) ==
  Command("delete", where, IF where = {"env.d"} THEN "edel" ELSE "kdel",
          Only(k, CHOOSE v \in CredValues : TRUE))

----------------------------------------------------------------------------
(* MigrationState.save: temporary file and rename, so all of the state or  *)
(* none of it.                                                             *)
Save(m, ok) == mfile' = IF ok THEN m ELSE mfile

(* buildBackupPayload: only migrated groups, only tracked keys; a keyring  *)
(* that does not answer is an error, a missing key is skipped.             *)
BackupPayload ==
  [k \in CredKeys |-> IF mem.migrated /\ k \in mem.tracked
                      THEN keyring[k] ELSE NoValue]

BackupReadable == available \/ ~mem.migrated \/ mem.tracked = {}

(* CreateBackup.  os.WriteFile truncates, then writes: a failure or a kill *)
(* leaves a torn file.  migrate stops when the backup fails.               *)
CreateBackup ==
  /\ cpc = "backup"
  /\ \/ /\ BackupReadable
        /\ backup' = [kind |-> "whole", state |-> mem.migrated,
                      payload |-> BackupPayload]
        /\ IF cmd.op = "migrate"
           THEN Continue("pick") /\ UNCHANGED <<mem, creds, todo, cur, wrote>>
           ELSE End("ok")
     \/ BackupReadable /\ backup' = [kind |-> "torn"] /\ End("error")
     \/ ~BackupReadable /\ UNCHANGED backup /\ End("error")
  /\ UNCHANGED <<keyring, available, envd, mfile, srv, stale, left>>

(* The next key of the command's loop.  restore --merge goes on to track a *)
(* key that the keyring already has; an error counts as "not there".       *)
Present(k) == "merge" \in cmd.opt /\ KeyringHas(k)

(* Mutant: a key that is already there is left alone altogether.           *)
PickKeyUntracked(k) ==
  /\ cpc = "pick" /\ k \in todo
  /\ todo' = todo \ {k} /\ cur' = k
  /\ Continue(IF Present(k) THEN "pick" ELSE "set")
  /\ UNCHANGED <<stores, available, mem, srv, stale, creds, wrote, left>>

PickKey(k) ==
  /\ cpc = "pick" /\ k \in todo
  /\ todo' = todo \ {k} /\ cur' = k
  /\ Continue(IF Present(k) THEN "track" ELSE "set")
  /\ UNCHANGED <<stores, available, mem, srv, stale, creds, wrote, left>>

(* import: the user declines to overwrite a key that resolves.             *)
SkipKey(k) ==
  /\ cpc = "pick" /\ k \in todo /\ cmd.op = "import"
  /\ GetSource(mem, k) # "notfound"
  /\ todo' = todo \ {k}
  /\ Continue("pick")
  /\ UNCHANGED <<stores, available, mem, srv, stale, creds, cur, wrote, left>>

(* keyringStore.Set, from Service.Set and from RestoreBackup.              *)
StoreKey ==
  /\ cpc = "set" /\ available
  /\ keyring' = [keyring EXCEPT ![cur] = creds[cur]]
  /\ wrote' = wrote \cup {cur}
  /\ Continue("track")
  /\ UNCHANGED <<available, envd, mfile, mem, srv, stale, backup, creds, todo,
                 cur, left>>

(* migrate and restore delete what they wrote; set and import just fail.   *)
StoreFails ==
  /\ cpc = "set" /\ ~available
  /\ IF cmd.op \in {"migrate", "restore"}
     THEN Continue("undo") /\ UNCHANGED <<mem, creds, todo, cur, wrote>>
     ELSE End("error")
  /\ UNCHANGED <<stores, available, srv, stale, left>>

(* TrackKey: nothing is saved when the key is tracked already.  Service.Set *)
(* only logs a failed save, restore gives up.                              *)
TrackKey(ok) ==
  LET m == [mem EXCEPT !.tracked = @ \cup {cur}] IN
  /\ cpc = "track"
  /\ IF m = mem THEN UNCHANGED mfile ELSE Save(m, ok)
  /\ IF ~ok /\ m # mem /\ cmd.op = "restore" THEN End("error")
     ELSE Continue("pick") /\ mem' = m /\ UNCHANGED <<creds, todo, cur, wrote>>
  /\ UNCHANGED <<keyring, available, envd, srv, stale, backup, left>>

(* Mutant: migrate only logs a failed save and goes on to the env.d file.  *)
MarkMigratedLogged(ok) ==
  /\ cpc = "mark"
  /\ Save([mem EXCEPT !.migrated = TRUE], ok)
  /\ IF cmd.op = "migrate"
     THEN /\ Continue("remove") /\ mem' = [mem EXCEPT !.migrated = TRUE]
          /\ UNCHANGED <<creds, todo, cur, wrote>>
     ELSE End("ok")
  /\ UNCHANGED <<keyring, available, envd, srv, stale, backup, left>>

(* MarkMigrated: one save of the whole state, tracked keys included.       *)
MarkMigrated(ok) ==
  LET m == [mem EXCEPT !.migrated = TRUE] IN
  /\ cpc = "mark"
  /\ IF m = mem THEN UNCHANGED mfile ELSE Save(m, ok)
  /\ CASE ~ok /\ m # mem -> End("error")
       [] (ok \/ m = mem) /\ cmd.op = "migrate" ->
            Continue("remove") /\ mem' = m /\ UNCHANGED <<creds, todo, cur, wrote>>
       [] (ok \/ m = mem) /\ cmd.op # "migrate" -> End("ok")
  /\ UNCHANGED <<keyring, available, envd, srv, stale, backup, left>>

(* All keys are done: migrate marks the group, import when asked to,       *)
(* restore when the backup lists it.                                       *)
KeysDone ==
  /\ cpc = "pick" /\ todo = {}
  /\ IF \/ cmd.op = "migrate"
        \/ cmd.op = "restore" /\ backup.state
        \/ "mark" \in cmd.opt /\ ~mem.migrated
     THEN Continue("mark") /\ UNCHANGED <<mem, creds, todo, cur, wrote>>
     ELSE End("ok")
  /\ UNCHANGED <<stores, available, srv, stale, left>>

(* migrate removes the env.d file, or leaves it at the user's wish.        *)
RemoveEnvD(yes) ==
  /\ cpc = "remove"
  /\ envd' = IF yes THEN Nothing ELSE envd
  /\ End("ok")
  /\ UNCHANGED <<keyring, available, mfile, srv, stale, backup, left>>

(* The rollback takes back the keys one by one and ignores failures;       *)
(* migrate untracks them too, restore does not.                            *)
Undo(k) ==
  /\ cpc = "undo" /\ k \in wrote
  /\ wrote' = wrote \ {k} /\ cur' = k
  /\ keyring' = IF available THEN [keyring EXCEPT ![k] = NoValue] ELSE keyring
  /\ Continue(IF cmd.op = "migrate" /\ KeyringHas(k) THEN "untrack" ELSE "undo")
  /\ UNCHANGED <<available, envd, mfile, mem, srv, stale, backup, creds, todo,
                 left>>

UndoDone ==
  /\ cpc = "undo" /\ wrote = {}
  /\ End("rolled back")
  /\ UNCHANGED <<stores, available, srv, stale, left>>

(* UntrackKey: a failed save is only logged.                               *)
UntrackKey(ok) ==
  LET m == [mem EXCEPT !.tracked = @ \ {cur}] IN
  /\ cpc = "untrack"
  /\ IF m = mem THEN UNCHANGED mfile ELSE Save(m, ok)
  /\ IF cmd.op = "delete" /\ cmd.opt # {} THEN End("ok")
     ELSE /\ Continue(IF cmd.op = "migrate" THEN "undo" ELSE "edel")
          /\ mem' = m /\ UNCHANGED <<creds, todo, cur, wrote>>
  /\ UNCHANGED <<keyring, available, envd, srv, stale, backup, left>>

(* Service.Delete and DeleteFromKeyring: the keyring part.  Only the       *)
(* latter reports an error of the keyring.                                 *)
DeleteFromKeyring(k) ==
  /\ cpc = "kdel" /\ k \in todo
  /\ keyring' = IF available THEN [keyring EXCEPT ![k] = NoValue] ELSE keyring
  /\ IF ~KeyringHas(k) /\ cmd.opt # {} THEN End("error")
     ELSE /\ Continue(IF KeyringHas(k) THEN "untrack" ELSE "edel")
          /\ cur' = k
          /\ wrote' = IF KeyringHas(k) THEN {k} ELSE {}
          /\ UNCHANGED <<mem, creds, todo>>
  /\ UNCHANGED <<available, envd, mfile, srv, stale, backup, left>>

(* EnvDStore.Delete reads the file; the rewrite is a step of its own.  The *)
(* command succeeds when one of the two stores had the key.                *)
DeleteFromEnvD(k) ==
  /\ cpc = "edel" /\ k \in todo
  /\ IF envd[k] # NoValue
     THEN /\ Continue("ewrite") /\ creds' = [envd EXCEPT ![k] = NoValue]
          /\ UNCHANGED <<mem, todo, cur, wrote>>
     ELSE End(IF wrote # {} THEN "ok" ELSE "error")
  /\ UNCHANGED <<stores, available, srv, stale, left>>

(* os.WriteFile on the env.d file, by delete and export.  It truncates     *)
(* first, so that a failure or a kill keeps a part of the text.            *)
WriteEnvD ==
  /\ cpc = "ewrite"
  /\ \/ envd' = creds /\ End("ok")
     \/ \E kept \in SUBSET KeysOf(creds) :
          /\ envd' = [k \in CredKeys |-> IF k \in kept THEN creds[k]
                                         ELSE NoValue]
          /\ End("error")
  /\ UNCHANGED <<keyring, available, mfile, srv, stale, backup, left>>

(* The command is killed between two calls.                                *)
Killed ==
  /\ cpc # "idle"
  /\ End("killed")
  /\ UNCHANGED <<stores, available, srv, stale, left>>

----------------------------------------------------------------------------
(* The keyring daemon goes away or comes back (external).                  *)
KeyringToggles ==
  /\ available' = ~available
  /\ UNCHANGED <<stores, mem, srv, stale, cmd, cpc, creds, todo, cur, wrote,
                 result, before, left>>

(* The server (re)starts: NewService loads .migration.yaml.                *)
ServerStarts ==
  /\ srv # mfile
  /\ srv' = mfile
  /\ UNCHANGED <<stores, available, mem, stale, cmd, cpc, creds, todo, cur,
                 wrote, result, before, left>>

(* SaveToken in the server stores a token in the keyring and tracks its    *)
(* key: save writes the server's whole copy of the migration state.        *)
ServerTracks(k, v) ==
  /\ available /\ k \in TokenKeys
  /\ keyring' = [keyring EXCEPT ![k] = v]
  /\ srv' = [srv EXCEPT !.tracked = @ \cup {k}]
  /\ IF k \in srv.tracked THEN UNCHANGED <<mfile, stale>>
     ELSE mfile' = srv' /\ stale' = (stale \/ srv # mfile)
  /\ UNCHANGED <<envd, available, mem, backup, cmd, cpc, creds, todo, cur,
                 wrote, result, before, left>>

CommandStep ==
  \/ CreateBackup \/ StoreKey \/ StoreFails \/ KeysDone \/ UndoDone
  \/ WriteEnvD
  \/ \E k \in CredKeys : \/ PickKey(k) \/ SkipKey(k) \/ Undo(k)
                         \/ DeleteFromKeyring(k) \/ DeleteFromEnvD(k)
  \/ \E ok \in BOOLEAN : \/ TrackKey(ok) \/ MarkMigrated(ok) \/ RemoveEnvD(ok)
                         \/ UntrackKey(ok)

Commands ==
  \/ \E k \in CredKeys, v \in CredValues :
       \/ \E force \in BOOLEAN : RunCredSet(k, v, force)
       \/ RunCredRotate(k, v)
  \/ \E yes \in BOOLEAN : RunCredMigrate(yes) \/ RunCredRestore(yes)
  \/ \E c \in CredMap, mark \in BOOLEAN : RunCredImport(c, mark)
  \/ RunCredExport \/ RunCredBackup
  \/ \E k \in CredKeys, where \in {{}, {"keyring"}, {"env.d"}} :
       RunCredDelete(k, where)

CredNext ==
  \/ Commands \/ CommandStep \/ Killed
  \/ KeyringToggles \/ ServerStarts
  \/ \E k \in TokenKeys, v \in CredValues : ServerTracks(k, v)

CredSpec == CredInit /\ [][CredNext]_credVars

----------------------------------------------------------------------------
(* While a migration goes forward, whatever fails and wherever it is       *)
(* killed, a server started now would give plugins exactly the values that *)
(* the migration read, before and after the env.d file is removed; tokens  *)
(* that the server itself writes meanwhile excepted, and as long as the    *)
(* server has not overwritten .migration.yaml with an old copy             *)
(* (runCredMigrate, Service.GetAll).                                       *)
Forward == {"backup", "pick", "set", "track", "mark", "remove"}
MigrationKeepsAll ==
  [][cmd.op = "migrate" /\ cpc \in Forward /\ cpc' # "undo" /\ ~stale' =>
       \A k \in KeysOf(creds) \ TokenKeys :
         GetAll(mfile, TRUE)'[k] = creds[k]]_credVars

(* A restore that reports success has put every key of the backup in the   *)
(* keyring, recorded it in .migration.yaml so that the next server hands   *)
(* it to plugins and the next backup includes it, and marked the group     *)
(* migrated; with --overwrite the values are the backup's (RestoreBackup). *)
RestoreIsComplete ==
  [][cmd.op = "restore" /\ result' = "ok" /\ ~stale' =>
       /\ \A k \in KeysOf(backup.payload) :
            /\ keyring'[k] # NoValue /\ k \in mfile'.tracked
            /\ cmd.opt = {} /\ k \notin TokenKeys =>
                 keyring'[k] = backup.payload[k]
       /\ backup.state => mfile'.migrated]_credVars

=============================================================================
