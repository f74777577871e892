------------------------------- MODULE Vault -------------------------------
(***************************************************************************)
(* Encrypted configuration: internal/secrets, internal/config/vault.go and *)
(* env.go, the manager's credential files and wtmcpctl vault.  A file of   *)
(* env.d or of a group's credentials directory is plaintext or encrypted   *)
(* in one of two formats; the wtmcp format binds it to a context, the name *)
(* of a credential group.                                                  *)
(*                                                                         *)
(* Passwords travel in byte slices that are overwritten after use, so who  *)
(* shares a slice with whom matters: `heap` holds the contents of slices.  *)
(***************************************************************************)
EXTENDS Integers, Sequences, FiniteSets

CONSTANTS
  VaultPlugins,    \* plugins: [name, group]
  Passwords,
  VaultIds,        \* labels of named passwords of the ansible format
  VaultLoaders,    \* goroutines of the server that load a file
  MaxVaultSteps    \* bound: loads, commands and changes by the user

DefaultId == "default"
VaultKeys == VaultIds \cup {DefaultId}
VaultGroups == {p.group : p \in VaultPlugins}
VaultPaths == [dir : {"env.d", "credentials"}, group : VaultGroups]
NoPassword == "none"
Unreadable == "unreadable"   \* a link, another owner, open permissions, empty
Zeroed == "zeroed"
CachedSlice == "cached"

(* The slices of the goroutines, of the cached variables and of the        *)
(* decryptor are different slices, and no password is one of the marks.    *)
ASSUME VaultAssumption ==
  /\ VaultLoaders \cap (VaultKeys \cup {CachedSlice}) = {}
  /\ CachedSlice \notin VaultKeys
  /\ Passwords \cap {NoPassword, Unreadable, Zeroed} = {}

VARIABLES
  vfile,        \* [VaultPaths -> file]
  passwordFile, \* [VaultKeys -> Passwords, NoPassword or Unreadable]
  environ,      \* [VaultKeys -> Passwords or NoPassword]: WTMCP_VAULT_PASSWORD...
  envCache, consumed,   \* keys of the resolver's maps
  pinentry,     \* "up" | "dead" | "none"
  passwordCached, decryptMu,
  heap,         \* [slices -> Passwords, NoPassword or Zeroed]
  loader,
  vaultSteps
vaultVars == <<vfile, passwordFile, environ, envCache, consumed, pinentry,
               passwordCached, decryptMu, heap, loader, vaultSteps>>
userVars == <<vfile, passwordFile>>

Slices == {CachedSlice} \cup VaultKeys \cup VaultLoaders
PlainFile == [fmt |-> "plain"]
NotLoading == [pc |-> "idle"]
Unlocked == "free"

VaultInit ==
  /\ vfile = [p \in VaultPaths |-> PlainFile]
  /\ passwordFile \in [VaultKeys -> Passwords \cup {NoPassword}]
  /\ environ \in [VaultKeys -> Passwords \cup {NoPassword}]
  /\ envCache = {} /\ consumed = {}
  /\ pinentry \in {"up", "none"} /\ passwordCached = FALSE /\ decryptMu = Unlocked
  /\ heap = [s \in Slices |-> NoPassword]
  /\ loader = [l \in VaultLoaders |-> NotLoading] /\ vaultSteps = 0
Counted == vaultSteps < MaxVaultSteps /\ vaultSteps' = vaultSteps + 1

-----------------------------------------------------------------------------
(* Loading a file *)

GoOn(l, pc) == loader' = [loader EXCEPT ![l].pc = pc]
FinishLoad(l, ok) == loader' = [loader EXCEPT ![l].pc = "done", ![l].ok = ok]

(* Detected by its header; a plaintext or missing file needs no password, *)
(* a refused one (a link, open permissions, too large) is an error.       *)
BeginLoad(l, p, context) ==
  /\ loader[l].pc \in {"idle", "done"} /\ Counted
  /\ LET f == vfile[p]
         encrypted == f.fmt \in {"ansible", "wtmcp"} IN
       loader' = [loader EXCEPT ![l] =
         [pc |-> IF encrypted THEN f.fmt ELSE "done", path |-> p, as |-> context,
          file |-> f, slice |-> l, gave |-> NoPassword, ok |-> f.fmt # "refused"]]
  /\ UNCHANGED <<userVars, environ, envCache, consumed, pinentry, passwordCached,
                 decryptMu, heap>>

(* LoadEnvGroups and LoadSingleEnvGroup: the context is the file's name. *)
LoadEnvFile(l, g) == BeginLoad(l, [dir |-> "env.d", group |-> g], g)

(* decryptCredentialIfVault and buildShadowCredentialsDir: the context is  *)
(* the name of the plugin that is being prepared.                          *)
LoadCredential(l, plugin) ==
  BeginLoad(l, [dir |-> "credentials", group |-> plugin.group], plugin.name)

(* readEnvCached: the value read first is kept and the variable unset; an  *)
(* unset variable is never looked at again.                                *)
EnvValue(k) ==
  IF k \in envCache THEN heap[k]
  ELSE IF k \in consumed THEN NoPassword ELSE environ[k]

(* Where the resolver looks for an id's password, in order.  The second    *)
(* part of each pair tells whether the value is a slice of the cache.      *)
PasswordSources(id) ==
  LET own(k) == <<[v |-> EnvValue(k), key |-> k], [v |-> passwordFile[k], key |-> ""]>>
  IN IF id = DefaultId THEN own(DefaultId) ELSE own(id) \o own(DefaultId)
FoundPassword(id) ==
  LET c == PasswordSources(id)
      hits == {i \in DOMAIN c : c[i].v # NoPassword}
  IN IF hits = {} THEN [v |-> NoPassword, key |-> ""]
     ELSE c[CHOOSE i \in hits : \A j \in hits : i <= j]
AskedVars(id) ==
  IF id = DefaultId \/ EnvValue(id) # NoPassword \/ passwordFile[id] # NoPassword
  THEN {id} ELSE {id, DefaultId}

(* The heap once the variables in `asked` have been moved to the cache. *)
MovedVars(asked) ==
  [s \in Slices |-> IF s \in asked \ (envCache \cup consumed) THEN environ[s] ELSE heap[s]]
ReadEnvCached(asked) ==
  LET new == {k \in asked \ (envCache \cup consumed) : environ[k] # NoPassword} IN
    /\ envCache' = envCache \cup new
    /\ consumed' = consumed \cup asked
    /\ environ' = [k \in VaultKeys |-> IF k \in new THEN NoPassword ELSE environ[k]]

(* Mutant of Slice: the cached slice itself is handed out. *)
SliceShared(l, key) ==
  IF key = "" THEN l ELSE key

(* What a caller gets is a copy of its own. *)
Slice(l, key) ==
  l

HandOut(l, found) ==
  loader' = [loader EXCEPT ![l].pc = "decrypt", ![l].gave = found.v,
                           ![l].slice = Slice(l, found.key)]

(* decryptAnsibleVault: the resolver, under its mutex. *)
ResolveAnsible(l) ==
  /\ loader[l].pc = "ansible"
  /\ LET id == loader[l].file.id
         found == FoundPassword(id) IN
       /\ ReadEnvCached(AskedVars(id))
       /\ IF found.v \in Passwords
          THEN /\ heap' = [MovedVars(AskedVars(id)) EXCEPT ![l] = found.v]
               /\ HandOut(l, found)
          ELSE heap' = MovedVars(AskedVars(id)) /\ FinishLoad(l, FALSE)
  /\ UNCHANGED <<userVars, pinentry, passwordCached, decryptMu, vaultSteps>>

(* resolveWtmcpPassword, which holds the decryptor's mutex while the user  *)
(* is asked.                                                               *)
ResolveCached(l) ==
  /\ loader[l].pc = "wtmcp" /\ decryptMu = Unlocked /\ passwordCached
  /\ heap' = [heap EXCEPT ![l] = heap[CachedSlice]]
  /\ HandOut(l, [v |-> heap[CachedSlice], key |-> CachedSlice])
  /\ UNCHANGED <<userVars, environ, envCache, consumed, pinentry, passwordCached,
                 decryptMu, vaultSteps>>

LockDecryptor(l) ==
  /\ loader[l].pc = "wtmcp" /\ decryptMu = Unlocked /\ ~passwordCached
  /\ decryptMu' = l
  /\ GoOn(l, IF pinentry = "up" THEN "prompt" ELSE "fallback")
  /\ UNCHANGED <<userVars, environ, envCache, consumed, pinentry, passwordCached,
                 heap, vaultSteps>>

(* GetPassword: the user types a password, right or wrong. *)
Typed(l, pw) ==
  /\ loader[l].pc = "prompt"
  /\ heap' = [heap EXCEPT ![CachedSlice] = pw, ![l] = pw]
  /\ passwordCached' = TRUE /\ decryptMu' = Unlocked
  /\ HandOut(l, [v |-> pw, key |-> CachedSlice])
  /\ UNCHANGED <<userVars, environ, envCache, consumed, pinentry, vaultSteps>>

PromptCancelled(l) ==
  /\ loader[l].pc = "prompt" /\ FinishLoad(l, FALSE) /\ decryptMu' = Unlocked
  /\ UNCHANGED <<userVars, environ, envCache, consumed, pinentry, passwordCached,
                 heap, vaultSteps>>

(* An empty answer, an error, or no answer in time, which kills pinentry. *)
PromptFails(l) ==
  /\ loader[l].pc = "prompt" /\ GoOn(l, "fallback")
  /\ pinentry' \in {"up", "dead"}
  /\ UNCHANGED <<userVars, environ, envCache, consumed, passwordCached,
                 decryptMu, heap, vaultSteps>>

Fallback(l) ==
  /\ loader[l].pc = "fallback"
  /\ LET found == FoundPassword(DefaultId) IN
       /\ ReadEnvCached({DefaultId})
       /\ IF found.v \in Passwords
          THEN /\ heap' = [MovedVars({DefaultId}) EXCEPT ![l] = found.v, ![CachedSlice] = found.v]
               /\ passwordCached' = TRUE /\ HandOut(l, [v |-> found.v, key |-> CachedSlice])
          ELSE heap' = MovedVars({DefaultId}) /\ FinishLoad(l, FALSE) /\ UNCHANGED passwordCached
  /\ decryptMu' = Unlocked
  /\ UNCHANGED <<userVars, pinentry, vaultSteps>>

(* vault.Decrypt and wtmcpvault.DecryptPassword authenticate the password  *)
(* and, in the wtmcp format, the context.                                  *)
Opens(f, pw, context) == f.pw = pw /\ (f.fmt = "wtmcp" => f.context = context)

(* Decrypt, whose deferred zeroBytes overwrites the password. *)
Decrypt(l) ==
  /\ loader[l].pc = "decrypt"
  /\ LET me == loader[l] IN
       /\ FinishLoad(l, Opens(me.file, heap[me.slice], me.as))
       /\ heap' = [heap EXCEPT ![me.slice] = Zeroed]
  /\ UNCHANGED <<userVars, environ, envCache, consumed, pinentry, passwordCached,
                 decryptMu, vaultSteps>>

(* The deferred Close of the decryptor and then of the resolver, while a   *)
(* reload may still be loading.  A default password file that an           *)
(* environment variable named is forgotten with the variable.              *)
CloseVault ==
  /\ decryptMu = Unlocked /\ Counted
  /\ heap' = [s \in Slices |-> IF s \in envCache \/ (s = CachedSlice /\ passwordCached)
                               THEN Zeroed ELSE heap[s]]
  /\ passwordCached' = FALSE /\ pinentry' = "none" /\ envCache' = {}
  /\ passwordFile' \in {passwordFile, [passwordFile EXCEPT ![DefaultId] = NoPassword]}
  /\ UNCHANGED <<vfile, environ, consumed, decryptMu, loader>>

-----------------------------------------------------------------------------
(* wtmcpctl vault and the user *)

ServerUnchanged ==
  UNCHANGED <<environ, envCache, consumed, pinentry, passwordCached, decryptMu,
              heap, loader>>

(* Mutant of groupFromPath: the parent directory whatever the file is. *)
groupFromPathDir(p) ==
  IF p.dir = "env.d" THEN "env.d" ELSE p.group

(* The stem of an .env file, the parent directory of any other. *)
groupFromPath(p) ==
  p.group

(* encrypt refuses an encrypted file; decrypt needs the right password.    *)
(* Both replace the file by a rename.  view and --check change nothing.    *)
VaultEncrypt(p, pw) ==
  /\ vfile[p].fmt = "plain" /\ Counted
  /\ \E f \in [fmt : {"ansible"}, id : VaultKeys, pw : {pw}, for : {p.group}]
               \cup [fmt : {"wtmcp"}, context : {groupFromPath(p)}, pw : {pw},
                     for : {p.group}] :
       vfile' = [vfile EXCEPT ![p] = f]
  /\ ServerUnchanged /\ UNCHANGED passwordFile
VaultDecrypt(p, pw) ==
  /\ vfile[p].fmt \in {"ansible", "wtmcp"} /\ Counted
  /\ Opens(vfile[p], pw, groupFromPath(p))
  /\ vfile' = [vfile EXCEPT ![p] = PlainFile]
  /\ ServerUnchanged /\ UNCHANGED passwordFile

(* The user moves a file elsewhere, or makes it one the server refuses. *)
MoveFile(p, q) ==
  /\ p # q /\ vfile[p].fmt \in {"ansible", "wtmcp"} /\ Counted
  /\ vfile' = [vfile EXCEPT ![q] = vfile[p], ![p] = [fmt |-> "absent"]]
  /\ ServerUnchanged /\ UNCHANGED passwordFile
OpenUp(p) ==
  /\ vfile[p].fmt = "plain" /\ p.dir = "env.d" /\ Counted
  /\ vfile' = [vfile EXCEPT ![p] = [fmt |-> "refused"]]
  /\ ServerUnchanged /\ UNCHANGED passwordFile
RotateFile(k, v) ==
  /\ passwordFile[k] \notin {NoPassword, v} /\ Counted
  /\ passwordFile' = [passwordFile EXCEPT ![k] = v]
  /\ ServerUnchanged /\ UNCHANGED vfile

-----------------------------------------------------------------------------
LoadStep(l) ==
  \/ \E g \in VaultGroups : LoadEnvFile(l, g)
  \/ \E p \in VaultPlugins : LoadCredential(l, p)
  \/ ResolveAnsible(l) \/ ResolveCached(l) \/ LockDecryptor(l)
  \/ \E pw \in Passwords : Typed(l, pw)
  \/ PromptCancelled(l) \/ PromptFails(l) \/ Fallback(l) \/ Decrypt(l)
VaultNext ==
  \/ \E l \in VaultLoaders : LoadStep(l)
  \/ CloseVault
  \/ \E p \in VaultPaths, pw \in Passwords : VaultEncrypt(p, pw) \/ VaultDecrypt(p, pw)
  \/ \E p, q \in VaultPaths : MoveFile(p, q)
  \/ \E p \in VaultPaths : OpenUp(p)
  \/ \E k \in VaultKeys, v \in Passwords \cup {Unreadable} : RotateFile(k, v)
VaultSpec == VaultInit /\ [][VaultNext]_vaultVars

-----------------------------------------------------------------------------
(* An encrypted file opens exactly when the password that was supplied is  *)
(* the one it was encrypted with and it was encrypted for the group it is  *)
(* loaded for, and what is supplied is always a password: none is          *)
(* overwritten while someone still needs it, whatever loads and closes in  *)
(* between (resolveWtmcpPassword, readEnvCached, Close), wtmcpctl and the  *)
(* server agree on the context of a file, and a file moved to another      *)
(* group is refused.  The manager loads credential files under the         *)
(* plugin's name; here it is the group's.                                  *)
Tried(l) == loader[l].pc = "done" /\ loader[l].gave # NoPassword
OpensExactly ==
  \A l \in VaultLoaders :
    LET me == loader[l] IN
      Tried(l) =>
        /\ me.gave \in Passwords
        /\ (me.path.dir = "credentials" => me.as = me.path.group) =>
             (me.ok <=> /\ me.gave = me.file.pw
                        /\ (me.file.fmt = "wtmcp" => me.file.for = me.path.group))

(* groupFromPath: "It mirrors the runtime derivation ... credentials/jira/ *)
(* token.json -> jira (parent directory)": a credential file encrypted in  *)
(* place opens for every plugin of its group, given the right password.    *)
GroupFilesOpen ==
  \A l \in VaultLoaders :
    LET me == loader[l] IN
      (Tried(l) /\ me.gave = me.file.pw /\ me.file.for = me.path.group) => me.ok

=============================================================================
