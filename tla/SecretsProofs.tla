--------------------------- MODULE SecretsProofs ---------------------------
(* Proofs about the secrets a server opens and the credentials wtmcpctl    *)
(* moves: the inductive invariants of Vault and of Credentials, and their  *)
(* properties OpensExactly, MigrationKeepsAll and RestoreIsComplete.       *)
EXTENDS Credentials, Vault, TLAPS

-----------------------------------------------------------------------------
(* Vault: the types *)

VaultNames == VaultGroups \cup {p.name : p \in VaultPlugins}
VaultFiles ==
  [fmt : {"plain", "absent", "refused"}]
    \cup [fmt : {"ansible"}, id : VaultKeys, pw : Passwords, for : VaultGroups]
    \cup [fmt : {"wtmcp"}, context : VaultGroups, pw : Passwords, for : VaultGroups]
Secrets == Passwords \cup {NoPassword}
Loads ==
  [pc : {"ansible", "wtmcp", "prompt", "fallback", "decrypt", "done"},
   path : VaultPaths, as : VaultNames, file : VaultFiles, slice : Slices,
   gave : Secrets, ok : BOOLEAN]

TypeOKVault ==
  /\ vfile \in [VaultPaths -> VaultFiles]
  /\ environ \in [VaultKeys -> Secrets]
  /\ envCache \subseteq VaultKeys
  /\ passwordCached \in BOOLEAN
  /\ heap \in [Slices -> Secrets \cup {Zeroed}]
  /\ DOMAIN loader = VaultLoaders

(* The wtmcp format binds a file to the group it was encrypted for. *)
BoundFile(f) == f.fmt = "wtmcp" => f.context = f.for

(* What is known of a load f whose goroutine's own slice holds v: the      *)
(* password it was given is there until it has used it.                    *)
LoadFits(l, f, v) ==
  \/ f = NotLoading
  \/ /\ f \in Loads /\ BoundFile(f.file)
     /\ f.path.dir = "env.d" => f.as = f.path.group
     /\ f.pc \in {"ansible", "wtmcp", "prompt", "fallback"} =>
          f.gave = NoPassword /\ f.file.fmt \in {"ansible", "wtmcp"}
     /\ f.pc = "ansible" => f.file.fmt = "ansible"
     /\ f.pc = "decrypt" =>
          /\ f.slice = l /\ v = f.gave /\ f.gave \in Passwords
          /\ f.file.fmt \in {"ansible", "wtmcp"}
     /\ f.pc = "done" /\ f.gave # NoPassword =>
          /\ f.file.fmt \in {"ansible", "wtmcp"}
          /\ f.ok <=> Opens(f.file, f.gave, f.as)

VaultInv ==
  /\ TypeOKVault
  /\ \A p \in VaultPaths : BoundFile(vfile[p])
  /\ passwordCached => heap[CachedSlice] \in Passwords
  /\ \A l \in VaultLoaders : LoadFits(l, loader[l], heap[l])

LEMMA SlicesDiffer ==
  /\ \A l \in VaultLoaders : l \notin VaultKeys /\ l # CachedSlice /\ l \in Slices
  /\ CachedSlice \notin VaultKeys /\ CachedSlice \in Slices
  /\ VaultKeys \subseteq Slices
  /\ \A pw \in Passwords : pw # NoPassword /\ pw # Zeroed
BY VaultAssumption DEF Slices

LEMMA InitVault == VaultInit => VaultInv
<1> SUFFICES ASSUME VaultInit PROVE VaultInv OBVIOUS
<1>1. PlainFile \in VaultFiles /\ PlainFile.fmt = "plain" BY DEF PlainFile, VaultFiles
<1>2. TypeOKVault
  BY <1>1 DEF VaultInit, TypeOKVault, Secrets
<1>3. \A p \in VaultPaths : BoundFile(vfile[p])
  BY <1>1 DEF VaultInit, BoundFile
<1>4. \A l \in VaultLoaders : LoadFits(l, loader[l], heap[l])
  BY DEF VaultInit, LoadFits
<1> QED BY <1>2, <1>3, <1>4 DEF VaultInit, VaultInv

(* A step of one loader, which touches no other loader's slice. *)
LEMMA LoaderStep ==
  ASSUME VaultInv, NEW l \in VaultLoaders, NEW f, LoadFits(l, f, heap'[l]),
         loader' = [loader EXCEPT ![l] = f],
         \A m \in VaultLoaders \ {l} : heap'[m] = heap[m],
         heap' \in [Slices -> Secrets \cup {Zeroed}],
         passwordCached' \in BOOLEAN,
         passwordCached' => heap'[CachedSlice] \in Passwords,
         UNCHANGED vfile,
         environ' \in [VaultKeys -> Secrets], envCache' \subseteq VaultKeys
  PROVE  VaultInv'
<1>1. loader'[l] = f /\ \A m \in VaultLoaders \ {l} : loader'[m] = loader[m]
  BY DEF VaultInv, TypeOKVault
<1>2. \A m \in VaultLoaders : LoadFits(m, loader'[m], heap'[m])
  <2> TAKE m \in VaultLoaders
  <2>1. CASE m = l BY <1>1, <2>1
  <2>2. CASE m # l BY <1>1, <2>2 DEF VaultInv
  <2> QED BY <2>1, <2>2
<1>3. TypeOKVault' BY DEF VaultInv, TypeOKVault
<1> QED BY <1>2, <1>3 DEF VaultInv, LoadFits, Opens, BoundFile

(* Moving variables to the cache touches only the slices of the variables. *)
LEMMA MovedOnly ==
  ASSUME VaultInv, NEW asked \in SUBSET VaultKeys
  PROVE  /\ MovedVars(asked) \in [Slices -> Secrets \cup {Zeroed}]
         /\ \A s \in VaultLoaders \cup {CachedSlice} : MovedVars(asked)[s] = heap[s]
         /\ ReadEnvCached(asked) => /\ environ' \in [VaultKeys -> Secrets]
                                    /\ envCache' \subseteq VaultKeys
<1>1. MovedVars(asked) \in [Slices -> Secrets \cup {Zeroed}]
  BY DEF VaultInv, TypeOKVault, MovedVars
<1>2. \A s \in VaultLoaders \cup {CachedSlice} : MovedVars(asked)[s] = heap[s]
  BY SlicesDiffer DEF MovedVars
<1>3. ReadEnvCached(asked) =>
        environ' \in [VaultKeys -> Secrets] /\ envCache' \subseteq VaultKeys
  BY DEF VaultInv, TypeOKVault, ReadEnvCached, Secrets
<1> QED BY <1>1, <1>2, <1>3

LEMMA AskedKeys ==
  ASSUME NEW id \in VaultKeys
  PROVE  AskedVars(id) \in SUBSET VaultKeys /\ {DefaultId} \in SUBSET VaultKeys
BY DEF AskedVars, VaultKeys

-----------------------------------------------------------------------------
(* Vault: the steps *)

LEMMA BeginLoadKeeps ==
  ASSUME VaultInv, NEW l \in VaultLoaders, NEW p \in VaultPaths,
         NEW context \in VaultNames, p.dir = "env.d" => context = p.group,
         BeginLoad(l, p, context)
  PROVE  VaultInv'
<1>1. PICK f : f = [pc |-> IF vfile[p].fmt \in {"ansible", "wtmcp"} THEN vfile[p].fmt
                           ELSE "done",
                    path |-> p, as |-> context, file |-> vfile[p], slice |-> l,
                    gave |-> NoPassword, ok |-> vfile[p].fmt # "refused"]
  OBVIOUS
<1>2. loader' = [loader EXCEPT ![l] = f] BY <1>1 DEF BeginLoad
<1>3. vfile[p] \in VaultFiles /\ BoundFile(vfile[p]) BY DEF VaultInv, TypeOKVault
<1>4. f \in Loads BY <1>1, <1>3, SlicesDiffer DEF Loads, Secrets
<1>5. LoadFits(l, f, heap'[l])
  BY <1>1, <1>3, <1>4 DEF LoadFits
<1>6. UNCHANGED <<vfile, environ, envCache, passwordCached, heap>>
  BY DEF BeginLoad, userVars
<1> QED BY <1>2, <1>5, <1>6, LoaderStep DEF VaultInv, TypeOKVault

LEMMA LoadFileKeeps ==
  ASSUME VaultInv, NEW l \in VaultLoaders,
         \/ \E g \in VaultGroups : LoadEnvFile(l, g)
         \/ \E p \in VaultPlugins : LoadCredential(l, p)
  PROVE  VaultInv'
<1>1. ASSUME NEW g \in VaultGroups, LoadEnvFile(l, g) PROVE VaultInv'
  <2>1. PICK q : q = [dir |-> "env.d", group |-> g] OBVIOUS
  <2>2. q \in VaultPaths /\ q.group = g BY <2>1 DEF VaultPaths
  <2>3. BeginLoad(l, q, g) BY <1>1, <2>1 DEF LoadEnvFile
  <2> QED BY <2>2, <2>3, BeginLoadKeeps DEF VaultNames
<1>2. ASSUME NEW p \in VaultPlugins, LoadCredential(l, p) PROVE VaultInv'
  <2>1. PICK q : q = [dir |-> "credentials", group |-> p.group] OBVIOUS
  <2>2. q \in VaultPaths /\ q.dir # "env.d" BY <2>1 DEF VaultPaths, VaultGroups
  <2>3. BeginLoad(l, q, p.name) BY <1>2, <2>1 DEF LoadCredential
  <2> QED BY <2>2, <2>3, BeginLoadKeeps DEF VaultNames
<1> QED BY <1>1, <1>2

(* A loader that goes on, or gives up, without a password. *)
LEMMA WithoutPassword ==
  ASSUME VaultInv, NEW l \in VaultLoaders,
         loader[l].pc \in {"ansible", "wtmcp", "prompt", "fallback"},
         \/ GoOn(l, "prompt") \/ GoOn(l, "fallback") \/ FinishLoad(l, FALSE),
         heap' \in [Slices -> Secrets \cup {Zeroed}],
         \A s \in VaultLoaders \cup {CachedSlice} : heap'[s] = heap[s],
         UNCHANGED <<vfile, passwordCached>>,
         environ' \in [VaultKeys -> Secrets], envCache' \subseteq VaultKeys
  PROVE  VaultInv'
<1>1. PICK me : me = loader[l] OBVIOUS
<1>2. /\ me \in Loads /\ me.gave = NoPassword /\ BoundFile(me.file)
      /\ me.file.fmt \in {"ansible", "wtmcp"}
      /\ me.path.dir = "env.d" => me.as = me.path.group
  BY <1>1 DEF VaultInv, LoadFits, NotLoading
<1>3. PICK f : /\ \/ f = [me EXCEPT !.pc = "prompt"] \/ f = [me EXCEPT !.pc = "fallback"]
                  \/ f = [me EXCEPT !.pc = "done", !.ok = FALSE]
               /\ loader' = [loader EXCEPT ![l] = f]
  BY <1>1 DEF GoOn, FinishLoad, VaultInv, TypeOKVault
<1>4. /\ f \in Loads /\ f.gave = me.gave /\ f.file = me.file /\ f.as = me.as
      /\ f.path = me.path /\ f.pc \in {"prompt", "fallback", "done"}
  BY <1>2, <1>3 DEF Loads
<1>5. LoadFits(l, f, heap'[l]) BY <1>2, <1>4 DEF LoadFits
<1> QED BY <1>3, <1>5, SlicesDiffer, LoaderStep DEF VaultInv, TypeOKVault

(* A loader that is handed a password in its own slice. *)
LEMMA WithPassword ==
  ASSUME VaultInv, NEW l \in VaultLoaders,
         loader[l].pc \in {"ansible", "wtmcp", "prompt", "fallback"},
         NEW found, found.v \in Passwords, HandOut(l, found), heap'[l] = found.v,
         \A m \in VaultLoaders \ {l} : heap'[m] = heap[m],
         heap' \in [Slices -> Secrets \cup {Zeroed}],
         passwordCached' \in BOOLEAN,
         passwordCached' => heap'[CachedSlice] \in Passwords, UNCHANGED vfile,
         environ' \in [VaultKeys -> Secrets], envCache' \subseteq VaultKeys
  PROVE  VaultInv'
<1>1. PICK me : me = loader[l] OBVIOUS
<1>2. /\ me \in Loads /\ BoundFile(me.file) /\ me.file.fmt \in {"ansible", "wtmcp"}
      /\ me.path.dir = "env.d" => me.as = me.path.group
  BY <1>1 DEF VaultInv, LoadFits, NotLoading
<1>3. PICK f : f = [me EXCEPT !.pc = "decrypt", !.gave = found.v, !.slice = l] OBVIOUS
<1>4. loader' = [loader EXCEPT ![l] = f]
  BY <1>1, <1>3 DEF HandOut, Slice, VaultInv, TypeOKVault
<1>5. /\ f \in Loads /\ f.gave = found.v /\ f.slice = l /\ f.file = me.file
      /\ f.as = me.as /\ f.path = me.path /\ f.pc = "decrypt"
  BY <1>2, <1>3, SlicesDiffer DEF Loads, Secrets
<1>6. LoadFits(l, f, heap'[l]) BY <1>2, <1>5 DEF LoadFits
<1> QED BY <1>4, <1>6, LoaderStep

LEMMA ResolveAnsibleKeeps ==
  ASSUME VaultInv, NEW l \in VaultLoaders, ResolveAnsible(l)
  PROVE  VaultInv'
<1>1. PICK id : id = loader[l].file.id OBVIOUS
<1>2. PICK found : found = FoundPassword(id) OBVIOUS
<1>3. loader[l].pc = "ansible" BY DEF ResolveAnsible
<1>4. id \in VaultKeys
  BY <1>1, <1>3 DEF VaultInv, LoadFits, NotLoading, Loads, VaultFiles
<1>5. PICK asked \in SUBSET VaultKeys : asked = AskedVars(id) BY <1>4, AskedKeys
<1>6. /\ ReadEnvCached(asked) /\ UNCHANGED <<vfile, passwordCached>>
      /\ IF found.v \in Passwords
         THEN heap' = [MovedVars(asked) EXCEPT ![l] = found.v] /\ HandOut(l, found)
         ELSE heap' = MovedVars(asked) /\ FinishLoad(l, FALSE)
  BY <1>1, <1>2, <1>5 DEF ResolveAnsible, userVars
<1>7. environ' \in [VaultKeys -> Secrets] /\ envCache' \subseteq VaultKeys
  BY <1>6, MovedOnly
<1>8. PICK moved : moved = MovedVars(asked) OBVIOUS
<1>9. /\ moved \in [Slices -> Secrets \cup {Zeroed}]
      /\ \A s \in VaultLoaders \cup {CachedSlice} : moved[s] = heap[s]
  BY <1>8, MovedOnly
<1>10. CASE found.v \in Passwords
  <2>1. heap' = [moved EXCEPT ![l] = found.v] BY <1>6, <1>8, <1>10
  <2>2. /\ heap' \in [Slices -> Secrets \cup {Zeroed}] /\ heap'[l] = found.v
        /\ \A s \in (VaultLoaders \cup {CachedSlice}) \ {l} : heap'[s] = heap[s]
    BY <1>9, <1>10, <2>1, SlicesDiffer DEF Secrets
  <2>3. passwordCached' => heap'[CachedSlice] \in Passwords
    BY <1>6, <2>2, SlicesDiffer DEF VaultInv
  <2>4. passwordCached' \in BOOLEAN BY <1>6 DEF VaultInv, TypeOKVault
  <2> QED BY <1>3, <1>6, <1>7, <1>10, <2>2, <2>3, <2>4, WithPassword
<1>11. CASE found.v \notin Passwords
  BY <1>3, <1>6, <1>7, <1>8, <1>9, <1>11, WithoutPassword
<1> QED BY <1>10, <1>11

LEMMA ResolveCachedKeeps ==
  ASSUME VaultInv, NEW l \in VaultLoaders, ResolveCached(l)
  PROVE  VaultInv'
<1>1. PICK pw : pw = heap[CachedSlice] OBVIOUS
<1>2. pw \in Passwords BY <1>1 DEF VaultInv, ResolveCached
<1>3. PICK found : found = [v |-> pw, key |-> CachedSlice] OBVIOUS
<1>4. /\ heap' = [heap EXCEPT ![l] = pw] /\ HandOut(l, found) /\ loader[l].pc = "wtmcp"
      /\ UNCHANGED <<vfile, environ, envCache, passwordCached>>
  BY <1>1, <1>3 DEF ResolveCached, userVars
<1>5. /\ heap' \in [Slices -> Secrets \cup {Zeroed}] /\ heap'[l] = found.v
      /\ \A s \in (VaultLoaders \cup {CachedSlice}) \ {l} : heap'[s] = heap[s]
  BY <1>2, <1>3, <1>4, SlicesDiffer DEF VaultInv, TypeOKVault, Secrets
<1> QED BY <1>2, <1>3, <1>4, <1>5, SlicesDiffer, WithPassword DEF VaultInv, TypeOKVault

LEMMA TypedKeeps ==
  ASSUME VaultInv, NEW l \in VaultLoaders, NEW pw \in Passwords, Typed(l, pw)
  PROVE  VaultInv'
<1>1. PICK found : found = [v |-> pw, key |-> CachedSlice] OBVIOUS
<1>2. /\ heap' = [heap EXCEPT ![CachedSlice] = pw, ![l] = pw]
      /\ HandOut(l, found) /\ loader[l].pc = "prompt" /\ passwordCached'
      /\ UNCHANGED <<vfile, environ, envCache>>
  BY <1>1 DEF Typed, userVars
<1>3. passwordCached' = TRUE BY DEF Typed
<1>4. /\ heap' \in [Slices -> Secrets \cup {Zeroed}] /\ heap'[l] = found.v
      /\ heap'[CachedSlice] = pw
      /\ \A m \in VaultLoaders \ {l} : heap'[m] = heap[m]
  BY <1>1, <1>2, SlicesDiffer DEF VaultInv, TypeOKVault, Secrets
<1> QED BY <1>1, <1>2, <1>3, <1>4, WithPassword DEF VaultInv, TypeOKVault

LEMMA FallbackKeeps ==
  ASSUME VaultInv, NEW l \in VaultLoaders, Fallback(l)
  PROVE  VaultInv'
<1>1. PICK found : found = FoundPassword(DefaultId) OBVIOUS
<1>2. PICK asked \in SUBSET VaultKeys : asked = {DefaultId} BY AskedKeys DEF VaultKeys
<1>3. PICK moved : moved = MovedVars(asked) OBVIOUS
<1>4. /\ ReadEnvCached(asked) /\ UNCHANGED vfile /\ loader[l].pc = "fallback"
      /\ IF found.v \in Passwords
         THEN /\ heap' = [moved EXCEPT ![l] = found.v, ![CachedSlice] = found.v]
              /\ passwordCached' = TRUE /\ HandOut(l, [v |-> found.v, key |-> CachedSlice])
         ELSE heap' = moved /\ FinishLoad(l, FALSE) /\ UNCHANGED passwordCached
  BY <1>1, <1>2, <1>3 DEF Fallback, userVars
<1>5. environ' \in [VaultKeys -> Secrets] /\ envCache' \subseteq VaultKeys
  BY <1>4, MovedOnly
<1>6. /\ moved \in [Slices -> Secrets \cup {Zeroed}]
      /\ \A s \in VaultLoaders \cup {CachedSlice} : moved[s] = heap[s]
  BY <1>3, MovedOnly
<1>7. CASE found.v \in Passwords
  <2>1. PICK given : given = [v |-> found.v, key |-> CachedSlice] OBVIOUS
  <2>2. given.v = found.v BY <2>1
  <2>3. /\ heap' \in [Slices -> Secrets \cup {Zeroed}] /\ heap'[l] = found.v
        /\ heap'[CachedSlice] = found.v
        /\ \A m \in VaultLoaders \ {l} : heap'[m] = heap[m]
    BY <1>4, <1>6, <1>7, SlicesDiffer DEF Secrets
  <2> QED BY <1>4, <1>5, <1>7, <2>1, <2>2, <2>3, WithPassword
<1>8. CASE found.v \notin Passwords
  BY <1>4, <1>5, <1>6, <1>8, WithoutPassword
<1> QED BY <1>7, <1>8

LEMMA DecryptKeeps ==
  ASSUME VaultInv, NEW l \in VaultLoaders, Decrypt(l)
  PROVE  VaultInv'
<1>1. PICK me : me = loader[l] OBVIOUS
<1>2. /\ me \in Loads /\ BoundFile(me.file) /\ me.file.fmt \in {"ansible", "wtmcp"}
      /\ me.path.dir = "env.d" => me.as = me.path.group
      /\ me.slice = l /\ heap[l] = me.gave /\ me.gave \in Passwords
  BY <1>1 DEF Decrypt, VaultInv, LoadFits, NotLoading
<1>3. PICK right \in BOOLEAN : right <=> Opens(me.file, me.gave, me.as)
  BY Zenon
<1>4. Opens(me.file, heap[me.slice], me.as) = right
  BY <1>2, <1>3 DEF Opens
<1>5. PICK f : f = [me EXCEPT !.pc = "done", !.ok = right] OBVIOUS
<1>6. loader' = [loader EXCEPT ![l] = f]
  BY <1>1, <1>4, <1>5 DEF Decrypt, FinishLoad, VaultInv, TypeOKVault
<1>7. /\ f \in Loads /\ f.gave = me.gave /\ f.file = me.file
      /\ f.as = me.as /\ f.path = me.path /\ f.pc = "done" /\ f.ok = right
  BY <1>2, <1>5 DEF Loads
<1>8. LoadFits(l, f, heap'[l]) BY <1>2, <1>3, <1>7 DEF LoadFits
<1>9. /\ heap' = [heap EXCEPT ![l] = Zeroed]
      /\ UNCHANGED <<vfile, environ, envCache, passwordCached>>
  BY <1>1, <1>2 DEF Decrypt, userVars
<1> QED BY <1>6, <1>8, <1>9, SlicesDiffer, LoaderStep DEF VaultInv, TypeOKVault

LEMMA CloseVaultKeeps ==
  ASSUME VaultInv, CloseVault
  PROVE  VaultInv'
<1>1. /\ heap' \in [Slices -> Secrets \cup {Zeroed}]
      /\ \A l \in VaultLoaders : heap'[l] = heap[l]
  BY SlicesDiffer DEF CloseVault, VaultInv, TypeOKVault
<1>2. TypeOKVault' BY <1>1 DEF CloseVault, VaultInv, TypeOKVault
<1> QED BY <1>1, <1>2 DEF CloseVault, VaultInv

(* The user and wtmcpctl: a file stays bound to the group it was encrypted *)
(* for, wherever it is moved.                                              *)
LEMMA UserKeeps ==
  ASSUME VaultInv,
         \/ \E p \in VaultPaths, pw \in Passwords : VaultEncrypt(p, pw) \/ VaultDecrypt(p, pw)
         \/ \E p, q \in VaultPaths : MoveFile(p, q)
         \/ \E p \in VaultPaths : OpenUp(p)
         \/ \E k \in VaultKeys, v \in Passwords \cup {Unreadable} : RotateFile(k, v)
  PROVE  VaultInv'
<1> DEFINE Keeps == /\ vfile' \in [VaultPaths -> VaultFiles]
                    /\ \A p \in VaultPaths : BoundFile(vfile'[p])
<1>1. /\ vfile \in [VaultPaths -> VaultFiles]
      /\ \A p \in VaultPaths : BoundFile(vfile[p])
  BY DEF VaultInv, TypeOKVault
<1>2. \A p \in VaultPaths : p.group \in VaultGroups BY DEF VaultPaths
<1>3. /\ \A x \in {"plain", "absent", "refused"} :
             [fmt |-> x] \in VaultFiles /\ BoundFile([fmt |-> x])
  BY DEF VaultFiles, BoundFile
<1>4. ASSUME NEW p \in VaultPaths, NEW pw \in Passwords, VaultEncrypt(p, pw) PROVE Keeps
  <2>1. PICK f : /\ f \in [fmt : {"ansible"}, id : VaultKeys, pw : {pw}, for : {p.group}]
                            \cup [fmt : {"wtmcp"}, context : {p.group}, pw : {pw},
                                  for : {p.group}]
                 /\ vfile' = [vfile EXCEPT ![p] = f]
    BY <1>4 DEF VaultEncrypt, groupFromPath
  <2>2. f \in VaultFiles /\ BoundFile(f) BY <1>2, <2>1 DEF VaultFiles, BoundFile
  <2> QED BY <1>1, <2>1, <2>2
<1>5. ASSUME NEW p \in VaultPaths, NEW pw \in Passwords, VaultDecrypt(p, pw) PROVE Keeps
  BY <1>1, <1>3, <1>5 DEF VaultDecrypt, PlainFile
<1>6. ASSUME NEW p \in VaultPaths, NEW q \in VaultPaths, MoveFile(p, q) PROVE Keeps
  BY <1>1, <1>3, <1>6 DEF MoveFile
<1>7. ASSUME NEW p \in VaultPaths, OpenUp(p) PROVE Keeps
  BY <1>1, <1>3, <1>7 DEF OpenUp
<1>8. ASSUME NEW k \in VaultKeys, NEW v \in Passwords \cup {Unreadable}, RotateFile(k, v)
      PROVE  Keeps
  BY <1>1, <1>8 DEF RotateFile
<1>9. Keeps BY <1>4, <1>5, <1>6, <1>7, <1>8
<1>10. UNCHANGED <<environ, envCache, passwordCached, heap, loader>>
  BY DEF VaultEncrypt, VaultDecrypt, MoveFile, OpenUp, RotateFile, ServerUnchanged
<1> QED BY <1>9, <1>10 DEF VaultInv, TypeOKVault

LEMMA NextVaultKeeps ==
  ASSUME VaultInv, [VaultNext]_vaultVars
  PROVE  VaultInv'
<1>1. CASE UNCHANGED vaultVars
  BY <1>1 DEF vaultVars, VaultInv, TypeOKVault
<1>2. ASSUME NEW l \in VaultLoaders, LoadStep(l) PROVE VaultInv'
  <2>1. CASE \/ \E g \in VaultGroups : LoadEnvFile(l, g)
             \/ \E p \in VaultPlugins : LoadCredential(l, p)
    BY <2>1, LoadFileKeeps
  <2>2. CASE ResolveAnsible(l) BY <2>2, ResolveAnsibleKeeps
  <2>3. CASE ResolveCached(l) BY <2>3, ResolveCachedKeeps
  <2>4. CASE LockDecryptor(l) \/ PromptCancelled(l) \/ PromptFails(l)
    <3>1. /\ loader[l].pc \in {"ansible", "wtmcp", "prompt", "fallback"}
          /\ GoOn(l, "prompt") \/ GoOn(l, "fallback") \/ FinishLoad(l, FALSE)
          /\ UNCHANGED <<vfile, environ, envCache, passwordCached, heap>>
      BY <2>4 DEF LockDecryptor, PromptCancelled, PromptFails, userVars
    <3> QED BY <3>1, WithoutPassword DEF VaultInv, TypeOKVault
  <2>5. CASE \E pw \in Passwords : Typed(l, pw) BY <2>5, TypedKeeps
  <2>6. CASE Fallback(l) BY <2>6, FallbackKeeps
  <2>7. CASE Decrypt(l) BY <2>7, DecryptKeeps
  <2> QED BY <1>2, <2>1, <2>2, <2>3, <2>4, <2>5, <2>6, <2>7 DEF LoadStep
<1>3. CASE CloseVault BY <1>3, CloseVaultKeeps
<1> QED BY <1>1, <1>2, <1>3, UserKeeps DEF VaultNext

(* The inductive invariant of Vault: the password that a load was given    *)
(* stays in a slice that nobody else uses until the load has used it.      *)
THEOREM VaultInvariant == VaultSpec => []VaultInv
<1>1. VaultInv /\ [VaultNext]_vaultVars => VaultInv' BY NextVaultKeeps
<1> QED BY <1>1, InitVault, PTL DEF VaultSpec

(* An encrypted file opens exactly with its password and for the group it  *)
(* was encrypted for (resolveWtmcpPassword, readEnvCached, Decrypt, Close, *)
(* groupFromPath).                                                         *)
THEOREM FilesOpenExactly == VaultSpec => []OpensExactly
<1>1. ASSUME VaultInv PROVE OpensExactly
  <2> SUFFICES ASSUME NEW l \in VaultLoaders, Tried(l)
               PROVE  /\ loader[l].gave \in Passwords
                      /\ (loader[l].path.dir = "credentials" =>
                             loader[l].as = loader[l].path.group) =>
                           (loader[l].ok <=>
                              /\ loader[l].gave = loader[l].file.pw
                              /\ (loader[l].file.fmt = "wtmcp" =>
                                    loader[l].file.for = loader[l].path.group))
    BY Zenon DEF OpensExactly
  <2>1. PICK me : me = loader[l] OBVIOUS
  <2>2. /\ me \in Loads /\ BoundFile(me.file)
        /\ me.path.dir = "env.d" => me.as = me.path.group
        /\ me.gave # NoPassword /\ me.pc = "done"
        /\ me.ok <=> Opens(me.file, me.gave, me.as)
    BY <1>1, <2>1 DEF Tried, VaultInv, LoadFits, NotLoading
  <2>3. me.path.dir \in {"env.d", "credentials"} BY <2>2 DEF Loads, VaultPaths
  <2>4. me.gave \in Passwords BY <2>2 DEF Loads, Secrets
  <2>5. (me.path.dir = "credentials" => me.as = me.path.group) => me.as = me.path.group
    BY <2>2, <2>3
  <2>6. Opens(me.file, me.gave, me.as) <=>
          me.gave = me.file.pw /\ (me.file.fmt = "wtmcp" => me.file.for = me.as)
    BY <2>2 DEF Opens, BoundFile
  <2> QED BY <2>1, <2>2, <2>4, <2>5, <2>6
<1> QED BY <1>1, VaultInvariant, PTL

-----------------------------------------------------------------------------
(* Credentials: types *)

CommandOps == {"none", "set", "migrate", "import", "restore", "delete", "export", "backup"}
Options == {"merge", "mark", "keyring", "env.d"}

LEMMA Maps ==
  /\ Nothing \in CredMap
  /\ \A k \in CredKeys, v \in CredValues : Only(k, v) \in CredMap
  /\ \A m \in CredMap : KeysOf(m) \subseteq CredKeys
  /\ \A m \in CredMap, k \in CredKeys, v \in CredValues \cup {NoValue} :
       [m EXCEPT ![k] = v] \in CredMap
  /\ (CHOOSE v \in CredValues : TRUE) \in CredValues
BY ValuesAssumption DEF CredMap, Nothing, Only, KeysOf

LEMMA Collected ==
  ASSUME TypeOKCred, NEW m \in Migration, NEW answering \in BOOLEAN
  PROVE  GetAll(m, answering) \in CredMap /\ LoadGroup \in CredMap
<1>1. LoadGroup \in CredMap
  BY UnquotedAssumption DEF TypeOKCred, LoadGroup, CredMap
<1>2. \A k \in CredKeys : keyring[k] \in CredValues \cup {NoValue}
  BY DEF TypeOKCred, CredMap
<1> QED BY <1>1, <1>2 DEF GetAll, CredMap

(* What a command process has in its memory; it is all gone at its end. *)
MemoryTyped ==
  /\ mem \in Migration /\ creds \in CredMap /\ before \in CredMap
  /\ cmd \in [op : CommandOps, opt : SUBSET Options]
  /\ cpc \in {"idle", "backup", "pick", "set", "track", "mark", "remove",
              "undo", "kdel", "untrack", "edel", "ewrite"}
  /\ todo \subseteq CredKeys /\ wrote \subseteq CredKeys
  /\ cur \in CredKeys \cup {NoKey}
  /\ result \in {"none", "ok", "error", "rolled back", "killed"}
StoresTyped ==
  /\ keyring \in CredMap /\ envd \in CredMap /\ mfile \in Migration /\ backup \in Backups
  /\ srv \in Migration /\ available \in BOOLEAN /\ stale \in BOOLEAN
  /\ left \in 0..MaxCommands

LEMMA TypesSplit ==
  /\ TypeOKCred <=> MemoryTyped /\ StoresTyped
  /\ TypeOKCred' <=> MemoryTyped' /\ StoresTyped'
BY DEF TypeOKCred, MemoryTyped, StoresTyped, CommandOps, Options

LEMMA InitCredType == CredInit => TypeOKCred
<1> SUFFICES ASSUME CredInit PROVE TypeOKCred OBVIOUS
<1>1. backup \in Backups BY DEF CredInit, Backups
<1>2. cmd \in [op : CommandOps, opt : SUBSET Options]
  BY DEF CredInit, NoCommand, CommandOps, Options
<1>3. mem \in Migration BY DEF CredInit, NoMigration, Migration
<1>4. MemoryTyped
  <2>1. creds \in CredMap /\ before \in CredMap BY Maps DEF CredInit
  <2>2. todo = {} /\ wrote = {} /\ cur = NoKey /\ cpc = "idle" /\ result = "none"
    BY DEF CredInit
  <2> QED BY <1>2, <1>3, <2>1, <2>2 DEF MemoryTyped
<1>5. StoresTyped
  <2>1. /\ keyring \in CredMap /\ envd \in CredMap /\ mfile \in Migration
        /\ srv \in Migration /\ available \in BOOLEAN /\ stale \in BOOLEAN
    BY DEF CredInit
  <2>2. left \in 0..MaxCommands BY CommandsAssumption DEF CredInit
  <2> QED BY <1>1, <2>1, <2>2 DEF StoresTyped
<1> QED BY <1>4, <1>5, TypesSplit

LEMMA Ends ==
  ASSUME NEW r \in {"ok", "error", "rolled back", "killed"}, End(r)
  PROVE  MemoryTyped' /\ cpc' = "idle" /\ cmd' = NoCommand /\ result' = r
<1>1. NoCommand \in [op : CommandOps, opt : SUBSET Options]
  BY DEF NoCommand, CommandOps, Options
<1>2. NoMigration \in Migration BY DEF NoMigration, Migration
<1> QED BY <1>1, <1>2, Maps DEF End, MemoryTyped

-----------------------------------------------------------------------------
(* Credentials: the inductive invariant *)

CredPhases ==
  /\ cpc = "idle" <=> cmd.op = "none"
  /\ cpc # "idle" => result = "none"
  /\ cmd.op = "migrate" => cpc \in Forward \cup {"undo", "untrack"} /\ cmd.opt = {}
  /\ cmd.op = "restore" => /\ cpc \in {"pick", "set", "track", "mark", "undo"}
                           /\ cmd.opt \in {{}, {"merge"}}
  /\ cpc \in {"mark", "remove"} => todo = {}
  /\ cpc \in {"set", "track"} => cur \in KeysOf(creds) \ todo
  /\ cpc \in Forward => todo \subseteq KeysOf(creds)

(* Every key that migrate or restore is done with is in the keyring and    *)
(* tracked by the running command.                                         *)
CarriedOver ==
  cmd.op \in {"migrate", "restore"} /\ cpc \in Forward =>
    \A k \in KeysOf(creds) \ todo :
      /\ k \in mem.tracked \/ (k = cur /\ cpc \in {"set", "track"})
      /\ \/ k = cur /\ cpc = "set"
         \/ /\ keyring[k] # NoValue
            /\ cmd.opt = {} /\ k \notin TokenKeys => keyring[k] = creds[k]

(* A key that migrate has not stored yet still resolves as it was read,    *)
(* and what the command remembers is what the file has or more.            *)
Migrating ==
  cmd.op = "migrate" /\ cpc \in Forward /\ ~stale =>
    /\ cpc # "remove" => ~mem.migrated
    /\ mfile.tracked \ TokenKeys \subseteq mem.tracked
    /\ \A k \in KeysOf(creds) \ TokenKeys :
         /\ k \in mem.tracked /\ keyring[k] # NoValue => keyring[k] = creds[k]
         /\ IF cpc = "remove" THEN k \in mfile.tracked
            ELSE \/ k \in mfile.tracked /\ keyring[k] # NoValue
                 \/ LoadGroup[k] = creds[k]

(* restore stops when a save fails, so what it remembers is in the file. *)
Restoring ==
  cmd.op = "restore" /\ cpc \in Forward /\ ~stale =>
    /\ backup.kind = "whole" /\ creds = backup.payload
    /\ mem.tracked \subseteq mfile.tracked
    /\ mem.migrated => mfile.migrated

CredInv == TypeOKCred /\ CredPhases /\ CarriedOver /\ Migrating /\ Restoring

LEMMA InitCred == CredInit => CredInv
<1> SUFFICES ASSUME CredInit PROVE CredInv OBVIOUS
<1>1. cpc = "idle" /\ cmd.op = "none" BY DEF CredInit, NoCommand
<1> QED BY <1>1, InitCredType
        DEF CredInv, CredPhases, CarriedOver, Migrating, Restoring, Forward

(* A command that ends leaves nothing to be kept but the types. *)
LEMMA EndKeeps ==
  ASSUME NEW r \in {"ok", "error", "rolled back", "killed"}, End(r), StoresTyped'
  PROVE  CredInv'
<1>1. cpc' = "idle" /\ cmd'.op = "none" BY DEF End, NoCommand
<1>2. TypeOKCred' BY Ends, TypesSplit
<1> QED BY <1>1, <1>2 DEF CredInv, CredPhases, CarriedOver, Migrating, Restoring, Forward

(* So does one that is neither migrate nor restore, but for its phases. *)
LEMMA OthersKeep ==
  ASSUME TypeOKCred', CredPhases', cmd'.op \notin {"migrate", "restore"}
  PROVE  CredInv'
BY DEF CredInv, CarriedOver, Migrating, Restoring

-----------------------------------------------------------------------------
(* Credentials: a command begins *)

LEMMA Begins ==
  ASSUME CredInv, NEW op \in CommandOps \ {"none"}, NEW opt \in SUBSET Options,
         NEW first \in {"backup", "pick", "kdel", "edel", "ewrite"}, NEW c \in CredMap,
         Command(op, opt, first, c)
  PROVE  /\ TypeOKCred' /\ cmd'.op = op /\ cmd'.opt = opt /\ cpc' = first
         /\ mem' = mfile /\ creds' = c /\ todo' = KeysOf(c)
         /\ UNCHANGED <<keyring, envd, mfile, backup, stale>>
         /\ op \notin {"migrate", "restore"} => CredInv'
<1>1. StoresTyped'
  <2>1. left' \in 0..MaxCommands
    <3>1. left \in 0..MaxCommands BY DEF CredInv, TypeOKCred
    <3>2. left > 0 /\ left' = left - 1 BY DEF Command
    <3> QED BY <3>1, <3>2, CommandsAssumption
  <2>2. UNCHANGED <<keyring, envd, mfile, backup, available, srv, stale>>
    BY DEF Command, stores
  <2> QED BY <2>1, <2>2 DEF CredInv, TypeOKCred, StoresTyped
<1>2. MemoryTyped'
  <2>1. mem' \in Migration /\ creds' \in CredMap /\ before' \in CredMap
    BY DEF CredInv, TypeOKCred, Command
  <2>2. cmd' \in [op : CommandOps, opt : SUBSET Options] BY DEF Command
  <2>3. todo' \subseteq CredKeys BY Maps DEF Command
  <2> QED BY <2>1, <2>2, <2>3 DEF MemoryTyped, Command
<1>3. /\ cmd'.op = op /\ cmd'.opt = opt /\ cpc' = first /\ mem' = mfile /\ creds' = c
      /\ todo' = KeysOf(c) /\ result' = "none" /\ cmd'.opt = opt
      /\ UNCHANGED <<keyring, envd, mfile, backup, stale>>
  BY DEF Command, stores
<1>4. op \notin {"migrate", "restore"} => CredPhases'
  BY <1>3 DEF CredPhases, Forward, KeysOf
<1> QED BY <1>1, <1>2, <1>3, <1>4, TypesSplit, OthersKeep

LEMMA MigrateBegins ==
  ASSUME CredInv, NEW yes \in BOOLEAN, RunCredMigrate(yes)
  PROVE  CredInv'
<1>1. PICK first \in {"backup", "pick"} : first = IF yes THEN "backup" ELSE "pick"
  OBVIOUS
<1>2. /\ ~mfile.migrated /\ Command("migrate", {}, first, GetAll(mfile, TRUE))
  BY <1>1 DEF RunCredMigrate, CredInv, TypeOKCred
<1>3. PICK c \in CredMap : c = GetAll(mfile, TRUE)
  BY Collected DEF CredInv, TypeOKCred
<1> {} \in SUBSET Options OBVIOUS
<1> Command("migrate", {}, first, c) BY <1>2, <1>3
<1>4. /\ TypeOKCred' /\ cmd'.op = "migrate" /\ cmd'.opt = {} /\ cpc' = first
      /\ mem' = mfile /\ creds' = c /\ todo' = KeysOf(c)
      /\ UNCHANGED <<keyring, envd, mfile, stale>>
  BY Begins DEF CommandOps
<1>5. CredPhases' BY <1>2, <1>4 DEF CredPhases, Forward, KeysOf, Command
<1>6. CarriedOver' BY <1>4 DEF CarriedOver, KeysOf
<1>7. Restoring' BY <1>4 DEF Restoring
<1>8. Migrating'
  <2>1. \A k \in CredKeys : c[k] = IF k \in mfile.tracked /\ keyring[k] # NoValue
                                   THEN keyring[k] ELSE LoadGroup[k]
    BY <1>3 DEF GetAll
  <2>2. LoadGroup' = LoadGroup BY <1>4 DEF LoadGroup
  <2> QED BY <1>1, <1>2, <1>4, <2>1, <2>2 DEF Migrating, KeysOf
<1> QED BY <1>4, <1>5, <1>6, <1>7, <1>8 DEF CredInv

LEMMA RestoreBegins ==
  ASSUME CredInv, NEW yes \in BOOLEAN, RunCredRestore(yes)
  PROVE  CredInv'
<1>1. PICK opt \in {{}, {"merge"}} : opt = IF yes THEN {"merge"} ELSE {}
  OBVIOUS
<1>2. /\ backup.kind = "whole" /\ Command("restore", opt, "pick", backup.payload)
  BY <1>1 DEF RunCredRestore
<1>3. PICK c \in CredMap : c = backup.payload
  BY <1>2 DEF CredInv, TypeOKCred, Backups
<1>4. /\ TypeOKCred' /\ cmd'.op = "restore" /\ cmd'.opt = opt /\ cpc' = "pick"
      /\ mem' = mfile /\ creds' = c /\ todo' = KeysOf(c)
      /\ UNCHANGED <<mfile, backup, stale>>
  BY <1>2, <1>3, Begins DEF CommandOps, Options
<1>5. CredPhases' BY <1>2, <1>4 DEF CredPhases, Forward, KeysOf, Command
<1>6. CarriedOver' BY <1>4 DEF CarriedOver, KeysOf
<1>7. Migrating' BY <1>4 DEF Migrating
<1>8. Restoring' BY <1>2, <1>3, <1>4 DEF Restoring
<1> QED BY <1>4, <1>5, <1>6, <1>7, <1>8 DEF CredInv

LEMMA CommandsKeep ==
  ASSUME CredInv, Commands
  PROVE  CredInv'
<1>1. ASSUME NEW k \in CredKeys, NEW v \in CredValues,
             (\E force \in BOOLEAN : RunCredSet(k, v, force)) \/ RunCredRotate(k, v)
      PROVE  CredInv'
  <2>1. PICK c \in CredMap : c = Only(k, v) BY Maps
  <2>2. Command("set", {}, "pick", c) BY <1>1, <2>1 DEF RunCredSet, RunCredRotate
  <2>3. {} \in SUBSET Options OBVIOUS
  <2> QED BY <2>2, <2>3, Begins DEF CommandOps
<1>2. ASSUME NEW yes \in BOOLEAN, RunCredMigrate(yes) \/ RunCredRestore(yes)
      PROVE  CredInv'
  BY <1>2, MigrateBegins, RestoreBegins
<1>3. ASSUME NEW c \in CredMap, NEW mark \in BOOLEAN, RunCredImport(c, mark)
      PROVE  CredInv'
  <2>1. PICK opt \in SUBSET Options : Command("import", opt, "pick", c)
    <3>1. CASE mark
      <4>1. Command("import", {"mark"}, "pick", c) BY <1>3, <3>1 DEF RunCredImport
      <4> QED BY <4>1 DEF Options
    <3>2. CASE ~mark
      <4>1. Command("import", {}, "pick", c) BY <1>3, <3>2 DEF RunCredImport
      <4> QED BY <4>1
    <3> QED BY <3>1, <3>2
  <2> QED BY <2>1, Begins DEF CommandOps
<1>4. CASE RunCredExport
  <2>1. PICK c \in CredMap : Command("export", {}, "ewrite", c)
    BY <1>4, Collected DEF RunCredExport, CredInv, TypeOKCred
  <2> QED BY <2>1, Begins DEF CommandOps
<1>5. CASE RunCredBackup
  BY <1>5, Maps, Begins DEF RunCredBackup, CommandOps
<1>6. ASSUME NEW k \in CredKeys, NEW where \in {{}, {"keyring"}, {"env.d"}},
             RunCredDelete(k, where)
      PROVE  CredInv'
  <2>1. PICK v \in CredValues : v = CHOOSE w \in CredValues : TRUE BY Maps
  <2>2. PICK c \in CredMap : c = Only(k, v) BY Maps
  <2>3. PICK first \in {"edel", "kdel"} : Command("delete", where, first, c)
    BY <1>6, <2>1, <2>2 DEF RunCredDelete
  <2>4. where \in SUBSET Options BY DEF Options
  <2>5. "delete" \in CommandOps \ {"none"} BY DEF CommandOps
  <2>6. first \in {"backup", "pick", "kdel", "edel", "ewrite"} BY <2>3
  <2> QED BY <2>3, <2>4, <2>5, <2>6, Begins
<1> QED BY <1>1, <1>2, <1>3, <1>4, <1>5, <1>6 DEF Commands

-----------------------------------------------------------------------------
(* Credentials: the steps of a command *)

(* A step that changes nothing but where the command is. *)
LEMMA MovesOn ==
  ASSUME CredInv, cpc # "idle", NEW pc, cpc' = pc, pc # "idle",
         pc \in {"backup", "pick", "set", "track", "mark", "remove",
                 "undo", "kdel", "untrack", "edel", "ewrite"},
         UNCHANGED <<result, cmd, before, mem, creds>>, StoresTyped',
         todo' \subseteq CredKeys, wrote' \subseteq CredKeys,
         cur' \in CredKeys \cup {NoKey}
  PROVE  TypeOKCred'
<1>1. MemoryTyped' BY DEF CredInv, TypeOKCred, MemoryTyped, CommandOps, Options
<1> QED BY <1>1, TypesSplit

LEMMA CreateBackupKeeps ==
  ASSUME CredInv, CreateBackup
  PROVE  CredInv'
<1>1. UNCHANGED <<keyring, available, envd, mfile, srv, stale, left>> /\ cpc = "backup"
  BY DEF CreateBackup
<1>2. BackupPayload \in CredMap
  BY DEF BackupPayload, CredMap, CredInv, TypeOKCred
<1>3. backup' \in Backups
  <2>1. [kind |-> "torn"] \in Backups BY DEF Backups
  <2>2. [kind |-> "whole", state |-> mem.migrated, payload |-> BackupPayload] \in Backups
    BY <1>2 DEF Backups, CredInv, TypeOKCred, Migration
  <2> QED BY <2>1, <2>2 DEF CreateBackup, CredInv, TypeOKCred
<1>4. StoresTyped' BY <1>1, <1>3 DEF StoresTyped, CredInv, TypeOKCred
<1>5. CASE End("ok") \/ End("error") BY <1>4, <1>5, EndKeeps
<1>6. CASE Continue("pick") /\ UNCHANGED <<mem, creds, todo, cur, wrote>>
  <2>1. TypeOKCred' BY <1>1, <1>4, <1>6, MovesOn DEF Continue, CredInv, TypeOKCred
  <2>2. CredPhases' BY <1>1, <1>6 DEF CredInv, CredPhases, Continue, Forward, KeysOf
  <2>3. CarriedOver' BY <1>1, <1>6 DEF CredInv, CarriedOver, Continue, Forward, KeysOf
  <2>4. LoadGroup' = LoadGroup BY <1>1 DEF LoadGroup
  <2>5. Migrating'
    BY <1>1, <1>6, <2>4 DEF CredInv, Migrating, Continue, Forward, KeysOf
  <2>6. Restoring' BY <1>1, <1>6 DEF CredInv, CredPhases, Restoring, Continue
  <2> QED BY <2>1, <2>2, <2>3, <2>5, <2>6 DEF CredInv
<1> QED BY <1>5, <1>6 DEF CreateBackup

LEMMA PickKeyKeeps ==
  ASSUME CredInv, NEW k \in CredKeys, PickKey(k)
  PROVE  CredInv'
<1>1. /\ UNCHANGED <<keyring, envd, mfile, backup, available, mem, srv, stale, creds,
                     wrote, left, result, cmd, before>>
      /\ cpc = "pick" /\ k \in todo /\ todo' = todo \ {k} /\ cur' = k
      /\ \/ cpc' = "set"
         \/ cpc' = "track" /\ keyring[k] # NoValue /\ cmd.opt # {}
  BY DEF PickKey, stores, Continue, Present, KeyringHas
<1>2. StoresTyped' BY <1>1 DEF StoresTyped, CredInv, TypeOKCred
<1>3. TypeOKCred' BY <1>1, <1>2, MovesOn DEF CredInv, TypeOKCred
<1>4. CredPhases' BY <1>1 DEF CredInv, CredPhases, Forward, KeysOf
<1>5. CarriedOver' BY <1>1 DEF CredInv, CarriedOver, Forward, KeysOf
<1>6. LoadGroup' = LoadGroup BY <1>1 DEF LoadGroup
<1>7. Migrating' BY <1>1, <1>6 DEF CredInv, Migrating, Forward, KeysOf
<1>8. Restoring' BY <1>1 DEF CredInv, Restoring, Forward
<1> QED BY <1>3, <1>4, <1>5, <1>7, <1>8 DEF CredInv

LEMMA SkipKeyKeeps ==
  ASSUME CredInv, NEW k \in CredKeys, SkipKey(k)
  PROVE  CredInv'
<1>1. /\ UNCHANGED <<keyring, envd, mfile, backup, available, mem, srv, stale, creds,
                     cur, wrote, left, result, cmd, before>>
      /\ cpc = "pick" /\ todo' = todo \ {k} /\ cpc' = "pick" /\ cmd.op = "import"
  BY DEF SkipKey, stores, Continue
<1>2. StoresTyped' BY <1>1 DEF StoresTyped, CredInv, TypeOKCred
<1>3. TypeOKCred' BY <1>1, <1>2, MovesOn DEF CredInv, TypeOKCred
<1>4. CredPhases' BY <1>1 DEF CredInv, CredPhases, Forward, KeysOf
<1> QED BY <1>1, <1>3, <1>4, OthersKeep

LEMMA StoreKeyKeeps ==
  ASSUME CredInv, StoreKey
  PROVE  CredInv'
<1>1. /\ UNCHANGED <<available, envd, mfile, mem, srv, stale, backup, creds, todo,
                     cur, left, result, cmd, before>>
      /\ cpc = "set" /\ cpc' = "track" /\ wrote' = wrote \cup {cur}
      /\ keyring' = [keyring EXCEPT ![cur] = creds[cur]]
  BY DEF StoreKey, Continue
<1>2. cur \in CredKeys /\ creds[cur] # NoValue /\ cur \notin todo
  BY <1>1 DEF CredInv, CredPhases, KeysOf
<1>3. /\ keyring' \in CredMap /\ keyring'[cur] = creds[cur]
      /\ \A k \in CredKeys \ {cur} : keyring'[k] = keyring[k]
  BY <1>1, <1>2 DEF CredInv, TypeOKCred, CredMap
<1>4. StoresTyped' BY <1>1, <1>3 DEF StoresTyped, CredInv, TypeOKCred
<1>5. TypeOKCred' BY <1>1, <1>2, <1>4, MovesOn DEF CredInv, TypeOKCred
<1>6. CredPhases' BY <1>1 DEF CredInv, CredPhases, Forward, KeysOf
<1>7. CarriedOver' BY <1>1, <1>2, <1>3 DEF CredInv, CarriedOver, Forward, KeysOf
<1>8. LoadGroup' = LoadGroup BY <1>1 DEF LoadGroup
<1>9. Migrating' BY <1>1, <1>2, <1>3, <1>8 DEF CredInv, Migrating, Forward, KeysOf
<1>10. Restoring' BY <1>1 DEF CredInv, Restoring, Forward
<1> QED BY <1>5, <1>6, <1>7, <1>9, <1>10 DEF CredInv

LEMMA StoreFailsKeeps ==
  ASSUME CredInv, StoreFails
  PROVE  CredInv'
<1>1. /\ UNCHANGED <<keyring, envd, mfile, backup, available, srv, stale, left>>
      /\ cpc = "set"
  BY DEF StoreFails, stores
<1>2. StoresTyped' BY <1>1 DEF StoresTyped, CredInv, TypeOKCred
<1>3. CASE End("error") BY <1>2, <1>3, EndKeeps
<1>4. CASE Continue("undo") /\ UNCHANGED <<mem, creds, todo, cur, wrote>>
  <2>1. TypeOKCred' BY <1>1, <1>2, <1>4, MovesOn DEF Continue, CredInv, TypeOKCred
  <2>2. CredPhases' BY <1>1, <1>4 DEF CredInv, CredPhases, Continue, Forward
  <2> QED BY <1>4, <2>1, <2>2
          DEF CredInv, CarriedOver, Migrating, Restoring, Continue, Forward
<1> QED BY <1>3, <1>4 DEF StoreFails

LEMMA TrackKeyKeeps ==
  ASSUME CredInv, NEW ok \in BOOLEAN, TrackKey(ok)
  PROVE  CredInv'
<1>1. PICK m : m = [mem EXCEPT !.tracked = @ \cup {cur}] OBVIOUS
<1>2. /\ UNCHANGED <<keyring, available, envd, srv, stale, backup, left>> /\ cpc = "track"
      /\ IF m = mem THEN UNCHANGED mfile ELSE Save(m, ok)
      /\ IF ~ok /\ m # mem /\ cmd.op = "restore" THEN End("error")
         ELSE Continue("pick") /\ mem' = m /\ UNCHANGED <<creds, todo, cur, wrote>>
  BY <1>1 DEF TrackKey
<1>3. cur \in CredKeys BY <1>2 DEF CredInv, CredPhases, KeysOf
<1>4. /\ m \in Migration /\ m.tracked = mem.tracked \cup {cur}
      /\ m.migrated = mem.migrated
  BY <1>1, <1>3 DEF CredInv, TypeOKCred, Migration
<1>5. mfile' = mfile \/ mfile' = m BY <1>2 DEF Save
<1>6. StoresTyped' BY <1>2, <1>4, <1>5 DEF StoresTyped, CredInv, TypeOKCred
<1>7. CASE End("error") BY <1>6, <1>7, EndKeeps
<1>8. CASE /\ Continue("pick") /\ mem' = m /\ UNCHANGED <<creds, todo, cur, wrote>>
           /\ ~ok /\ m # mem => cmd.op # "restore"
  <2>1. TypeOKCred'
    <3>1. MemoryTyped'
      BY <1>4, <1>8 DEF Continue, CredInv, TypeOKCred, MemoryTyped, CommandOps, Options
    <3> QED BY <1>6, <3>1, TypesSplit
  <2>2. CredPhases' BY <1>2, <1>8 DEF CredInv, CredPhases, Continue, Forward, KeysOf
  <2>3. CarriedOver'
    BY <1>2, <1>4, <1>8 DEF CredInv, CarriedOver, Continue, Forward, KeysOf
  <2>4. LoadGroup' = LoadGroup BY <1>2 DEF LoadGroup
  <2>5. Migrating'
    <3> SUFFICES ASSUME cmd'.op = "migrate", ~stale' PROVE Migrating'
      BY DEF Migrating
    <3>1. /\ cmd.op = "migrate" /\ cmd.opt = {} /\ cmd' = cmd /\ ~stale
          /\ cpc' = "pick" /\ creds' = creds /\ mem' = m
      BY <1>2, <1>8 DEF Continue, CredInv, CredPhases
    <3>2. /\ ~m.migrated /\ mfile'.tracked \ TokenKeys \subseteq m.tracked
      BY <1>2, <1>4, <1>5, <3>1 DEF CredInv, Migrating, Forward
    <3>3. cur \notin TokenKeys => keyring[cur] = creds[cur] /\ keyring[cur] # NoValue
      BY <1>2, <3>1 DEF CredInv, CredPhases, CarriedOver, Forward
    <3>4. ASSUME NEW k \in KeysOf(creds) \ TokenKeys
          PROVE  /\ k \in m.tracked /\ keyring[k] # NoValue => keyring[k] = creds[k]
                 /\ k \in mfile.tracked => k \in m.tracked
      BY <1>2, <1>4, <3>1, <3>3 DEF CredInv, Migrating, Forward
    <3>5. \A k \in KeysOf(creds) \ TokenKeys :
             (k \in mfile'.tracked /\ keyring[k] # NoValue) \/ LoadGroup[k] = creds[k]
      BY <1>2, <1>5, <3>1, <3>4 DEF CredInv, Migrating, Forward
    <3>6. KeysOf(creds)' = KeysOf(creds) BY <3>1 DEF KeysOf
    <3> QED BY <1>2, <2>4, <3>1, <3>2, <3>4, <3>5, <3>6 DEF Migrating
  <2>6. Restoring'
    <3> SUFFICES ASSUME cmd'.op = "restore", ~stale' PROVE Restoring'
      BY DEF Restoring
    <3>1. /\ cmd.op = "restore" /\ ~stale /\ creds' = creds /\ mem' = m /\ cpc' = "pick"
      BY <1>2, <1>8 DEF Continue
    <3>2. mfile' = IF m = mem THEN mfile ELSE m BY <1>2, <1>8, <3>1 DEF Save
    <3> QED BY <1>2, <3>1, <3>2 DEF CredInv, Restoring, Forward
  <2> QED BY <2>1, <2>2, <2>3, <2>5, <2>6 DEF CredInv
<1> QED BY <1>2, <1>7, <1>8

LEMMA KeysDoneKeeps ==
  ASSUME CredInv, KeysDone
  PROVE  CredInv'
<1>1. /\ UNCHANGED <<keyring, envd, mfile, backup, available, srv, stale, left>>
      /\ cpc = "pick" /\ todo = {}
  BY DEF KeysDone, stores
<1>2. StoresTyped' BY <1>1 DEF StoresTyped, CredInv, TypeOKCred
<1>3. CASE End("ok") BY <1>2, <1>3, EndKeeps
<1>4. CASE Continue("mark") /\ UNCHANGED <<mem, creds, todo, cur, wrote>>
  <2>1. TypeOKCred' BY <1>1, <1>2, <1>4, MovesOn DEF Continue, CredInv, TypeOKCred
  <2>2. CredPhases' BY <1>1, <1>4 DEF CredInv, CredPhases, Continue, Forward, KeysOf
  <2>3. CarriedOver' BY <1>1, <1>4 DEF CredInv, CarriedOver, Continue, Forward, KeysOf
  <2>4. LoadGroup' = LoadGroup BY <1>1 DEF LoadGroup
  <2>5. Migrating'
    BY <1>1, <1>4, <2>4 DEF CredInv, Migrating, Continue, Forward, KeysOf
  <2>6. Restoring' BY <1>1, <1>4 DEF CredInv, Restoring, Continue, Forward
  <2> QED BY <2>1, <2>2, <2>3, <2>5, <2>6 DEF CredInv
<1> QED BY <1>3, <1>4 DEF KeysDone

LEMMA MarkMigratedKeeps ==
  ASSUME CredInv, NEW ok \in BOOLEAN, MarkMigrated(ok)
  PROVE  CredInv'
<1>1. PICK m : m = [mem EXCEPT !.migrated = TRUE] OBVIOUS
<1>2. /\ UNCHANGED <<keyring, available, envd, srv, stale, backup, left>> /\ cpc = "mark"
      /\ IF m = mem THEN UNCHANGED mfile ELSE Save(m, ok)
      /\ \/ End("error") \/ End("ok")
         \/ /\ ok \/ m = mem
            /\ cmd.op = "migrate" /\ Continue("remove") /\ mem' = m
            /\ UNCHANGED <<creds, todo, cur, wrote>>
  BY <1>1 DEF MarkMigrated
<1>3. m \in Migration /\ m.tracked = mem.tracked /\ m.migrated = TRUE
  BY <1>1 DEF CredInv, TypeOKCred, Migration
<1>4. mfile' = mfile \/ mfile' = m BY <1>2 DEF Save
<1>5. StoresTyped' BY <1>2, <1>3, <1>4 DEF StoresTyped, CredInv, TypeOKCred
<1>6. CASE End("error") \/ End("ok") BY <1>5, <1>6, EndKeeps
<1>7. CASE /\ ok \/ m = mem
           /\ cmd.op = "migrate" /\ Continue("remove") /\ mem' = m
           /\ UNCHANGED <<creds, todo, cur, wrote>>
  <2>1. TypeOKCred'
    <3>1. MemoryTyped'
      BY <1>3, <1>7 DEF Continue, CredInv, TypeOKCred, MemoryTyped, CommandOps, Options
    <3> QED BY <1>5, <3>1, TypesSplit
  <2>2. CredPhases' BY <1>2, <1>7 DEF CredInv, CredPhases, Continue, Forward, KeysOf
  <2>3. CarriedOver'
    BY <1>2, <1>3, <1>7 DEF CredInv, CarriedOver, Continue, Forward, KeysOf
  <2>4. Migrating'
    <3> SUFFICES ASSUME ~stale' PROVE Migrating' BY DEF Migrating
    <3>1. /\ cmd' = cmd /\ cmd.opt = {} /\ ~stale /\ cpc' = "remove" /\ creds' = creds
          /\ mem' = m /\ todo = {} /\ keyring' = keyring
      BY <1>2, <1>7 DEF Continue, CredInv, CredPhases
    <3>2. ~mem.migrated BY <1>2, <1>7, <3>1 DEF CredInv, Migrating, Forward
    <3>3. mfile' = m BY <1>2, <1>3, <1>7, <3>2 DEF Save
    <3>4. \A k \in KeysOf(creds) : k \in m.tracked
      BY <1>2, <1>3, <1>7, <3>1 DEF CredInv, CarriedOver, Forward
    <3>5. \A k \in KeysOf(creds) \ TokenKeys :
             k \in m.tracked /\ keyring[k] # NoValue => keyring[k] = creds[k]
      BY <1>2, <1>3, <1>7, <3>1 DEF CredInv, Migrating, Forward
    <3>6. KeysOf(creds)' = KeysOf(creds) BY <3>1 DEF KeysOf
    <3> QED BY <3>1, <3>3, <3>4, <3>5, <3>6 DEF Migrating
  <2>5. Restoring' BY <1>7 DEF Restoring, Continue
  <2> QED BY <2>1, <2>2, <2>3, <2>4, <2>5 DEF CredInv
<1> QED BY <1>2, <1>6, <1>7

LEMMA RemoveEnvDKeeps ==
  ASSUME CredInv, NEW yes \in BOOLEAN, RemoveEnvD(yes)
  PROVE  CredInv'
<1>1. StoresTyped'
  BY Maps DEF RemoveEnvD, StoresTyped, CredInv, TypeOKCred
<1> QED BY <1>1, EndKeeps DEF RemoveEnvD

(* The rollback, delete and export: nothing that is still to be kept. *)
LEMMA UndoKeeps ==
  ASSUME CredInv, NEW k \in CredKeys, Undo(k)
  PROVE  CredInv'
<1>1. /\ UNCHANGED <<available, envd, mfile, mem, srv, stale, backup, creds, todo,
                     left, result, cmd, before>>
      /\ cpc = "undo" /\ wrote' = wrote \ {k} /\ cur' = k
      /\ \/ keyring' = keyring
         \/ keyring' = [keyring EXCEPT ![k] = NoValue]
      /\ \/ cpc' = "undo"
         \/ cmd.op = "migrate" /\ cpc' = "untrack"
  BY DEF Undo, Continue, KeyringHas
<1>2. keyring' \in CredMap BY <1>1 DEF CredInv, TypeOKCred, CredMap
<1> StoresTyped' BY <1>1, <1>2 DEF StoresTyped, CredInv, TypeOKCred
<1>3. TypeOKCred' BY <1>1, MovesOn DEF CredInv, TypeOKCred
<1>4. CredPhases' BY <1>1 DEF CredInv, CredPhases, Forward
<1> QED BY <1>1, <1>3, <1>4 DEF CredInv, CarriedOver, Migrating, Restoring, Forward

LEMMA UndoDoneKeeps ==
  ASSUME CredInv, UndoDone
  PROVE  CredInv'
<1>1. StoresTyped' BY DEF UndoDone, stores, StoresTyped, CredInv, TypeOKCred
<1> QED BY <1>1, EndKeeps DEF UndoDone

LEMMA UntrackKeyKeeps ==
  ASSUME CredInv, NEW ok \in BOOLEAN, UntrackKey(ok)
  PROVE  CredInv'
<1>1. PICK m : m = [mem EXCEPT !.tracked = @ \ {cur}] OBVIOUS
<1>2. /\ UNCHANGED <<keyring, available, envd, srv, stale, backup, left>>
      /\ cpc = "untrack" /\ (mfile' = mfile \/ mfile' = m)
      /\ \/ End("ok")
         \/ /\ Continue(IF cmd.op = "migrate" THEN "undo" ELSE "edel") /\ mem' = m
            /\ UNCHANGED <<creds, todo, cur, wrote>>
  BY <1>1 DEF UntrackKey, Save
<1>3. m \in Migration BY <1>1 DEF CredInv, TypeOKCred, Migration
<1>4. StoresTyped' BY <1>2, <1>3 DEF StoresTyped, CredInv, TypeOKCred
<1>5. CASE End("ok") BY <1>4, <1>5, EndKeeps
<1>6. CASE /\ Continue(IF cmd.op = "migrate" THEN "undo" ELSE "edel") /\ mem' = m
           /\ UNCHANGED <<creds, todo, cur, wrote>>
  <2>1. MemoryTyped'
    BY <1>3, <1>6 DEF Continue, CredInv, TypeOKCred, MemoryTyped, CommandOps, Options
  <2>2. CredPhases' BY <1>2, <1>6 DEF CredInv, CredPhases, Continue, Forward
  <2>3. cpc' \notin Forward BY <1>6 DEF Continue, Forward
  <2> QED BY <1>4, <2>1, <2>2, <2>3, TypesSplit
          DEF CredInv, CarriedOver, Migrating, Restoring
<1> QED BY <1>2, <1>5, <1>6

LEMMA DeleteKeeps ==
  ASSUME CredInv, NEW k \in CredKeys, DeleteFromKeyring(k) \/ DeleteFromEnvD(k)
  PROVE  CredInv'
<1>1. CASE DeleteFromKeyring(k)
  <2>1. /\ UNCHANGED <<available, envd, mfile, srv, stale, backup, left>> /\ cpc = "kdel"
        /\ \/ keyring' = keyring
           \/ keyring' = [keyring EXCEPT ![k] = NoValue]
        /\ \/ End("error")
           \/ /\ cpc' \in {"untrack", "edel"} /\ cur' = k /\ wrote' \in {{k}, {}}
              /\ UNCHANGED <<result, cmd, before, mem, creds, todo>>
    BY <1>1 DEF DeleteFromKeyring, Continue, KeyringHas
  <2> keyring' \in CredMap BY <2>1 DEF CredInv, TypeOKCred, CredMap
  <2>2. StoresTyped' BY <2>1 DEF StoresTyped, CredInv, TypeOKCred
  <2>3. CASE End("error") BY <2>2, <2>3, EndKeeps
  <2>4. CASE /\ cpc' \in {"untrack", "edel"} /\ cur' = k /\ wrote' \in {{k}, {}}
             /\ UNCHANGED <<result, cmd, before, mem, creds, todo>>
    <3>1. TypeOKCred' BY <2>1, <2>2, <2>4, MovesOn DEF CredInv, TypeOKCred
    <3>2. CredPhases' BY <2>1, <2>4 DEF CredInv, CredPhases, Forward
    <3> QED BY <2>1, <2>4, <3>1, <3>2
            DEF CredInv, CarriedOver, Migrating, Restoring, Forward
  <2> QED BY <2>1, <2>3, <2>4
<1>2. CASE DeleteFromEnvD(k)
  <2>1. /\ UNCHANGED <<keyring, envd, mfile, backup, available, srv, stale, left>>
        /\ cpc = "edel"
        /\ \/ End("ok") \/ End("error")
           \/ /\ cpc' = "ewrite" /\ creds' = [envd EXCEPT ![k] = NoValue]
              /\ UNCHANGED <<result, cmd, before, mem, todo, cur, wrote>>
    BY <1>2 DEF DeleteFromEnvD, Continue, stores
  <2>2. StoresTyped' BY <2>1 DEF StoresTyped, CredInv, TypeOKCred
  <2>3. CASE End("ok") \/ End("error") BY <2>2, <2>3, EndKeeps
  <2>4. CASE /\ cpc' = "ewrite" /\ creds' = [envd EXCEPT ![k] = NoValue]
             /\ UNCHANGED <<result, cmd, before, mem, todo, cur, wrote>>
    <3>1. creds' \in CredMap BY <2>4, Maps DEF CredInv, TypeOKCred
    <3>2. MemoryTyped'
      BY <2>4, <3>1 DEF CredInv, TypeOKCred, MemoryTyped, CommandOps, Options
    <3>3. CredPhases' BY <2>1, <2>4 DEF CredInv, CredPhases, Forward
    <3> QED BY <2>2, <2>4, <3>2, <3>3, TypesSplit
            DEF CredInv, CarriedOver, Migrating, Restoring, Forward
  <2> QED BY <2>1, <2>3, <2>4
<1> QED BY <1>1, <1>2

LEMMA WriteEnvDKeeps ==
  ASSUME CredInv, WriteEnvD
  PROVE  CredInv'
<1>1. envd' \in CredMap
  <2>1. \A kept \in SUBSET KeysOf(creds) :
          [k \in CredKeys |-> IF k \in kept THEN creds[k] ELSE NoValue] \in CredMap
    BY DEF CredInv, TypeOKCred, CredMap
  <2>2. creds \in CredMap BY DEF CredInv, TypeOKCred
  <2> QED BY <2>1, <2>2 DEF WriteEnvD
<1>2. StoresTyped' BY <1>1 DEF WriteEnvD, StoresTyped, CredInv, TypeOKCred
<1> QED BY <1>2, EndKeeps DEF WriteEnvD

LEMMA KilledKeeps ==
  ASSUME CredInv, Killed
  PROVE  CredInv'
<1>1. StoresTyped' BY DEF Killed, stores, StoresTyped, CredInv, TypeOKCred
<1> QED BY <1>1, EndKeeps DEF Killed

-----------------------------------------------------------------------------
(* Credentials: beside a command *)

LEMMA SurroundingsKeepCred ==
  ASSUME CredInv, KeyringToggles \/ ServerStarts \/ UNCHANGED credVars
  PROVE  CredInv'
<1>1. /\ UNCHANGED <<keyring, envd, mfile, backup, mem, stale, cmd, cpc, creds, todo,
                     cur, wrote, result, before, left>>
      /\ available' \in BOOLEAN /\ srv' \in Migration
  BY DEF KeyringToggles, ServerStarts, credVars, stores, CredInv, TypeOKCred
<1>2. TypeOKCred' BY <1>1 DEF CredInv, TypeOKCred
<1>3. LoadGroup' = LoadGroup /\ KeysOf(creds)' = KeysOf(creds)
  BY <1>1 DEF LoadGroup, KeysOf
<1> QED BY <1>1, <1>2, <1>3 DEF CredInv, CredPhases, CarriedOver, Migrating, Restoring

LEMMA ServerTracksKeeps ==
  ASSUME CredInv, NEW k \in TokenKeys, NEW v \in CredValues, ServerTracks(k, v)
  PROVE  CredInv'
<1>1. PICK m : m = [srv EXCEPT !.tracked = @ \cup {k}] OBVIOUS
<1>2. /\ UNCHANGED <<envd, available, mem, backup, cmd, cpc, creds, todo, cur,
                     wrote, result, before, left>>
      /\ keyring' = [keyring EXCEPT ![k] = v] /\ srv' = m
      /\ IF k \in srv.tracked THEN UNCHANGED <<mfile, stale>>
         ELSE mfile' = m /\ stale' = (stale \/ srv # mfile)
  BY <1>1 DEF ServerTracks
<1>3. /\ m \in Migration /\ m.tracked = srv.tracked \cup {k}
      /\ m.migrated = srv.migrated
  BY <1>1, TokenKeysAssumption DEF CredInv, TypeOKCred, Migration
<1>4. /\ keyring' \in CredMap /\ keyring'[k] # NoValue
      /\ \A j \in CredKeys \ {k} : keyring'[j] = keyring[j]
  BY <1>2, TokenKeysAssumption, ValuesAssumption DEF CredInv, TypeOKCred, CredMap
<1>5. stale' \in BOOLEAN BY <1>2 DEF CredInv, TypeOKCred
<1>6. TypeOKCred' BY <1>2, <1>3, <1>4, <1>5 DEF CredInv, TypeOKCred
<1>7. CredPhases' BY <1>2 DEF CredInv, CredPhases, KeysOf
<1>8. KeysOf(creds)' = KeysOf(creds) BY <1>2 DEF KeysOf
<1>9. CarriedOver'
  <2>1. KeysOf(creds) \subseteq CredKeys BY DEF KeysOf
  <2> QED BY <1>2, <1>4, <1>8, <2>1 DEF CredInv, CarriedOver
<1>10. LoadGroup' = LoadGroup BY <1>2 DEF LoadGroup
<1>11. ~stale' => /\ ~stale /\ mfile'.migrated = mfile.migrated
                  /\ mfile'.tracked = mfile.tracked \/ mfile'.tracked = mfile.tracked \cup {k}
  BY <1>2, <1>3
<1>12. Migrating'
  <2>1. KeysOf(creds) \subseteq CredKeys BY DEF KeysOf
  <2> QED BY <1>2, <1>4, <1>8, <1>10, <1>11, <2>1 DEF CredInv, Migrating
<1>13. Restoring' BY <1>2, <1>11 DEF CredInv, Restoring
<1> QED BY <1>6, <1>7, <1>9, <1>12, <1>13 DEF CredInv

LEMMA NextCredKeeps ==
  ASSUME CredInv, [CredNext]_credVars
  PROVE  CredInv'
<1>1. CASE CommandStep
  BY <1>1, CreateBackupKeeps, StoreKeyKeeps, StoreFailsKeeps, KeysDoneKeeps,
     UndoDoneKeeps, WriteEnvDKeeps, PickKeyKeeps, SkipKeyKeeps, UndoKeeps, DeleteKeeps,
     TrackKeyKeeps, MarkMigratedKeeps, RemoveEnvDKeeps, UntrackKeyKeeps DEF CommandStep
<1> QED BY <1>1, CommandsKeep, KilledKeeps, SurroundingsKeepCred, ServerTracksKeeps
        DEF CredNext

(* The inductive invariant of Credentials. *)
THEOREM CredInvariant == CredSpec => []CredInv
<1>1. CredInv /\ [CredNext]_credVars => CredInv' BY NextCredKeeps
<1> QED BY <1>1, InitCred, PTL DEF CredSpec

(* The types of the stores, the migration states and the running command   *)
(* (internal/credentials, cmd/wtmcpctl/cred_ops.go).                       *)
THEOREM CredTypeCorrect == CredSpec => []TypeOKCred
<1>1. CredInv => TypeOKCred BY DEF CredInv
<1> QED BY <1>1, CredInvariant, PTL

-----------------------------------------------------------------------------
(* Credentials: what migrate and restore promise *)

(* Where the keys that a migration has read resolve to. *)
Resolved ==
  cmd.op = "migrate" /\ cpc \in Forward /\ ~stale =>
    \A k \in KeysOf(creds) \ TokenKeys : GetAll(mfile, TRUE)[k] = creds[k]

LEMMA MigratingResolves == CredInv => Resolved
<1> SUFFICES ASSUME CredInv, cmd.op = "migrate", cpc \in Forward, ~stale,
                    NEW k \in KeysOf(creds) \ TokenKeys
             PROVE  GetAll(mfile, TRUE)[k] = creds[k]
  BY DEF Resolved
<1>1. k \in CredKeys BY DEF KeysOf
<1>2. (k \in mfile.tracked /\ keyring[k] # NoValue) => keyring[k] = creds[k]
  BY DEF CredInv, Migrating
<1>3. (k \in mfile.tracked /\ keyring[k] # NoValue) \/ LoadGroup[k] = creds[k]
  <2>1. CASE cpc = "remove"
    <3>1. k \in mfile.tracked BY <2>1 DEF CredInv, Migrating
    <3>2. keyring[k] # NoValue BY <2>1 DEF CredInv, CredPhases, CarriedOver
    <3> QED BY <3>1, <3>2
  <2>2. CASE cpc # "remove" BY <2>2 DEF CredInv, Migrating
  <2> QED BY <2>1, <2>2
<1> QED BY <1>1, <1>2, <1>3 DEF GetAll

(* A migration that ends, and does not roll back, has changed none of what *)
(* its keys resolve to: it ends before the env.d file is removed, or when  *)
(* every key is in the keyring and tracked.                                *)
LEMMA MigrationEnds ==
  ASSUME CredInv, [CredNext]_credVars, cmd.op = "migrate", cpc \in Forward,
         cpc' # "undo"
  PROVE  \/ cmd' = cmd /\ cpc' \in Forward /\ creds' = creds
         \/ UNCHANGED <<keyring, envd, mfile>>
         \/ cpc = "remove" /\ UNCHANGED <<keyring, mfile>>
<1> USE DEF Forward
<1>1. cpc # "idle" /\ cpc \notin {"undo", "untrack", "kdel", "edel", "ewrite"}
  OBVIOUS
<1>2. CASE UNCHANGED credVars BY <1>2 DEF credVars, stores
<1>3. CASE KeyringToggles \/ ServerStarts \/ Killed
  BY <1>3 DEF KeyringToggles, ServerStarts, Killed, stores
<1>4. CASE \E k \in TokenKeys, v \in CredValues : ServerTracks(k, v)
  BY <1>4 DEF ServerTracks
<1>5. ~Commands
  BY <1>1 DEF Commands, RunCredSet, RunCredRotate, RunCredMigrate, RunCredRestore,
              RunCredImport, RunCredExport, RunCredBackup, RunCredDelete, Command
<1>6. ASSUME NEW k \in CredKeys, \/ PickKey(k) \/ SkipKey(k) \/ Undo(k)
                                 \/ DeleteFromKeyring(k) \/ DeleteFromEnvD(k)
      PROVE  cmd' = cmd /\ cpc' \in Forward /\ creds' = creds
  BY <1>1, <1>6 DEF PickKey, SkipKey, Undo, DeleteFromKeyring, DeleteFromEnvD, Continue
<1>7. CASE CreateBackup \/ StoreKey \/ StoreFails \/ KeysDone \/ UndoDone \/ WriteEnvD
  BY <1>1, <1>7 DEF CreateBackup, StoreKey, StoreFails, KeysDone, UndoDone, WriteEnvD,
                    Continue, stores
<1>8. ASSUME NEW ok \in BOOLEAN, \/ TrackKey(ok) \/ MarkMigrated(ok) \/ RemoveEnvD(ok)
                                 \/ UntrackKey(ok)
      PROVE  \/ cmd' = cmd /\ cpc' \in Forward /\ creds' = creds
             \/ UNCHANGED <<keyring, envd, mfile>>
             \/ cpc = "remove" /\ UNCHANGED <<keyring, mfile>>
  <2>1. CASE TrackKey(ok) BY <2>1 DEF TrackKey, Continue
  <2>2. CASE MarkMigrated(ok) BY <2>2 DEF MarkMigrated, Continue, Save
  <2>3. CASE RemoveEnvD(ok) BY <2>3 DEF RemoveEnvD
  <2> QED BY <1>1, <1>8, <2>1, <2>2, <2>3 DEF UntrackKey
<1> QED BY <1>2, <1>3, <1>4, <1>5, <1>6, <1>7, <1>8 DEF CredNext, CommandStep

LEMMA StaysStale ==
  ASSUME [CredNext]_credVars, stale, stale \in BOOLEAN
  PROVE  stale'
BY DEF CredNext, credVars, Commands, RunCredSet, RunCredRotate, RunCredMigrate,
       RunCredRestore, RunCredImport, RunCredExport, RunCredBackup, RunCredDelete,
       Command, CommandStep, CreateBackup, StoreKey, StoreFails, KeysDone, UndoDone,
       WriteEnvD, PickKey, SkipKey, Undo, DeleteFromKeyring, DeleteFromEnvD, TrackKey,
       MarkMigrated, RemoveEnvD, UntrackKey, Killed, KeyringToggles, ServerStarts,
       ServerTracks

(* A migration loses no credential: wherever it stops, what the plugins of *)
(* a server started now would get is what it has read (runCredMigrate,     *)
(* Service.GetAll).                                                        *)
THEOREM MigrationsKeepAll == CredSpec => MigrationKeepsAll
<1> DEFINE Promise ==
      cmd.op = "migrate" /\ cpc \in Forward /\ cpc' # "undo" /\ ~stale' =>
        \A k \in KeysOf(creds) \ TokenKeys : GetAll(mfile, TRUE)'[k] = creds[k]
<1>1. CredInv' => Resolved' BY MigratingResolves, PTL
<1>2. ASSUME CredInv, [CredNext]_credVars PROVE Promise
  <2> SUFFICES ASSUME cmd.op = "migrate", cpc \in Forward, cpc' # "undo", ~stale',
                      NEW k \in KeysOf(creds) \ TokenKeys
               PROVE  GetAll(mfile, TRUE)'[k] = creds[k]
    OBVIOUS
  <2>1. ~stale BY <1>2, StaysStale DEF CredInv, TypeOKCred
  <2>2. GetAll(mfile, TRUE)[k] = creds[k] BY <1>2, <2>1, MigratingResolves DEF Resolved
  <2>3. CASE cmd' = cmd /\ cpc' \in Forward /\ creds' = creds
    <3>1. Resolved' BY <1>1, <1>2, NextCredKeeps
    <3>2. KeysOf(creds)' = KeysOf(creds) BY <2>3 DEF KeysOf
    <3> QED BY <2>3, <3>1, <3>2 DEF Resolved
  <2>4. CASE UNCHANGED <<keyring, envd, mfile>>
    BY <2>2, <2>4 DEF GetAll, LoadGroup
  <2>5. CASE cpc = "remove" /\ UNCHANGED <<keyring, mfile>>
    <3>1. k \in mfile.tracked /\ keyring[k] # NoValue
      BY <1>2, <2>1, <2>5 DEF CredInv, CredPhases, CarriedOver, Migrating, Forward
    <3>2. k \in CredKeys BY DEF KeysOf
    <3> QED BY <2>2, <2>5, <3>1, <3>2 DEF GetAll
  <2> QED BY <1>2, <2>3, <2>4, <2>5, MigrationEnds
<1>3. CredInv /\ [CredNext]_credVars => [Promise]_credVars BY <1>2
<1> QED BY <1>3, CredInvariant, PTL DEF CredSpec, MigrationKeepsAll

(* A restore that reports success is complete (RestoreBackup). *)
THEOREM RestoresAreComplete == CredSpec => RestoreIsComplete
<1> DEFINE Promise ==
      cmd.op = "restore" /\ result' = "ok" /\ ~stale' =>
        /\ \A k \in KeysOf(backup.payload) :
             /\ keyring'[k] # NoValue /\ k \in mfile'.tracked
             /\ cmd.opt = {} /\ k \notin TokenKeys => keyring'[k] = backup.payload[k]
        /\ backup.state => mfile'.migrated
<1>1. ASSUME CredInv, [CredNext]_credVars PROVE Promise
  <2> SUFFICES ASSUME cmd.op = "restore", result' = "ok", ~stale' PROVE Promise
    OBVIOUS
  <2>1. /\ cpc \in {"pick", "set", "track", "mark", "undo"} /\ result = "none"
    BY <1>1 DEF CredInv, CredPhases
  <2>2. \/ KeysDone /\ End("ok")
        \/ \E ok \in BOOLEAN : MarkMigrated(ok) /\ End("ok")
    <3>1. ~Commands
      BY <2>1 DEF Commands, RunCredSet, RunCredRotate, RunCredMigrate, RunCredRestore,
                  RunCredImport, RunCredExport, RunCredBackup, RunCredDelete, Command
    <3>2. \A k \in CredKeys : ~PickKey(k) /\ ~SkipKey(k) /\ ~Undo(k)
                              /\ ~DeleteFromKeyring(k) /\ ~DeleteFromEnvD(k)
      BY <2>1 DEF PickKey, SkipKey, Undo, DeleteFromKeyring, DeleteFromEnvD, Continue
    <3>3. ~CreateBackup /\ ~StoreKey /\ ~StoreFails /\ ~UndoDone /\ ~WriteEnvD
      BY <2>1 DEF CreateBackup, StoreKey, StoreFails, UndoDone, WriteEnvD, Continue, End
    <3>4. \A ok \in BOOLEAN : ~TrackKey(ok) /\ ~RemoveEnvD(ok) /\ ~UntrackKey(ok)
      BY <2>1 DEF TrackKey, RemoveEnvD, UntrackKey, Continue, End
    <3>5. ~(KeyringToggles \/ ServerStarts \/ Killed \/ UNCHANGED credVars)
      BY <2>1 DEF KeyringToggles, ServerStarts, Killed, credVars, End
    <3>6. ~(\E k \in TokenKeys, v \in CredValues : ServerTracks(k, v))
      BY <2>1 DEF ServerTracks
    <3>7. KeysDone \/ \E ok \in BOOLEAN : MarkMigrated(ok)
      BY <1>1, <3>1, <3>2, <3>3, <3>4, <3>5, <3>6 DEF CredNext, CommandStep
    <3> QED BY <2>1, <3>7 DEF KeysDone, MarkMigrated, Continue, End
  <2>3. /\ UNCHANGED <<keyring, stale>> /\ todo = {} /\ cpc \in {"pick", "mark"}
    BY <1>1, <2>2 DEF KeysDone, MarkMigrated, stores, CredInv, CredPhases
  <2>4. /\ creds = backup.payload /\ mem.tracked \subseteq mfile.tracked
        /\ mem.migrated => mfile.migrated
        /\ \A k \in KeysOf(creds) :
             /\ k \in mem.tracked /\ keyring[k] # NoValue
             /\ cmd.opt = {} /\ k \notin TokenKeys => keyring[k] = creds[k]
    BY <1>1, <2>3 DEF CredInv, Restoring, CarriedOver, Forward
  <2>5. CASE KeysDone
    <3>1. mfile' = mfile /\ ~backup.state BY <2>1, <2>2, <2>5 DEF KeysDone, stores, Continue
    <3> QED BY <2>3, <2>4, <3>1
  <2>6. ASSUME NEW ok \in BOOLEAN, MarkMigrated(ok), End("ok") PROVE Promise
    <3>1. PICK m : m = [mem EXCEPT !.migrated = TRUE] OBVIOUS
    <3>2. m.tracked = mem.tracked /\ m.migrated
      BY <1>1, <3>1 DEF CredInv, TypeOKCred, Migration
    <3>3. mfile' = IF m = mem THEN mfile ELSE m
      BY <2>6, <3>1 DEF MarkMigrated, Save, End
    <3> QED BY <2>3, <2>4, <3>2, <3>3
  <2> QED BY <2>2, <2>5, <2>6
<1>2. CredInv /\ [CredNext]_credVars => [Promise]_credVars BY <1>1
<1> QED BY <1>2, CredInvariant, PTL DEF CredSpec, RestoreIsComplete

=============================================================================
