---------------------------- MODULE MemoryStore ----------------------------
(***************************************************************************)
(* The in-memory plugin cache, internal/cache/memory.go.                   *)
(*                                                                         *)
(* The store is one map from (namespace, key) to entries, shared by every  *)
(* plugin's service-request goroutines, and a separate per-namespace entry *)
(* counter that is incremented and decremented by hand at six places.  The *)
(* limit maxPerNS is enforced against the counter, not against the map.    *)
(* Each action below is one section of code between two lock operations:   *)
(* Get and cleanup drop the read lock before they take the write lock, and *)
(* Set reads the clock before it takes the write lock, so other clients    *)
(* run in between.                                                         *)
(***************************************************************************)
EXTENDS Integers, FiniteSets

CONSTANTS
  Clients,      \* goroutines that call the store
  Namespaces,   \* one per plugin: HandleCache hardcodes the plugin's name
  Keys,         \* keys that passed ValidateKey, in particular never empty
  Values,
  TooLarge,     \* the values longer than MaxEntrySize
  TTLs,         \* time-to-live arguments of Set; 0 means no expiry
  MaxPerNS,     \* MaxEntriesPerPlugin; 0 means no limit
  MaxTime       \* bound: the clock stops here

ASSUME LimitAssumption == MaxPerNS \in Nat
ASSUME TTLAssumption == TTLs \subseteq Nat
ASSUME TimeAssumption == MaxTime \in Nat

VARIABLES
  now,        \* the wall clock, in ticks; starts at 1
  entries,    \* m.entries: a function whose domain is the stored keys
  nsCounts,   \* m.nsCounts: an absent counter reads as 0
  job,        \* what each client holds between two lock sections
  cleaner,    \* where the cleanup goroutine is
  batch,      \* cleanup's list of keys it saw expired under the read lock
  closed      \* stopClean has been closed

vars == <<now, entries, nsCounts, job, cleaner, batch, closed>>

----------------------------------------------------------------------------
(* Storage keys are pairs: the code joins the two parts with a null byte,  *)
(* which neither a plugin name nor a validated key contains.               *)
StorageKey == Namespaces \X Keys

Entry == [value : Values, expires : Nat, lastAccess : Nat]

Stored == DOMAIN entries

KeysIn(f, ns) == {sk \in DOMAIN f : sk[1] = ns}

InNS(ns) == KeysIn(entries, ns)

(* entry.expired: a zero deadline never expires, and the comparison is     *)
(* time.After, which is strict.                                            *)
Expired(e) == e.expires # 0 /\ now > e.expires

NoJob == [op |-> "idle"]

Jobs == {NoJob} \cup [op : {"reap"}, sk : StorageKey]
                \cup [op : {"store"}, sk : StorageKey, e : Entry]

Drop(f, S) == [x \in DOMAIN f \ S |-> f[x]]

Count(ns, by) == [nsCounts EXCEPT ![ns] = @ + by]

TypeOK ==
  /\ now \in Nat \ {0}
  /\ Stored \subseteq StorageKey
  /\ IsFiniteSet(Stored)
  /\ entries \in [Stored -> Entry]
  /\ nsCounts \in [Namespaces -> Nat]
  /\ job \in [Clients -> Jobs]
  /\ cleaner \in {"waiting", "sweeping", "stopped"}
  /\ batch \subseteq StorageKey
  /\ closed \in BOOLEAN

Init ==
  /\ now = 1
  /\ entries = [sk \in {} |-> sk]
  /\ nsCounts = [ns \in Namespaces |-> 0]
  /\ job = [c \in Clients |-> NoJob]
  /\ cleaner = "waiting"
  /\ batch = {}
  /\ closed = FALSE

----------------------------------------------------------------------------
(* Get *)

(* A hit under the read lock refreshes the entry's access time. *)
GetHit(c, sk) ==
  /\ job[c] = NoJob
  /\ sk \in Stored
  /\ ~Expired(entries[sk])
  /\ entries' = [entries EXCEPT ![sk].lastAccess = now]
  /\ UNCHANGED <<now, nsCounts, job, cleaner, batch, closed>>

(* The entry has expired: the read lock is released before the write lock  *)
(* is requested.  (A miss changes nothing and has no action.)              *)
GetExpired(c, sk) ==
  /\ job[c] = NoJob
  /\ sk \in Stored
  /\ Expired(entries[sk])
  /\ job' = [job EXCEPT ![c] = [op |-> "reap", sk |-> sk]]
  /\ UNCHANGED <<now, entries, nsCounts, cleaner, batch, closed>>

(* Mutants of StillExpired: no re-check at all, and a re-check of presence *)
(* but not of expiry.                                                      *)
StillExpiredAssumed(sk) == TRUE
StillExpiredPresent(sk) == sk \in Stored

(* The re-check under the write lock decides whether there is still an     *)
(* expired entry to remove.                                                *)
StillExpired(sk) == sk \in Stored /\ Expired(entries[sk])

GetReap(c) ==
  /\ job[c].op = "reap"
  /\ LET sk == job[c].sk
     IN IF StillExpired(sk)
          THEN /\ entries' = Drop(entries, {sk})
               /\ nsCounts' = Count(sk[1], -1)
          ELSE UNCHANGED <<entries, nsCounts>>
  /\ job' = [job EXCEPT ![c] = NoJob]
  /\ UNCHANGED <<now, cleaner, batch, closed>>

----------------------------------------------------------------------------
(* Set *)

(* The size check, and the entry built from the clock before locking. *)
SetPrepare(c, sk, v, ttl) ==
  /\ job[c] = NoJob
  /\ v \notin TooLarge
  /\ LET e == [value      |-> v,
               expires    |-> IF ttl > 0 THEN now + ttl ELSE 0,
               lastAccess |-> now]
     IN job' = [job EXCEPT ![c] = [op |-> "store", sk |-> sk, e |-> e]]
  /\ UNCHANGED <<now, entries, nsCounts, cleaner, batch, closed>>

Put(sk, e) == [x \in Stored \cup {sk} |-> IF x = sk THEN e ELSE entries[x]]

(* The entries of ns whose access time is least; map iteration order picks *)
(* one of them.                                                            *)
Oldest(f, ns) ==
  {sk \in KeysIn(f, ns) :
     \A o \in KeysIn(f, ns) : f[sk].lastAccess <= f[o].lastAccess}

(* Mutant of EvictLRU: only the expired entries are removed. *)
EvictExpiredOnly(f, ns, n) == {{sk \in KeysIn(f, ns) : Expired(f[sk])}}

(* evictLRU(ns) on the map f whose counter for ns is n: the sets of keys   *)
(* it may delete.  It sweeps the expired entries; if the counter is still  *)
(* over the limit it also removes one least recently accessed entry.  The  *)
(* counter goes down by one for each key deleted.                          *)
EvictLRU(f, ns, n) ==
  LET swept == {sk \in KeysIn(f, ns) : Expired(f[sk])}
      oldest == Oldest(Drop(f, swept), ns)
  IN IF n - Cardinality(swept) <= MaxPerNS \/ oldest = {}
       THEN {swept}
       ELSE {swept \cup {victim} : victim \in oldest}

SetCommit(c) ==
  /\ job[c].op = "store"
  /\ LET sk == job[c].sk
         ns == sk[1]
         f  == Put(sk, job[c].e)
         n  == nsCounts[ns] + (IF sk \in Stored THEN 0 ELSE 1)
     IN \E removed \in IF MaxPerNS > 0 /\ n > MaxPerNS
                         THEN EvictLRU(f, ns, n) ELSE {{}} :
          /\ entries' = Drop(f, removed)
          /\ nsCounts' = [nsCounts EXCEPT ![ns] = n - Cardinality(removed)]
  /\ job' = [job EXCEPT ![c] = NoJob]
  /\ UNCHANGED <<now, cleaner, batch, closed>>

----------------------------------------------------------------------------
(* Del and Flush run entirely under the write lock.  List changes nothing. *)

Del(c, sk) ==
  /\ job[c] = NoJob
  /\ sk \in Stored
  /\ entries' = Drop(entries, {sk})
  /\ nsCounts' = Count(sk[1], -1)
  /\ UNCHANGED <<now, job, cleaner, batch, closed>>

(* Flush deletes the counter, which reads as 0 from then on. *)
Flush(c, ns) ==
  /\ job[c] = NoJob
  /\ entries' = Drop(entries, InNS(ns))
  /\ nsCounts' = [nsCounts EXCEPT ![ns] = 0]
  /\ UNCHANGED <<now, job, cleaner, batch, closed>>

----------------------------------------------------------------------------
(* The background cleanup goroutine. *)

(* A tick of the ticker: collect the expired keys under the read lock. *)
CleanupScan ==
  /\ cleaner = "waiting"
  /\ LET expired == {sk \in Stored : Expired(entries[sk])}
     IN IF expired = {}
          THEN UNCHANGED <<cleaner, batch>>
          ELSE cleaner' = "sweeping" /\ batch' = expired
  /\ UNCHANGED <<now, entries, nsCounts, job, closed>>

(* Mutant of CleanupSweep: the goroutine returns after its first sweep. *)
CleanupSweepOnce ==
  /\ cleaner = "sweeping"
  /\ LET gone == {sk \in batch : StillExpired(sk)}
     IN /\ entries' = Drop(entries, gone)
        /\ nsCounts' = [ns \in Namespaces |->
             nsCounts[ns] - Cardinality({sk \in gone : sk[1] = ns})]
  /\ cleaner' = "stopped"
  /\ batch' = {}
  /\ UNCHANGED <<now, job, closed>>

(* Under the write lock each collected key is checked again. *)
CleanupSweep ==
  /\ cleaner = "sweeping"
  /\ LET gone == {sk \in batch : StillExpired(sk)}
     IN /\ entries' = Drop(entries, gone)
        /\ nsCounts' = [ns \in Namespaces |->
             nsCounts[ns] - Cardinality({sk \in gone : sk[1] = ns})]
  /\ cleaner' = "waiting"
  /\ batch' = {}
  /\ UNCHANGED <<now, job, closed>>

Close ==
  /\ ~closed
  /\ closed' = TRUE
  /\ UNCHANGED <<now, entries, nsCounts, job, cleaner, batch>>

(* select may still take a pending tick after Close; this is the branch    *)
(* that takes stopClean.                                                   *)
CleanupStop ==
  /\ closed
  /\ cleaner = "waiting"
  /\ cleaner' = "stopped"
  /\ UNCHANGED <<now, entries, nsCounts, job, batch, closed>>

Tick ==
  /\ now < MaxTime
  /\ now' = now + 1
  /\ UNCHANGED <<entries, nsCounts, job, cleaner, batch, closed>>

----------------------------------------------------------------------------
ClientStep(c) ==
  \/ \E sk \in StorageKey :
       \/ GetHit(c, sk)
       \/ GetExpired(c, sk)
       \/ Del(c, sk)
       \/ \E v \in Values, ttl \in TTLs : SetPrepare(c, sk, v, ttl)
  \/ \E ns \in Namespaces : Flush(c, ns)
  \/ GetReap(c)
  \/ SetCommit(c)

Next ==
  \/ \E c \in Clients : ClientStep(c)
  \/ CleanupScan
  \/ CleanupSweep
  \/ CleanupStop
  \/ Close
  \/ Tick

(* The goroutine scheduler and the ticker keep the cleanup goroutine       *)
(* running; a client may stop calling at any time, but one that holds a    *)
(* job is inside Get or Set and finishes it.                               *)
Fairness ==
  /\ WF_vars(CleanupScan)
  /\ WF_vars(CleanupSweep)
  /\ \A c \in Clients : WF_vars(GetReap(c)) /\ WF_vars(SetCommit(c))

Spec == Init /\ [][Next]_vars /\ Fairness

----------------------------------------------------------------------------
(* Properties *)

(* The hand-kept counter of every namespace equals the number of entries   *)
(* the map holds for it: no interleaving of Get's and cleanup's deferred   *)
(* deletions with Set, Del and Flush counts one removal twice.             *)
CountsExact == \A ns \in Namespaces : nsCounts[ns] = Cardinality(InNS(ns))

(* Between lock sections no namespace holds more entries than the limit,   *)
(* although Set enforces the limit against the counter only.               *)
WithinLimit ==
  MaxPerNS > 0 => \A ns \in Namespaces : Cardinality(InNS(ns)) <= MaxPerNS

(* The victim of an eviction is chosen last: an entry that had not expired *)
(* leaves a full namespace through a Set only if everything left there is  *)
(* unexpired and was accessed no earlier.                                  *)
EvictedLast(c, sk) ==
  /\ job[c].op = "store" /\ job'[c] = NoJob
  /\ job[c].sk[1] = sk[1]
  /\ MaxPerNS > 0 /\ Cardinality(InNS(sk[1])) >= MaxPerNS
  /\ \A o \in DOMAIN entries' :
       o[1] = sk[1] => /\ ~Expired(entries'[o])
                       /\ entries'[o].lastAccess >= entries[sk].lastAccess

(* A live entry disappears only because its own key was deleted, its own   *)
(* namespace was flushed, or its own namespace was full and it was the     *)
(* least recently used.  In particular neither Get's deferred deletion nor *)
(* the background sweep removes an entry that was set again after it was   *)
(* seen expired, and no plugin's traffic evicts another plugin's entries.  *)
LiveEntriesKept ==
  [][\A sk \in Stored \ DOMAIN entries' :
       Expired(entries[sk]) \/ (\E c \in Clients :
         Del(c, sk) \/ Flush(c, sk[1]) \/ EvictedLast(c, sk))]_vars

(* While the cleanup goroutine runs, an expired entry is eventually gone   *)
(* or replaced by a live one, even if nobody asks for it again.            *)
ExpiredCollected ==
  \A sk \in StorageKey :
    (StillExpired(sk) /\ ~closed) ~> (~StillExpired(sk) \/ closed)

=============================================================================
