------------------------- MODULE MemoryStoreProofs -------------------------
(***************************************************************************)
(* Proofs about MemoryStore, for any number of clients, namespaces, keys   *)
(* and values, any limit and any clock bound.                              *)
(***************************************************************************)
EXTENDS MemoryStore, FiniteSetTheorems, WellFoundedInduction, TLAPS

(* A non-empty set of naturals has a least element: evictLRU finds one. *)
Less == {p \in Nat \X Nat : p[1] < p[2]}

LEMMA LessWellFounded == IsWellFoundedOn(Less, Nat)
  BY NatLessThanWellFounded, Zenon DEF Less, OpToRel

LEMMA LeastNatural ==
  ASSUME NEW S, S \subseteq Nat, S # {}
  PROVE  \E m \in S : \A x \in S : m <= x
<1>1. PICK m \in S : \A x \in S : <<x, m>> \notin Less
  BY LessWellFounded, WFMin
<1>2. ASSUME NEW x \in S PROVE m <= x
  <2>1. <<x, m>> \notin Less BY <1>1
  <2>2. m \in Nat /\ x \in Nat OBVIOUS
  <2>3. ~(x < m) BY <2>1, <2>2 DEF Less
  <2> QED BY <2>2, <2>3
<1> QED BY <1>2

(* A well-formed map: finitely many keys, each holding an entry. *)
IsStore(f) ==
  /\ f \in [DOMAIN f -> Entry]
  /\ DOMAIN f \subseteq StorageKey
  /\ IsFiniteSet(DOMAIN f)

LEMMA KeysInFinite ==
  ASSUME NEW f, IsStore(f), NEW ns
  PROVE  /\ IsFiniteSet(KeysIn(f, ns))
         /\ Cardinality(KeysIn(f, ns)) \in Nat
  BY FS_Subset, FS_CardinalityType DEF IsStore, KeysIn

(* Deleting a set of keys of one namespace leaves a well-formed map and    *)
(* lowers that namespace's size by the number of keys, no other's.         *)
LEMMA DropStore ==
  ASSUME NEW f, IsStore(f), NEW R
  PROVE  IsStore(Drop(f, R))
<1>1. DOMAIN Drop(f, R) = DOMAIN f \ R
  BY DEF Drop
<1>2. Drop(f, R) \in [DOMAIN f \ R -> Entry]
  BY DEF Drop, IsStore
<1>3. IsFiniteSet(DOMAIN f \ R)
  BY FS_Difference DEF IsStore
<1> QED BY <1>1, <1>2, <1>3 DEF IsStore

LEMMA DropKeys ==
  ASSUME NEW f, NEW R, NEW ns
  PROVE  KeysIn(Drop(f, R), ns) = KeysIn(f, ns) \ R
<1>1. DOMAIN Drop(f, R) = DOMAIN f \ R
  BY DEF Drop
<1> QED BY <1>1 DEF KeysIn

LEMMA DropCount ==
  ASSUME NEW f, IsStore(f), NEW ns, NEW R, R \subseteq KeysIn(f, ns)
  PROVE  /\ IsFiniteSet(R)
         /\ Cardinality(R) \in Nat
         /\ Cardinality(KeysIn(Drop(f, R), ns))
              = Cardinality(KeysIn(f, ns)) - Cardinality(R)
         /\ \A m : m # ns => KeysIn(Drop(f, R), m) = KeysIn(f, m)
<1>1. IsFiniteSet(KeysIn(f, ns)) BY KeysInFinite
<1>2. IsFiniteSet(R) /\ Cardinality(R) \in Nat
  BY <1>1, FS_Subset, FS_CardinalityType
<1>3. KeysIn(f, ns) \cap R = R OBVIOUS
<1>4. Cardinality(KeysIn(f, ns) \ R)
        = Cardinality(KeysIn(f, ns)) - Cardinality(R)
  BY <1>1, <1>3, FS_Difference
<1>5. \A m : m # ns => KeysIn(f, m) \ R = KeysIn(f, m)
  BY DEF KeysIn
<1>7. \A m : m # ns => KeysIn(Drop(f, R), m) = KeysIn(f, m)
  BY <1>5, DropKeys
<1>8. KeysIn(Drop(f, R), ns) = KeysIn(f, ns) \ R
  BY DropKeys
<1> QED BY <1>2, <1>4, <1>7, <1>8

(* Storing an entry. *)
LEMMA PutStore ==
  ASSUME IsStore(entries), NEW sk \in StorageKey, NEW e \in Entry
  PROVE  /\ IsStore(Put(sk, e))
         /\ Cardinality(KeysIn(Put(sk, e), sk[1]))
              = Cardinality(InNS(sk[1])) + (IF sk \in Stored THEN 0 ELSE 1)
         /\ \A m : m # sk[1] => KeysIn(Put(sk, e), m) = InNS(m)
<1> DEFINE f == Put(sk, e)
<1>1. DOMAIN f = Stored \cup {sk} BY DEF Put
<1>2. f \in [Stored \cup {sk} -> Entry] BY DEF Put, IsStore, Stored
<1>3. IsFiniteSet(Stored \cup {sk}) BY FS_AddElement DEF IsStore, Stored
<1>4. IsStore(f) BY <1>1, <1>2, <1>3 DEF IsStore, Stored
<1>5. KeysIn(f, sk[1]) = InNS(sk[1]) \cup {sk}
  BY <1>1 DEF KeysIn, InNS, Stored
<1>6. IsFiniteSet(InNS(sk[1])) /\ Cardinality(InNS(sk[1])) \in Nat
  BY KeysInFinite DEF InNS
<1>7. sk \in InNS(sk[1]) <=> sk \in Stored BY DEF InNS, KeysIn, Stored
<1>8. Cardinality(KeysIn(f, sk[1]))
        = Cardinality(InNS(sk[1])) + (IF sk \in Stored THEN 0 ELSE 1)
  <2>1. Cardinality(InNS(sk[1]) \cup {sk})
          = IF sk \in InNS(sk[1]) THEN Cardinality(InNS(sk[1]))
                                  ELSE Cardinality(InNS(sk[1])) + 1
    BY <1>6, FS_AddElement
  <2> QED BY <1>5, <1>6, <1>7, <2>1
<1>9. \A m : m # sk[1] => KeysIn(f, m) = InNS(m)
  BY <1>1 DEF KeysIn, InNS, Stored
<1> QED BY <1>4, <1>8, <1>9

----------------------------------------------------------------------------
(* The inductive invariant.  WithinLimit alone is not inductive: Set tests *)
(* the counter, so the counter has to be exact for the map to stay within  *)
(* the limit.                                                              *)
Inv == TypeOK /\ CountsExact /\ WithinLimit

LEMMA StoreType == ASSUME TypeOK PROVE IsStore(entries)
  BY DEF TypeOK, IsStore, Stored

(* What evictLRU may delete from a namespace that is over the limit by at  *)
(* most one: keys of that namespace only, and enough of them.              *)
LEMMA EvictEnough ==
  ASSUME NEW f, IsStore(f), NEW ns,
         MaxPerNS > 0,
         Cardinality(KeysIn(f, ns)) <= MaxPerNS + 1,
         NEW R \in EvictLRU(f, ns, Cardinality(KeysIn(f, ns)))
  PROVE  /\ R \subseteq KeysIn(f, ns)
         /\ Cardinality(KeysIn(f, ns)) - Cardinality(R) <= MaxPerNS
<1> DEFINE n == Cardinality(KeysIn(f, ns))
           swept == {sk \in KeysIn(f, ns) : Expired(f[sk])}
           f1 == Drop(f, swept)
           oldest == Oldest(f1, ns)
<1>1. /\ swept \subseteq KeysIn(f, ns)
      /\ IsFiniteSet(swept) /\ Cardinality(swept) \in Nat
      /\ Cardinality(KeysIn(f1, ns)) = n - Cardinality(swept)
  BY DropCount
<1>2. /\ IsStore(f1)
      /\ KeysIn(f1, ns) = KeysIn(f, ns) \ swept
  BY DropStore, DropKeys
<1>3. n \in Nat /\ MaxPerNS \in Nat
  BY KeysInFinite, LimitAssumption
<1>4. CASE n - Cardinality(swept) <= MaxPerNS \/ oldest = {}
  <2>1. R = swept
    BY <1>4 DEF EvictLRU
  <2>2. ASSUME n - Cardinality(swept) > MaxPerNS PROVE oldest # {}
    <3>1. KeysIn(f1, ns) # {}
      <4>1. Cardinality(KeysIn(f1, ns)) > 0
        BY <2>2, <1>1, <1>3
      <4>2. Cardinality({}) = 0
        BY FS_EmptySet
      <4> QED BY <4>1, <4>2
    <3> DEFINE A == {f1[sk].lastAccess : sk \in KeysIn(f1, ns)}
    <3>2. \A sk \in KeysIn(f1, ns) : f1[sk].lastAccess \in Nat
      BY <1>2 DEF IsStore, KeysIn, Entry
    <3>3. A \subseteq Nat /\ A # {}
      BY <3>1, <3>2
    <3>4. PICK m \in A : \A x \in A : m <= x
      BY <3>3, LeastNatural
    <3>5. PICK sk \in KeysIn(f1, ns) : m = f1[sk].lastAccess
      BY <3>4
    <3>6. \A o \in KeysIn(f1, ns) : f1[sk].lastAccess <= f1[o].lastAccess
      BY <3>4, <3>5
    <3>7. sk \in Oldest(f1, ns)
      BY <3>5, <3>6 DEF Oldest
    <3> QED BY <3>7
  <2> QED BY <1>1, <1>3, <1>4, <2>1, <2>2
<1>5. CASE ~(n - Cardinality(swept) <= MaxPerNS \/ oldest = {})
  <2>1. PICK v \in oldest : R = swept \cup {v}
    BY <1>5 DEF EvictLRU
  <2>2. v \in KeysIn(f, ns) /\ v \notin swept
    BY <2>1, <1>2 DEF Oldest
  <2>3. Cardinality(R) = Cardinality(swept) + 1
    BY <1>1, <2>1, <2>2, FS_AddElement
  <2> QED BY <1>1, <1>3, <2>1, <2>2, <2>3
<1> QED BY <1>4, <1>5

(* The counters follow the map when keys of several namespaces go at once. *)
LEMMA SweepCount ==
  ASSUME TypeOK, CountsExact, NEW R, R \subseteq Stored, NEW ns \in Namespaces
  PROVE  nsCounts[ns] - Cardinality({sk \in R : sk[1] = ns})
           = Cardinality(KeysIn(Drop(entries, R), ns))
<1> DEFINE S == {sk \in R : sk[1] = ns}
<1>1. IsStore(entries) BY StoreType
<1>2. S \subseteq KeysIn(entries, ns) BY DEF KeysIn, Stored
<1>3. Cardinality(KeysIn(Drop(entries, S), ns))
        = Cardinality(KeysIn(entries, ns)) - Cardinality(S)
  BY <1>1, <1>2, DropCount
<1>4. KeysIn(entries, ns) \ R = KeysIn(entries, ns) \ S
  BY DEF KeysIn
<1>5. KeysIn(Drop(entries, R), ns) = KeysIn(Drop(entries, S), ns)
  <2>1. KeysIn(Drop(entries, R), ns) = KeysIn(entries, ns) \ R
    BY DropKeys
  <2>2. KeysIn(Drop(entries, S), ns) = KeysIn(entries, ns) \ S
    BY DropKeys
  <2> QED BY <2>1, <2>2, <1>4
<1>6. nsCounts[ns] = Cardinality(KeysIn(entries, ns))
  BY DEF CountsExact, InNS
<1> QED BY <1>3, <1>5, <1>6

(* Deletions preserve the invariant: used by Get, Del, Flush and cleanup. *)
LEMMA Deletion ==
  ASSUME Inv, NEW R, R \subseteq Stored,
         entries' = Drop(entries, R),
         nsCounts' = [ns \in Namespaces |->
                        nsCounts[ns] - Cardinality({sk \in R : sk[1] = ns})]
  PROVE  /\ IsStore(entries')
         /\ nsCounts' \in [Namespaces -> Nat]
         /\ CountsExact'
         /\ WithinLimit'
<1>1. TypeOK /\ CountsExact /\ WithinLimit BY DEF Inv
<1>2. IsStore(entries) BY <1>1, StoreType
<1>3. IsStore(entries') BY <1>2, DropStore
<1>4. ASSUME NEW ns \in Namespaces
      PROVE  /\ nsCounts'[ns] = Cardinality(KeysIn(entries', ns))
             /\ nsCounts'[ns] \in Nat
             /\ MaxPerNS > 0 => Cardinality(KeysIn(entries', ns)) <= MaxPerNS
  <2>1. nsCounts'[ns] = Cardinality(KeysIn(entries', ns))
    BY <1>1, SweepCount
  <2>2. nsCounts'[ns] \in Nat BY <2>1, <1>3, KeysInFinite
  <2>3. KeysIn(entries', ns) = KeysIn(entries, ns) \ R
    BY DropKeys
  <2>4. Cardinality(KeysIn(entries', ns)) <= Cardinality(KeysIn(entries, ns))
    BY <2>3, <1>2, KeysInFinite, FS_Subset
  <2>5. /\ Cardinality(KeysIn(entries, ns)) \in Nat
        /\ Cardinality(KeysIn(entries', ns)) \in Nat
    BY <1>2, <1>3, KeysInFinite
  <2> QED BY <1>1, <2>1, <2>2, <2>4, <2>5, LimitAssumption DEF WithinLimit, InNS
<1> QED BY <1>3, <1>4 DEF CountsExact, WithinLimit, InNS

----------------------------------------------------------------------------
LEMMA InitInv == ASSUME Init PROVE Inv
<1>1. Stored = {} /\ entries \in [Stored -> Entry]
  BY DEF Init, Stored
<1>2. IsFiniteSet({}) /\ Cardinality({}) = 0
  BY FS_EmptySet
<1>3. \A ns \in Namespaces : InNS(ns) = {}
  BY <1>1 DEF InNS, KeysIn, Stored
<1>4. TypeOK
  <2>1. job \in [Clients -> Jobs]
    BY DEF Init, Jobs
  <2>2. Stored \subseteq StorageKey /\ IsFiniteSet(Stored)
    BY <1>1, <1>2
  <2>3. batch \subseteq StorageKey /\ now \in Nat \ {0}
    BY DEF Init
  <2>5. closed \in BOOLEAN
    BY Zenon DEF Init
  <2>4. nsCounts \in [Namespaces -> Nat] /\ cleaner = "waiting"
    BY DEF Init
  <2> QED BY <1>1, <2>1, <2>2, <2>3, <2>4, <2>5 DEF TypeOK
<1>5. CountsExact
  BY <1>2, <1>3 DEF Init, CountsExact
<1>6. WithinLimit
  BY <1>2, <1>3, LimitAssumption DEF WithinLimit
<1> QED BY <1>4, <1>5, <1>6 DEF Inv

(* A step that leaves the set of stored keys and the counters alone. *)
LEMMA SameKeys ==
  ASSUME Inv, DOMAIN entries' = Stored, nsCounts' = nsCounts
  PROVE  CountsExact' /\ WithinLimit'
<1>1. \A ns : KeysIn(entries', ns) = KeysIn(entries, ns)
  BY DEF KeysIn, Stored
<1> QED BY <1>1 DEF Inv, CountsExact, WithinLimit, InNS

LEMMA SingleCount ==
  ASSUME Inv, NEW sk \in Stored
  PROVE  Count(sk[1], -1)
           = [ns \in Namespaces |->
                nsCounts[ns] - Cardinality({x \in {sk} : x[1] = ns})]
<1>1. sk[1] \in Namespaces
  BY DEF Inv, TypeOK, StorageKey
<1>2. Cardinality({}) = 0 /\ Cardinality({sk}) = 1
  BY FS_EmptySet, FS_Singleton
<1>3. ASSUME NEW ns \in Namespaces
      PROVE  Count(sk[1], -1)[ns]
               = nsCounts[ns] - Cardinality({x \in {sk} : x[1] = ns})
  <2>1. nsCounts[ns] \in Nat BY DEF Inv, TypeOK
  <2>2. CASE ns = sk[1]
    <3>1. {x \in {sk} : x[1] = ns} = {sk} BY <2>2
    <3> QED BY <1>1, <1>2, <2>1, <2>2, <3>1 DEF Count, Inv, TypeOK
  <2>3. CASE ns # sk[1]
    <3>1. {x \in {sk} : x[1] = ns} = {} BY <2>3
    <3>2. Count(sk[1], -1)[ns] = nsCounts[ns]
      BY <1>1, <2>3 DEF Count, Inv, TypeOK
    <3>3. nsCounts[ns] = nsCounts[ns] - 0 BY <2>1
    <3> QED BY <1>2, <3>1, <3>2, <3>3
  <2> QED BY <2>2, <2>3
<1> QED BY <1>3 DEF Count, Inv, TypeOK

LEMMA SingleDeletion ==
  ASSUME Inv, NEW sk \in Stored,
         entries' = Drop(entries, {sk}),
         nsCounts' = Count(sk[1], -1)
  PROVE  /\ IsStore(entries')
         /\ nsCounts' \in [Namespaces -> Nat]
         /\ CountsExact'
         /\ WithinLimit'
<1> DEFINE R == {sk}
<1>1. R \subseteq Stored OBVIOUS
<1>2. nsCounts' = [ns \in Namespaces |->
                     nsCounts[ns] - Cardinality({x \in R : x[1] = ns})]
  BY SingleCount
<1>3. entries' = Drop(entries, R) OBVIOUS
<1> HIDE DEF R
<1> QED BY <1>1, <1>2, <1>3, Deletion

(* Set stores, counts and evicts in one lock section. *)
LEMMA StoreStep ==
  ASSUME Inv, NEW c \in Clients, SetCommit(c)
  PROVE  /\ IsStore(entries')
         /\ nsCounts' \in [Namespaces -> Nat]
         /\ CountsExact'
         /\ WithinLimit'
<1> DEFINE sk == job[c].sk
           ns == sk[1]
           f == Put(sk, job[c].e)
           n == nsCounts[ns] + (IF sk \in Stored THEN 0 ELSE 1)
<1>1. job[c].op = "store" BY DEF SetCommit
<1>2. sk \in StorageKey /\ job[c].e \in Entry
  BY <1>1 DEF Inv, TypeOK, Jobs, NoJob
<1>3. IsStore(entries) BY StoreType DEF Inv
<1>4. ns \in Namespaces BY <1>2 DEF StorageKey
<1>5. /\ IsStore(f)
      /\ Cardinality(KeysIn(f, ns))
           = Cardinality(InNS(ns)) + (IF sk \in Stored THEN 0 ELSE 1)
      /\ \A m : m # ns => KeysIn(f, m) = InNS(m)
  BY <1>2, <1>3, PutStore
<1>6. /\ nsCounts[ns] = Cardinality(InNS(ns))
      /\ nsCounts[ns] \in Nat
      /\ MaxPerNS > 0 => Cardinality(InNS(ns)) <= MaxPerNS
  BY <1>4 DEF Inv, CountsExact, TypeOK, WithinLimit
<1>7. n = Cardinality(KeysIn(f, ns)) /\ n \in Nat
  BY <1>5, <1>6
<1>8. PICK R \in IF MaxPerNS > 0 /\ n > MaxPerNS
                   THEN EvictLRU(f, ns, n) ELSE {{}} :
        /\ entries' = Drop(f, R)
        /\ nsCounts' = [nsCounts EXCEPT ![ns] = n - Cardinality(R)]
  BY DEF SetCommit
<1>9. /\ R \subseteq KeysIn(f, ns)
      /\ MaxPerNS > 0 => n - Cardinality(R) <= MaxPerNS
  <2>1. CASE MaxPerNS > 0 /\ n > MaxPerNS
    <3>1. R \in EvictLRU(f, ns, Cardinality(KeysIn(f, ns)))
      BY <1>7, <1>8, <2>1
    <3>2. Cardinality(KeysIn(f, ns)) <= MaxPerNS + 1
      BY <1>5, <1>6, <2>1, LimitAssumption
    <3> QED BY <1>5, <1>7, <2>1, <3>1, <3>2, EvictEnough
  <2>2. CASE ~(MaxPerNS > 0 /\ n > MaxPerNS)
    <3>1. R = {} BY <1>8, <2>2
    <3>2. Cardinality(R) = 0 BY <3>1, FS_EmptySet
    <3> QED BY <1>7, <2>2, <3>1, <3>2, LimitAssumption
  <2> QED BY <2>1, <2>2
<1>10. /\ Cardinality(R) \in Nat
       /\ Cardinality(KeysIn(entries', ns)) = n - Cardinality(R)
       /\ \A m : m # ns => KeysIn(entries', m) = KeysIn(f, m)
  BY <1>5, <1>7, <1>8, <1>9, DropCount
<1>11. IsStore(entries') BY <1>5, <1>8, DropStore
<1>12. ASSUME NEW m \in Namespaces
       PROVE  /\ nsCounts'[m] = Cardinality(KeysIn(entries', m))
              /\ MaxPerNS > 0 => Cardinality(KeysIn(entries', m)) <= MaxPerNS
  <2>1. CASE m = ns
    BY <1>8, <1>9, <1>10, <2>1 DEF Inv, TypeOK
  <2>2. CASE m # ns
    <3>1. KeysIn(entries', m) = InNS(m) BY <1>5, <1>10, <2>2
    <3>2. nsCounts'[m] = nsCounts[m] BY <1>8, <2>2 DEF Inv, TypeOK
    <3> QED BY <3>1, <3>2 DEF Inv, CountsExact, WithinLimit
  <2> QED BY <2>1, <2>2
<1>13. \A m \in Namespaces : nsCounts'[m] \in Nat
  BY <1>11, <1>12, KeysInFinite
<1>14. nsCounts' \in [Namespaces -> Nat]
  BY <1>8, <1>13 DEF Inv, TypeOK
<1> QED BY <1>11, <1>12, <1>14 DEF CountsExact, WithinLimit, InNS

----------------------------------------------------------------------------
(* One step per action. *)
LEMMA NextInv == ASSUME Inv, [Next]_vars PROVE Inv'
<1> USE DEF Inv
<1>0. IsStore(entries) BY StoreType
<1> DEFINE Map == /\ IsStore(entries')
                  /\ nsCounts' \in [Namespaces -> Nat]
                  /\ CountsExact'
                  /\ WithinLimit'
           Rest == /\ now' \in Nat \ {0}
                   /\ job' \in [Clients -> Jobs]
                   /\ cleaner' \in {"waiting", "sweeping", "stopped"}
                   /\ batch' \subseteq StorageKey
                   /\ closed' \in BOOLEAN
<1>m. ASSUME Map, Rest PROVE Inv'
  BY <1>m DEF TypeOK, IsStore, Stored
<1>u. ASSUME UNCHANGED <<entries, nsCounts>> PROVE Map
  <2>1. IsStore(entries') BY <1>0, <1>u
  <2>2. CountsExact' /\ WithinLimit' BY <1>u, SameKeys DEF Stored
  <2> QED BY <1>u, <2>1, <2>2 DEF TypeOK
<1>1. ASSUME NEW c \in Clients, NEW sk \in StorageKey, GetHit(c, sk)
      PROVE  Inv'
  <2>1. DOMAIN entries' = Stored BY <1>1 DEF GetHit, Stored
  <2>2. IsStore(entries')
    BY <1>0, <1>1, <2>1 DEF GetHit, IsStore, Entry, TypeOK, Stored
  <2>3. CountsExact' /\ WithinLimit' BY <1>1, <2>1, SameKeys DEF GetHit
  <2>4. Map BY <1>1, <2>2, <2>3 DEF GetHit, TypeOK
  <2>5. Rest BY <1>1 DEF GetHit, TypeOK
  <2> QED BY <1>m, <2>4, <2>5
<1>2. ASSUME NEW c \in Clients, NEW sk \in StorageKey, GetExpired(c, sk)
      PROVE  Inv'
  <2>1. Rest BY <1>2 DEF GetExpired, TypeOK, Jobs
  <2> QED BY <1>2, <1>m, <1>u, <2>1 DEF GetExpired
<1>3. ASSUME NEW c \in Clients, GetReap(c) PROVE Inv'
  <2> DEFINE sk == job[c].sk
  <2>1. Rest BY <1>3 DEF GetReap, TypeOK, Jobs
  <2>2. CASE StillExpired(sk)
    <3>1. sk \in Stored BY <2>2 DEF StillExpired
    <3>2. entries' = Drop(entries, {sk}) /\ nsCounts' = Count(sk[1], -1)
      BY <1>3, <2>2 DEF GetReap
    <3>3. Map BY <3>1, <3>2, SingleDeletion
    <3> QED BY <1>m, <2>1, <3>3
  <2>3. CASE ~StillExpired(sk)
    BY <1>3, <1>m, <1>u, <2>1, <2>3 DEF GetReap
  <2> QED BY <2>2, <2>3
<1>4. ASSUME NEW c \in Clients, NEW sk \in StorageKey, NEW v \in Values,
             NEW ttl \in TTLs, SetPrepare(c, sk, v, ttl)
      PROVE  Inv'
  <2> DEFINE e == [value |-> v, expires |-> IF ttl > 0 THEN now + ttl ELSE 0,
                   lastAccess |-> now]
  <2>1. e \in Entry BY TTLAssumption DEF Entry, TypeOK
  <2>2. [op |-> "store", sk |-> sk, e |-> e] \in Jobs BY <2>1 DEF Jobs
  <2>3. Rest BY <1>4, <2>2 DEF SetPrepare, TypeOK
  <2> QED BY <1>4, <1>m, <1>u, <2>3 DEF SetPrepare
<1>5. ASSUME NEW c \in Clients, SetCommit(c) PROVE Inv'
  <2>1. Map BY <1>5, StoreStep
  <2>2. Rest BY <1>5 DEF SetCommit, TypeOK, Jobs
  <2> QED BY <1>m, <2>1, <2>2
<1>6. ASSUME NEW c \in Clients, NEW sk \in StorageKey, Del(c, sk) PROVE Inv'
  <2>1. /\ sk \in Stored
        /\ entries' = Drop(entries, {sk})
        /\ nsCounts' = Count(sk[1], -1)
    BY <1>6 DEF Del
  <2>2. Map BY <2>1, SingleDeletion
  <2>3. Rest BY <1>6 DEF Del, TypeOK
  <2> QED BY <1>m, <2>2, <2>3
<1>7. ASSUME NEW c \in Clients, NEW ns \in Namespaces, Flush(c, ns)
      PROVE  Inv'
  <2> DEFINE R == InNS(ns)
  <2>1. R \subseteq Stored BY DEF InNS, KeysIn, Stored
  <2>2. ASSUME NEW m \in Namespaces
        PROVE  nsCounts'[m] = nsCounts[m] - Cardinality({x \in R : x[1] = m})
    <3>1. nsCounts[m] \in Nat BY DEF TypeOK
    <3>2. CASE m = ns
      <4>1. {x \in R : x[1] = m} = R BY <3>2 DEF InNS, KeysIn
      <4>2. nsCounts[m] = Cardinality(R) BY <3>2 DEF CountsExact
      <4>3. nsCounts'[m] = 0 BY <1>7, <3>2 DEF Flush, TypeOK
      <4>4. nsCounts[m] = Cardinality({x \in R : x[1] = m}) BY <4>1, <4>2
      <4>5. nsCounts[m] - nsCounts[m] = 0 BY <3>1
      <4> QED BY <4>3, <4>4, <4>5
    <3>3. CASE m # ns
      <4>1. {x \in R : x[1] = m} = {} BY <3>3 DEF InNS, KeysIn
      <4>2. Cardinality({x \in R : x[1] = m}) = 0 BY <4>1, FS_EmptySet
      <4>3. nsCounts'[m] = nsCounts[m] BY <1>7, <3>3 DEF Flush, TypeOK
      <4>4. nsCounts[m] = nsCounts[m] - 0 BY <3>1
      <4> QED BY <4>2, <4>3, <4>4
    <3> QED BY <3>2, <3>3
  <2>3. nsCounts' = [m \in Namespaces |->
                       nsCounts[m] - Cardinality({x \in R : x[1] = m})]
    BY <1>7, <2>2 DEF Flush, TypeOK
  <2>4. entries' = Drop(entries, R) BY <1>7 DEF Flush
  <2>5. Map BY <2>1, <2>3, <2>4, Deletion
  <2>6. Rest BY <1>7 DEF Flush, TypeOK
  <2> QED BY <1>m, <2>5, <2>6
<1>8. ASSUME CleanupScan PROVE Inv'
  <2>1. {sk \in Stored : Expired(entries[sk])} \subseteq StorageKey
    BY DEF TypeOK
  <2>2. Rest BY <1>8, <2>1 DEF CleanupScan, TypeOK
  <2> QED BY <1>8, <1>m, <1>u, <2>2 DEF CleanupScan
<1>9. ASSUME CleanupSweep PROVE Inv'
  <2> DEFINE R == {sk \in batch : StillExpired(sk)}
  <2>1. R \subseteq Stored BY DEF StillExpired
  <2>2. Map BY <1>9, <2>1, Deletion DEF CleanupSweep
  <2>3. Rest BY <1>9 DEF CleanupSweep, TypeOK
  <2> QED BY <1>m, <2>2, <2>3
<1>10. ASSUME CleanupStop PROVE Inv'
  <2>1. Rest BY <1>10 DEF CleanupStop, TypeOK
  <2> QED BY <1>10, <1>m, <1>u, <2>1 DEF CleanupStop
<1>11. ASSUME Close PROVE Inv'
  <2>1. Rest BY <1>11 DEF Close, TypeOK
  <2> QED BY <1>11, <1>m, <1>u, <2>1 DEF Close
<1>12. ASSUME Tick PROVE Inv'
  <2>1. Rest BY <1>12 DEF Tick, TypeOK
  <2> QED BY <1>12, <1>m, <1>u, <2>1 DEF Tick
<1>13. ASSUME UNCHANGED vars PROVE Inv'
  <2>1. Rest BY <1>13 DEF vars, TypeOK
  <2> QED BY <1>13, <1>m, <1>u, <2>1 DEF vars
<1> QED
  BY <1>1, <1>2, <1>3, <1>4, <1>5, <1>6, <1>7, <1>8, <1>9, <1>10, <1>11,
     <1>12, <1>13 DEF Next, ClientStep

(* Every behaviour of the store satisfies the inductive invariant. *)
THEOREM StoreInvariant == Spec => []Inv
  BY InitInv, NextInv, PTL DEF Spec

(* The hand-kept per-namespace counters of memory.go always equal the      *)
(* number of stored entries, whatever the interleaving of lock sections.   *)
THEOREM CountersAreExact == Spec => []CountsExact
<1>1. Inv => CountsExact BY DEF Inv
<1> QED BY <1>1, StoreInvariant, PTL

(* No namespace ever holds more entries than MaxEntriesPerPlugin. *)
THEOREM LimitIsKept == Spec => []WithinLimit
<1>1. Inv => WithinLimit BY DEF Inv
<1> QED BY <1>1, StoreInvariant, PTL

(* The store's variables keep their types; no counter goes negative. *)
THEOREM TypeCorrect == Spec => []TypeOK
<1>1. Inv => TypeOK BY DEF Inv
<1> QED BY <1>1, StoreInvariant, PTL

----------------------------------------------------------------------------
(* The action property.  What a step takes out of the map for key sk.      *)
Justified(sk) ==
  \/ Expired(entries[sk])
  \/ \E c \in Clients : Del(c, sk) \/ Flush(c, sk[1]) \/ EvictedLast(c, sk)

(* evictLRU sweeps the expired keys and may add one victim; every key it   *)
(* leaves in the namespace is unexpired and no older than the victim.      *)
LEMMA EvictLast ==
  ASSUME NEW f, IsStore(f), NEW ns, NEW n, NEW R \in EvictLRU(f, ns, n),
         NEW sk \in R
  PROVE  \/ Expired(f[sk])
         \/ \A o \in KeysIn(f, ns) \ R :
              ~Expired(f[o]) /\ f[o].lastAccess >= f[sk].lastAccess
<1> DEFINE swept == {x \in KeysIn(f, ns) : Expired(f[x])}
           f1 == Drop(f, swept)
           oldest == Oldest(f1, ns)
<1>1. CASE sk \in swept BY <1>1
<1>2. CASE sk \notin swept
  <2>1. PICK v \in oldest : R = swept \cup {v} BY <1>2 DEF EvictLRU
  <2>2. sk = v BY <1>2, <2>1
  <2>3. KeysIn(f1, ns) = KeysIn(f, ns) \ swept BY DropKeys
  <2>4. /\ sk \in KeysIn(f1, ns)
        /\ \A o \in KeysIn(f1, ns) : f1[sk].lastAccess <= f1[o].lastAccess
    BY <2>1, <2>2 DEF Oldest
  <2>5. \A o \in KeysIn(f1, ns) :
          f1[o] = f[o] /\ f[o] \in Entry /\ f[o].lastAccess \in Nat
    BY <2>3 DEF Drop, KeysIn, IsStore, Entry
  <2>6. ASSUME NEW o \in KeysIn(f, ns) \ R
        PROVE  ~Expired(f[o]) /\ f[o].lastAccess >= f[sk].lastAccess
    <3>1. o \in KeysIn(f1, ns) /\ o \notin swept BY <2>1, <2>3
    <3> QED BY <3>1, <2>4, <2>5
  <2> QED BY <2>6
<1> QED BY <1>1, <1>2

(* Set evicts only when the key it stores is new, so the entry it removes  *)
(* is the one that was stored before.                                      *)
LEMMA StoreKeeps ==
  ASSUME Inv, NEW c \in Clients, SetCommit(c),
         NEW sk \in Stored \ DOMAIN entries'
  PROVE  Expired(entries[sk]) \/ EvictedLast(c, sk)
<1> DEFINE key == job[c].sk
           ns == key[1]
           f == Put(key, job[c].e)
           n == nsCounts[ns] + (IF key \in Stored THEN 0 ELSE 1)
<1>1. job[c].op = "store" /\ job'[c] = NoJob
  BY DEF SetCommit, Inv, TypeOK
<1>2. key \in StorageKey /\ job[c].e \in Entry /\ ns \in Namespaces
  BY <1>1 DEF Inv, TypeOK, Jobs, NoJob, StorageKey
<1>3. IsStore(entries) BY StoreType DEF Inv
<1>4. IsStore(f) BY <1>2, <1>3, PutStore
<1>5. DOMAIN f = Stored \cup {key}
  BY DEF Put
<1>6. PICK R \in IF MaxPerNS > 0 /\ n > MaxPerNS
                   THEN EvictLRU(f, ns, n) ELSE {{}} :
        entries' = Drop(f, R)
  BY DEF SetCommit
<1>7. sk \in R BY <1>5, <1>6 DEF Drop
<1>8. MaxPerNS > 0 /\ n > MaxPerNS /\ R \in EvictLRU(f, ns, n)
  BY <1>6, <1>7
<1>9. key \notin Stored /\ Cardinality(InNS(ns)) >= MaxPerNS
  BY <1>2, <1>8, LimitAssumption
     DEF Inv, TypeOK, CountsExact, WithinLimit
<1>10. \A x \in Stored : f[x] = entries[x]
  BY <1>9 DEF Put
<1>11. R \subseteq KeysIn(f, ns)
  <2> DEFINE swept == {x \in KeysIn(f, ns) : Expired(f[x])}
             oldest == Oldest(Drop(f, swept), ns)
  <2>1. oldest \subseteq KeysIn(f, ns) BY DropKeys DEF Oldest
  <2>2. R = swept \/ \E v \in oldest : R = swept \cup {v}
    BY <1>8 DEF EvictLRU
  <2> QED BY <2>1, <2>2
<1>12. sk[1] = ns BY <1>7, <1>11 DEF KeysIn
<1>13. CASE Expired(f[sk]) BY <1>10, <1>13
<1>14. CASE \A o \in KeysIn(f, ns) \ R :
              ~Expired(f[o]) /\ f[o].lastAccess >= f[sk].lastAccess
  <2>1. ASSUME NEW o \in DOMAIN entries', o[1] = ns
        PROVE  /\ ~Expired(entries'[o])
               /\ entries'[o].lastAccess >= entries[sk].lastAccess
    <3>1. o \in KeysIn(f, ns) \ R /\ entries'[o] = f[o]
      BY <1>6, <2>1 DEF Drop, KeysIn
    <3> QED BY <3>1, <1>10, <1>14
  <2> QED BY <1>1, <1>8, <1>9, <1>12, <2>1 DEF EvictedLast
<1> QED BY <1>4, <1>7, <1>8, <1>13, <1>14, EvictLast

LEMMA StepKeeps ==
  ASSUME Inv, Next, NEW sk \in Stored \ DOMAIN entries'
  PROVE  Justified(sk)
<1>1. sk \in StorageKey /\ sk[1] \in Namespaces
  BY DEF Inv, TypeOK, StorageKey
<1>2. ASSUME entries' = entries PROVE FALSE
  BY <1>2 DEF Stored
<1>3. ASSUME NEW c \in Clients, NEW k \in StorageKey, GetHit(c, k)
      PROVE  FALSE
  BY <1>3 DEF GetHit, Stored
<1>4. ASSUME NEW c \in Clients, GetReap(c) PROVE Justified(sk)
  BY <1>4, <1>2 DEF GetReap, StillExpired, Drop, Justified, Stored
<1>5. ASSUME NEW c \in Clients, SetCommit(c) PROVE Justified(sk)
  BY <1>5, StoreKeeps DEF Justified
<1>6. ASSUME NEW c \in Clients, NEW k \in StorageKey, Del(c, k)
      PROVE  Justified(sk)
  <2>1. sk = k BY <1>6 DEF Del, Drop, Stored
  <2> QED BY <1>6, <2>1 DEF Justified
<1>7. ASSUME NEW c \in Clients, NEW ns \in Namespaces, Flush(c, ns)
      PROVE  Justified(sk)
  <2>1. sk[1] = ns BY <1>7 DEF Flush, Drop, InNS, KeysIn, Stored
  <2> QED BY <1>7, <2>1 DEF Justified
<1>8. ASSUME CleanupSweep PROVE Justified(sk)
  BY <1>8 DEF CleanupSweep, StillExpired, Drop, Justified, Stored
<1>9. ASSUME \/ \E c \in Clients, k \in StorageKey :
                  \/ GetExpired(c, k)
                  \/ \E v \in Values, ttl \in TTLs : SetPrepare(c, k, v, ttl)
             \/ CleanupScan \/ CleanupStop \/ Close \/ Tick
      PROVE  FALSE
  BY <1>9, <1>2
     DEF GetExpired, SetPrepare, CleanupScan, CleanupStop, Close, Tick
<1> QED
  BY <1>3, <1>4, <1>5, <1>6, <1>7, <1>8, <1>9 DEF Next, ClientStep

(* No interleaving makes the store lose a live entry whose own plugin did  *)
(* not delete, flush or crowd it out: the re-checks of Get and cleanup     *)
(* under the write lock, and Set's eviction after its own insertion, are   *)
(* enough for any number of clients.                                       *)
THEOREM LiveEntriesStay == Spec => LiveEntriesKept
<1>1. ASSUME Inv, [Next]_vars
      PROVE  [\A sk \in Stored \ DOMAIN entries' : Justified(sk)]_vars
  BY <1>1, StepKeeps
<1>2. Inv /\ [Next]_vars
        => [\A sk \in Stored \ DOMAIN entries' :
              Expired(entries[sk]) \/ (\E c \in Clients :
                Del(c, sk) \/ Flush(c, sk[1]) \/ EvictedLast(c, sk))]_vars
  BY <1>1 DEF Justified
<1> QED BY <1>2, StoreInvariant, PTL DEF Spec, LiveEntriesKept

=============================================================================
