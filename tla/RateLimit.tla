----------------------------- MODULE RateLimit -----------------------------
(***************************************************************************)
(* internal/ratelimit: a registry of token buckets, one per key and one    *)
(* global, created on first use and evicted in order of creation.          *)
(*                                                                         *)
(* Allow is called by many goroutines.  It takes a global token, looks the *)
(* key's bucket up under the read lock, creates it under the write lock if *)
(* it was missing, and takes a token from the bucket after the lock is     *)
(* released: by then the bucket may have been evicted.                     *)
(***************************************************************************)
EXTENDS Integers, Sequences, FiniteSets

CONSTANTS
  RateKeys,      \* domains or tools
  RateCallers,   \* goroutines in Allow
  KeyBurst, GlobalBurst,
  MaxEntries,    \* registry size (1024 in the code)
  MaxBuckets,    \* bound: buckets ever created
  MaxRefills     \* bound: tokens that time puts back

ASSUME RateAssumption ==
  /\ KeyBurst \in Nat \ {0} /\ GlobalBurst \in Nat \ {0}
  /\ MaxEntries \in Nat \ {0} /\ MaxBuckets \in Nat /\ MaxRefills \in Nat

VARIABLES
  limiters,   \* bucket of each key, 0: none
  order,      \* keys in order of creation
  tokens,     \* of every bucket created so far
  global,     \* tokens of the global bucket
  allow,      \* the calls: where each is, its key and its bucket
  refills,    \* refills so far
  granted, evicted, credited   \* history, per key: admissions, evictions and
                               \* tokens put back into its buckets

rateVars == <<limiters, order, tokens, global, allow, refills, granted,
              evicted, credited>>

NoCall == [pc |-> "idle", key |-> "none", bucket |-> 0]

TypeOKRate ==
  /\ limiters \in [RateKeys -> 0..MaxBuckets]
  /\ order \in Seq(RateKeys)
  /\ tokens \in Seq(0..KeyBurst)
  /\ global \in 0..GlobalBurst
  /\ allow \in [RateCallers -> [pc : {"idle", "lookup", "create", "reserve"},
                                key : RateKeys \cup {"none"},
                                bucket : 0..MaxBuckets]]
  /\ refills \in 0..MaxRefills
  /\ \A h \in {granted, evicted, credited} : h \in [RateKeys -> Nat]

(* New.                                                                    *)
RateInit ==
  /\ limiters = [k \in RateKeys |-> 0] /\ order = <<>> /\ tokens = <<>>
  /\ global = GlobalBurst
  /\ allow = [c \in RateCallers |-> NoCall]
  /\ refills = 0
  /\ granted = [k \in RateKeys |-> 0]
  /\ evicted = [k \in RateKeys |-> 0]
  /\ credited = [k \in RateKeys |-> 0]

(* Allow, first part.  A global rejection touches no bucket of a key.      *)
AllowGlobal(c, k) ==
  /\ allow[c].pc = "idle" /\ global > 0
  /\ global' = global - 1
  /\ allow' = [allow EXCEPT ![c] = [NoCall EXCEPT !.pc = "lookup", !.key = k]]
  /\ UNCHANGED <<limiters, order, tokens, refills, granted, evicted, credited>>

(* getLimiter under the read lock.                                         *)
Lookup(c) ==
  LET b == limiters[allow[c].key] IN
  /\ allow[c].pc = "lookup"
  /\ allow' = [allow EXCEPT ![c].pc = IF b = 0 THEN "create" ELSE "reserve",
                            ![c].bucket = b]
  /\ UNCHANGED <<limiters, order, tokens, global, refills, granted, evicted,
                 credited>>

(* A new bucket, full, for key k; at the limit the oldest key makes room.  *)
NewLimiter(c, k) ==
  LET full == Len(order) >= MaxEntries
      kept == IF full THEN Tail(order) ELSE order
      gone == IF full THEN [limiters EXCEPT ![Head(order)] = 0] ELSE limiters
      b == Len(tokens) + 1
  IN /\ b <= MaxBuckets
     /\ tokens' = Append(tokens, KeyBurst)
     /\ limiters' = [gone EXCEPT ![k] = b]
     /\ order' = Append(kept, k)
     /\ evicted' = IF full THEN [evicted EXCEPT ![Head(order)] = @ + 1]
                   ELSE evicted
     /\ allow' = [allow EXCEPT ![c].pc = "reserve", ![c].bucket = b]

(* Mutant: the map is not looked at again once the write lock is held.     *)
CreateUnchecked(c) ==
  /\ allow[c].pc = "create"
  /\ NewLimiter(c, allow[c].key)
  /\ UNCHANGED <<global, refills, granted, credited>>

(* getLimiter under the write lock: another call may have been faster.     *)
Create(c) ==
  LET k == allow[c].key IN
  /\ allow[c].pc = "create"
  /\ \/ /\ limiters[k] # 0
        /\ allow' = [allow EXCEPT ![c].pc = "reserve", ![c].bucket = limiters[k]]
        /\ UNCHANGED <<limiters, order, tokens, evicted>>
     \/ limiters[k] = 0 /\ NewLimiter(c, k)
  /\ UNCHANGED <<global, refills, granted, credited>>

(* Reserve, and Cancel when there is a delay: the key's token is given     *)
(* back, the global one is lost.                                           *)
Reserve(c) ==
  LET b == allow[c].bucket
      k == allow[c].key
  IN /\ allow[c].pc = "reserve"
     /\ IF tokens[b] > 0
        THEN /\ tokens' = [tokens EXCEPT ![b] = @ - 1]
             /\ granted' = [granted EXCEPT ![k] = @ + 1]
        ELSE UNCHANGED <<tokens, granted>>
     /\ allow' = [allow EXCEPT ![c] = NoCall]
     /\ UNCHANGED <<limiters, order, global, refills, evicted, credited>>

(* Time passes (external: golang.org/x/time/rate).                         *)
RefillKey(k) ==
  /\ refills < MaxRefills /\ limiters[k] # 0 /\ tokens[limiters[k]] < KeyBurst
  /\ tokens' = [tokens EXCEPT ![limiters[k]] = @ + 1]
  /\ credited' = [credited EXCEPT ![k] = @ + 1]
  /\ refills' = refills + 1
  /\ UNCHANGED <<limiters, order, global, allow, granted, evicted>>

RefillGlobal ==
  /\ refills < MaxRefills /\ global < GlobalBurst
  /\ global' = global + 1
  /\ refills' = refills + 1
  /\ UNCHANGED <<limiters, order, tokens, allow, granted, evicted, credited>>

RateNext ==
  \/ \E c \in RateCallers :
       \/ \E k \in RateKeys : AllowGlobal(c, k)
       \/ Lookup(c) \/ Create(c) \/ Reserve(c)
  \/ \E k \in RateKeys : RefillKey(k)
  \/ RefillGlobal

RateSpec == RateInit /\ [][RateNext]_rateVars

----------------------------------------------------------------------------
(* The FIFO list and the map describe the same keys, each once, and never  *)
(* more than the registry may hold, however first uses of a key race with  *)
(* each other and with evictions (getLimiter).                             *)
OrderMatchesMap ==
  /\ {order[i] : i \in DOMAIN order} = {k \in RateKeys : limiters[k] # 0}
  /\ Cardinality({order[i] : i \in DOMAIN order}) = Len(order)
  /\ Len(order) <= MaxEntries

(* A key gets one burst, one more for every time it was evicted, and what  *)
(* time put back: concurrent first uses do not multiply its budget, and a  *)
(* caller that still holds an evicted bucket spends that bucket's tokens.  *)
KeyBudget ==
  \A k \in RateKeys :
    granted[k] <= KeyBurst * (1 + evicted[k]) + credited[k]

=============================================================================
