-------------------------- MODULE RecursionProofs --------------------------
(***************************************************************************)
(* Proofs about what the program computes by recursion, for data of any    *)
(* size: the sums of the statistics (Collector), and the scan of the       *)
(* manifests, the rounds of the dependency filter and the levels of the    *)
(* start order (Discovery), with the commands that edit config.yaml; and   *)
(* the batches of requests that gdocs_write makes of a text (DocWriter).   *)
(*                                                                         *)
(* The theorems on induction take the property as an operator, so each     *)
(* induction here is over a set: the numbers, or the subsets of a finite   *)
(* set, for which a fact holds, shown to be all of them because a least    *)
(* one outside it is impossible.  A recursive function is the CHOOSE of    *)
(* one that satisfies its equation: that there is one is shown first.      *)
(***************************************************************************)
EXTENDS Discovery, Collector, DocWriter, SequenceTheorems, FiniteSetTheorems,
        WellFoundedInduction, TLAPS

-----------------------------------------------------------------------------
(* Induction over sets *)

NatLess == {ss \in Nat \X Nat : ss[1] < ss[2]}

(* A set of numbers has a least one. *)
LEMMA LeastNat ==
  ASSUME NEW T \in SUBSET Nat, T # {}
  PROVE  \E m \in T : \A k \in T : m <= k
<1>1. IsWellFoundedOn(NatLess, Nat) BY NatLessThanWellFounded DEF OpToRel, NatLess
<1>2. PICK m \in T : \A k \in T : ~(<<k, m>> \in NatLess) BY <1>1, WFMin
<1>3. ASSUME NEW k \in T PROVE m <= k
  <2>1. k < m => <<k, m>> \in NatLess BY DEF NatLess
  <2> QED BY <1>2, <2>1
<1> QED BY <1>3

(* A set of numbers with 0 and every successor holds all of them. *)
LEMMA NatSet ==
  ASSUME NEW T \in SUBSET Nat, 0 \in T, \A n \in T : n + 1 \in T
  PROVE  T = Nat
<1> SUFFICES ASSUME NEW x \in Nat \ T PROVE FALSE OBVIOUS
<1>1. PICK m \in Nat \ T : \A k \in Nat \ T : m <= k BY LeastNat
<1>2. m - 1 \in Nat /\ m - 1 \notin Nat \ T BY <1>1
<1> QED BY <1>1, <1>2

(* A collection of subsets of a finite set that has a subset whenever it   *)
(* has all smaller ones has every subset.                                  *)
LEMMA SubsetInduction ==
  ASSUME NEW S, IsFiniteSet(S), NEW T \in SUBSET (SUBSET S),
         \A s \in SUBSET S : (\A u \in SUBSET s : u # s => u \in T) => s \in T
  PROVE  T = SUBSET S
<1> DEFINE Rest == (SUBSET S) \ T
<1> SUFFICES ASSUME Rest # {} PROVE FALSE OBVIOUS
<1>1. IsWellFoundedOn(StrictSubsetOrdering(S), SUBSET S)
  <2>1. IsWellFoundedOn(StrictSubsetOrdering(S), FiniteSubsetsOf(S))
    BY FS_StrictSubsetOrderingWellFounded
  <2>2. FiniteSubsetsOf(S) = SUBSET S BY FS_FiniteSubsetsOfFinite
  <2> QED BY <2>1, <2>2
<1>2. PICK s \in Rest : \A u \in Rest : ~(<<u, s>> \in StrictSubsetOrdering(S))
  <2>1. Rest \subseteq SUBSET S OBVIOUS
  <2> HIDE DEF Rest
  <2> QED BY <1>1, <2>1, WFMin
<1>3. ASSUME NEW u \in SUBSET s, u # s PROVE u \in T
  <2>1. <<u, s>> \in StrictSubsetOrdering(S) BY <1>3 DEF StrictSubsetOrdering
  <2> QED BY <1>2, <2>1
<1> QED BY <1>2, <1>3

-----------------------------------------------------------------------------
(* Sums over finite sets *)

(* The element that a sum takes next, and what it leaves. *)
Pick(s) == CHOOSE x \in s : TRUE
Left(s) == s \ {Pick(s)}
IsIter(f, h, S) ==
  h = [s \in SUBSET S |-> IF s = {} THEN 0 ELSE f[Pick(s)] + h[Left(s)]]

LEMMA Picked ==
  \A s : s # {} => Pick(s) \in s /\ Left(s) \in SUBSET s /\ Left(s) # s
<1> SUFFICES ASSUME NEW s, s # {}
             PROVE  Pick(s) \in s /\ Left(s) \in SUBSET s /\ Left(s) # s
  OBVIOUS
<1>1. Pick(s) \in s BY DEF Pick
<1> QED BY <1>1 DEF Left

LEMMA SumIsIter ==
  ASSUME NEW f, NEW S
  PROVE  SumFunctionOnSet(f, S) = (CHOOSE h : IsIter(f, h, S))[S]
BY DEF SumFunctionOnSet, FoldFunctionOnSet, MapThenFoldSet, IsIter, Pick, Left

LEMMA IterUnique ==
  ASSUME NEW S, IsFiniteSet(S), NEW f, NEW a \in SUBSET S, NEW b \in SUBSET S,
         NEW g, NEW h, IsIter(f, g, a), IsIter(f, h, b), NEW w, w \subseteq a, w \subseteq b
  PROVE  g[w] = h[w]
<1> DEFINE T == {s \in SUBSET S : s \subseteq a /\ s \subseteq b => g[s] = h[s]}
<1>1. ASSUME NEW s \in SUBSET S, \A u \in SUBSET s : u # s => u \in T PROVE s \in T
  <2> SUFFICES ASSUME s \subseteq a, s \subseteq b PROVE g[s] = h[s] OBVIOUS
  <2>1. CASE s = {} BY <2>1 DEF IsIter
  <2>2. CASE s # {}
    <3>1. Left(s) \in SUBSET s /\ Left(s) # s BY <2>2, Picked
    <3>2. g[Left(s)] = h[Left(s)] BY <1>1, <3>1
    <3>3. g[s] = f[Pick(s)] + g[Left(s)] /\ h[s] = f[Pick(s)] + h[Left(s)]
      BY <2>2, <3>1 DEF IsIter
    <3> QED BY <3>2, <3>3
  <2> QED BY <2>1, <2>2
<1>2. T = SUBSET S
  <2> HIDE DEF T
  <2>1. T \in SUBSET (SUBSET S) BY DEF T
  <2> QED BY <1>1, <2>1, SubsetInduction
<1> QED BY <1>2

LEMMA IterExists ==
  ASSUME NEW S, IsFiniteSet(S), NEW f
  PROVE  \E h : IsIter(f, h, S)
<1> DEFINE T == {s \in SUBSET S : \E h : IsIter(f, h, s)}
           It(s) == CHOOSE h : IsIter(f, h, s)
<1>1. ASSUME NEW s \in SUBSET S, \A u \in SUBSET s : u # s => u \in T PROVE s \in T
  <2> DEFINE Value(u) == IF u = {} THEN 0 ELSE f[Pick(u)] + It(Left(u))[Left(u)]
             H == [u \in SUBSET s |-> Value(u)]
  <2>1. ASSUME NEW u \in SUBSET s, u # {}
        PROVE  Left(u) \in SUBSET s /\ Left(u) # s /\ IsIter(f, It(Left(u)), Left(u))
    <3>1. Left(u) \in SUBSET s /\ Left(u) # s BY <2>1, Picked
    <3>2. Left(u) \in T BY <1>1, <3>1
    <3>3. \E h : IsIter(f, h, Left(u)) BY <3>2
    <3> QED BY <3>1, <3>3
  <2>2. ASSUME NEW v \in SUBSET s, v # s PROVE Value(v) = It(v)[v]
    <3>1. IsIter(f, It(v), v)
      <4>1. v \in T BY <1>1, <2>2
      <4> QED BY <4>1
    <3>2. CASE v = {} BY <3>1, <3>2 DEF IsIter
    <3>3. CASE v # {}
      <4>1. It(Left(v))[Left(v)] = It(v)[Left(v)]
        <5>1. PICK u : u = Left(v) OBVIOUS
        <5>2. PICK g : g = It(u) OBVIOUS
        <5>3. PICK h : h = It(v) OBVIOUS
        <5>4. IsIter(f, g, u) /\ IsIter(f, h, v) BY <2>1, <3>1, <3>3, <5>1, <5>2, <5>3
        <5>5. u \subseteq v /\ u \in SUBSET S /\ v \in SUBSET S /\ u \subseteq u
          BY <3>3, <5>1, Picked
        <5>6. g[u] = h[u] BY <5>4, <5>5, IterUnique
        <5> QED BY <5>1, <5>2, <5>3, <5>6
      <4>2. It(v)[v] = f[Pick(v)] + It(v)[Left(v)] BY <3>1, <3>3 DEF IsIter
      <4> QED BY <3>3, <4>1, <4>2
    <3> QED BY <3>2, <3>3
  <2>3. ASSUME NEW u \in SUBSET s
        PROVE  Value(u) = IF u = {} THEN 0 ELSE f[Pick(u)] + H[Left(u)]
    <3>1. CASE u = {} BY <3>1
    <3>2. CASE u # {}
      <4>1. H[Left(u)] = Value(Left(u)) BY <2>1, <3>2
      <4>2. Value(Left(u)) = It(Left(u))[Left(u)] BY <2>1, <2>2, <3>2
      <4>3. H[Left(u)] = It(Left(u))[Left(u)] BY <4>1, <4>2
      <4> HIDE DEF H, It
      <4> QED BY <3>2, <4>3
    <3> QED BY <3>1, <3>2
  <2>4. IsIter(f, H, s)
    <3> HIDE DEF Value
    <3>1. H = [u \in SUBSET s |-> IF u = {} THEN 0 ELSE f[Pick(u)] + H[Left(u)]]
      BY <2>3
    <3> HIDE DEF H
    <3> QED BY <3>1 DEF IsIter
  <2> QED BY <2>4
<1>2. T = SUBSET S
  <2> HIDE DEF T
  <2>1. T \in SUBSET (SUBSET S) BY DEF T
  <2> QED BY <1>1, <2>1, SubsetInduction
<1> QED BY <1>2

(* The recursion that a sum obeys: one element of the set after another. *)
SumsUp(f, S, h) ==
  /\ h[S] = SumFunctionOnSet(f, S) /\ h[{}] = 0
  /\ \A s \in SUBSET S : s # {} =>
       /\ Pick(s) \in s /\ Left(s) \in SUBSET s /\ Left(s) # s
       /\ h[s] = f[Pick(s)] + h[Left(s)]

(* A sum over a finite set obeys it. *)
LEMMA SumUnfolds ==
  ASSUME NEW S, IsFiniteSet(S), NEW f
  PROVE  \E h : SumsUp(f, S, h)
<1>1. PICK h : h = CHOOSE i : IsIter(f, i, S) OBVIOUS
<1>2. IsIter(f, h, S) BY <1>1, IterExists
<1>3. h[S] = SumFunctionOnSet(f, S) BY <1>1, SumIsIter
<1>4. h[{}] = 0 BY <1>2 DEF IsIter
<1>5. ASSUME NEW s \in SUBSET S, s # {}
      PROVE  /\ Pick(s) \in s /\ Left(s) \in SUBSET s /\ Left(s) # s
             /\ h[s] = f[Pick(s)] + h[Left(s)]
  BY <1>2, <1>5, Picked DEF IsIter
<1> QED BY <1>3, <1>4, <1>5 DEF SumsUp

LEMMA SumIsNat ==
  ASSUME NEW S, IsFiniteSet(S), NEW f, \A x \in S : f[x] \in Nat
  PROVE  SumFunctionOnSet(f, S) \in Nat
<1>1. PICK h : SumsUp(f, S, h) BY SumUnfolds
<1> DEFINE T == {s \in SUBSET S : h[s] \in Nat}
<1>2. ASSUME NEW s \in SUBSET S, \A u \in SUBSET s : u # s => u \in T PROVE s \in T
  <2>1. CASE s = {} BY <1>1, <2>1 DEF SumsUp
  <2>2. CASE s # {}
    <3>1. Pick(s) \in s /\ h[s] = f[Pick(s)] + h[Left(s)] /\ h[Left(s)] \in Nat
      BY <1>1, <1>2, <2>2 DEF SumsUp
    <3> QED BY <3>1
  <2> QED BY <2>1, <2>2
<1>3. T = SUBSET S
  <2> HIDE DEF T
  <2>1. T \in SUBSET (SUBSET S) BY DEF T
  <2> QED BY <1>2, <2>1, SubsetInduction
<1> QED BY <1>1, <1>3 DEF SumsUp

LEMMA SumOfZeros ==
  ASSUME NEW S, IsFiniteSet(S), NEW f, \A x \in S : f[x] = 0
  PROVE  SumFunctionOnSet(f, S) = 0
<1>1. PICK h : SumsUp(f, S, h) BY SumUnfolds
<1> DEFINE T == {s \in SUBSET S : h[s] = 0}
<1>2. ASSUME NEW s \in SUBSET S, \A u \in SUBSET s : u # s => u \in T PROVE s \in T
  <2>1. CASE s = {} BY <1>1, <2>1 DEF SumsUp
  <2>2. CASE s # {}
    <3>1. Pick(s) \in s /\ h[s] = f[Pick(s)] + h[Left(s)] /\ h[Left(s)] = 0
      BY <1>1, <1>2, <2>2 DEF SumsUp
    <3> QED BY <3>1
  <2> QED BY <2>1, <2>2
<1>3. T = SUBSET S
  <2> HIDE DEF T
  <2>1. T \in SUBSET (SUBSET S) BY DEF T
  <2> QED BY <1>2, <2>1, SubsetInduction
<1> QED BY <1>1, <1>3 DEF SumsUp

(* If one number of a sum grows by n, so does the sum. *)
LEMMA SumGrowsBy ==
  ASSUME NEW S, IsFiniteSet(S), NEW f, NEW g, NEW x \in S, NEW n \in Nat,
         \A y \in S : f[y] \in Nat, g[x] = f[x] + n, \A y \in S \ {x} : g[y] = f[y]
  PROVE  SumFunctionOnSet(g, S) = SumFunctionOnSet(f, S) + n
<1>1. PICK h : SumsUp(f, S, h) BY SumUnfolds
<1>2. PICK i : SumsUp(g, S, i) BY SumUnfolds
<1> DEFINE T == {s \in SUBSET S : /\ h[s] \in Nat
                                  /\ i[s] = IF x \in s THEN h[s] + n ELSE h[s]}
<1>3. ASSUME NEW s \in SUBSET S, \A u \in SUBSET s : u # s => u \in T PROVE s \in T
  <2>1. CASE s = {} BY <1>1, <1>2, <2>1 DEF SumsUp
  <2>2. CASE s # {}
    <3>1. /\ Pick(s) \in s /\ Left(s) \in SUBSET s /\ Left(s) # s
          /\ h[s] = f[Pick(s)] + h[Left(s)] /\ i[s] = g[Pick(s)] + i[Left(s)]
      BY <1>1, <1>2, <2>2 DEF SumsUp
    <3>2. /\ h[Left(s)] \in Nat
          /\ i[Left(s)] = IF x \in Left(s) THEN h[Left(s)] + n ELSE h[Left(s)]
      BY <1>3, <3>1
    <3>3. x \in Left(s) <=> x \in s /\ x # Pick(s) BY DEF Left
    <3>4. CASE Pick(s) = x BY <3>1, <3>2, <3>3, <3>4
    <3>5. CASE Pick(s) # x BY <3>1, <3>2, <3>3, <3>5
    <3> QED BY <3>4, <3>5
  <2> QED BY <2>1, <2>2
<1>4. T = SUBSET S
  <2> HIDE DEF T
  <2>1. T \in SUBSET (SUBSET S) BY DEF T
  <2> QED BY <1>3, <2>1, SubsetInduction
<1> QED BY <1>1, <1>2, <1>4 DEF SumsUp

(* A sum of smaller numbers is smaller. *)
LEMMA SumIsMonotonic ==
  ASSUME NEW S, IsFiniteSet(S), NEW f, NEW g,
         \A y \in S : f[y] \in Nat /\ g[y] \in Nat /\ g[y] <= f[y]
  PROVE  SumFunctionOnSet(g, S) <= SumFunctionOnSet(f, S)
<1>1. PICK h : SumsUp(f, S, h) BY SumUnfolds
<1>2. PICK i : SumsUp(g, S, i) BY SumUnfolds
<1> DEFINE T == {s \in SUBSET S : h[s] \in Nat /\ i[s] \in Nat /\ i[s] <= h[s]}
<1>3. ASSUME NEW s \in SUBSET S, \A u \in SUBSET s : u # s => u \in T PROVE s \in T
  <2>1. CASE s = {} BY <1>1, <1>2, <2>1 DEF SumsUp
  <2>2. CASE s # {}
    <3>1. /\ Pick(s) \in s /\ Left(s) \in SUBSET s /\ Left(s) # s
          /\ h[s] = f[Pick(s)] + h[Left(s)] /\ i[s] = g[Pick(s)] + i[Left(s)]
      BY <1>1, <1>2, <2>2 DEF SumsUp
    <3>2. h[Left(s)] \in Nat /\ i[Left(s)] \in Nat /\ i[Left(s)] <= h[Left(s)]
      BY <1>3, <3>1
    <3> QED BY <3>1, <3>2
  <2> QED BY <2>1, <2>2
<1>4. T = SUBSET S
  <2> HIDE DEF T
  <2>1. T \in SUBSET (SUBSET S) BY DEF T
  <2> QED BY <1>3, <2>1, SubsetInduction
<1> QED BY <1>1, <1>2, <1>4 DEF SumsUp

LEMMA SumsAgree ==
  ASSUME NEW S, IsFiniteSet(S), NEW f, NEW g,
         \A y \in S : f[y] \in Nat /\ g[y] = f[y]
  PROVE  SumFunctionOnSet(g, S) = SumFunctionOnSet(f, S)
<1>1. \A y \in S : g[y] \in Nat /\ f[y] <= g[y] /\ g[y] <= f[y] OBVIOUS
<1>2. /\ SumFunctionOnSet(g, S) <= SumFunctionOnSet(f, S)
      /\ SumFunctionOnSet(f, S) <= SumFunctionOnSet(g, S)
  BY <1>1, SumIsMonotonic
<1>3. SumFunctionOnSet(g, S) \in Nat /\ SumFunctionOnSet(f, S) \in Nat
  BY <1>1, SumIsNat
<1> QED BY <1>2, <1>3

(* The maximum of a set of numbers with a bound is in it. *)
LEMMA MaxOf ==
  ASSUME NEW S \in SUBSET Nat, S # {}, NEW n \in Nat, \A y \in S : y <= n
  PROVE  Max(S) \in S /\ \A y \in S : Max(S) >= y
<1> DEFINE Bounds == {b \in Nat : \A y \in S : y <= b}
<1>1. PICK b \in Bounds : \A k \in Bounds : b <= k
  <2>1. n \in Bounds OBVIOUS
  <2> HIDE DEF Bounds
  <2>2. Bounds \in SUBSET Nat BY DEF Bounds
  <2> QED BY <2>1, <2>2, LeastNat
<1>2. b \in S
  <2> SUFFICES ASSUME b \notin S PROVE FALSE OBVIOUS
  <2>1. \A y \in S : y <= b - 1 OBVIOUS
  <2>2. b - 1 \in Nat
    <3>1. PICK y \in S : TRUE OBVIOUS
    <3> QED BY <2>1, <3>1
  <2>3. b - 1 \in Bounds BY <2>1, <2>2
  <2>4. b <= b - 1 BY <1>1, <2>3
  <2> QED BY <2>4
<1>3. \E x \in S : \A y \in S : x >= y BY <1>2
<1> QED BY <1>3 DEF Max

-----------------------------------------------------------------------------
(* Collector *)

Agg == [calls : Nat, tokens : Nat, max : Nat]
Collections ==
  [agg : [StatTools -> Agg], daily : [Days -> [StatTools -> Agg]],
   schemas : SUBSET StatTools, resources : [StatTools -> Nat]]
Served ==
  [pc : {"serve", "lock"}, kind : {"call", "read", "schema"}, tool : StatTools,
   size : Nat, start : Days]

CallsOf(c) == [t \in StatTools |-> c.agg[t].calls]
DayCalls(c, t) == [d \in Days |-> c.daily[d][t].calls]
DayTokens(c, t) == [d \in Days |-> c.daily[d][t].tokens]
ByPlugin(c) == [p \in PluginsOfTools |-> PluginSummary(c, p)]

(* The days of a tool sum up to its totals, or to less when days have been *)
(* pruned, and the plugins' totals to the tools'.                          *)
DaysSumUp(c) ==
  \A t \in StatTools :
    /\ SumFunctionOnSet(DayCalls(c, t), Days) <= c.agg[t].calls
    /\ \A d \in Days : c.daily[d][t].max <= c.agg[t].max
    /\ retentionDays = 0 =>
         /\ c.agg[t].calls = SumFunctionOnSet(DayCalls(c, t), Days)
         /\ c.agg[t].tokens = SumFunctionOnSet(DayTokens(c, t), Days)
         /\ c.agg[t].max = 0 \/ \E d \in Days : c.daily[d][t].max = c.agg[t].max
PluginsSumUp(c) == SumFunction(ByPlugin(c)) = SumFunction(CallsOf(c))
Consistent(c) == c \in Collections /\ DaysSumUp(c) /\ PluginsSumUp(c)

CollectorInv ==
  /\ retentionDays \in Nat /\ today \in Days
  /\ Consistent(col)
  /\ statDisk.kind = "snapshot" => Consistent(statDisk.col)
  /\ DOMAIN recorder = Recorders
  /\ \A r \in Recorders : recorder[r] = NotRecording \/ recorder[r] \in Served

LEMMA FiniteParts ==
  /\ IsFiniteSet(Days) /\ IsFiniteSet(StatTools) /\ IsFiniteSet(PluginsOfTools)
  /\ \A p : ToolsOfPlugin(p) \subseteq StatTools /\ IsFiniteSet(ToolsOfPlugin(p))
<1>1. IsFiniteSet(Days) BY StatAssumption, FS_Interval DEF Days
<1>2. IsFiniteSet(StatTools) BY StatAssumption
<1>3. IsFiniteSet(PluginsOfTools)
  <2>1. StatPlugin \in Surjection(StatTools, PluginsOfTools)
    <3>1. StatPlugin \in [StatTools -> PluginsOfTools]
      BY StatAssumption DEF PluginsOfTools
    <3>2. \A p \in PluginsOfTools : \E t \in StatTools : StatPlugin[t] = p
      BY DEF PluginsOfTools
    <3> QED BY <3>1, <3>2 DEF Surjection
  <2> QED BY <1>2, <2>1, FS_Surjection
<1>4. \A p : ToolsOfPlugin(p) \in SUBSET StatTools BY DEF ToolsOfPlugin
<1> QED BY <1>1, <1>2, <1>3, <1>4, FS_Subset

LEMMA CollectionParts ==
  ASSUME NEW c \in Collections
  PROVE  /\ \A t \in StatTools : /\ c.agg[t].calls \in Nat /\ c.agg[t].tokens \in Nat
                                 /\ c.agg[t].max \in Nat
         /\ \A d \in Days, t \in StatTools :
              /\ c.daily[d][t].calls \in Nat /\ c.daily[d][t].tokens \in Nat
              /\ c.daily[d][t].max \in Nat
BY DEF Collections, Agg

LEMMA EmptyIsConsistent == Consistent(EmptyCol)
<1>1. PICK c : c = EmptyCol OBVIOUS
<1>2. c \in Collections BY <1>1 DEF EmptyCol, NoAgg, Collections, Agg
<1>3. /\ \A t \in StatTools : c.agg[t].calls = 0 /\ c.agg[t].tokens = 0 /\ c.agg[t].max = 0
      /\ \A d \in Days, t \in StatTools :
           c.daily[d][t].calls = 0 /\ c.daily[d][t].tokens = 0 /\ c.daily[d][t].max = 0
  BY <1>1 DEF EmptyCol, NoAgg
<1>4. DaysSumUp(c)
  <2>1. ASSUME NEW t \in StatTools
        PROVE  /\ SumFunctionOnSet(DayCalls(c, t), Days) = 0
               /\ SumFunctionOnSet(DayTokens(c, t), Days) = 0
    <3>1. \A d \in Days : DayCalls(c, t)[d] = 0 /\ DayTokens(c, t)[d] = 0
      BY <1>3 DEF DayCalls, DayTokens
    <3> QED BY <3>1, FiniteParts, SumOfZeros
  <2> QED BY <1>3, <2>1 DEF DaysSumUp
<1>5. PluginsSumUp(c)
  <2>1. SumFunction(CallsOf(c)) = 0
    <3>1. \A t \in StatTools : CallsOf(c)[t] = 0 BY <1>3 DEF CallsOf
    <3>2. DOMAIN CallsOf(c) = StatTools BY DEF CallsOf
    <3> QED BY <3>1, <3>2, FiniteParts, SumOfZeros DEF SumFunction
  <2>2. \A p \in PluginsOfTools : PluginSummary(c, p) = 0
    <3>1. \A t \in StatTools : CallsOf(c)[t] = 0 BY <1>3 DEF CallsOf
    <3>2. \A p : SumFunctionOnSet(CallsOf(c), ToolsOfPlugin(p)) = 0
      BY <3>1, FiniteParts, SumOfZeros
    <3> QED BY <3>2 DEF PluginSummary, CallsOf
  <2>3. SumFunction(ByPlugin(c)) = 0
    <3>1. \A p \in PluginsOfTools : ByPlugin(c)[p] = 0 BY <2>2 DEF ByPlugin
    <3>2. DOMAIN ByPlugin(c) = PluginsOfTools BY DEF ByPlugin
    <3> QED BY <3>1, <3>2, FiniteParts, SumOfZeros DEF SumFunction
  <2> QED BY <2>1, <2>3 DEF PluginsSumUp
<1> QED BY <1>1, <1>2, <1>4, <1>5 DEF Consistent

(* What only changes schemas and resources. *)
LEMMA SameTotals ==
  ASSUME NEW c, Consistent(c), NEW e \in Collections,
         e.agg = c.agg, e.daily = c.daily
  PROVE  Consistent(e)
BY DEF Consistent, DaysSumUp, PluginsSumUp, DayCalls, DayTokens, CallsOf, ByPlugin,
       PluginSummary

LEMMA PrunedIsConsistent ==
  ASSUME NEW c, Consistent(c), retentionDays \in Nat, today \in Days
  PROVE  Consistent(Pruned(c))
<1>1. CASE retentionDays = 0 BY <1>1 DEF Pruned
<1>2. CASE retentionDays # 0
  <2>1. PICK daily : daily = [d \in Days |-> IF d < today - retentionDays
                                             THEN [t \in StatTools |-> NoAgg] ELSE c.daily[d]]
    OBVIOUS
  <2>2. PICK e : e = [c EXCEPT !.daily = daily] OBVIOUS
  <2>3. e = Pruned(c) BY <1>2, <2>1, <2>2 DEF Pruned
  <2>4. c \in Collections BY DEF Consistent
  <2>5. daily \in [Days -> [StatTools -> Agg]]
    <3>1. [t \in StatTools |-> NoAgg] \in [StatTools -> Agg] BY DEF NoAgg, Agg
    <3>2. \A d \in Days : c.daily[d] \in [StatTools -> Agg] BY <2>4 DEF Collections
    <3> QED BY <2>1, <3>1, <3>2
  <2>6. e \in Collections /\ e.agg = c.agg /\ e.daily = daily
    BY <2>2, <2>4, <2>5 DEF Collections
  <2>7. \A d \in Days, t \in StatTools :
          /\ e.daily[d][t].calls <= c.daily[d][t].calls
          /\ e.daily[d][t].max <= c.daily[d][t].max
    BY <2>1, <2>4, <2>6, CollectionParts DEF NoAgg
  <2>8. ASSUME NEW t \in StatTools
        PROVE  SumFunctionOnSet(DayCalls(e, t), Days) <= SumFunctionOnSet(DayCalls(c, t), Days)
    <3>1. \A d \in Days : /\ DayCalls(c, t)[d] \in Nat /\ DayCalls(e, t)[d] \in Nat
                          /\ DayCalls(e, t)[d] <= DayCalls(c, t)[d]
      BY <2>4, <2>6, <2>7, CollectionParts DEF DayCalls
    <3> QED BY <3>1, FiniteParts, SumIsMonotonic
  <2>9. ASSUME NEW t \in StatTools
        PROVE  /\ SumFunctionOnSet(DayCalls(e, t), Days) <= e.agg[t].calls
               /\ \A d \in Days : e.daily[d][t].max <= e.agg[t].max
    <3>1. /\ SumFunctionOnSet(DayCalls(c, t), Days) <= c.agg[t].calls
          /\ \A d \in Days : c.daily[d][t].max <= c.agg[t].max
      BY DEF Consistent, DaysSumUp
    <3>2. /\ SumFunctionOnSet(DayCalls(c, t), Days) \in Nat
          /\ SumFunctionOnSet(DayCalls(e, t), Days) \in Nat
      <4>1. \A d \in Days : DayCalls(c, t)[d] \in Nat /\ DayCalls(e, t)[d] \in Nat
        BY <2>4, <2>6, CollectionParts DEF DayCalls
      <4> QED BY <4>1, FiniteParts, SumIsNat
    <3> QED BY <2>4, <2>6, <2>7, <2>8, <3>1, <3>2, CollectionParts
  <2>10. DaysSumUp(e) BY <1>2, <2>9 DEF DaysSumUp
  <2>11. PluginsSumUp(e)
    BY <2>6 DEF Consistent, PluginsSumUp, CallsOf, ByPlugin, PluginSummary
  <2> QED BY <2>3, <2>6, <2>10, <2>11 DEF Consistent
<1> QED BY <1>1, <1>2

LEMMA UpdatedIsConsistent ==
  ASSUME NEW c, Consistent(c), NEW w \in Served
  PROVE  Consistent(Updated(c, w))
<1> USE DEF Served
<1>1. c \in Collections BY DEF Consistent
<1>2. CASE w.kind = "read"
  <2>1. PICK e : e = [c EXCEPT !.resources[w.tool] = @ + 1] OBVIOUS
  <2>2. e \in Collections /\ e.agg = c.agg /\ e.daily = c.daily
    BY <1>1, <2>1 DEF Collections
  <2>3. e = Updated(c, w) BY <1>2, <2>1 DEF Updated
  <2> QED BY <2>2, <2>3, SameTotals
<1>3. CASE w.kind = "schema"
  <2>1. PICK e : e = [c EXCEPT !.schemas = @ \cup {w.tool}] OBVIOUS
  <2>2. e \in Collections /\ e.agg = c.agg /\ e.daily = c.daily
    BY <1>1, <2>1 DEF Collections
  <2>3. e = Updated(c, w) BY <1>3, <2>1 DEF Updated
  <2> QED BY <2>2, <2>3, SameTotals
<1>4. CASE w.kind = "call"
  <2>1. PICK e : e = [c EXCEPT !.agg[w.tool] = AddCall(@, w.size),
                               !.daily[w.start][w.tool] = AddCall(@, w.size)]
    OBVIOUS
  <2>2. e = Updated(c, w) BY <1>4, <2>1 DEF Updated
  <2>3. /\ e.agg = [c.agg EXCEPT ![w.tool] = AddCall(@, w.size)]
        /\ e.daily = [c.daily EXCEPT ![w.start][w.tool] = AddCall(@, w.size)]
        /\ e.schemas = c.schemas /\ e.resources = c.resources
        /\ e = [agg |-> e.agg, daily |-> e.daily, schemas |-> e.schemas,
                resources |-> e.resources]
    BY <1>1, <2>1 DEF Collections
  <2>4. \A a \in Agg : AddCall(a, w.size) \in Agg BY DEF AddCall, Agg
  <2>5. e \in Collections
    <3>1. e.agg \in [StatTools -> Agg] BY <1>1, <2>3, <2>4 DEF Collections
    <3>2. e.daily \in [Days -> [StatTools -> Agg]]
      BY <1>1, <2>3, <2>4 DEF Collections
    <3> QED BY <1>1, <2>3, <3>1, <3>2 DEF Collections
  <2>6. \A t \in StatTools \ {w.tool} :
          e.agg[t] = c.agg[t] /\ \A d \in Days : e.daily[d][t] = c.daily[d][t]
    BY <1>1, <2>3 DEF Collections
  <2>7. /\ e.agg[w.tool] = AddCall(c.agg[w.tool], w.size)
        /\ e.daily[w.start][w.tool] = AddCall(c.daily[w.start][w.tool], w.size)
        /\ \A d \in Days \ {w.start} : e.daily[d][w.tool] = c.daily[d][w.tool]
    BY <1>1, <2>3 DEF Collections
  <2>8. DaysSumUp(e)
    <3>1. ASSUME NEW t \in StatTools \ {w.tool}
          PROVE  DayCalls(e, t) = DayCalls(c, t) /\ DayTokens(e, t) = DayTokens(c, t)
      BY <2>6 DEF DayCalls, DayTokens
    <3>2. /\ SumFunctionOnSet(DayCalls(e, w.tool), Days)
               = SumFunctionOnSet(DayCalls(c, w.tool), Days) + 1
          /\ SumFunctionOnSet(DayTokens(e, w.tool), Days)
               = SumFunctionOnSet(DayTokens(c, w.tool), Days) + w.size
      <4>1. PICK f, g, i, j : /\ f = DayCalls(c, w.tool) /\ g = DayCalls(e, w.tool)
                              /\ i = DayTokens(c, w.tool) /\ j = DayTokens(e, w.tool)
        OBVIOUS
      <4>2. /\ \A d \in Days : f[d] \in Nat /\ i[d] \in Nat
            /\ \A d \in Days \ {w.start} : g[d] = f[d] /\ j[d] = i[d]
            /\ g[w.start] = f[w.start] + 1 /\ j[w.start] = i[w.start] + w.size
        <5>1. \A d \in Days : /\ f[d] = c.daily[d][w.tool].calls
                              /\ i[d] = c.daily[d][w.tool].tokens
                              /\ g[d] = e.daily[d][w.tool].calls
                              /\ j[d] = e.daily[d][w.tool].tokens
          BY <4>1 DEF DayCalls, DayTokens
        <5>2. /\ e.daily[w.start][w.tool].calls = c.daily[w.start][w.tool].calls + 1
              /\ e.daily[w.start][w.tool].tokens = c.daily[w.start][w.tool].tokens + w.size
          BY <2>7 DEF AddCall
        <5>3. w.start \in Days /\ w.tool \in StatTools BY DEF Served
        <5>4. \A d \in Days : /\ c.daily[d][w.tool].calls \in Nat
                              /\ c.daily[d][w.tool].tokens \in Nat
          BY <1>1, <5>3, CollectionParts
        <5>5. \A d \in Days : f[d] \in Nat /\ i[d] \in Nat BY <5>1, <5>4
        <5>6. \A d \in Days \ {w.start} : g[d] = f[d] /\ j[d] = i[d] BY <2>7, <5>1
        <5>7. g[w.start] = f[w.start] + 1 /\ j[w.start] = i[w.start] + w.size
          BY <5>1, <5>2, <5>3
        <5> QED BY <5>5, <5>6, <5>7
      <4>3. SumFunctionOnSet(g, Days) = SumFunctionOnSet(f, Days) + 1
        BY <4>2, FiniteParts, SumGrowsBy
      <4>4. SumFunctionOnSet(j, Days) = SumFunctionOnSet(i, Days) + w.size
        BY <4>2, FiniteParts, SumGrowsBy
      <4> QED BY <4>1, <4>3, <4>4
    <3>3. \A t \in StatTools : /\ SumFunctionOnSet(DayCalls(c, t), Days) \in Nat
                               /\ SumFunctionOnSet(DayTokens(c, t), Days) \in Nat
      <4>1. SUFFICES ASSUME NEW t \in StatTools
                     PROVE  /\ SumFunctionOnSet(DayCalls(c, t), Days) \in Nat
                            /\ SumFunctionOnSet(DayTokens(c, t), Days) \in Nat
        OBVIOUS
      <4>2. \A d \in Days : DayCalls(c, t)[d] \in Nat /\ DayTokens(c, t)[d] \in Nat
        BY <1>1, CollectionParts DEF DayCalls, DayTokens
      <4> QED BY <4>2, FiniteParts, SumIsNat
    <3>4. DaysSumUp(c) BY DEF Consistent
    <3>5. ASSUME NEW t \in StatTools
          PROVE  /\ SumFunctionOnSet(DayCalls(e, t), Days) <= e.agg[t].calls
                 /\ \A d \in Days : e.daily[d][t].max <= e.agg[t].max
                 /\ retentionDays = 0 =>
                      /\ e.agg[t].calls = SumFunctionOnSet(DayCalls(e, t), Days)
                      /\ e.agg[t].tokens = SumFunctionOnSet(DayTokens(e, t), Days)
                      /\ \/ e.agg[t].max = 0
                         \/ \E d \in Days : e.daily[d][t].max = e.agg[t].max
      <4>1. CASE t # w.tool BY <2>6, <3>1, <3>4, <4>1 DEF DaysSumUp
      <4>2. CASE t = w.tool
        <5>1. PICK a : a = c.agg[t] OBVIOUS
        <5>2. /\ a.calls \in Nat /\ a.tokens \in Nat /\ a.max \in Nat
              /\ \A d \in Days : c.daily[d][t].max \in Nat
          BY <1>1, <5>1, CollectionParts
        <5>3. /\ e.agg[t].calls = a.calls + 1 /\ e.agg[t].tokens = a.tokens + w.size
              /\ e.agg[t].max = IF w.size > a.max THEN w.size ELSE a.max
              /\ e.daily[w.start][t].max = IF w.size > c.daily[w.start][t].max
                                           THEN w.size ELSE c.daily[w.start][t].max
              /\ \A d \in Days \ {w.start} : e.daily[d][t].max = c.daily[d][t].max
          BY <2>7, <4>2, <5>1 DEF AddCall
        <5>4. /\ SumFunctionOnSet(DayCalls(c, t), Days) <= a.calls
              /\ \A d \in Days : c.daily[d][t].max <= a.max
              /\ retentionDays = 0 =>
                   /\ a.calls = SumFunctionOnSet(DayCalls(c, t), Days)
                   /\ a.tokens = SumFunctionOnSet(DayTokens(c, t), Days)
                   /\ a.max = 0 \/ \E d \in Days : c.daily[d][t].max = a.max
          BY <3>4, <5>1 DEF DaysSumUp
        <5>5. SumFunctionOnSet(DayCalls(e, t), Days) <= e.agg[t].calls
          BY <3>2, <3>3, <4>2, <5>2, <5>3, <5>4
        <5>6. \A d \in Days : e.daily[d][t].max <= e.agg[t].max
          BY <5>2, <5>3, <5>4
        <5>7. ASSUME retentionDays = 0
              PROVE  /\ e.agg[t].calls = SumFunctionOnSet(DayCalls(e, t), Days)
                     /\ e.agg[t].tokens = SumFunctionOnSet(DayTokens(e, t), Days)
          BY <3>2, <4>2, <5>3, <5>4, <5>7
        <5>8. ASSUME retentionDays = 0
              PROVE  \/ e.agg[t].max = 0
                     \/ \E d \in Days : e.daily[d][t].max = e.agg[t].max
          <6>1. CASE w.size > a.max
            <7>1. e.daily[w.start][t].max = w.size /\ e.agg[t].max = w.size
              BY <5>2, <5>3, <5>4, <6>1
            <7> QED BY <7>1
          <6>2. CASE ~(w.size > a.max) /\ a.max = 0 BY <5>3, <6>2
          <6>3. CASE ~(w.size > a.max) /\ a.max # 0
            <7>1. PICK d \in Days : c.daily[d][t].max = a.max BY <5>4, <5>8, <6>3
            <7>2. e.daily[d][t].max = a.max BY <5>2, <5>3, <6>3, <7>1
            <7> QED BY <5>3, <6>3, <7>2
          <6> QED BY <6>1, <6>2, <6>3
        <5> QED BY <5>5, <5>6, <5>7, <5>8
      <4> QED BY <4>1, <4>2
    <3> QED BY <3>5 DEF DaysSumUp
  <2>9. PluginsSumUp(e)
    <3>1. PICK f, g : f = CallsOf(c) /\ g = CallsOf(e) OBVIOUS
    <3>2. /\ \A t \in StatTools : f[t] \in Nat
          /\ \A t \in StatTools \ {w.tool} : g[t] = f[t]
          /\ g[w.tool] = f[w.tool] + 1
          /\ DOMAIN f = StatTools /\ DOMAIN g = StatTools
      BY <1>1, <2>6, <2>7, <3>1, CollectionParts DEF CallsOf, AddCall
    <3>3. SumFunctionOnSet(g, StatTools) = SumFunctionOnSet(f, StatTools) + 1
      BY <3>2, FiniteParts, SumGrowsBy
    <3>4. PICK q \in PluginsOfTools : q = StatPlugin[w.tool] BY DEF PluginsOfTools
    <3>5. \A p \in PluginsOfTools : SumFunctionOnSet(f, ToolsOfPlugin(p)) \in Nat
      <4>1. \A p : \A t \in ToolsOfPlugin(p) : f[t] \in Nat BY <3>2, FiniteParts
      <4> QED BY <4>1, FiniteParts, SumIsNat
    <3>6. ASSUME NEW p \in PluginsOfTools \ {q}
          PROVE  SumFunctionOnSet(g, ToolsOfPlugin(p)) = SumFunctionOnSet(f, ToolsOfPlugin(p))
      <4>1. \A t \in ToolsOfPlugin(p) : f[t] \in Nat /\ g[t] = f[t]
        BY <3>2, <3>4 DEF ToolsOfPlugin
      <4> QED BY <4>1, FiniteParts, SumsAgree
    <3>7. SumFunctionOnSet(g, ToolsOfPlugin(q)) = SumFunctionOnSet(f, ToolsOfPlugin(q)) + 1
      <4>1. w.tool \in ToolsOfPlugin(q) BY <3>4 DEF ToolsOfPlugin
      <4>2. /\ \A t \in ToolsOfPlugin(q) : f[t] \in Nat
            /\ \A t \in ToolsOfPlugin(q) \ {w.tool} : g[t] = f[t]
        BY <3>2 DEF ToolsOfPlugin
      <4> QED BY <3>2, <4>1, <4>2, FiniteParts, SumGrowsBy
    <3>8. PICK i, j : i = ByPlugin(c) /\ j = ByPlugin(e) OBVIOUS
    <3>9. \A p \in PluginsOfTools : /\ i[p] = SumFunctionOnSet(f, ToolsOfPlugin(p))
                                    /\ j[p] = SumFunctionOnSet(g, ToolsOfPlugin(p))
      BY <3>1, <3>8 DEF ByPlugin, PluginSummary, CallsOf
    <3>10. SumFunctionOnSet(j, PluginsOfTools) = SumFunctionOnSet(i, PluginsOfTools) + 1
      <4>1. /\ \A p \in PluginsOfTools : i[p] \in Nat
            /\ \A p \in PluginsOfTools \ {q} : j[p] = i[p]
            /\ j[q] = i[q] + 1
        BY <3>5, <3>6, <3>7, <3>9
      <4> QED BY <4>1, FiniteParts, SumGrowsBy
    <3>11. DOMAIN i = PluginsOfTools /\ DOMAIN j = PluginsOfTools
      BY <3>8 DEF ByPlugin
    <3>12. SumFunctionOnSet(i, PluginsOfTools) = SumFunctionOnSet(f, StatTools)
      BY <3>1, <3>2, <3>8, <3>11 DEF Consistent, PluginsSumUp, SumFunction
    <3>13. SumFunctionOnSet(j, PluginsOfTools) = SumFunctionOnSet(g, StatTools)
      BY <3>3, <3>10, <3>12
    <3> QED BY <3>1, <3>2, <3>8, <3>11, <3>13 DEF PluginsSumUp, SumFunction
  <2> QED BY <2>2, <2>5, <2>8, <2>9 DEF Consistent
<1> QED BY <1>2, <1>3, <1>4

(* Whether a collection is consistent depends on nothing that a step changes. *)
LEMMA StaysConsistent ==
  ASSUME retentionDays' = retentionDays
  PROVE  \A c : Consistent(c) => Consistent(c)'
BY DEF Consistent, DaysSumUp, PluginsSumUp, DayCalls, DayTokens, CallsOf, ByPlugin,
       PluginSummary

LEMMA CollectorStarts == StatInit => CollectorInv
<1> SUFFICES ASSUME StatInit PROVE CollectorInv OBVIOUS
<1> USE DEF StatInit
<1>1. Consistent(col) BY EmptyIsConsistent
<1>2. statDisk.kind # "snapshot" BY DEF NoStats, BadStats
<1>3. retentionDays \in Nat /\ today \in Days BY StatAssumption DEF Days
<1>4. DOMAIN recorder = Recorders /\ \A r \in Recorders : recorder[r] = NotRecording
  OBVIOUS
<1> QED BY <1>1, <1>2, <1>3, <1>4 DEF CollectorInv

(* Saving prunes what is in memory and writes that or nothing. *)
LEMMA SavedIsConsistent ==
  ASSUME CollectorInv, SaveLocked, retentionDays' = retentionDays
  PROVE  Consistent(col)' /\ (statDisk.kind = "snapshot" => Consistent(statDisk.col))'
<1>1. Consistent(Pruned(col)) BY PrunedIsConsistent DEF CollectorInv
<1>2. PICK c : c = Pruned(col) OBVIOUS
<1>3. Consistent(c) /\ Consistent(c)' BY <1>1, <1>2, StaysConsistent
<1>4. col' = c BY <1>2 DEF SaveLocked
<1>5. Consistent(col)' BY <1>3, <1>4
<1>6. CASE statDisk' = SnapshotOf(col')
  <2>1. statDisk'.col = c BY <1>4, <1>6 DEF SnapshotOf
  <2> QED BY <1>3, <1>5, <2>1
<1>7. CASE statDisk' = statDisk
  BY <1>5, <1>7, StaysConsistent DEF CollectorInv
<1> QED BY <1>6, <1>7 DEF SaveLocked

LEMMA CollectorKeeps == CollectorInv /\ [StatNext]_statVars => CollectorInv'
<1> SUFFICES ASSUME CollectorInv, [StatNext]_statVars PROVE CollectorInv' OBVIOUS
<1>1. retentionDays' = retentionDays /\ retentionDays \in Nat
  BY DEF CollectorInv, StatNext, statVars, StartStats, TimerFires, TimerSave, CloseFlag,
         CloseFlush, StatsReset, Midnight, Exit, RemovePlugin, Begin, CheckClosed, Commit
<1>2. today' \in Days
  <2>1. today' = today \/ (today < MaxDay /\ today' = today + 1)
    BY DEF StatNext, statVars, StartStats, TimerFires, TimerSave, CloseFlag,
           CloseFlush, StatsReset, Midnight, Exit, RemovePlugin, Begin, CheckClosed, Commit
  <2> QED BY <2>1, StatAssumption DEF CollectorInv, Days
<1> DEFINE Recording == /\ DOMAIN recorder = Recorders
                        /\ \A r \in Recorders : recorder[r] = NotRecording \/ recorder[r] \in Served
           OnDisk == statDisk.kind = "snapshot" => Consistent(statDisk.col)
<1>3. Recording /\ OnDisk /\ Consistent(col) /\ today \in Days BY DEF CollectorInv
<1>4. ASSUME UNCHANGED recorder PROVE Recording' BY <1>3, <1>4
<1>5. ASSUME recorder' = [r \in Recorders |-> NotRecording] PROVE Recording' BY <1>5
<1>6. ASSUME NEW r \in Recorders, NEW v, v = NotRecording \/ v \in Served,
             recorder' = [recorder EXCEPT ![r] = v]
      PROVE  Recording'
  <2>1. DOMAIN recorder' = Recorders BY <1>3, <1>6
  <2>2. \A q \in Recorders : recorder'[q] = IF q = r THEN v ELSE recorder[q]
    BY <1>3, <1>6
  <2> QED BY <1>3, <1>6, <2>1, <2>2
<1>7. ASSUME UNCHANGED statDisk PROVE OnDisk' BY <1>1, <1>3, <1>7, StaysConsistent
<1>8. ASSUME UNCHANGED col PROVE Consistent(col)' BY <1>1, <1>3, <1>8, StaysConsistent
<1>9. ASSUME NEW c, Consistent(c), col' = c PROVE Consistent(col)'
  BY <1>1, <1>9, StaysConsistent
<1>10. ASSUME Recording', OnDisk', Consistent(col)' PROVE CollectorInv'
  BY <1>1, <1>2, <1>10 DEF CollectorInv
<1> HIDE DEF Recording, OnDisk
<1>11. Consistent(EmptyCol) BY EmptyIsConsistent
<1>12. CASE UNCHANGED statVars
  BY <1>4, <1>7, <1>8, <1>10, <1>12 DEF statVars
<1>13. CASE StartStats
  <2>1. Consistent(Load) BY <1>3, <1>11 DEF Load, OnDisk
  <2>2. PICK c : c = Load OBVIOUS
  <2>3. Consistent(col)' BY <1>9, <1>13, <2>1, <2>2 DEF StartStats
  <2> QED BY <1>4, <1>7, <1>10, <1>13, <2>3 DEF StartStats
<1>14. CASE TimerFires \/ CloseFlag \/ Midnight
  BY <1>4, <1>7, <1>8, <1>10, <1>14 DEF TimerFires, CloseFlag, Midnight
<1>15. CASE TimerSave \/ CloseFlush
  <2>1. Consistent(col)' /\ OnDisk'
    BY <1>1, <1>15, SavedIsConsistent DEF TimerSave, CloseFlush, OnDisk
  <2> QED BY <1>4, <1>10, <1>15, <2>1 DEF TimerSave, CloseFlush
<1>16. CASE StatsReset
  <2>1. OnDisk' BY <1>16 DEF StatsReset, NoStats, OnDisk
  <2> QED BY <1>4, <1>8, <1>10, <1>16, <2>1 DEF StatsReset
<1>17. ASSUME NEW crash \in BOOLEAN, Exit(crash) PROVE CollectorInv'
  <2>1. PICK c : c = EmptyCol OBVIOUS
  <2>2. Consistent(col)' BY <1>9, <1>11, <1>17, <2>1 DEF Exit
  <2> QED BY <1>5, <1>7, <1>10, <1>17, <2>2 DEF Exit
<1>18. ASSUME NEW p \in PluginsOfTools, RemovePlugin(p) PROVE CollectorInv'
  <2>1. PICK gone : gone = ToolsOfPlugin(p) OBVIOUS
  <2>2. PICK c : c = [col EXCEPT !.schemas = @ \ gone,
                        !.resources = [t \in StatTools |-> IF t \in gone THEN 0 ELSE @[t]]]
    OBVIOUS
  <2>3. c \in Collections /\ c.agg = col.agg /\ c.daily = col.daily
    <3>1. col \in Collections BY <1>3 DEF Consistent
    <3> QED BY <2>2, <3>1 DEF Collections
  <2>4. Consistent(c) BY <1>3, <2>3, SameTotals
  <2>5. col' = c BY <1>18, <2>1, <2>2 DEF RemovePlugin
  <2>6. Consistent(col)' BY <1>9, <2>4, <2>5
  <2> QED BY <1>4, <1>7, <1>10, <1>18, <2>6 DEF RemovePlugin
<1>19. ASSUME NEW r \in Recorders, Begin(r) PROVE CollectorInv'
  <2>1. PICK w \in StatWork :
          recorder' = [recorder EXCEPT
            ![r] = [pc |-> "serve", kind |-> w.kind, tool |-> w.tool, size |-> w.size,
                    start |-> today]]
    BY <1>19 DEF Begin
  <2>2. PICK v : v = [pc |-> "serve", kind |-> w.kind, tool |-> w.tool, size |-> w.size,
                      start |-> today]
    OBVIOUS
  <2>3. v \in Served BY <1>3, <2>2, StatAssumption DEF Served
  <2>4. Recording' BY <1>6, <2>1, <2>2, <2>3
  <2> QED BY <1>7, <1>8, <1>10, <1>19, <2>4 DEF Begin
<1>20. ASSUME NEW r \in Recorders, CheckClosed(r) PROVE CollectorInv'
  <2>1. recorder[r] \in Served BY <1>3, <1>20 DEF CheckClosed, Recording, NotRecording
  <2>2. PICK v : v = [recorder[r] EXCEPT !.pc = "lock"] OBVIOUS
  <2>3. v \in Served BY <2>1, <2>2 DEF Served
  <2>4. \/ recorder' = [recorder EXCEPT ![r] = v]
        \/ recorder' = [recorder EXCEPT ![r] = NotRecording]
    BY <1>20, <2>2 DEF CheckClosed
  <2>5. PICK n : n = NotRecording OBVIOUS
  <2>6. Recording' BY <1>6, <2>3, <2>4, <2>5
  <2> QED BY <1>7, <1>8, <1>10, <1>20, <2>6 DEF CheckClosed
<1>21. ASSUME NEW r \in Recorders, Commit(r) PROVE CollectorInv'
  <2>1. PICK w : w = recorder[r] OBVIOUS
  <2>2. w \in Served BY <1>3, <1>21, <2>1 DEF Commit, Recording, NotRecording
  <2>3. PICK c : c = Updated(col, w) OBVIOUS
  <2>4. Consistent(c) BY <1>3, <2>2, <2>3, UpdatedIsConsistent
  <2>5. col' = c BY <1>21, <2>1, <2>3 DEF Commit
  <2>6. Consistent(col)' BY <1>9, <2>4, <2>5
  <2>7. PICK n : n = NotRecording OBVIOUS
  <2>8. Recording' BY <1>6, <1>21, <2>7 DEF Commit
  <2> QED BY <1>7, <1>10, <1>21, <2>6, <2>8 DEF Commit
<1> QED
  BY <1>12, <1>13, <1>14, <1>15, <1>16, <1>17, <1>18, <1>19, <1>20, <1>21 DEF StatNext

(* What the invariant says of one collection is that its views agree.      *)
LEMMA ConsistentAgrees ==
  ASSUME NEW c, Consistent(c), retentionDays \in Nat
  PROVE  Agrees(c)
<1>1. c \in Collections /\ DaysSumUp(c) /\ PluginsSumUp(c) BY DEF Consistent
<1>2. {d \in Days : 0 <= d /\ d <= MaxDay} = Days BY StatAssumption DEF Days
<1>3. SumFunction([p \in PluginsOfTools |-> PluginSummary(c, p)])
        = SumFunction([t \in StatTools |-> c.agg[t].calls])
  BY <1>1 DEF PluginsSumUp, ByPlugin, CallsOf
<1>4. ASSUME NEW t \in StatTools, NEW all, all = AggregateDailyRange(c.daily, 0, MaxDay, t)
      PROVE  IF retentionDays = 0 THEN c.agg[t] = all
             ELSE all.calls <= c.agg[t].calls /\ all.max <= c.agg[t].max
  <2>1. PICK maxima : maxima = {0} \cup {c.daily[d][t].max : d \in Days} OBVIOUS
  <2>2. all = [calls |-> SumFunctionOnSet(DayCalls(c, t), Days),
               tokens |-> SumFunctionOnSet(DayTokens(c, t), Days), max |-> Max(maxima)]
    BY <1>2, <1>4, <2>1 DEF AggregateDailyRange, DayCalls, DayTokens
  <2>3. PICK a : a = c.agg[t] OBVIOUS
  <2>4. a = [calls |-> a.calls, tokens |-> a.tokens, max |-> a.max] /\ a.max \in Nat
    BY <1>1, <2>3 DEF Collections, Agg
  <2>5. /\ SumFunctionOnSet(DayCalls(c, t), Days) <= a.calls
        /\ \A d \in Days : c.daily[d][t].max <= a.max
        /\ retentionDays = 0 =>
             /\ a.calls = SumFunctionOnSet(DayCalls(c, t), Days)
             /\ a.tokens = SumFunctionOnSet(DayTokens(c, t), Days)
             /\ a.max = 0 \/ \E d \in Days : c.daily[d][t].max = a.max
    BY <1>1, <2>3 DEF DaysSumUp
  <2>6. maxima \in SUBSET Nat /\ maxima # {} /\ \A m \in maxima : m <= a.max
    BY <1>1, <2>1, <2>4, <2>5, CollectionParts
  <2>7. Max(maxima) \in maxima /\ \A m \in maxima : Max(maxima) >= m
    BY <2>4, <2>6, MaxOf
  <2>8. CASE retentionDays = 0
    <3>1. a.max \in maxima BY <2>1, <2>5, <2>8
    <3>2. Max(maxima) = a.max BY <2>4, <2>6, <2>7, <3>1
    <3> QED BY <2>2, <2>3, <2>4, <2>5, <2>8, <3>2
  <2>9. CASE retentionDays # 0 BY <2>2, <2>3, <2>5, <2>6, <2>7, <2>9
  <2> QED BY <2>8, <2>9
<1> QED BY <1>3, <1>4 DEF Agrees

(* The collector's invariant: what is in memory and what the file holds    *)
(* add up, whatever the goroutines are in the middle of.                   *)
THEOREM CollectorInvariant == StatSpec => []CollectorInv
BY CollectorStarts, CollectorKeeps, PTL DEF StatSpec

(* The totals, the days and the plugins' sums of one collector agree, in   *)
(* memory and in stats.json, in every reachable state.                     *)
THEOREM ViewsAlwaysAgree == StatSpec => []ViewsAgree
<1>1. CollectorInv => ViewsAgree
  BY ConsistentAgrees DEF CollectorInv, ViewsAgree
<1> QED BY <1>1, CollectorInvariant, PTL

-----------------------------------------------------------------------------
(* Discovery: the plan *)

CandidatesUpTo(i) == {Candidates[j] : j \in 1..i}

(* What a scan has collected after i manifests. *)
ScanSound(i, acc) ==
  /\ acc.plugins \subseteq CandidatesUpTo(i)
  /\ \A a, b \in acc.plugins : a.name = b.name => a = b
  /\ \A a \in acc.plugins : <<a.task, a.name>> \in acc.tasks
  /\ \A s, t \in acc.tasks : s[1] = t[1] => s[2] = t[2]
  /\ \A a \in acc.plugins : ~a.user /\ a.group # NoGroup => a.group \in acc.groups
  /\ \A a \in acc.plugins : a.user => a.group \notin acc.groups

NothingScanned == [plugins |-> {}, groups |-> {}, tasks |-> {}]
IsScan(cfg, h, n) ==
  h = [i \in 0..n |-> IF i = 0 THEN NothingScanned
                      ELSE Scan(cfg, h[i - 1], Candidates[i])]

LEMMA CandidateList ==
  /\ Len(Candidates) \in Nat /\ DOMAIN Candidates = 1..Len(Candidates)
BY DiscoveryAssumption

(* One manifest more keeps the collection sound. *)
LEMMA ScanStep ==
  ASSUME NEW cfg, NEW i \in Nat, i + 1 \in DOMAIN Candidates, NEW acc, ScanSound(i, acc)
  PROVE  ScanSound(i + 1, Scan(cfg, acc, Candidates[i + 1]))
<1> DEFINE m == Candidates[i + 1]
<1>1. CandidatesUpTo(i + 1) = CandidatesUpTo(i) \cup {m}
  BY CandidateList DEF CandidatesUpTo
<1>2. \A a \in acc.plugins : a.user => m.user
  <2>1. SUFFICES ASSUME NEW a \in acc.plugins, a.user PROVE m.user OBVIOUS
  <2>2. PICK j \in 1..i : a = Candidates[j] BY <2>1 DEF ScanSound, CandidatesUpTo
  <2>3. j \in DOMAIN Candidates /\ j < i + 1 BY CandidateList
  <2> QED BY <2>1, <2>2, <2>3, DiscoveryAssumption
<1>3. PICK e : e = Scan(cfg, acc, m) OBVIOUS
<1> HIDE DEF m
<1>4. CASE e = acc BY <1>1, <1>3, <1>4 DEF ScanSound, m
<1>5. CASE e # acc
  <2>1. /\ \A a \in acc.plugins : a.name # m.name
        /\ \A t \in acc.tasks : t[1] = m.task => t[2] = m.name
    BY <1>3, <1>5 DEF Scan
  <2>2. /\ e.plugins = IF m.user /\ ~UserMayLoad(acc, m) THEN acc.plugins
                       ELSE acc.plugins \cup {m}
        /\ e.groups = IF m.user \/ m.group = NoGroup THEN acc.groups
                      ELSE acc.groups \cup {m.group}
        /\ e.tasks = acc.tasks \cup {<<m.task, m.name>>}
    BY <1>3, <1>5 DEF Scan
  <2>3. e.plugins \subseteq acc.plugins \cup {m} BY <2>2
  <2>4. e.plugins \subseteq CandidatesUpTo(i + 1) BY <1>1, <2>3 DEF ScanSound
  <2>5. \A a, b \in e.plugins : a.name = b.name => a = b BY <2>1, <2>3 DEF ScanSound
  <2>6. \A a \in e.plugins : <<a.task, a.name>> \in e.tasks BY <2>2, <2>3 DEF ScanSound
  <2>7. \A s, t \in e.tasks : s[1] = t[1] => s[2] = t[2]
    <3>1. PICK own : own = <<m.task, m.name>> OBVIOUS
    <3>2. own[1] = m.task /\ own[2] = m.name BY <3>1
    <3>3. \A t \in e.tasks : t \in acc.tasks \/ t = own BY <2>2, <3>1
    <3> QED BY <2>1, <3>2, <3>3 DEF ScanSound
  <2>8. \A a \in e.plugins : ~a.user /\ a.group # NoGroup => a.group \in e.groups
    BY <2>2, <2>3 DEF ScanSound
  <2>9. \A a \in e.plugins : a.user => a.group \notin e.groups
    <3>1. SUFFICES ASSUME NEW a \in e.plugins, a.user PROVE a.group \notin e.groups
      OBVIOUS
    <3>2. m.user BY <1>2, <2>3, <3>1
    <3>3. e.groups = acc.groups BY <2>2, <3>2
    <3>4. CASE a \in acc.plugins BY <3>1, <3>3, <3>4 DEF ScanSound
    <3>5. CASE a \notin acc.plugins
      <4>1. a = m /\ UserMayLoad(acc, m) BY <2>2, <3>2, <3>5
      <4> QED BY <3>3, <4>1 DEF UserMayLoad
    <3> QED BY <3>4, <3>5
  <2> QED BY <1>3, <2>4, <2>5, <2>6, <2>7, <2>8, <2>9 DEF ScanSound, m
<1> QED BY <1>4, <1>5

LEMMA ScanExists ==
  ASSUME NEW cfg, NEW n \in Nat
  PROVE  \E h : IsScan(cfg, h, n)
<1> DEFINE T == {k \in Nat : \E h : IsScan(cfg, h, k)}
<1>1. 0 \in T
  <2>1. PICK h : h = [i \in 0..0 |-> NothingScanned] OBVIOUS
  <2>2. IsScan(cfg, h, 0) BY <2>1 DEF IsScan
  <2> QED BY <2>2
<1>2. ASSUME NEW k \in T PROVE k + 1 \in T
  <2>1. PICK h : IsScan(cfg, h, k) OBVIOUS
  <2>2. PICK g : g = [i \in 0..(k + 1) |-> IF i = k + 1
                                           THEN Scan(cfg, h[k], Candidates[k + 1]) ELSE h[i]]
    OBVIOUS
  <2>3. \A i \in 0..k : g[i] = h[i] BY <2>2
  <2>4. ASSUME NEW i \in 0..(k + 1)
        PROVE  g[i] = IF i = 0 THEN NothingScanned ELSE Scan(cfg, g[i - 1], Candidates[i])
    <3>1. CASE i = k + 1
      <4>1. g[i] = Scan(cfg, h[k], Candidates[i]) /\ g[i - 1] = h[k] BY <2>2, <2>3, <3>1
      <4> QED BY <3>1, <4>1
    <3>2. CASE i # k + 1 /\ i # 0
      <4>1. i \in 0..k /\ i - 1 \in 0..k BY <3>2
      <4>2. h[i] = Scan(cfg, h[i - 1], Candidates[i]) BY <2>1, <3>2, <4>1 DEF IsScan
      <4> QED BY <2>3, <3>2, <4>1, <4>2
    <3>3. CASE i = 0
      <4>1. h[0] = NothingScanned BY <2>1 DEF IsScan
      <4> QED BY <2>3, <3>3, <4>1
    <3> QED BY <3>1, <3>2, <3>3
  <2>5. g = [i \in 0..(k + 1) |-> IF i = 0 THEN NothingScanned
                                  ELSE Scan(cfg, g[i - 1], Candidates[i])]
    BY <2>2, <2>4
  <2>6. IsScan(cfg, g, k + 1) BY <2>5 DEF IsScan
  <2> QED BY <2>6
<1>3. T = Nat
  <2> HIDE DEF T
  <2>1. T \in SUBSET Nat BY DEF T
  <2> QED BY <1>1, <1>2, <2>1, NatSet
<1> QED BY <1>3

LEMMA DiscoverIsScan ==
  ASSUME NEW cfg
  PROVE  Discover(cfg)
           = (CHOOSE h : IsScan(cfg, h, Len(Candidates)))[Len(Candidates)].plugins
BY DEF Discover, IsScan, NothingScanned

(* What discovery returns: one plugin of a name and of a task id, and no   *)
(* user plugin with a system plugin's group.                               *)
LEMMA DiscoverIsSound ==
  ASSUME NEW cfg
  PROVE  /\ Discover(cfg) \subseteq CandidatesUpTo(Len(Candidates))
         /\ \A a, b \in Discover(cfg) : a # b => a.name # b.name /\ a.task # b.task
         /\ \A a, b \in Discover(cfg) :
              a.user /\ ~b.user => a.group = NoGroup \/ a.group # b.group
<1> DEFINE N == Len(Candidates)
<1>1. N \in Nat BY CandidateList
<1>2. PICK h : h = CHOOSE g : IsScan(cfg, g, N) OBVIOUS
<1>3. IsScan(cfg, h, N) BY <1>1, <1>2, ScanExists
<1> DEFINE T == {i \in Nat : i <= N => ScanSound(i, h[i])}
<1>4. 0 \in T
  <2>1. h[0] = NothingScanned BY <1>1, <1>3 DEF IsScan
  <2>2. ScanSound(0, NothingScanned) BY DEF ScanSound, NothingScanned
  <2> QED BY <2>1, <2>2
<1>5. ASSUME NEW i \in T PROVE i + 1 \in T
  <2>1. SUFFICES ASSUME i + 1 <= N PROVE ScanSound(i + 1, h[i + 1]) OBVIOUS
  <2>2. ScanSound(i, h[i]) BY <1>1, <2>1
  <2>3. h[i + 1] = Scan(cfg, h[i], Candidates[i + 1])
    <3>1. i + 1 \in 0..N /\ i + 1 # 0 /\ (i + 1) - 1 = i BY <1>1, <2>1
    <3> QED BY <1>3, <3>1 DEF IsScan
  <2>4. i + 1 \in DOMAIN Candidates BY <1>1, <2>1, CandidateList
  <2> QED BY <2>2, <2>3, <2>4, ScanStep
<1>6. T = Nat
  <2> HIDE DEF T
  <2>1. T \in SUBSET Nat BY DEF T
  <2> QED BY <1>4, <1>5, <2>1, NatSet
<1>7. PICK ms : ms = Discover(cfg) OBVIOUS
<1>8. PICK acc : acc = h[N] OBVIOUS
<1>9. ScanSound(N, acc) /\ ms = acc.plugins
  BY <1>1, <1>2, <1>6, <1>7, <1>8, DiscoverIsScan
<1> HIDE DEF N
<1>10. ms \subseteq CandidatesUpTo(N) BY <1>9 DEF ScanSound
<1>11. ASSUME NEW a \in ms, NEW b \in ms, a # b PROVE a.name # b.name /\ a.task # b.task
  <2>1. a.name # b.name BY <1>9, <1>11 DEF ScanSound
  <2>2. PICK s, t : s = <<a.task, a.name>> /\ t = <<b.task, b.name>> OBVIOUS
  <2>3. s \in acc.tasks /\ t \in acc.tasks BY <1>9, <2>2 DEF ScanSound
  <2>4. s[1] = a.task /\ s[2] = a.name /\ t[1] = b.task /\ t[2] = b.name BY <2>2
  <2>5. s[1] = t[1] => s[2] = t[2] BY <1>9, <2>3 DEF ScanSound
  <2> QED BY <2>1, <2>4, <2>5
<1>12. ASSUME NEW a \in ms, NEW b \in ms, a.user, ~b.user
       PROVE  a.group = NoGroup \/ a.group # b.group
  BY <1>9, <1>12 DEF ScanSound
<1> QED BY <1>7, <1>10, <1>11, <1>12 DEF N
IsRounds(ms, h, n) ==
  h = [i \in 0..n |-> IF i = 0 THEN {} ELSE LacksDependency(ms, h[i - 1])]

LEMMA LacksGrows ==
  ASSUME NEW ms, NEW S, NEW T, S \subseteq T
  PROVE  /\ LacksDependency(ms, S) \subseteq LacksDependency(ms, T)
         /\ LacksDependency(ms, S) \subseteq NamesOf(ms)
BY DEF LacksDependency

LEMMA RoundsExist ==
  ASSUME NEW ms, NEW n \in Nat
  PROVE  \E h : IsRounds(ms, h, n)
<1> DEFINE T == {k \in Nat : \E h : IsRounds(ms, h, k)}
<1>1. 0 \in T
  <2>1. PICK h : h = [i \in 0..0 |-> {}] OBVIOUS
  <2>2. IsRounds(ms, h, 0) BY <2>1 DEF IsRounds
  <2> QED BY <2>2
<1>2. ASSUME NEW k \in T PROVE k + 1 \in T
  <2>1. PICK h : IsRounds(ms, h, k) OBVIOUS
  <2>2. PICK g : g = [i \in 0..(k + 1) |-> IF i = k + 1 THEN LacksDependency(ms, h[k])
                                           ELSE h[i]]
    OBVIOUS
  <2>3. \A i \in 0..k : g[i] = h[i] BY <2>2
  <2>4. ASSUME NEW i \in 0..(k + 1)
        PROVE  g[i] = IF i = 0 THEN {} ELSE LacksDependency(ms, g[i - 1])
    <3>1. CASE i = k + 1
      <4>1. g[i] = LacksDependency(ms, h[k]) /\ g[i - 1] = h[k] BY <2>2, <2>3, <3>1
      <4> QED BY <3>1, <4>1
    <3>2. CASE i # k + 1 /\ i # 0
      <4>1. i \in 0..k /\ i - 1 \in 0..k BY <3>2
      <4>2. h[i] = LacksDependency(ms, h[i - 1]) BY <2>1, <3>2, <4>1 DEF IsRounds
      <4> QED BY <2>3, <3>2, <4>1, <4>2
    <3>3. CASE i = 0
      <4>1. h[0] = {} BY <2>1 DEF IsRounds
      <4> QED BY <2>3, <3>3, <4>1
    <3> QED BY <3>1, <3>2, <3>3
  <2>5. g = [i \in 0..(k + 1) |-> IF i = 0 THEN {} ELSE LacksDependency(ms, g[i - 1])]
    BY <2>2, <2>4
  <2>6. IsRounds(ms, g, k + 1) BY <2>5 DEF IsRounds
  <2> QED BY <2>6
<1>3. T = Nat
  <2> HIDE DEF T
  <2>1. T \in SUBSET Nat BY DEF T
  <2> QED BY <1>1, <1>2, <2>1, NatSet
<1> QED BY <1>3

LEMMA SkippedIsRounds ==
  ASSUME NEW ms
  PROVE  Skipped(ms) = (CHOOSE h : IsRounds(ms, h, Cardinality(ms)))[Cardinality(ms)]
BY DEF Skipped, IsRounds, LacksDependency

LEMMA NamesAreFinite ==
  ASSUME NEW ms, IsFiniteSet(ms)
  PROVE  IsFiniteSet(NamesOf(ms)) /\ Cardinality(NamesOf(ms)) <= Cardinality(ms)
<1>1. PICK f : f = [m \in ms |-> m.name] OBVIOUS
<1>2. f \in Surjection(ms, NamesOf(ms))
  <2>1. f \in [ms -> NamesOf(ms)] BY <1>1 DEF NamesOf
  <2>2. \A n \in NamesOf(ms) : \E m \in ms : f[m] = n BY <1>1 DEF NamesOf
  <2> QED BY <2>1, <2>2 DEF Surjection
<1> QED BY <1>2, FS_Surjection

(* The rounds of the pre-filter end at the least fixed point: every round  *)
(* that is not the last skips one plugin more, and there are as many       *)
(* rounds as plugins.                                                      *)
LEMMA SkippedIsLeast ==
  ASSUME NEW ms, IsFiniteSet(ms)
  PROVE  /\ LacksDependency(ms, Skipped(ms)) = Skipped(ms)
         /\ \A S : LacksDependency(ms, S) = S => Skipped(ms) \subseteq S
<1> DEFINE N == Cardinality(ms)
<1>1. N \in Nat BY FS_CardinalityType
<1>2. PICK h : h = CHOOSE g : IsRounds(ms, g, N) OBVIOUS
<1>3. IsRounds(ms, h, N) BY <1>1, <1>2, RoundsExist
<1>4. Skipped(ms) = h[N] BY <1>2, SkippedIsRounds
<1>5. h[0] = {} /\ \A i \in Nat : i + 1 <= N => h[i + 1] = LacksDependency(ms, h[i])
  <2>1. h[0] = {} BY <1>1, <1>3 DEF IsRounds
  <2>2. SUFFICES ASSUME NEW i \in Nat, i + 1 <= N
                 PROVE  h[i + 1] = LacksDependency(ms, h[i])
    BY <2>1
  <2>3. i + 1 \in 0..N /\ i + 1 # 0 /\ (i + 1) - 1 = i BY <1>1, <2>2
  <2> QED BY <1>3, <2>3 DEF IsRounds
<1> HIDE DEF N
<1> DEFINE Grows(s) == s \subseteq LacksDependency(ms, s) /\ s \subseteq NamesOf(ms)
           Enough(i) == LacksDependency(ms, h[i]) = h[i] \/ i <= Cardinality(h[i])
           T == {i \in Nat : i <= N => Grows(h[i]) /\ Enough(i)}
<1>6. 0 \in T
  <2>1. Grows(h[0]) BY <1>5
  <2>2. Cardinality(h[0]) = 0 BY <1>5, FS_EmptySet
  <2> QED BY <2>1, <2>2
<1>7. ASSUME NEW i \in T PROVE i + 1 \in T
  <2>1. SUFFICES ASSUME i + 1 <= N PROVE Grows(h[i + 1]) /\ Enough(i + 1) OBVIOUS
  <2>2. Grows(h[i]) /\ Enough(i) BY <1>1, <2>1
  <2>3. PICK a, b : a = h[i] /\ b = h[i + 1] OBVIOUS
  <2>4. b = LacksDependency(ms, a) BY <1>5, <2>1, <2>3
  <2>5. a \subseteq b BY <2>2, <2>3, <2>4
  <2>6. b \subseteq LacksDependency(ms, b) /\ b \subseteq NamesOf(ms)
    BY <2>4, <2>5, LacksGrows
  <2>7. CASE b = a BY <2>3, <2>4, <2>6, <2>7
  <2>8. CASE b # a
    <3>1. i <= Cardinality(a) BY <2>2, <2>3, <2>4, <2>8
    <3>2. IsFiniteSet(b) BY <2>6, NamesAreFinite, FS_Subset
    <3>3. Cardinality(a) < Cardinality(b)
      <4>1. IsFiniteSet(a) /\ Cardinality(a) <= Cardinality(b) BY <2>5, <3>2, FS_Subset
      <4>2. Cardinality(a) # Cardinality(b) BY <2>5, <2>8, <3>2, FS_Subset
      <4>3. Cardinality(a) \in Nat /\ Cardinality(b) \in Nat
        BY <3>2, <4>1, FS_CardinalityType
      <4> QED BY <4>1, <4>2, <4>3
    <3>4. Cardinality(a) \in Nat /\ Cardinality(b) \in Nat
      BY <2>5, <3>2, FS_Subset, FS_CardinalityType
    <3>5. i + 1 <= Cardinality(b) BY <3>1, <3>3, <3>4
    <3> QED BY <2>3, <2>6, <3>5
  <2> QED BY <2>7, <2>8
<1>8. T = Nat
  <2> HIDE DEF T
  <2>1. T \in SUBSET Nat BY DEF T
  <2> QED BY <1>6, <1>7, <2>1, NatSet
<1>9. LacksDependency(ms, h[N]) = h[N]
  <2>1. Grows(h[N]) /\ Enough(N) BY <1>1, <1>8
  <2>2. PICK s : s = h[N] OBVIOUS
  <2>3. CASE N <= Cardinality(s)
    <3>1. IsFiniteSet(NamesOf(ms)) /\ Cardinality(NamesOf(ms)) <= N
      BY NamesAreFinite DEF N
    <3>2. s \subseteq NamesOf(ms) BY <2>1, <2>2
    <3>3. Cardinality(s) = Cardinality(NamesOf(ms))
      <4>1. Cardinality(s) <= Cardinality(NamesOf(ms)) BY <3>1, <3>2, FS_Subset
      <4>2. Cardinality(s) \in Nat /\ Cardinality(NamesOf(ms)) \in Nat
        BY <3>1, <3>2, FS_Subset, FS_CardinalityType
      <4> QED BY <1>1, <2>3, <3>1, <4>1, <4>2
    <3>4. s = NamesOf(ms) BY <3>1, <3>2, <3>3, FS_Subset
    <3>5. LacksDependency(ms, s) \subseteq NamesOf(ms) BY DEF LacksDependency
    <3> QED BY <2>1, <2>2, <3>4, <3>5
  <2> QED BY <2>1, <2>2, <2>3
<1>10. ASSUME NEW S, LacksDependency(ms, S) = S PROVE h[N] \subseteq S
  <2> DEFINE U == {i \in Nat : i <= N => h[i] \subseteq S}
  <2>1. 0 \in U BY <1>5
  <2>2. ASSUME NEW i \in U PROVE i + 1 \in U
    <3>1. SUFFICES ASSUME i + 1 <= N PROVE h[i + 1] \subseteq S OBVIOUS
    <3>2. h[i] \subseteq S BY <1>1, <3>1
    <3>3. h[i + 1] = LacksDependency(ms, h[i]) BY <1>5, <3>1
    <3> QED BY <1>10, <3>2, <3>3, LacksGrows
  <2>3. U = Nat
    <3> HIDE DEF U
    <3>1. U \in SUBSET Nat BY DEF U
    <3> QED BY <2>1, <2>2, <3>1, NatSet
  <2> QED BY <1>1, <2>3
<1> QED BY <1>4, <1>9, <1>10 DEF N

LEMMA FiniteBound ==
  ASSUME NEW F, IsFiniteSet(F), NEW h, \A d \in F : h[d] \in Nat
  PROVE  \E b \in Nat : \A d \in F : h[d] <= b
<1> DEFINE T == {s \in SUBSET F : \E b \in Nat : \A d \in s : h[d] <= b}
<1>1. ASSUME NEW s \in SUBSET F, \A u \in SUBSET s : u # s => u \in T PROVE s \in T
  <2>1. CASE s = {} BY <2>1
  <2>2. CASE s # {}
    <3>1. Pick(s) \in s /\ Left(s) \in T BY <1>1, <2>2, Picked
    <3>2. PICK b \in Nat : \A d \in Left(s) : h[d] <= b BY <3>1
    <3>3. PICK v \in Nat : v = h[Pick(s)] BY <3>1
    <3>4. PICK top \in Nat : b <= top /\ v <= top
      <4>1. CASE b <= v BY <4>1
      <4>2. CASE ~(b <= v) BY <4>2
      <4> QED BY <4>1, <4>2
    <3>5. \A d \in s : d \in Left(s) \/ d = Pick(s) BY DEF Left
    <3>6. \A d \in s : h[d] <= top BY <3>2, <3>3, <3>4, <3>5
    <3> QED BY <3>6
  <2> QED BY <2>1, <2>2
<1>2. T = SUBSET F
  <2> HIDE DEF T
  <2>1. T \in SUBSET (SUBSET F) BY DEF T
  <2> QED BY <1>1, <2>1, SubsetInduction
<1> QED BY <1>2

(* One more than the deepest of finitely many. *)
Deeper(h, F) == Max({0} \cup {h[d] + 1 : d \in F})

LEMMA DeeperIs ==
  ASSUME NEW F, IsFiniteSet(F), NEW h, \A d \in F : h[d] \in Nat
  PROVE  Deeper(h, F) \in Nat /\ \A d \in F : h[d] < Deeper(h, F)
<1>1. PICK b \in Nat : \A d \in F : h[d] <= b BY FiniteBound
<1>2. PICK s : s = {0} \cup {h[d] + 1 : d \in F} OBVIOUS
<1>3. PICK top \in Nat : top = b + 1 OBVIOUS
<1>4. s \in SUBSET Nat /\ s # {} /\ \A y \in s : y <= top BY <1>1, <1>2, <1>3
<1>5. Max(s) \in s /\ \A y \in s : Max(s) >= y BY <1>4, MaxOf
<1>6. Deeper(h, F) = Max(s) /\ Max(s) \in Nat BY <1>2, <1>4, <1>5 DEF Deeper
<1>7. ASSUME NEW d \in F PROVE h[d] < Max(s)
  <2>1. h[d] + 1 \in s BY <1>2
  <2>2. Max(s) >= h[d] + 1 BY <1>5, <2>1
  <2> QED BY <1>6, <2>2
<1> QED BY <1>6, <1>7

IsDepth(ms, names, h, D) ==
  h = [n \in D |-> Deeper(h, DepsOf(ms, n) \cap names)]

(* Where every set of plugins has one that needs none of the others, the   *)
(* levels are defined: a set on which they are, if it is closed under      *)
(* dependencies and lacks a plugin, can be extended by one plugin.         *)
LEMMA DepthExists ==
  ASSUME NEW ms, NEW names, IsFiniteSet(names),
         \A S \in SUBSET names : S # {} => \E n \in S : DepsOf(ms, n) \cap S = {}
  PROVE  \E h : IsDepth(ms, names, h, names) /\ \A n \in names : h[n] \in Nat
<1> DEFINE Needs(n) == DepsOf(ms, n) \cap names
           Leveled(D) == /\ \A n \in D : Needs(n) \subseteq D
                         /\ \E h : IsDepth(ms, names, h, D) /\ \A n \in D : h[n] \in Nat
           Open == {u \in SUBSET names : Leveled(names \ u)}
<1>1. names \in Open
  <2>1. PICK h : h = [n \in {} |-> 0] OBVIOUS
  <2>2. IsDepth(ms, names, h, {}) BY <2>1 DEF IsDepth
  <2>3. names \ names = {} OBVIOUS
  <2>4. Leveled({}) BY <2>2
  <2> QED BY <2>3, <2>4
<1>2. ASSUME NEW u \in Open, u # {} PROVE \E v \in Open : v \subseteq u /\ v # u
  <2>1. PICK D : D = names \ u OBVIOUS
  <2>2. Leveled(D) BY <2>1
  <2>3. PICK h : IsDepth(ms, names, h, D) /\ \A x \in D : h[x] \in Nat BY <2>2
  <2>4. PICK n \in u : DepsOf(ms, n) \cap u = {} BY <1>2
  <2>5. n \in names /\ n \notin D /\ Needs(n) \subseteq D BY <2>1, <2>4
  <2>6. PICK g : g = [x \in D \cup {n} |-> IF x = n THEN Deeper(h, Needs(n)) ELSE h[x]]
    OBVIOUS
  <2>7. \A x \in D : g[x] = h[x] BY <2>5, <2>6
  <2>8. ASSUME NEW F, F \subseteq D PROVE Deeper(g, F) = Deeper(h, F)
    <3>1. {g[d] + 1 : d \in F} = {h[d] + 1 : d \in F} BY <2>7, <2>8
    <3> QED BY <3>1 DEF Deeper
  <2>9. ASSUME NEW x \in D \cup {n} PROVE g[x] = Deeper(g, Needs(x))
    <3>1. CASE x = n
      <4>1. g[n] = Deeper(h, Needs(n)) BY <2>6
      <4>2. PICK F : F = Needs(n) OBVIOUS
      <4> QED BY <2>5, <2>8, <3>1, <4>1, <4>2
    <3>2. CASE x \in D
      <4>1. g[x] = h[x] /\ h[x] = Deeper(h, Needs(x)) BY <2>3, <2>7, <3>2 DEF IsDepth
      <4>2. Needs(x) \subseteq D BY <2>2, <3>2
      <4>3. PICK F : F = Needs(x) OBVIOUS
      <4> QED BY <2>8, <4>1, <4>2, <4>3
    <3> QED BY <3>1, <3>2
  <2>10. IsDepth(ms, names, g, D \cup {n})
    <3>1. g = [x \in D \cup {n} |-> Deeper(g, Needs(x))] BY <2>6, <2>9
    <3> QED BY <3>1 DEF IsDepth
  <2>11. \A x \in D \cup {n} : g[x] \in Nat
    <3>1. PICK F : F = Needs(n) OBVIOUS
    <3>2. IsFiniteSet(F) BY <3>1, FS_Subset
    <3>3. \A d \in F : h[d] \in Nat BY <2>3, <2>5, <3>1
    <3>4. Deeper(h, F) \in Nat BY <3>2, <3>3, DeeperIs
    <3> QED BY <2>3, <2>6, <3>1, <3>4
  <2>12. \A x \in D \cup {n} : Needs(x) \subseteq D \cup {n} BY <2>2, <2>5
  <2>13. PICK E : E = D \cup {n} OBVIOUS
  <2>14. Leveled(E) BY <2>10, <2>11, <2>12, <2>13
  <2>15. names \ (u \ {n}) = E BY <2>1, <2>4, <2>5, <2>13
  <2>16. PICK v : v = u \ {n} OBVIOUS
  <2>17. v \in Open BY <2>14, <2>15, <2>16
  <2>18. v \subseteq u /\ v # u BY <2>4, <2>16
  <2> QED BY <2>17, <2>18
<1>3. {} \in Open
  <2> HIDE DEF Open
  <2> DEFINE T == {s \in SUBSET names : s \in Open => {} \in Open}
  <2>1. ASSUME NEW s \in SUBSET names, \A u \in SUBSET s : u # s => u \in T PROVE s \in T
    <3>1. CASE s = {} BY <3>1
    <3>2. CASE s # {}
      <4>1. SUFFICES ASSUME s \in Open PROVE {} \in Open OBVIOUS
      <4>2. PICK v \in Open : v \subseteq s /\ v # s BY <1>2, <3>2, <4>1
      <4>3. v \in T BY <2>1, <4>2
      <4> QED BY <4>2, <4>3
    <3> QED BY <3>1, <3>2
  <2>2. T = SUBSET names
    <3> HIDE DEF T
    <3>1. T \in SUBSET (SUBSET names) BY DEF T
    <3> QED BY <2>1, <3>1, SubsetInduction
  <2> QED BY <1>1, <2>2
<1>4. names \ {} = names OBVIOUS
<1> QED BY <1>3, <1>4

LEMMA LevelIsDepth ==
  ASSUME NEW ms, NEW names, names = NamesOf(Sorted(ms))
  PROVE  DependencyLevel(ms) = CHOOSE h : IsDepth(ms, names, h, names)
BY DEF DependencyLevel, IsDepth, Deeper

(* Without cycles, a plugin that is started comes after all it needs.      *)
LEMMA LevelsRespectDependencies ==
  ASSUME NEW ms, IsFiniteSet(ms), ~Circular(ms), NEW m \in Sorted(ms), NEW d \in m.deps
  PROVE  /\ d \in DOMAIN DependencyLevel(ms)
         /\ DependencyLevel(ms)[d] < DependencyLevel(ms)[m.name]
<1>1. PICK names : names = NamesOf(Sorted(ms)) OBVIOUS
<1>2. PICK level : level = DependencyLevel(ms) OBVIOUS
<1>3. IsFiniteSet(names)
  <2>1. names \subseteq NamesOf(ms) BY <1>1 DEF NamesOf, Sorted
  <2> QED BY <2>1, NamesAreFinite, FS_Subset
<1>4. \A S \in SUBSET names : S # {} => \E n \in S : DepsOf(ms, n) \cap S = {}
  BY <1>1 DEF Circular
<1>5. PICK h : IsDepth(ms, names, h, names) /\ \A n \in names : h[n] \in Nat
  BY <1>3, <1>4, DepthExists
<1>6. IsDepth(ms, names, level, names) BY <1>1, <1>2, <1>5, LevelIsDepth
<1>7. DOMAIN level = names BY <1>6 DEF IsDepth
<1>8. \A n \in names : level[n] = Deeper(level, DepsOf(ms, n) \cap names)
  BY <1>6 DEF IsDepth
<1>9. \A n \in names : level[n] \in Nat
  <2> DEFINE Bad == {n \in names : level[n] \notin Nat}
  <2>1. SUFFICES ASSUME Bad # {} PROVE FALSE OBVIOUS
  <2>2. PICK n \in Bad : DepsOf(ms, n) \cap Bad = {} BY <1>4, <2>1
  <2>3. PICK F : F = DepsOf(ms, n) \cap names OBVIOUS
  <2>4. IsFiniteSet(F) BY <1>3, <2>3, FS_Subset
  <2>5. \A x \in F : level[x] \in Nat BY <2>2, <2>3
  <2>6. Deeper(level, F) \in Nat BY <2>4, <2>5, DeeperIs
  <2> QED BY <1>8, <2>2, <2>3, <2>6
<1>10. m \in ms /\ m.name \in names /\ m.name \notin Skipped(ms)
  BY <1>1 DEF Sorted, NamesOf
<1>11. d \in DepsOf(ms, m.name) BY <1>10 DEF DepsOf
<1>12. d \in names
  <2>1. m.name \in NamesOf(ms) BY <1>10 DEF NamesOf
  <2>2. d \in NamesOf(ms) /\ d \notin Skipped(ms)
    <3>1. m.name \notin LacksDependency(ms, Skipped(ms)) BY <1>10, SkippedIsLeast
    <3> QED BY <1>11, <2>1, <3>1 DEF LacksDependency
  <2> QED BY <1>1, <2>2 DEF NamesOf, Sorted
<1>13. PICK F : F = DepsOf(ms, m.name) \cap names OBVIOUS
<1>14. level[d] < Deeper(level, F)
  <2>1. IsFiniteSet(F) BY <1>3, <1>13, FS_Subset
  <2>2. (\A x \in F : level[x] \in Nat) /\ d \in F BY <1>9, <1>11, <1>12, <1>13
  <2> QED BY <2>1, <2>2, DeeperIs
<1> QED BY <1>2, <1>7, <1>8, <1>10, <1>12, <1>13, <1>14

LEMMA PlansAreSound == PlanIsSound
<1>1. PICK ms : ms = Discover(cfgFile) OBVIOUS
<1>2. PICK c : c = cfgFile OBVIOUS
<1>3. /\ \A a, b \in ms : a # b => a.name # b.name /\ a.task # b.task
      /\ \A a, b \in ms : (a.user /\ ~b.user) => (a.group = NoGroup \/ a.group # b.group)
      /\ ms \subseteq CandidatesUpTo(Len(Candidates))
  BY <1>1, <1>2, DiscoverIsSound
<1>4. IsFiniteSet(ms)
  <2>1. PICK I : I = 1..Len(Candidates) OBVIOUS
  <2>2. IsFiniteSet(I) BY <2>1, CandidateList, FS_Interval
  <2>3. PICK f : f = [i \in I |-> Candidates[i]] OBVIOUS
  <2>4. f \in Surjection(I, CandidatesUpTo(Len(Candidates)))
    <3>1. f \in [I -> CandidatesUpTo(Len(Candidates))] BY <2>1, <2>3 DEF CandidatesUpTo
    <3>2. \A x \in CandidatesUpTo(Len(Candidates)) : \E i \in I : f[i] = x
      BY <2>1, <2>3 DEF CandidatesUpTo
    <3> QED BY <3>1, <3>2 DEF Surjection
  <2> QED BY <1>3, <2>2, <2>4, FS_Surjection, FS_Subset
<1>5. /\ LacksDependency(ms, Skipped(ms)) = Skipped(ms)
      /\ \A S \in SUBSET Skipped(ms) : LacksDependency(ms, S) = S => S = Skipped(ms)
  BY <1>4, SkippedIsLeast
<1>6. ASSUME ~Circular(ms), NEW m \in Sorted(ms), NEW d \in m.deps
      PROVE  /\ d \in DOMAIN DependencyLevel(ms)
             /\ DependencyLevel(ms)[d] < DependencyLevel(ms)[m.name]
  BY <1>4, <1>6, LevelsRespectDependencies
<1> QED BY <1>1, <1>3, <1>5, <1>6 DEF PlanIsSound

(* Whatever config.yaml selects from the plugin directories, the server's  *)
(* plan is sound: names, task ids and credential groups do not clash, the  *)
(* plugins that are skipped are those that lack a dependency, directly or  *)
(* not, and every plugin starts after all it depends on.                   *)
THEOREM PlansAlwaysSound == DiscoverySpec => []PlanIsSound
BY PlansAreSound, PTL

-----------------------------------------------------------------------------
(* Discovery: the commands that edit config.yaml and the agents' files *)

AgentFiles == [there : BOOLEAN, servers : SUBSET (OurServers \cup {"other"}),
               settings : BOOLEAN]

(* What a command that nobody overlaps leaves in config.yaml. *)
FirstEdit(cmd, d) == Edits(cmd, d, d)[1]
Effect(cmd, d) ==
  IF cmd.op = "only" THEN SetKey(SetKey(d, "enabled", cmd.names), "disabled", {})
  ELSE SetKey(d, FirstEdit(cmd, d).key, FirstEdit(cmd, d).value)

CtlFields(pc) ==
  {"pc", "cmd", "start", "alone"} \cup (IF pc = "decide" THEN {} ELSE {"todo"})
    \cup (IF pc = "rename" THEN {"doc"} ELSE {})

(* Where a command on config.yaml stands, when the file holds cf: at the   *)
(* decision, at its first or second edit, read or about to be renamed.     *)
Deciding(cf, k) == k.pc = "decide" /\ (k.alone => cf = k.start)
FirstRead(cf, k) ==
  /\ k.pc = "read"
  /\ \E now : k.todo = Edits(k.cmd, k.start, now) /\ (k.alone => now = k.start)
  /\ k.alone => cf = k.start
SecondRead(cf, k) ==
  /\ k.pc = "read" /\ k.cmd.op = "only" /\ k.todo = LastEdit("disabled", {})
  /\ k.alone => cf = SetKey(k.start, "enabled", k.cmd.names)
FirstRename(k) ==
  /\ k.pc = "rename" /\ k.cmd.op = "only" /\ k.todo = LastEdit("disabled", {})
  /\ DOMAIN k.doc = ConfigKeys
  /\ k.alone => k.doc = SetKey(k.start, "enabled", k.cmd.names)
LastRename(k) ==
  /\ k.pc = "rename" /\ k.todo = <<>> /\ DOMAIN k.doc = ConfigKeys
  /\ k.alone => k.doc = Effect(k.cmd, k.start)

AgentCommand(k) ==
  /\ k.pc = "rename" /\ k.todo = <<>>
  /\ k.start \in AgentFiles /\ k.doc = AgentEdit(k.start, k.cmd.op)
ConfigCommand(cf, k) ==
  /\ DOMAIN k.start = ConfigKeys
  /\ Deciding(cf, k) \/ FirstRead(cf, k) \/ SecondRead(cf, k) \/ FirstRename(k) \/ LastRename(k)
InCommand(cf, k) ==
  /\ DOMAIN k = CtlFields(k.pc) /\ k.cmd \in CtlCommands /\ k.alone \in BOOLEAN
  /\ k.cmd.op \in Agents => AgentCommand(k)
  /\ k.cmd.op \notin Agents => ConfigCommand(cf, k)

CommandInv ==
  /\ DOMAIN cfgFile = ConfigKeys /\ agentFile \in AgentFiles
  /\ ctl = [c \in Ctls |-> ctl[c]]
  /\ \A c \in Ctls : ctl[c] = Resting \/ InCommand(cfgFile, ctl[c])

LEMMA EditsAre ==
  ASSUME NEW cmd \in CtlCommands, cmd.op \notin Agents, NEW seen, NEW now
  PROVE  /\ cmd.op = "only" => Edits(cmd, seen, now)
                                 = <<Edit("enabled", cmd.names, TRUE), Edit("disabled", {}, FALSE)>>
         /\ cmd.op # "only" => \E e : Edits(cmd, seen, now) = <<e>>
<1>1. cmd.op \in CtlOps \ Agents BY DiscoveryAssumption
<1> QED BY <1>1 DEF CtlOps, Agents, Edits, LastEdit

LEMMA SetKeyIs ==
  ASSUME NEW d, DOMAIN d = ConfigKeys, NEW key, NEW value
  PROVE  /\ DOMAIN SetKey(d, key, value) = ConfigKeys
         /\ \A k \in ConfigKeys :
              SetKey(d, key, value)[k] = IF k = key THEN value ELSE d[k]
BY DEF SetKey

(* The command's effect is what was asked for, and nothing else. *)
LEMMA EffectIsAsked ==
  ASSUME NEW cmd \in CtlCommands, cmd.op \notin Agents, NEW was, DOMAIN was = ConfigKeys
  PROVE  Asked(cmd, was, Effect(cmd, was)) /\ Kept(cmd, was, Effect(cmd, was))
<1>1. cmd.op \in CtlOps \ Agents /\ (cmd.op = "only" => cmd.names # {})
  BY DiscoveryAssumption
<1>2. Shown(was) \subseteq Names
  <2>1. PICK cfg : cfg = [was EXCEPT !.enabled = {}, !.disabled = {}] OBVIOUS
  <2>2. Discover(cfg) \subseteq CandidatesUpTo(Len(Candidates)) BY DiscoverIsSound
  <2>3. NamesOf(CandidatesUpTo(Len(Candidates))) \subseteq Names
    BY CandidateList DEF NamesOf, CandidatesUpTo, Names
  <2> QED BY <2>1, <2>2, <2>3 DEF Shown, NamesOf
<1>3. PICK new : new = Effect(cmd, was) OBVIOUS
<1> DEFINE Changes(key, value) ==
             /\ new[key] = value
             /\ \A k \in ConfigKeys \ {key} : new[k] = was[k]
<1>4. ASSUME NEW key \in ConfigKeys, NEW value, cmd.op # "only",
             Edits(cmd, was, was) = LastEdit(key, value)
      PROVE  Changes(key, value)
  <2>1. new = SetKey(was, key, value) BY <1>3, <1>4 DEF Effect, FirstEdit, LastEdit, Edit
  <2> QED BY <2>1, SetKeyIs
<1> HIDE DEF Changes
<1>5. \A k \in ConfigKeys : k \in {"enabled", "disabled", "userPlugins", "providersOff", "stats"}
  BY DEF ConfigKeys
<1>6. CASE cmd.op = "only"
  <2>1. PICK mid : mid = SetKey(was, "enabled", cmd.names) OBVIOUS
  <2>2. new = SetKey(mid, "disabled", {}) BY <1>3, <1>6, <2>1 DEF Effect
  <2>3. DOMAIN mid = ConfigKeys BY <2>1, SetKeyIs
  <2>4. /\ new.enabled = cmd.names /\ new.userPlugins = was.userPlugins
        /\ new.providersOff = was.providersOff /\ new.stats = was.stats
    <3>1. /\ mid.enabled = cmd.names /\ mid.userPlugins = was.userPlugins
          /\ mid.providersOff = was.providersOff /\ mid.stats = was.stats
      BY <2>1 DEF SetKey, ConfigKeys
    <3> QED BY <2>2, <2>3, <3>1 DEF SetKey, ConfigKeys
  <2> QED BY <1>1, <1>3, <1>6, <2>4 DEF Asked, Kept, SelectedBy, Selected
<1>7. CASE cmd.op = "enable"
  <2>1. \/ was.enabled # {} /\ Changes("enabled", was.enabled \cup cmd.names)
        \/ was.enabled = {} /\ Changes("disabled", was.disabled \ cmd.names)
    BY <1>4, <1>7 DEF Edits, ConfigKeys
  <2> QED BY <1>3, <1>7, <2>1 DEF Asked, Kept, SelectedBy, Selected, Changes, ConfigKeys
<1>8. CASE cmd.op = "disable"
  <2>1. \/ was.enabled # {} /\ Changes("enabled", was.enabled \ cmd.names)
        \/ was.enabled = {} /\ Changes("disabled", was.disabled \cup cmd.names)
    BY <1>4, <1>8 DEF Edits, ConfigKeys
  <2> QED BY <1>3, <1>8, <2>1 DEF Asked, Kept, SelectedBy, Selected, Changes, ConfigKeys
<1>9. CASE cmd.op = "manage"
  <2>1. \/ was.enabled # {} /\ Changes("enabled", cmd.names)
        \/ was.enabled = {} /\ Changes("disabled", Shown(was) \ cmd.names)
    BY <1>4, <1>9 DEF Edits, ConfigKeys
  <2> QED
    BY <1>2, <1>3, <1>9, <2>1 DEF Asked, Kept, SelectedBy, Selected, Changes, ConfigKeys
<1>10. CASE cmd.op = "clear"
  <2>1. Changes("enabled", {}) BY <1>4, <1>10 DEF Edits, ConfigKeys
  <2> QED BY <1>3, <1>10, <2>1 DEF Asked, Kept, Changes, ConfigKeys
<1>11. CASE cmd.op = "user-plugins"
  <2>1. PICK v : v = (cmd.names # {}) OBVIOUS
  <2>2. Changes("userPlugins", v) BY <1>4, <1>11, <2>1 DEF Edits, ConfigKeys
  <2> QED BY <1>3, <1>11, <2>2 DEF Asked, Kept, Changes, ConfigKeys
<1>12. CASE cmd.op \in {"provider-enable", "provider-disable"}
  <2>1. \E v : Changes("providersOff", v) BY <1>4, <1>12 DEF Edits, ConfigKeys
  <2> QED BY <1>3, <1>12, <2>1 DEF Asked, Kept, Changes, ConfigKeys
<1>13. CASE cmd.op = "stats-set"
  <2>1. Changes("stats", cmd.names) BY <1>4, <1>13 DEF Edits, ConfigKeys
  <2> QED BY <1>3, <1>13, <2>1 DEF Asked, Kept, Changes, ConfigKeys
<1> QED
  BY <1>1, <1>6, <1>7, <1>8, <1>9, <1>10, <1>11, <1>12, <1>13 DEF CtlOps, Agents

LEMMA AgentFilesStay ==
  ASSUME NEW f \in AgentFiles, NEW op \in Agents
  PROVE  AgentEdit(f, op) \in AgentFiles /\ AgentAsked(op, f, AgentEdit(f, op))
<1>1. CASE op = "agent-enable"
  <2>1. PICK g : g = [f EXCEPT !.there = TRUE, !.servers = (@ \ OurServers) \cup {"wtmcp"}]
    OBVIOUS
  <2>2. g \in AgentFiles /\ g.servers = (f.servers \ OurServers) \cup {"wtmcp"}
        /\ g.settings = f.settings
    BY <2>1 DEF AgentFiles, OurServers
  <2>3. AgentEdit(f, op) = g BY <1>1, <2>1 DEF AgentEdit
  <2> QED BY <1>1, <2>2, <2>3 DEF AgentAsked, OurServers
<1>2. CASE op = "agent-disable"
  <2>1. PICK g : g = [f EXCEPT !.servers = f.servers \ OurServers] OBVIOUS
  <2>2. /\ g \in AgentFiles /\ g.servers = f.servers \ OurServers
        /\ g.settings = f.settings
    BY <2>1 DEF AgentFiles, OurServers
  <2>3. /\ NoAgentFile \in AgentFiles
        /\ NoAgentFile.servers = {} /\ NoAgentFile.settings = FALSE
    BY DEF NoAgentFile, AgentFiles
  <2>4. \/ AgentEdit(f, op) = f /\ f.servers \cap OurServers = {}
        \/ AgentEdit(f, op) = NoAgentFile /\ f.servers \ OurServers = {} /\ ~f.settings
        \/ AgentEdit(f, op) = g
    BY <1>2, <2>1 DEF AgentEdit
  <2>5. f.settings \in BOOLEAN BY DEF AgentFiles
  <2>6. CASE AgentEdit(f, op) = f /\ f.servers \cap OurServers = {}
    BY <1>2, <2>6 DEF AgentAsked
  <2>7. CASE AgentEdit(f, op) = NoAgentFile /\ f.servers \ OurServers = {} /\ ~f.settings
    <3>1. f.settings = FALSE BY <2>5, <2>7
    <3> QED BY <1>2, <2>3, <2>7, <3>1 DEF AgentAsked
  <2>8. CASE AgentEdit(f, op) = g
    <3>1. g.servers \ OurServers = f.servers \ OurServers BY <2>2
    <3>2. g.servers \cap OurServers = {} BY <2>2
    <3> QED BY <1>2, <2>2, <2>8, <3>1, <3>2 DEF AgentAsked
  <2> QED BY <2>4, <2>6, <2>7, <2>8
<1> QED BY <1>1, <1>2 DEF Agents

(* A command that has been overlapped does not depend on what the file     *)
(* holds.                                                                  *)
LEMMA OverlappedStays ==
  ASSUME NEW cf, NEW other, NEW k, InCommand(cf, k),
         NEW l, l = [k EXCEPT !.alone = FALSE]
  PROVE  InCommand(other, l)
<1>1. /\ DOMAIN l = DOMAIN k /\ l.alone = FALSE /\ l.pc = k.pc /\ l.cmd = k.cmd
      /\ l.start = k.start
      /\ "todo" \in DOMAIN k => l.todo = k.todo
      /\ "doc" \in DOMAIN k => l.doc = k.doc
  BY DEF InCommand, CtlFields
<1>2. DOMAIN l = CtlFields(l.pc) /\ l.cmd \in CtlCommands /\ l.alone \in BOOLEAN
  BY <1>1 DEF InCommand
<1>3. ASSUME l.cmd.op \in Agents PROVE AgentCommand(l)
  <2>1. AgentCommand(k) BY <1>1, <1>3 DEF InCommand
  <2>2. "todo" \in DOMAIN k /\ "doc" \in DOMAIN k
    BY <2>1 DEF AgentCommand, InCommand, CtlFields
  <2> QED BY <1>1, <2>1, <2>2 DEF AgentCommand
<1>4. ASSUME l.cmd.op \notin Agents PROVE ConfigCommand(other, l)
  <2>1. ConfigCommand(cf, k) BY <1>1, <1>4 DEF InCommand
  <2>2. DOMAIN l.start = ConfigKeys BY <1>1, <2>1 DEF ConfigCommand
  <2>3. k.pc # "decide" => "todo" \in DOMAIN k BY DEF InCommand, CtlFields
  <2>4. k.pc = "rename" => "doc" \in DOMAIN k BY DEF InCommand, CtlFields
  <2>5. CASE Deciding(cf, k) BY <1>1, <2>2, <2>5 DEF Deciding, ConfigCommand
  <2>6. CASE FirstRead(cf, k)
    <3>1. FirstRead(other, l) BY <1>1, <2>3, <2>6 DEF FirstRead
    <3> QED BY <2>2, <3>1 DEF ConfigCommand
  <2>7. CASE SecondRead(cf, k)
    <3>1. SecondRead(other, l) BY <1>1, <2>3, <2>7 DEF SecondRead
    <3> QED BY <2>2, <3>1 DEF ConfigCommand
  <2>8. CASE FirstRename(k)
    <3>1. FirstRename(l) BY <1>1, <2>3, <2>4, <2>8 DEF FirstRename
    <3> QED BY <2>2, <3>1 DEF ConfigCommand
  <2>9. CASE LastRename(k)
    <3>1. LastRename(l) BY <1>1, <2>3, <2>4, <2>9 DEF LastRename
    <3> QED BY <2>2, <3>1 DEF ConfigCommand
  <2> QED BY <2>1, <2>5, <2>6, <2>7, <2>8, <2>9 DEF ConfigCommand
<1> QED BY <1>2, <1>3, <1>4 DEF InCommand

LEMMA CommandsStart == DiscoveryInit => CommandInv
<1> SUFFICES ASSUME DiscoveryInit PROVE CommandInv OBVIOUS
<1> USE DEF DiscoveryInit
<1>1. DOMAIN cfgFile = ConfigKeys BY DiscoveryAssumption
<1>2. agentFile \in AgentFiles
  <2>1. NoAgentFile \in AgentFiles BY DEF NoAgentFile, AgentFiles
  <2>2. {"wtmcp-legacy", "other"} \in SUBSET (OurServers \cup {"other"})
    BY DEF OurServers
  <2>3. \A f \in [there : {TRUE}, servers : {{"wtmcp-legacy", "other"}},
                  settings : {FALSE}] : f \in AgentFiles
    BY <2>2 DEF AgentFiles
  <2> QED BY <2>1, <2>3
<1>3. ctl = [c \in Ctls |-> ctl[c]] /\ \A c \in Ctls : ctl[c] = Resting OBVIOUS
<1> QED BY <1>1, <1>2, <1>3 DEF CommandInv

(* A step of one command that leaves config.yaml alone. *)
LEMMA OneMoves ==
  ASSUME CommandInv, NEW c \in Ctls, NEW k, k = Resting \/ InCommand(cfgFile, k),
         ctl' = [ctl EXCEPT ![c] = k], UNCHANGED <<cfgFile, agentFile>>
  PROVE  CommandInv'
<1>1. ctl' = [d \in Ctls |-> IF d = c THEN k ELSE ctl[d]] BY DEF CommandInv
<1>2. \A d \in Ctls : ctl'[d] = Resting \/ InCommand(cfgFile, ctl'[d])
  BY <1>1 DEF CommandInv
<1>3. ctl' = [d \in Ctls |-> ctl'[d]] BY <1>1
<1> QED BY <1>2, <1>3 DEF CommandInv

LEMMA RunKeeps ==
  ASSUME CommandInv, NEW c \in Ctls, RunCommand(c)
  PROVE  CommandInv'
<1>1. PICK cmd \in CtlCommands :
        ctl' = [ctl EXCEPT ![c] =
                 IF cmd.op \in Agents
                 THEN [pc |-> "rename", cmd |-> cmd, start |-> agentFile, alone |-> TRUE,
                       doc |-> AgentEdit(agentFile, cmd.op), todo |-> <<>>]
                 ELSE [pc |-> "decide", cmd |-> cmd, start |-> cfgFile, alone |-> TRUE]]
  BY DEF RunCommand
<1>2. CASE cmd.op \in Agents
  <2>1. PICK k : k = [pc |-> "rename", cmd |-> cmd, start |-> agentFile, alone |-> TRUE,
                      doc |-> AgentEdit(agentFile, cmd.op), todo |-> <<>>]
    OBVIOUS
  <2>2. DOMAIN k = CtlFields(k.pc) /\ k.alone \in BOOLEAN BY <2>1 DEF CtlFields
  <2>3. AgentCommand(k) BY <2>1 DEF AgentCommand, CommandInv
  <2>4. InCommand(cfgFile, k) BY <1>2, <2>1, <2>2, <2>3 DEF InCommand
  <2>5. ctl' = [ctl EXCEPT ![c] = k] BY <1>1, <1>2, <2>1
  <2> QED BY <2>4, <2>5, OneMoves DEF RunCommand
<1>3. CASE cmd.op \notin Agents
  <2>1. PICK k : k = [pc |-> "decide", cmd |-> cmd, start |-> cfgFile, alone |-> TRUE]
    OBVIOUS
  <2>2. DOMAIN k = CtlFields(k.pc) /\ k.alone \in BOOLEAN BY <2>1 DEF CtlFields
  <2>3. Deciding(cfgFile, k) /\ DOMAIN k.start = ConfigKeys
    BY <2>1 DEF Deciding, CommandInv
  <2>4. InCommand(cfgFile, k)
    BY <1>3, <2>1, <2>2, <2>3 DEF InCommand, ConfigCommand
  <2>5. ctl' = [ctl EXCEPT ![c] = k] BY <1>1, <1>3, <2>1
  <2> QED BY <2>4, <2>5, OneMoves DEF RunCommand
<1> QED BY <1>2, <1>3

LEMMA DecideKeeps ==
  ASSUME CommandInv, NEW c \in Ctls, Decide(c)
  PROVE  CommandInv'
<1>1. PICK j : j = ctl[c] OBVIOUS
<1>2. j.pc = "decide" /\ InCommand(cfgFile, j)
  BY <1>1 DEF Decide, CommandInv, Resting
<1>3. j.cmd.op \notin Agents BY <1>2 DEF InCommand, AgentCommand
<1>4. DOMAIN j.start = ConfigKeys /\ Deciding(cfgFile, j)
  BY <1>2, <1>3 DEF InCommand, ConfigCommand, FirstRead, SecondRead, FirstRename, LastRename
<1>5. PICK k : k = [pc |-> "read", cmd |-> j.cmd, start |-> j.start, alone |-> j.alone,
                    todo |-> Edits(j.cmd, j.start, cfgFile)]
  OBVIOUS
<1>6. DOMAIN k = CtlFields(k.pc) BY <1>5 DEF CtlFields
<1>7. FirstRead(cfgFile, k) BY <1>4, <1>5 DEF FirstRead, Deciding
<1>8. InCommand(cfgFile, k)
  BY <1>2, <1>3, <1>4, <1>5, <1>6, <1>7 DEF InCommand, ConfigCommand
<1>9. ctl' = [ctl EXCEPT ![c] = k] BY <1>1, <1>5 DEF Decide, CommandInv
<1> QED BY <1>8, <1>9, OneMoves DEF Decide

LEMMA ReadKeeps ==
  ASSUME CommandInv, NEW c \in Ctls, ReadDoc(c)
  PROVE  CommandInv'
<1>1. PICK j : j = ctl[c] OBVIOUS
<1>2. j.pc = "read" /\ InCommand(cfgFile, j)
  BY <1>1 DEF ReadDoc, CommandInv, Resting
<1>3. j.cmd.op \notin Agents BY <1>2 DEF InCommand, AgentCommand
<1>4. DOMAIN j.start = ConfigKeys /\ (FirstRead(cfgFile, j) \/ SecondRead(cfgFile, j))
  BY <1>2, <1>3 DEF InCommand, ConfigCommand, Deciding, FirstRename, LastRename
<1>5. PICK e : e = Head(j.todo) OBVIOUS
<1>6. PICK k : k = [pc |-> "rename", cmd |-> j.cmd, start |-> j.start, alone |-> j.alone,
                    doc |-> SetKey(cfgFile, e.key, e.value), todo |-> Tail(j.todo)]
  OBVIOUS
<1>7. DOMAIN k = CtlFields(k.pc) BY <1>6 DEF CtlFields
<1>8. DOMAIN k.doc = ConfigKeys BY <1>6, SetKeyIs DEF CommandInv
<1>9. FirstRename(k) \/ LastRename(k)
  <2>1. CASE FirstRead(cfgFile, j)
    <3>1. PICK now : /\ j.todo = Edits(j.cmd, j.start, now)
                     /\ j.alone => now = j.start
      BY <2>1 DEF FirstRead
    <3>2. j.alone => cfgFile = j.start BY <2>1 DEF FirstRead
    <3>3. j.cmd \in CtlCommands BY <1>2 DEF InCommand
    <3>4. CASE j.cmd.op = "only"
      <4>1. j.todo = <<Edit("enabled", j.cmd.names, TRUE), Edit("disabled", {}, FALSE)>>
        BY <1>3, <3>1, <3>3, <3>4, EditsAre
      <4>2. /\ e.key = "enabled" /\ e.value = j.cmd.names
            /\ k.todo = LastEdit("disabled", {})
        <5>1. PICK a, b : /\ a = Edit("enabled", j.cmd.names, TRUE)
                          /\ b = Edit("disabled", {}, FALSE)
          OBVIOUS
        <5>2. j.todo = <<a, b>> BY <4>1, <5>1
        <5>3. Head(j.todo) = a /\ Tail(j.todo) = <<b>> BY <5>2
        <5>4. e = a /\ k.todo = <<b>> BY <1>5, <1>6, <5>3
        <5>5. e.key = "enabled" /\ e.value = j.cmd.names BY <5>1, <5>4 DEF Edit
        <5> QED BY <5>1, <5>4, <5>5 DEF LastEdit
      <4>3. FirstRename(k) BY <1>6, <1>8, <3>2, <3>4, <4>2 DEF FirstRename
      <4> QED BY <4>3
    <3>5. CASE j.cmd.op # "only"
      <4>1. PICK f : Edits(j.cmd, j.start, now) = <<f>> BY <1>3, <3>3, <3>5, EditsAre
      <4>2. e = f /\ k.todo = <<>> BY <1>5, <1>6, <3>1, <4>1
      <4>3. j.alone => FirstEdit(j.cmd, j.start) = f
        BY <3>1, <4>1 DEF FirstEdit
      <4>4. j.alone => k.doc = Effect(j.cmd, j.start)
        BY <1>6, <3>2, <3>5, <4>2, <4>3 DEF Effect
      <4>5. LastRename(k) BY <1>6, <1>8, <4>2, <4>4 DEF LastRename
      <4> QED BY <4>5
    <3> QED BY <3>4, <3>5
  <2>2. CASE SecondRead(cfgFile, j)
    <3>1. e.key = "disabled" /\ e.value = {} /\ k.todo = <<>>
      BY <1>5, <1>6, <2>2 DEF SecondRead, LastEdit, Edit
    <3>2. j.alone => k.doc = Effect(j.cmd, j.start)
      BY <1>6, <2>2, <3>1 DEF SecondRead, Effect
    <3>3. LastRename(k) BY <1>6, <1>8, <3>1, <3>2 DEF LastRename
    <3> QED BY <3>3
  <2> QED BY <1>4, <2>1, <2>2
<1>10. InCommand(cfgFile, k)
  BY <1>2, <1>3, <1>4, <1>6, <1>7, <1>9 DEF InCommand, ConfigCommand
<1>11. ctl' = [ctl EXCEPT ![c] = k] BY <1>1, <1>5, <1>6 DEF ReadDoc, CommandInv
<1> QED BY <1>10, <1>11, OneMoves DEF ReadDoc

LEMMA RenameKeeps ==
  ASSUME CommandInv, NEW c \in Ctls, Rename(c)
  PROVE  CommandInv'
<1>1. PICK j : j = ctl[c] OBVIOUS
<1>2. j.pc = "rename" /\ InCommand(cfgFile, j)
  BY <1>1 DEF Rename, CommandInv, Resting
<1>3. PICK others : others = {d \in Ctls \ {c} : /\ ctl[d] # Resting
                                                 /\ (ctl[d].cmd.op \in Agents)
                                                      = (j.cmd.op \in Agents)}
  OBVIOUS
<1>4. ctl' = Renamed(c, others) BY <1>1, <1>3 DEF Rename
<1>5. ctl' = [d \in Ctls |-> ctl'[d]] BY <1>4 DEF Renamed
<1>6. /\ \A d \in others : ctl'[d] = [ctl[d] EXCEPT !.alone = FALSE]
      /\ \A d \in (Ctls \ {c}) \ others : ctl'[d] = ctl[d]
      /\ ctl'[c] = IF j.todo = <<>> THEN Resting
                   ELSE [pc |-> "read", cmd |-> j.cmd, start |-> j.start,
                         alone |-> j.alone, todo |-> j.todo]
  BY <1>1, <1>3, <1>4 DEF Renamed
<1>7. ASSUME NEW d \in others PROVE InCommand(cfgFile', ctl'[d])
  <2>1. PICK k, l : k = ctl[d] /\ l = ctl'[d] OBVIOUS
  <2>2. InCommand(cfgFile, k) BY <1>3, <2>1 DEF CommandInv
  <2>3. l = [k EXCEPT !.alone = FALSE] BY <1>6, <2>1
  <2>4. PICK cf : cf = cfgFile' OBVIOUS
  <2> QED BY <2>1, <2>2, <2>3, <2>4, OverlappedStays
<1>8. CASE j.cmd.op \in Agents
  <2>1. agentFile' = j.doc /\ cfgFile' = cfgFile BY <1>1, <1>8 DEF Rename
  <2>2. AgentCommand(j) BY <1>2, <1>8 DEF InCommand
  <2>3. agentFile' \in AgentFiles BY <1>8, <2>1, <2>2, AgentFilesStay DEF AgentCommand
  <2>4. ctl'[c] = Resting BY <1>6, <2>2 DEF AgentCommand
  <2>5. \A d \in (Ctls \ {c}) \ others : ctl'[d] = Resting \/ InCommand(cfgFile', ctl'[d])
    BY <1>6, <2>1 DEF CommandInv
  <2>6. \A d \in Ctls : ctl'[d] = Resting \/ InCommand(cfgFile', ctl'[d])
    BY <1>7, <2>4, <2>5
  <2> QED BY <1>5, <2>1, <2>3, <2>6 DEF CommandInv
<1>9. CASE j.cmd.op \notin Agents
  <2>1. cfgFile' = j.doc /\ agentFile' = agentFile BY <1>1, <1>9 DEF Rename
  <2>2. DOMAIN j.start = ConfigKeys /\ (FirstRename(j) \/ LastRename(j))
    BY <1>2, <1>9 DEF InCommand, ConfigCommand, Deciding, FirstRead, SecondRead
  <2>3. DOMAIN cfgFile' = ConfigKeys BY <2>1, <2>2 DEF FirstRename, LastRename
  <2>4. ctl'[c] = Resting \/ InCommand(cfgFile', ctl'[c])
    <3>1. CASE LastRename(j) BY <1>6, <3>1 DEF LastRename
    <3>2. CASE FirstRename(j)
      <4>1. j.todo # <<>> BY <3>2 DEF FirstRename, LastEdit
      <4>2. PICK k : k = [pc |-> "read", cmd |-> j.cmd, start |-> j.start,
                          alone |-> j.alone, todo |-> j.todo]
        OBVIOUS
      <4>3. ctl'[c] = k BY <1>6, <4>1, <4>2
      <4>4. PICK cf : cf = cfgFile' OBVIOUS
      <4>5. SecondRead(cf, k) BY <2>1, <3>2, <4>2, <4>4 DEF SecondRead, FirstRename
      <4>6. DOMAIN k = CtlFields(k.pc) BY <4>2 DEF CtlFields
      <4>7. InCommand(cf, k)
        BY <1>2, <1>9, <2>2, <4>2, <4>5, <4>6 DEF InCommand, ConfigCommand
      <4> QED BY <4>3, <4>4, <4>7
    <3> QED BY <2>2, <3>1, <3>2
  <2>5. ASSUME NEW d \in (Ctls \ {c}) \ others
        PROVE  ctl'[d] = Resting \/ InCommand(cfgFile', ctl'[d])
    <3>1. PICK k : k = ctl[d] OBVIOUS
    <3>2. k = Resting \/ (InCommand(cfgFile, k) /\ k.cmd.op \in Agents)
      BY <1>3, <1>9, <3>1 DEF CommandInv
    <3>3. PICK cf, now : cf = cfgFile' /\ now = cfgFile OBVIOUS
    <3>4. k = Resting \/ InCommand(cf, k) BY <3>2, <3>3 DEF InCommand
    <3> QED BY <1>6, <3>1, <3>3, <3>4
  <2>6. \A d \in Ctls : ctl'[d] = Resting \/ InCommand(cfgFile', ctl'[d])
    BY <1>7, <2>4, <2>5
  <2> QED BY <1>5, <2>1, <2>3, <2>6 DEF CommandInv
<1> QED BY <1>8, <1>9

LEMMA CommandsKeep == CommandInv /\ [DiscoveryNext]_discoveryVars => CommandInv'
<1> SUFFICES ASSUME CommandInv, [DiscoveryNext]_discoveryVars PROVE CommandInv' OBVIOUS
<1>1. ASSUME NEW c \in Ctls, Abandon(c) PROVE CommandInv'
  <2>1. PICK k : k = Resting OBVIOUS
  <2>2. ctl' = [ctl EXCEPT ![c] = k] BY <1>1, <2>1 DEF Abandon, Ended
  <2> QED BY <1>1, <2>1, <2>2, OneMoves DEF Abandon
<1>2. CASE UNCHANGED discoveryVars BY <1>2 DEF discoveryVars, CommandInv
<1> QED
  BY <1>1, <1>2, RunKeeps, DecideKeeps, ReadKeeps, RenameKeeps DEF DiscoveryNext

THEOREM CommandInvariant == DiscoverySpec => []CommandInv
BY CommandsStart, CommandsKeep, PTL DEF DiscoverySpec

(* The last rename of a command that no other command overlapped has the   *)
(* effect that was asked for on what the server will select, and changes   *)
(* nothing else.                                                           *)
THEOREM CommandsTakeEffect == DiscoverySpec => CommandTakesEffect
<1> DEFINE Promise ==
      \A c \in Ctls :
        (ctl[c].pc = "rename" /\ Rename(c) /\ ctl'[c] = Resting /\ ctl[c].alone) =>
          IF ctl[c].cmd.op \in Agents
          THEN AgentAsked(ctl[c].cmd.op, ctl[c].start, agentFile')
          ELSE /\ Asked(ctl[c].cmd, ctl[c].start, cfgFile')
               /\ Kept(ctl[c].cmd, ctl[c].start, cfgFile')
<1>1. ASSUME CommandInv, NEW c \in Ctls, ctl[c].pc = "rename", Rename(c),
             ctl'[c] = Resting, ctl[c].alone
      PROVE  IF ctl[c].cmd.op \in Agents
             THEN AgentAsked(ctl[c].cmd.op, ctl[c].start, agentFile')
             ELSE /\ Asked(ctl[c].cmd, ctl[c].start, cfgFile')
                  /\ Kept(ctl[c].cmd, ctl[c].start, cfgFile')
  <2>1. PICK j : j = ctl[c] OBVIOUS
  <2>2. InCommand(cfgFile, j) /\ j.pc = "rename" /\ j.alone
    BY <1>1, <2>1 DEF CommandInv, Resting
  <2>3. CASE j.cmd.op \in Agents
    <3>1. AgentCommand(j) BY <2>2, <2>3 DEF InCommand
    <3>2. agentFile' = AgentEdit(j.start, j.cmd.op)
      BY <1>1, <2>1, <2>3, <3>1 DEF Rename, AgentCommand
    <3>3. AgentAsked(j.cmd.op, j.start, AgentEdit(j.start, j.cmd.op))
      BY <2>3, <3>1, AgentFilesStay DEF AgentCommand
    <3> QED BY <2>1, <2>3, <3>2, <3>3
  <2>4. CASE j.cmd.op \notin Agents
    <3>1. DOMAIN j.start = ConfigKeys /\ (FirstRename(j) \/ LastRename(j))
      BY <2>2, <2>4 DEF InCommand, ConfigCommand, Deciding, FirstRead, SecondRead
    <3>2. j.todo = <<>>
      <4>1. SUFFICES ASSUME j.todo # <<>> PROVE FALSE OBVIOUS
      <4>2. ctl'[c] = [pc |-> "read", cmd |-> j.cmd, start |-> j.start,
                       alone |-> j.alone, todo |-> j.todo]
        BY <1>1, <2>1, <4>1 DEF Rename, Renamed
      <4> QED BY <1>1, <4>2 DEF Resting
    <3>3. LastRename(j) BY <3>1, <3>2 DEF FirstRename, LastEdit
    <3>4. PICK cf : cf = cfgFile' OBVIOUS
    <3>5. cf = Effect(j.cmd, j.start)
      BY <1>1, <2>1, <2>2, <2>4, <3>3, <3>4 DEF Rename, LastRename
    <3>6. Asked(j.cmd, j.start, cf) /\ Kept(j.cmd, j.start, cf)
      BY <2>2, <2>4, <3>1, <3>5, EffectIsAsked DEF InCommand
    <3> QED BY <2>1, <2>4, <3>4, <3>6
  <2> QED BY <2>1, <2>3, <2>4
<1>2. CommandInv /\ [DiscoveryNext]_discoveryVars => [Promise]_discoveryVars
  <2>1. CommandInv => Promise BY <1>1
  <2> QED BY <2>1
<1> QED BY <1>2, CommandInvariant, PTL DEF DiscoverySpec, CommandTakesEffect

-----------------------------------------------------------------------------
(* DocWriter: sequences, and results that are built one after the other *)

(* Three sequences in a row. *)
InARow(a, b, c) == (a \o b) \o c = a \o (b \o c)
LEMMA AllInARow ==
  ASSUME NEW S, NEW a \in Seq(S), NEW b \in Seq(S), NEW c \in Seq(S)
  PROVE  InARow(a, b, c)
BY ConcatAssociative DEF InARow

(* A sequence is numbered from 1. *)
Numbered(s, n) == n = Len(s) /\ DOMAIN s = 1..n
LEMMA AllNumbered ==
  ASSUME NEW S, NEW s \in Seq(S)
  PROVE  \E n \in Nat : Numbered(s, n)
BY LenProperties DEF Numbered

LEMMA SumsAreNumbers ==
  ASSUME NEW cur \in Nat, NEW t0 \in Int, NEW size \in Nat, NEW bare \in Nat, NEW grown \in Nat
  PROVE  cur + size \in Nat /\ t0 + grown - bare \in Int
OBVIOUS

(* Where a run of text ends, and where the tabs not counted in it leave it. *)
LEMMA EndsBehind ==
  ASSUME NEW cur \in Nat, NEW t0 \in Int, NEW size \in Nat, NEW bare \in Nat, NEW grown \in Nat,
         NEW lo \in Nat, NEW p \in Nat, p + 1 <= lo, cur >= lo, cur - t0 >= lo, size >= grown
  PROVE  /\ cur + size >= lo
         /\ (cur + size) - (t0 + grown - bare) >= lo
         /\ grown <= bare + 1 => cur - (t0 + grown - bare) >= p
OBVIOUS

(* What holds of the m-th result and is kept from then on holds of all. *)
LEMMA FromOneToNext ==
  ASSUME NEW n \in Nat, NEW m \in 0..n, NEW T, m \in T,
         \A k \in (m + 1)..n : k - 1 \in T => k \in T
  PROVE  \A k \in m..n : k \in T
<1> DEFINE U == {k \in Nat : m + k <= n => m + k \in T}
<1>1. 0 \in U OBVIOUS
<1>2. ASSUME NEW k \in U PROVE k + 1 \in U
  <2> SUFFICES ASSUME m + (k + 1) <= n PROVE m + (k + 1) \in T OBVIOUS
  <2>1. m + k \in T BY <1>2
  <2>2. PICK i : i = m + (k + 1) OBVIOUS
  <2>3. i \in (m + 1)..n /\ i - 1 = m + k BY <1>2, <2>2
  <2>4. i \in T BY <2>1, <2>3
  <2> QED BY <2>2, <2>4
<1>3. U = Nat
  <2> HIDE DEF U
  <2>1. U \in SUBSET Nat BY DEF U
  <2> QED BY <1>1, <1>2, <2>1, NatSet
<1>4. ASSUME NEW k \in m..n PROVE k \in T
  <2>1. k - m \in Nat /\ m + (k - m) = k BY <1>4
  <2>2. k - m \in U BY <1>3, <2>1
  <2> QED BY <1>4, <2>1, <2>2
<1> QED BY <1>4

(* If every step ends in X, there is a sequence of results. *)
StepFuns(X, n) == [1..n -> [X -> X]]
Results(f, X, b, n, h) ==
  f \in [0..n -> X] /\ f[0] = b /\ \A k \in 1..n : f[k] = h[k][f[k - 1]]
LEMMA StepsAreMade ==
  ASSUME NEW X, NEW b \in X, NEW n \in Nat, NEW h \in StepFuns(X, n)
  PROVE  \E f : Results(f, X, b, n, h)
<1> DEFINE Made(f, m) == f[0] = b /\ \A k \in 1..m : f[k] = h[k][f[k - 1]]
           T == {m \in 0..n : \E f \in [0..m -> X] : Made(f, m)}
<1> USE DEF StepFuns
<1>1. 0 \in T
  <2>1. PICK f : f = [k \in 0..0 |-> b] OBVIOUS
  <2>2. f \in [0..0 -> X] /\ f[0] = b BY <2>1
  <2> QED BY <2>2
<1>2. ASSUME NEW k \in 1..n, k - 1 \in T PROVE k \in T
  <2>1. PICK f \in [0..(k - 1) -> X] : Made(f, k - 1) BY <1>2
  <2>2. PICK g : g = [i \in 0..k |-> IF i = k THEN h[k][f[k - 1]] ELSE f[i]] OBVIOUS
  <2>3. \A i \in 0..(k - 1) : g[i] = f[i] /\ f[i] \in X BY <2>2
  <2>4. g[k] = h[k][g[k - 1]] /\ g[k] \in X
    <3>1. k - 1 \in 0..(k - 1) /\ k \in 0..k /\ k \in 1..n OBVIOUS
    <3>2. g[k - 1] = f[k - 1] /\ f[k - 1] \in X BY <2>3, <3>1
    <3>3. g[k] = h[k][f[k - 1]] BY <2>2, <3>1
    <3>4. h[k][f[k - 1]] \in X BY <3>1, <3>2
    <3> QED BY <3>2, <3>3, <3>4
  <2>5. ASSUME NEW i \in 1..k PROVE g[i] = h[i][g[i - 1]]
    <3>1. CASE i = k BY <2>4, <3>1
    <3>2. CASE i # k
      <4>1. i \in 1..(k - 1) /\ i \in 0..(k - 1) /\ i - 1 \in 0..(k - 1) BY <3>2
      <4>2. f[i] = h[i][f[i - 1]] BY <2>1, <4>1
      <4> QED BY <2>3, <4>1, <4>2
    <3> QED BY <3>1, <3>2
  <2>6. g[0] = b BY <2>1, <2>3
  <2>7. g \in [0..k -> X]
    <3>1. ASSUME NEW i \in 0..k PROVE g[i] \in X
      <4>1. i \in 0..(k - 1) \/ i = k OBVIOUS
      <4> QED BY <2>3, <2>4, <4>1
    <3> QED BY <2>2, <3>1
  <2>8. Made(g, k) BY <2>5, <2>6
  <2>9. k \in 0..n OBVIOUS
  <2> HIDE DEF Made
  <2> QED BY <2>7, <2>8, <2>9
<1>3. \A k \in 0..n : k \in T
  <2>1. PICK U : U = T OBVIOUS
  <2> HIDE DEF T
  <2>2. 0 \in U /\ 0 \in 0..n BY <1>1, <2>1
  <2>3. \A k \in (0 + 1)..n : k - 1 \in U => k \in U BY <1>2, <2>1
  <2>4. \A k \in 0..n : k \in U BY <2>2, <2>3, FromOneToNext
  <2> QED BY <2>1, <2>4
<1>4. n \in T BY <1>3
<1> QED BY <1>4 DEF Results

-----------------------------------------------------------------------------
(* What a request leaves alone *)

IsDoc(d) == \E S : d \in Seq(S)
(* e is a document that begins with the first m units of d. *)
SameUpTo(d, e, m) == IsDoc(e) /\ Len(e) >= m /\ \A i \in 1..m : e[i] = d[i]
IsNewline(u) == "g" \in DOMAIN u /\ u.g = "nl"

LEMMA DocLen ==
  ASSUME NEW d, IsDoc(d)
  PROVE  Len(d) \in Nat /\ DOMAIN d = 1..Len(d) /\ d = [i \in 1..Len(d) |-> d[i]]
BY DEF IsDoc

(* A document changed in place. *)
LEMMA SameShape ==
  ASSUME NEW d, IsDoc(d), NEW e, e = [i \in DOMAIN d |-> e[i]]
  PROVE  IsDoc(e) /\ Len(e) = Len(d)
<1>1. Len(d) \in Nat /\ DOMAIN d = 1..Len(d) BY DocLen
<1>2. PICK S : S = {e[i] : i \in DOMAIN d} OBVIOUS
<1>3. e \in [1..Len(d) -> S] BY <1>1, <1>2
<1>4. e \in Seq(S) /\ Len(e) = Len(d) BY <1>1, <1>3
<1> QED BY <1>4 DEF IsDoc

LEMMA InsertKeeps ==
  ASSUME NEW d, IsDoc(d), NEW us, IsDoc(us), NEW i \in Nat, NEW m \in Nat, m < i
  PROVE  /\ SameUpTo(d, InsertUnits(d, i, us), m)
         /\ us # <<>> => Len(InsertUnits(d, i, us)) >= i /\ InsertUnits(d, i, us)[i] = us[1]
<1>1. Len(d) \in Nat /\ Len(us) \in Nat /\ DOMAIN us = 1..Len(us) BY DocLen
<1>2. PICK S : S = {d[k] : k \in Int} \cup {us[k] : k \in DOMAIN us} OBVIOUS
<1>3. PICK a : a = SubSeq(d, 1, i - 1) OBVIOUS
<1>4. PICK c : c = SubSeq(d, i, Len(d)) OBVIOUS
<1>5. a \in Seq(S) /\ Len(a) = i - 1 /\ \A k \in 1..(i - 1) : a[k] = d[k]
  <2>1. \A k \in 1..(i - 1) : d[k] \in S BY <1>2
  <2>2. 1 \in Int /\ i - 1 \in Int OBVIOUS
  <2>3. /\ SubSeq(d, 1, i - 1) \in Seq(S)
        /\ Len(SubSeq(d, 1, i - 1)) = IF 1 <= i - 1 THEN (i - 1) - 1 + 1 ELSE 0
        /\ \A k \in 1..((i - 1) - 1 + 1) : SubSeq(d, 1, i - 1)[k] = d[1 + k - 1]
    BY <2>1, <2>2, SubSeqProperties
  <2> QED BY <1>3, <2>3
<1>6. c \in Seq(S)
  <2>1. \A k \in i..Len(d) : d[k] \in S BY <1>1, <1>2
  <2> QED BY <1>1, <1>4, <2>1, SubSeqProperties
<1>7. us \in Seq(S)
  <2>1. us = [k \in 1..Len(us) |-> us[k]] BY DocLen
  <2>2. us \in [1..Len(us) -> S] BY <1>1, <1>2, <2>1
  <2> QED BY <1>1, <2>2
<1>8. PICK b : b = a \o us OBVIOUS
<1>9. /\ b \in Seq(S) /\ Len(b) = (i - 1) + Len(us)
      /\ \A k \in 1..Len(b) : b[k] = IF k <= i - 1 THEN a[k] ELSE us[k - (i - 1)]
  <2>1. /\ a \o us \in Seq(S) /\ Len(a \o us) = Len(a) + Len(us)
        /\ \A k \in 1..(Len(a) + Len(us)) :
             (a \o us)[k] = IF k <= Len(a) THEN a[k] ELSE us[k - Len(a)]
    BY <1>5, <1>7, ConcatProperties
  <2> QED BY <1>5, <1>8, <2>1
<1>10. PICK e : e = b \o c OBVIOUS
<1>11. /\ e \in Seq(S) /\ Len(e) = Len(b) + Len(c) /\ Len(c) \in Nat
       /\ \A k \in 1..Len(b) : e[k] = b[k]
  <2>1. Len(c) \in Nat /\ Len(b) \in Nat BY <1>6, <1>9
  <2>2. \A k \in 1..(Len(b) + Len(c)) : e[k] = IF k <= Len(b) THEN b[k] ELSE c[k - Len(b)]
    BY <1>6, <1>9, <1>10, ConcatProperties
  <2>3. \A k \in 1..Len(b) : k \in 1..(Len(b) + Len(c)) BY <2>1
  <2> QED BY <1>6, <1>9, <1>10, <2>1, <2>2, <2>3, ConcatProperties
<1>12. e = InsertUnits(d, i, us) BY <1>3, <1>4, <1>8, <1>10 DEF InsertUnits
<1>13. ASSUME NEW k \in 1..m PROVE e[k] = d[k]
  <2>1. k \in 1..(i - 1) /\ k \in 1..Len(b) BY <1>1, <1>9
  <2> QED BY <1>5, <1>9, <1>11, <2>1
<1>14. us # <<>> => Len(e) >= i /\ e[i] = us[1]
  <2> SUFFICES ASSUME us # <<>> PROVE Len(e) >= i /\ e[i] = us[1] OBVIOUS
  <2>1. Len(us) >= 1 BY <1>1, <1>7
  <2>2. i \in 1..Len(b) /\ i - (i - 1) = 1 /\ ~(i <= i - 1) BY <1>1, <1>9, <2>1
  <2>3. b[i] = us[1] /\ e[i] = b[i] BY <1>9, <1>11, <2>2
  <2>4. Len(b) \in Nat BY <1>9
  <2> QED BY <1>11, <2>2, <2>3, <2>4
<1>15. Len(e) >= m BY <1>1, <1>9, <1>11
<1> QED BY <1>11, <1>12, <1>13, <1>14, <1>15 DEF SameUpTo, IsDoc

LEMMA DeleteKeeps ==
  ASSUME NEW d, IsDoc(d), NEW i \in Nat, NEW j \in Nat, NEW m \in Nat, m < i
  PROVE  SameUpTo(d, SubSeq(d, 1, i - 1) \o SubSeq(d, j, Len(d)), m)
<1>1. Len(d) \in Nat BY DocLen
<1>2. PICK S : S = {d[k] : k \in Int} OBVIOUS
<1>3. PICK a : a = SubSeq(d, 1, i - 1) OBVIOUS
<1>4. PICK c : c = SubSeq(d, j, Len(d)) OBVIOUS
<1>5. a \in Seq(S) /\ Len(a) = i - 1 /\ \A k \in 1..(i - 1) : a[k] = d[k]
  <2>1. \A k \in 1..(i - 1) : d[k] \in S BY <1>2
  <2>2. 1 \in Int /\ i - 1 \in Int OBVIOUS
  <2>3. /\ SubSeq(d, 1, i - 1) \in Seq(S)
        /\ Len(SubSeq(d, 1, i - 1)) = IF 1 <= i - 1 THEN (i - 1) - 1 + 1 ELSE 0
        /\ \A k \in 1..((i - 1) - 1 + 1) : SubSeq(d, 1, i - 1)[k] = d[1 + k - 1]
    BY <2>1, <2>2, SubSeqProperties
  <2> QED BY <1>3, <2>3
<1>6. c \in Seq(S) /\ Len(c) \in Nat
  <2>1. \A k \in j..Len(d) : d[k] \in S BY <1>1, <1>2
  <2>2. c \in Seq(S) BY <1>1, <1>4, <2>1, SubSeqProperties
  <2> QED BY <2>2
<1>7. PICK e : e = a \o c OBVIOUS
<1>8. /\ e \in Seq(S) /\ Len(e) = (i - 1) + Len(c)
      /\ \A k \in 1..((i - 1) + Len(c)) : e[k] = IF k <= i - 1 THEN a[k] ELSE c[k - (i - 1)]
  <2>1. /\ a \o c \in Seq(S) /\ Len(a \o c) = Len(a) + Len(c)
        /\ \A k \in 1..(Len(a) + Len(c)) :
             (a \o c)[k] = IF k <= Len(a) THEN a[k] ELSE c[k - Len(a)]
    BY <1>5, <1>6, ConcatProperties
  <2> QED BY <1>5, <1>7, <2>1
<1>9. ASSUME NEW k \in 1..m PROVE e[k] = d[k]
  <2>1. k \in 1..(i - 1) /\ k \in 1..((i - 1) + Len(c)) BY <1>6
  <2> QED BY <1>5, <1>8, <2>1
<1>10. Len(e) >= m BY <1>6, <1>8
<1> QED BY <1>3, <1>4, <1>7, <1>8, <1>9, <1>10 DEF SameUpTo, IsDoc

LEMMA WithoutKeeps ==
  ASSUME NEW d, IsDoc(d), NEW gone, NEW m \in Nat, m <= Len(d), \A k \in 1..m : k \notin gone
  PROVE  SameUpTo(d, Without(d, gone), m)
<1> DEFINE stay == DOMAIN d \ gone
           nth(k) == CHOOSE i \in stay : Cardinality({j \in stay : j <= i}) = k
<1>1. Len(d) \in Nat /\ DOMAIN d = 1..Len(d) BY DocLen
<1>2. IsFiniteSet(1..Len(d)) BY <1>1, FS_Interval
<1>3. IsFiniteSet(stay) /\ stay \subseteq 1..Len(d) BY <1>1, <1>2, FS_Subset
<1>4. Cardinality(stay) \in Nat /\ Cardinality(stay) >= m
  <2>1. 1..m \subseteq stay BY <1>1
  <2>2. Cardinality(1..m) = m BY FS_Interval
  <2> QED BY <1>3, <2>1, <2>2, FS_CardinalityType, FS_Subset
<1>5. ASSUME NEW k \in 1..m PROVE nth(k) = k
  <2>1. k \in stay BY <1>1
  <2>2. {j \in stay : j <= k} = 1..k BY <1>1
  <2>3. Cardinality({j \in stay : j <= k}) = k
    <3>1. 1 \in Int /\ k \in Int /\ k >= 1 OBVIOUS
    <3>2. Cardinality(1..k) = k BY <3>1, FS_Interval
    <3> QED BY <2>2, <3>2
  <2>4. ASSUME NEW i \in stay, Cardinality({j \in stay : j <= i}) = k PROVE i = k
    <3>1. CASE i < k
      <4>1. i \in Nat /\ {j \in stay : j <= i} = 1..i BY <1>1, <3>1
      <4>2. Cardinality(1..i) = i BY <4>1, FS_Interval
      <4> QED BY <2>4, <3>1, <4>1, <4>2
    <3>2. CASE i > k
      <4>1. PICK W : W = {j \in stay : j <= i} OBVIOUS
      <4>2. IsFiniteSet(W) BY <1>3, <4>1, FS_Subset
      <4>3. 1..k \subseteq W /\ i \in W /\ i \notin 1..k BY <1>1, <3>2, <4>1
      <4>4. PICK V : V = (1..k) \cup {i} OBVIOUS
      <4>5. V \subseteq W /\ V # 1..k /\ 1..k \subseteq V BY <4>3, <4>4
      <4>6. IsFiniteSet(V) BY <4>2, <4>5, FS_Subset
      <4>7. Cardinality(1..k) = k BY FS_Interval
      <4>8. /\ Cardinality(1..k) <= Cardinality(V)
            /\ Cardinality(V) = Cardinality(1..k) => V = 1..k
        BY <4>5, <4>6, FS_Subset
      <4>9. Cardinality(V) <= Cardinality(W) BY <4>2, <4>5, FS_Subset
      <4>10. Cardinality(V) \in Nat /\ Cardinality(W) \in Nat BY <4>2, <4>6, FS_CardinalityType
      <4> QED BY <2>4, <4>1, <4>5, <4>7, <4>8, <4>9, <4>10
    <3>3. i \in Nat BY <1>1
    <3> QED BY <3>1, <3>2, <3>3
  <2> HIDE DEF stay
  <2>5. nth(k) \in stay /\ Cardinality({j \in stay : j <= nth(k)}) = k BY <2>1, <2>3
  <2> QED BY <2>4, <2>5
<1>6. PICK e : e = [k \in 1..Cardinality(stay) |-> d[nth(k)]] OBVIOUS
<1>7. e = Without(d, gone) BY <1>6 DEF Without
<1> HIDE DEF stay, nth
<1>8. PICK S : S = {d[nth(k)] : k \in 1..Cardinality(stay)} OBVIOUS
<1>9. e \in [1..Cardinality(stay) -> S] BY <1>6, <1>8
<1>10. e \in Seq(S) /\ Len(e) = Cardinality(stay) BY <1>4, <1>9
<1>11. ASSUME NEW k \in 1..m PROVE e[k] = d[k]
  <2>1. k \in 1..Cardinality(stay) BY <1>4
  <2> QED BY <1>5, <1>6, <2>1
<1> QED BY <1>4, <1>7, <1>10, <1>11 DEF SameUpTo, IsDoc

-----------------------------------------------------------------------------
(* FlattenSeq *)

LEMMA FlattenUnfolds ==
  ASSUME NEW S, NEW ss \in Seq(Seq(S)), ss # <<>>
  PROVE  \E f : /\ FlattenSeq(ss) = f[Len(ss)] /\ f[1] = ss[1]
                /\ \A i \in 2..Len(ss) : f[i] = f[i - 1] \o ss[i]
                /\ \A i \in 1..Len(ss) : f[i] \in Seq(S)
<1> DEFINE n == Len(ss)
           IsFlat(f) == f = [i \in 1..n |-> IF i = 1 THEN ss[i] ELSE f[i - 1] \o ss[i]]
           X == Seq(S)
           h == [k \in 1..n |-> [a \in X |-> IF k = 1 THEN ss[1] ELSE a \o ss[k]]]
<1>1. n \in Nat /\ n >= 1 /\ \A i \in 1..n : ss[i] \in X OBVIOUS
<1> HIDE DEF n
<1>2. \E f : IsFlat(f)
  <2>1. h \in [1..n -> [X -> X]]
    <3>1. ASSUME NEW a \in X, NEW k \in 1..n
          PROVE  (IF k = 1 THEN ss[1] ELSE a \o ss[k]) \in X
      <4>1. ss[k] \in X /\ ss[1] \in X BY <1>1
      <4>2. a \o ss[k] \in X BY <4>1, ConcatProperties
      <4> QED BY <4>1, <4>2
    <3> HIDE DEF X
    <3> QED BY <3>1
  <2>2. <<>> \in X OBVIOUS
  <2>3. PICK g : g = h OBVIOUS
  <2>4. PICK t : Results(t, X, <<>>, n, g)
    <3>1. PICK Y : Y = X OBVIOUS
    <3>2. PICK b : b = <<>> OBVIOUS
    <3>3. PICK m : m = n OBVIOUS
    <3>4. b \in Y /\ m \in Nat BY <1>1, <2>2, <3>1, <3>2, <3>3
    <3>5. g \in StepFuns(Y, m) BY <2>1, <2>3, <3>1, <3>3 DEF StepFuns
    <3>6. \E t : Results(t, Y, b, m, g) BY <3>4, <3>5, StepsAreMade
    <3> QED BY <3>1, <3>2, <3>3, <3>6
  <2>5. PICK f : f = [i \in 1..n |-> t[i]] OBVIOUS
  <2>6. ASSUME NEW i \in 1..n PROVE f[i] = IF i = 1 THEN ss[i] ELSE f[i - 1] \o ss[i]
    <3>1. i \in 0..n /\ i - 1 \in 0..n /\ i # 0 BY <1>1
    <3>2. t[i] = g[i][t[i - 1]] BY <2>4, <3>1 DEF Results
    <3>3. t[i - 1] \in X BY <2>4, <3>1 DEF Results
    <3>4. g[i][t[i - 1]] = IF i = 1 THEN ss[1] ELSE t[i - 1] \o ss[i] BY <2>3, <3>3
    <3>5. i # 1 => i - 1 \in 1..n BY <1>1
    <3> QED BY <2>5, <3>2, <3>4, <3>5
  <2>7. IsFlat(f) BY <2>5, <2>6, Zenon
  <2> QED BY <2>7, Zenon
<1>3. PICK f : f = (CHOOSE g : IsFlat(g)) BY Zenon
<1>4. IsFlat(f) BY <1>2, <1>3, Zenon
<1>5. FlattenSeq(ss) = f[n] BY <1>1, <1>3 DEF FlattenSeq, n
<1>6. f[1] = ss[1] /\ \A i \in 2..n : f[i] = f[i - 1] \o ss[i]
  <2>1. 1 \in 1..n BY <1>1
  <2>2. f[1] = ss[1] BY <1>4, <2>1
  <2>3. ASSUME NEW i \in 2..n PROVE f[i] = f[i - 1] \o ss[i]
    <3>1. i \in 1..n /\ i # 1 BY <1>1
    <3> QED BY <1>4, <3>1
  <2> QED BY <2>2, <2>3
<1>7. \A i \in 1..n : f[i] \in X
  <2> DEFINE T == {i \in 1..n : f[i] \in X}
  <2>1. 1 \in T BY <1>1, <1>6
  <2>2. ASSUME NEW k \in 2..n, k - 1 \in T PROVE k \in T
    <3>1. f[k - 1] \in Seq(S) /\ ss[k] \in Seq(S) BY <1>1, <2>2
    <3>2. PICK a : a = f[k - 1] OBVIOUS
    <3>3. a \o ss[k] \in Seq(S) BY <3>1, <3>2, ConcatProperties
    <3>4. k \in 1..n BY <1>1
    <3> QED BY <1>6, <3>2, <3>3, <3>4
  <2>3. \A k \in 1..n : k \in T
    <3> HIDE DEF T
    <3>1. 1 \in 0..n BY <1>1
    <3>2. \A k \in (1 + 1)..n : k - 1 \in T => k \in T BY <2>2
    <3> QED BY <1>1, <2>1, <3>1, <3>2, FromOneToNext
  <2> QED BY <2>3
<1> QED BY <1>5, <1>6, <1>7 DEF n

(* The parts are joined into one sequence. *)
LEMMA FlattenIsSeq ==
  ASSUME NEW S, NEW ss \in Seq(Seq(S))
  PROVE  FlattenSeq(ss) \in Seq(S)
<1>1. CASE ss = <<>>
  <2>1. FlattenSeq(ss) = ss BY <1>1 DEF FlattenSeq
  <2>2. <<>> \in Seq(S) OBVIOUS
  <2> QED BY <1>1, <2>1, <2>2
<1>2. CASE ss # <<>>
  <2>1. PICK f : FlattenSeq(ss) = f[Len(ss)] /\ \A i \in 1..Len(ss) : f[i] \in Seq(S)
    BY <1>2, FlattenUnfolds
  <2>2. Len(ss) \in 1..Len(ss) BY <1>2
  <2> QED BY <2>1, <2>2
<1> QED BY <1>1, <1>2

(* If all parts but the first have one element or none, the first decides  *)
(* how much longer the whole is than the number of parts.                  *)
LEMMA FlattenLength ==
  ASSUME NEW S, NEW ss \in Seq(Seq(S)), NEW w \in Nat,
         \A i \in 1..Len(ss) : Len(ss[i]) <= IF i = 1 THEN 1 + w ELSE 1
  PROVE  Len(FlattenSeq(ss)) <= Len(ss) + w
<1>1. CASE ss = <<>>
  <2>1. FlattenSeq(ss) = ss BY <1>1 DEF FlattenSeq
  <2> QED BY <1>1, <2>1
<1>2. CASE ss # <<>>
  <2>1. PICK f : /\ FlattenSeq(ss) = f[Len(ss)] /\ f[1] = ss[1]
                 /\ \A i \in 2..Len(ss) : f[i] = f[i - 1] \o ss[i]
                 /\ \A i \in 1..Len(ss) : f[i] \in Seq(S)
    BY <1>2, FlattenUnfolds
  <2> DEFINE T == {i \in 1..Len(ss) : Len(f[i]) <= i + w}
  <2>2. PICK n \in Nat : n = Len(ss) OBVIOUS
  <2>3. n >= 1 /\ 1 \in 0..n BY <1>2, <2>2
  <2>4. 1 \in T BY <2>1, <2>2, <2>3
  <2>5. ASSUME NEW k \in 2..n, k - 1 \in T PROVE k \in T
    <3>1. PICK a \in Seq(S), c \in Seq(S) : a = f[k - 1] /\ c = ss[k]
      <4>1. k \in 1..n /\ k - 1 \in 1..n BY <2>3
      <4> QED BY <2>1, <2>2, <4>1
    <3>2. Len(a \o c) = Len(a) + Len(c) BY ConcatProperties
    <3>3. Len(a) <= (k - 1) + w /\ Len(c) <= 1 BY <2>2, <2>5, <3>1
    <3>4. f[k] = a \o c BY <2>1, <2>2, <3>1
    <3>5. Len(a) \in Nat /\ Len(c) \in Nat OBVIOUS
    <3>6. Len(f[k]) <= k + w BY <3>2, <3>3, <3>4, <3>5
    <3> QED BY <2>2, <3>6
  <2>6. \A k \in 1..n : k \in T
    <3> HIDE DEF T
    <3>1. \A k \in (1 + 1)..n : k - 1 \in T => k \in T BY <2>5
    <3> QED BY <2>3, <2>4, <3>1, FromOneToNext
  <2>7. n \in T BY <2>3, <2>6
  <2> QED BY <2>1, <2>2, <2>7
<1> QED BY <1>1, <1>2

-----------------------------------------------------------------------------
(* The requests of a write: p is the place of the line break that follows  *)
(* the old text, text goes behind it and only marks may touch it.          *)

Words ==
  STRING \cup {"nl", "sp", "tab", "none", "plain", "mono", "normal", "heading", "rule"}
Positions(lo) == {i \in Nat : i >= lo}
Inserts(lo) ==
  [op : {"text"}, at : Positions(lo), text : Seq(Words)]
    \cup [op : {"chip"}, at : Positions(lo), chip : Words]
    \cup [op : {"delete"}, from : Positions(lo), to : Nat]
Bullets(lo) == [op : {"bullets"}, from : Positions(lo), to : Nat, list : Words]
Marks(lo) ==
  [op : {"style"}, from : Positions(lo), to : Nat, style : Words]
    \cup [op : {"para"}, from : Positions(lo), to : Nat, para : Words]
    \cup [op : {"link"}, from : Positions(lo), to : Int, link : Words]
Tables(lo) == [op : {"table"}, at : Positions(lo), rows : Nat, cols : Nat]
Behind(p) == Inserts(p + 1) \cup Bullets(p + 1) \cup Marks(p) \cup Tables(p + 1)

(* The text of o before p is in d, and a line break follows it. *)
Fenced(o, d, p) == SameUpTo(o, d, p - 1) /\ Len(d) >= p /\ IsNewline(d[p])

LEMMA StillFenced ==
  ASSUME NEW o, NEW d, NEW e, NEW p \in Nat \ {0}, Fenced(o, d, p), SameUpTo(d, e, p)
  PROVE  Fenced(o, e, p)
<1>1. IsDoc(e) /\ Len(e) >= p /\ \A i \in 1..p : e[i] = d[i] BY DEF SameUpTo
<1>2. Len(e) \in Nat BY <1>1, DocLen
<1>3. e[p] = d[p] BY <1>1
<1>4. \A i \in 1..(p - 1) : e[i] = o[i] BY <1>1 DEF Fenced, SameUpTo
<1> QED BY <1>1, <1>2, <1>3, <1>4 DEF Fenced, SameUpTo

LEMMA EmptyTableIsDoc ==
  ASSUME NEW rows \in Nat, NEW cols \in Nat
  PROVE  IsDoc(EmptyTable(rows, cols))
<1>1. PICK S : S = {Unit("row", "plain"), Unit("cell", "plain"), Newline("normal", "plain"),
                    Unit("table", "plain"), Unit("end", "plain")}
  OBVIOUS
<1>2. PICK ce : ce = [c \in 1..cols |-> <<Unit("cell", "plain"), Newline("normal", "plain")>>]
  OBVIOUS
<1>3. ce \in Seq(Seq(S))
  <2>1. <<Unit("cell", "plain"), Newline("normal", "plain")>> \in Seq(S) BY <1>1
  <2>2. ce \in [1..cols -> Seq(S)] BY <1>2, <2>1
  <2> QED BY <2>2
<1>4. FlattenSeq(ce) \in Seq(S) BY <1>3, FlattenIsSeq
<1>5. PICK row : row = <<Unit("row", "plain")>> \o FlattenSeq(ce) OBVIOUS
<1>6. row \in Seq(S)
  <2>1. PICK a, b : a = <<Unit("row", "plain")>> /\ b = FlattenSeq(ce) OBVIOUS
  <2>2. a \in Seq(S) /\ b \in Seq(S) BY <1>1, <1>4, <2>1
  <2>3. a \o b \in Seq(S) BY <2>2, ConcatProperties
  <2> QED BY <1>5, <2>1, <2>3
<1>7. PICK rs : rs = [r \in 1..rows |-> row] OBVIOUS
<1>8. FlattenSeq(rs) \in Seq(S)
  <2>1. rs \in [1..rows -> Seq(S)] BY <1>6, <1>7
  <2>2. rs \in Seq(Seq(S)) BY <2>1
  <2> QED BY <2>2, FlattenIsSeq
<1>9. PICK a, b, c : a = <<Unit("table", "plain")>> /\ b = FlattenSeq(rs)
                       /\ c = <<Unit("end", "plain")>>
  OBVIOUS
<1>10. a \in Seq(S) /\ b \in Seq(S) /\ c \in Seq(S) BY <1>1, <1>8, <1>9
<1>11. a \o b \in Seq(S) BY <1>10, ConcatProperties
<1>12. PICK ab \in Seq(S) : ab = a \o b BY <1>11
<1>13. ab \o c \in Seq(S) BY <1>10, <1>12, ConcatProperties
<1>14. EmptyTable(rows, cols) = ab \o c BY <1>2, <1>5, <1>7, <1>9, <1>12 DEF EmptyTable
<1> QED BY <1>13, <1>14 DEF IsDoc

LEMMA InsertedIsDoc ==
  ASSUME NEW d, NEW i, NEW text \in Seq(Words)
  PROVE  /\ IsDoc(Inserted(d, i, text)) /\ Len(Inserted(d, i, text)) = Len(text)
         /\ text # <<>> /\ text[1] = "nl" =>
              Inserted(d, i, text)[1] = [d[EndOf(d, i)] EXCEPT !.style = StyleAt(d, i)]
<1>1. PICK e : e = Inserted(d, i, text) OBVIOUS
<1>2. IsDoc(text) BY DEF IsDoc
<1>3. e = [k \in DOMAIN text |-> e[k]] BY <1>1 DEF Inserted
<1>4. IsDoc(e) /\ Len(e) = Len(text) BY <1>2, <1>3, SameShape
<1>5. ASSUME text # <<>>, text[1] = "nl"
      PROVE  e[1] = [d[EndOf(d, i)] EXCEPT !.style = StyleAt(d, i)]
  <2>1. 1 \in DOMAIN text BY <1>5
  <2> QED BY <1>1, <1>5, <2>1 DEF Inserted
<1> QED BY <1>1, <1>4, <1>5

LEMMA OneIsDoc ==
  ASSUME NEW u
  PROVE  IsDoc(<<u>>)
<1>1. PICK S : S = {u} OBVIOUS
<1>2. <<u>> \in Seq(S) BY <1>1
<1> QED BY <1>2 DEF IsDoc

LEMMA Singleton ==
  ASSUME NEW S, NEW x \in S
  PROVE  <<x>> \in Seq(S)
OBVIOUS

LEMMA LineBreak == <<"nl">> \in Seq(Words) /\ <<"sp">> \in Seq(Words)
<1>1. "nl" \in Words /\ "sp" \in Words BY DEF Words
<1>2. PICK a, b : a = "nl" /\ b = "sp" OBVIOUS
<1>3. <<a>> \in Seq(Words) /\ <<b>> \in Seq(Words) BY <1>1, <1>2, Singleton
<1> QED BY <1>2, <1>3

(* Text put behind the m-th unit. *)
LEMMA InsertsKeep ==
  ASSUME NEW d, IsDoc(d), NEW m \in Nat, NEW q \in Inserts(m + 1) \cup Tables(m + 1)
  PROVE  SameUpTo(d, Apply(d, q), m)
<1>2. CASE q.op = "text"
  <2>1. q.at \in Nat /\ q.at > m /\ q.text \in Seq(Words)
    BY <1>2 DEF Inserts, Positions, Tables
  <2>a. PICK us : us = Inserted(d, q.at, q.text) OBVIOUS
  <2>2. PICK i \in Nat : i = q.at /\ us = Inserted(d, q.at, q.text) BY <2>1, <2>a
  <2>3. IsDoc(us) BY <2>1, <2>2, InsertedIsDoc
  <2>4. SameUpTo(d, InsertUnits(d, i, us), m) BY <2>1, <2>2, <2>3, InsertKeeps
  <2>5. Apply(d, q) = InsertUnits(d, i, us) BY <1>2, <2>2 DEF Apply
  <2> QED BY <2>4, <2>5
<1>3. CASE q.op = "chip"
  <2>1. q.at \in Nat /\ q.at > m BY <1>3 DEF Inserts, Positions, Tables
  <2>a. PICK us : us = <<Unit(q.chip, StyleAt(d, q.at))>> OBVIOUS
  <2>2. PICK i \in Nat : i = q.at /\ us = <<Unit(q.chip, StyleAt(d, q.at))>> BY <2>1, <2>a
  <2>3. IsDoc(us)
    <3>1. PICK u : u = Unit(q.chip, StyleAt(d, q.at)) OBVIOUS
    <3>2. us = <<u>> BY <2>2, <3>1
    <3> QED BY <3>2, OneIsDoc
  <2>4. SameUpTo(d, InsertUnits(d, i, us), m) BY <2>1, <2>2, <2>3, InsertKeeps
  <2>5. Apply(d, q) = InsertUnits(d, i, us) BY <1>3, <2>2 DEF Apply
  <2> QED BY <2>4, <2>5
<1>4. CASE q.op = "delete"
  <2>1. q.from \in Nat /\ q.from > m /\ q.to \in Nat BY <1>4 DEF Inserts, Positions, Tables
  <2>2. PICK i \in Nat, j \in Nat : i = q.from /\ j = q.to BY <2>1
  <2>3. SameUpTo(d, SubSeq(d, 1, i - 1) \o SubSeq(d, j, Len(d)), m)
    BY <2>1, <2>2, DeleteKeeps
  <2>4. Apply(d, q) = SubSeq(d, 1, i - 1) \o SubSeq(d, j, Len(d)) BY <1>4, <2>2 DEF Apply
  <2> QED BY <2>3, <2>4
<1>5. CASE q.op = "table"
  <2>1. q.at \in Nat /\ q.at > m /\ q.rows \in Nat /\ q.cols \in Nat
    BY <1>5 DEF Inserts, Positions, Tables
  <2>2. PICK nl : nl = <<"nl">> OBVIOUS
  <2>3. PICK a, b : a = Inserted(d, q.at, nl) /\ b = EmptyTable(q.rows, q.cols) OBVIOUS
  <2>4. IsDoc(a)
    <3>1. nl \in Seq(Words) BY <2>2, LineBreak
    <3> QED BY <2>3, <3>1, InsertedIsDoc
  <2>5. IsDoc(b) BY <2>1, <2>3, EmptyTableIsDoc
  <2>b. PICK us : us = a \o b OBVIOUS
  <2>6. PICK i \in Nat : i = q.at /\ us = a \o b BY <2>1, <2>b
  <2>7. IsDoc(us)
    <3>1. PICK S, T : a \in Seq(S) /\ b \in Seq(T) BY <2>4, <2>5 DEF IsDoc
    <3>2. PICK U : U = S \cup T OBVIOUS
    <3>3. a \in Seq(U) /\ b \in Seq(U) BY <3>1, <3>2, SeqMonotonic
    <3>4. a \o b \in Seq(U) BY <3>3, ConcatProperties
    <3> QED BY <2>6, <3>4 DEF IsDoc
  <2>8. SameUpTo(d, InsertUnits(d, i, us), m) BY <2>1, <2>6, <2>7, InsertKeeps
  <2>9. Apply(d, q) = InsertUnits(d, i, us) BY <1>5, <2>2, <2>3, <2>6 DEF Apply
  <2> QED BY <2>8, <2>9
<1>6. q.op \in {"text", "chip", "delete", "table"} BY DEF Inserts, Tables
<1> QED BY <1>2, <1>3, <1>4, <1>5, <1>6

(* Styles from the place p on leave what is before it and its line break.  *)
LEMMA MarksKeep ==
  ASSUME NEW d, IsDoc(d), NEW p \in Nat \ {0}, Len(d) >= p - 1, NEW q \in Marks(p)
  PROVE  /\ SameUpTo(d, Apply(d, q), p - 1)
         /\ Len(d) >= p /\ IsNewline(d[p]) =>
              Len(Apply(d, q)) >= p /\ IsNewline(Apply(d, q)[p])
<1>1. Len(d) \in Nat /\ DOMAIN d = 1..Len(d) BY DocLen
<1>2. q.from \in Nat /\ q.from >= p BY DEF Marks, Positions
<1>3. PICK e : e = Apply(d, q) OBVIOUS
<1>4. /\ e = [i \in DOMAIN d |-> e[i]]
      /\ \A i \in DOMAIN d : i < p => e[i] = d[i]
      /\ p \in DOMAIN d => \/ e[p] = d[p]
                           \/ \E x : e[p] = [d[p] EXCEPT !.style = x]
                           \/ \E x : e[p] = [d[p] EXCEPT !.link = x]
                           \/ \E x : e[p] = [d[p] EXCEPT !.para = x]
  <2>1. CASE q.op = "style"
    <3>1. e = [i \in DOMAIN d |->
                 IF i \in q.from .. q.to - 1 THEN [d[i] EXCEPT !.style = q.style] ELSE d[i]]
      BY <1>3, <2>1 DEF Apply
    <3>2. e = [i \in DOMAIN d |-> e[i]] BY <3>1
    <3>3. \A i \in DOMAIN d : i < p => i \notin q.from .. q.to - 1 BY <1>1, <1>2
    <3>4. \A i \in DOMAIN d : i < p => e[i] = d[i] BY <3>1, <3>3
    <3>5. p \in DOMAIN d => e[p] = d[p] \/ e[p] = [d[p] EXCEPT !.style = q.style] BY <3>1
    <3> QED BY <3>2, <3>4, <3>5
  <2>2. CASE q.op = "link"
    <3>1. e = [i \in DOMAIN d |->
                 IF i \in q.from .. q.to - 1 THEN [d[i] EXCEPT !.link = q.link] ELSE d[i]]
      BY <1>3, <2>2 DEF Apply
    <3>2. e = [i \in DOMAIN d |-> e[i]] BY <3>1
    <3>3. \A i \in DOMAIN d : i < p => i \notin q.from .. q.to - 1 BY <1>1, <1>2
    <3>4. \A i \in DOMAIN d : i < p => e[i] = d[i] BY <3>1, <3>3
    <3>5. p \in DOMAIN d => e[p] = d[p] \/ e[p] = [d[p] EXCEPT !.link = q.link] BY <3>1
    <3> QED BY <3>2, <3>4, <3>5
  <2>3. CASE q.op = "para"
    <3>1. e = [i \in DOMAIN d |->
                 IF Touches(d, i, q) THEN [d[i] EXCEPT !.para = Restyled(@, q.para)] ELSE d[i]]
      BY <1>3, <2>3 DEF Apply
    <3>2. \A i \in DOMAIN d : Touches(d, i, q) => q.from <= i BY DEF Touches
    <3>3. \A i \in DOMAIN d : i < p => ~Touches(d, i, q) BY <1>1, <1>2, <3>2
    <3>4. \A i \in DOMAIN d : i < p => e[i] = d[i] BY <3>1, <3>3
    <3>5. p \in DOMAIN d =>
            e[p] = d[p] \/ e[p] = [d[p] EXCEPT !.para = Restyled(d[p].para, q.para)]
      BY <3>1
    <3> QED BY <3>1, <3>4, <3>5
  <2> QED BY <2>1, <2>2, <2>3 DEF Marks
<1>5. IsDoc(e) /\ Len(e) = Len(d) BY <1>4, SameShape
<1>6. SameUpTo(d, e, p - 1)
  <2>1. \A i \in 1..(p - 1) : i \in DOMAIN d /\ i < p BY <1>1
  <2> QED BY <1>1, <1>4, <1>5, <2>1 DEF SameUpTo
<1>7. ASSUME Len(d) >= p, IsNewline(d[p]) PROVE Len(e) >= p /\ IsNewline(e[p])
  <2>1. p \in DOMAIN d BY <1>1, <1>7
  <2> QED BY <1>1, <1>4, <1>5, <1>7, <2>1 DEF IsNewline
<1> QED BY <1>3, <1>6, <1>7

(* The paragraph of what is before a line break ends there at the latest.  *)
LEMMA EndsByThen ==
  ASSUME NEW d, NEW p \in Nat \ {0}, Len(d) \in Nat, Len(d) >= p, d[p].g = "nl", NEW i \in 1..p
  PROVE  EndOf(d, i) \in i..p
<1> DEFINE ends == {k \in i..p : d[k].g = "nl"}
<1>1. PICK j \in ends : \A k \in ends : j <= k
  <2>1. ends \in SUBSET Nat /\ p \in ends OBVIOUS
  <2> HIDE DEF ends
  <2> QED BY <2>1, LeastNat
<1>2. j \in i .. Len(d) /\ d[j].g = "nl" BY <1>1
<1>3. \A k \in i .. j - 1 : d[k].g # "nl" BY <1>1
<1>4. PICK x : x = EndOf(d, i) OBVIOUS
<1>5. x \in i .. Len(d) /\ d[x].g = "nl" /\ \A k \in i .. x - 1 : d[k].g # "nl"
  BY <1>2, <1>3, <1>4, Zenon DEF EndOf
<1>6. x <= p
  <2> SUFFICES ASSUME x > p PROVE FALSE BY <1>5
  <2>1. p \in i .. x - 1 BY <1>5
  <2> QED BY <1>5, <2>1
<1> QED BY <1>4, <1>5, <1>6

(* Bullets for what is behind the line break take no tab before it. *)
LEMMA BulletsKeep ==
  ASSUME NEW d, IsDoc(d), NEW p \in Nat \ {0}, Len(d) >= p, IsNewline(d[p]), NEW q \in Bullets(p + 1)
  PROVE  SameUpTo(d, Apply(d, q), p)
<1>1. Len(d) \in Nat /\ DOMAIN d = 1..Len(d) BY DocLen
<1>2. q.from \in Nat /\ q.from > p /\ q.op = "bullets" BY DEF Bullets, Positions
<1>3. PICK e : e = [i \in DOMAIN d |-> IF Touches(d, i, q)
               THEN [d[i] EXCEPT !.list = q.list, !.depth = LeadingTabs(d, i)] ELSE d[i]]
  OBVIOUS
<1>4. PICK gone : gone = {i \in DOMAIN d : LeadingTab(d, i) /\ Touches(d, EndOf(d, i), q)}
  OBVIOUS
<1>5. IsDoc(e) /\ Len(e) = Len(d)
  <2>1. e = [i \in DOMAIN d |-> e[i]] BY <1>3
  <2> QED BY <2>1, SameShape
<1>6. \A i \in 1..p : e[i] = d[i]
  <2> SUFFICES ASSUME NEW i \in 1..p PROVE e[i] = d[i] OBVIOUS
  <2>1. i \in DOMAIN d /\ ~(q.from <= i) BY <1>1, <1>2
  <2>2. ~Touches(d, i, q) BY <2>1 DEF Touches
  <2> QED BY <1>3, <2>1, <2>2
<1>7. \A i \in 1..p : i \notin gone
  <2> SUFFICES ASSUME NEW i \in 1..p PROVE ~Touches(d, EndOf(d, i), q) BY <1>4
  <2>1. d[p].g = "nl" BY DEF IsNewline
  <2>2. EndOf(d, i) \in i..p BY <1>1, <2>1, EndsByThen
  <2>3. ~(q.from <= EndOf(d, i)) BY <1>2, <2>2
  <2> QED BY <2>3 DEF Touches
<1>8. SameUpTo(e, Without(e, gone), p) BY <1>5, <1>7, WithoutKeeps
<1>9. Apply(d, q) = Without(e, gone) BY <1>2, <1>3, <1>4, Zenon DEF Apply, Bulleted
<1> QED BY <1>6, <1>8, <1>9 DEF SameUpTo

(* Every request of a write that comes after the line break. *)
LEMMA BehindKeepsFence ==
  ASSUME NEW o, NEW d, NEW p \in Nat \ {0}, Fenced(o, d, p), NEW q \in Behind(p)
  PROVE  Fenced(o, Apply(d, q), p)
<1>1. IsDoc(d) /\ Len(d) >= p /\ Len(d) \in Nat /\ IsNewline(d[p]) BY DocLen DEF Fenced, SameUpTo
<1>2. CASE q \in Inserts(p + 1) \cup Tables(p + 1)
  <2>1. SameUpTo(d, Apply(d, q), p) BY <1>1, <1>2, InsertsKeep
  <2> QED BY <2>1, StillFenced
<1>3. CASE q \in Bullets(p + 1)
  <2>1. SameUpTo(d, Apply(d, q), p) BY <1>1, <1>3, BulletsKeep
  <2> QED BY <2>1, StillFenced
<1>4. CASE q \in Marks(p)
  <2>1. /\ SameUpTo(d, Apply(d, q), p - 1)
        /\ Len(Apply(d, q)) >= p /\ IsNewline(Apply(d, q)[p])
    BY <1>1, <1>4, MarksKeep
  <2> QED BY <2>1 DEF Fenced, SameUpTo
<1> QED BY <1>2, <1>3, <1>4 DEF Behind

(* Requests of a write that has no line break to start with. *)
LEMMA PlainKeeps ==
  ASSUME NEW o, NEW d, NEW m \in Nat, SameUpTo(o, d, m),
         NEW q \in Inserts(m + 1) \cup Marks(m + 1)
  PROVE  SameUpTo(o, Apply(d, q), m)
<1>1. IsDoc(d) /\ Len(d) >= m BY DEF SameUpTo
<1>2. SameUpTo(d, Apply(d, q), m)
  <2>1. CASE q \in Inserts(m + 1) BY <1>1, <2>1, InsertsKeep
  <2>2. CASE q \in Marks(m + 1)
    <3>1. PICK p \in Nat \ {0} : p = m + 1 OBVIOUS
    <3>2. p - 1 = m BY <3>1
    <3> QED BY <1>1, <2>2, <3>1, <3>2, MarksKeep
  <2> QED BY <2>1, <2>2
<1> QED BY <1>2 DEF SameUpTo

(* The line break itself, put where the document's last newline is. *)
LEMMA FirstFences ==
  ASSUME NEW d, IsDoc(d), NEW p \in Nat \ {0}, Len(d) = p, IsNewline(d[p]),
         NEW q, q.op = "text", q.at = p, q.text \in Seq(Words), q.text # <<>>, q.text[1] = "nl"
  PROVE  Fenced(d, Apply(d, q), p)
<1>1. PICK us : us = Inserted(d, p, q.text) OBVIOUS
<1>2. IsDoc(us) /\ Len(us) = Len(q.text) /\ us[1] = [d[EndOf(d, p)] EXCEPT !.style = StyleAt(d, p)]
  BY <1>1, InsertedIsDoc
<1>3. EndOf(d, p) = p
  <2>1. Len(d) \in Nat /\ d[p].g = "nl" /\ p \in 1..p BY DocLen DEF IsNewline
  <2>2. EndOf(d, p) \in p..p BY <2>1, EndsByThen
  <2> QED BY <2>2
<1>4. IsNewline(us[1]) BY <1>2, <1>3 DEF IsNewline
<1>5. us # <<>> BY <1>2
<1>6. PICK e : e = InsertUnits(d, p, us) OBVIOUS
<1>7. SameUpTo(d, e, p - 1) /\ Len(e) >= p /\ e[p] = us[1]
  <2>1. PICK m \in Nat : m = p - 1 OBVIOUS
  <2>2. m < p BY <2>1
  <2> QED BY <1>2, <1>5, <1>6, <2>1, <2>2, InsertKeeps
<1>8. Apply(d, q) = e BY <1>1, <1>6 DEF Apply
<1> QED BY <1>4, <1>7, <1>8 DEF Fenced

-----------------------------------------------------------------------------
(* BatchUpdate: what every request of a call keeps, the call keeps *)

LEMMA BatchMade ==
  ASSUME NEW d, NEW reqs, Len(reqs) \in Nat
  PROVE  \E f : /\ BatchUpdate(d, reqs) = f[Len(reqs)] /\ f[0] = d
                /\ \A k \in 1..Len(reqs) : f[k] = Apply(f[k - 1], reqs[k])
<1> DEFINE IsMade(f, m) == f = [k \in 0..m |-> IF k = 0 THEN d ELSE Apply(f[k - 1], reqs[k])]
           T == {m \in Nat : \E f : IsMade(f, m)}
<1>1. 0 \in T
  <2>1. PICK f : f = [k \in 0..0 |-> d] OBVIOUS
  <2>2. IsMade(f, 0) BY <2>1
  <2> QED BY <2>2
<1>2. ASSUME NEW m \in T PROVE m + 1 \in T
  <2>1. PICK f : IsMade(f, m) OBVIOUS
  <2>2. PICK n \in Nat : n = m + 1 OBVIOUS
  <2>3. PICK g : g = [k \in 0..n |-> IF k = n THEN Apply(f[m], reqs[n]) ELSE f[k]] OBVIOUS
  <2>4. ASSUME NEW k \in 0..n PROVE g[k] = IF k = 0 THEN d ELSE Apply(g[k - 1], reqs[k])
    <3>1. m \in Nat /\ m \in 0..n /\ m # n /\ n # 0 BY <2>2
    <3>2. g[m] = f[m] BY <2>3, <3>1
    <3>3. CASE k = n
      <4>1. k # 0 /\ k - 1 = m BY <2>2, <3>1, <3>3
      <4>2. g[k] = Apply(f[m], reqs[k]) BY <2>3, <3>3
      <4> QED BY <3>2, <4>1, <4>2
    <3>4. CASE k # n
      <4>1. k \in 0..m /\ g[k] = f[k] BY <2>2, <2>3, <3>1, <3>4
      <4>2. f[k] = IF k = 0 THEN d ELSE Apply(f[k - 1], reqs[k]) BY <2>1, <4>1
      <4>3. k # 0 => k - 1 \in 0..n /\ k - 1 # n BY <2>2, <3>1, <4>1
      <4>4. k # 0 => g[k - 1] = f[k - 1] BY <2>3, <4>3
      <4> QED BY <4>1, <4>2, <4>4
    <3> QED BY <3>3, <3>4
  <2>5. g = [k \in 0..n |-> g[k]] BY <2>3
  <2>6. IsMade(g, n) BY <2>4, <2>5
  <2>7. \E h : IsMade(h, n) BY <2>6
  <2> HIDE DEF IsMade
  <2> QED BY <2>2, <2>7
<1>3. T = Nat
  <2> HIDE DEF T
  <2>1. T \in SUBSET Nat BY DEF T
  <2> QED BY <1>1, <1>2, <2>1, NatSet
<1>4. \E f : IsMade(f, Len(reqs)) BY <1>3
<1>5. PICK f : f = CHOOSE g : IsMade(g, Len(reqs)) OBVIOUS
<1>6. BatchUpdate(d, reqs) = f[Len(reqs)] BY <1>5, Zenon DEF BatchUpdate, Steps
<1>7. IsMade(f, Len(reqs)) BY <1>4, <1>5, Zenon
<1>8. f[0] = d BY <1>7
<1>9. ASSUME NEW k \in 1..Len(reqs) PROVE f[k] = Apply(f[k - 1], reqs[k])
  <2>1. k \in 0..Len(reqs) /\ k # 0 OBVIOUS
  <2> QED BY <1>7, <2>1
<1> HIDE DEF IsMade, T
<1>10. PICK n : n = Len(reqs) OBVIOUS
<1>11. \A k \in 1..n : f[k] = Apply(f[k - 1], reqs[k]) BY <1>9, <1>10
<1> QED BY <1>6, <1>8, <1>10, <1>11, Zenon

LEMMA BatchFenced ==
  ASSUME NEW o, NEW d, NEW p \in Nat \ {0}, Fenced(o, d, p), NEW reqs \in Seq(Behind(p))
  PROVE  Fenced(o, BatchUpdate(d, reqs), p)
<1>1. PICK f : /\ BatchUpdate(d, reqs) = f[Len(reqs)] /\ f[0] = d
               /\ \A k \in 1..Len(reqs) : f[k] = Apply(f[k - 1], reqs[k])
  <2>1. Len(reqs) \in Nat OBVIOUS
  <2> QED BY <2>1, BatchMade
<1>2. PICK n \in Nat : n = Len(reqs) OBVIOUS
<1> DEFINE T == {k \in 0..n : Fenced(o, f[k], p)}
<1>3. 0 \in T BY <1>1
<1>4. ASSUME NEW k \in 1..n, k - 1 \in T PROVE k \in T
  <2>1. PICK e, q : e = f[k - 1] /\ q = reqs[k] OBVIOUS
  <2>2. Fenced(o, e, p) /\ q \in Behind(p) BY <1>2, <1>4, <2>1
  <2>3. Fenced(o, Apply(e, q), p) BY <2>2, BehindKeepsFence
  <2> QED BY <1>1, <1>2, <2>1, <2>3
<1>5. \A k \in 0..n : k \in T
  <2> HIDE DEF T
  <2>1. 0 \in 0..n OBVIOUS
  <2>2. \A k \in (0 + 1)..n : k - 1 \in T => k \in T BY <1>4
  <2> QED BY <1>3, <2>1, <2>2, FromOneToNext
<1> QED BY <1>1, <1>2, <1>5

(* A call that begins with the line break. *)
FirstReq(p) ==
  {q \in [op : {"text"}, at : {p}, text : Seq(Words)] : q.text # <<>> /\ q.text[1] = "nl"}
Opening(p) ==
  {reqs \in Seq(FirstReq(p) \cup Behind(p)) :
     /\ reqs # <<>> /\ reqs[1] \in FirstReq(p)
     /\ \A k \in 2..Len(reqs) : reqs[k] \in Behind(p)}
LEMMA BatchOpens ==
  ASSUME NEW d, IsDoc(d), NEW p \in Nat \ {0}, Len(d) = p, IsNewline(d[p]), NEW reqs \in Opening(p)
  PROVE  Fenced(d, BatchUpdate(d, reqs), p)
<1>1. PICK f : /\ BatchUpdate(d, reqs) = f[Len(reqs)] /\ f[0] = d
               /\ \A k \in 1..Len(reqs) : f[k] = Apply(f[k - 1], reqs[k])
  <2>1. Len(reqs) \in Nat BY DEF Opening
  <2> QED BY <2>1, BatchMade
<1>2. PICK n \in Nat : n = Len(reqs) /\ n >= 1 BY DEF Opening
<1> DEFINE T == {k \in 0..n : Fenced(d, f[k], p)}
<1>3. 1 \in T
  <2>1. PICK q \in FirstReq(p) : q = reqs[1] BY DEF Opening
  <2>2. q.op = "text" /\ q.at = p /\ q.text \in Seq(Words) /\ q.text # <<>> /\ q.text[1] = "nl"
    BY DEF FirstReq
  <2>3. Fenced(d, Apply(d, q), p) BY <2>2, FirstFences
  <2>4. 1 \in 1..n /\ 1 - 1 = 0 BY <1>2
  <2>5. f[1] = Apply(d, q) BY <1>1, <1>2, <2>1, <2>4
  <2> QED BY <2>3, <2>4, <2>5
<1>4. ASSUME NEW k \in 2..n, k - 1 \in T PROVE k \in T
  <2>1. PICK e, q : e = f[k - 1] /\ q = reqs[k] OBVIOUS
  <2>2. Fenced(d, e, p) /\ q \in Behind(p) BY <1>2, <1>4, <2>1 DEF Opening
  <2>3. Fenced(d, Apply(e, q), p) BY <2>2, BehindKeepsFence
  <2> QED BY <1>1, <1>2, <2>1, <2>3
<1>5. \A k \in 1..n : k \in T
  <2> HIDE DEF T
  <2>1. 1 \in 0..n BY <1>2
  <2>2. \A k \in (1 + 1)..n : k - 1 \in T => k \in T BY <1>4
  <2> QED BY <1>3, <2>1, <2>2, FromOneToNext
<1> QED BY <1>1, <1>2, <1>5

LEMMA BatchPlain ==
  ASSUME NEW o, NEW d, NEW m \in Nat, SameUpTo(o, d, m),
         NEW reqs \in Seq(Inserts(m + 1) \cup Marks(m + 1))
  PROVE  SameUpTo(o, BatchUpdate(d, reqs), m)
<1>1. PICK f : /\ BatchUpdate(d, reqs) = f[Len(reqs)] /\ f[0] = d
               /\ \A k \in 1..Len(reqs) : f[k] = Apply(f[k - 1], reqs[k])
  <2>1. Len(reqs) \in Nat OBVIOUS
  <2> QED BY <2>1, BatchMade
<1>2. PICK n \in Nat : n = Len(reqs) OBVIOUS
<1> DEFINE T == {k \in 0..n : SameUpTo(o, f[k], m)}
<1>3. 0 \in T BY <1>1
<1>4. ASSUME NEW k \in 1..n, k - 1 \in T PROVE k \in T
  <2>1. PICK e, q : e = f[k - 1] /\ q = reqs[k] OBVIOUS
  <2>2. SameUpTo(o, e, m) /\ q \in Inserts(m + 1) \cup Marks(m + 1) BY <1>2, <1>4, <2>1
  <2>3. SameUpTo(o, Apply(e, q), m) BY <2>2, PlainKeeps
  <2> QED BY <1>1, <1>2, <2>1, <2>3
<1>5. \A k \in 0..n : k \in T
  <2> HIDE DEF T
  <2>1. 0 \in 0..n OBVIOUS
  <2>2. \A k \in (0 + 1)..n : k - 1 \in T => k \in T BY <1>4
  <2> QED BY <1>3, <2>1, <2>2, FromOneToNext
<1> QED BY <1>1, <1>2, <1>5

-----------------------------------------------------------------------------
(* convertMarkdownToRequests: the state of a conversion that works behind  *)
(* the place lo, its links and marks behind p, and whose requests are of R *)

Queries(lo, p) == Inserts(lo) \cup Marks(p)
Growing(R, lo, p) == \A r \in R : \A rs \in Seq(Queries(lo, p)) : r \o rs \in R
Anchors(p) == {a \in [from : Nat, to : Nat, tabs : Int, slug : Words] : a.from - a.tabs >= p}
Conv(lo, p, R) ==
  {c \in [reqs : R, cur : Positions(lo), tabs : Int, anchors : Seq(Anchors(p)),
          listAt : Positions(lo) \cup {0}, listKind : Words, ranges : Seq(Bullets(lo)),
          late : Seq(Marks(p)), inHeading : BOOLEAN, reset : BOOLEAN] :
     c.cur - c.tabs >= lo}
Kinds == {"text", "code", "rule", "table"}
TypedSpans == [text : Seq(Words), style : Words, anchor : Words, chip : Words]
AllSegments ==
  [text : Seq(Words), style : Words, anchor : Words, chip : Words, kind : Kinds,
   heading : Nat, list : Words, depth : Nat, rows : Seq(Seq(Seq(TypedSpans)))]

Advanced(c, rs, end) == [Emit(c, rs) EXCEPT !.cur = end]
LEMMA AdvanceKeeps ==
  ASSUME NEW lo \in Nat, NEW p \in Nat, NEW R, Growing(R, lo, p), NEW c \in Conv(lo, p, R),
         NEW rs \in Seq(Queries(lo, p)), NEW end \in Nat, end >= c.cur
  PROVE  /\ Advanced(c, rs, end) \in Conv(lo, p, R) /\ Advanced(c, rs, end).listAt = c.listAt
         /\ Advanced(c, rs, end).ranges = c.ranges
<1>1. PICK r : r = c.reqs \o rs OBVIOUS
<1>2. r \in R BY <1>1 DEF Growing, Conv
<1>3. Advanced(c, rs, end) = [c EXCEPT !.reqs = r, !.cur = end] BY <1>1 DEF Advanced, Emit, Conv
<1>4. end \in Positions(lo) /\ end - c.tabs >= lo BY DEF Conv, Positions
<1>5. PICK k : k = [c EXCEPT !.reqs = r, !.cur = end] OBVIOUS
<1>6. k \in Conv(lo, p, R) /\ k.listAt = c.listAt /\ k.ranges = c.ranges
  <2>1. /\ k.cur = end /\ k.tabs = c.tabs /\ k.listAt = c.listAt /\ k.ranges = c.ranges
        /\ k \in [reqs : R, cur : Positions(lo), tabs : Int, anchors : Seq(Anchors(p)),
          listAt : Positions(lo) \cup {0}, listKind : Words, ranges : Seq(Bullets(lo)),
          late : Seq(Marks(p)), inHeading : BOOLEAN, reset : BOOLEAN]
    BY <1>2, <1>4, <1>5 DEF Conv
  <2> QED BY <1>4, <2>1 DEF Conv
<1> QED BY <1>3, <1>5, <1>6

LEMMA CloseKeeps ==
  ASSUME NEW lo \in Nat, NEW p \in Nat, NEW R, NEW c \in Conv(lo, p, R)
  PROVE  /\ CloseList(c) \in Conv(lo, p, R) /\ CloseList(c).listAt = 0
         /\ CloseList(c).cur = c.cur /\ CloseList(c).reqs = c.reqs
         /\ CloseList(c).tabs = c.tabs /\ CloseList(c).anchors = c.anchors
         /\ c.listAt = 0 => CloseList(c) = c
<1>1. CASE c.listAt = 0 BY <1>1 DEF CloseList
<1>2. CASE c.listAt # 0
  <2>1. PICK b : b = [op |-> "bullets", from |-> c.listAt, to |-> c.cur, list |-> c.listKind]
    OBVIOUS
  <2>2. b \in Bullets(lo) BY <1>2, <2>1 DEF Bullets, Conv, Positions
  <2>3. PICK bs : bs = Append(c.ranges, b) OBVIOUS
  <2>4. bs \in Seq(Bullets(lo))
    <3>1. PICK rg \in Seq(Bullets(lo)) : rg = c.ranges BY DEF Conv
    <3>2. Append(rg, b) \in Seq(Bullets(lo)) BY <2>2
    <3> QED BY <2>3, <3>1, <3>2
  <2>5. CloseList(c) = [c EXCEPT !.listAt = 0, !.ranges = bs]
    BY <1>2, <2>1, <2>3 DEF CloseList, Conv
  <2>6. PICK k : k = [c EXCEPT !.listAt = 0, !.ranges = bs] OBVIOUS
  <2>7. /\ k.cur = c.cur /\ k.tabs = c.tabs /\ k.listAt = 0 /\ k.reqs = c.reqs
        /\ k.anchors = c.anchors
        /\ k \in [reqs : R, cur : Positions(lo), tabs : Int, anchors : Seq(Anchors(p)),
          listAt : Positions(lo) \cup {0}, listKind : Words, ranges : Seq(Bullets(lo)),
          late : Seq(Marks(p)), inHeading : BOOLEAN, reset : BOOLEAN]
    BY <2>4, <2>6 DEF Conv
  <2>8. k \in Conv(lo, p, R) BY <2>7 DEF Conv
  <2> QED BY <1>2, <2>5, <2>6, <2>7, <2>8
<1> QED BY <1>1, <1>2

LEMMA TwoOf ==
  ASSUME NEW S, NEW a \in S, NEW b \in S
  PROVE  <<a, b>> \in Seq(S)
OBVIOUS
LEMMA ThreeOf ==
  ASSUME NEW S, NEW a \in S, NEW b \in S, NEW c \in S
  PROVE  <<a, b, c>> \in Seq(S)
OBVIOUS

LEMMA RequestTypes ==
  ASSUME NEW lo \in Nat, NEW p \in Nat, p <= lo, NEW i \in Nat, i >= lo, NEW j \in Nat,
         NEW t \in Seq(Words), NEW s \in Words
  PROVE  /\ TextReq(i, t) \in Queries(lo, p) /\ ParaReq(i, j, s) \in Queries(lo, p)
         /\ StyleReq(i, j, s) \in Queries(lo, p) /\ StyleReq(i, j, s) \in Marks(p)
         /\ [op |-> "delete", from |-> i, to |-> j] \in Queries(lo, p)
         /\ [op |-> "chip", at |-> i, chip |-> s] \in Queries(lo, p)
<1>1. i \in Positions(lo) /\ i \in Positions(p) BY DEF Positions
<1>2. TextReq(i, t) \in Inserts(lo) BY <1>1 DEF Inserts, TextReq
<1>3. ParaReq(i, j, s) \in Marks(p) BY <1>1 DEF Marks, ParaReq
<1>4. StyleReq(i, j, s) \in Marks(p) BY <1>1 DEF Marks, StyleReq
<1>5. [op |-> "delete", from |-> i, to |-> j] \in Inserts(lo) BY <1>1 DEF Inserts
<1>6. [op |-> "chip", at |-> i, chip |-> s] \in Inserts(lo) BY <1>1 DEF Inserts
<1> QED BY <1>2, <1>3, <1>4, <1>5, <1>6 DEF Queries

LEMMA RuleKeeps ==
  ASSUME NEW lo \in Nat, NEW p \in Nat, p <= lo, NEW R, Growing(R, lo, p), NEW c \in Conv(lo, p, R)
  PROVE  /\ HorizontalRule(c) \in Conv(lo, p, R) /\ HorizontalRule(c).listAt = 0
         /\ c.listAt = 0 => HorizontalRule(c).ranges = c.ranges
<1>1. PICK k \in Conv(lo, p, R) :
        k = CloseList(c) /\ k.cur = c.cur /\ k.listAt = 0 /\ (c.listAt = 0 => k = c)
  BY CloseKeeps
<1>2. c.cur \in Nat /\ c.cur >= lo BY DEF Conv, Positions
<1>3. PICK i \in Nat, j \in Nat : i = c.cur /\ j = c.cur + 1 BY <1>2
<1>4. PICK nl, s : nl = <<"nl">> /\ s = "rule" OBVIOUS
<1>5. PICK a, b : a = TextReq(i, nl) /\ b = ParaReq(i, j, s) OBVIOUS
<1>6. a \in Queries(lo, p) /\ b \in Queries(lo, p)
  <2>1. nl \in Seq(Words) /\ s \in Words BY <1>4, LineBreak DEF Words
  <2> QED BY <1>2, <1>3, <1>5, <2>1, RequestTypes
<1>7. PICK rs : rs = <<a, b>> OBVIOUS
<1>8. rs \in Seq(Queries(lo, p)) BY <1>6, <1>7, TwoOf
<1>9. /\ Advanced(k, rs, j) \in Conv(lo, p, R) /\ Advanced(k, rs, j).listAt = 0
      /\ Advanced(k, rs, j).ranges = k.ranges
  <2>1. j >= k.cur BY <1>1, <1>2, <1>3
  <2> QED BY <1>1, <1>8, <2>1, AdvanceKeeps
<1>10. HorizontalRule(c) = Advanced(k, rs, j)
  BY <1>1, <1>3, <1>4, <1>5, <1>7 DEF HorizontalRule, Advanced, Emit, Conv
<1> QED BY <1>1, <1>9, <1>10

LEMMA CodeKeeps ==
  ASSUME NEW lo \in Nat, NEW p \in Nat, p <= lo, NEW R, Growing(R, lo, p), NEW c \in Conv(lo, p, R),
         NEW seg \in AllSegments, NEW last
  PROVE  CodeBlock(c, seg, last) \in Conv(lo, p, R)
<1>1. PICK k \in Conv(lo, p, R) : k = CloseList(c) /\ k.cur = c.cur BY CloseKeeps
<1>2. c.cur \in Nat /\ c.cur >= lo BY DEF Conv, Positions
<1>3. PICK text \in Seq(Words) :
        text = IF last \/ EndsLine(seg.text) THEN seg.text ELSE Append(seg.text, "nl")
  <2>1. PICK t \in Seq(Words) : t = seg.text BY DEF AllSegments
  <2>2. PICK nl \in Words : nl = "nl" BY DEF Words
  <2>3. Append(t, nl) \in Seq(Words) OBVIOUS
  <2> QED BY <2>1, <2>2, <2>3
<1>4. PICK i \in Nat, j \in Nat : i = c.cur /\ j = c.cur + Len(text) BY <1>2
<1>5. PICK s, mono : s = "normal" /\ mono = "mono" OBVIOUS
<1>6. PICK a, b, d : a = TextReq(i, text) /\ b = ParaReq(i, j, s) /\ d = StyleReq(i, j, mono)
  OBVIOUS
<1>7. a \in Queries(lo, p) /\ b \in Queries(lo, p) /\ d \in Queries(lo, p)
  <2>1. s \in Words /\ mono \in Words BY <1>5 DEF Words
  <2> QED BY <1>2, <1>4, <1>6, <2>1, RequestTypes
<1>8. PICK rs : rs = <<a, b, d>> OBVIOUS
<1>9. rs \in Seq(Queries(lo, p)) BY <1>7, <1>8, ThreeOf
<1>10. j >= k.cur BY <1>1, <1>2, <1>4
<1>11. Advanced(k, rs, j) \in Conv(lo, p, R) BY <1>9, <1>10, AdvanceKeeps
<1>12. CodeBlock(c, seg, last) = Advanced(k, rs, j)
  BY <1>1, <1>3, <1>4, <1>5, <1>6, <1>8 DEF CodeBlock, Advanced, Emit, Conv
<1> QED BY <1>11, <1>12

LEMMA ChipKeeps ==
  ASSUME NEW lo \in Nat, NEW p \in Nat, p <= lo, NEW R, Growing(R, lo, p), NEW c \in Conv(lo, p, R),
         NEW seg \in AllSegments
  PROVE  /\ Chip(c, seg) \in Conv(lo, p, R) /\ Chip(c, seg).listAt = 0
         /\ c.listAt = 0 => Chip(c, seg).ranges = c.ranges
<1>1. PICK k \in Conv(lo, p, R) :
        k = CloseList(c) /\ k.cur = c.cur /\ k.listAt = 0 /\ (c.listAt = 0 => k = c)
  BY CloseKeeps
<1>2. c.cur \in Nat /\ c.cur >= lo BY DEF Conv, Positions
<1>3. PICK i \in Nat, j \in Nat : i = c.cur /\ j = c.cur + 1 BY <1>2
<1>4. PICK sp, ps : sp = <<"sp">> /\ ps = ParagraphStyle(seg) OBVIOUS
<1>5. sp \in Seq(Words) /\ ps \in Words BY <1>4, LineBreak DEF Words, ParagraphStyle
<1>6. PICK chip \in Words, style \in Words : chip = seg.chip /\ style = seg.style
  BY DEF AllSegments
<1>7. PICK a, b, d, e, g : /\ a = TextReq(i, sp) /\ b = [op |-> "delete", from |-> i, to |-> j]
                           /\ d = [op |-> "chip", at |-> i, chip |-> chip]
                           /\ e = ParaReq(i, j, ps) /\ g = StyleReq(i, j, style)
  OBVIOUS
<1>8. /\ a \in Queries(lo, p) /\ b \in Queries(lo, p) /\ d \in Queries(lo, p)
      /\ e \in Queries(lo, p) /\ g \in Queries(lo, p)
  BY <1>2, <1>3, <1>5, <1>7, RequestTypes
<1>9. PICK placed \in Seq(Queries(lo, p)) :
        placed = IF seg.chip = "date" THEN <<a, b>> ELSE <<>>
  <2>1. <<a, b>> \in Seq(Queries(lo, p)) BY <1>8, TwoOf
  <2>2. <<>> \in Seq(Queries(lo, p)) OBVIOUS
  <2> QED BY <2>1, <2>2
<1>10. PICK styled \in Seq(Queries(lo, p)) :
        styled = IF seg.style = "plain" THEN <<>> ELSE <<g>>
  <2>1. <<g>> \in Seq(Queries(lo, p)) BY <1>8, Singleton
  <2>2. <<>> \in Seq(Queries(lo, p)) OBVIOUS
  <2> QED BY <2>1, <2>2
<1>11. PICK de \in Seq(Queries(lo, p)) : de = <<d, e>> BY <1>8, TwoOf
<1>12. PICK front \in Seq(Queries(lo, p)) : front = placed \o de BY ConcatProperties
<1>13. PICK rs \in Seq(Queries(lo, p)) : rs = front \o styled BY ConcatProperties
<1>14. /\ Advanced(k, rs, j) \in Conv(lo, p, R) /\ Advanced(k, rs, j).listAt = 0
       /\ Advanced(k, rs, j).ranges = k.ranges
  <2>1. j >= k.cur BY <1>1, <1>2, <1>3
  <2> QED BY <1>1, <2>1, AdvanceKeeps
<1>15. Chip(c, seg) = [Emit(k, rs) EXCEPT !.cur = @ + 1]
  BY <1>1, <1>3, <1>4, <1>6, <1>7, <1>9, <1>10, <1>11, <1>12, <1>13 DEF Chip
<1>16. Chip(c, seg) = Advanced(k, rs, j) BY <1>1, <1>3, <1>15 DEF Advanced, Emit, Conv
<1> QED BY <1>1, <1>14, <1>16

Headed(c) == [c EXCEPT !.inHeading = TRUE, !.late = <<>>]
LEMMA HeadingKeeps ==
  ASSUME NEW lo \in Nat, NEW p \in Nat, NEW R, NEW c \in Conv(lo, p, R)
  PROVE  /\ Headed(c) \in Conv(lo, p, R)
         /\ Headed(c).listAt = c.listAt /\ Headed(c).ranges = c.ranges
<1>1. PICK t : t = TRUE OBVIOUS
<1>2. PICK k : k = [c EXCEPT !.inHeading = t, !.late = <<>>] OBVIOUS
<1>3. k = Headed(c) BY <1>1, <1>2 DEF Headed
<1>5. t \in BOOLEAN BY <1>1
<1>6. <<>> \in Seq(Marks(p)) OBVIOUS
<1>4. /\ k.cur = c.cur /\ k.tabs = c.tabs /\ k.listAt = c.listAt /\ k.ranges = c.ranges
      /\ k \in [reqs : R, cur : Positions(lo), tabs : Int, anchors : Seq(Anchors(p)),
          listAt : Positions(lo) \cup {0}, listKind : Words, ranges : Seq(Bullets(lo)),
          late : Seq(Marks(p)), inHeading : BOOLEAN, reset : BOOLEAN]
  BY <1>2, <1>5, <1>6 DEF Conv
<1> QED BY <1>3, <1>4 DEF Conv

Listed(c, at, list) == [c EXCEPT !.listAt = at, !.listKind = list]
LEMMA ListedKeeps ==
  ASSUME NEW lo \in Nat, NEW p \in Nat, NEW R, NEW c \in Conv(lo, p, R),
         NEW at, at = c.cur, NEW list \in Words
  PROVE  /\ Listed(c, at, list) \in Conv(lo, p, R)
         /\ Listed(c, at, list).cur = c.cur /\ Listed(c, at, list).tabs = c.tabs
<1>1. PICK k : k = Listed(c, at, list) OBVIOUS
<1>2. /\ k.cur = c.cur /\ k.tabs = c.tabs
      /\ k \in [reqs : R, cur : Positions(lo), tabs : Int, anchors : Seq(Anchors(p)),
            listAt : Positions(lo) \cup {0}, listKind : Words, ranges : Seq(Bullets(lo)),
            late : Seq(Marks(p)), inHeading : BOOLEAN, reset : BOOLEAN]
  BY <1>1 DEF Conv, Listed
<1> QED BY <1>1, <1>2 DEF Conv

LEMMA TrackKeeps ==
  ASSUME NEW lo \in Nat, NEW p \in Nat, NEW R, NEW c \in Conv(lo, p, R), NEW seg \in AllSegments
  PROVE  /\ TrackList(c, seg) \in Conv(lo, p, R)
         /\ TrackList(c, seg).cur = c.cur /\ TrackList(c, seg).tabs = c.tabs
<1>1. PICK e \in Conv(lo, p, R) : e = CloseList(c) /\ e.cur = c.cur /\ e.tabs = c.tabs BY CloseKeeps
<1>a. PICK at : at = c.cur OBVIOUS
<1>2. PICK list \in Words : list = seg.list /\ at = c.cur BY <1>a DEF AllSegments
<1>3. CASE seg.list = "none" BY <1>1, <1>3 DEF TrackList
<1>4. CASE seg.list # "none" /\ c.listAt = 0
  <2>1. TrackList(c, seg) = Listed(c, at, list) BY <1>2, <1>4 DEF TrackList, Listed
  <2> QED BY <1>2, <2>1, ListedKeeps
<1>5. CASE seg.list # "none" /\ c.listAt # 0
  <2>1. CASE seg.list # c.listKind /\ seg.depth = 0
    <3>1. TrackList(c, seg) = Listed(e, at, list) BY <1>1, <1>2, <1>5, <2>1 DEF TrackList, Listed
    <3>2. at = e.cur BY <1>1, <1>2
    <3>3. /\ Listed(e, at, list) \in Conv(lo, p, R)
          /\ Listed(e, at, list).cur = e.cur /\ Listed(e, at, list).tabs = e.tabs
      BY <3>2, ListedKeeps
    <3> QED BY <1>1, <3>1, <3>3
  <2>2. CASE ~(seg.list # c.listKind /\ seg.depth = 0) BY <1>5, <2>2 DEF TrackList
  <2> QED BY <2>1, <2>2
<1> QED BY <1>3, <1>4, <1>5

(* A linked text is one line, and not of a nested item's items.            *)
Linkable(s) ==
  s.anchor # "none" =>
    /\ s.list # "none" => s.depth <= 1
    /\ \A i \in DOMAIN s.text : s.text[i] # "nl"
Even(rows) == rows # <<>> /\ \A r \in DOMAIN rows : Len(rows[r]) = Len(rows[1])
GoodSegments ==
  {s \in AllSegments : /\ Linkable(s) /\ (s.kind # "text" => s.chip = "none")
                       /\ s.kind = "table" => Even(s.rows)}

LEMMA IndentedKeeps ==
  ASSUME NEW segs \in Seq(GoodSegments), NEW i \in 1..Len(segs)
  PROVE  /\ Indented(segs, i) \in Seq(Words)
         /\ segs[i].anchor # "none" => Len(Indented(segs, i)) <= Len(segs[i].text) + 1
<1>1. PICK seg \in GoodSegments : seg = segs[i] OBVIOUS
<1>2. PICK text \in Seq(Words) : text = seg.text BY DEF GoodSegments, AllSegments
<1>3. CASE seg.list = "none"
  <2>1. Indented(segs, i) = text BY <1>1, <1>2, <1>3 DEF Indented
  <2>2. Len(text) \in Nat OBVIOUS
  <2> QED BY <1>1, <1>2, <2>1, <2>2
<1>4. CASE seg.list # "none"
  <2> DEFINE begins(k) ==
        text[k] # "nl" /\ IF k = 1 THEN ~Continues(segs, i) ELSE text[k - 1] = "nl"
  <2>1. PICK depth \in Nat : depth = seg.depth BY DEF GoodSegments, AllSegments
  <2>2. PICK tabs : tabs = [n \in 1 .. depth |-> "tab"] OBVIOUS
  <2>3. tabs \in Seq(Words) /\ Len(tabs) = depth
    <3>1. "tab" \in Words BY DEF Words
    <3>2. tabs \in [1..depth -> Words] BY <2>2, <3>1
    <3> QED BY <3>2
  <2>4. PICK parts : parts = [k \in DOMAIN text |->
                                (IF begins(k) THEN tabs ELSE <<>>) \o <<text[k]>>]
    OBVIOUS
  <2>5. Indented(segs, i) = FlattenSeq(parts)
    BY <1>1, <1>2, <1>4, <2>1, <2>2, <2>4 DEF Indented
  <2>10. PICK B : B = {k \in DOMAIN text : begins(k)} OBVIOUS
  <2>6. ASSUME NEW k \in DOMAIN text
        PROVE  /\ parts[k] \in Seq(Words)
               /\ Len(parts[k]) = IF k \in B THEN 1 + depth ELSE 1
    <3>1. PICK ch \in Words : ch = text[k] OBVIOUS
    <3>2. PICK one : one = <<ch>> OBVIOUS
    <3>3. one \in Seq(Words) /\ Len(one) = 1 BY <3>2, Singleton
    <3>4. PICK front \in Seq(Words) : front = IF k \in B THEN tabs ELSE <<>>
      <4>1. <<>> \in Seq(Words) OBVIOUS
      <4> QED BY <2>3, <4>1
    <3>5. front \o one \in Seq(Words) /\ Len(front \o one) = Len(front) + Len(one)
      BY <3>3, ConcatProperties
    <3>6. Len(front) = IF k \in B THEN depth ELSE 0 BY <2>3, <3>4
    <3>7. parts[k] = front \o one BY <2>4, <2>10, <3>1, <3>2, <3>4
    <3> QED BY <2>1, <3>3, <3>5, <3>6, <3>7
  <2>7. parts \in Seq(Seq(Words)) /\ Len(parts) = Len(text)
    <3>1. parts \in [1..Len(text) -> Seq(Words)]
      <4>1. DOMAIN text = 1..Len(text) OBVIOUS
      <4>2. parts = [k \in 1..Len(text) |-> parts[k]] BY <2>4, <4>1
      <4>3. \A k \in 1..Len(text) : parts[k] \in Seq(Words) BY <2>6, <4>1
      <4> QED BY <4>2, <4>3
    <3>2. Len(text) \in Nat OBVIOUS
    <3> QED BY <3>1, <3>2
  <2>8. Indented(segs, i) \in Seq(Words) BY <2>5, <2>7, FlattenIsSeq
  <2>9. ASSUME seg.anchor # "none" PROVE Len(Indented(segs, i)) <= Len(text) + 1
    <3>1. depth <= 1 /\ \A k \in DOMAIN text : text[k] # "nl"
      BY <1>2, <1>4, <2>1, <2>9 DEF GoodSegments, Linkable
    <3>2. ASSUME NEW k \in 1..Len(parts) PROVE Len(parts[k]) <= IF k = 1 THEN 1 + 1 ELSE 1
      <4>1. k \in DOMAIN text BY <2>7
      <4>2. CASE k = 1
        <5>1. Len(parts[k]) = 1 \/ Len(parts[k]) = 1 + depth BY <2>6, <4>1
        <5>2. PICK x : x = Len(parts[k]) OBVIOUS
        <5>3. depth \in {0, 1} BY <2>1, <3>1
        <5>6. 1 + depth = 1 \/ 1 + depth = 2 BY <5>3
        <5>4. x = 1 \/ x = 2 BY <5>1, <5>2, <5>6, Zenon
        <5>5. x <= 1 + 1 BY <5>4
        <5> QED BY <4>2, <5>2, <5>5
      <4>3. CASE k # 1
        <5>1. k - 1 \in DOMAIN text BY <4>1, <4>3
        <5>2. k \notin B BY <2>10, <3>1, <4>3, <5>1
        <5>3. Len(parts[k]) = 1 BY <2>6, <4>1, <5>2
        <5> QED BY <4>3, <5>3
      <4> QED BY <4>2, <4>3
    <3>3. PICK w \in Nat : w = 1 OBVIOUS
    <3>4. \A k \in 1..Len(parts) : Len(parts[k]) <= IF k = 1 THEN 1 + w ELSE 1 BY <3>2, <3>3
    <3>5. Len(FlattenSeq(parts)) <= Len(parts) + w BY <2>7, <3>4, FlattenLength
    <3> QED BY <2>5, <2>7, <3>3, <3>5
  <2> QED BY <1>1, <1>2, <2>8, <2>9
<1> QED BY <1>3, <1>4

Written(c, rs, end, tabs, anchors, late, inHeading, reset) ==
  [Emit(c, rs) EXCEPT !.cur = end, !.tabs = tabs, !.anchors = anchors,
                      !.late = late, !.inHeading = inHeading, !.reset = reset]
LEMMA WrittenInto ==
  ASSUME NEW lo \in Nat, NEW p \in Nat, NEW R, NEW lo0 \in Nat, NEW R0, NEW c \in Conv(lo0, p, R0),
         NEW rs, c.reqs \o rs \in R, NEW end \in Nat, NEW tabs \in Int,
         c.listAt \in Positions(lo) \cup {0}, c.ranges \in Seq(Bullets(lo)),
         end >= lo, end - tabs >= lo,
         NEW as \in Seq(Anchors(p)), NEW late \in Seq(Marks(p)), NEW h \in BOOLEAN, NEW g \in BOOLEAN
  PROVE  Written(c, rs, end, tabs, as, late, h, g) \in Conv(lo, p, R)
<1>1. PICK r \in R : r = c.reqs \o rs OBVIOUS
<1>2. PICK k : k = [c EXCEPT !.reqs = r, !.cur = end, !.tabs = tabs, !.anchors = as,
                             !.late = late, !.inHeading = h, !.reset = g]
  OBVIOUS
<1>3. Written(c, rs, end, tabs, as, late, h, g) = k BY <1>1, <1>2 DEF Written, Emit, Conv
<1>4. end \in Positions(lo) BY DEF Positions
<1>5. /\ k.cur = end /\ k.tabs = tabs
      /\ k \in [reqs : R, cur : Positions(lo), tabs : Int, anchors : Seq(Anchors(p)),
            listAt : Positions(lo) \cup {0}, listKind : Words, ranges : Seq(Bullets(lo)),
            late : Seq(Marks(p)), inHeading : BOOLEAN, reset : BOOLEAN]
  BY <1>1, <1>2, <1>4 DEF Conv
<1> QED BY <1>3, <1>5 DEF Conv

LEMMA WrittenKeeps ==
  ASSUME NEW lo \in Nat, NEW p \in Nat, NEW R, Growing(R, lo, p), NEW c \in Conv(lo, p, R),
         NEW rs \in Seq(Queries(lo, p)), NEW end \in Nat, NEW tabs \in Int,
         end >= lo, end - tabs >= lo,
         NEW as \in Seq(Anchors(p)), NEW late \in Seq(Marks(p)), NEW h \in BOOLEAN, NEW g \in BOOLEAN
  PROVE  Written(c, rs, end, tabs, as, late, h, g) \in Conv(lo, p, R)
<1>1. c.reqs \o rs \in R BY DEF Growing, Conv
<1>2. c.listAt \in Positions(lo) \cup {0} /\ c.ranges \in Seq(Bullets(lo)) BY DEF Conv
<1> QED BY <1>1, <1>2, WrittenInto

LEMMA StartIsConv ==
  ASSUME NEW lo \in Nat, NEW p \in Nat, NEW R, <<>> \in R, NEW at \in Nat, at >= lo
  PROVE  Start(at) \in Conv(lo, p, R)
<1>1. PICK k : k = Start(at) OBVIOUS
<1>2. PICK n, x, y : n = "none" /\ x = FALSE /\ y = TRUE OBVIOUS
<1>3. n \in Words BY <1>2 DEF Words
<1>4. x \in BOOLEAN /\ y \in BOOLEAN BY <1>2
<1>5. k = [reqs |-> <<>>, cur |-> at, tabs |-> 0, anchors |-> <<>>, listAt |-> 0, listKind |-> n,
           ranges |-> <<>>, late |-> <<>>, inHeading |-> x, reset |-> y]
  BY <1>1, <1>2 DEF Start
<1>6. at \in Positions(lo) BY DEF Positions
<1>7. <<>> \in Seq(Anchors(p)) /\ <<>> \in Seq(Bullets(lo)) /\ <<>> \in Seq(Marks(p)) OBVIOUS
<1>8. /\ k.cur = at /\ k.tabs = 0
      /\ k \in [reqs : R, cur : Positions(lo), tabs : Int, anchors : Seq(Anchors(p)),
            listAt : Positions(lo) \cup {0}, listKind : Words, ranges : Seq(Bullets(lo)),
            late : Seq(Marks(p)), inHeading : BOOLEAN, reset : BOOLEAN]
  BY <1>3, <1>4, <1>5, <1>6, <1>7
<1> QED BY <1>1, <1>8 DEF Conv

LEMMA TextKeeps ==
  ASSUME NEW lo \in Nat, NEW p \in Nat, p + 1 <= lo, NEW R, Growing(R, lo, p), NEW c \in Conv(lo, p, R),
         NEW segs \in Seq(GoodSegments), NEW i \in 1..Len(segs)
  PROVE  Text(c, segs, i) \in Conv(lo, p, R)
<1>1. PICK seg \in GoodSegments : seg = segs[i] OBVIOUS
<1>2. seg \in AllSegments BY DEF GoodSegments
<1>3. PICK k \in Conv(lo, p, R) : k = TrackList(c, seg) BY <1>2, TrackKeeps
<1>4. PICK cur \in Nat, t0 \in Int : cur = k.cur /\ t0 = k.tabs /\ cur >= lo /\ cur - t0 >= lo
  BY DEF Conv, Positions
<1>5. PICK ind \in Seq(Words) :
        /\ ind = Indented(segs, i)
        /\ seg.anchor # "none" => Len(ind) <= Len(seg.text) + 1
  BY <1>1, IndentedKeeps
<1>6. PICK own \in Seq(Words), style \in Words, slug \in Words :
        own = seg.text /\ style = seg.style /\ slug = seg.anchor
  BY <1>2 DEF AllSegments
<1>7. PICK text \in Seq(Words) : text = TextOf(segs, i) /\ Len(text) >= Len(ind)
  <2>1. PICK nl \in Words : nl = "nl" BY DEF Words
  <2>2. Append(ind, nl) \in Seq(Words) /\ Len(Append(ind, nl)) = Len(ind) + 1 BY <1>5
  <2>3. PICK m \in Nat : m = Len(ind) BY <1>5, LenProperties, Zenon
  <2>4. PICK t : t = TextOf(segs, i) OBVIOUS
  <2>5. t = Append(ind, nl) \/ t = ind BY <1>5, <2>1, <2>4 DEF TextOf
  <2>7. m + 1 >= m /\ m >= m BY <2>3
  <2>6. t \in Seq(Words) /\ Len(t) >= Len(ind) BY <1>5, <2>2, <2>3, <2>5, <2>7, Zenon
  <2> QED BY <2>4, <2>6
<1>8. PICK size \in Nat, bare \in Nat, grown \in Nat :
        size = Len(text) /\ bare = Len(own) /\ grown = Len(ind) /\ size >= grown
  <2>1. Len(text) \in Nat /\ Len(own) \in Nat /\ Len(ind) \in Nat BY <1>5, <1>6, <1>7, LenProperties
  <2> QED BY <1>7, <2>1, Zenon
<1>9. PICK end \in Nat, tabs \in Int : end = cur + size /\ tabs = t0 + grown - bare
  <2>1. cur + size \in Nat /\ t0 + grown - bare \in Int BY <1>4, <1>8, SumsAreNumbers
  <2> QED BY <2>1, Zenon
<1>10. end >= lo /\ end - tabs >= lo /\ (slug # "none" => cur - tabs >= p)
  <2>1. slug # "none" => grown <= bare + 1 BY <1>5, <1>6, <1>8, Zenon
  <2>2. /\ cur + size >= lo
        /\ (cur + size) - (t0 + grown - bare) >= lo
        /\ grown <= bare + 1 => cur - (t0 + grown - bare) >= p
    BY <1>4, <1>8, EndsBehind
  <2> QED BY <1>9, <2>1, <2>2, Zenon
<1>11. PICK mark \in Marks(p), normal \in Marks(p), heading \in Marks(p), req \in Queries(lo, p) :
         /\ mark = StyleReq(cur, end, style)
         /\ normal = ParaReq(cur, end, "normal") /\ heading = ParaReq(cur, end, "heading")
         /\ req = TextReq(cur, text)
  <2>1. PICK n, h : n = "normal" /\ h = "heading" OBVIOUS
  <2>2. n \in Words /\ h \in Words BY <2>1 DEF Words
  <2>3. cur \in Positions(p) BY <1>4 DEF Positions
  <2>4. StyleReq(cur, end, style) \in Marks(p) BY <2>3 DEF Marks, StyleReq
  <2>5. ParaReq(cur, end, n) \in Marks(p) BY <2>2, <2>3 DEF Marks, ParaReq
  <2>6. ParaReq(cur, end, h) \in Marks(p) BY <2>2, <2>3 DEF Marks, ParaReq
  <2>7. TextReq(cur, text) \in Queries(lo, p)
    <3>1. p <= lo OBVIOUS
    <3> QED BY <1>4, <2>2, <3>1, RequestTypes
  <2> QED BY <2>1, <2>4, <2>5, <2>6, <2>7
<1>12. PICK styled \in Seq(Marks(p)) : styled = Styled(k, seg, end)
  <2>1. PICK was \in Seq(Marks(p)) : was = k.late BY DEF Conv
  <2>2. Append(was, mark) \in Seq(Marks(p)) BY <1>11
  <2> QED BY <1>4, <1>6, <1>11, <2>1, <2>2 DEF Styled
<1>13. PICK as \in Seq(Anchors(p)) : as = Anchored(k, seg, end, tabs)
  <2>1. PICK was \in Seq(Anchors(p)) : was = k.anchors BY DEF Conv
  <2>2. CASE seg.anchor = "none" BY <2>1, <2>2 DEF Anchored
  <2>3. CASE seg.anchor # "none"
    <3>1. PICK a : a = [from |-> cur, to |-> end, tabs |-> tabs, slug |-> slug] OBVIOUS
    <3>2. a \in Anchors(p) BY <1>4, <1>6, <1>9, <1>10, <2>3, <3>1 DEF Anchors
    <3>3. Append(was, a) \in Seq(Anchors(p)) BY <3>2
    <3>4. Anchored(k, seg, end, tabs) = Append(was, a)
      BY <1>4, <1>6, <2>1, <2>3, <3>1 DEF Anchored
    <3> QED BY <3>3, <3>4
  <2> QED BY <2>2, <2>3
<1>14. PICK paragraph \in Seq(Marks(p)) :
         paragraph = IF IsNormal(k, seg) THEN <<normal>> ELSE <<>>
  <2>1. <<normal>> \in Seq(Marks(p)) /\ <<>> \in Seq(Marks(p)) BY <1>11, Singleton
  <2> QED BY <2>1
<1>15. PICK styles \in Seq(Marks(p)) :
         styles = IF EndsHeading(segs, i) THEN <<heading>> \o styled
                  ELSE IF k.inHeading THEN <<>> ELSE styled
  <2>1. PICK one \in Seq(Marks(p)) : one = <<heading>> BY <1>11, Singleton
  <2>2. one \o styled \in Seq(Marks(p)) BY <1>12, <2>1, ConcatProperties
  <2>3. <<>> \in Seq(Marks(p)) OBVIOUS
  <2> QED BY <1>12, <2>1, <2>2, <2>3
<1>16. PICK both \in Seq(Marks(p)) : both = TextStyles(k, segs, i, end)
  <2>1. paragraph \o styles \in Seq(Marks(p)) BY <1>14, <1>15, ConcatProperties
  <2>2. TextStyles(k, segs, i, end) = paragraph \o styles
    BY <1>1, <1>4, <1>11, <1>12, <1>14, <1>15, Zenon DEF TextStyles
  <2> QED BY <2>1, <2>2
<1>17. PICK late \in Seq(Marks(p)) :
         late = IF k.inHeading /\ ~EndsHeading(segs, i) THEN styled ELSE <<>>
  <2>1. <<>> \in Seq(Marks(p)) OBVIOUS
  <2> QED BY <1>12, <2>1
<1>18. PICK h \in BOOLEAN : h = (k.inHeading /\ ~EndsHeading(segs, i)) BY Zenon
<1>19. PICK g \in BOOLEAN : g = (\/ EndsHeading(segs, i)
                                 \/ (seg.heading = 0 /\ EndsLine(text))
                                 \/ (k.reset /\ ~IsNormal(k, seg)))
  BY Zenon
<1>20. PICK rs \in Seq(Queries(lo, p)) : rs = <<req>> \o both
  <2>1. Marks(p) \subseteq Queries(lo, p) BY DEF Queries
  <2>2. both \in Seq(Queries(lo, p)) BY <1>16, <2>1, SeqMonotonic
  <2>3. PICK one \in Seq(Queries(lo, p)) : one = <<req>> BY <1>11, Singleton
  <2>4. one \o both \in Seq(Queries(lo, p)) BY <2>2, <2>3, ConcatProperties
  <2> QED BY <2>3, <2>4
<1>21. Text(c, segs, i) = Written(k, rs, end, tabs, as, late, h, g)
  <2>1. PICK e : e = Emit(k, rs) OBVIOUS
  <2>2. e.inHeading = k.inHeading /\ e.reset = k.reset BY <1>3, <2>1 DEF Emit, Conv
  <2>3. /\ seg = segs[i] /\ k = TrackList(c, seg) /\ cur = k.cur /\ own = seg.text
        /\ text = TextOf(segs, i) /\ end = cur + Len(text)
        /\ tabs = k.tabs + Len(Indented(segs, i)) - Len(own)
        /\ rs = <<TextReq(cur, text)>> \o TextStyles(k, segs, i, end)
        /\ as = Anchored(k, seg, end, tabs) /\ styled = Styled(k, seg, end)
    BY <1>1, <1>3, <1>4, <1>5, <1>6, <1>7, <1>8, <1>9, <1>11, <1>12, <1>13, <1>16, <1>20
  <2> QED BY <1>17, <1>18, <1>19, <2>1, <2>2, <2>3, Zenon DEF Text, Written
<1>22. Written(k, rs, end, tabs, as, late, h, g) \in Conv(lo, p, R)
  BY <1>3, <1>9, <1>10, <1>13, <1>17, <1>18, <1>19, <1>20, WrittenKeeps
<1> QED BY <1>21, <1>22

LEMMA SegmentKeeps ==
  ASSUME NEW lo \in Nat, NEW p \in Nat, p + 1 <= lo, NEW R, Growing(R, lo, p), NEW c \in Conv(lo, p, R),
         NEW segs \in Seq(GoodSegments), NEW i \in 1..Len(segs)
  PROVE  ConvertSegment(segs, c, i) \in Conv(lo, p, R)
<1>1. PICK seg \in AllSegments : seg = segs[i] BY DEF GoodSegments
<1>2. p <= lo OBVIOUS
<1>3. PICK k \in Conv(lo, p, R) :
        k = IF seg.heading > 0 /\ (i = 1 \/ segs[i - 1].heading # seg.heading)
            THEN [c EXCEPT !.inHeading = TRUE, !.late = <<>>] ELSE c
  BY HeadingKeeps, Zenon DEF Headed
<1>4. HorizontalRule(c) \in Conv(lo, p, R) BY <1>2, RuleKeeps
<1>5. CodeBlock(c, seg, i = Len(segs)) \in Conv(lo, p, R)
  <2>1. PICK last : last = (i = Len(segs)) OBVIOUS
  <2> QED BY <1>1, <1>2, <2>1, CodeKeeps, Zenon
<1>6. Chip(k, seg) \in Conv(lo, p, R) BY <1>1, <1>2, <1>3, ChipKeeps
<1>7. Text(k, segs, i) \in Conv(lo, p, R) BY <1>3, TextKeeps
<1> QED BY <1>1, <1>3, <1>4, <1>5, <1>6, <1>7, Zenon DEF ConvertSegment

(* A segment without text, or a chip. *)
Bare(s) == s.text = <<>> \/ s.chip # "none"
LEMMA BareKeeps ==
  ASSUME NEW p \in Nat, NEW R, Growing(R, p, p), NEW c \in Conv(p, p, R),
         c.listAt = 0, c.ranges = <<>>,
         NEW segs \in Seq(GoodSegments), NEW i \in 1..Len(segs), Bare(segs[i])
  PROVE  /\ ConvertSegment(segs, c, i) \in Conv(p, p, R)
         /\ ConvertSegment(segs, c, i).listAt = 0 /\ ConvertSegment(segs, c, i).ranges = <<>>
<1>1. PICK seg \in AllSegments : seg = segs[i] /\ (seg.kind # "text" => seg.chip = "none")
  BY DEF GoodSegments
<1>2. p <= p OBVIOUS
<1>3. PICK k \in Conv(p, p, R) :
        /\ k = IF seg.heading > 0 /\ (i = 1 \/ segs[i - 1].heading # seg.heading)
               THEN [c EXCEPT !.inHeading = TRUE, !.late = <<>>] ELSE c
        /\ k.listAt = 0 /\ k.ranges = <<>>
  BY HeadingKeeps, Zenon DEF Headed
<1>4. CASE seg.kind = "rule"
  <2>1. HorizontalRule(c) \in Conv(p, p, R) /\ HorizontalRule(c).listAt = 0
        /\ HorizontalRule(c).ranges = <<>>
    BY <1>2, RuleKeeps
  <2>2. ConvertSegment(segs, c, i) = HorizontalRule(c) BY <1>1, <1>4, Zenon DEF ConvertSegment
  <2> QED BY <2>1, <2>2
<1>5. CASE seg.kind # "rule" /\ seg.chip = "none"
  <2>1. ConvertSegment(segs, c, i) = c BY <1>1, <1>5, Zenon DEF ConvertSegment, Bare
  <2> QED BY <2>1
<1>6. CASE seg.kind # "rule" /\ seg.chip # "none"
  <2>1. Chip(k, seg) \in Conv(p, p, R) /\ Chip(k, seg).listAt = 0 /\ Chip(k, seg).ranges = <<>>
    <3>1. PICK e \in Conv(p, p, R), s \in AllSegments : e = k /\ s = seg BY <1>1, <1>3
    <3>2. /\ Chip(e, s) \in Conv(p, p, R) /\ Chip(e, s).listAt = 0
          /\ e.listAt = 0 => Chip(e, s).ranges = e.ranges
      BY <1>2, ChipKeeps
    <3> QED BY <1>3, <3>1, <3>2
  <2>2. seg.kind = "text" BY <1>1, <1>6
  <2>3. seg.kind # "code" BY <2>2
  <2>4. ConvertSegment(segs, c, i) = Chip(k, seg)
    BY <1>1, <1>3, <1>6, <2>2, <2>3, Zenon DEF ConvertSegment
  <2> QED BY <2>1, <2>4
<1> QED BY <1>4, <1>5, <1>6

LEMMA OpeningMade ==
  ASSUME NEW p \in Nat, NEW a \in FirstReq(p), NEW rest \in Seq(Behind(p))
  PROVE  <<a>> \o rest \in Opening(p)
<1>1. PICK one : one = <<a>> OBVIOUS
<1>2. PICK S : S = FirstReq(p) \cup Behind(p) OBVIOUS
<1>3. one \in Seq(S) /\ Len(one) = 1 /\ one[1] = a BY <1>1, <1>2
<1>4. rest \in Seq(S) /\ Len(rest) \in Nat BY <1>2, SeqMonotonic
<1>5. PICK rs : rs = one \o rest OBVIOUS
<1>6. /\ rs \in Seq(S) /\ Len(rs) = 1 + Len(rest)
      /\ \A k \in 1..(1 + Len(rest)) : rs[k] = IF k <= 1 THEN one[k] ELSE rest[k - 1]
  <2>1. /\ one \o rest \in Seq(S) /\ Len(one \o rest) = Len(one) + Len(rest)
        /\ \A k \in 1..(Len(one) + Len(rest)) :
             (one \o rest)[k] = IF k <= Len(one) THEN one[k] ELSE rest[k - Len(one)]
    BY <1>3, <1>4, ConcatProperties
  <2> QED BY <1>3, <1>5, <2>1
<1>7. rs[1] = a /\ rs # <<>> BY <1>3, <1>4, <1>6
<1>8. ASSUME NEW k \in 2..Len(rs) PROVE rs[k] \in Behind(p)
  <2>1. k \in 1..(1 + Len(rest)) /\ ~(k <= 1) /\ k - 1 \in 1..Len(rest) BY <1>4, <1>6
  <2>2. rs[k] = rest[k - 1] BY <1>6, <2>1
  <2> QED BY <2>1, <2>2
<1> QED BY <1>1, <1>2, <1>5, <1>6, <1>7, <1>8 DEF Opening

(* The text that begins with the line break. *)
Fence(s) ==
  /\ s.kind = "text" /\ s.chip = "none" /\ s.anchor = "none" /\ s.list = "none"
  /\ s.heading = 0 /\ s.text # <<>> /\ s.text[1] = "nl"
LEMMA FenceKeeps ==
  ASSUME NEW p \in Nat \ {0}, NEW segs \in Seq(GoodSegments), segs # <<>>, Fence(segs[1])
  PROVE  ConvertSegment(segs, Start(p), 1) \in Conv(p + 1, p, Opening(p))
<1>1. PICK seg \in AllSegments : seg = segs[1] BY DEF GoodSegments
<1>2. PICK c : c = Start(p) OBVIOUS
<1>3. /\ c.cur = p /\ c.tabs = 0 /\ c.reqs = <<>> /\ c.listAt = 0 /\ c.anchors = <<>>
      /\ c.late = <<>> /\ c.inHeading = FALSE /\ c.reset = TRUE /\ c.ranges = <<>>
      /\ c.listKind = "none"
  BY <1>2 DEF Start
<1>4. ConvertSegment(segs, c, 1) = Text(c, segs, 1)
  <2>1. seg.heading = 0 /\ ~(seg.heading > 0) /\ seg.kind # "rule" /\ seg.kind # "code"
        /\ seg.text # <<>> /\ seg.chip = "none"
    BY <1>1 DEF Fence
  <2> QED BY <1>1, <2>1, Zenon DEF ConvertSegment
<1>5. TrackList(c, seg) = c BY <1>1, <1>3 DEF TrackList, CloseList, Fence
<1>6. PICK text \in Seq(Words) : text = seg.text BY DEF AllSegments
<1>7. Indented(segs, 1) = text BY <1>1, <1>6 DEF Indented, Fence
<1>8. ~EndsHeading(segs, 1) BY <1>1 DEF EndsHeading, Fence
<1>9. TextOf(segs, 1) = text BY <1>7, <1>8, Zenon DEF TextOf
<1>10. PICK size \in Nat, end \in Nat : size = Len(text) /\ end = p + size /\ size >= 1
  <2>1. Len(text) \in Nat /\ Len(text) >= 1 BY <1>1, <1>6 DEF Fence
  <2> QED BY <2>1
<1>11. PICK a, b, d, style : /\ a = TextReq(p, text) /\ b = ParaReq(p, end, "normal")
                             /\ d = StyleReq(p, end, style) /\ style = seg.style
  OBVIOUS
<1>12. a \in FirstReq(p) /\ b \in Behind(p) /\ d \in Behind(p)
  <2>1. p \in Positions(p) BY DEF Positions
  <2>2. PICK n : n = "normal" OBVIOUS
  <2>3. n \in Words /\ style \in Words BY <1>11, <2>2 DEF Words, AllSegments
  <2>4. ParaReq(p, end, n) \in Marks(p) /\ StyleReq(p, end, style) \in Marks(p)
    BY <1>10, <2>1, <2>3 DEF Marks, ParaReq, StyleReq
  <2>5. b \in Behind(p) /\ d \in Behind(p) BY <1>11, <2>2, <2>4 DEF Behind
  <2>6. a = [op |-> "text", at |-> p, text |-> text] BY <1>11 DEF TextReq
  <2>7. a \in [op : {"text"}, at : {p}, text : Seq(Words)] BY <1>6, <2>6
  <2>8. a.text # <<>> /\ a.text[1] = "nl" BY <1>1, <1>6, <2>6 DEF Fence
  <2> QED BY <2>5, <2>7, <2>8 DEF FirstReq
<1>13. PICK rest \in Seq(Behind(p)) : rest = <<b>> \o <<d>>
  <2>1. PICK x \in Seq(Behind(p)), y \in Seq(Behind(p)) : x = <<b>> /\ y = <<d>>
    BY <1>12, Singleton
  <2>2. x \o y \in Seq(Behind(p)) BY <2>1, ConcatProperties
  <2> QED BY <2>1, <2>2
<1>14. PICK rs \in Opening(p) : rs = <<a>> \o rest BY <1>12, <1>13, OpeningMade
<1>15. TextStyles(c, segs, 1, end) = rest
  <2>1. IsNormal(c, seg) BY <1>1, <1>3 DEF IsNormal, Fence
  <2>2. Styled(c, seg, end) = <<d>> BY <1>3, <1>11 DEF Styled
  <2> QED BY <1>1, <1>3, <1>8, <1>11, <1>13, <2>1, <2>2, Zenon DEF TextStyles
<1>16. <<TextReq(p, text)>> \o TextStyles(c, segs, 1, end) = rs BY <1>11, <1>14, <1>15
<1>17. PICK tabs \in Int : tabs = 0 /\ tabs = c.tabs + Len(text) - Len(text)
  BY <1>3, <1>10
<1>18. Anchored(c, seg, end, tabs) = <<>> BY <1>1, <1>3 DEF Anchored, Fence
<1>19. PICK f \in BOOLEAN : f = FALSE BY Zenon
<1>20. PICK g \in BOOLEAN : g = (\/ EndsHeading(segs, 1)
                                 \/ (seg.heading = 0 /\ EndsLine(text))
                                 \/ (c.reset /\ ~IsNormal(c, seg)))
  BY Zenon
<1>21. Text(c, segs, 1) = Written(c, rs, end, tabs, <<>>, <<>>, f, g)
  <2>1. PICK e : e = Emit(c, rs) OBVIOUS
  <2>2. e.inHeading = c.inHeading /\ e.reset = c.reset BY <1>2, <2>1 DEF Emit, Start
  <2>3. /\ end = c.cur + Len(text) /\ tabs = c.tabs + Len(text) - Len(text) /\ c.cur = p
    BY <1>3, <1>10, <1>17
  <2>4. f = (c.inHeading /\ ~EndsHeading(segs, 1)) BY <1>3, <1>19, Zenon
  <2>5. (IF c.inHeading /\ ~EndsHeading(segs, 1) THEN Styled(c, seg, end) ELSE <<>>) = <<>>
    BY <1>3, Zenon
  <2> QED BY <1>1, <1>5, <1>6, <1>7, <1>9, <1>16, <1>18, <1>20, <2>1, <2>2, <2>3, <2>4, <2>5, Zenon
          DEF Text, Written
<1>22. Written(c, rs, end, tabs, <<>>, <<>>, f, g) \in Conv(p + 1, p, Opening(p))
  <2>1. end >= p + 1 /\ end - tabs >= p + 1 /\ p + 1 \in Nat BY <1>10, <1>17
  <2>2. PICK R : R = {<<>>} OBVIOUS
  <2>3. c \in Conv(p, p, R)
    <3>1. <<>> \in R /\ p >= p /\ p \in Nat BY <2>2
    <3> QED BY <1>2, <3>1, StartIsConv
  <2>4. c.reqs \o rs \in Opening(p)
    <3>1. <<>> \o rs = rs BY <1>14 DEF Opening
    <3> QED BY <1>3, <1>14, <3>1
  <2>5. c.listAt \in Positions(p + 1) \cup {0} /\ c.ranges \in Seq(Bullets(p + 1)) BY <1>3
  <2>6. PICK as \in Seq(Anchors(p)), late \in Seq(Marks(p)) : as = <<>> /\ late = <<>>
    <3>1. <<>> \in Seq(Anchors(p)) /\ <<>> \in Seq(Marks(p)) OBVIOUS
    <3> QED BY <3>1
  <2>7. PICK lo \in Nat : lo = p + 1 OBVIOUS
  <2>8. Written(c, rs, end, tabs, as, late, f, g) \in Conv(lo, p, Opening(p))
    BY <1>10, <1>17, <1>19, <1>20, <2>1, <2>3, <2>4, <2>5, <2>6, <2>7, WrittenInto
  <2> QED BY <2>6, <2>7, <2>8
<1> QED BY <1>2, <1>4, <1>21, <1>22

Merged(parsed, strip) ==
  IF strip THEN Stripped(mergeSegments(parsed)) ELSE mergeSegments(parsed)
Converted(c) == [reqs |-> c.reqs \o c.ranges, final |-> FinalIndex(c), anchors |-> c.anchors]

LEMMA ConvertMade ==
  ASSUME NEW parsed, NEW at, NEW strip, NEW segs, segs = Merged(parsed, strip), Len(segs) \in Nat
  PROVE  \E f : /\ convertMarkdownToRequests(parsed, at, strip) = Converted(CloseList(f[Len(segs)]))
                /\ f[0] = Start(at)
                /\ \A k \in 1..Len(segs) : f[k] = ConvertSegment(segs, f[k - 1], k)
<1> DEFINE IsMade(f, m) ==
             f = [k \in 0..m |-> IF k = 0 THEN Start(at) ELSE ConvertSegment(segs, f[k - 1], k)]
           T == {m \in Nat : \E f : IsMade(f, m)}
<1>1. 0 \in T
  <2>1. PICK f : f = [k \in 0..0 |-> Start(at)] OBVIOUS
  <2>2. IsMade(f, 0) BY <2>1
  <2> QED BY <2>2
<1>2. ASSUME NEW m \in T PROVE m + 1 \in T
  <2>1. PICK f : IsMade(f, m) OBVIOUS
  <2>2. PICK n \in Nat : n = m + 1 OBVIOUS
  <2>3. PICK g : g = [k \in 0..n |-> IF k = n THEN ConvertSegment(segs, f[m], n) ELSE f[k]] OBVIOUS
  <2>4. ASSUME NEW k \in 0..n
        PROVE  g[k] = IF k = 0 THEN Start(at) ELSE ConvertSegment(segs, g[k - 1], k)
    <3>1. m \in Nat /\ m \in 0..n /\ m # n /\ n # 0 BY <2>2
    <3>2. g[m] = f[m] BY <2>3, <3>1
    <3>3. CASE k = n
      <4>1. k # 0 /\ k - 1 = m BY <2>2, <3>1, <3>3
      <4>2. g[k] = ConvertSegment(segs, f[m], k) BY <2>3, <3>3
      <4> QED BY <3>2, <4>1, <4>2
    <3>4. CASE k # n
      <4>1. k \in 0..m /\ g[k] = f[k] BY <2>2, <2>3, <3>1, <3>4
      <4>2. f[k] = IF k = 0 THEN Start(at) ELSE ConvertSegment(segs, f[k - 1], k)
        BY <2>1, <4>1
      <4>3. k # 0 => k - 1 \in 0..n /\ k - 1 # n BY <2>2, <3>1, <4>1
      <4>4. k # 0 => g[k - 1] = f[k - 1] BY <2>3, <4>3
      <4> QED BY <4>1, <4>2, <4>4
    <3> QED BY <3>3, <3>4
  <2>5. g = [k \in 0..n |-> g[k]] BY <2>3
  <2>6. IsMade(g, n) BY <2>4, <2>5
  <2>7. \E h : IsMade(h, n) BY <2>6
  <2> HIDE DEF IsMade
  <2> QED BY <2>2, <2>7
<1>3. T = Nat
  <2> HIDE DEF T
  <2>1. T \in SUBSET Nat BY DEF T
  <2> QED BY <1>1, <1>2, <2>1, NatSet
<1>4. \E f : IsMade(f, Len(segs)) BY <1>3
<1>5. PICK f : f = CHOOSE g : IsMade(g, Len(segs)) OBVIOUS
<1>6. convertMarkdownToRequests(parsed, at, strip) = Converted(CloseList(f[Len(segs)]))
  BY <1>5, Zenon DEF convertMarkdownToRequests, Steps, Merged, Converted
<1>7. IsMade(f, Len(segs)) BY <1>4, <1>5, Zenon
<1>8. f[0] = Start(at) BY <1>7
<1>9. ASSUME NEW k \in 1..Len(segs) PROVE f[k] = ConvertSegment(segs, f[k - 1], k)
  <2>1. k \in 0..Len(segs) /\ k # 0 OBVIOUS
  <2> QED BY <1>7, <2>1
<1> HIDE DEF IsMade, T
<1>10. PICK n : n = Len(segs) OBVIOUS
<1>11. \A k \in 1..n : f[k] = ConvertSegment(segs, f[k - 1], k) BY <1>9, <1>10
<1> QED BY <1>6, <1>8, <1>10, <1>11, Zenon

(* Requests behind the line break: marks may touch it.                     *)
LEMMA BehindGrows ==
  ASSUME NEW lo \in Nat, NEW p \in Nat, p + 1 <= lo
  PROVE  /\ Growing(Seq(Behind(p)), lo, p) /\ Growing(Opening(p), lo, p)
         /\ \A r \in Seq(Behind(p)), bs \in Seq(Bullets(lo)) : r \o bs \in Seq(Behind(p))
         /\ \A r \in Opening(p), bs \in Seq(Bullets(lo)) : r \o bs \in Opening(p)
<1>1. Positions(lo) \subseteq Positions(p + 1) BY DEF Positions
<1>2. Queries(lo, p) \subseteq Behind(p)
  <2>1. Inserts(lo) \subseteq Inserts(p + 1) BY <1>1 DEF Inserts
  <2> QED BY <2>1 DEF Queries, Behind
<1>3. Bullets(lo) \subseteq Behind(p)
  <2>1. Bullets(lo) \subseteq Bullets(p + 1) BY <1>1 DEF Bullets
  <2> QED BY <2>1 DEF Behind
<1>4. ASSUME NEW r \in Seq(Behind(p)), NEW rs \in Seq(Behind(p)) PROVE r \o rs \in Seq(Behind(p))
  BY ConcatProperties
<1>5. ASSUME NEW r \in Opening(p), NEW rs \in Seq(Behind(p)) PROVE r \o rs \in Opening(p)
  <2>1. PICK S : S = FirstReq(p) \cup Behind(p) OBVIOUS
  <2>2. r \in Seq(S) /\ r # <<>> /\ Len(r) \in Nat /\ Len(r) >= 1 BY <2>1 DEF Opening
  <2>3. rs \in Seq(S) /\ Len(rs) \in Nat BY <2>1, SeqMonotonic
  <2>4. PICK e : e = r \o rs OBVIOUS
  <2>5. /\ e \in Seq(S) /\ Len(e) = Len(r) + Len(rs)
        /\ \A k \in 1..(Len(r) + Len(rs)) : e[k] = IF k <= Len(r) THEN r[k] ELSE rs[k - Len(r)]
    <3>1. /\ r \o rs \in Seq(S) /\ Len(r \o rs) = Len(r) + Len(rs)
          /\ \A k \in 1..(Len(r) + Len(rs)) :
               (r \o rs)[k] = IF k <= Len(r) THEN r[k] ELSE rs[k - Len(r)]
      BY <2>2, <2>3, ConcatProperties
    <3> QED BY <2>4, <3>1
  <2>6. e[1] \in FirstReq(p) /\ e # <<>>
    <3>1. e[1] = r[1] /\ e # <<>> BY <2>2, <2>3, <2>5
    <3> QED BY <3>1 DEF Opening
  <2>7. ASSUME NEW k \in 2..Len(e) PROVE e[k] \in Behind(p)
    <3>1. CASE k <= Len(r)
      <4>1. k \in 2..Len(r) /\ k \in 1..(Len(r) + Len(rs)) BY <2>2, <2>3, <3>1
      <4>2. e[k] = r[k] BY <2>5, <3>1, <4>1
      <4> QED BY <4>1, <4>2 DEF Opening
    <3>2. CASE ~(k <= Len(r))
      <4>1. k \in 1..(Len(r) + Len(rs)) /\ k - Len(r) \in 1..Len(rs) BY <2>2, <2>3, <2>5, <3>2
      <4>2. e[k] = rs[k - Len(r)] BY <2>5, <3>2, <4>1
      <4> QED BY <4>1, <4>2
    <3> QED BY <3>1, <3>2
  <2> QED BY <2>1, <2>4, <2>5, <2>6, <2>7 DEF Opening
<1>6. ASSUME NEW rs \in Seq(Queries(lo, p)) PROVE rs \in Seq(Behind(p)) BY <1>2, SeqMonotonic
<1>7. ASSUME NEW bs \in Seq(Bullets(lo)) PROVE bs \in Seq(Behind(p)) BY <1>3, SeqMonotonic
<1>8. Growing(Seq(Behind(p)), lo, p) BY <1>4, <1>6 DEF Growing
<1>9. Growing(Opening(p), lo, p) BY <1>5, <1>6 DEF Growing
<1>10. \A r \in Seq(Behind(p)), bs \in Seq(Bullets(lo)) : r \o bs \in Seq(Behind(p)) BY <1>4, <1>7
<1>11. \A r \in Opening(p), bs \in Seq(Bullets(lo)) : r \o bs \in Opening(p) BY <1>5, <1>7
<1> QED BY <1>8, <1>9, <1>10, <1>11

(* What a conversion returns to insertMarkdownWithTables. *)
Returned(m, p) == m.final \in Positions(p + 1) /\ m.anchors \in Seq(Anchors(p))
Followed(m, R, lo) == \E r \in R, bs \in Seq(Bullets(lo)) : m.reqs = r \o bs
LEMMA ReturnedBy ==
  ASSUME NEW p \in Nat, NEW R, NEW k \in Conv(p + 1, p, R), NEW m, m = Converted(CloseList(k))
  PROVE  Returned(m, p) /\ Followed(m, R, p + 1)
<1>1. PICK lo \in Nat : lo = p + 1 OBVIOUS
<1>2. PICK c \in Conv(lo, p, R) : c = CloseList(k) BY <1>1, CloseKeeps
<1>3. PICK r \in R, bs \in Seq(Bullets(lo)) : r = c.reqs /\ bs = c.ranges BY <1>2 DEF Conv
<1>4. m.reqs = r \o bs /\ m.final = c.cur - c.tabs /\ m.anchors = c.anchors
  BY <1>2, <1>3 DEF Converted, FinalIndex
<1>5. c.cur - c.tabs \in Positions(lo)
  <2>1. c.cur \in Nat /\ c.tabs \in Int /\ c.cur - c.tabs >= lo BY <1>2 DEF Conv, Positions
  <2> QED BY <2>1 DEF Positions
<1>6. c.anchors \in Seq(Anchors(p)) BY <1>2 DEF Conv
<1>7. Returned(m, p) BY <1>1, <1>4, <1>5, <1>6 DEF Returned
<1>8. Followed(m, R, p + 1) BY <1>1, <1>3, <1>4, Zenon DEF Followed
<1> QED BY <1>7, <1>8

(* Text that goes on behind the line break. *)
LEMMA ConvertBehind ==
  ASSUME NEW p \in Nat, NEW at \in Nat, at >= p + 1, NEW parsed, NEW strip,
         Merged(parsed, strip) \in Seq(GoodSegments), NEW m,
         m = convertMarkdownToRequests(parsed, at, strip)
  PROVE  m.reqs \in Seq(Behind(p)) /\ Returned(m, p)
<1>1. PICK segs \in Seq(GoodSegments) : segs = Merged(parsed, strip) OBVIOUS
<1>2. PICK n \in Nat : n = Len(segs) OBVIOUS
<1>3. PICK f : /\ m = Converted(CloseList(f[n])) /\ f[0] = Start(at)
               /\ \A k \in 1..n : f[k] = ConvertSegment(segs, f[k - 1], k)
  BY <1>1, <1>2, ConvertMade
<1>4. PICK lo \in Nat : lo = p + 1 OBVIOUS
<1>11. PICK R : R = Seq(Behind(p)) OBVIOUS
<1>5. /\ Growing(R, lo, p) /\ <<>> \in R
      /\ \A r \in R, bs \in Seq(Bullets(lo)) : r \o bs \in R
  BY <1>4, <1>11, BehindGrows
<1> DEFINE T == {k \in 0..n : f[k] \in Conv(lo, p, R)}
<1>6. 0 \in T
  <2>1. at >= lo BY <1>4
  <2>2. Start(at) \in Conv(lo, p, R) BY <1>5, <2>1, StartIsConv
  <2> QED BY <1>2, <1>3, <2>2
<1>7. ASSUME NEW k \in 1..n, k - 1 \in T PROVE k \in T
  <2>1. PICK c \in Conv(lo, p, R) : c = f[k - 1] BY <1>7
  <2>2. p + 1 <= lo /\ k \in 1..Len(segs) BY <1>2, <1>4
  <2>3. ConvertSegment(segs, c, k) \in Conv(lo, p, R) BY <1>1, <1>5, <2>2, SegmentKeeps
  <2>4. k \in 0..n BY <1>2
  <2> QED BY <1>3, <2>1, <2>3, <2>4
<1>8. \A k \in 0..n : k \in T
  <2> HIDE DEF T
  <2>1. 0 \in 0..n BY <1>2
  <2>2. \A k \in (0 + 1)..n : k - 1 \in T => k \in T BY <1>7
  <2> QED BY <1>2, <1>6, <2>1, <2>2, FromOneToNext
<1>9. PICK k \in Conv(lo, p, R) : k = f[n] BY <1>2, <1>8
<1>10. Returned(m, p) /\ \E r \in R, bs \in Seq(Bullets(lo)) : m.reqs = r \o bs
  <2>1. m = Converted(CloseList(k)) BY <1>3, <1>9
  <2>2. k \in Conv(p + 1, p, R) BY <1>4, <1>9
  <2>3. Returned(m, p) /\ Followed(m, R, p + 1) BY <2>1, <2>2, ReturnedBy, Zenon
  <2> QED BY <1>4, <2>3, Zenon DEF Followed
<1> QED BY <1>5, <1>10, <1>11

(* Text that begins with the line break. *)
LEMMA ConvertOpens ==
  ASSUME NEW p \in Nat \ {0}, NEW parsed, NEW strip,
         Merged(parsed, strip) \in Seq(GoodSegments), Merged(parsed, strip) # <<>>,
         Fence(Merged(parsed, strip)[1]), NEW m,
         m = convertMarkdownToRequests(parsed, p, strip)
  PROVE  m.reqs \in Opening(p) /\ Returned(m, p)
<1>1. PICK segs \in Seq(GoodSegments) : segs = Merged(parsed, strip) OBVIOUS
<1>2. PICK n \in Nat : n = Len(segs) /\ n >= 1 BY <1>1
<1>3. PICK f : /\ m = Converted(CloseList(f[n])) /\ f[0] = Start(p)
               /\ \A k \in 1..n : f[k] = ConvertSegment(segs, f[k - 1], k)
  BY <1>1, <1>2, ConvertMade
<1>4. PICK lo \in Nat : lo = p + 1 OBVIOUS
<1>11. PICK R : R = Opening(p) OBVIOUS
<1>5. /\ Growing(R, lo, p) /\ \A r \in R, bs \in Seq(Bullets(lo)) : r \o bs \in R
  BY <1>4, <1>11, BehindGrows
<1> DEFINE T == {k \in 0..n : f[k] \in Conv(lo, p, R)}
<1>6. 1 \in T
  <2>1. ConvertSegment(segs, Start(p), 1) \in Conv(lo, p, R) BY <1>1, <1>2, <1>4, <1>11, FenceKeeps
  <2>2. 1 \in 1..n /\ 1 - 1 = 0 /\ 1 \in 0..n BY <1>2
  <2>3. f[1] = ConvertSegment(segs, Start(p), 1) BY <1>3, <2>2
  <2> QED BY <2>1, <2>2, <2>3
<1>7. ASSUME NEW k \in 2..n, k - 1 \in T PROVE k \in T
  <2>1. PICK c \in Conv(lo, p, R) : c = f[k - 1] BY <1>7
  <2>2. p + 1 <= lo /\ k \in 1..Len(segs) BY <1>2, <1>4
  <2>3. ConvertSegment(segs, c, k) \in Conv(lo, p, R) BY <1>1, <1>5, <2>2, SegmentKeeps
  <2>4. k \in 0..n /\ k \in 1..n BY <1>2
  <2> QED BY <1>3, <2>1, <2>3, <2>4
<1>8. \A k \in 1..n : k \in T
  <2> HIDE DEF T
  <2>1. 1 \in 0..n BY <1>2
  <2>2. \A k \in (1 + 1)..n : k - 1 \in T => k \in T BY <1>7
  <2> QED BY <1>2, <1>6, <2>1, <2>2, FromOneToNext
<1>9. PICK k \in Conv(lo, p, R) : k = f[n] BY <1>2, <1>8
<1>10. Returned(m, p) /\ \E r \in R, bs \in Seq(Bullets(lo)) : m.reqs = r \o bs
  <2>1. m = Converted(CloseList(k)) BY <1>3, <1>9
  <2>2. k \in Conv(p + 1, p, R) BY <1>4, <1>9
  <2>3. p \in Nat OBVIOUS
  <2>4. Returned(m, p) /\ Followed(m, R, p + 1) BY <2>1, <2>2, <2>3, ReturnedBy, Zenon
  <2> QED BY <1>4, <2>4, Zenon DEF Followed
<1> QED BY <1>5, <1>10, <1>11

(* Chips alone, with no line break before them. *)
LEMMA ConvertBare ==
  ASSUME NEW p \in Nat, NEW parsed, NEW strip,
         Merged(parsed, strip) \in Seq(GoodSegments),
         \A i \in DOMAIN Merged(parsed, strip) : Bare(Merged(parsed, strip)[i]), NEW m,
         m = convertMarkdownToRequests(parsed, p, strip)
  PROVE  m.reqs \in Seq(Inserts(p) \cup Marks(p)) /\ m.anchors \in Seq(Anchors(p))
<1>1. PICK segs \in Seq(GoodSegments) : segs = Merged(parsed, strip) OBVIOUS
<1>2. PICK n \in Nat : n = Len(segs) OBVIOUS
<1>3. PICK f : /\ m = Converted(CloseList(f[n])) /\ f[0] = Start(p)
               /\ \A k \in 1..n : f[k] = ConvertSegment(segs, f[k - 1], k)
  BY <1>1, <1>2, ConvertMade
<1>4. PICK R : R = Seq(Queries(p, p)) OBVIOUS
<1>5. Growing(R, p, p) /\ <<>> \in R
  <2>1. \A r \in R, rs \in R : r \o rs \in R BY <1>4, ConcatProperties
  <2> QED BY <1>4, <2>1 DEF Growing
<1> DEFINE T == {k \in 0..n : f[k] \in Conv(p, p, R) /\ f[k].listAt = 0 /\ f[k].ranges = <<>>}
<1>6. 0 \in T
  <2>1. Start(p) \in Conv(p, p, R) BY <1>5, StartIsConv
  <2>2. Start(p).listAt = 0 /\ Start(p).ranges = <<>> BY DEF Start
  <2> QED BY <1>2, <1>3, <2>1, <2>2
<1>7. ASSUME NEW k \in 1..n, k - 1 \in T PROVE k \in T
  <2>1. PICK c \in Conv(p, p, R) : c = f[k - 1] /\ c.listAt = 0 /\ c.ranges = <<>> BY <1>7
  <2>2. k \in 1..Len(segs) /\ Bare(segs[k]) BY <1>1, <1>2
  <2>3. /\ ConvertSegment(segs, c, k) \in Conv(p, p, R)
        /\ ConvertSegment(segs, c, k).listAt = 0 /\ ConvertSegment(segs, c, k).ranges = <<>>
    BY <1>1, <1>5, <2>1, <2>2, BareKeeps
  <2>4. k \in 0..n BY <1>2
  <2> QED BY <1>3, <2>1, <2>3, <2>4
<1>8. \A k \in 0..n : k \in T
  <2> HIDE DEF T
  <2>1. 0 \in 0..n BY <1>2
  <2>2. \A k \in (0 + 1)..n : k - 1 \in T => k \in T BY <1>7
  <2> QED BY <1>2, <1>6, <2>1, <2>2, FromOneToNext
<1>9. PICK k \in Conv(p, p, R) : k = f[n] /\ k.listAt = 0 /\ k.ranges = <<>> BY <1>2, <1>8
<1>10. CloseList(k) = k BY <1>9, CloseKeeps
<1>11. m.reqs = k.reqs \o <<>> /\ m.anchors = k.anchors 
  <2>1. m = Converted(k) BY <1>3, <1>9, <1>10
  <2> QED BY <1>9, <2>1 DEF Converted
<1>12. PICK r \in Seq(Queries(p, p)) : r = k.reqs BY <1>4, <1>9 DEF Conv
<1>13. r \o <<>> = r OBVIOUS
<1>14. k.anchors \in Seq(Anchors(p)) BY <1>9 DEF Conv
<1> QED BY <1>11, <1>12, <1>13, <1>14 DEF Queries

-----------------------------------------------------------------------------
(* parseMarkdown: lines whose links are not on items of nested lists *)

OneLine(text) == \A i \in DOMAIN text : text[i] # "nl"
LineKinds == {"body", "blank", "head", "list", "code", "rule", "table"}
TypedLines ==
  [kind : LineKinds, spans : Seq(TypedSpans), list : Words, depth : Nat,
   rows : Seq(Seq(Seq(TypedSpans)))]
GoodLines ==
  {l \in TypedLines :
     /\ \A k \in DOMAIN l.spans : l.spans[k].anchor # "none" =>
          /\ OneLine(l.spans[k].text) /\ l.kind # "code"
          /\ l.kind = "list" => l.depth <= 1
     /\ l.kind = "code" => Len(l.spans) = 1 /\ l.spans[1].chip = "none"
     /\ l.kind = "table" => Even(l.rows)}
ShallowLinks ==
  \A md \in Markdowns : \A i \in DOMAIN md : \A k \in DOMAIN md[i].spans :
    md[i].kind = "list" /\ md[i].spans[k].anchor # "none" => md[i].depth <= 1

LEMMA LinesAreTyped == Lines \subseteq TypedLines
<1>1. STRING \subseteq Words BY DEF Words
<1>2. Seq(STRING) \subseteq Seq(Words) BY <1>1, SeqMonotonic
<1>3. Spans \subseteq TypedSpans BY <1>1, <1>2 DEF Spans, TypedSpans
<1>4. Seq(Spans) \subseteq Seq(TypedSpans) BY <1>3, SeqMonotonic
<1>5. Seq(Seq(Spans)) \subseteq Seq(Seq(TypedSpans)) BY <1>4, SeqMonotonic
<1>6. Seq(Seq(Seq(Spans))) \subseteq Seq(Seq(Seq(TypedSpans))) BY <1>5, SeqMonotonic
<1> QED BY <1>1, <1>4, <1>6 DEF Lines, TypedLines, LineKinds

LEMMA MarkdownsAreGood ==
  ASSUME ShallowLinks, NEW md \in Markdowns
  PROVE  md \in Seq(GoodLines) /\ md # <<>>
<1>1. md \in Seq(Lines) /\ md # <<>> /\ \A i \in DOMAIN md : Parsed(md[i]) BY DocAssumption
<1>2. ASSUME NEW i \in DOMAIN md PROVE md[i] \in GoodLines
  <2>1. PICK l \in TypedLines : l = md[i] BY <1>1, LinesAreTyped
  <2>2. Parsed(l) BY <1>1, <2>1
  <2>3. l.kind = "table" => Even(l.rows) BY <2>2 DEF Parsed, Even
  <2>4. l.kind = "code" => Len(l.spans) = 1 /\ l.spans[1].chip = "none" BY <2>2 DEF Parsed
  <2>5. ASSUME NEW k \in DOMAIN l.spans, l.spans[k].anchor # "none"
        PROVE  /\ OneLine(l.spans[k].text) /\ l.kind # "code"
               /\ l.kind = "list" => l.depth <= 1
    BY <2>1, <2>2, <2>5 DEF Parsed, OneLine, ShallowLinks
  <2> QED BY <2>1, <2>3, <2>4, <2>5 DEF GoodLines
<1>3. md \in [1..Len(md) -> GoodLines] /\ Len(md) \in Nat BY <1>1, <1>2
<1> QED BY <1>1, <1>3

LEMMA BlankIsGood == BlankLine \in GoodLines
<1>1. PICK l : l = BlankLine OBVIOUS
<1>2. PICK n \in Words, k \in LineKinds : n = "none" /\ k = "blank" BY DEF Words, LineKinds
<1>3. l = [kind |-> k, spans |-> <<>>, list |-> n, depth |-> 0, rows |-> <<>>]
  BY <1>1, <1>2 DEF BlankLine
<1>4. l \in TypedLines BY <1>3 DEF TypedLines
<1>5. DOMAIN l.spans = {} /\ l.kind = "blank" BY <1>2, <1>3
<1> QED BY <1>1, <1>4, <1>5 DEF GoodLines

(* Spans of a line of text. *)
LinkSpans == {s \in TypedSpans : s.anchor # "none" => OneLine(s.text)}
LEMMA PlainIsGood ==
  ASSUME NEW t \in Seq(Words)
  PROVE  PlainSpan(t) \in LinkSpans
<1>1. PICK x, y : x = "plain" /\ y = "none" OBVIOUS
<1>2. x \in Words /\ y \in Words BY <1>1 DEF Words
<1>3. PICK s : s = PlainSpan(t) OBVIOUS
<1>4. s = [text |-> t, style |-> x, anchor |-> y, chip |-> y] BY <1>1, <1>3 DEF PlainSpan
<1>5. s \in TypedSpans /\ s.anchor = y BY <1>2, <1>4 DEF TypedSpans
<1> QED BY <1>1, <1>3, <1>5 DEF LinkSpans

(* A segment of a line, and one with its list. *)
LEMMA SegmentTypes ==
  ASSUME NEW sp \in TypedSpans, NEW kind \in Kinds
  PROVE  /\ Segment(sp, kind) \in AllSegments
         /\ Segment(sp, kind).anchor = sp.anchor /\ Segment(sp, kind).text = sp.text
         /\ Segment(sp, kind).chip = sp.chip /\ Segment(sp, kind).list = "none"
         /\ Segment(sp, kind).kind = kind /\ Segment(sp, kind).heading = 0
<1>1. PICK n \in Words : n = "none" BY DEF Words
<1>2. PICK s : s = Segment(sp, kind) OBVIOUS
<1>3. s = [text |-> sp.text, style |-> sp.style, anchor |-> sp.anchor, chip |-> sp.chip,
           kind |-> kind, heading |-> 0, list |-> n, depth |-> 0, rows |-> <<>>]
  BY <1>1, <1>2 DEF Segment
<1>4. /\ sp.text \in Seq(Words) /\ sp.style \in Words /\ sp.anchor \in Words /\ sp.chip \in Words
  BY DEF TypedSpans
<1>5. s \in AllSegments BY <1>3, <1>4 DEF AllSegments
<1> QED BY <1>1, <1>2, <1>3, <1>5

LEMMA TextSegmentsAreGood ==
  ASSUME NEW sp \in LinkSpans
  PROVE  Segment(sp, "text") \in GoodSegments
<1>1. PICK kind \in Kinds : kind = "text" BY DEF Kinds
<1>2. PICK s \in AllSegments :
        s = Segment(sp, kind) /\ s.anchor = sp.anchor /\ s.text = sp.text /\ s.list = "none"
        /\ s.kind = kind
  BY SegmentTypes DEF LinkSpans
<1>3. s.anchor # "none" => OneLine(s.text) BY <1>2 DEF LinkSpans
<1> QED BY <1>1, <1>2, <1>3 DEF GoodSegments, Linkable, OneLine

LEMMA SegmentsAreGood ==
  ASSUME NEW spans \in Seq(LinkSpans)
  PROVE  Segments(spans) \in Seq(GoodSegments) /\ Len(Segments(spans)) = Len(spans)
<1>1. PICK e : e = Segments(spans) OBVIOUS
<1>2. \A k \in DOMAIN spans : e[k] \in GoodSegments BY <1>1, TextSegmentsAreGood DEF Segments
<1>3. DOMAIN spans = 1..Len(spans) /\ Len(spans) \in Nat OBVIOUS
<1>4. e \in [1..Len(spans) -> GoodSegments] BY <1>1, <1>2, <1>3 DEF Segments
<1> QED BY <1>1, <1>3, <1>4

LEMMA TerminatedIsGood ==
  ASSUME NEW spans \in Seq(LinkSpans)
  PROVE  Terminated(spans) \in Seq(LinkSpans)
<1>1. PICK nl \in Seq(Words) : nl = <<"nl">> BY LineBreak
<1>2. PICK s \in LinkSpans : s = PlainSpan(nl) BY PlainIsGood
<1>3. PICK one \in Seq(LinkSpans) : one = <<s>> BY Singleton
<1>4. spans \o one \in Seq(LinkSpans) BY ConcatProperties
<1> QED BY <1>1, <1>2, <1>3, <1>4 DEF Terminated

ParseStates ==
  [segs : Seq(GoodSegments), body : Seq(LinkSpans), wasHeading : BOOLEAN, next : Nat]
(* t goes on from s. *)
GoesOn(s, t) ==
  t \in ParseStates /\ \E extra \in Seq(GoodSegments) : t.segs = s.segs \o extra

LEMMA FlushGoesOn ==
  ASSUME NEW s \in ParseStates
  PROVE  /\ GoesOn(s, FlushBody(s)) /\ FlushBody(s).wasHeading = s.wasHeading
         /\ s.body = <<>> => FlushBody(s).segs = s.segs
<1>1. PICK body \in Seq(LinkSpans), segs \in Seq(GoodSegments) : body = s.body /\ segs = s.segs
  BY DEF ParseStates
<1>2. PICK extra \in Seq(GoodSegments) :
        extra = IF body = <<>> THEN <<>> ELSE Segments(Terminated(body))
  <2>1. Terminated(body) \in Seq(LinkSpans) BY TerminatedIsGood
  <2>2. Segments(Terminated(body)) \in Seq(GoodSegments) BY <2>1, SegmentsAreGood
  <2>3. <<>> \in Seq(GoodSegments) OBVIOUS
  <2> QED BY <2>2, <2>3
<1>3. PICK all \in Seq(GoodSegments) : all = segs \o extra BY ConcatProperties
<1>4. PICK t : t = FlushBody(s) OBVIOUS
<1>5. t = [s EXCEPT !.body = <<>>, !.segs = all]
  BY <1>1, <1>2, <1>3, <1>4 DEF FlushBody, ParseStates
<1>6. <<>> \in Seq(LinkSpans) OBVIOUS
<1>7. t \in ParseStates /\ t.segs = all /\ t.wasHeading = s.wasHeading
  BY <1>3, <1>5, <1>6 DEF ParseStates
<1>8. body = <<>> => all = segs
  <2>1. segs \o <<>> = segs BY <1>1
  <2> QED BY <1>2, <1>3, <2>1
<1> QED BY <1>1, <1>2, <1>3, <1>4, <1>7, <1>8 DEF GoesOn

Added(f, segs, head) == [f EXCEPT !.segs = @ \o segs, !.wasHeading = head]
LEMMA AddedGoesOn ==
  ASSUME NEW s, NEW f, s.segs \in Seq(GoodSegments), GoesOn(s, f),
         NEW segs \in Seq(GoodSegments), NEW head \in BOOLEAN
  PROVE  GoesOn(s, Added(f, segs, head)) /\ Added(f, segs, head).segs = f.segs \o segs
<1>1. PICK e \in Seq(GoodSegments) : f.segs = s.segs \o e BY DEF GoesOn
<1>2. PICK was \in Seq(GoodSegments) : was = s.segs OBVIOUS
<1>3. InARow(was, e, segs) BY <1>1, <1>2, AllInARow, Zenon
<1>4. PICK own \in Seq(GoodSegments) : own = f.segs BY DEF GoesOn, ParseStates
<1>5. PICK all \in Seq(GoodSegments) : all = own \o segs BY <1>4, ConcatProperties
<1>6. PICK t : t = Added(f, segs, head) OBVIOUS
<1>7. t = [f EXCEPT !.segs = all, !.wasHeading = head]
  BY <1>4, <1>5, <1>6 DEF Added, GoesOn, ParseStates
<1>8. t \in ParseStates /\ t.segs = all BY <1>5, <1>7 DEF GoesOn, ParseStates
<1>9. PICK more \in Seq(GoodSegments) : more = e \o segs BY <1>1, ConcatProperties
<1>10. all = s.segs \o more BY <1>1, <1>2, <1>3, <1>4, <1>5, <1>9, Zenon DEF InARow
<1> QED BY <1>4, <1>5, <1>6, <1>8, <1>9, <1>10 DEF GoesOn

LEMMA AddLineGoesOn ==
  ASSUME NEW s \in ParseStates, NEW l \in GoodLines
  PROVE  GoesOn(s, AddLine(s, l))
<1>1. PICK f \in ParseStates : f = FlushBody(s) /\ GoesOn(s, f) BY FlushGoesOn DEF GoesOn
<1>2. s.segs \in Seq(GoodSegments) BY DEF ParseStates
<1>3. PICK no, yes : no = FALSE /\ yes = TRUE OBVIOUS
<1>4. no \in BOOLEAN /\ yes \in BOOLEAN /\ s.wasHeading \in BOOLEAN BY <1>3 DEF ParseStates
<1>5. l \in TypedLines /\ l.kind \in LineKinds BY DEF GoodLines, TypedLines
<1>6. PICK spans \in Seq(TypedSpans), list \in Words, depth \in Nat, rows \in Seq(Seq(Seq(TypedSpans))) :
        spans = l.spans /\ list = l.list /\ depth = l.depth /\ rows = l.rows
  BY <1>5 DEF TypedLines
<1>7. spans \in Seq(LinkSpans)
  <2>1. \A k \in DOMAIN spans : spans[k] \in LinkSpans BY <1>6 DEF LinkSpans, GoodLines
  <2>2. spans \in [1..Len(spans) -> LinkSpans] /\ Len(spans) \in Nat BY <2>1
  <2> QED BY <2>2
<1>8. CASE l.kind = "body"
  <2>1. PICK body \in Seq(LinkSpans) : body = s.body BY DEF ParseStates
  <2>2. PICK gap \in Seq(LinkSpans) : gap = IF body = <<>> THEN <<>> ELSE <<PlainSpan(<<"sp">>)>>
    <3>1. PICK sp \in Seq(Words) : sp = <<"sp">> BY LineBreak
    <3>2. <<PlainSpan(sp)>> \in Seq(LinkSpans) BY PlainIsGood, Singleton
    <3>3. <<>> \in Seq(LinkSpans) OBVIOUS
    <3> QED BY <3>1, <3>2, <3>3
  <2>3. PICK two \in Seq(LinkSpans) : two = body \o gap BY <2>1, <2>2, ConcatProperties
  <2>4. PICK three \in Seq(LinkSpans) : three = two \o spans BY <1>7, <2>3, ConcatProperties
  <2>5. PICK t : t = [s EXCEPT !.wasHeading = no, !.body = three] OBVIOUS
  <2>6. AddLine(s, l) = t
    <3>1. [s EXCEPT !.wasHeading = FALSE,
             !.body = @ \o (IF @ = <<>> THEN <<>> ELSE <<PlainSpan(<<"sp">>)>>) \o l.spans] = t
      BY <1>3, <1>6, <2>1, <2>2, <2>3, <2>4, <2>5 DEF ParseStates
    <3> QED BY <1>8, <3>1, Zenon DEF AddLine
  <2>7. t \in ParseStates /\ t.segs = s.segs BY <1>4, <2>4, <2>5 DEF ParseStates
  <2>8. s.segs \o <<>> = s.segs /\ <<>> \in Seq(GoodSegments) BY <1>2
  <2> QED BY <2>6, <2>7, <2>8 DEF GoesOn
<1>9. CASE l.kind = "blank"
  <2>1. PICK none \in Seq(LinkSpans) : none = <<>>
    <3>1. <<>> \in Seq(LinkSpans) OBVIOUS
    <3> QED BY <3>1
  <2>2. Terminated(none) \in Seq(LinkSpans) BY <2>1, TerminatedIsGood
  <2>3. PICK segs \in Seq(GoodSegments) : segs = Segments(Terminated(none)) BY <2>2, SegmentsAreGood
  <2>4. AddLine(s, l) = IF s.wasHeading THEN f ELSE Added(f, segs, no)
    BY <1>1, <1>3, <1>9, <2>1, <2>3, Zenon DEF AddLine, Added
  <2>5. GoesOn(s, Added(f, segs, no)) BY <1>1, <1>2, <1>4, <2>3, AddedGoesOn
  <2> QED BY <1>1, <2>4, <2>5
<1>10. CASE l.kind = "head"
  <2>1. PICK next \in Nat : next = s.next BY DEF ParseStates
  <2>2. PICK segs : segs = [k \in DOMAIN l.spans |->
                              [Segment(l.spans[k], "text") EXCEPT !.heading = s.next]]
    OBVIOUS
  <2>3. segs \in Seq(GoodSegments)
    <3>1. ASSUME NEW k \in DOMAIN spans PROVE segs[k] \in GoodSegments
      <4>1. PICK g \in GoodSegments : g = Segment(spans[k], "text")
        <5>1. PICK sp \in LinkSpans : sp = spans[k] BY <1>7
        <5> QED BY <5>1, TextSegmentsAreGood
      <4>2. segs[k] = [g EXCEPT !.heading = next] BY <1>6, <2>1, <2>2, <4>1
      <4>3. PICK h : h = [g EXCEPT !.heading = next] OBVIOUS
      <4>4. /\ h \in AllSegments /\ h.anchor = g.anchor /\ h.list = g.list /\ h.depth = g.depth
            /\ h.text = g.text /\ h.kind = g.kind /\ h.chip = g.chip /\ h.rows = g.rows
        BY <4>3 DEF GoodSegments, AllSegments
      <4>5. h \in GoodSegments BY <4>4 DEF GoodSegments, Linkable
      <4> QED BY <4>2, <4>3, <4>5
    <3>2. PICK n \in Nat : Numbered(spans, n) BY <1>6, AllNumbered, Zenon
    <3>3. DOMAIN spans = 1..n BY <3>2, Zenon DEF Numbered
    <3>4. DOMAIN segs = 1..n BY <1>6, <2>2, <3>3, Zenon
    <3>6. segs = [k \in 1..n |-> segs[k]] BY <2>2, <3>4, Zenon
    <3>5. segs \in [1..n -> GoodSegments] BY <1>6, <3>1, <3>3, <3>6
    <3> QED BY <3>5
  <2>4. PICK t : t = Added(f, segs, yes) OBVIOUS
  <2>5. GoesOn(s, t) BY <1>1, <1>2, <1>4, <2>3, <2>4, AddedGoesOn
  <2>6. PICK r : r = [t EXCEPT !.next = @ + 1] OBVIOUS
  <2>7. AddLine(s, l) = r
    BY <1>1, <1>3, <1>10, <2>2, <2>4, <2>6, Zenon DEF AddLine, Added
  <2>8. r \in ParseStates /\ r.segs = t.segs
    <3>1. t \in ParseStates BY <2>5 DEF GoesOn
    <3>2. PICK n \in Nat : n = t.next + 1 BY <3>1 DEF ParseStates
    <3>3. r = [t EXCEPT !.next = n] BY <2>6, <3>1, <3>2 DEF ParseStates
    <3> QED BY <3>1, <3>3 DEF ParseStates
  <2> QED BY <2>5, <2>7, <2>8 DEF GoesOn
<1>11. CASE l.kind = "list"
  <2>1. PICK ended \in Seq(LinkSpans) : ended = Terminated(spans) BY <1>7, TerminatedIsGood
  <2>2. PICK segs : segs = [k \in DOMAIN ended |->
                              [Segment(ended[k], "text") EXCEPT !.list = list, !.depth = depth]]
    OBVIOUS
  <2>3. \A k \in DOMAIN ended : ended[k].anchor # "none" => depth <= 1
    <3> SUFFICES ASSUME NEW k \in DOMAIN ended, ended[k].anchor # "none" PROVE depth <= 1 OBVIOUS
    <3>1. PICK one : one = <<PlainSpan(<<"nl">>)>> OBVIOUS
    <3>2. PICK x : x = PlainSpan(<<"nl">>) OBVIOUS
    <3>3. x.anchor = "none" BY <3>2 DEF PlainSpan
    <3>4. ended = spans \o one BY <2>1, <3>1 DEF Terminated
    <3>5. one \in Seq(LinkSpans) /\ Len(one) = 1 /\ one[1] = x
      <4>1. PICK nl \in Seq(Words) : nl = <<"nl">> BY LineBreak
      <4>2. x \in LinkSpans BY <3>2, <4>1, PlainIsGood
      <4>3. one = <<x>> BY <3>1, <3>2
      <4> QED BY <4>2, <4>3, Singleton
    <3>6. /\ Len(ended) = Len(spans) + Len(one)
          /\ \A j \in 1..(Len(spans) + Len(one)) :
               ended[j] = IF j <= Len(spans) THEN spans[j] ELSE one[j - Len(spans)]
      BY <1>7, <3>4, <3>5, ConcatProperties
    <3>7. k <= Len(spans)
      <4> SUFFICES ASSUME ~(k <= Len(spans)) PROVE FALSE OBVIOUS
      <4>1. Len(spans) \in Nat /\ k \in 1..(Len(spans) + 1)
        <5>1. Len(spans) \in Nat BY <1>6
        <5>2. DOMAIN ended = 1..Len(ended) BY <2>1
        <5> QED BY <3>5, <3>6, <5>1, <5>2
      <4>4. PICK m \in Nat : m = Len(spans) BY <4>1
      <4>2. k - Len(spans) = 1
        <5>1. k \in 1..(m + 1) /\ ~(k <= m) BY <4>1, <4>4
        <5>2. k = m + 1 BY <5>1
        <5> QED BY <4>4, <5>2
      <4>3. ended[k] = x BY <3>5, <3>6, <4>1, <4>2
      <4> QED BY <3>3, <4>3
    <3>8. k \in DOMAIN spans /\ ended[k] = spans[k] BY <3>6, <3>7
    <3>9. spans[k].anchor # "none" BY <3>8
    <3> QED BY <1>6, <1>11, <3>8, <3>9 DEF GoodLines
  <2>4. segs \in Seq(GoodSegments)
    <3>1. ASSUME NEW k \in DOMAIN ended PROVE segs[k] \in GoodSegments
      <4>1. PICK sp \in LinkSpans : sp = ended[k] BY <2>1
      <4>2. PICK g \in GoodSegments : g = Segment(sp, "text") /\ g.anchor = sp.anchor /\ g.kind = "text"
        <5>1. PICK kind \in Kinds : kind = "text" BY DEF Kinds
        <5>2. Segment(sp, kind).anchor = sp.anchor /\ Segment(sp, kind).kind = kind
          BY SegmentTypes DEF LinkSpans
        <5> QED BY <5>1, <5>2, TextSegmentsAreGood
      <4>3. PICK h : h = [g EXCEPT !.list = list, !.depth = depth] OBVIOUS
      <4>4. segs[k] = h BY <2>2, <4>1, <4>2, <4>3
      <4>5. /\ h \in AllSegments /\ h.anchor = g.anchor /\ h.depth = depth
            /\ h.text = g.text /\ h.kind = g.kind /\ h.chip = g.chip
        BY <4>3 DEF GoodSegments, AllSegments
      <4>6. h.anchor # "none" => depth <= 1 BY <2>3, <4>1, <4>2, <4>5
      <4>7. h.anchor # "none" => \A i \in DOMAIN h.text : h.text[i] # "nl"
        BY <4>1, <4>2, <4>5 DEF LinkSpans, OneLine, GoodSegments, Linkable
      <4>8. h \in GoodSegments BY <4>2, <4>5, <4>6, <4>7 DEF GoodSegments, Linkable
      <4> QED BY <4>4, <4>8
    <3>2. PICK n \in Nat : Numbered(ended, n) BY <2>1, AllNumbered, Zenon
    <3>3. DOMAIN ended = 1..n BY <3>2, Zenon DEF Numbered
    <3>4. segs = [k \in 1..n |-> segs[k]] BY <2>2, <3>3
    <3>6. segs \in [1..n -> GoodSegments] BY <3>1, <3>3, <3>4
    <3> QED BY <3>6
  <2>5. AddLine(s, l) = Added(f, segs, no)
    BY <1>1, <1>3, <1>6, <1>11, <2>1, <2>2, Zenon DEF AddLine, Added
  <2> QED BY <1>1, <1>2, <1>4, <2>4, <2>5, AddedGoesOn
<1>12. CASE l.kind = "code"
  <2>1. PICK sp \in TypedSpans : sp = l.spans[1] /\ sp.chip = "none" /\ sp.anchor = "none"
    <3>1. Len(spans) = 1 /\ 1 \in DOMAIN spans BY <1>6, <1>12 DEF GoodLines
    <3> QED BY <1>6, <1>12, <3>1 DEF GoodLines
  <2>2. PICK kind \in Kinds : kind = "code" BY DEF Kinds
  <2>3. PICK g \in AllSegments :
          g = Segment(sp, kind) /\ g.anchor = "none" /\ g.chip = "none" /\ g.kind = kind
    BY <2>1, SegmentTypes
  <2>4. PICK text \in Seq(Words) : text = Append(g.text, "nl")
    <3>1. PICK nl \in Words : nl = "nl" BY DEF Words
    <3>2. PICK t \in Seq(Words) : t = g.text BY <2>3 DEF AllSegments
    <3>3. Append(t, nl) \in Seq(Words) OBVIOUS
    <3> QED BY <3>1, <3>2, <3>3
  <2>5. PICK h : h = [g EXCEPT !.text = text] OBVIOUS
  <2>6. h \in AllSegments /\ h.anchor = "none" /\ h.chip = "none" /\ h.kind = "code"
    BY <2>2, <2>3, <2>4, <2>5 DEF AllSegments
  <2>7. h \in GoodSegments BY <2>6 DEF GoodSegments, Linkable
  <2>8. PICK segs \in Seq(GoodSegments) : segs = <<h>> BY <2>7, Singleton
  <2>9. h = [Segment(l.spans[1], "code") EXCEPT !.text = Append(@, "nl")]
    BY <2>1, <2>2, <2>3, <2>4, <2>5
  <2>10. AddLine(s, l) = Added(f, segs, no)
    BY <1>1, <1>3, <1>12, <2>8, <2>9, Zenon DEF AddLine, Added
  <2> QED BY <1>1, <1>2, <1>4, <2>8, <2>10, AddedGoesOn
<1>13. CASE l.kind \in {"rule", "table"}
  <2>1. PICK sp \in LinkSpans : sp = PlainSpan(<<>>) /\ sp.anchor = "none" /\ sp.chip = "none"
    <3>1. PICK e \in Seq(Words) : e = <<>>
      <4>1. <<>> \in Seq(Words) OBVIOUS
      <4> QED BY <4>1
    <3>2. PlainSpan(e).anchor = "none" /\ PlainSpan(e).chip = "none" BY DEF PlainSpan
    <3> QED BY <3>1, <3>2, PlainIsGood
  <2>2. PICK kind \in Kinds : kind = l.kind BY <1>13 DEF Kinds
  <2>3. PICK g \in AllSegments :
          g = Segment(sp, kind) /\ g.anchor = "none" /\ g.chip = "none" /\ g.kind = kind
    BY <2>1, SegmentTypes DEF LinkSpans
  <2>4. CASE l.kind = "rule"
    <3>1. g \in GoodSegments BY <2>2, <2>3, <2>4 DEF GoodSegments, Linkable
    <3>2. PICK segs \in Seq(GoodSegments) : segs = <<g>> BY <3>1, Singleton
    <3>3. AddLine(s, l) = Added(f, segs, no)
      BY <1>1, <1>3, <2>1, <2>2, <2>3, <2>4, <3>2, Zenon DEF AddLine, Added
    <3> QED BY <1>1, <1>2, <1>4, <3>2, <3>3, AddedGoesOn
  <2>5. CASE l.kind = "table"
    <3>1. PICK h : h = [g EXCEPT !.rows = rows] OBVIOUS
    <3>2. /\ h \in AllSegments /\ h.anchor = "none" /\ h.chip = "none" /\ h.rows = rows
      BY <2>3, <3>1 DEF AllSegments
    <3>3. Even(rows) BY <1>6, <2>5 DEF GoodLines
    <3>4. h \in GoodSegments BY <3>2, <3>3 DEF GoodSegments, Linkable
    <3>5. PICK segs \in Seq(GoodSegments) : segs = <<h>> BY <3>4, Singleton
    <3>6. PICK head \in BOOLEAN : head = s.wasHeading BY <1>4
    <3>7. AddLine(s, l) = Added(f, segs, head)
      BY <1>1, <1>6, <2>1, <2>2, <2>3, <2>5, <3>1, <3>5, <3>6, Zenon DEF AddLine, Added
    <3> QED BY <1>1, <1>2, <3>5, <3>6, <3>7, AddedGoesOn
  <2> QED BY <1>13, <2>4, <2>5
<1> QED BY <1>5, <1>8, <1>9, <1>10, <1>11, <1>12, <1>13 DEF LineKinds

(* The first line of the text breaks the line. *)
Opened(segs) == segs # <<>> /\ Fence(segs[1])

LEMMA StaysOpened ==
  ASSUME NEW S, NEW a \in Seq(S), Opened(a), NEW b \in Seq(S)
  PROVE  Opened(a \o b)
<1>1. Len(a) \in Nat /\ Len(b) \in Nat /\ Len(a) >= 1 BY DEF Opened
<1>2. a \o b \in Seq(S) /\ Len(a \o b) = Len(a) + Len(b) /\ (a \o b)[1] = a[1]
  <2>1. 1 \in 1..(Len(a) + Len(b)) /\ 1 <= Len(a) BY <1>1
  <2> QED BY <2>1, ConcatProperties
<1>3. a \o b # <<>> BY <1>1, <1>2
<1> QED BY <1>2, <1>3 DEF Opened

LEMMA BlankOpens ==
  /\ NothingParsed \in ParseStates
  /\ \A l \in GoodLines : l.kind = "blank" => Opened(AddLine(NothingParsed, l).segs)
<1>1. PICK s : s = NothingParsed OBVIOUS
<1>2. s.segs = <<>> /\ s.body = <<>> /\ s.wasHeading = FALSE BY <1>1 DEF NothingParsed
<1>3. s \in ParseStates
  <2>1. PICK no : no = FALSE OBVIOUS
  <2>2. no \in BOOLEAN BY <2>1
  <2>3. s = [segs |-> <<>>, body |-> <<>>, wasHeading |-> no, next |-> 1]
    BY <1>1, <2>1 DEF NothingParsed
  <2>4. <<>> \in Seq(GoodSegments) /\ <<>> \in Seq(LinkSpans) OBVIOUS
  <2> QED BY <2>2, <2>3, <2>4 DEF ParseStates
<1>4. ASSUME NEW l \in GoodLines, l.kind = "blank" PROVE Opened(AddLine(s, l).segs)
  <2>1. PICK f : f = FlushBody(s) OBVIOUS
  <2>2. f.segs = <<>> /\ GoesOn(s, f) BY <1>2, <1>3, <2>1, FlushGoesOn
  <2>3. PICK nl \in Seq(Words) : nl = <<"nl">> BY LineBreak
  <2>4. PICK sp \in LinkSpans : sp = PlainSpan(nl) BY PlainIsGood
  <2>5. sp.text = nl /\ sp.anchor = "none" /\ sp.chip = "none" BY <2>4 DEF PlainSpan
  <2>6. PICK spans \in Seq(LinkSpans) : spans = Terminated(<<>>) /\ Len(spans) = 1 /\ spans[1] = sp
    <3>a. PICK one : one = <<sp>> OBVIOUS
    <3>b. sp \in LinkSpans BY <2>4
    <3>1. one \in Seq(LinkSpans) /\ one = <<sp>> /\ Len(one) = 1 /\ one[1] = sp BY <3>a, <3>b, Singleton
    <3>2. <<>> \o one = one OBVIOUS
    <3> QED BY <2>3, <2>4, <3>1, <3>2 DEF Terminated
  <2>7. PICK segs \in Seq(GoodSegments) : segs = Segments(spans) /\ Len(segs) = 1
    BY <2>6, SegmentsAreGood
  <2>8. Opened(segs)
    <3>1. PICK kind \in Kinds : kind = "text" BY DEF Kinds
    <3>2. 1 \in DOMAIN spans BY <2>6
    <3>3. segs[1] = Segment(sp, kind) BY <2>6, <2>7, <3>1, <3>2 DEF Segments
    <3>4. PICK g : g = Segment(sp, kind) OBVIOUS
    <3>5. /\ g.anchor = "none" /\ g.text = nl /\ g.chip = "none" /\ g.list = "none"
          /\ g.kind = "text" /\ g.heading = 0
      <4>1. sp \in TypedSpans BY DEF LinkSpans
      <4> QED BY <2>5, <3>1, <3>4, <4>1, SegmentTypes
    <3>6. nl # <<>> /\ nl[1] = "nl" BY <2>3
    <3>7. segs # <<>>
      <4>1. Len(segs) = 1 BY <2>7
      <4>2. PICK none : none = <<>> OBVIOUS
      <4>3. Len(none) # 1 BY <4>2
      <4> QED BY <4>1, <4>2, <4>3, Zenon
    <3> QED BY <3>3, <3>4, <3>5, <3>6, <3>7 DEF Opened, Fence
  <2>9. AddLine(s, l) = Added(f, segs, FALSE)
    BY <1>2, <1>4, <2>1, <2>6, <2>7, Zenon DEF AddLine, Added
  <2>10. PICK no : no = FALSE OBVIOUS
  <2>11. Added(f, segs, no).segs = f.segs \o segs
    <3>1. no \in BOOLEAN /\ s.segs \in Seq(GoodSegments) BY <1>3, <2>10 DEF ParseStates
    <3> QED BY <2>2, <3>1, AddedGoesOn
  <2>12. <<>> \o segs = segs OBVIOUS
  <2> QED BY <2>2, <2>8, <2>9, <2>10, <2>11, <2>12
<1> QED BY <1>1, <1>3, <1>4

LEMMA ParseMade ==
  ASSUME NEW ls, Len(ls) \in Nat
  PROVE  \E f : /\ parseMarkdown(ls) = FlushBody(f[Len(ls)]).segs /\ f[0] = NothingParsed
                /\ \A k \in 1..Len(ls) : f[k] = AddLine(f[k - 1], ls[k])
<1> DEFINE IsMade(f, m) ==
             f = [k \in 0..m |-> IF k = 0 THEN NothingParsed ELSE AddLine(f[k - 1], ls[k])]
           T == {m \in Nat : \E f : IsMade(f, m)}
<1>1. 0 \in T
  <2>1. PICK f : f = [k \in 0..0 |-> NothingParsed] OBVIOUS
  <2>2. IsMade(f, 0) BY <2>1
  <2> QED BY <2>2
<1>2. ASSUME NEW m \in T PROVE m + 1 \in T
  <2>1. PICK f : IsMade(f, m) OBVIOUS
  <2>2. PICK n \in Nat : n = m + 1 OBVIOUS
  <2>3. PICK g : g = [k \in 0..n |-> IF k = n THEN AddLine(f[m], ls[n]) ELSE f[k]] OBVIOUS
  <2>4. ASSUME NEW k \in 0..n
        PROVE  g[k] = IF k = 0 THEN NothingParsed ELSE AddLine(g[k - 1], ls[k])
    <3>1. m \in Nat /\ m \in 0..n /\ m # n /\ n # 0 BY <2>2
    <3>2. g[m] = f[m] BY <2>3, <3>1
    <3>3. CASE k = n
      <4>1. k # 0 /\ k - 1 = m BY <2>2, <3>1, <3>3
      <4>2. g[k] = AddLine(f[m], ls[k]) BY <2>3, <3>3
      <4> QED BY <3>2, <4>1, <4>2
    <3>4. CASE k # n
      <4>1. k \in 0..m /\ g[k] = f[k] BY <2>2, <2>3, <3>1, <3>4
      <4>2. f[k] = IF k = 0 THEN NothingParsed ELSE AddLine(f[k - 1], ls[k]) BY <2>1, <4>1
      <4>3. k # 0 => k - 1 \in 0..n /\ k - 1 # n BY <2>2, <3>1, <4>1
      <4>4. k # 0 => g[k - 1] = f[k - 1] BY <2>3, <4>3
      <4> QED BY <4>1, <4>2, <4>4
    <3> QED BY <3>3, <3>4
  <2>5. g = [k \in 0..n |-> g[k]] BY <2>3
  <2>6. IsMade(g, n) BY <2>4, <2>5
  <2>7. \E h : IsMade(h, n) BY <2>6
  <2> HIDE DEF IsMade
  <2> QED BY <2>2, <2>7
<1>3. T = Nat
  <2> HIDE DEF T
  <2>1. T \in SUBSET Nat BY DEF T
  <2> QED BY <1>1, <1>2, <2>1, NatSet
<1>4. \E f : IsMade(f, Len(ls)) BY <1>3
<1>5. PICK f : f = CHOOSE g : IsMade(g, Len(ls)) OBVIOUS
<1>6. parseMarkdown(ls) = FlushBody(f[Len(ls)]).segs
  BY <1>5, Zenon DEF parseMarkdown, Steps
<1>7. IsMade(f, Len(ls)) BY <1>4, <1>5, Zenon
<1>8. f[0] = NothingParsed BY <1>7
<1>9. ASSUME NEW k \in 1..Len(ls) PROVE f[k] = AddLine(f[k - 1], ls[k])
  <2>1. k \in 0..Len(ls) /\ k # 0 OBVIOUS
  <2> QED BY <1>7, <2>1
<1> HIDE DEF IsMade, T
<1>10. PICK n : n = Len(ls) OBVIOUS
<1>11. \A k \in 1..n : f[k] = AddLine(f[k - 1], ls[k]) BY <1>9, <1>10
<1> QED BY <1>6, <1>8, <1>10, <1>11, Zenon

LEMMA ParseIsGood ==
  ASSUME NEW ls \in Seq(GoodLines)
  PROVE  /\ parseMarkdown(ls) \in Seq(GoodSegments)
         /\ ls # <<>> /\ ls[1].kind = "blank" => Opened(parseMarkdown(ls))
<1>1. PICK n \in Nat : n = Len(ls) OBVIOUS
<1>2. PICK f : /\ parseMarkdown(ls) = FlushBody(f[n]).segs /\ f[0] = NothingParsed
               /\ \A k \in 1..n : f[k] = AddLine(f[k - 1], ls[k])
  BY <1>1, ParseMade
<1> DEFINE P(s) == s \in ParseStates
           O(s) == Opened(s.segs)
<1>3. ASSUME NEW k \in 1..n, P(f[k - 1])
      PROVE  P(f[k]) /\ (O(f[k - 1]) => O(f[k]))
  <2>1. PICK s \in ParseStates, l \in GoodLines : s = f[k - 1] /\ l = ls[k] BY <1>1, <1>3
  <2>2. GoesOn(s, AddLine(s, l)) BY <2>1, AddLineGoesOn
  <2>t. PICK t : t = AddLine(s, l) OBVIOUS
  <2>3. PICK e \in Seq(GoodSegments) : t = AddLine(s, l) /\ t.segs = s.segs \o e /\ t \in ParseStates
    BY <2>2, <2>t DEF GoesOn
  <2>4. PICK was \in Seq(GoodSegments) : was = s.segs BY <2>1 DEF ParseStates
  <2>5. Opened(was) => Opened(was \o e) BY <2>3, <2>4, StaysOpened
  <2> QED BY <1>2, <2>1, <2>3, <2>4, <2>5
<1>4. \A k \in 0..n : P(f[k])
  <2> DEFINE T == {k \in 0..n : P(f[k])}
  <2>1. 0 \in T BY <1>1, <1>2, BlankOpens
  <2>2. ASSUME NEW k \in 1..n, k - 1 \in T PROVE k \in T
    <3>1. P(f[k - 1]) /\ k \in 0..n BY <1>1, <2>2
    <3> HIDE DEF P
    <3> QED BY <1>3, <3>1
  <2>3. \A k \in 0..n : k \in T
    <3> HIDE DEF T
    <3>1. 0 \in 0..n BY <1>1
    <3>2. \A k \in (0 + 1)..n : k - 1 \in T => k \in T BY <2>2
    <3> QED BY <1>1, <2>1, <3>1, <3>2, FromOneToNext
  <2> QED BY <2>3
<1>5. ASSUME ls # <<>>, ls[1].kind = "blank" PROVE \A k \in 1..n : O(f[k])
  <2> DEFINE T == {k \in 0..n : O(f[k])}
  <2>1. n >= 1 /\ 1 \in 1..n /\ 1 \in 0..n /\ 1 - 1 = 0 BY <1>1, <1>5
  <2>2. 1 \in T
    <3>1. PICK l \in GoodLines : l = ls[1] BY <1>1, <2>1
    <3>2. f[1] = AddLine(NothingParsed, l) BY <1>2, <2>1, <3>1
    <3> QED BY <1>5, <2>1, <3>1, <3>2, BlankOpens
  <2>3. ASSUME NEW k \in 2..n, k - 1 \in T PROVE k \in T
    <3>1. k \in 1..n /\ k \in 0..n /\ k - 1 \in 0..n BY <1>1
    <3>2. O(f[k - 1]) /\ P(f[k - 1]) BY <1>4, <2>3, <3>1
    <3> HIDE DEF P, O
    <3> QED BY <1>3, <3>1, <3>2
  <2>4. \A k \in 1..n : k \in T
    <3> HIDE DEF T
    <3>1. \A k \in (1 + 1)..n : k - 1 \in T => k \in T BY <2>3
    <3> QED BY <1>1, <2>1, <2>2, <3>1, FromOneToNext
  <2> QED BY <2>4
<1>6. PICK s \in ParseStates : s = f[n] BY <1>1, <1>4
<1>t. PICK t : t = FlushBody(s) OBVIOUS
<1>7. PICK e \in Seq(GoodSegments) : t = FlushBody(s) /\ t.segs = s.segs \o e /\ t \in ParseStates
  <2>1. GoesOn(s, t) BY <1>6, <1>t, FlushGoesOn
  <2> QED BY <2>1, <1>t DEF GoesOn
<1>8. PICK was \in Seq(GoodSegments) : was = s.segs BY <1>6 DEF ParseStates
<1>9. was \o e \in Seq(GoodSegments) BY <1>7, <1>8, ConcatProperties
<1>10. ls # <<>> /\ ls[1].kind = "blank" => Opened(was \o e)
  <2> SUFFICES ASSUME ls # <<>>, ls[1].kind = "blank" PROVE Opened(was \o e) OBVIOUS
  <2>1. n \in 1..n BY <1>1
  <2>2. Opened(was) BY <1>5, <1>6, <1>8, <2>1
  <2> QED BY <1>7, <1>8, <2>2, StaysOpened
<1> QED BY <1>2, <1>6, <1>7, <1>8, <1>9, <1>10

-----------------------------------------------------------------------------
(* mergeSegments *)

Longer(a, b) == [a EXCEPT !.text = @ \o b.text]
Joins(S) ==
  S \subseteq AllSegments /\ \A a, b \in S : Mergeable(a, b) => Longer(a, b) \in S

LEMMA LongerIsTyped ==
  ASSUME NEW a \in AllSegments, NEW b \in AllSegments
  PROVE  /\ Longer(a, b) \in AllSegments
         /\ \A x \in {"style", "anchor", "chip", "kind", "heading", "list", "depth", "rows"} :
              Longer(a, b)[x] = a[x]
         /\ Longer(a, b).text = a.text \o b.text
<1>1. PICK t \in Seq(Words) : t = a.text \o b.text BY ConcatProperties DEF AllSegments
<1>2. Longer(a, b) = [a EXCEPT !.text = t] BY <1>1 DEF Longer, AllSegments
<1>3. PICK c : c = [a EXCEPT !.text = t] OBVIOUS
<1>4. c \in AllSegments BY <1>3 DEF AllSegments
<1>5. /\ c.style = a.style /\ c.anchor = a.anchor /\ c.chip = a.chip /\ c.kind = a.kind
      /\ c.heading = a.heading /\ c.list = a.list /\ c.depth = a.depth /\ c.rows = a.rows
      /\ c.text = t
  BY <1>3 DEF AllSegments
<1> QED BY <1>1, <1>2, <1>3, <1>4, <1>5

LEMMA TypedJoin == Joins(AllSegments)
BY LongerIsTyped DEF Joins

LEMMA MergedLooks ==
  ASSUME NEW a \in AllSegments, NEW b \in AllSegments, Mergeable(a, b)
  PROVE  /\ a.anchor = b.anchor /\ a.list = b.list /\ a.depth = b.depth
         /\ a.kind \in {"text", "code"} /\ a.chip = "none"
<1>1. PICK x, y : x = [a EXCEPT !.text = <<>>] /\ y = [b EXCEPT !.text = <<>>] OBVIOUS
<1>2. /\ x.anchor = a.anchor /\ x.list = a.list /\ x.depth = a.depth
      /\ y.anchor = b.anchor /\ y.list = b.list /\ y.depth = b.depth
  BY <1>1 DEF AllSegments
<1>3. x = y /\ a.kind \in {"text", "code"} /\ a.chip = "none" BY <1>1 DEF Mergeable
<1> QED BY <1>2, <1>3

LEMMA GoodJoin == Joins(GoodSegments)
<1>1. ASSUME NEW a \in GoodSegments, NEW b \in GoodSegments, Mergeable(a, b)
      PROVE  Longer(a, b) \in GoodSegments
  <2>1. PICK c \in AllSegments :
          /\ c = Longer(a, b) /\ c.anchor = a.anchor /\ c.chip = a.chip /\ c.kind = a.kind
          /\ c.list = a.list /\ c.depth = a.depth /\ c.rows = a.rows
          /\ c.text = a.text \o b.text
    BY LongerIsTyped DEF GoodSegments
  <2>2. a.anchor = b.anchor BY <1>1, MergedLooks DEF GoodSegments
  <2>3. ASSUME c.anchor # "none" PROVE \A i \in DOMAIN c.text : c.text[i] # "nl"
    <3>1. PICK s \in Seq(Words), t \in Seq(Words) : s = a.text /\ t = b.text
      BY DEF GoodSegments, AllSegments
    <3>2. /\ \A i \in DOMAIN s : s[i] # "nl"
          /\ \A i \in DOMAIN t : t[i] # "nl"
      BY <2>1, <2>2, <2>3, <3>1 DEF GoodSegments, Linkable
    <3>3. /\ Len(s) \in Nat /\ Len(t) \in Nat /\ Len(s \o t) = Len(s) + Len(t) /\ s \o t \in Seq(Words)
          /\ \A i \in 1..(Len(s) + Len(t)) : (s \o t)[i] = IF i <= Len(s) THEN s[i] ELSE t[i - Len(s)]
      BY ConcatProperties
    <3>4. PICK u \in Seq(Words) : u = s \o t BY <3>3
    <3>5. ASSUME NEW i \in DOMAIN u PROVE u[i] # "nl"
      <4>1. i \in 1..(Len(s) + Len(t)) BY <3>3, <3>4
      <4>2. CASE i <= Len(s)
        <5>1. i \in DOMAIN s BY <3>3, <4>1, <4>2
        <5> QED BY <3>2, <3>3, <3>4, <4>1, <4>2, <5>1
      <4>3. CASE ~(i <= Len(s))
        <5>1. i - Len(s) \in DOMAIN t BY <3>3, <4>1, <4>3
        <5> QED BY <3>2, <3>3, <3>4, <4>1, <4>3, <5>1
      <4> QED BY <4>2, <4>3
    <3> QED BY <2>1, <3>1, <3>4, <3>5
  <2>4. c.anchor # "none" /\ c.list # "none" => c.depth <= 1 BY <2>1 DEF GoodSegments, Linkable
  <2>5. c.kind # "text" => c.chip = "none" BY <2>1 DEF GoodSegments
  <2>6. c.kind = "table" => Even(c.rows) BY <2>1 DEF GoodSegments
  <2> QED BY <2>1, <2>3, <2>4, <2>5, <2>6 DEF GoodSegments, Linkable
<1> QED BY <1>1 DEF Joins, GoodSegments

LEMMA FenceStays ==
  ASSUME NEW a \in AllSegments, NEW b \in AllSegments, Fence(a)
  PROVE  Fence(Longer(a, b))
<1>1. PICK c \in AllSegments :
        /\ c = Longer(a, b) /\ c.anchor = a.anchor /\ c.chip = a.chip /\ c.kind = a.kind
        /\ c.list = a.list /\ c.heading = a.heading /\ c.text = a.text \o b.text
  BY LongerIsTyped
<1>2. PICK s \in Seq(Words), t \in Seq(Words) : s = a.text /\ t = b.text BY DEF AllSegments
<1>3. Len(s) >= 1 /\ Len(s) \in Nat /\ Len(t) \in Nat BY <1>2 DEF Fence
<1>4. PICK u \in Seq(Words) : u = s \o t BY ConcatProperties
<1>5. Len(u) = Len(s) + Len(t) /\ u[1] = s[1]
  <2>1. 1 \in 1..(Len(s) + Len(t)) /\ 1 <= Len(s) BY <1>3
  <2> QED BY <1>4, <2>1, ConcatProperties
<1>6. u # <<>> BY <1>3, <1>5
<1> QED BY <1>1, <1>2, <1>4, <1>5, <1>6 DEF Fence

LEMMA MergeKeeps ==
  ASSUME NEW S, Joins(S), NEW done \in Seq(S), NEW s \in S
  PROVE  /\ Merge(done, s) \in Seq(S)
         /\ Opened(done) \/ (done = <<>> /\ Fence(s)) => Opened(Merge(done, s))
<1>1. CASE done # <<>> /\ Mergeable(Last(done), s)
  <2>1. PICK n \in Nat : n = Len(done) /\ n >= 1 /\ n \in DOMAIN done BY <1>1
  <2>2. PICK a \in S : a = done[n] /\ a = Last(done) BY <2>1 DEF Last
  <2>3. PICK c \in S : c = Longer(a, s) BY <1>1, <2>2 DEF Joins
  <2>4. a \in AllSegments /\ s \in AllSegments BY DEF Joins
  <2>5. PICK e : e = [done EXCEPT ![n] = c] OBVIOUS
  <2>6. e \in Seq(S) /\ Len(e) = n /\ \A i \in 1..n : e[i] = IF i = n THEN c ELSE done[i]
    BY <2>1, <2>5
  <2>7. Merge(done, s) = e
    <3>1. [done EXCEPT ![n].text = @ \o s.text] = [done EXCEPT ![n] = Longer(done[n], s)]
      BY <2>1 DEF Longer
    <3> QED BY <1>1, <2>1, <2>2, <2>3, <2>5, <3>1 DEF Merge
  <2>8. ASSUME Opened(done) PROVE Opened(e)
    <3>1. e # <<>> BY <2>1, <2>6
    <3>2. CASE n = 1
      <4>1. Fence(c) BY <2>2, <2>3, <2>4, <2>8, <3>2, FenceStays DEF Opened
      <4> QED BY <2>6, <3>1, <3>2, <4>1 DEF Opened
    <3>3. CASE n # 1
      <4>1. 1 \in 1..n BY <2>1
      <4>2. e[1] = done[1] BY <2>6, <3>3, <4>1
      <4> QED BY <2>8, <3>1, <4>2 DEF Opened
    <3> QED BY <3>2, <3>3
  <2> QED BY <1>1, <2>6, <2>7, <2>8
<1>2. CASE ~(done # <<>> /\ Mergeable(Last(done), s))
  <2>1. PICK e \in Seq(S) : e = Append(done, s)
    <3>1. Append(done, s) \in Seq(S) OBVIOUS
    <3> QED BY <3>1
  <2>2. Merge(done, s) = e BY <1>2, <2>1 DEF Merge
  <2>3. e # <<>> /\ (done # <<>> => e[1] = done[1]) /\ (done = <<>> => e[1] = s) BY <2>1
  <2> QED BY <2>1, <2>2, <2>3 DEF Opened
<1> QED BY <1>1, <1>2

LEMMA MergeMade ==
  ASSUME NEW segs, Len(segs) \in Nat
  PROVE  \E f : /\ mergeSegments(segs) = f[Len(segs)] /\ f[0] = <<>>
                /\ \A k \in 1..Len(segs) : f[k] = Merge(f[k - 1], segs[k])
<1> DEFINE IsMade(f, m) ==
             f = [k \in 0..m |-> IF k = 0 THEN <<>> ELSE Merge(f[k - 1], segs[k])]
           T == {m \in Nat : \E f : IsMade(f, m)}
<1>1. 0 \in T
  <2>1. PICK f : f = [k \in 0..0 |-> <<>>] OBVIOUS
  <2>2. IsMade(f, 0) BY <2>1
  <2> QED BY <2>2
<1>2. ASSUME NEW m \in T PROVE m + 1 \in T
  <2>1. PICK f : IsMade(f, m) OBVIOUS
  <2>2. PICK n \in Nat : n = m + 1 OBVIOUS
  <2>3. PICK g : g = [k \in 0..n |-> IF k = n THEN Merge(f[m], segs[n]) ELSE f[k]] OBVIOUS
  <2>4. ASSUME NEW k \in 0..n
        PROVE  g[k] = IF k = 0 THEN <<>> ELSE Merge(g[k - 1], segs[k])
    <3>1. m \in Nat /\ m \in 0..n /\ m # n /\ n # 0 BY <2>2
    <3>2. g[m] = f[m] BY <2>3, <3>1
    <3>3. CASE k = n
      <4>1. k # 0 /\ k - 1 = m BY <2>2, <3>1, <3>3
      <4>2. g[k] = Merge(f[m], segs[k]) BY <2>3, <3>3
      <4> QED BY <3>2, <4>1, <4>2
    <3>4. CASE k # n
      <4>1. k \in 0..m /\ g[k] = f[k] BY <2>2, <2>3, <3>1, <3>4
      <4>2. f[k] = IF k = 0 THEN <<>> ELSE Merge(f[k - 1], segs[k]) BY <2>1, <4>1
      <4>3. k # 0 => k - 1 \in 0..n /\ k - 1 # n BY <2>2, <3>1, <4>1
      <4>4. k # 0 => g[k - 1] = f[k - 1] BY <2>3, <4>3
      <4> QED BY <4>1, <4>2, <4>4
    <3> QED BY <3>3, <3>4
  <2>5. g = [k \in 0..n |-> g[k]] BY <2>3
  <2>6. IsMade(g, n) BY <2>4, <2>5
  <2>7. \E h : IsMade(h, n) BY <2>6
  <2> HIDE DEF IsMade
  <2> QED BY <2>2, <2>7
<1>3. T = Nat
  <2> HIDE DEF T
  <2>1. T \in SUBSET Nat BY DEF T
  <2> QED BY <1>1, <1>2, <2>1, NatSet
<1>4. \E f : IsMade(f, Len(segs)) BY <1>3
<1>5. PICK f : f = CHOOSE g : IsMade(g, Len(segs)) OBVIOUS
<1>6. mergeSegments(segs) = f[Len(segs)] BY <1>5, Zenon DEF mergeSegments, Steps
<1>7. IsMade(f, Len(segs)) BY <1>4, <1>5, Zenon
<1>8. f[0] = <<>> BY <1>7
<1>9. ASSUME NEW k \in 1..Len(segs) PROVE f[k] = Merge(f[k - 1], segs[k])
  <2>1. k \in 0..Len(segs) /\ k # 0 OBVIOUS
  <2> QED BY <1>7, <2>1
<1> HIDE DEF IsMade, T
<1>10. PICK n : n = Len(segs) OBVIOUS
<1>11. \A k \in 1..n : f[k] = Merge(f[k - 1], segs[k]) BY <1>9, <1>10
<1> QED BY <1>6, <1>8, <1>10, <1>11, Zenon

LEMMA MergesKeep ==
  ASSUME NEW S, Joins(S), NEW segs \in Seq(S)
  PROVE  /\ mergeSegments(segs) \in Seq(S)
         /\ Opened(segs) => Opened(mergeSegments(segs))
<1>1. PICK n \in Nat : n = Len(segs) OBVIOUS
<1>2. PICK f : /\ mergeSegments(segs) = f[n] /\ f[0] = <<>>
               /\ \A k \in 1..n : f[k] = Merge(f[k - 1], segs[k])
  BY <1>1, MergeMade
<1>3. PICK Z : Z = Seq(S) OBVIOUS
<1>4. \A k \in 0..n : f[k] \in Z
  <2> DEFINE T == {k \in 0..n : f[k] \in Z}
  <2>1. 0 \in T
    <3>1. <<>> \in Seq(S) OBVIOUS
    <3>2. f[0] \in Z BY <1>2, <1>3, <3>1, Zenon
    <3>3. 0 \in 0..n BY <1>1
    <3> QED BY <3>2, <3>3
  <2>2. ASSUME NEW k \in 1..n, k - 1 \in T PROVE k \in T
    <3>1. PICK e \in Seq(S), s \in S : e = f[k - 1] /\ s = segs[k] BY <1>1, <1>3, <2>2
    <3>2. Merge(e, s) \in Seq(S) BY <3>1, MergeKeeps
    <3>3. k \in 0..n BY <1>1
    <3> QED BY <1>2, <1>3, <3>1, <3>2, <3>3
  <2>3. \A k \in 0..n : k \in T
    <3> HIDE DEF T
    <3>1. 0 \in 0..n BY <1>1
    <3>2. \A k \in (0 + 1)..n : k - 1 \in T => k \in T BY <2>2
    <3> QED BY <1>1, <2>1, <3>1, <3>2, FromOneToNext
  <2> QED BY <2>3
<1>5. ASSUME Opened(segs) PROVE Opened(f[n])
  <2> DEFINE T == {k \in 0..n : Opened(f[k])}
  <2>1. n >= 1 /\ 1 \in 1..n /\ 1 \in 0..n /\ 1 - 1 = 0 BY <1>1, <1>5 DEF Opened
  <2>2. 1 \in T
    <3>1. PICK s \in S : s = segs[1] /\ Fence(s) BY <1>1, <1>5, <2>1 DEF Opened
    <3>2. PICK e \in Seq(S) : e = <<>>
      <4>1. <<>> \in Seq(S) OBVIOUS
      <4> QED BY <4>1
    <3>3. Opened(Merge(e, s)) BY <3>1, <3>2, MergeKeeps
    <3> QED BY <1>2, <2>1, <3>1, <3>2, <3>3
  <2>3. ASSUME NEW k \in 2..n, k - 1 \in T PROVE k \in T
    <3>1. k \in 1..n /\ k \in 0..n /\ k - 1 \in 0..n BY <1>1
    <3>2. PICK e \in Seq(S), s \in S : e = f[k - 1] /\ s = segs[k] BY <1>1, <1>3, <1>4, <3>1
    <3>3. Opened(Merge(e, s)) BY <2>3, <3>2, MergeKeeps
    <3> QED BY <1>2, <3>1, <3>2, <3>3
  <2>4. \A k \in 1..n : k \in T
    <3> HIDE DEF T
    <3>1. \A k \in (1 + 1)..n : k - 1 \in T => k \in T BY <2>3
    <3> QED BY <1>1, <2>1, <2>2, <3>1, FromOneToNext
  <2>5. n \in 1..n BY <2>1
  <2> QED BY <2>4, <2>5
<1>6. f[n] \in Seq(S) BY <1>1, <1>3, <1>4
<1> QED BY <1>2, <1>5, <1>6

(* The text that loses its newline. *)
Shorter(a) == [a EXCEPT !.text = Front(@)]
LEMMA ShorterIsGood ==
  ASSUME NEW a \in GoodSegments, a.text # <<>>
  PROVE  /\ Shorter(a) \in GoodSegments
         /\ Fence(a) => Fence(Shorter(a)) \/ Shorter(a).text = <<>>
<1>1. PICK s \in Seq(Words) : s = a.text
  <2>1. a \in AllSegments BY DEF GoodSegments
  <2>2. a.text \in Seq(Words) BY <2>1 DEF AllSegments
  <2> QED BY <2>2, Zenon
<1>2. PICK n \in Nat : n = Len(s) - 1 /\ n + 1 = Len(s)
  <2>1. PICK m \in Nat \ {0} : m = Len(s) BY <1>1, EmptySeq, Zenon
  <2>2. m - 1 \in Nat /\ (m - 1) + 1 = m OBVIOUS
  <2> QED BY <2>1, <2>2, Zenon
<1>3. PICK t : t = Front(s) OBVIOUS
<1>4. t \in Seq(Words) /\ Len(t) = n /\ \A i \in 1..n : t[i] = s[i]
  <2>1. t = SubSeq(s, 1, n) BY <1>2, <1>3 DEF Front
  <2>2. \A i \in 1..n : s[i] \in Words BY <1>2
  <2> QED BY <1>2, <2>1, <2>2, SubSeqProperties
<1>5. PICK c : c = [a EXCEPT !.text = t] OBVIOUS
<1>6. c = Shorter(a) BY <1>1, <1>3, <1>5 DEF Shorter, GoodSegments, AllSegments
<1>7. /\ c \in AllSegments /\ c.text = t /\ c.anchor = a.anchor /\ c.chip = a.chip
      /\ c.kind = a.kind /\ c.list = a.list /\ c.depth = a.depth /\ c.rows = a.rows
      /\ c.heading = a.heading
  BY <1>4, <1>5 DEF GoodSegments, AllSegments
<1>8. c.anchor # "none" => \A i \in DOMAIN t : t[i] # "nl"
  <2>1. \A i \in DOMAIN t : i \in DOMAIN s /\ t[i] = s[i]
    <3>1. DOMAIN t = 1..n /\ DOMAIN s = 1..Len(s) BY <1>4
    <3> QED BY <1>2, <1>4, <3>1
  <2>2. a.anchor # "none" => \A i \in DOMAIN s : s[i] # "nl" BY <1>1 DEF GoodSegments, Linkable
  <2> QED BY <1>7, <2>1, <2>2
<1>9. Linkable(c) BY <1>7, <1>8 DEF GoodSegments, Linkable
<1>10. c \in GoodSegments BY <1>7, <1>9 DEF GoodSegments
<1>11. Fence(a) => Fence(c) \/ c.text = <<>>
  <2>1. t # <<>> => t[1] = s[1] BY <1>4
  <2> QED BY <1>1, <1>7, <2>1 DEF Fence
<1> QED BY <1>6, <1>10, <1>11

LEMMA LastIsThere ==
  ASSUME NEW n \in Nat, NEW T \in SUBSET (1..n), T # {}
  PROVE  \E i \in T : \A j \in T : j <= i
<1>1. PICK U : U = {n - i : i \in T} OBVIOUS
<1>2. U \in SUBSET Nat /\ U # {}
  <2>1. \A i \in T : n - i \in Nat OBVIOUS
  <2>2. PICK i \in T : TRUE OBVIOUS
  <2>3. n - i \in U BY <1>1
  <2>4. \A u \in U : u \in Nat BY <1>1, <2>1
  <2> QED BY <2>3, <2>4
<1>3. PICK m \in U : \A k \in U : m <= k BY <1>2, LeastNat
<1>4. PICK i \in T : m = n - i BY <1>1, <1>3
<1>5. ASSUME NEW j \in T PROVE j <= i
  <2>1. n - j \in U BY <1>1
  <2>2. m <= n - j BY <1>3, <2>1
  <2> QED BY <1>4, <2>2
<1> QED BY <1>5

LEMMA StrippedIsGood ==
  ASSUME NEW segs \in Seq(GoodSegments)
  PROVE  /\ Stripped(segs) \in Seq(GoodSegments)
         /\ Opened(segs) => \/ Opened(Stripped(segs))
                            \/ \A i \in DOMAIN Stripped(segs) : Bare(Stripped(segs)[i])
<1>1. PICK n \in Nat : n = Len(segs) /\ DOMAIN segs = 1..n OBVIOUS
<1>2. PICK texts : texts = {i \in DOMAIN segs : segs[i].text # <<>> /\ segs[i].chip = "none"}
  OBVIOUS
<1>3. PICK last : last = CHOOSE i \in texts : \A j \in texts : j <= i OBVIOUS
<1>4. CASE texts = {} \/ ~EndsLine(segs[last].text)
  <2>1. Stripped(segs) = segs BY <1>2, <1>3, <1>4, Zenon DEF Stripped
  <2> QED BY <2>1
<1>5. CASE ~(texts = {} \/ ~EndsLine(segs[last].text))
  <2>1. last \in texts /\ \A j \in texts : j <= last
    <3>1. texts \in SUBSET (1..n) /\ texts # {} BY <1>1, <1>2, <1>5
    <3>2. \E i \in texts : \A j \in texts : j <= i BY <3>1, LastIsThere
    <3> QED BY <1>3, <3>2, Zenon
  <2>2. PICK a \in GoodSegments : a = segs[last] /\ a.text # <<>> BY <1>2, <2>1
  <2>3. PICK c \in GoodSegments : c = Shorter(a) /\ (Fence(a) => Fence(c) \/ c.text = <<>>)
    BY <2>2, ShorterIsGood
  <2>4. PICK e : e = [segs EXCEPT ![last] = c] OBVIOUS
  <2>5. e \in Seq(GoodSegments) /\ Len(e) = n /\ \A i \in 1..n : e[i] = IF i = last THEN c ELSE segs[i]
    <3>1. last \in 1..n BY <1>1, <1>2, <2>1
    <3> QED BY <1>1, <2>3, <2>4, <3>1
  <2>6. Stripped(segs) = e
    <3>1. Stripped(segs) = [segs EXCEPT ![last].text = Front(@)]
      BY <1>2, <1>3, <1>5, Zenon DEF Stripped
    <3>2. [segs EXCEPT ![last].text = Front(@)] = [segs EXCEPT ![last] = Shorter(segs[last])]
      BY DEF Shorter
    <3> QED BY <2>2, <2>3, <2>4, <3>1, <3>2
  <2>7. ASSUME Opened(segs) PROVE Opened(e) \/ \A i \in DOMAIN e : Bare(e[i])
    <3>1. n >= 1 /\ 1 \in 1..n /\ e # <<>> BY <1>1, <2>5, <2>7 DEF Opened
    <3>2. CASE last # 1
      <4>1. e[1] = segs[1] BY <2>5, <3>1, <3>2
      <4> QED BY <2>7, <3>1, <4>1 DEF Opened
    <3>3. CASE last = 1 /\ Fence(c)
      <4>1. e[1] = c BY <2>5, <3>1, <3>3
      <4> QED BY <3>1, <3>3, <4>1 DEF Opened
    <3>4. CASE last = 1 /\ ~Fence(c)
      <4>1. c.text = <<>> BY <2>2, <2>3, <2>7, <3>4 DEF Opened
      <4>2. ASSUME NEW i \in DOMAIN e PROVE Bare(e[i])
        <5>1. i \in 1..n BY <2>5
        <5>2. CASE i = 1
          <6>1. e[i] = c BY <2>5, <3>4, <5>1, <5>2
          <6> QED BY <4>1, <6>1 DEF Bare
        <5>3. CASE i # 1
          <6>1. i \notin texts BY <2>1, <3>4, <5>1, <5>3
          <6>2. e[i] = segs[i] BY <2>5, <3>4, <5>1, <5>3
          <6> QED BY <1>1, <1>2, <5>1, <6>1, <6>2 DEF Bare
        <5> QED BY <5>2, <5>3
      <4> QED BY <4>2
    <3> QED BY <3>2, <3>3, <3>4
  <2> QED BY <2>5, <2>6, <2>7
<1> QED BY <1>4, <1>5

LEMMA MergedIsGood ==
  ASSUME NEW segs \in Seq(GoodSegments)
  PROVE  /\ \A strip \in BOOLEAN : Merged(segs, strip) \in Seq(GoodSegments)
         /\ Opened(segs) =>
              /\ Opened(Merged(segs, FALSE))
              /\ \/ Opened(Merged(segs, TRUE))
                 \/ \A i \in DOMAIN Merged(segs, TRUE) : Bare(Merged(segs, TRUE)[i])
<1>1. PICK done \in Seq(GoodSegments) :
        done = mergeSegments(segs) /\ (Opened(segs) => Opened(done))
  BY GoodJoin, MergesKeep
<1>2. Merged(segs, TRUE) = Stripped(done) /\ Merged(segs, FALSE) = done BY <1>1 DEF Merged
<1>3. \A strip \in BOOLEAN : strip = TRUE \/ strip = FALSE BY Zenon
<1>4. /\ Merged(segs, TRUE) \in Seq(GoodSegments) /\ Merged(segs, FALSE) \in Seq(GoodSegments)
  BY <1>1, <1>2, StrippedIsGood
<1>5. \A strip \in BOOLEAN : Merged(segs, strip) \in Seq(GoodSegments) BY <1>3, <1>4, Zenon
<1> QED BY <1>1, <1>2, <1>5, StrippedIsGood

-----------------------------------------------------------------------------
(* Tables: every cell begins behind the line break *)

Cells(p) == [cur : Positions(p + 1), reqs : Seq(Behind(p))]
CellStart(at) == [cur |-> at, reqs |-> <<>>]
LEMMA PutKeeps ==
  ASSUME NEW p \in Nat, NEW c \in Cells(p), NEW s \in AllSegments
  PROVE  PutSpan(c, s) \in Cells(p)
<1>1. PICK i \in Nat, lo \in Nat : i = c.cur /\ i >= lo /\ lo = p + 1 BY DEF Cells, Positions
<1>2. PICK size \in Nat : size = IF s.chip = "none" THEN Len(s.text) ELSE 1 BY DEF AllSegments
<1>3. PICK j \in Nat : j = i + size OBVIOUS
<1>4. PICK text \in Seq(Words), chip \in Words, style \in Words :
        text = s.text /\ chip = s.chip /\ style = s.style
  BY DEF AllSegments
<1>5. PICK a, b, g : /\ a = TextReq(i, text) /\ b = [op |-> "chip", at |-> i, chip |-> chip]
                     /\ g = StyleReq(i, j, style)
  OBVIOUS
<1>6. a \in Queries(lo, p) /\ b \in Queries(lo, p) /\ g \in Queries(lo, p)
  <2>1. p <= lo BY <1>1
  <2> QED BY <1>1, <1>4, <1>5, <2>1, RequestTypes
<1>7. Queries(lo, p) \subseteq Behind(p) BY <1>1 DEF Queries, Behind
<1>8. a \in Behind(p) /\ b \in Behind(p) /\ g \in Behind(p) BY <1>6, <1>7
<1>9. PICK put \in Seq(Behind(p)) : put = <<IF s.chip = "none" THEN a ELSE b>>
  <2>1. PICK q \in Behind(p) : q = IF s.chip = "none" THEN a ELSE b BY <1>8
  <2> QED BY <2>1, Singleton
<1>10. PICK styled \in Seq(Behind(p)) : styled = IF s.style = "plain" THEN <<>> ELSE <<g>>
  <2>1. <<g>> \in Seq(Behind(p)) BY <1>8, Singleton
  <2>2. <<>> \in Seq(Behind(p)) OBVIOUS
  <2> QED BY <2>1, <2>2
<1>11. PICK was \in Seq(Behind(p)) : was = c.reqs BY DEF Cells
<1>12. PICK front \in Seq(Behind(p)) : front = was \o put BY ConcatProperties
<1>13. PICK rs \in Seq(Behind(p)) : rs = front \o styled BY ConcatProperties
<1>14. [cur |-> j, reqs |-> rs] \in Cells(p)
  <2>1. j \in Positions(p + 1) BY <1>1, <1>3 DEF Positions
  <2> QED BY <2>1 DEF Cells
<1>15. CASE size = 0
  <2>1. PutSpan(c, s) = c BY <1>2, <1>15, Zenon DEF PutSpan
  <2> QED BY <2>1
<1>16. CASE size # 0
  <2>1. PutSpan(c, s) = [cur |-> j, reqs |-> rs]
    BY <1>1, <1>2, <1>3, <1>4, <1>5, <1>9, <1>10, <1>11, <1>12, <1>13, <1>16 DEF PutSpan
  <2> QED BY <1>14, <2>1
<1> QED BY <1>15, <1>16

Puts(f, segs, at, n) ==
  /\ populateTableCell(segs, at) = f[n].reqs /\ f[0] = CellStart(at)
  /\ \A k \in 1..n : f[k] = PutSpan(f[k - 1], segs[k])
LEMMA PutMade ==
  ASSUME NEW segs, NEW at, NEW last \in Nat, last = Len(segs)
  PROVE  \E f : Puts(f, segs, at, last)
<1> DEFINE IsMade(f, m) ==
             f = [k \in 0..m |-> IF k = 0 THEN CellStart(at) ELSE PutSpan(f[k - 1], segs[k])]
           T == {m \in Nat : \E f : IsMade(f, m)}
<1>1. 0 \in T
  <2>1. PICK f : f = [k \in 0..0 |-> CellStart(at)] OBVIOUS
  <2>2. IsMade(f, 0) BY <2>1
  <2> QED BY <2>2
<1>2. ASSUME NEW m \in T PROVE m + 1 \in T
  <2>1. PICK f : IsMade(f, m) OBVIOUS
  <2>2. PICK n \in Nat : n = m + 1 OBVIOUS
  <2>3. PICK g : g = [k \in 0..n |-> IF k = n THEN PutSpan(f[m], segs[n]) ELSE f[k]] OBVIOUS
  <2>4. ASSUME NEW k \in 0..n
        PROVE  g[k] = IF k = 0 THEN CellStart(at) ELSE PutSpan(g[k - 1], segs[k])
    <3>1. m \in Nat /\ m \in 0..n /\ m # n /\ n # 0 BY <2>2
    <3>2. g[m] = f[m] BY <2>3, <3>1
    <3>3. CASE k = n
      <4>1. k # 0 /\ k - 1 = m BY <2>2, <3>1, <3>3
      <4>2. g[k] = PutSpan(f[m], segs[k]) BY <2>3, <3>3
      <4> QED BY <3>2, <4>1, <4>2
    <3>4. CASE k # n
      <4>1. k \in 0..m /\ g[k] = f[k] BY <2>2, <2>3, <3>1, <3>4
      <4>2. f[k] = IF k = 0 THEN CellStart(at) ELSE PutSpan(f[k - 1], segs[k]) BY <2>1, <4>1
      <4>3. k # 0 => k - 1 \in 0..n /\ k - 1 # n BY <2>2, <3>1, <4>1
      <4>4. k # 0 => g[k - 1] = f[k - 1] BY <2>3, <4>3
      <4> QED BY <4>1, <4>2, <4>4
    <3> QED BY <3>3, <3>4
  <2>5. g = [k \in 0..n |-> g[k]] BY <2>3
  <2>6. IsMade(g, n) BY <2>4, <2>5
  <2>7. \E h : IsMade(h, n) BY <2>6
  <2> HIDE DEF IsMade
  <2> QED BY <2>2, <2>7
<1>3. T = Nat
  <2> HIDE DEF T
  <2>1. T \in SUBSET Nat BY DEF T
  <2> QED BY <1>1, <1>2, <2>1, NatSet
<1>4. \E f : IsMade(f, last) BY <1>3
<1>5. PICK f : f = CHOOSE g : IsMade(g, last) OBVIOUS
<1>6. populateTableCell(segs, at) = f[last].reqs
  BY <1>5, Zenon DEF populateTableCell, Steps, CellStart
<1>7. IsMade(f, last) BY <1>4, <1>5, Zenon
<1>8. f[0] = CellStart(at) BY <1>7
<1>9. ASSUME NEW k \in 1..last PROVE f[k] = PutSpan(f[k - 1], segs[k])
  <2>1. k \in 0..last /\ k # 0 OBVIOUS
  <2> QED BY <1>7, <2>1
<1> HIDE DEF IsMade, T
<1>10. Puts(f, segs, at, last) BY <1>6, <1>8, <1>9, Zenon DEF Puts
<1> QED BY <1>10, Zenon

LEMMA CellRequests ==
  ASSUME NEW p \in Nat, NEW segs \in Seq(AllSegments), NEW at \in Positions(p + 1)
  PROVE  populateTableCell(segs, at) \in Seq(Behind(p))
<1>1. PICK n \in Nat : n = Len(segs) OBVIOUS
<1>12. PICK f : Puts(f, segs, at, n) BY <1>1, PutMade, Zenon
<1>2. /\ populateTableCell(segs, at) = f[n].reqs /\ f[0] = CellStart(at)
      /\ \A k \in 1..n : f[k] = PutSpan(f[k - 1], segs[k])
  BY <1>12, Zenon DEF Puts
<1> DEFINE T == {k \in 0..n : f[k] \in Cells(p)}
<1>3. 0 \in T
  <2>1. PICK none \in Seq(Behind(p)) : none = <<>>
    <3>1. <<>> \in Seq(Behind(p)) OBVIOUS
    <3> QED BY <3>1
  <2>2. CellStart(at) = [cur |-> at, reqs |-> none] BY <2>1 DEF CellStart
  <2>3. CellStart(at) \in Cells(p) BY <2>2 DEF Cells
  <2> QED BY <1>1, <1>2, <2>3
<1>4. ASSUME NEW k \in 1..n, k - 1 \in T PROVE k \in T
  <2>1. PICK c \in Cells(p), s \in AllSegments : c = f[k - 1] /\ s = segs[k] BY <1>1, <1>4
  <2>2. PutSpan(c, s) \in Cells(p) BY <2>1, PutKeeps
  <2>3. k \in 0..n BY <1>1
  <2> QED BY <1>2, <2>1, <2>2, <2>3
<1>5. \A k \in 0..n : k \in T
  <2> HIDE DEF T
  <2>1. 0 \in 0..n BY <1>1
  <2>2. \A k \in (0 + 1)..n : k - 1 \in T => k \in T BY <1>4
  <2> QED BY <1>1, <1>3, <2>1, <2>2, FromOneToNext
<1>6. f[n] \in Cells(p) BY <1>1, <1>5
<1> QED BY <1>2, <1>6 DEF Cells

GoodRows == Seq(Seq(Seq(TypedSpans)))
GoodTables(p) ==
  {t \in [rows : GoodRows, cells : Seq(Seq(Positions(p + 1)))] :
     /\ DOMAIN t.rows \subseteq DOMAIN t.cells
     /\ \A r \in DOMAIN t.rows : DOMAIN t.rows[r] \subseteq DOMAIN t.cells[r]}

LEMMA CellStartsAreBehind ==
  ASSUME NEW p \in Nat, NEW i \in Nat, i >= p, NEW rows \in GoodRows, Even(rows), NEW t,
         t = [rows |-> rows, cells |-> CellStarts(i, Len(rows), Len(rows[1]))]
  PROVE  t \in GoodTables(p)
<1>1. PICK n \in Nat : n = Len(rows) /\ DOMAIN rows = 1..n /\ n >= 1 BY DEF GoodRows, Even
<1>2. PICK cols \in Nat : cols = Len(rows[1])
  <2>1. rows[1] \in Seq(Seq(TypedSpans)) BY <1>1 DEF GoodRows
  <2> QED BY <2>1
<1>3. PICK cells : cells = CellStarts(i, n, cols) OBVIOUS
<1>4. PICK P : P = Positions(p + 1) OBVIOUS
<1>5. ASSUME NEW r \in 1..n PROVE cells[r] \in Seq(P) /\ DOMAIN cells[r] = 1..cols
  <2>1. PICK row : row = cells[r] OBVIOUS
  <2>2. row = [c \in 1..cols |-> i + (r - 1) * (1 + 2 * cols) + 2 * c + 1]
    BY <1>3, <2>1 DEF CellStarts
  <2>3. PICK above \in Nat : above = (r - 1) * (1 + 2 * cols)
    <3>1. r - 1 \in Nat /\ 1 + 2 * cols \in Nat OBVIOUS
    <3>2. \A x, y \in Nat : x * y \in Nat OBVIOUS
    <3> QED BY <3>1, <3>2
  <2>4. \A c \in 1..cols : i + above + 2 * c + 1 \in P BY <1>4 DEF Positions
  <2>5. row \in [1..cols -> P] BY <2>2, <2>3, <2>4
  <2> QED BY <2>1, <2>5
<1>6. cells \in Seq(Seq(P)) /\ DOMAIN cells = 1..n
  <2>1. DOMAIN cells = 1..n /\ cells = [r \in 1..n |-> cells[r]] BY <1>3 DEF CellStarts
  <2>2. cells \in [1..n -> Seq(P)] BY <1>5, <2>1
  <2> QED BY <2>1, <2>2
<1>7. ASSUME NEW r \in DOMAIN rows PROVE DOMAIN rows[r] \subseteq DOMAIN cells[r]
  <2>1. rows[r] \in Seq(Seq(TypedSpans)) /\ Len(rows[r]) = cols BY <1>2 DEF GoodRows, Even
  <2>2. DOMAIN rows[r] = 1..cols BY <2>1
  <2> QED BY <1>1, <1>5, <2>2
<1>8. t = [rows |-> rows, cells |-> cells] BY <1>1, <1>2, <1>3
<1>9. t \in [rows : GoodRows, cells : Seq(Seq(P))] /\ t.rows = rows /\ t.cells = cells
  BY <1>6, <1>8
<1>10. DOMAIN t.rows \subseteq DOMAIN t.cells BY <1>1, <1>6, <1>9
<1>11. \A r \in DOMAIN t.rows : DOMAIN t.rows[r] \subseteq DOMAIN t.cells[r] BY <1>7, <1>9
<1> QED BY <1>4, <1>9, <1>10, <1>11 DEF GoodTables

LEMMA GroupIsBehind ==
  ASSUME NEW p \in Nat, NEW t \in GoodTables(p), NEW r \in DOMAIN t.rows, NEW c \in DOMAIN t.rows[r]
  PROVE  CellGroup(t, r, c) \in Seq(Seq(Behind(p)))
<1>1. PICK spans \in Seq(TypedSpans) : spans = t.rows[r][c]
  <2>1. PICK row \in Seq(Seq(TypedSpans)) : row = t.rows[r] BY DEF GoodTables, GoodRows
  <2>2. c \in DOMAIN row BY <2>1
  <2>3. row[c] \in Seq(TypedSpans) BY <2>2
  <2> QED BY <2>1, <2>3
<1>2. PICK at \in Positions(p + 1) : at = t.cells[r][c]
  <2>1. PICK P : P = Positions(p + 1) OBVIOUS
  <2>2. r \in DOMAIN t.cells /\ c \in DOMAIN t.cells[r] /\ t.cells \in Seq(Seq(P))
    BY <2>1 DEF GoodTables
  <2>3. PICK row \in Seq(P) : row = t.cells[r] BY <2>2
  <2>4. row[c] \in P BY <2>2, <2>3
  <2> QED BY <2>1, <2>3, <2>4
<1>3. PICK segs \in Seq(AllSegments) : segs = Segments(spans)
  <2>1. PICK e : e = Segments(spans) OBVIOUS
  <2>2. PICK kind \in Kinds : kind = "text" BY DEF Kinds
  <2>3. \A k \in DOMAIN spans : e[k] \in AllSegments BY <2>1, <2>2, SegmentTypes DEF Segments
  <2>4. DOMAIN spans = 1..Len(spans) /\ Len(spans) \in Nat OBVIOUS
  <2>5. e \in [1..Len(spans) -> AllSegments] BY <2>1, <2>3, <2>4 DEF Segments
  <2> QED BY <2>1, <2>4, <2>5
<1>4. PICK merged \in Seq(AllSegments) : merged = mergeSegments(segs) BY TypedJoin, MergesKeep
<1>5. PICK reqs \in Seq(Behind(p)) : reqs = populateTableCell(merged, at) BY CellRequests
<1>6. PICK one \in Seq(Seq(Behind(p))), none \in Seq(Seq(Behind(p))) : one = <<reqs>> /\ none = <<>>
  <2>1. PICK Z : Z = Seq(Behind(p)) OBVIOUS
  <2>2. <<reqs>> \in Seq(Z) BY <2>1, Singleton
  <2>3. <<>> \in Seq(Z) OBVIOUS
  <2> QED BY <2>1, <2>2, <2>3
<1>7. CellGroup(t, r, c) = IF reqs = <<>> THEN none ELSE one
  BY <1>1, <1>2, <1>3, <1>4, <1>5, <1>6, Zenon DEF CellGroup
<1> QED BY <1>6, <1>7

LEMMA CollectedIsBehind ==
  ASSUME NEW p \in Nat, NEW t \in GoodTables(p)
  PROVE  collectTableCellRequests(t) \in Seq(Seq(Behind(p)))
<1>1. PICK n \in Nat : n = Len(t.rows) /\ DOMAIN t.rows = 1..n
  <2>1. PICK Q : Q = Seq(TypedSpans) OBVIOUS
  <2>2. t.rows \in Seq(Seq(Q)) BY <2>1 DEF GoodTables, GoodRows
  <2>3. PICK rows \in Seq(Seq(Q)) : rows = t.rows BY <2>2
  <2> QED BY <2>3, LenProperties, Zenon
<1>2. PICK Z : Z = Seq(Behind(p)) OBVIOUS
<1> DEFINE Row(row) ==
      FlattenSeq([c \in DOMAIN t.rows[row] |-> CellGroup(t, row, Len(t.rows[row]) + 1 - c)])
<1>3. ASSUME NEW row \in 1..n PROVE Row(row) \in Seq(Z)
  <2>1. PICK m \in Nat : m = Len(t.rows[row]) /\ DOMAIN t.rows[row] = 1..m
    <3>1. PICK Q : Q = Seq(TypedSpans) OBVIOUS
    <3>2. t.rows[row] \in Seq(Q) BY <1>1, <3>1 DEF GoodTables, GoodRows
    <3>3. PICK cells \in Seq(Q) : cells = t.rows[row] BY <3>2
    <3>4. Len(cells) \in Nat /\ DOMAIN cells = 1..Len(cells) BY LenProperties
    <3> QED BY <3>3, <3>4, Zenon
  <2>2. PICK parts : parts = [c \in 1..m |-> CellGroup(t, row, m + 1 - c)] OBVIOUS
  <2>3. ASSUME NEW c \in 1..m PROVE parts[c] \in Seq(Z)
    <3>1. PICK k : k = m + 1 - c OBVIOUS
    <3>2. k \in DOMAIN t.rows[row] /\ row \in DOMAIN t.rows BY <1>1, <2>1, <3>1
    <3>3. CellGroup(t, row, k) \in Seq(Z) BY <1>2, <3>2, GroupIsBehind
    <3> QED BY <2>2, <3>1, <3>3
  <2>4. parts \in Seq(Seq(Z))
    <3>1. parts = [c \in 1..m |-> parts[c]] BY <2>2
    <3>2. parts \in [1..m -> Seq(Z)] BY <2>3, <3>1
    <3> QED BY <3>2
  <2>5. FlattenSeq(parts) \in Seq(Z) BY <2>4, FlattenIsSeq
  <2> QED BY <2>1, <2>2, <2>5
<1>4. PICK parts : parts = [r \in 1..n |-> Row(n + 1 - r)] OBVIOUS
<1>5. parts \in Seq(Seq(Z))
  <2>1. \A r \in 1..n : n + 1 - r \in 1..n OBVIOUS
  <2>2. \A r \in 1..n : Row(n + 1 - r) \in Seq(Z)
    <3> HIDE DEF Row
    <3> QED BY <1>3, <2>1
  <2>3. parts \in [1..n -> Seq(Z)]
    <3> HIDE DEF Row
    <3> QED BY <1>4, <2>2
  <2> QED BY <2>3
<1>6. FlattenSeq(parts) \in Seq(Z) BY <1>5, FlattenIsSeq
<1>7. collectTableCellRequests(t) = FlattenSeq(parts)
  BY <1>1, <1>4 DEF collectTableCellRequests
<1> QED BY <1>2, <1>6, <1>7

LEMMA PackKeeps ==
  ASSUME NEW S, NEW done \in Seq(Seq(S)), NEW g \in Seq(S)
  PROVE  Pack(done, g) \in Seq(Seq(S))
<1>1. PICK Z : Z = Seq(S) OBVIOUS
<1>2. CASE done # <<>> /\ Len(Last(done)) + Len(g) <= MaxCellReqs
  <2>1. PICK n \in Nat : n = Len(done) /\ n \in DOMAIN done BY <1>2
  <2>2. PICK last \in Seq(S) : last = done[n] BY <2>1
  <2>3. PICK both \in Z : both = last \o g BY <1>1, ConcatProperties
  <2>4. [done EXCEPT ![n] = both] \in Seq(Z) BY <1>1, <2>1
  <2>5. Pack(done, g) = [done EXCEPT ![n] = both] BY <1>2, <2>1, <2>2, <2>3 DEF Pack
  <2> QED BY <1>1, <2>4, <2>5
<1>3. CASE ~(done # <<>> /\ Len(Last(done)) + Len(g) <= MaxCellReqs)
  <2>1. Append(done, g) \in Seq(Z) BY <1>1
  <2>2. Pack(done, g) = Append(done, g) BY <1>3 DEF Pack
  <2> QED BY <1>1, <2>1, <2>2
<1> QED BY <1>2, <1>3

Packed(groups) == Steps(LAMBDA done, k : Pack(done, groups[k]), <<>>, Len(groups))
LEMMA PackMade ==
  ASSUME NEW groups, Len(groups) \in Nat
  PROVE  \E f : /\ Packed(groups) = f[Len(groups)] /\ f[0] = <<>>
                /\ \A k \in 1..Len(groups) : f[k] = Pack(f[k - 1], groups[k])
<1> DEFINE IsMade(f, m) ==
             f = [k \in 0..m |-> IF k = 0 THEN <<>> ELSE Pack(f[k - 1], groups[k])]
           T == {m \in Nat : \E f : IsMade(f, m)}
<1>1. 0 \in T
  <2>1. PICK f : f = [k \in 0..0 |-> <<>>] OBVIOUS
  <2>2. IsMade(f, 0) BY <2>1
  <2> QED BY <2>2
<1>2. ASSUME NEW m \in T PROVE m + 1 \in T
  <2>1. PICK f : IsMade(f, m) OBVIOUS
  <2>2. PICK n \in Nat : n = m + 1 OBVIOUS
  <2>3. PICK g : g = [k \in 0..n |-> IF k = n THEN Pack(f[m], groups[n]) ELSE f[k]] OBVIOUS
  <2>4. ASSUME NEW k \in 0..n
        PROVE  g[k] = IF k = 0 THEN <<>> ELSE Pack(g[k - 1], groups[k])
    <3>1. m \in Nat /\ m \in 0..n /\ m # n /\ n # 0 BY <2>2
    <3>2. g[m] = f[m] BY <2>3, <3>1
    <3>3. CASE k = n
      <4>1. k # 0 /\ k - 1 = m BY <2>2, <3>1, <3>3
      <4>2. g[k] = Pack(f[m], groups[k]) BY <2>3, <3>3
      <4> QED BY <3>2, <4>1, <4>2
    <3>4. CASE k # n
      <4>1. k \in 0..m /\ g[k] = f[k] BY <2>2, <2>3, <3>1, <3>4
      <4>2. f[k] = IF k = 0 THEN <<>> ELSE Pack(f[k - 1], groups[k]) BY <2>1, <4>1
      <4>3. k # 0 => k - 1 \in 0..n /\ k - 1 # n BY <2>2, <3>1, <4>1
      <4>4. k # 0 => g[k - 1] = f[k - 1] BY <2>3, <4>3
      <4> QED BY <4>1, <4>2, <4>4
    <3> QED BY <3>3, <3>4
  <2>5. g = [k \in 0..n |-> g[k]] BY <2>3
  <2>6. IsMade(g, n) BY <2>4, <2>5
  <2>7. \E h : IsMade(h, n) BY <2>6
  <2> HIDE DEF IsMade
  <2> QED BY <2>2, <2>7
<1>3. T = Nat
  <2> HIDE DEF T
  <2>1. T \in SUBSET Nat BY DEF T
  <2> QED BY <1>1, <1>2, <2>1, NatSet
<1>4. \E f : IsMade(f, Len(groups)) BY <1>3
<1>5. PICK f : f = CHOOSE g : IsMade(g, Len(groups)) OBVIOUS
<1>6. Packed(groups) = f[Len(groups)] BY <1>5, Zenon DEF Packed, Steps
<1>7. IsMade(f, Len(groups)) BY <1>4, <1>5, Zenon
<1>8. f[0] = <<>> BY <1>7
<1>9. ASSUME NEW k \in 1..Len(groups) PROVE f[k] = Pack(f[k - 1], groups[k])
  <2>1. k \in 0..Len(groups) /\ k # 0 OBVIOUS
  <2> QED BY <1>7, <2>1
<1> HIDE DEF IsMade, T
<1>10. PICK n : n = Len(groups) OBVIOUS
<1>11. \A k \in 1..n : f[k] = Pack(f[k - 1], groups[k]) BY <1>9, <1>10
<1> QED BY <1>6, <1>8, <1>10, <1>11, Zenon

LEMMA PackedIsSeq ==
  ASSUME NEW S, NEW groups \in Seq(Seq(S))
  PROVE  Packed(groups) \in Seq(Seq(S))
<1>1. PICK n \in Nat : n = Len(groups) OBVIOUS
<1>2. PICK f : /\ Packed(groups) = f[n] /\ f[0] = <<>>
               /\ \A k \in 1..n : f[k] = Pack(f[k - 1], groups[k])
  BY <1>1, PackMade
<1>3. PICK Z : Z = Seq(Seq(S)) OBVIOUS
<1> DEFINE T == {k \in 0..n : f[k] \in Z}
<1>4. 0 \in T
  <2>1. <<>> \in Seq(Seq(S)) OBVIOUS
  <2>2. f[0] \in Z BY <1>2, <1>3, <2>1, Zenon
  <2>3. 0 \in 0..n BY <1>1
  <2> QED BY <2>2, <2>3
<1>5. ASSUME NEW k \in 1..n, k - 1 \in T PROVE k \in T
  <2>1. PICK done \in Seq(Seq(S)), g \in Seq(S) : done = f[k - 1] /\ g = groups[k]
    BY <1>1, <1>3, <1>5
  <2>2. Pack(done, g) \in Z BY <1>3, <2>1, PackKeeps
  <2>3. k \in 0..n BY <1>1
  <2> QED BY <1>2, <2>1, <2>2, <2>3
<1>6. \A k \in 0..n : k \in T
  <2> HIDE DEF T
  <2>1. 0 \in 0..n BY <1>1
  <2>2. \A k \in (0 + 1)..n : k - 1 \in T => k \in T BY <1>5
  <2> QED BY <1>1, <1>4, <2>1, <2>2, FromOneToNext
<1>7. f[n] \in Z BY <1>1, <1>6
<1> QED BY <1>2, <1>3, <1>7

LEMMA BatchesAreBehind ==
  ASSUME NEW p \in Nat, NEW tables \in Seq(GoodTables(p))
  PROVE  buildCellBatches(tables) \in Seq(Seq(Behind(p)))
<1>1. PICK n \in Nat : n = Len(tables) /\ DOMAIN tables = 1..n OBVIOUS
<1>2. PICK order : order = TablesInOrder(tables) OBVIOUS
<1>3. \A t \in 1..n : order[t] \in GoodTables(p)
  <2>1. \A t \in 1..n : (n - t) + 1 \in 1..n OBVIOUS
  <2>2. \A t \in 1..n : order[t] = tables[(n - t) + 1] BY <1>1, <1>2 DEF TablesInOrder, Reverse
  <2> QED BY <1>1, <2>1, <2>2
<1>4. PICK Z : Z = Seq(Behind(p)) OBVIOUS
<1>5. PICK parts : parts = [t \in 1..n |-> collectTableCellRequests(order[t])] OBVIOUS
<1>6. parts \in Seq(Seq(Z))
  <2>1. \A t \in 1..n : parts[t] \in Seq(Z) BY <1>3, <1>4, <1>5, CollectedIsBehind
  <2>2. parts = [t \in 1..n |-> parts[t]] BY <1>5
  <2>3. parts \in [1..n -> Seq(Z)] BY <2>1, <2>2
  <2> QED BY <2>3
<1>7. PICK groups \in Seq(Z) : groups = FlattenSeq(parts) BY <1>6, FlattenIsSeq
<1>8. Packed(groups) \in Seq(Z) BY <1>4, PackedIsSeq
<1>9. buildCellBatches(tables) = Packed(groups)
  <2>1. groups = FlattenSeq([t \in DOMAIN tables |->
                               collectTableCellRequests(TablesInOrder(tables)[t])])
    BY <1>1, <1>2, <1>5, <1>7
  <2> QED BY <2>1, Zenon DEF buildCellBatches, Packed, Steps
<1> QED BY <1>4, <1>8, <1>9

LEMMA NothingToFill ==
  ASSUME NEW S, NEW tables, tables = <<>>
  PROVE  buildCellBatches(tables) \in Seq(Seq(S))
<1>1. PICK Z : Z = Seq(S) OBVIOUS
<1>2. PICK parts : parts = [t \in DOMAIN tables |->
                              collectTableCellRequests(TablesInOrder(tables)[t])]
  OBVIOUS
<1>3. parts = <<>> BY <1>2
<1>4. PICK groups \in Seq(Z) : groups = FlattenSeq(parts)
  <2>1. <<>> \in Seq(Seq(Z)) OBVIOUS
  <2>2. parts \in Seq(Seq(Z)) BY <1>3, <2>1, Zenon
  <2>3. FlattenSeq(parts) \in Seq(Z) BY <2>2, FlattenIsSeq
  <2> QED BY <2>3
<1>5. Packed(groups) \in Seq(Z) BY <1>1, PackedIsSeq
<1>6. buildCellBatches(tables) = Packed(groups)
  BY <1>2, <1>4, Zenon DEF buildCellBatches, Packed, Steps
<1> QED BY <1>1, <1>5, <1>6

-----------------------------------------------------------------------------
(* resolveAnchorLinks: a link begins where its text does *)

Links(d, anchors) ==
  LET links(a) == IF <<a.slug>> \in Slugs(d) THEN <<AnchorRange(a)>> ELSE <<>>
  IN FlattenSeq([k \in DOMAIN anchors |-> links(anchors[k])])
LEMMA LinksAreMarks ==
  ASSUME NEW p \in Nat, NEW d, NEW anchors \in Seq(Anchors(p))
  PROVE  Links(d, anchors) \in Seq(Marks(p))
<1>1. PICK n \in Nat : n = Len(anchors) /\ DOMAIN anchors = 1..n OBVIOUS
<1>2. PICK Z : Z = Seq(Marks(p)) OBVIOUS
<1>3. ASSUME NEW a \in Anchors(p)
      PROVE  (IF <<a.slug>> \in Slugs(d) THEN <<AnchorRange(a)>> ELSE <<>>) \in Z
  <2>1. PICK from \in Positions(p), to \in Int, slug \in Words :
          from = a.from - a.tabs /\ to = a.to - a.tabs /\ slug = a.slug
    BY DEF Anchors, Positions
  <2>2. PICK q : q = AnchorRange(a) OBVIOUS
  <2>3. q = [op |-> "link", from |-> from, to |-> to, link |-> slug] BY <2>1, <2>2 DEF AnchorRange
  <2>4. q \in Marks(p) BY <2>3 DEF Marks
  <2>5. <<q>> \in Z BY <1>2, <2>4, Singleton
  <2>6. <<>> \in Z BY <1>2
  <2> QED BY <2>2, <2>5, <2>6
<1>4. PICK parts : parts = [k \in 1..n |-> IF <<anchors[k].slug>> \in Slugs(d)
                                           THEN <<AnchorRange(anchors[k])>> ELSE <<>>]
  OBVIOUS
<1>5. parts \in Seq(Z)
  <2>1. \A k \in 1..n : anchors[k] \in Anchors(p) BY <1>1
  <2>2. \A k \in 1..n : parts[k] \in Z BY <1>3, <1>4, <2>1
  <2>3. parts = [k \in 1..n |-> parts[k]] BY <1>4
  <2>4. parts \in [1..n -> Z] BY <2>2, <2>3
  <2> QED BY <2>4
<1>6. FlattenSeq(parts) \in Seq(Marks(p)) BY <1>2, <1>5, FlattenIsSeq
<1>7. Links(d, anchors) = FlattenSeq(parts) BY <1>1, <1>4 DEF Links
<1> QED BY <1>6, <1>7

LEMMA MarksAreBehind ==
  ASSUME NEW p \in Nat
  PROVE  /\ Seq(Marks(p)) \subseteq Seq(Behind(p))
         /\ Seq(Marks(p)) \subseteq Seq(Inserts(p) \cup Marks(p))
<1>1. Marks(p) \subseteq Behind(p) BY DEF Behind
<1> QED BY <1>1, SeqMonotonic

-----------------------------------------------------------------------------
(* toolWrite and insertMarkdownWithTables *)

LEMMA StartsAreDocs ==
  ASSUME NEW d \in StartDocs
  PROVE  /\ IsDoc(d) /\ Len(d) \in Nat \ {0} /\ IsNewline(d[Len(d)])
         /\ SameUpTo(d, d, Len(d) - 1)
<1>1. d \in Seq(Units) /\ d # <<>> /\ d[Len(d)].g = "nl" BY DocAssumption
<1>2. Len(d) \in Nat \ {0} /\ Len(d) \in DOMAIN d BY <1>1
<1>3. d[Len(d)] \in Units BY <1>1, <1>2
<1>4. IsNewline(d[Len(d)]) BY <1>1, <1>3 DEF IsNewline, Units
<1>5. IsDoc(d) BY <1>1 DEF IsDoc
<1> QED BY <1>2, <1>4, <1>5 DEF SameUpTo

LEMMA FirstTable ==
  ASSUME NEW n, n = NextTable, n # 0, job.segs \in Seq(GoodSegments)
  PROVE  n \in 1..Len(job.segs) /\ job.segs[n].kind = "table"
<1>1. PICK tables : tables = {i \in DOMAIN job.segs : job.segs[i].kind = "table"} OBVIOUS
<1>2. tables # {} BY <1>1, Zenon DEF NextTable
<1>3. n = CHOOSE i \in tables : \A j \in tables : i <= j BY <1>1, <1>2, Zenon DEF NextTable
<1>4. tables \in SUBSET Nat /\ DOMAIN job.segs = 1..Len(job.segs) BY <1>1
<1>5. n \in tables
  <2>1. \E i \in tables : \A j \in tables : i <= j BY <1>2, <1>4, LeastNat
  <2> QED BY <1>3, <2>1, Zenon
<1> QED BY <1>1, <1>4, <1>5

LEMMA PartsAreGood ==
  ASSUME NEW S, NEW segs \in Seq(S), NEW n \in 2..Len(segs)
  PROVE  /\ SubSeq(segs, 1, n - 1) \in Seq(S) /\ SubSeq(segs, n, Len(segs)) \in Seq(S)
         /\ Opened(segs) => Opened(SubSeq(segs, 1, n - 1))
<1>1. PICK a, b : a = SubSeq(segs, 1, n - 1) /\ b = SubSeq(segs, n, Len(segs)) OBVIOUS
<1>2. a \in Seq(S) /\ Len(a) = n - 1 /\ \A k \in 1..(n - 1) : a[k] = segs[k]
  <2>1. \A k \in 1..(n - 1) : segs[k] \in S OBVIOUS
  <2>2. 1 <= n - 1 /\ (n - 1) - 1 + 1 = n - 1 OBVIOUS
  <2> QED BY <1>1, <2>1, <2>2, SubSeqProperties
<1>3. b \in Seq(S) BY <1>1, SubSeqProperties
<1>4. a # <<>> /\ a[1] = segs[1] BY <1>2
<1> QED BY <1>1, <1>2, <1>3, <1>4 DEF Opened

LEMMA TableIsBehind ==
  ASSUME NEW at \in Nat, NEW i, i = TableFrom(at), IsDoc(doc),
         \E k \in at..Len(doc) : doc[k].g = "table"
  PROVE  i \in Nat /\ i >= at
<1>1. Len(doc) \in Nat BY DocLen
<1>2. PICK T : T = {k \in at..Len(doc) : doc[k].g = "table"} OBVIOUS
<1>3. PICK k \in T : \A j \in T : k <= j
  <2>1. T \in SUBSET Nat /\ T # {} BY <1>1, <1>2
  <2> QED BY <2>1, LeastNat
<1>4. \A j \in at..(k - 1) : doc[j].g # "table"
  <2>1. \A j \in at..(k - 1) : j \in at..Len(doc) /\ ~(k <= j) BY <1>1, <1>2
  <2> QED BY <1>2, <1>3, <2>1
<1>5. k \in at..Len(doc) /\ doc[k].g = "table" BY <1>2
<1>6. i \in at..Len(doc)
  <2>1. i = CHOOSE c \in at .. Len(doc) :
              doc[c].g = "table" /\ \A j \in at .. c - 1 : doc[j].g # "table"
    BY DEF TableFrom
  <2>2. \E c \in at..Len(doc) : doc[c].g = "table" /\ \A j \in at .. c - 1 : doc[j].g # "table"
    BY <1>4, <1>5
  <2> QED BY <2>1, <2>2, Zenon
<1> QED BY <1>1, <1>6

(* job is a record of these fields. *)
JobOf(j) ==
  j = [pc |-> j.pc, segs |-> j.segs, at |-> j.at, cur |-> j.cur, tables |-> j.tables,
       anchors |-> j.anchors, batches |-> j.batches, made |-> j.made]

(* The four phases of a write to a document of p units.  Nothing has been  *)
(* done; nothing has, and the text begins with the line break; the line    *)
(* break is there and all work lies behind it; or the text was chips and   *)
(* no line break came of it.                                               *)
Untouched == job.pc \in {"idle", "failed"} /\ doc = old
AboutToOpen(p) ==
  /\ job.pc = "next" /\ doc = old /\ job.cur = p
  /\ job.segs \in Seq(GoodSegments) /\ Opened(job.segs)
  /\ job.anchors = <<>> /\ job.tables = <<>> /\ job.batches = <<>>
BehindTheBreak(p) ==
  /\ Fenced(old, doc, p) /\ job.pc # "idle"
  /\ job.pc \in {"next", "find"} => job.cur \in Positions(p + 1)
  /\ job.segs \in Seq(GoodSegments)
  /\ job.anchors \in Seq(Anchors(p)) /\ job.tables \in Seq(GoodTables(p))
  /\ job.batches \in Seq(Seq(Behind(p)))
  /\ job.pc = "find" => job.segs # <<>> /\ job.segs[1].kind = "table"
ChipsAlone(p) ==
  /\ SameUpTo(old, doc, p - 1) /\ job.pc \in {"anchors", "cells", "done", "failed"}
  /\ job.anchors \in Seq(Anchors(p)) /\ job.tables = <<>>
  /\ job.batches \in Seq(Seq(Inserts(p) \cup Marks(p)))
Phases(p) == Untouched \/ AboutToOpen(p) \/ BehindTheBreak(p) \/ ChipsAlone(p)
WriteInv ==
  /\ old \in StartDocs /\ JobOf(job)
  /\ job.pc = "idle" => doc = old
  /\ Len(old) > 1 => Phases(Len(old))

LEMMA Begins ==
  ASSUME DocInit
  PROVE  WriteInv
<1>1. old \in StartDocs /\ doc = old /\ job = NoJob BY DEF DocInit
<1>2. JobOf(job) /\ job.pc = "idle" BY <1>1 DEF JobOf, NoJob
<1> QED BY <1>1, <1>2 DEF WriteInv, Phases, Untouched

LEMMA PhasesKeepText ==
  ASSUME WriteInv
  PROVE  OldTextKept
<1>1. PICK p \in Nat \ {0} : p = Len(old) /\ SameUpTo(old, old, p - 1)
  BY StartsAreDocs DEF WriteInv
<1>2. \A i \in 1..(p - 1) : doc[i] = old[i]
  <2>1. CASE p = 1 BY <2>1
  <2>2. CASE p # 1
    <3>1. Phases(p) BY <1>1, <2>2 DEF WriteInv
    <3>2. SameUpTo(old, doc, p - 1)
      BY <1>1, <3>1 DEF Phases, Untouched, AboutToOpen, BehindTheBreak, ChipsAlone, Fenced
    <3> QED BY <3>2 DEF SameUpTo
  <2> QED BY <2>1, <2>2
<1>3. PICK n \in Nat : n = p - 1 OBVIOUS
<1>4. SubSeq(doc, 1, n) = [i \in 1..n |-> doc[i]] /\ SubSeq(old, 1, n) = [i \in 1..n |-> old[i]]
  OBVIOUS
<1>5. SubSeq(doc, 1, n) = SubSeq(old, 1, n) BY <1>2, <1>3, <1>4
<1> QED BY <1>1, <1>3, <1>5 DEF OldTextKept

LEMMA toolWriteKeeps ==
  ASSUME ShallowLinks, WriteInv, toolWrite
  PROVE  WriteInv'
<1>1. job.pc = "idle" /\ doc' = old /\ old' = old /\ doc = old
  BY DEF toolWrite, WriteInv
<1>2. PICK md \in Markdowns :
        job' = [NoJob EXCEPT !.pc = "next", !.at = Len(doc), !.cur = Len(doc),
                  !.segs = parseMarkdown(IF Breaks(md, Len(doc)) THEN <<BlankLine>> \o md ELSE md)]
  BY DEF toolWrite
<1>3. PICK p \in Nat \ {0} : p = Len(old) BY StartsAreDocs DEF WriteInv
<1>4. PICK ls : ls = IF Breaks(md, p) THEN <<BlankLine>> \o md ELSE md OBVIOUS
<1>5. job' = [pc |-> "next", segs |-> parseMarkdown(ls), at |-> p, cur |-> p, tables |-> <<>>,
              anchors |-> <<>>, batches |-> <<>>, made |-> 0]
  BY <1>1, <1>2, <1>3, <1>4 DEF NoJob
<1>6. /\ JobOf(job') /\ job'.pc = "next" /\ job'.segs = parseMarkdown(ls) /\ job'.cur = p
      /\ job'.anchors = <<>> /\ job'.tables = <<>> /\ job'.batches = <<>>
  BY <1>5 DEF JobOf
<1>7. ASSUME p > 1 PROVE AboutToOpen(p)'
  <2>1. md \in Seq(GoodLines) /\ md # <<>> BY MarkdownsAreGood
  <2>2. ls \in Seq(GoodLines) /\ ls # <<>> /\ ls[1].kind = "blank"
    <3>1. CASE Breaks(md, p)
      <4>1. PICK b \in GoodLines : b = BlankLine /\ b.kind = "blank" BY BlankIsGood DEF BlankLine
      <4>2. PICK one : one = <<b>> OBVIOUS
      <4>3. one \in Seq(GoodLines) /\ Len(one) = 1 /\ one[1] = b BY <4>2, Singleton
      <4>4. PICK e : e = one \o md OBVIOUS
      <4>5. e \in Seq(GoodLines) /\ Len(e) = Len(one) + Len(md) /\ Len(md) \in Nat /\ e[1] = one[1]
        <5>1. Len(md) \in Nat BY <2>1
        <5>2. 1 \in 1..(Len(one) + Len(md)) /\ 1 <= Len(one) BY <4>3, <5>1
        <5>3. /\ one \o md \in Seq(GoodLines) /\ Len(one \o md) = Len(one) + Len(md)
              /\ (one \o md)[1] = one[1]
          BY <2>1, <4>3, <5>2, ConcatProperties
        <5> QED BY <4>4, <5>1, <5>3
      <4>6. e # <<>> BY <4>3, <4>5
      <4>7. ls = e BY <1>4, <3>1, <4>1, <4>2, <4>4
      <4> QED BY <4>1, <4>3, <4>5, <4>6, <4>7
    <3>2. CASE ~Breaks(md, p)
      <4>1. md[1].kind = "blank" BY <1>7, <3>2 DEF Breaks
      <4> QED BY <1>4, <2>1, <3>2, <4>1
    <3> QED BY <3>1, <3>2
  <2>3. parseMarkdown(ls) \in Seq(GoodSegments) /\ Opened(parseMarkdown(ls)) BY <2>2, ParseIsGood
  <2> QED BY <1>1, <1>6, <2>3 DEF AboutToOpen
<1>8. Len(old)' > 1 => Phases(Len(old))'
  <2>1. Len(old') = p BY <1>1, <1>3
  <2> QED BY <1>7, <2>1 DEF Phases
<1> QED BY <1>1, <1>6, <1>8 DEF WriteInv

LEMMA FlushBeforeKeeps ==
  ASSUME WriteInv, FlushBefore
  PROVE  WriteInv'
<1>1. job.pc = "next" /\ old' = old BY DEF FlushBefore
<1>2. PICK p \in Nat \ {0} : p = Len(old) BY StartsAreDocs DEF WriteInv
<1>3. PICK n : n = NextTable OBVIOUS
<1>4. PICK part, rest : part = SubSeq(job.segs, 1, n - 1) /\ rest = SubSeq(job.segs, n, Len(job.segs))
  OBVIOUS
<1>5. PICK m : m = convertMarkdownToRequests(part, job.cur, FALSE) OBVIOUS
<1>6. PICK anchors : anchors = job.anchors \o m.anchors OBVIOUS
<1>7. doc' = BatchUpdate(doc, m.reqs) BY <1>3, <1>4, <1>5 DEF FlushBefore
<1>8. job' = [pc |-> job.pc, segs |-> rest, at |-> job.at, cur |-> m.final, tables |-> job.tables,
              anchors |-> anchors, batches |-> job.batches, made |-> job.made]
  <2>1. job' = [job EXCEPT !.segs = rest, !.cur = m.final, !.anchors = anchors]
    BY <1>3, <1>4, <1>5, <1>6 DEF FlushBefore, WriteInv, JobOf
  <2> QED BY <2>1 DEF WriteInv, JobOf
<1>9. /\ JobOf(job') /\ job'.pc = "next" /\ job'.segs = rest /\ job'.cur = m.final
      /\ job'.anchors = anchors /\ job'.tables = job.tables /\ job'.batches = job.batches
  BY <1>1, <1>8 DEF JobOf
<1>10. ASSUME p > 1 PROVE BehindTheBreak(p)'
  <2>1. AboutToOpen(p) \/ BehindTheBreak(p)
    BY <1>1, <1>2, <1>10 DEF WriteInv, Phases, Untouched, ChipsAlone
  <2>2. job.segs \in Seq(GoodSegments) BY <2>1 DEF AboutToOpen, BehindTheBreak
  <2>3. n \in 2..Len(job.segs)
    <3>1. n > 1 BY <1>3 DEF FlushBefore
    <3>2. n # 0 BY <3>1
    <3>3. n \in 1..Len(job.segs) BY <1>3, <2>2, <3>2, FirstTable
    <3> QED BY <3>1, <3>3
  <2>4. /\ part \in Seq(GoodSegments) /\ rest \in Seq(GoodSegments)
        /\ Opened(job.segs) => Opened(part)
    <3>1. PICK S : S = GoodSegments OBVIOUS
    <3>2. PICK segs \in Seq(S) : segs = job.segs BY <2>2, <3>1
    <3> QED BY <1>4, <2>3, <3>1, <3>2, PartsAreGood
  <2>5. /\ Merged(part, FALSE) \in Seq(GoodSegments)
        /\ Opened(part) => Opened(Merged(part, FALSE))
    BY <2>4, MergedIsGood
  <2>6. Fenced(old, doc', p) /\ Returned(m, p)
    <3>1. CASE AboutToOpen(p)
      <4>1. Merged(part, FALSE) # <<>> /\ Fence(Merged(part, FALSE)[1])
        BY <2>4, <2>5, <3>1 DEF AboutToOpen, Opened
      <4>2. m.reqs \in Opening(p) /\ Returned(m, p)
        <5>1. PICK no : no = FALSE OBVIOUS
        <5> QED BY <1>5, <2>5, <3>1, <4>1, <5>1, ConvertOpens DEF AboutToOpen
      <4>3. IsDoc(doc) /\ Len(doc) = p /\ IsNewline(doc[p]) /\ doc = old
        BY <1>2, <3>1, StartsAreDocs DEF AboutToOpen, WriteInv
      <4>4. Fenced(doc, BatchUpdate(doc, m.reqs), p) BY <4>2, <4>3, BatchOpens
      <4> QED BY <1>7, <4>2, <4>3, <4>4
    <3>2. CASE BehindTheBreak(p)
      <4>1. job.cur \in Nat /\ job.cur >= p + 1 BY <1>1, <3>2 DEF BehindTheBreak, Positions
      <4>2. m.reqs \in Seq(Behind(p)) /\ Returned(m, p)
        <5>1. PICK no : no = FALSE OBVIOUS
        <5>2. PICK at \in Nat, q \in Nat : at = job.cur /\ q = p BY <4>1
        <5> QED BY <1>5, <2>5, <4>1, <5>1, <5>2, ConvertBehind
      <4>3. Fenced(old, BatchUpdate(doc, m.reqs), p) BY <3>2, <4>2, BatchFenced DEF BehindTheBreak
      <4> QED BY <1>7, <4>2, <4>3
    <3> QED BY <2>1, <3>1, <3>2
  <2>7. /\ job.tables \in Seq(GoodTables(p)) /\ job.batches \in Seq(Seq(Behind(p)))
        /\ job.anchors \in Seq(Anchors(p))
    <3>1. <<>> \in Seq(GoodTables(p)) /\ <<>> \in Seq(Seq(Behind(p))) /\ <<>> \in Seq(Anchors(p))
      OBVIOUS
    <3> QED BY <2>1, <3>1, Zenon DEF AboutToOpen, BehindTheBreak
  <2>8. anchors \in Seq(Anchors(p))
    BY <1>6, <2>6, <2>7, ConcatProperties DEF Returned
  <2>9. m.final \in Positions(p + 1) BY <2>6 DEF Returned
  <2> QED BY <1>1, <1>9, <2>4, <2>6, <2>7, <2>8, <2>9 DEF BehindTheBreak
<1>11. Len(old)' > 1 => Phases(Len(old))'
  <2>1. Len(old') = p BY <1>1, <1>2
  <2> QED BY <1>10, <2>1 DEF Phases
<1> QED BY <1>1, <1>9, <1>11 DEF WriteInv

LEMMA CreateTableKeeps ==
  ASSUME WriteInv, CreateTable
  PROVE  WriteInv'
<1>1. job.pc = "next" /\ old' = old /\ NextTable = 1 BY DEF CreateTable
<1>2. PICK p \in Nat \ {0} : p = Len(old) BY StartsAreDocs DEF WriteInv
<1>3. PICK q : q = [op |-> "table", at |-> job.cur, rows |-> Len(job.segs[1].rows),
                    cols |-> Len(job.segs[1].rows[1])]
  OBVIOUS
<1>4. doc' = BatchUpdate(doc, <<q>>) BY <1>3 DEF CreateTable
<1>5. job' = [pc |-> "find", segs |-> job.segs, at |-> job.at, cur |-> job.cur,
              tables |-> job.tables, anchors |-> job.anchors, batches |-> job.batches,
              made |-> job.made]
  BY DEF CreateTable, WriteInv, JobOf
<1>6. /\ JobOf(job') /\ job'.pc = "find" /\ job'.segs = job.segs /\ job'.cur = job.cur
      /\ job'.anchors = job.anchors /\ job'.tables = job.tables /\ job'.batches = job.batches
  BY <1>5 DEF JobOf
<1>7. ASSUME p > 1 PROVE BehindTheBreak(p)'
  <2>1. AboutToOpen(p) \/ BehindTheBreak(p)
    BY <1>1, <1>2, <1>7 DEF WriteInv, Phases, Untouched, ChipsAlone
  <2>2. job.segs \in Seq(GoodSegments) BY <2>1 DEF AboutToOpen, BehindTheBreak
  <2>3. 1 \in 1..Len(job.segs) /\ job.segs[1].kind = "table"
    <3>1. PICK n : n = NextTable /\ n = 1 /\ n # 0 BY <1>1
    <3> QED BY <2>2, <3>1, FirstTable
  <2>4. BehindTheBreak(p) BY <2>1, <2>3 DEF AboutToOpen, Opened, Fence
  <2>5. PICK seg \in GoodSegments : seg = job.segs[1] /\ Even(seg.rows)
    BY <2>2, <2>3 DEF GoodSegments
  <2>6. PICK rows \in Nat, cols \in Nat : rows = Len(seg.rows) /\ cols = Len(seg.rows[1])
    <3>1. PICK table \in GoodRows : table = seg.rows BY DEF GoodRows, GoodSegments, AllSegments
    <3>2. Len(table) \in Nat /\ 1 \in DOMAIN table BY <2>5, <3>1 DEF GoodRows, Even
    <3>3. table[1] \in Seq(Seq(TypedSpans)) BY <3>2 DEF GoodRows
    <3> QED BY <3>1, <3>2, <3>3
  <2>7. q \in Behind(p)
    <3>1. job.cur \in Positions(p + 1) BY <1>1, <2>4 DEF BehindTheBreak
    <3>2. q = [op |-> "table", at |-> job.cur, rows |-> rows, cols |-> cols] BY <1>3, <2>5, <2>6
    <3> QED BY <3>1, <3>2 DEF Behind, Tables
  <2>8. PICK one \in Seq(Behind(p)) : one = <<q>> BY <2>7, Singleton
  <2>9. Fenced(old, BatchUpdate(doc, one), p) BY <2>4, BatchFenced DEF BehindTheBreak
  <2>10. job.segs # <<>> BY <2>2, <2>3
  <2>11. job.cur \in Positions(p + 1) BY <1>1, <2>4 DEF BehindTheBreak
  <2> QED BY <1>1, <1>4, <1>6, <2>3, <2>4, <2>8, <2>9, <2>10, <2>11 DEF BehindTheBreak
<1>8. Len(old)' > 1 => Phases(Len(old))'
  <2>1. Len(old') = p BY <1>1, <1>2
  <2> QED BY <1>7, <2>1 DEF Phases
<1> QED BY <1>1, <1>6, <1>8 DEF WriteInv

LEMMA FindTableKeeps ==
  ASSUME WriteInv, FindTable
  PROVE  WriteInv'
<1>1. job.pc = "find" /\ old' = old /\ doc' = doc BY DEF FindTable
<1>2. PICK p \in Nat \ {0} : p = Len(old) BY StartsAreDocs DEF WriteInv
<1>3. PICK rows : rows = job.segs[1].rows OBVIOUS
<1>4. PICK i : i = TableFrom(job.cur) OBVIOUS
<1>5. PICK size : size = Len(EmptyTable(Len(rows), Len(rows[1]))) OBVIOUS
<1>6. PICK t : t = [rows |-> rows, cells |-> CellStarts(i, Len(rows), Len(rows[1]))] OBVIOUS
<1>7. PICK rest, tables : rest = Tail(job.segs) /\ tables = Append(job.tables, t) OBVIOUS
<1>8. job' = [pc |-> "next", segs |-> rest, at |-> job.at, cur |-> i + size, tables |-> tables,
              anchors |-> job.anchors, batches |-> job.batches, made |-> job.made]
  <2>1. job' = [job EXCEPT !.pc = "next", !.segs = rest, !.cur = i + size, !.tables = tables]
    BY <1>3, <1>4, <1>5, <1>6, <1>7 DEF FindTable, WriteInv, JobOf
  <2> QED BY <2>1 DEF WriteInv, JobOf
<1>9. /\ JobOf(job') /\ job'.pc = "next" /\ job'.segs = rest /\ job'.cur = i + size
      /\ job'.anchors = job.anchors /\ job'.tables = tables /\ job'.batches = job.batches
  BY <1>8 DEF JobOf
<1>10. ASSUME p > 1 PROVE BehindTheBreak(p)'
  <2>1. BehindTheBreak(p)
    BY <1>1, <1>2, <1>10 DEF WriteInv, Phases, Untouched, AboutToOpen, ChipsAlone
  <2>2. PICK segs \in Seq(GoodSegments) : segs = job.segs /\ segs # <<>> /\ segs[1].kind = "table"
    BY <1>1, <2>1 DEF BehindTheBreak
  <2>3. PICK seg \in GoodSegments : seg = segs[1] /\ seg.rows = rows /\ seg.kind = "table"
    <3>1. 1 \in DOMAIN segs BY <2>2
    <3> QED BY <1>3, <2>2, <3>1
  <2>4. rows \in GoodRows /\ Even(rows) BY <2>3 DEF GoodSegments, AllSegments, GoodRows
  <2>5. i \in Nat /\ i >= job.cur /\ job.cur \in Nat /\ job.cur >= p + 1
    <3>1. PICK at \in Nat : at = job.cur /\ at >= p + 1 BY <1>1, <2>1 DEF BehindTheBreak, Positions
    <3>2. IsDoc(doc) BY <2>1 DEF BehindTheBreak, Fenced, SameUpTo
    <3>3. \E k \in at..Len(doc) : doc[k].g = "table" BY <3>1 DEF FindTable
    <3>4. i \in Nat /\ i >= at BY <1>4, <3>1, <3>2, <3>3, TableIsBehind
    <3> QED BY <3>1, <3>4
  <2>6. t \in GoodTables(p)
    <3>1. i >= p BY <2>5
    <3> QED BY <1>6, <2>4, <2>5, <3>1, CellStartsAreBehind
  <2>7. size \in Nat
    <3>1. Len(rows) \in Nat /\ 1 \in DOMAIN rows BY <2>4 DEF GoodRows, Even
    <3>2. rows[1] \in Seq(Seq(TypedSpans)) BY <2>4, <3>1 DEF GoodRows
    <3>3. PICK n \in Nat, cols \in Nat : n = Len(rows) /\ cols = Len(rows[1]) BY <3>1, <3>2
    <3>4. IsDoc(EmptyTable(n, cols)) BY EmptyTableIsDoc
    <3>5. PICK e : e = EmptyTable(n, cols) OBVIOUS
    <3>6. Len(e) \in Nat BY <3>4, <3>5, DocLen
    <3> QED BY <1>5, <3>3, <3>5, <3>6
  <2>8. i + size \in Positions(p + 1) BY <2>5, <2>7 DEF Positions
  <2>9. tables \in Seq(GoodTables(p))
    <3>1. PICK T : T = GoodTables(p) OBVIOUS
    <3>2. PICK was \in Seq(T) : was = job.tables BY <2>1, <3>1 DEF BehindTheBreak
    <3>3. Append(was, t) \in Seq(T) BY <2>6, <3>1
    <3> QED BY <1>7, <3>1, <3>2, <3>3
  <2>10. rest \in Seq(GoodSegments) BY <1>7, <2>2
  <2> QED BY <1>1, <1>9, <2>1, <2>8, <2>9, <2>10 DEF BehindTheBreak
<1>11. Len(old)' > 1 => Phases(Len(old))'
  <2>1. Len(old') = p BY <1>1, <1>2
  <2> QED BY <1>10, <2>1 DEF Phases
<1> QED BY <1>1, <1>9, <1>11 DEF WriteInv

LEMMA FlushRestKeeps ==
  ASSUME WriteInv, FlushRest
  PROVE  WriteInv'
<1>1. job.pc = "next" /\ old' = old BY DEF FlushRest
<1>2. PICK p \in Nat \ {0} : p = Len(old) BY StartsAreDocs DEF WriteInv
<1>3. PICK yes : yes = TRUE OBVIOUS
<1>4. PICK m : m = convertMarkdownToRequests(job.segs, job.cur, yes) OBVIOUS
<1>5. PICK anchors : anchors = job.anchors \o m.anchors OBVIOUS
<1>6. doc' = BatchUpdate(doc, m.reqs) BY <1>3, <1>4 DEF FlushRest
<1>7. job' = [pc |-> "anchors", segs |-> <<>>, at |-> job.at, cur |-> job.cur,
              tables |-> job.tables, anchors |-> anchors, batches |-> job.batches,
              made |-> job.made]
  <2>1. job' = [job EXCEPT !.pc = "anchors", !.segs = <<>>, !.anchors = anchors]
    BY <1>3, <1>4, <1>5 DEF FlushRest, WriteInv, JobOf
  <2> QED BY <2>1 DEF WriteInv, JobOf
<1>8. /\ JobOf(job') /\ job'.pc = "anchors" /\ job'.segs = <<>> /\ job'.cur = job.cur
      /\ job'.anchors = anchors /\ job'.tables = job.tables /\ job'.batches = job.batches
  BY <1>7 DEF JobOf
<1>9. ASSUME p > 1 PROVE BehindTheBreak(p)' \/ ChipsAlone(p)'
  <2>1. AboutToOpen(p) \/ BehindTheBreak(p)
    BY <1>1, <1>2, <1>9 DEF WriteInv, Phases, Untouched, ChipsAlone
  <2>2. job.segs \in Seq(GoodSegments) BY <2>1 DEF AboutToOpen, BehindTheBreak
  <2>3. PICK segs : segs = Merged(job.segs, yes) OBVIOUS
  <2>4. /\ segs \in Seq(GoodSegments)
        /\ Opened(job.segs) => Opened(segs) \/ \A i \in DOMAIN segs : Bare(segs[i])
    <3>1. yes \in BOOLEAN BY <1>3
    <3> QED BY <1>3, <2>2, <2>3, <3>1, MergedIsGood
  <2>5. /\ job.tables \in Seq(GoodTables(p)) /\ job.batches \in Seq(Seq(Behind(p)))
        /\ job.anchors \in Seq(Anchors(p))
    <3>1. <<>> \in Seq(GoodTables(p)) /\ <<>> \in Seq(Seq(Behind(p))) /\ <<>> \in Seq(Anchors(p))
      OBVIOUS
    <3> QED BY <2>1, <3>1, Zenon DEF AboutToOpen, BehindTheBreak
  <2>6. ASSUME m.anchors \in Seq(Anchors(p)) PROVE anchors \in Seq(Anchors(p))
    BY <1>5, <2>5, <2>6, ConcatProperties
  <2>7. ASSUME Fenced(old, doc', p), m.anchors \in Seq(Anchors(p)) PROVE BehindTheBreak(p)'
    <3>1. <<>> \in Seq(GoodSegments) OBVIOUS
    <3> QED BY <1>1, <1>8, <2>5, <2>6, <2>7, <3>1 DEF BehindTheBreak
  <2>8. CASE BehindTheBreak(p)
    <3>1. job.cur \in Nat /\ job.cur >= p + 1 BY <1>1, <2>8 DEF BehindTheBreak, Positions
    <3>2. m.reqs \in Seq(Behind(p)) /\ Returned(m, p)
      <4>1. PICK at \in Nat, q \in Nat : at = job.cur /\ q = p BY <3>1
      <4> QED BY <1>4, <2>3, <2>4, <3>1, <4>1, ConvertBehind
    <3>3. Fenced(old, BatchUpdate(doc, m.reqs), p) BY <2>8, <3>2, BatchFenced DEF BehindTheBreak
    <3> QED BY <1>6, <2>7, <3>2, <3>3 DEF Returned
  <2>9. CASE AboutToOpen(p)
    <3>1. /\ IsDoc(doc) /\ Len(doc) = p /\ IsNewline(doc[p]) /\ doc = old /\ job.cur = p
          /\ SameUpTo(old, doc, p - 1)
      BY <1>2, <2>9, StartsAreDocs DEF AboutToOpen, WriteInv
    <3>2. CASE Opened(segs)
      <4>1. Merged(job.segs, yes) # <<>> /\ Fence(Merged(job.segs, yes)[1])
        BY <2>3, <3>2 DEF Opened
      <4>2. m.reqs \in Opening(p) /\ Returned(m, p)
        BY <1>4, <2>3, <2>4, <3>1, <4>1, ConvertOpens
      <4>3. Fenced(doc, BatchUpdate(doc, m.reqs), p) BY <3>1, <4>2, BatchOpens
      <4> QED BY <1>6, <2>7, <3>1, <4>2, <4>3 DEF Returned
    <3>3. CASE \A i \in DOMAIN segs : Bare(segs[i])
      <4>1. m.reqs \in Seq(Inserts(p) \cup Marks(p)) /\ m.anchors \in Seq(Anchors(p))
        <5>1. PICK q \in Nat : q = p OBVIOUS
        <5> QED BY <1>4, <2>3, <2>4, <3>1, <3>3, <5>1, ConvertBare
      <4>2. SameUpTo(old, doc', p - 1)
        <5>1. PICK n \in Nat : n = p - 1 /\ n + 1 = p OBVIOUS
        <5>2. SameUpTo(old, BatchUpdate(doc, m.reqs), n) BY <3>1, <4>1, <5>1, BatchPlain
        <5> QED BY <1>6, <5>1, <5>2
      <4>3. job.tables = <<>> /\ job.batches = <<>> BY <2>9 DEF AboutToOpen
      <4>4. <<>> \in Seq(Seq(Inserts(p) \cup Marks(p))) OBVIOUS
      <4>5. ChipsAlone(p)' BY <1>1, <1>8, <2>6, <4>1, <4>2, <4>3, <4>4 DEF ChipsAlone
      <4> QED BY <4>5
    <3> QED BY <2>4, <2>9, <3>2, <3>3 DEF AboutToOpen
  <2> QED BY <2>1, <2>8, <2>9
<1>10. Len(old)' > 1 => Phases(Len(old))'
  <2>1. Len(old') = p BY <1>1, <1>2
  <2> QED BY <1>9, <2>1 DEF Phases
<1> QED BY <1>1, <1>8, <1>10 DEF WriteInv

LEMMA resolveAnchorLinksKeeps ==
  ASSUME WriteInv, resolveAnchorLinks
  PROVE  WriteInv'
<1>1. job.pc = "anchors" /\ old' = old BY DEF resolveAnchorLinks
<1>2. PICK p \in Nat \ {0} : p = Len(old) BY StartsAreDocs DEF WriteInv
<1>3. PICK links, batches : links = Links(doc, job.anchors) /\ batches = buildCellBatches(job.tables)
  OBVIOUS
<1>4. doc' = BatchUpdate(doc, links) BY <1>3, Zenon DEF resolveAnchorLinks, Links
<1>5. job' = [pc |-> "cells", segs |-> job.segs, at |-> job.at, cur |-> job.cur,
              tables |-> job.tables, anchors |-> job.anchors, batches |-> batches,
              made |-> job.made]
  BY <1>3 DEF resolveAnchorLinks, WriteInv, JobOf
<1>6. /\ JobOf(job') /\ job'.pc = "cells" /\ job'.segs = job.segs /\ job'.cur = job.cur
      /\ job'.anchors = job.anchors /\ job'.tables = job.tables /\ job'.batches = batches
  BY <1>5 DEF JobOf
<1>7. ASSUME p > 1 PROVE BehindTheBreak(p)' \/ ChipsAlone(p)'
  <2>1. BehindTheBreak(p) \/ ChipsAlone(p)
    BY <1>1, <1>2, <1>7 DEF WriteInv, Phases, Untouched, AboutToOpen
  <2>2. links \in Seq(Marks(p)) BY <1>3, <2>1, LinksAreMarks DEF BehindTheBreak, ChipsAlone
  <2>3. CASE BehindTheBreak(p)
    <3>1. batches \in Seq(Seq(Behind(p))) BY <1>3, <2>3, BatchesAreBehind DEF BehindTheBreak
    <3>2. links \in Seq(Behind(p)) BY <2>2, MarksAreBehind
    <3>3. Fenced(old, BatchUpdate(doc, links), p) BY <2>3, <3>2, BatchFenced DEF BehindTheBreak
    <3>4. BehindTheBreak(p)' BY <1>1, <1>4, <1>6, <2>3, <3>1, <3>3 DEF BehindTheBreak
    <3> QED BY <3>4
  <2>4. CASE ChipsAlone(p)
    <3>1. batches \in Seq(Seq(Inserts(p) \cup Marks(p)))
      BY <1>3, <2>4, NothingToFill DEF ChipsAlone
    <3>2. links \in Seq(Inserts(p) \cup Marks(p)) BY <2>2, MarksAreBehind
    <3>3. SameUpTo(old, doc', p - 1)
      <4>1. PICK n \in Nat : n = p - 1 /\ n + 1 = p OBVIOUS
      <4>2. SameUpTo(old, BatchUpdate(doc, links), n) BY <2>4, <3>2, <4>1, BatchPlain DEF ChipsAlone
      <4> QED BY <1>4, <4>1, <4>2
    <3>4. ChipsAlone(p)' BY <1>1, <1>6, <2>4, <3>1, <3>3 DEF ChipsAlone
    <3> QED BY <3>4
  <2> QED BY <2>1, <2>3, <2>4
<1>8. Len(old)' > 1 => Phases(Len(old))'
  <2>1. Len(old') = p BY <1>1, <1>2
  <2> QED BY <1>7, <2>1 DEF Phases
<1> QED BY <1>1, <1>6, <1>8 DEF WriteInv

LEMMA PopulateCellsKeeps ==
  ASSUME WriteInv, PopulateCells
  PROVE  WriteInv'
<1>1. job.pc = "cells" /\ job.batches # <<>> /\ old' = old BY DEF PopulateCells
<1>2. PICK p \in Nat \ {0} : p = Len(old) BY StartsAreDocs DEF WriteInv
<1>3. PICK reqs, rest : reqs = Head(job.batches) /\ rest = Tail(job.batches) OBVIOUS
<1>4. doc' = BatchUpdate(doc, reqs) BY <1>3 DEF PopulateCells
<1>5. job' = [pc |-> "cells", segs |-> job.segs, at |-> job.at, cur |-> job.cur,
              tables |-> job.tables, anchors |-> job.anchors, batches |-> rest,
              made |-> job.made + 1]
  BY <1>1, <1>3 DEF PopulateCells, WriteInv, JobOf
<1>6. /\ JobOf(job') /\ job'.pc = "cells" /\ job'.segs = job.segs /\ job'.cur = job.cur
      /\ job'.anchors = job.anchors /\ job'.tables = job.tables /\ job'.batches = rest
  BY <1>5 DEF JobOf
<1>7. ASSUME p > 1 PROVE BehindTheBreak(p)' \/ ChipsAlone(p)'
  <2>1. BehindTheBreak(p) \/ ChipsAlone(p)
    BY <1>1, <1>2, <1>7 DEF WriteInv, Phases, Untouched, AboutToOpen
  <2>2. CASE BehindTheBreak(p)
    <3>1. reqs \in Seq(Behind(p)) /\ rest \in Seq(Seq(Behind(p)))
      <4>1. PICK Z : Z = Seq(Behind(p)) OBVIOUS
      <4>2. PICK b \in Seq(Z) : b = job.batches /\ b # <<>> BY <1>1, <2>2, <4>1 DEF BehindTheBreak
      <4>3. Head(b) \in Z /\ Tail(b) \in Seq(Z) BY <4>2
      <4> QED BY <1>3, <4>1, <4>2, <4>3
    <3>2. Fenced(old, BatchUpdate(doc, reqs), p) BY <2>2, <3>1, BatchFenced DEF BehindTheBreak
    <3>3. BehindTheBreak(p)' BY <1>1, <1>4, <1>6, <2>2, <3>1, <3>2 DEF BehindTheBreak
    <3> QED BY <3>3
  <2>3. CASE ChipsAlone(p)
    <3>1. reqs \in Seq(Inserts(p) \cup Marks(p)) /\ rest \in Seq(Seq(Inserts(p) \cup Marks(p)))
      <4>1. PICK Z : Z = Seq(Inserts(p) \cup Marks(p)) OBVIOUS
      <4>2. PICK b \in Seq(Z) : b = job.batches /\ b # <<>> BY <1>1, <2>3, <4>1 DEF ChipsAlone
      <4>3. Head(b) \in Z /\ Tail(b) \in Seq(Z) BY <4>2
      <4> QED BY <1>3, <4>1, <4>2, <4>3
    <3>2. SameUpTo(old, doc', p - 1)
      <4>1. PICK n \in Nat : n = p - 1 /\ n + 1 = p OBVIOUS
      <4>2. SameUpTo(old, BatchUpdate(doc, reqs), n) BY <2>3, <3>1, <4>1, BatchPlain DEF ChipsAlone
      <4> QED BY <1>4, <4>1, <4>2
    <3>3. ChipsAlone(p)' BY <1>1, <1>6, <2>3, <3>1, <3>2 DEF ChipsAlone
    <3> QED BY <3>3
  <2> QED BY <2>1, <2>2, <2>3
<1>8. Len(old)' > 1 => Phases(Len(old))'
  <2>1. Len(old') = p BY <1>1, <1>2
  <2> QED BY <1>7, <2>1 DEF Phases
<1> QED BY <1>1, <1>6, <1>8 DEF WriteInv

LEMMA WriteReturnsKeeps ==
  ASSUME WriteInv, WriteReturns
  PROVE  WriteInv'
<1>1. job.pc = "cells" /\ doc' = doc /\ old' = old BY DEF WriteReturns
<1>2. job' = [pc |-> "done", segs |-> job.segs, at |-> job.at, cur |-> job.cur,
              tables |-> job.tables, anchors |-> job.anchors, batches |-> job.batches,
              made |-> job.made]
  BY DEF WriteReturns, WriteInv, JobOf
<1>3. /\ JobOf(job') /\ job'.pc = "done" /\ job'.segs = job.segs /\ job'.cur = job.cur
      /\ job'.anchors = job.anchors /\ job'.tables = job.tables /\ job'.batches = job.batches
  BY <1>2 DEF JobOf
<1>4. ASSUME NEW p, Phases(p) PROVE Phases(p)'
  <2>1. BehindTheBreak(p) => BehindTheBreak(p)' BY <1>1, <1>3 DEF BehindTheBreak
  <2>2. ChipsAlone(p) => ChipsAlone(p)' BY <1>1, <1>3 DEF ChipsAlone
  <2>3. BehindTheBreak(p) \/ ChipsAlone(p) BY <1>1, <1>4 DEF Phases, Untouched, AboutToOpen
  <2> QED BY <2>1, <2>2, <2>3 DEF Phases
<1> QED BY <1>1, <1>3, <1>4 DEF WriteInv

(* Only the links may go missing: the cells are written all the same.      *)
LEMMA CallFailsKeeps ==
  ASSUME WriteInv, CallFails
  PROVE  WriteInv'
<1>1. job.pc \in {"next", "find", "anchors", "cells"} /\ doc' = doc /\ old' = old BY DEF CallFails
<1>2. PICK p \in Nat \ {0} : p = Len(old) BY StartsAreDocs DEF WriteInv
<1>3. Len(old') = p BY <1>1, <1>2
<1>4. CASE job.pc = "anchors"
  <2>1. PICK batches : batches = buildCellBatches(job.tables) OBVIOUS
  <2>2. job' = [pc |-> "cells", segs |-> job.segs, at |-> job.at, cur |-> job.cur,
                tables |-> job.tables, anchors |-> <<>>, batches |-> batches, made |-> job.made]
    BY <1>4, <2>1 DEF CallFails, WriteInv, JobOf
  <2>3. /\ JobOf(job') /\ job'.pc = "cells" /\ job'.segs = job.segs /\ job'.cur = job.cur
        /\ job'.anchors = <<>> /\ job'.tables = job.tables /\ job'.batches = batches
    BY <2>2 DEF JobOf
  <2>4. ASSUME p > 1 PROVE Phases(p)'
    <3>1. BehindTheBreak(p) \/ ChipsAlone(p)
      BY <1>2, <1>4, <2>4 DEF WriteInv, Phases, Untouched, AboutToOpen
    <3>2. <<>> \in Seq(Anchors(p)) OBVIOUS
    <3>3. CASE BehindTheBreak(p)
      <4>1. batches \in Seq(Seq(Behind(p))) BY <2>1, <3>3, BatchesAreBehind DEF BehindTheBreak
      <4>2. BehindTheBreak(p)' BY <1>1, <2>3, <3>2, <3>3, <4>1 DEF BehindTheBreak
      <4> QED BY <4>2 DEF Phases
    <3>4. CASE ChipsAlone(p)
      <4>1. batches \in Seq(Seq(Inserts(p) \cup Marks(p)))
        BY <2>1, <3>4, NothingToFill DEF ChipsAlone
      <4>2. ChipsAlone(p)' BY <1>1, <2>3, <3>2, <3>4, <4>1 DEF ChipsAlone
      <4> QED BY <4>2 DEF Phases
    <3> QED BY <3>1, <3>3, <3>4
  <2> QED BY <1>1, <1>3, <2>3, <2>4 DEF WriteInv
<1>5. CASE job.pc # "anchors"
  <2>1. job' = [pc |-> "failed", segs |-> job.segs, at |-> job.at, cur |-> job.cur,
                tables |-> job.tables, anchors |-> job.anchors, batches |-> job.batches,
                made |-> job.made]
    BY <1>5 DEF CallFails, WriteInv, JobOf
  <2>2. /\ JobOf(job') /\ job'.pc = "failed" /\ job'.segs = job.segs /\ job'.cur = job.cur
        /\ job'.anchors = job.anchors /\ job'.tables = job.tables /\ job'.batches = job.batches
    BY <2>1 DEF JobOf
  <2>3. ASSUME Phases(p) PROVE Phases(p)'
    <3>1. AboutToOpen(p) \/ Untouched => Untouched' BY <1>1, <2>2 DEF AboutToOpen, Untouched
    <3>2. BehindTheBreak(p) => BehindTheBreak(p)' BY <1>1, <2>2 DEF BehindTheBreak
    <3>3. ChipsAlone(p) => ChipsAlone(p)' BY <1>1, <2>2 DEF ChipsAlone
    <3> QED BY <2>3, <3>1, <3>2, <3>3 DEF Phases
  <2> QED BY <1>1, <1>2, <1>3, <2>2, <2>3 DEF WriteInv
<1> QED BY <1>4, <1>5

(* gdocs_write leaves the text of the document as it was, whatever is      *)
(* written, to whichever document, and whichever call of the service       *)
(* fails: the positions that convertMarkdownToRequests, buildCellBatches   *)
(* and resolveAnchorLinks compute ahead of time lie behind it when their   *)
(* requests are carried out.  The links of the markdown are not on items   *)
(* of lists nested twice: there the position of a link can lie before the  *)
(* line break (resolveAnchorLinks takes away the tabs of all the text).    *)
THEOREM OldTextIsKept == ShallowLinks => (DocSpec => []OldTextKept)
<1> SUFFICES ASSUME ShallowLinks PROVE DocSpec => []OldTextKept OBVIOUS
<1>1. DocInit => WriteInv BY Begins
<1>2. WriteInv /\ [DocNext]_docVars => WriteInv'
  <2> SUFFICES ASSUME WriteInv, [DocNext]_docVars PROVE WriteInv' OBVIOUS
  <2>1. CASE toolWrite BY <2>1, toolWriteKeeps
  <2>2. CASE FlushBefore BY <2>2, FlushBeforeKeeps
  <2>3. CASE CreateTable BY <2>3, CreateTableKeeps
  <2>4. CASE FindTable BY <2>4, FindTableKeeps
  <2>5. CASE FlushRest BY <2>5, FlushRestKeeps
  <2>6. CASE resolveAnchorLinks BY <2>6, resolveAnchorLinksKeeps
  <2>7. CASE PopulateCells BY <2>7, PopulateCellsKeeps
  <2>8. CASE WriteReturns BY <2>8, WriteReturnsKeeps
  <2>9. CASE CallFails BY <2>9, CallFailsKeeps
  <2>10. CASE UNCHANGED docVars
    <3>1. doc' = doc /\ old' = old /\ job' = job BY <2>10 DEF docVars
    <3> QED BY <3>1 DEF WriteInv, Phases, Untouched, AboutToOpen, BehindTheBreak, ChipsAlone
  <2> QED BY <2>1, <2>2, <2>3, <2>4, <2>5, <2>6, <2>7, <2>8, <2>9, <2>10 DEF DocNext
<1>3. WriteInv => OldTextKept BY PhasesKeepText
<1> QED BY <1>1, <1>2, <1>3, PTL DEF DocSpec
=============================================================================
