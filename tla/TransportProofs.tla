-------------------------- MODULE TransportProofs --------------------------
(***************************************************************************)
(* Proofs about Transport, for any number of calls, any pipe capacity and  *)
(* any number of lines written by the plugin.                              *)
(***************************************************************************)
EXTENDS Transport, TLAPS

(* Ids: a call has one from the moment it starts, no two calls share one,  *)
(* and all of them are below the counter.                                  *)
IdsUnique ==
  /\ \A c \in Calls : id[c] <= nextID /\ (id[c] = 0 <=> pc[c] = "idle")
  /\ \A c, d \in Calls : id[c] = id[d] /\ id[c] # 0 => c = d

(* Who can be registered: a call between its StorePending and its return,  *)
(* under its own id.                                                       *)
PendingOwned ==
  \A i \in DOMAIN pending :
    id[pending[i]] = i /\ pc[pending[i]] \in {"send", "wait", "drain"}

CtxOwned ==
  \A i \in DOMAIN toolCtxs : id[toolCtxs[i]] = i /\ Active(toolCtxs[i])

(* A channel that has never been registered is untouched. *)
Fresh ==
  \A c \in Calls : pc[c] \in {"idle", "store"} => chan[c] = <<>> /\ c \notin shut

(* The part of the state the routing argument is about. *)
RouteType ==
  /\ pc \in [Calls -> {"idle", "store", "send", "wait", "drain", "done"}]
  /\ id \in [Calls -> Nat]
  /\ nextID \in Nat
  /\ DOMAIN pending \subseteq Nat /\ pending \in [DOMAIN pending -> Calls]
  /\ DOMAIN toolCtxs \subseteq Nat /\ toolCtxs \in [DOMAIN toolCtxs -> Calls]
  /\ chan \in [Calls -> Seq(Nat)]
  /\ shut \subseteq Calls

Route == /\ RouteType
         /\ IdsUnique
         /\ PendingOwned
         /\ CtxOwned
         /\ Fresh
         /\ DeliveryIsSafe
         /\ OwnResponse

LEMMA InitRoute == ASSUME Init PROVE Route
<1>1. DOMAIN pending = {} /\ DOMAIN toolCtxs = {} BY DEF Init
<1>2. RouteType
  <2>1. chan \in [Calls -> Seq(Nat)] BY DEF Init
  <2>2. pending \in [DOMAIN pending -> Calls] BY DEF Init
  <2>3. toolCtxs \in [DOMAIN toolCtxs -> Calls] BY DEF Init
  <2> QED BY <1>1, <2>1, <2>2, <2>3 DEF Init, RouteType
<1>3. IdsUnique BY DEF Init, IdsUnique
<1>4. PendingOwned /\ CtxOwned BY <1>1 DEF PendingOwned, CtxOwned
<1>5. Fresh BY DEF Init, Fresh
<1>6. DeliveryIsSafe
  BY <1>1 DEF Init, DeliveryIsSafe, Scanning, Phase
<1>7. OwnResponse BY DEF Init, OwnResponse
<1> QED BY <1>2, <1>3, <1>4, <1>5, <1>6, <1>7 DEF Route

(* A step that leaves the routing state alone, and does not jam ReadLoop.  *)
LEMMA RouteFrame ==
  ASSUME Route, UNCHANGED <<pc, id, nextID, routeVars, toolCtxs>>,
         loop' # Phase("stuck")
  PROVE  Route'
  BY DEF Route, RouteType, IdsUnique, PendingOwned, CtxOwned, Fresh, Active,
         DeliveryIsSafe, OwnResponse, routeVars

(* Returning removes the call's registrations and touches at most its own  *)
(* channel.                                                                *)
LEMMA ReturnRoute ==
  ASSUME Route, NEW c \in Calls, NEW how, Active(c), Return(c, how),
         chan' \in [Calls -> Seq(Nat)],
         \A d \in Calls : d # c => chan'[d] = chan[d],
         \A k \in DOMAIN chan'[c] : chan'[c][k] = id[c] /\ id[c] > 0
  PROVE  Route'
<1> USE DEF Route
<1>0. /\ pc' = [pc EXCEPT ![c] = "done"]
      /\ pending' = Drop(pending, {id[c]})
      /\ toolCtxs' = Drop(toolCtxs, {id[c]})
      /\ UNCHANGED <<id, nextID, shut, loop>>
  BY DEF Return, loopVars
<1>1. /\ DOMAIN pending' = DOMAIN pending \ {id[c]}
      /\ pending' \in [DOMAIN pending' -> Calls]
      /\ \A i \in DOMAIN pending' : /\ i \in DOMAIN pending
                                   /\ i # id[c] /\ pending'[i] = pending[i]
  <2>1. pending \in [DOMAIN pending -> Calls] BY DEF RouteType
  <2> QED BY ONLY <1>0, <2>1 DEF Drop
<1>2. /\ DOMAIN toolCtxs' = DOMAIN toolCtxs \ {id[c]}
      /\ toolCtxs' \in [DOMAIN toolCtxs' -> Calls]
      /\ \A i \in DOMAIN toolCtxs' : /\ i \in DOMAIN toolCtxs
                                    /\ i # id[c] /\ toolCtxs'[i] = toolCtxs[i]
  <2>1. toolCtxs \in [DOMAIN toolCtxs -> Calls] BY DEF RouteType
  <2> QED BY ONLY <1>0, <2>1 DEF Drop
<1>3. pc[c] \notin {"idle", "done"} BY DEF Active
<1>4. RouteType' BY <1>0, <1>1, <1>2 DEF RouteType
<1>5. IdsUnique' BY <1>0, <1>3 DEF IdsUnique, RouteType
<1>6. PendingOwned'
  <2>1. ASSUME NEW i \in DOMAIN pending'
        PROVE  id'[pending'[i]] = i /\ pc'[pending'[i]] \in {"send", "wait", "drain"}
    <3>1. pending[i] \in Calls /\ id[pending[i]] = i /\ pending[i] # c
      BY <1>1 DEF PendingOwned, RouteType
    <3> QED BY <1>0, <1>1, <3>1 DEF PendingOwned, RouteType
  <2> QED BY <2>1 DEF PendingOwned
<1>7. CtxOwned'
  <2>1. ASSUME NEW i \in DOMAIN toolCtxs'
        PROVE  id'[toolCtxs'[i]] = i /\ pc'[toolCtxs'[i]] \notin {"idle", "done"}
    <3>1. toolCtxs[i] \in Calls /\ id[toolCtxs[i]] = i /\ toolCtxs[i] # c
      BY <1>2 DEF CtxOwned, RouteType
    <3> QED BY <1>0, <1>2, <3>1 DEF CtxOwned, RouteType, Active
  <2> QED BY <2>1 DEF CtxOwned, Active
<1>8. Fresh' BY <1>0 DEF Fresh, RouteType
<1>9. DeliveryIsSafe'
  <2>1. ASSUME NEW i \in DOMAIN pending'
        PROVE  chan'[pending'[i]] = <<>> /\ pending'[i] \notin shut'
    <3>1. pending[i] \in Calls /\ pending[i] # c
      BY <1>1 DEF PendingOwned, RouteType
    <3> QED BY <1>0, <1>1, <3>1 DEF DeliveryIsSafe
  <2> QED BY <1>0, <2>1 DEF DeliveryIsSafe
<1>10. OwnResponse' BY <1>0 DEF OwnResponse, RouteType
<1> QED BY <1>4, <1>5, <1>6, <1>7, <1>8, <1>9, <1>10

(* A caller's step from one program point to the next that changes only pc. *)
LEMMA MoveRoute ==
  ASSUME Route, NEW c \in Calls, NEW to \in {"wait", "drain"},
         pc[c] \in {"send", "wait"},
         pc' = [pc EXCEPT ![c] = to],
         UNCHANGED <<id, nextID, routeVars, toolCtxs, loop>>
  PROVE  Route'
<1> USE DEF Route, routeVars
<1>1. RouteType' BY DEF RouteType
<1>2. IdsUnique' BY DEF IdsUnique, RouteType
<1>3. PendingOwned' BY DEF PendingOwned, RouteType
<1>4. CtxOwned' BY DEF CtxOwned, RouteType, Active
<1>5. Fresh' BY DEF Fresh, RouteType
<1>6. DeliveryIsSafe' /\ OwnResponse' BY DEF DeliveryIsSafe, OwnResponse
<1> QED BY <1>1, <1>2, <1>3, <1>4, <1>5, <1>6

LEMMA StartRoute ==
  ASSUME Route, NEW c \in Calls, StartCall(c) PROVE Route'
<1> USE DEF Route
<1>0. /\ pc[c] = "idle"
      /\ nextID' = nextID + 1
      /\ id' = [id EXCEPT ![c] = nextID']
      /\ pc' = [pc EXCEPT ![c] = "store"]
      /\ UNCHANGED <<pending, chan, shut, loop>>
  BY DEF StartCall, routeVars, loopVars
<1>1. /\ id' \in [Calls -> Nat]
      /\ id'[c] = nextID + 1 /\ nextID + 1 > nextID /\ nextID + 1 # 0
      /\ \A d \in Calls : d # c => id'[d] = id[d] /\ pc'[d] = pc[d]
      /\ pc'[c] = "store" /\ id[c] = 0
  BY <1>0 DEF RouteType, IdsUnique
<1>2. /\ DOMAIN toolCtxs' \subseteq Nat
      /\ toolCtxs' \in [DOMAIN toolCtxs' -> Calls]
      /\ \A i \in DOMAIN toolCtxs' :
           \/ i = nextID + 1 /\ toolCtxs'[i] = c
           \/ i \in DOMAIN toolCtxs /\ toolCtxs'[i] = toolCtxs[i]
  <2>1. CASE c \in Shutdowns
    BY <2>1 DEF StartCall, RouteType
  <2>2. CASE c \notin Shutdowns
    <3>1. toolCtxs' = Bind(toolCtxs, nextID + 1, c)
      BY <1>0, <2>2 DEF StartCall
    <3>2. toolCtxs \in [DOMAIN toolCtxs -> Calls] /\ DOMAIN toolCtxs \subseteq Nat
      BY DEF RouteType
    <3>3. nextID + 1 \in Nat BY DEF RouteType
    <3> QED BY ONLY <3>1, <3>2, <3>3, c \in Calls DEF Bind
  <2> QED BY <2>1, <2>2
<1>3. RouteType' BY <1>0, <1>1, <1>2 DEF RouteType
<1>4. IdsUnique'
  <2>1. \A d \in Calls : d # c => id'[d] <= nextID /\ id'[d] \in Nat
    BY <1>1 DEF IdsUnique, RouteType
  <2>2. ASSUME NEW d \in Calls
        PROVE  id'[d] <= nextID' /\ (id'[d] = 0 <=> pc'[d] = "idle")
    BY <1>0, <1>1, <2>1 DEF IdsUnique, RouteType
  <2>3. ASSUME NEW d \in Calls, NEW e \in Calls, id'[d] = id'[e], id'[d] # 0
        PROVE  d = e
    BY <1>0, <1>1, <2>1, <2>3 DEF IdsUnique, RouteType
  <2> QED BY <2>2, <2>3 DEF IdsUnique
<1>5. PendingOwned'
  BY <1>0, <1>1 DEF PendingOwned, RouteType
<1>6. CtxOwned'
  <2>1. ASSUME NEW i \in DOMAIN toolCtxs'
        PROVE  id'[toolCtxs'[i]] = i /\ pc'[toolCtxs'[i]] \notin {"idle", "done"}
    <3>1. CASE i = nextID + 1 /\ toolCtxs'[i] = c
      BY <1>1, <3>1
    <3>2. CASE i \in DOMAIN toolCtxs /\ toolCtxs'[i] = toolCtxs[i]
      <4>1. toolCtxs[i] # c BY <1>0, <3>2 DEF CtxOwned, Active
      <4>2. toolCtxs[i] \in Calls BY <3>2 DEF RouteType
      <4> QED BY <1>1, <3>2, <4>1, <4>2 DEF CtxOwned, Active
    <3> QED BY <1>2, <3>1, <3>2
  <2> QED BY <2>1 DEF CtxOwned, Active
<1>7. Fresh' BY <1>0, <1>1 DEF Fresh, RouteType
<1>8. DeliveryIsSafe' BY <1>0 DEF DeliveryIsSafe
<1>9. OwnResponse'
  <2>1. chan'[c] = <<>> BY <1>0 DEF Fresh
  <2> QED BY <1>0, <1>1, <2>1 DEF OwnResponse, RouteType
<1> QED BY <1>3, <1>4, <1>5, <1>6, <1>7, <1>8, <1>9

LEMMA StoreRoute ==
  ASSUME Route, NEW c \in Calls, StorePending(c) PROVE Route'
<1> USE DEF Route
<1>0. /\ pc[c] = "store"
      /\ pending' = Bind(pending, id[c], c)
      /\ pc' = [pc EXCEPT ![c] = "send"]
      /\ UNCHANGED <<id, nextID, chan, shut, toolCtxs, loop>>
  BY DEF StorePending, loopVars
<1>1. /\ DOMAIN pending' = DOMAIN pending \cup {id[c]}
      /\ pending' \in [DOMAIN pending' -> Calls]
      /\ pending'[id[c]] = c
      /\ \A i \in DOMAIN pending' :
           i # id[c] => i \in DOMAIN pending /\ pending'[i] = pending[i]
  <2>1. pending \in [DOMAIN pending -> Calls] BY DEF RouteType
  <2> QED BY ONLY <1>0, <2>1, c \in Calls DEF Bind
<1>2. RouteType' BY <1>0, <1>1 DEF RouteType
<1>3. IdsUnique' BY <1>0 DEF IdsUnique, RouteType
<1>4. PendingOwned' BY <1>0, <1>1 DEF PendingOwned, RouteType
<1>5. CtxOwned' BY <1>0 DEF CtxOwned, RouteType, Active
<1>6. Fresh' BY <1>0 DEF Fresh, RouteType
<1>7. DeliveryIsSafe'
  BY <1>0, <1>1 DEF DeliveryIsSafe, Fresh, RouteType
<1>8. OwnResponse' BY <1>0 DEF OwnResponse
<1> QED BY <1>2, <1>3, <1>4, <1>5, <1>6, <1>7, <1>8

(* Delivering a response: the registration goes first, and the channel it  *)
(* named was empty and open.                                               *)
LEMMA DeliverRoute ==
  ASSUME Route, ReadResponse PROVE Route'
<1> USE DEF Route
<1> DEFINE i == Head(stdout).id
<1>0. UNCHANGED <<pc, id, nextID, shut, toolCtxs>>
  BY DEF ReadResponse, callerVars
<1>1. CASE i \notin DOMAIN pending
  <2>1. UNCHANGED <<pending, chan, loop>> BY <1>1 DEF ReadResponse
  <2>2. loop' # Phase("stuck") BY <2>1 DEF DeliveryIsSafe
  <2> QED BY <1>0, <2>1, <2>2, RouteFrame DEF routeVars
<1>2. CASE i \in DOMAIN pending
  <2> DEFINE c == pending[i]
  <2>1. c \in Calls /\ id[c] = i /\ pc[c] \in {"send", "wait", "drain"}
    BY <1>2 DEF RouteType, PendingOwned
  <2>2. chan[c] = <<>> /\ c \notin shut
    BY <1>2 DEF DeliveryIsSafe
  <2>3. /\ pending' = Drop(pending, {i})
        /\ chan' = [chan EXCEPT ![c] = <<i>>]
        /\ loop' = loop
    BY <1>2, <2>2 DEF ReadResponse
  <2>4. /\ DOMAIN pending' = DOMAIN pending \ {i}
        /\ pending' \in [DOMAIN pending' -> Calls]
        /\ \A j \in DOMAIN pending' : /\ j \in DOMAIN pending
                                      /\ j # i /\ pending'[j] = pending[j]
    <3>1. pending \in [DOMAIN pending -> Calls] BY DEF RouteType
    <3> QED BY ONLY <2>3, <3>1 DEF Drop
  <2>5. i \in Nat /\ i # 0
    BY <1>2, <2>1 DEF RouteType, IdsUnique
  <2>6. RouteType'
    <3>1. chan' \in [Calls -> Seq(Nat)]
      BY <2>1, <2>3, <2>5 DEF RouteType
    <3> QED BY <1>0, <2>4, <3>1 DEF RouteType
  <2>7. IdsUnique' BY <1>0 DEF IdsUnique
  <2>8. PendingOwned' BY <1>0, <2>4 DEF PendingOwned
  <2>9. CtxOwned' BY <1>0 DEF CtxOwned, Active
  <2>10. Fresh' BY <1>0, <2>1, <2>3 DEF Fresh, RouteType
  <2>11. DeliveryIsSafe'
    <3>1. ASSUME NEW j \in DOMAIN pending'
          PROVE  chan'[pending'[j]] = <<>> /\ pending'[j] \notin shut'
      <4>1. pending[j] \in Calls /\ pending[j] # c
        BY <2>1, <2>4 DEF PendingOwned, RouteType
      <4> QED BY <1>0, <2>3, <2>4, <4>1 DEF DeliveryIsSafe, RouteType
    <3> QED BY <2>3, <3>1 DEF DeliveryIsSafe
  <2>12. OwnResponse'
    <3>1. ASSUME NEW d \in Calls, NEW k \in DOMAIN chan'[d]
          PROVE  chan'[d][k] = id'[d] /\ id'[d] > 0
      <4>1. CASE d = c
        <5>1. chan'[d] = <<i>> BY <2>1, <2>3, <4>1 DEF RouteType
        <5>2. k = 1 BY <5>1
        <5> QED BY <1>0, <2>1, <2>5, <4>1, <5>1, <5>2
      <4>2. CASE d # c
        BY <1>0, <2>3, <4>2 DEF OwnResponse, RouteType
      <4> QED BY <4>1, <4>2
    <3> QED BY <3>1 DEF OwnResponse
  <2> QED BY <2>6, <2>7, <2>8, <2>9, <2>10, <2>11, <2>12
<1> QED BY <1>1, <1>2

(* The two steps with which ReadLoop empties the maps when it ends. *)
LEMMA DrainRoute == ASSUME Route, DrainPending PROVE Route'
<1> USE DEF Route
<1>0. /\ UNCHANGED <<pc, id, nextID, chan, toolCtxs>>
      /\ shut' = shut \cup {pending[i] : i \in DOMAIN pending}
      /\ pending' = Drop(pending, DOMAIN pending)
      /\ loop' = Phase("clear")
  BY DEF DrainPending, callerVars
<1>1. DOMAIN pending' = {} BY <1>0 DEF Drop
<1>2. pending' \in [DOMAIN pending' -> Calls] BY <1>0 DEF Drop
<1>3. shut' \subseteq Calls BY <1>0 DEF RouteType
<1>4. RouteType' BY <1>0, <1>1, <1>2, <1>3 DEF RouteType
<1>5. IdsUnique' /\ PendingOwned' /\ CtxOwned'
  BY <1>0, <1>1 DEF IdsUnique, PendingOwned, CtxOwned, Active
<1>6. Fresh' BY <1>0 DEF Fresh, PendingOwned, RouteType
<1>7. DeliveryIsSafe' BY <1>0, <1>1 DEF DeliveryIsSafe, Phase
<1>8. OwnResponse' BY <1>0 DEF OwnResponse
<1> QED BY <1>4, <1>5, <1>6, <1>7, <1>8

LEMMA ClearRoute == ASSUME Route, ClearContexts PROVE Route'
<1> USE DEF Route
<1>0. /\ UNCHANGED <<pc, id, nextID, pending, chan, shut>>
      /\ toolCtxs' = Drop(toolCtxs, DOMAIN toolCtxs)
      /\ loop' = Phase("close")
  BY DEF ClearContexts, callerVars, routeVars
<1>1. DOMAIN toolCtxs' = {} BY <1>0 DEF Drop
<1>2. toolCtxs' \in [DOMAIN toolCtxs' -> Calls] BY <1>0 DEF Drop
<1>3. RouteType' BY <1>0, <1>1, <1>2 DEF RouteType
<1>4. IdsUnique' /\ PendingOwned' /\ CtxOwned' /\ Fresh' /\ OwnResponse'
  BY <1>0, <1>1 DEF IdsUnique, PendingOwned, CtxOwned, Fresh, OwnResponse
<1>5. DeliveryIsSafe' BY <1>0 DEF DeliveryIsSafe, Phase
<1> QED BY <1>3, <1>4, <1>5

----------------------------------------------------------------------------
(* One case per action. *)
LEMMA NextRoute == ASSUME Route, [Next]_vars PROVE Route'
<1>f. ASSUME UNCHANGED <<pc, id, nextID, routeVars, toolCtxs>>,
             \/ loop' = loop
             \/ loop' \in {Scanning, Replying, Phase("drain"), Phase("exited")}
             \/ loop'.st = "serve"
      PROVE  Route'
  <2>1. loop' # Phase("stuck")
    BY <1>f DEF Route, DeliveryIsSafe, Phase, Scanning, Replying
  <2> QED BY <1>f, <2>1, RouteFrame
<1>1. ASSUME NEW c \in Calls, CallerStep(c) PROVE Route'
  <2>r. ASSUME NEW how, Active(c), Return(c, how), UNCHANGED chan PROVE Route'
    BY <2>r, ReturnRoute DEF Route, RouteType, OwnResponse
  <2>1. CASE StartCall(c) BY <2>1, StartRoute
  <2>2. CASE StorePending(c) BY <2>2, StoreRoute
  <2>3. CASE SendRequest(c)
    BY <2>3, MoveRoute DEF SendRequest, loopVars
  <2>4. CASE SendFails(c) BY <2>4, <2>r DEF SendFails, Active
  <2>5. CASE ReceiveResponse(c)
    <3>1. Active(c) /\ Return(c, "response") BY <2>5 DEF ReceiveResponse, Active
    <3>2. chan[c] \in Seq(Nat) /\ chan[c] # <<>> /\ chan \in [Calls -> Seq(Nat)]
      BY <2>5 DEF ReceiveResponse, Route, RouteType
    <3>3. chan' = [chan EXCEPT ![c] = Tail(chan[c])]
      BY <2>5 DEF ReceiveResponse
    <3>4. Tail(chan[c]) \in Seq(Nat) BY <3>2
    <3>5. \A k \in DOMAIN Tail(chan[c]) :
            k + 1 \in DOMAIN chan[c] /\ Tail(chan[c])[k] = chan[c][k + 1]
      BY <3>2
    <3>6. chan'[c] = Tail(chan[c]) BY <3>2, <3>3
    <3>7. \A k \in DOMAIN chan'[c] : chan'[c][k] = id[c] /\ id[c] > 0
      BY <3>5, <3>6 DEF Route, OwnResponse
    <3> QED BY <3>1, <3>2, <3>3, <3>4, <3>7, ReturnRoute
  <2>6. CASE ReceiveClosed(c) BY <2>6, <2>r DEF ReceiveClosed, Active
  <2>7. CASE ContextEnds(c) BY <2>7, <2>r DEF ContextEnds, Active
  <2>8. CASE TransportDone(c) BY <2>8, <2>r DEF TransportDone, Active
  <2>9. CASE BeginDrain(c)
    BY <2>9, MoveRoute DEF BeginDrain, loopVars
  <2>10. CASE DrainResult(c)
    <3>1. Active(c) /\ Return(c, "timeout") BY <2>10 DEF DrainResult, Active
    <3>2. chan' = [chan EXCEPT ![c] = <<>>] /\ chan \in [Calls -> Seq(Nat)]
      BY <2>10 DEF DrainResult, Route, RouteType
    <3>3. chan'[c] = <<>> /\ chan' \in [Calls -> Seq(Nat)] BY <3>2
    <3> QED BY <3>1, <3>2, <3>3, ReturnRoute
  <2>11. CASE DrainTimer(c) BY <2>11, <2>r DEF DrainTimer, Active
  <2> QED
    BY <1>1, <2>1, <2>2, <2>3, <2>4, <2>5, <2>6, <2>7, <2>8, <2>9, <2>10,
       <2>11 DEF CallerStep
<1>2. ASSUME NEW c \in Calls, Expire(c) PROVE Route'
  BY <1>2, <1>f DEF Expire, callerVars, loopVars
<1>3. ASSUME LoopStep PROVE Route'
  <2>1. CASE ReadResponse BY <2>1, DeliverRoute
  <2>2. CASE ReadRequest
    BY <2>2, <1>f DEF ReadRequest, callerVars, Serving
  <2>3. CASE ServeInLoop BY <2>3, <1>f DEF ServeInLoop, callerVars
  <2>4. CASE ReplyFromLoop BY <2>4, <1>f DEF ReplyFromLoop, callerVars
  <2>5. CASE ScanEnds BY <2>5, <1>f DEF ScanEnds, callerVars
  <2>6. CASE DrainPending BY <2>6, DrainRoute
  <2>7. CASE ClearContexts BY <2>7, ClearRoute
  <2>8. CASE CloseDone BY <2>8, <1>f DEF CloseDone, callerVars
  <2> QED BY <1>3, <2>1, <2>2, <2>3, <2>4, <2>5, <2>6, <2>7, <2>8 DEF LoopStep
<1>4. ASSUME NEW w \in workers, WorkerStep(w) PROVE Route'
  BY <1>4, <1>f DEF WorkerStep, ServeInWorker, ReplyFromWorker, callerVars
<1>5. ASSUME PluginStep PROVE Route'
  BY <1>5, <1>f DEF PluginStep, PluginReads, PluginResponds, PluginRequests,
     PluginOverflows, PluginWrites, PluginExits, callerVars, loopVars
<1>6. ASSUME UNCHANGED vars PROVE Route'
  BY <1>6, <1>f DEF vars, callerVars, loopVars
<1> QED BY <1>1, <1>2, <1>3, <1>4, <1>5, <1>6 DEF Next

(* The routing invariant holds in every reachable state. *)
THEOREM RoutingInvariant == Spec => []Route
  BY InitRoute, NextRoute, PTL DEF Spec

(* ReadLoop never blocks on, or panics at, a caller's channel. *)
THEOREM DeliveryAlwaysSafe == Spec => []DeliveryIsSafe
<1>1. Route => DeliveryIsSafe BY DEF Route
<1> QED BY <1>1, RoutingInvariant, PTL

(* A caller can only receive the response that carries its own id. *)
THEOREM ResponsesAreOwn == Spec => []OwnResponse
<1>1. Route => OwnResponse BY DEF Route
<1> QED BY <1>1, RoutingInvariant, PTL

(* No registration outlives its call. *)
THEOREM RegistrationsDoNotLeak == Spec => []NoLeak
<1>1. Route => NoLeak
  BY DEF Route, PendingOwned, CtxOwned, NoLeak, Active
<1> QED BY <1>1, RoutingInvariant, PTL

----------------------------------------------------------------------------
(* What is done in a call's name.  The effects alone do not carry the      *)
(* argument: a request is vetted when ReadLoop reads it and performed      *)
(* later, by ReadLoop or by a goroutine, when the call may have returned.  *)
Vetted(t) == ~Refused(t.kind, t.call)

TasksVetted ==
  /\ loop.st = "serve" => Vetted(loop.task)
  /\ \A w \in workers : Vetted(w.task)

Authorised == TasksVetted /\ DryRunIsPure /\ WritesAuthorised

LEMMA PerformAuthorised ==
  ASSUME Authorised, NEW t, Vetted(t), Perform(t)
  PROVE  DryRunIsPure' /\ WritesAuthorised'
<1> DEFINE e == [kind |-> t.kind, call |-> t.call, legacy |-> t.legacy]
<1>1. CASE ~Permitted(t)
  BY <1>1 DEF Perform, Authorised, DryRunIsPure, WritesAuthorised
<1>2. CASE Permitted(t)
  <2>1. effects' = effects \cup {e} BY <1>2 DEF Perform
  <2>2. t.kind \in {"http_post", "file_write", "cache_set"}
    BY <1>2 DEF Permitted
  <2>3. e.call \notin DryRunCalls
    BY <1>2, <2>2 DEF Permitted, Vetted, Refused, ReadOnlyCtx, LocalWriteCtx
  <2>4. /\ e.kind = "http_post" => e.call \in WriteCalls /\ ~e.legacy
        /\ e.kind = "file_write" => \/ e.call \in WriteCalls /\ ~e.legacy
                                    \/ e.call \in LocalWriters
    BY <1>2, <2>2 DEF Permitted, ReadOnlyCtx, LocalWriteCtx
  <2>5. DryRunIsPure' BY <2>1, <2>3 DEF Authorised, DryRunIsPure
  <2>6. WritesAuthorised' BY <2>1, <2>4 DEF Authorised, WritesAuthorised
  <2> QED BY <2>5, <2>6
<1> QED BY <1>1, <1>2

LEMMA NextAuthorised == ASSUME Authorised, [Next]_vars PROVE Authorised'
<1>f. ASSUME UNCHANGED <<workers, effects>>, loop' = loop \/ loop'.st # "serve"
      PROVE  Authorised'
  BY <1>f DEF Authorised, TasksVetted, DryRunIsPure, WritesAuthorised
<1>1. ASSUME NEW c \in Calls, CallerStep(c) PROVE Authorised'
  BY <1>1, <1>f DEF CallerStep, StartCall, StorePending, SendRequest, SendFails,
     ReceiveResponse, ReceiveClosed, ContextEnds, TransportDone, BeginDrain,
     DrainResult, DrainTimer, Return, loopVars
<1>2. ASSUME NEW c \in Calls, Expire(c) PROVE Authorised'
  BY <1>2, <1>f DEF Expire, loopVars
<1>3. CASE ReadResponse
  BY <1>3, <1>f DEF ReadResponse, Phase
<1>4. CASE ReadRequest
  <2> DEFINE m == Head(stdout)
             found == {x \in ToolContext(m.parent) : ~Refused(m.kind, x.call)}
             task(x) == [n |-> m.n, kind |-> m.kind,
                         call |-> x.call, legacy |-> x.legacy]
  <2>1. effects' = effects BY <1>4 DEF ReadRequest
  <2>2. \A x \in found : Vetted(task(x)) BY DEF Vetted
  <2>3. CASE found = {} /\ loop' = Replying /\ UNCHANGED workers
    BY <2>1, <2>3, <1>f DEF Replying
  <2>4. CASE \E x \in found : loop' = Serving(task(x)) /\ UNCHANGED workers
    BY <2>1, <2>2, <2>4 DEF Authorised, TasksVetted, DryRunIsPure,
       WritesAuthorised, Serving
  <2>5. CASE \E x \in found :
               /\ workers' = workers \cup {[st |-> "serve", task |-> task(x)]}
               /\ UNCHANGED loop
    BY <2>1, <2>2, <2>5 DEF Authorised, TasksVetted, DryRunIsPure,
       WritesAuthorised
  <2> QED BY <1>4, <2>3, <2>4, <2>5 DEF ReadRequest
<1>5. CASE ServeInLoop
  <2>1. DryRunIsPure' /\ WritesAuthorised'
    BY <1>5, PerformAuthorised DEF ServeInLoop, Authorised, TasksVetted
  <2>2. TasksVetted'
    BY <1>5 DEF ServeInLoop, Authorised, TasksVetted, Replying
  <2> QED BY <2>1, <2>2 DEF Authorised
<1>6. CASE ReplyFromLoop \/ ScanEnds \/ DrainPending \/ ClearContexts \/ CloseDone
  BY <1>6, <1>f DEF ReplyFromLoop, ScanEnds, DrainPending, ClearContexts,
     CloseDone, Phase, Scanning
<1>7. ASSUME NEW w \in workers, ServeInWorker(w) PROVE Authorised'
  <2>1. DryRunIsPure' /\ WritesAuthorised'
    BY <1>7, PerformAuthorised DEF ServeInWorker, Authorised, TasksVetted
  <2>2. Vetted([w EXCEPT !.st = "reply"].task)
    BY DEF Authorised, TasksVetted
  <2>3. TasksVetted'
    BY <1>7, <2>2 DEF ServeInWorker, Authorised, TasksVetted
  <2> QED BY <2>1, <2>3 DEF Authorised
<1>8. ASSUME NEW w \in workers, ReplyFromWorker(w) PROVE Authorised'
  BY <1>8 DEF ReplyFromWorker, Authorised, TasksVetted, DryRunIsPure,
     WritesAuthorised
<1>9. CASE PluginStep
  BY <1>9, <1>f DEF PluginStep, PluginReads, PluginResponds, PluginRequests,
     PluginOverflows, PluginWrites, PluginExits, loopVars
<1>10. CASE UNCHANGED vars
  BY <1>10, <1>f DEF vars, loopVars
<1> QED
  BY <1>1, <1>2, <1>3, <1>4, <1>5, <1>6, <1>7, <1>8, <1>9, <1>10
     DEF Next, LoopStep, WorkerStep

THEOREM AuthorisationInvariant == Spec => []Authorised
<1>1. Init => Authorised
  BY DEF Init, Authorised, TasksVetted, DryRunIsPure, WritesAuthorised, Scanning
<1> QED BY <1>1, NextAuthorised, PTL DEF Spec

(* A dry-run call of a persistent plugin has no lasting effect. *)
THEOREM DryRunsArePure == Spec => []DryRunIsPure
<1>1. Authorised => DryRunIsPure BY DEF Authorised
<1> QED BY <1>1, AuthorisationInvariant, PTL

(* Mutating requests are made only for write tools named explicitly. *)
THEOREM WritesAreAuthorised == Spec => []WritesAuthorised
<1>1. Authorised => WritesAuthorised BY DEF Authorised
<1> QED BY <1>1, AuthorisationInvariant, PTL

----------------------------------------------------------------------------
(* Type correctness. *)
LEMMA InitType == ASSUME Init PROVE TypeOK
<1>1. pending \in [DOMAIN pending -> Calls] /\ DOMAIN pending = {}
  BY DEF Init
<1>2. toolCtxs \in [DOMAIN toolCtxs -> Calls] /\ DOMAIN toolCtxs = {}
  BY DEF Init
<1>3. chan \in [Calls -> Seq(Nat)] /\ stdout \in Seq(Message) /\ Len(stdout) = 0
  BY DEF Init
<1>4. loop \in LoopState BY DEF Init, LoopState, Scanning, Phase
<1>5. alive \in BOOLEAN BY Zenon DEF Init
<1>6. stdin \in 0 .. PipeCap /\ Len(stdout) <= PipeCap
  BY <1>3, BoundsAssumption DEF Init
<1>7. /\ pc \in [Calls -> {"idle", "store", "send", "wait", "drain", "done"}]
      /\ outcome \in [Calls -> {"none", "response", "exited", "closed",
                                "context", "timeout", "send_failed"}]
      /\ id \in [Calls -> Nat] /\ nextID \in Nat /\ written \in Nat
      /\ shut = {} /\ ctxDone = {} /\ answered = {} /\ workers = {}
      /\ effects = {}
  BY DEF Init
<1> QED BY <1>1, <1>2, <1>3, <1>4, <1>5, <1>6, <1>7 DEF TypeOK

LEMMA ContextType ==
  ASSUME TypeOK, NEW p
  PROVE  \A x \in ToolContext(p) : x.call \in Calls /\ x.legacy \in BOOLEAN
<1> SUFFICES ASSUME NEW x \in ToolContext(p)
             PROVE  x.call \in Calls /\ x.legacy \in BOOLEAN
  OBVIOUS
<1>1. PICK i \in DOMAIN toolCtxs, b \in BOOLEAN :
        x = [call |-> toolCtxs[i], legacy |-> b]
  <2>1. CASE p # 0
    BY <2>1 DEF ToolContext
  <2>2. CASE p = 0
    BY <2>2 DEF ToolContext
  <2> QED BY <2>1, <2>2
<1>2. toolCtxs[i] \in Calls BY DEF TypeOK
<1> QED BY <1>1, <1>2

LEMMA PerformType ==
  ASSUME TypeOK, NEW t \in Task, Perform(t) PROVE effects' \subseteq Effect
  BY DEF TypeOK, Task, Effect, Perform

LEMMA ReturnType ==
  ASSUME TypeOK, NEW c \in Calls,
         NEW how \in {"response", "exited", "closed", "context", "timeout",
                      "send_failed"},
         Return(c, how), chan' \in [Calls -> Seq(Nat)]
  PROVE  TypeOK'
<1>1. /\ pending' = Drop(pending, {id[c]})
      /\ toolCtxs' = Drop(toolCtxs, {id[c]})
  BY DEF Return
<1>2. DOMAIN pending' \subseteq Nat /\ pending' \in [DOMAIN pending' -> Calls]
  BY <1>1 DEF TypeOK, Drop
<1>3. DOMAIN toolCtxs' \subseteq Nat /\ toolCtxs' \in [DOMAIN toolCtxs' -> Calls]
  BY <1>1 DEF TypeOK, Drop
<1>4. /\ pc' \in [Calls -> {"idle", "store", "send", "wait", "drain", "done"}]
      /\ outcome' \in [Calls -> {"none", "response", "exited", "closed",
                                 "context", "timeout", "send_failed"}]
      /\ ctxDone' \subseteq Calls
  BY DEF Return, TypeOK
<1>5. UNCHANGED <<id, nextID, shut, stdin, pluginVars, loopVars>> BY DEF Return
<1> QED BY <1>2, <1>3, <1>4, <1>5 DEF TypeOK, pluginVars, loopVars

LEMMA CallerType ==
  ASSUME TypeOK, NEW c \in Calls, CallerStep(c) PROVE TypeOK'
<1>k. chan \in [Calls -> Seq(Nat)] BY DEF TypeOK
<1>1. CASE StartCall(c)
  <2>1. nextID' \in Nat /\ nextID' = nextID + 1 BY <1>1 DEF StartCall, TypeOK
  <2>2. DOMAIN toolCtxs' \subseteq Nat /\ toolCtxs' \in [DOMAIN toolCtxs' -> Calls]
    <3>1. toolCtxs' = toolCtxs \/ toolCtxs' = Bind(toolCtxs, nextID', c)
      BY <1>1 DEF StartCall
    <3> QED BY <2>1, <3>1 DEF TypeOK, Bind
  <2>3. /\ id' \in [Calls -> Nat]
        /\ pc' \in [Calls -> {"idle", "store", "send", "wait", "drain", "done"}]
    BY <1>1, <2>1 DEF StartCall, TypeOK
  <2> QED BY <1>1, <2>1, <2>2, <2>3
          DEF StartCall, TypeOK, routeVars, pluginVars, loopVars
<1>2. CASE StorePending(c)
  <2>1. DOMAIN pending' \subseteq Nat /\ pending' \in [DOMAIN pending' -> Calls]
    BY <1>2 DEF StorePending, TypeOK, Bind
  <2>2. pc' \in [Calls -> {"idle", "store", "send", "wait", "drain", "done"}]
    BY <1>2 DEF StorePending, TypeOK
  <2> QED BY <1>2, <2>1, <2>2
          DEF StorePending, TypeOK, pluginVars, loopVars
<1>3. CASE SendRequest(c)
  <2>1. stdin' \in 0 .. PipeCap
    BY <1>3, BoundsAssumption DEF SendRequest, Writable, TypeOK
  <2>2. pc' \in [Calls -> {"idle", "store", "send", "wait", "drain", "done"}]
    BY <1>3 DEF SendRequest, TypeOK
  <2> QED BY <1>3, <2>1, <2>2
          DEF SendRequest, TypeOK, routeVars, pluginVars, loopVars
<1>4. CASE SendFails(c) BY <1>4, <1>k, ReturnType DEF SendFails
<1>5. CASE ReceiveResponse(c)
  <2>1. Tail(chan[c]) \in Seq(Nat) BY <1>5, <1>k DEF ReceiveResponse
  <2>2. chan' \in [Calls -> Seq(Nat)] BY <1>5, <1>k, <2>1 DEF ReceiveResponse
  <2> QED BY <1>5, <2>2, ReturnType DEF ReceiveResponse
<1>6. CASE ReceiveClosed(c) BY <1>6, <1>k, ReturnType DEF ReceiveClosed
<1>7. CASE ContextEnds(c) BY <1>7, <1>k, ReturnType DEF ContextEnds
<1>8. CASE TransportDone(c) BY <1>8, <1>k, ReturnType DEF TransportDone
<1>9. CASE BeginDrain(c)
  <2>1. pc' \in [Calls -> {"idle", "store", "send", "wait", "drain", "done"}]
    BY <1>9 DEF BeginDrain, TypeOK
  <2> QED BY <1>9, <2>1 DEF BeginDrain, TypeOK, routeVars, pluginVars, loopVars
<1>10. CASE DrainResult(c)
  <2>1. chan' \in [Calls -> Seq(Nat)] BY <1>10, <1>k DEF DrainResult
  <2> QED BY <1>10, <2>1, ReturnType DEF DrainResult
<1>11. CASE DrainTimer(c) BY <1>11, <1>k, ReturnType DEF DrainTimer
<1> QED
  BY <1>1, <1>2, <1>3, <1>4, <1>5, <1>6, <1>7, <1>8, <1>9, <1>10, <1>11
     DEF CallerStep

LEMMA HeadType ==
  ASSUME TypeOK, stdout # <<>>
  PROVE  /\ Head(stdout) \in Message
         /\ Tail(stdout) \in Seq(Message) /\ Len(Tail(stdout)) <= PipeCap
  BY BoundsAssumption DEF TypeOK

LEMMA LoopType == ASSUME TypeOK, LoopStep PROVE TypeOK'
<1>1. CASE ReadResponse
  <2> DEFINE i == Head(stdout).id
  <2>1. /\ stdout' \in Seq(Message) /\ Len(stdout') <= PipeCap
        /\ i \in Nat
    BY <1>1, HeadType DEF ReadResponse, Head1, Message, Response, Request,
       Oversized
  <2>2. DOMAIN pending' \subseteq Nat /\ pending' \in [DOMAIN pending' -> Calls]
    BY <1>1 DEF ReadResponse, TypeOK, Drop
  <2>3. chan' \in [Calls -> Seq(Nat)]
    <3>1. chan \in [Calls -> Seq(Nat)] /\ <<i>> \in Seq(Nat)
      BY <2>1 DEF TypeOK
    <3>2. chan' = chan \/ \E c : chan' = [chan EXCEPT ![c] = <<i>>]
      BY <1>1 DEF ReadResponse
    <3> QED BY <3>1, <3>2
  <2>4. loop' \in LoopState
    BY <1>1 DEF ReadResponse, TypeOK, LoopState
  <2> QED BY <1>1, <2>1, <2>2, <2>3, <2>4 DEF ReadResponse, TypeOK, callerVars
<1>2. CASE ReadRequest
  <2> DEFINE m == Head(stdout)
             found == {x \in ToolContext(m.parent) : ~Refused(m.kind, x.call)}
             task(x) == [n |-> m.n, kind |-> m.kind,
                         call |-> x.call, legacy |-> x.legacy]
  <2>1. /\ stdout' \in Seq(Message) /\ Len(stdout') <= PipeCap
        /\ m.n \in Nat /\ m.kind \in AllKinds
    BY <1>2, HeadType DEF ReadRequest, Head1, Message, Response, Request,
       Oversized
  <2>2. \A x \in found : task(x) \in Task
    BY <2>1, ContextType DEF Task
  <2>3. loop' \in LoopState /\ workers' \subseteq Worker
    <3>1. CASE loop' = Replying /\ UNCHANGED workers
      BY <3>1 DEF Replying, Phase, LoopState, TypeOK
    <3>2. CASE \E x \in found : loop' = Serving(task(x)) /\ UNCHANGED workers
      BY <2>2, <3>2 DEF Serving, LoopState, TypeOK
    <3>3. CASE \E x \in found :
                 /\ workers' = workers \cup {[st |-> "serve", task |-> task(x)]}
                 /\ UNCHANGED loop
      BY <2>2, <3>3 DEF Worker, TypeOK
    <3> QED BY <1>2, <3>1, <3>2, <3>3 DEF ReadRequest
  <2> QED BY <1>2, <2>1, <2>3 DEF ReadRequest, TypeOK, callerVars, routeVars
<1>3. CASE ServeInLoop
  <2>1. loop.task \in Task
    BY <1>3 DEF ServeInLoop, TypeOK, LoopState, Phase
  <2>2. effects' \subseteq Effect BY <1>3, <2>1, PerformType DEF ServeInLoop
  <2>3. loop' \in LoopState BY <1>3 DEF ServeInLoop, Replying, LoopState, Phase
  <2> QED BY <1>3, <2>2, <2>3
          DEF ServeInLoop, TypeOK, callerVars, routeVars, pluginVars
<1>4. CASE ReplyFromLoop
  <2>1. stdin' \in 0 .. PipeCap
    BY <1>4, BoundsAssumption DEF ReplyFromLoop, WriteReply, Writable, TypeOK
  <2>2. loop' \in LoopState BY <1>4 DEF ReplyFromLoop, Scanning, LoopState, Phase
  <2> QED BY <1>4, <2>1, <2>2
          DEF ReplyFromLoop, TypeOK, callerVars, routeVars, pluginVars
<1>5. CASE ScanEnds \/ CloseDone
  <2>1. loop' \in LoopState BY <1>5 DEF ScanEnds, CloseDone, LoopState
  <2> QED BY <1>5, <2>1
          DEF ScanEnds, CloseDone, TypeOK, callerVars, routeVars, pluginVars
<1>6. CASE DrainPending
  <2>1. loop' \in LoopState BY <1>6 DEF DrainPending, LoopState
  <2>2. DOMAIN pending' \subseteq Nat /\ pending' \in [DOMAIN pending' -> Calls]
    BY <1>6 DEF DrainPending, TypeOK, Drop
  <2>3. shut' \subseteq Calls BY <1>6 DEF DrainPending, TypeOK
  <2> QED BY <1>6, <2>1, <2>2, <2>3
          DEF DrainPending, TypeOK, callerVars, pluginVars
<1>7. CASE ClearContexts
  <2>1. loop' \in LoopState BY <1>7 DEF ClearContexts, LoopState
  <2>2. DOMAIN toolCtxs' \subseteq Nat /\ toolCtxs' \in [DOMAIN toolCtxs' -> Calls]
    BY <1>7 DEF ClearContexts, TypeOK, Drop
  <2> QED BY <1>7, <2>1, <2>2
          DEF ClearContexts, TypeOK, callerVars, routeVars, pluginVars
<1> QED BY <1>1, <1>2, <1>3, <1>4, <1>5, <1>6, <1>7 DEF LoopStep

LEMMA OtherType ==
  ASSUME TypeOK,
         \/ \E c \in Calls : Expire(c)
         \/ \E w \in workers : WorkerStep(w)
         \/ PluginStep
  PROVE  TypeOK'
<1>1. ASSUME NEW c \in Calls, Expire(c) PROVE TypeOK'
  BY <1>1 DEF Expire, TypeOK, callerVars, routeVars, pluginVars, loopVars
<1>2. ASSUME NEW w \in workers, ServeInWorker(w) PROVE TypeOK'
  <2>1. w \in Worker /\ w.task \in Task BY DEF TypeOK, Worker
  <2>2. effects' \subseteq Effect BY <1>2, <2>1, PerformType DEF ServeInWorker
  <2>3. [w EXCEPT !.st = "reply"] \in Worker BY <2>1 DEF Worker
  <2>4. workers' \subseteq Worker BY <1>2, <2>3 DEF ServeInWorker, TypeOK
  <2> QED BY <1>2, <2>2, <2>4
          DEF ServeInWorker, TypeOK, callerVars, routeVars, pluginVars
<1>3. ASSUME NEW w \in workers, ReplyFromWorker(w) PROVE TypeOK'
  <2>1. stdin' \in 0 .. PipeCap
    BY <1>3, BoundsAssumption DEF ReplyFromWorker, WriteReply, Writable, TypeOK
  <2>2. workers' \subseteq Worker BY <1>3 DEF ReplyFromWorker, TypeOK
  <2> QED BY <1>3, <2>1, <2>2
          DEF ReplyFromWorker, TypeOK, callerVars, routeVars, pluginVars
<1>4. ASSUME NEW m \in Message, PluginWrites(m), answered' \subseteq Nat
      PROVE  TypeOK'
  <2>1. /\ stdout' \in Seq(Message) /\ Len(stdout') <= PipeCap
        /\ written' \in Nat
    BY <1>4, BoundsAssumption DEF PluginWrites, TypeOK
  <2> QED BY <1>4, <2>1 DEF PluginWrites, TypeOK, callerVars, routeVars, loopVars
<1>5. CASE PluginReads
  <2>1. stdin' \in 0 .. PipeCap BY <1>5, BoundsAssumption DEF PluginReads, TypeOK
  <2> QED BY <1>5, <2>1
          DEF PluginReads, TypeOK, callerVars, routeVars, pluginVars, loopVars
<1>6. CASE PluginResponds
  <2>1. PICK i \in Ids : /\ PluginWrites([type |-> "response", id |-> i])
                         /\ answered' = answered \cup {i}
    BY <1>6 DEF PluginResponds
  <2>2. i \in Nat BY DEF Ids, TypeOK
  <2>3. [type |-> "response", id |-> i] \in Message
    BY <2>2 DEF Message, Response
  <2> QED BY <1>4, <2>1, <2>2, <2>3 DEF TypeOK
<1>7. CASE PluginRequests
  <2>1. PICK k \in Kinds, p \in Ids :
          /\ PluginWrites([type |-> "request", n |-> written, kind |-> k,
                           parent |-> p])
          /\ UNCHANGED answered
    BY <1>7 DEF PluginRequests
  <2>2. p \in Nat /\ written \in Nat /\ k \in AllKinds
    BY BoundsAssumption DEF Ids, TypeOK
  <2>3. [type |-> "request", n |-> written, kind |-> k, parent |-> p] \in Message
    BY <2>2 DEF Message, Request
  <2> QED BY <1>4, <2>1, <2>3 DEF TypeOK
<1>8. CASE PluginOverflows
  BY <1>4, <1>8 DEF PluginOverflows, TypeOK, Message
<1>9. CASE PluginExits
  <2>1. stdin' \in 0 .. PipeCap BY <1>9, BoundsAssumption DEF PluginExits
  <2>2. alive' \in BOOLEAN BY <1>9, Zenon DEF PluginExits
  <2> QED BY <1>9, <2>1, <2>2
          DEF PluginExits, TypeOK, callerVars, routeVars, loopVars
<1> QED
  BY <1>1, <1>2, <1>3, <1>5, <1>6, <1>7, <1>8, <1>9 DEF WorkerStep, PluginStep

(* Transport's variables keep their types, and neither pipe is overfilled. *)
THEOREM TypeCorrect == Spec => []TypeOK
<1>1. TypeOK /\ [Next]_vars => TypeOK'
  <2> SUFFICES ASSUME TypeOK, [Next]_vars PROVE TypeOK' OBVIOUS
  <2>1. CASE UNCHANGED vars
    BY <2>1 DEF vars, TypeOK, callerVars, routeVars, pluginVars, loopVars
  <2> QED BY <2>1, CallerType, LoopType, OtherType DEF Next
<1> QED BY <1>1, InitType, PTL DEF Spec

----------------------------------------------------------------------------
(* The safety half of the refinement.  A response the plugin writes is     *)
(* traced from the pipe to the channel: whatever sits in either carries an *)
(* id the plugin has answered, and only issued ids are answered.           *)
PipeTraced ==
  \A k \in DOMAIN stdout :
    stdout[k].type = "response" => stdout[k].id \in answered

ChanTraced == \A c \in Calls : chan[c] # <<>> => id[c] \in answered

Traced == answered \subseteq Ids /\ PipeTraced /\ ChanTraced

Linked == TypeOK /\ Route /\ Traced

LEMMA IdsGrow ==
  ASSUME TypeOK, nextID' = nextID \/ nextID' = nextID + 1
  PROVE  Ids \subseteq Ids'
  BY DEF TypeOK, Ids

(* Steps that read nothing from the pipe and leave the channels alone. *)
LEMMA TracedFrame ==
  ASSUME Traced, UNCHANGED <<id, nextID, chan, stdout, answered>>
  PROVE  Traced'
  BY DEF Traced, PipeTraced, ChanTraced, Ids

LEMMA CallerTraced ==
  ASSUME Linked, NEW c \in Calls, CallerStep(c) PROVE Traced'
<1> USE DEF Linked
<1>1. CASE StartCall(c)
  <2>1. /\ id' = [id EXCEPT ![c] = nextID + 1] /\ nextID' = nextID + 1
        /\ UNCHANGED <<chan, stdout, answered>> /\ pc[c] = "idle"
    BY <1>1 DEF StartCall, routeVars, pluginVars
  <2>2. chan[c] = <<>> BY <2>1 DEF Route, Fresh
  <2>3. ChanTraced' BY <2>1, <2>2 DEF Traced, ChanTraced, TypeOK
  <2>4. Ids \subseteq Ids' BY <2>1, IdsGrow
  <2> QED BY <2>1, <2>3, <2>4 DEF Traced, PipeTraced
<1>2. ASSUME UNCHANGED <<id, nextID, stdout, answered>>,
             \A d \in Calls : chan'[d] # <<>> => chan[d] # <<>>
      PROVE  Traced'
  BY <1>2 DEF Traced, PipeTraced, ChanTraced, Ids
<1>3. CASE ReceiveResponse(c)
  <2>1. chan' = [chan EXCEPT ![c] = Tail(chan[c])] /\ chan[c] # <<>>
    BY <1>3 DEF ReceiveResponse
  <2>2. \A d \in Calls : chan'[d] # <<>> => chan[d] # <<>>
    BY <2>1 DEF TypeOK
  <2> QED BY <1>2, <1>3, <2>2 DEF ReceiveResponse, Return, pluginVars
<1>4. CASE DrainResult(c)
  <2>1. \A d \in Calls : chan'[d] # <<>> => chan[d] # <<>>
    BY <1>4 DEF DrainResult, TypeOK
  <2> QED BY <1>2, <1>4, <2>1 DEF DrainResult, Return, pluginVars
<1>5. CASE \/ StorePending(c) \/ SendRequest(c) \/ SendFails(c)
           \/ ReceiveClosed(c) \/ ContextEnds(c) \/ TransportDone(c)
           \/ BeginDrain(c) \/ DrainTimer(c)
  BY <1>5, TracedFrame
     DEF StorePending, SendRequest, SendFails, ReceiveClosed, ContextEnds,
         TransportDone, BeginDrain, DrainTimer, Return, pluginVars, routeVars
<1> QED BY <1>1, <1>3, <1>4, <1>5 DEF CallerStep

LEMMA ReadTraced ==
  ASSUME Linked, stdout # <<>>, stdout' = Tail(stdout)
  PROVE  /\ \A k \in DOMAIN stdout' :
              k + 1 \in DOMAIN stdout /\ stdout'[k] = stdout[k + 1]
         /\ 1 \in DOMAIN stdout /\ Head(stdout) = stdout[1]
  BY DEF Linked, TypeOK

LEMMA LoopTraced == ASSUME Linked, LoopStep PROVE Traced'
<1> USE DEF Linked
<1>1. ASSUME stdout # <<>>, stdout' = Tail(stdout), UNCHANGED answered
      PROVE  PipeTraced'
  BY <1>1, ReadTraced DEF Traced, PipeTraced
<1>2. CASE ReadResponse
  <2> DEFINE i == Head(stdout).id
  <2>1. /\ stdout # <<>> /\ Head(stdout).type = "response"
        /\ stdout' = Tail(stdout) /\ UNCHANGED <<id, nextID, answered>>
    BY <1>2 DEF ReadResponse, Head1, callerVars
  <2>2. i \in answered BY <2>1, ReadTraced DEF Traced, PipeTraced
  <2>3. \/ chan' = chan
        \/ i \in DOMAIN pending /\ chan' = [chan EXCEPT ![pending[i]] = <<i>>]
    <3>1. CASE i \in DOMAIN pending
      BY <1>2, <3>1 DEF ReadResponse
    <3>2. CASE i \notin DOMAIN pending
      BY <1>2, <3>2 DEF ReadResponse
    <3> QED BY <3>1, <3>2
  <2>4. i \in DOMAIN pending => pending[i] \in Calls /\ id[pending[i]] = i
    BY DEF Route, PendingOwned, RouteType
  <2>5. ChanTraced' BY <2>1, <2>2, <2>3, <2>4 DEF Traced, ChanTraced, TypeOK
  <2> QED BY <1>1, <2>1, <2>5 DEF Traced, Ids
<1>3. CASE ReadRequest
  <2>1. /\ stdout # <<>> /\ stdout' = Tail(stdout)
        /\ UNCHANGED <<id, nextID, chan, answered>>
    BY <1>3 DEF ReadRequest, Head1, callerVars, routeVars
  <2> QED BY <1>1, <2>1 DEF Traced, Ids, ChanTraced
<1>4. CASE \/ ServeInLoop \/ ReplyFromLoop \/ ScanEnds \/ DrainPending
           \/ ClearContexts \/ CloseDone
  BY <1>4, TracedFrame
     DEF ServeInLoop, ReplyFromLoop, ScanEnds, DrainPending, ClearContexts,
         CloseDone, callerVars, routeVars, pluginVars
<1> QED BY <1>2, <1>3, <1>4 DEF LoopStep

LEMMA PluginTraced == ASSUME Linked, PluginStep PROVE Traced'
<1> USE DEF Linked
<1>1. ASSUME NEW m \in Message, PluginWrites(m), answered \subseteq answered',
             answered' \subseteq Ids, m.type = "response" => m.id \in answered'
      PROVE  Traced'
  <2>1. /\ stdout' = Append(stdout, m) /\ stdout \in Seq(Message)
        /\ UNCHANGED <<id, nextID, chan>>
    BY <1>1 DEF PluginWrites, TypeOK, callerVars, routeVars
  <2>2. \A k \in DOMAIN stdout' : \/ k \in DOMAIN stdout /\ stdout'[k] = stdout[k]
                                  \/ stdout'[k] = m
    BY <2>1
  <2>3. PipeTraced' BY <1>1, <2>2 DEF Traced, PipeTraced
  <2> QED BY <1>1, <2>1, <2>3 DEF Traced, Ids, ChanTraced
<1>2. CASE PluginResponds
  <2>1. PICK i \in Ids : /\ PluginWrites([type |-> "response", id |-> i])
                         /\ answered' = answered \cup {i}
    BY <1>2 DEF PluginResponds
  <2>2. i \in Nat BY DEF Ids, TypeOK
  <2>3. [type |-> "response", id |-> i] \in Message
    BY <2>2 DEF Message, Response
  <2> QED BY <1>1, <2>1, <2>3 DEF Traced
<1>3. CASE PluginRequests
  <2>1. PICK k \in Kinds, p \in Ids :
          /\ PluginWrites([type |-> "request", n |-> written, kind |-> k,
                           parent |-> p])
          /\ UNCHANGED answered
    BY <1>3 DEF PluginRequests
  <2>2. p \in Nat /\ written \in Nat /\ k \in AllKinds
    BY BoundsAssumption DEF Ids, TypeOK
  <2>3. [type |-> "request", n |-> written, kind |-> k, parent |-> p] \in Message
    BY <2>2 DEF Message, Request
  <2> QED BY <1>1, <2>1, <2>3 DEF Traced
<1>4. CASE PluginOverflows
  <2>1. Oversized \in Message /\ Oversized.type # "response"
    BY DEF Message, Oversized
  <2> QED BY <1>1, <1>4, <2>1 DEF PluginOverflows, Traced
<1>5. CASE PluginReads \/ PluginExits
  BY <1>5, TracedFrame
     DEF PluginReads, PluginExits, callerVars, routeVars, pluginVars
<1> QED BY <1>2, <1>3, <1>4, <1>5 DEF PluginStep

LEMMA NextTraced == ASSUME Linked, [Next]_vars PROVE Traced'
<1>1. ASSUME NEW c \in Calls, Expire(c) PROVE Traced'
  BY <1>1, TracedFrame
     DEF Linked, Expire, callerVars, routeVars, pluginVars
<1>2. ASSUME NEW w \in workers, WorkerStep(w) PROVE Traced'
  BY <1>2, TracedFrame
     DEF Linked, WorkerStep, ServeInWorker, ReplyFromWorker, callerVars,
         routeVars, pluginVars
<1>3. CASE UNCHANGED vars
  BY <1>3, TracedFrame DEF Linked, vars, callerVars, routeVars, pluginVars
<1> QED
  BY <1>1, <1>2, <1>3, CallerTraced, LoopTraced, PluginTraced DEF Next

THEOREM TraceInvariant == Spec => []Linked
<1>1. Init => Traced
  BY DEF Init, Traced, PipeTraced, ChanTraced, Ids
<1>2. Linked /\ [Next]_vars /\ TypeOK' /\ Route' => Linked'
  BY NextTraced DEF Linked
<1>3. Init => TypeOK /\ Route BY InitType, InitRoute
<1> QED BY <1>1, <1>2, <1>3, TypeCorrect, RoutingInvariant, PTL DEF Spec, Linked

----------------------------------------------------------------------------
(* The abstract state, and the steps of it that a concrete step makes.     *)
Statuses == [c \in Calls |-> AbstractStatus(c)]
Returned == [c \in Calls |-> AbstractReturned(c)]
AnsweredCalls == {c \in Calls : pc[c] # "idle" /\ id[c] \in answered}

LEMMA AbstractFrame ==
  ASSUME UNCHANGED <<pc, outcome, id, answered>>
  PROVE  UNCHANGED Abstract!vars
  BY DEF Abstract!vars, AbstractStatus, AbstractReturned

(* A caller that moves on between its start and its return. *)
LEMMA MoveStutters ==
  ASSUME TypeOK, NEW c \in Calls, NEW to \in {"send", "wait", "drain"},
         Active(c), pc' = [pc EXCEPT ![c] = to], UNCHANGED <<outcome, id, answered>>
  PROVE  UNCHANGED Abstract!vars
<1>1. \A d \in Calls : /\ (pc'[d] = "idle") <=> (pc[d] = "idle")
                       /\ (pc'[d] = "done") <=> (pc[d] = "done")
  BY DEF TypeOK, Active
<1>2. Statuses' = Statuses BY <1>1 DEF Statuses, AbstractStatus
<1>3. Returned' = Returned BY DEF Returned, AbstractReturned
<1>4. AnsweredCalls' = AnsweredCalls BY <1>1 DEF AnsweredCalls
<1> QED BY <1>2, <1>3, <1>4
        DEF Abstract!vars, Statuses, Returned, AnsweredCalls

(* A call starts under an id nothing has been answered for. *)
LEMMA StartMaps ==
  ASSUME Linked, NEW c \in Calls, StartCall(c) PROVE Abstract!Start(c)
<1>1. /\ pc[c] = "idle" /\ pc' = [pc EXCEPT ![c] = "store"]
      /\ id' = [id EXCEPT ![c] = nextID + 1]
      /\ UNCHANGED <<outcome, answered>>
  BY DEF StartCall, pluginVars
<1>2. nextID + 1 \notin answered
  BY DEF Linked, Traced, Ids, TypeOK
<1>3. Statuses[c] = "idle" BY <1>1 DEF Statuses, AbstractStatus
<1>4. Statuses' = [Statuses EXCEPT ![c] = "active"]
  BY <1>1 DEF Statuses, AbstractStatus, Linked, TypeOK
<1>5. Returned' = Returned BY <1>1 DEF Returned, AbstractReturned
<1>6. AnsweredCalls' = AnsweredCalls
  BY <1>1, <1>2 DEF AnsweredCalls, Linked, TypeOK
<1> QED BY <1>3, <1>4, <1>5, <1>6
        DEF Abstract!Start, Statuses, Returned, AnsweredCalls

(* A call that returns with a response took it from its own channel. *)
LEMMA ReturnMaps ==
  ASSUME Linked, NEW c \in Calls, Active(c),
         NEW how \in {"response", "exited", "closed", "context", "timeout",
                      "send_failed"},
         Return(c, how), how = "response" => chan[c] # <<>>
  PROVE  Abstract!Return(c)
<1> DEFINE r == IF how = "response" THEN "response" ELSE "error"
<1>1. /\ pc' = [pc EXCEPT ![c] = "done"]
      /\ outcome' = [outcome EXCEPT ![c] = how]
      /\ UNCHANGED <<id, answered>>
  BY DEF Return, pluginVars
<1>2. Statuses[c] = "active" BY DEF Statuses, AbstractStatus, Active
<1>3. Statuses' = [Statuses EXCEPT ![c] = "done"]
  BY <1>1 DEF Statuses, AbstractStatus, Linked, TypeOK
<1>4. Returned' = [Returned EXCEPT ![c] = r]
  BY <1>1 DEF Returned, AbstractReturned, Linked, TypeOK
<1>5. AnsweredCalls' = AnsweredCalls
  BY <1>1 DEF AnsweredCalls, Linked, TypeOK, Active
<1>6. r = "response" => c \in AnsweredCalls
  BY DEF Linked, Traced, ChanTraced, AnsweredCalls, Active
<1>7. r \in {"response", "error"} OBVIOUS
<1> QED BY <1>2, <1>3, <1>4, <1>5, <1>6, <1>7
        DEF Abstract!Return, Statuses, Returned, AnsweredCalls

(* The plugin's answer is an abstract answer to the one call that has the  *)
(* id, if there is one and it is the first.                                *)
LEMMA AnswerMaps ==
  ASSUME Linked, PluginResponds
  PROVE  (\E c \in Calls : Abstract!Answer(c)) \/ UNCHANGED Abstract!vars
<1>1. PICK i \in Ids : /\ PluginWrites([type |-> "response", id |-> i])
                       /\ answered' = answered \cup {i}
  BY DEF PluginResponds
<1>2. UNCHANGED <<pc, outcome, id>> BY <1>1 DEF PluginWrites, callerVars
<1>3. Statuses' = Statuses /\ Returned' = Returned
  BY <1>2 DEF Statuses, Returned, AbstractStatus, AbstractReturned
<1>4. CASE \E c \in Calls : pc[c] # "idle" /\ id[c] = i
  <2>1. PICK c \in Calls : pc[c] # "idle" /\ id[c] = i BY <1>4
  <2>2. \A d \in Calls : pc[d] # "idle" /\ id[d] = i => d = c
    BY <2>1 DEF Linked, Route, IdsUnique
  <2>3. AnsweredCalls' = AnsweredCalls \cup {c}
    BY <1>1, <1>2, <2>1, <2>2 DEF AnsweredCalls
  <2>4. Statuses[c] # "idle" BY <2>1 DEF Statuses, AbstractStatus
  <2>5. Abstract!Answer(c)
    BY <1>3, <2>3, <2>4 DEF Abstract!Answer, Statuses, Returned, AnsweredCalls
  <2> QED BY <2>5
<1>5. CASE ~\E c \in Calls : pc[c] # "idle" /\ id[c] = i
  <2>1. AnsweredCalls' = AnsweredCalls BY <1>1, <1>2, <1>5 DEF AnsweredCalls
  <2> QED BY <1>3, <2>1 DEF Abstract!vars, Statuses, Returned, AnsweredCalls
<1> QED BY <1>4, <1>5

(* Every step is an abstract step or changes nothing abstract. *)
LEMMA NextMaps ==
  ASSUME Linked, [Next]_vars PROVE [Abstract!Next]_(Abstract!vars)
<1>1. ASSUME NEW c \in Calls, CallerStep(c)
      PROVE  [Abstract!Next]_(Abstract!vars)
  <2>r. ASSUME NEW how \in {"response", "exited", "closed", "context",
                            "timeout", "send_failed"},
               Active(c), Return(c, how), how = "response" => chan[c] # <<>>
        PROVE  [Abstract!Next]_(Abstract!vars)
    BY <2>r, ReturnMaps DEF Abstract!Next
  <2>1. CASE StartCall(c) BY <2>1, StartMaps DEF Abstract!Next
  <2>2. CASE StorePending(c)
    BY <2>2, MoveStutters DEF Linked, StorePending, Active, pluginVars
  <2>3. CASE SendRequest(c)
    BY <2>3, MoveStutters DEF Linked, SendRequest, Active, pluginVars
  <2>4. CASE SendFails(c) BY <2>4, <2>r DEF SendFails, Active
  <2>5. CASE ReceiveResponse(c) BY <2>5, <2>r DEF ReceiveResponse, Active
  <2>6. CASE ReceiveClosed(c) BY <2>6, <2>r DEF ReceiveClosed, Active
  <2>7. CASE ContextEnds(c) BY <2>7, <2>r DEF ContextEnds, Active
  <2>8. CASE TransportDone(c) BY <2>8, <2>r DEF TransportDone, Active
  <2>9. CASE BeginDrain(c)
    BY <2>9, MoveStutters DEF Linked, BeginDrain, Active, pluginVars
  <2>10. CASE DrainResult(c) BY <2>10, <2>r DEF DrainResult, Active
  <2>11. CASE DrainTimer(c) BY <2>11, <2>r DEF DrainTimer, Active
  <2> QED
    BY <1>1, <2>1, <2>2, <2>3, <2>4, <2>5, <2>6, <2>7, <2>8, <2>9, <2>10,
       <2>11 DEF CallerStep
<1>2. ASSUME UNCHANGED <<pc, outcome, id, answered>>
      PROVE  [Abstract!Next]_(Abstract!vars)
  BY <1>2, AbstractFrame
<1>3. CASE PluginResponds BY <1>3, AnswerMaps DEF Abstract!Next
<1>4. CASE \E c \in Calls : Expire(c)
  BY <1>4, <1>2 DEF Expire, callerVars, pluginVars
<1>5. CASE LoopStep
  BY <1>5, <1>2
     DEF LoopStep, ReadResponse, ReadRequest, ServeInLoop, ReplyFromLoop,
         ScanEnds, DrainPending, ClearContexts, CloseDone, callerVars, pluginVars
<1>6. CASE \E w \in workers : WorkerStep(w)
  BY <1>6, <1>2
     DEF WorkerStep, ServeInWorker, ReplyFromWorker, callerVars, pluginVars
<1>7. CASE \/ PluginReads \/ PluginRequests \/ PluginOverflows \/ PluginExits
  BY <1>7, <1>2
     DEF PluginReads, PluginRequests, PluginOverflows, PluginExits,
         PluginWrites, callerVars, pluginVars
<1>8. CASE UNCHANGED vars BY <1>8, <1>2 DEF vars, callerVars, pluginVars
<1> QED
  BY <1>1, <1>3, <1>4, <1>5, <1>6, <1>7, <1>8 DEF Next, PluginStep

(* Transport implements RequestReply, as far as safety goes: whatever the  *)
(* ids, pipes, channels and goroutines do, a call returns at most once, and *)
(* with a response only if the plugin answered that very call.             *)
THEOREM RequestReplySafety ==
  Spec => Abstract!Init /\ [][Abstract!Next]_(Abstract!vars)
<1>1. ASSUME Init PROVE Abstract!Init
  <2>1. Statuses = [c \in Calls |-> "idle"]
    BY <1>1 DEF Init, Statuses, AbstractStatus
  <2>2. Returned = [c \in Calls |-> "none"]
    BY <1>1 DEF Init, Returned, AbstractReturned
  <2>3. AnsweredCalls = {} BY <1>1 DEF Init, AnsweredCalls
  <2> QED BY <2>1, <2>2, <2>3
          DEF Abstract!Init, Statuses, Returned, AnsweredCalls
<1>2. Linked /\ [Next]_vars => [Abstract!Next]_(Abstract!vars)
  BY NextMaps
<1> QED BY <1>1, <1>2, TraceInvariant, PTL DEF Spec

=============================================================================
