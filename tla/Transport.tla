----------------------------- MODULE Transport -----------------------------
(***************************************************************************)
(* JSON-lines multiplexing between the server and one persistent plugin    *)
(* process: internal/plugin/transport.go, with its two kinds of caller,    *)
(* Handle.callPersistent (tool calls) and SendAndWait (init, resource      *)
(* queries, shutdown).                                                     *)
(*                                                                         *)
(* Callers register a reply channel under a fresh id, write their request  *)
(* to the plugin's stdin and wait; one ReadLoop goroutine reads the        *)
(* plugin's stdout, hands responses to the registered channel and serves   *)
(* the plugin's own requests (HTTP, cache, files) on behalf of the call    *)
(* named by parent_id.  The plugin is the environment: it may answer any   *)
(* issued id at any time, twice or never, send requests with a right, a    *)
(* stale or no parent_id, write an oversized line, or exit.                *)
(***************************************************************************)
EXTENDS Naturals, Sequences, FiniteSets

CONSTANTS
  ToolCalls,     \* calls made by callPersistent
  Lifecycle,     \* SendAndWait calls that register a read-only context
  Shutdowns,     \* SendAndWait calls that register none (Process.Stop)
  WriteCalls,    \* the tool calls whose tool has access "write"
  LocalWriters,  \* the tool calls whose tool may write local files
  DryRunCalls,   \* the tool calls made with dry_run=true
  Timed,         \* the calls whose context has a deadline
  Sequential,    \* manifest concurrency <= 1
  Kinds,         \* the kinds of service request the plugin sends
  PipeCap,       \* lines that fit in an OS pipe
  MaxLines       \* bound: lines the plugin writes

Calls == ToolCalls \cup Lifecycle \cup Shutdowns

AllKinds == {"http_get", "http_post", "cache_get", "cache_set",
             "file_read", "file_write"}

ASSUME CallsAssumption ==
  /\ ToolCalls \cap Lifecycle = {}
  /\ (ToolCalls \cup Lifecycle) \cap Shutdowns = {}
  /\ WriteCalls \subseteq ToolCalls
  /\ LocalWriters \subseteq ToolCalls
  /\ DryRunCalls \subseteq ToolCalls
  /\ ToolCalls \subseteq Timed /\ Timed \subseteq Calls
ASSUME BoundsAssumption ==
  /\ Sequential \in BOOLEAN
  /\ Kinds \subseteq AllKinds
  /\ PipeCap \in Nat \ {0}
  /\ MaxLines \in Nat

VARIABLES
  pc,        \* where each caller is
  outcome,   \* what each call returned
  id,        \* the id each call got; 0 before
  nextID,    \* t.nextID
  pending,   \* t.pending: id -> the call whose channel is registered
  chan,      \* the buffered messages of each call's channel (capacity 1)
  shut,      \* the channels ReadLoop closed
  ctxDone,   \* the contexts that have expired or been cancelled
  toolCtxs,  \* t.toolCtxs: id -> the call whose context is registered
  stdin,     \* lines in the plugin's stdin pipe
  stdout,    \* the plugin's stdout pipe
  written,   \* lines the plugin has written so far
  answered,  \* history: ids the plugin has written a response for
  alive,     \* the plugin process is running
  loop,      \* ReadLoop
  workers,   \* service goroutines (concurrency > 1)
  effects    \* history: writes performed for the plugin

callerVars == <<pc, outcome, id, nextID>>
routeVars == <<pending, chan, shut>>
pluginVars == <<stdout, written, answered, alive>>
loopVars == <<loop, workers, effects>>
vars == <<callerVars, routeVars, ctxDone, toolCtxs, stdin, pluginVars, loopVars>>

----------------------------------------------------------------------------
(* Messages and tasks *)

Ids == 0 .. nextID

Response == [type : {"response"}, id : Nat]
Request == [type : {"request"}, n : Nat, kind : AllKinds, parent : Nat]
Oversized == [type |-> "oversized"]
Message == Response \cup Request \cup {Oversized}

(* A service request being handled: the context it runs under is a call's, *)
(* narrowed to read access when it was found by the legacy fallback.       *)
Task == [n : Nat, kind : AllKinds, call : Calls, legacy : BOOLEAN]
Effect == [kind : AllKinds, call : Calls, legacy : BOOLEAN]

(* ReadLoop's states; "reply" is a reply being written to stdin. *)
Scanning == [st |-> "scan"]
Replying == [st |-> "reply"]
Serving(t) == [st |-> "serve", task |-> t]
Phase(p) == [st |-> p]
LoopState == {Phase(p) : p \in {"scan", "reply", "drain", "clear", "close",
                                "exited", "stuck"}}
             \cup [st : {"serve"}, task : Task]

Worker == [st : {"serve", "reply"}, task : Task]

Drop(f, S) == [x \in DOMAIN f \ S |-> f[x]]
Bind(f, x, y) == [z \in DOMAIN f \cup {x} |-> IF z = x THEN y ELSE f[z]]

Active(c) == pc[c] \notin {"idle", "done"}

TypeOK ==
  /\ pc \in [Calls -> {"idle", "store", "send", "wait", "drain", "done"}]
  /\ outcome \in [Calls -> {"none", "response", "exited", "closed",
                            "context", "timeout", "send_failed"}]
  /\ id \in [Calls -> Nat]
  /\ nextID \in Nat
  /\ DOMAIN pending \subseteq Nat /\ pending \in [DOMAIN pending -> Calls]
  /\ chan \in [Calls -> Seq(Nat)]
  /\ shut \subseteq Calls
  /\ ctxDone \subseteq Calls
  /\ DOMAIN toolCtxs \subseteq Nat /\ toolCtxs \in [DOMAIN toolCtxs -> Calls]
  /\ stdin \in 0 .. PipeCap
  /\ stdout \in Seq(Message) /\ Len(stdout) <= PipeCap
  /\ written \in Nat
  /\ answered \subseteq Nat
  /\ alive \in BOOLEAN
  /\ loop \in LoopState
  /\ workers \subseteq Worker
  /\ effects \subseteq Effect

Init ==
  /\ pc = [c \in Calls |-> "idle"]
  /\ outcome = [c \in Calls |-> "none"]
  /\ id = [c \in Calls |-> 0]
  /\ nextID = 0
  /\ pending = [i \in {} |-> i]
  /\ chan = [c \in Calls |-> <<>>]
  /\ shut = {}
  /\ ctxDone = {}
  /\ toolCtxs = [i \in {} |-> i]
  /\ stdin = 0
  /\ stdout = <<>>
  /\ written = 0
  /\ answered = {}
  /\ alive = TRUE
  /\ loop = Scanning
  /\ workers = {}
  /\ effects = {}

----------------------------------------------------------------------------
(* Callers *)

(* For concurrency <= 1, CallTool holds h.mu until it returns.  Resource   *)
(* queries and shutdown do not take it.                                    *)
MutexFree(c) ==
  Sequential /\ c \in ToolCalls => \A d \in ToolCalls : ~Active(d)

(* GenerateID and, except for shutdown, SetToolContext. *)
StartCall(c) ==
  /\ pc[c] = "idle"
  /\ MutexFree(c)
  /\ nextID' = nextID + 1
  /\ id' = [id EXCEPT ![c] = nextID']
  /\ toolCtxs' = IF c \in Shutdowns THEN toolCtxs
                                    ELSE Bind(toolCtxs, nextID', c)
  /\ pc' = [pc EXCEPT ![c] = "store"]
  /\ UNCHANGED <<outcome, routeVars, ctxDone, stdin, pluginVars, loopVars>>

StorePending(c) ==
  /\ pc[c] = "store"
  /\ pending' = Bind(pending, id[c], c)
  /\ pc' = [pc EXCEPT ![c] = "send"]
  /\ UNCHANGED <<outcome, id, nextID, chan, shut, ctxDone, toolCtxs, stdin,
                 pluginVars, loopVars>>

(* Room in the pipe.  t.mu serialises the writers: one that waits for room *)
(* keeps all others, ReadLoop's replies included, waiting with it.         *)
Writable == alive /\ stdin < PipeCap
Broken == ~alive

(* Mutant of SendRequest: a write that does not wait for the plugin to     *)
(* make room.                                                              *)
SendRequestUnbounded(c) ==
  /\ pc[c] = "send"
  /\ stdin' = stdin + 1
  /\ pc' = [pc EXCEPT ![c] = "wait"]
  /\ UNCHANGED <<outcome, id, nextID, routeVars, ctxDone, toolCtxs,
                 pluginVars, loopVars>>

(* Send: the write ignores the caller's context. *)
SendRequest(c) ==
  /\ pc[c] = "send"
  /\ Writable
  /\ stdin' = stdin + 1
  /\ pc' = [pc EXCEPT ![c] = "wait"]
  /\ UNCHANGED <<outcome, id, nextID, routeVars, ctxDone, toolCtxs,
                 pluginVars, loopVars>>

(* Mutant of Return: the deferred ClearToolContext is missing. *)
ReturnUncleared(c, how) ==
  /\ pc' = [pc EXCEPT ![c] = "done"]
  /\ outcome' = [outcome EXCEPT ![c] = how]
  /\ pending' = Drop(pending, {id[c]})
  /\ ctxDone' = IF c \in ToolCalls THEN ctxDone \cup {c} ELSE ctxDone
  /\ UNCHANGED <<id, nextID, shut, toolCtxs, stdin, pluginVars, loopVars>>

(* Returning runs the deferred pending.Delete, ClearToolContext and, for   *)
(* tool calls, cancel.                                                     *)
Return(c, how) ==
  /\ pc' = [pc EXCEPT ![c] = "done"]
  /\ outcome' = [outcome EXCEPT ![c] = how]
  /\ pending' = Drop(pending, {id[c]})
  /\ toolCtxs' = Drop(toolCtxs, {id[c]})
  /\ ctxDone' = IF c \in ToolCalls THEN ctxDone \cup {c} ELSE ctxDone
  /\ UNCHANGED <<id, nextID, shut, stdin, pluginVars, loopVars>>

SendFails(c) ==
  /\ pc[c] = "send"
  /\ Broken
  /\ Return(c, "send_failed")
  /\ UNCHANGED chan

(* The branches of the two select statements. *)
ReceiveResponse(c) ==
  /\ pc[c] = "wait"
  /\ chan[c] # <<>>
  /\ chan' = [chan EXCEPT ![c] = Tail(@)]
  /\ Return(c, "response")

ReceiveClosed(c) ==
  /\ pc[c] = "wait"
  /\ chan[c] = <<>> /\ c \in shut
  /\ Return(c, "exited")
  /\ UNCHANGED chan

ContextEnds(c) ==
  /\ pc[c] = "wait"
  /\ c \in ctxDone
  /\ c \notin ToolCalls
  /\ Return(c, "context")
  /\ UNCHANGED chan

(* Mutant of TransportDone: SendAndWait does not select on t.done. *)
TransportDoneIgnored(c) == FALSE /\ UNCHANGED vars

(* Only SendAndWait selects on t.done. *)
TransportDone(c) ==
  /\ pc[c] = "wait"
  /\ c \notin ToolCalls
  /\ loop = Phase("exited")
  /\ Return(c, "closed")
  /\ UNCHANGED chan

(* callPersistent on a done context: wait up to two more seconds for the   *)
(* late result, still holding h.mu.                                        *)
BeginDrain(c) ==
  /\ pc[c] = "wait"
  /\ c \in ctxDone
  /\ c \in ToolCalls
  /\ pc' = [pc EXCEPT ![c] = "drain"]
  /\ UNCHANGED <<outcome, id, nextID, routeVars, ctxDone, toolCtxs, stdin,
                 pluginVars, loopVars>>

DrainResult(c) ==
  /\ pc[c] = "drain"
  /\ chan[c] # <<>> \/ c \in shut
  /\ chan' = [chan EXCEPT ![c] = <<>>]
  /\ Return(c, "timeout")

(* Mutant of DrainTimer: the drain waits for the late result for ever. *)
DrainTimerMissing(c) == FALSE /\ UNCHANGED vars

DrainTimer(c) ==
  /\ pc[c] = "drain"
  /\ Return(c, "timeout")
  /\ UNCHANGED chan

(* The deadline passes or the MCP client cancels. *)
Expire(c) ==
  /\ pc[c] # "idle"
  /\ c \notin ctxDone
  /\ ctxDone' = ctxDone \cup {c}
  /\ UNCHANGED <<callerVars, routeVars, toolCtxs, stdin, pluginVars, loopVars>>

----------------------------------------------------------------------------
(* ReadLoop *)

(* ToolContext: the calls, at most one, on whose behalf a request with     *)
(* this parent_id runs.  Without a parent_id the only registered context   *)
(* is used, narrowed to read access.                                       *)
ToolContext(parent) ==
  IF parent # 0
    THEN {[call |-> toolCtxs[i], legacy |-> FALSE] :
            i \in DOMAIN toolCtxs \cap {parent}}
    ELSE {[call |-> toolCtxs[i], legacy |-> TRUE] :
            i \in {j \in DOMAIN toolCtxs : DOMAIN toolCtxs = {j}}}

(* Mutants: no dry-run check in ReadLoop; the legacy fallback keeps the    *)
(* call's own access level.                                                *)
RefusedNever(kind, call) == FALSE
ReadOnlyCtxUnnarrowed(t) == t.call \notin WriteCalls \ DryRunCalls

(* The access level and flags the context carries (server.go sets them,    *)
(* dry runs are read-only and may not write files).                        *)
ReadOnlyCtx(t) == t.legacy \/ t.call \notin WriteCalls \ DryRunCalls
LocalWriteCtx(t) == t.call \in LocalWriters \ DryRunCalls

(* Refused in ReadLoop itself, before any handler runs. *)
Refused(kind, call) == kind = "cache_set" /\ call \in DryRunCalls

(* What the handlers let through: the proxy refuses mutating methods to a  *)
(* read-only context, HandleFileIO refuses file_write unless local_write   *)
(* is set, HandleCache does not look at the access level.                  *)
Permitted(t) ==
  CASE t.kind = "http_post"  -> ~ReadOnlyCtx(t)
    [] t.kind = "file_write" -> ~ReadOnlyCtx(t) \/ LocalWriteCtx(t)
    [] t.kind = "cache_set"  -> TRUE
    [] OTHER                 -> FALSE

Perform(t) ==
  effects' = IF Permitted(t)
               THEN effects \cup {[kind |-> t.kind, call |-> t.call,
                                   legacy |-> t.legacy]}
               ELSE effects

Head1(type) == stdout # <<>> /\ Head(stdout).type = type

(* Mutants of ReadResponse: Load without Delete; a response with an        *)
(* unknown id goes to whoever is waiting.                                  *)
Deliver(i, j, remove) ==
  /\ loop = Scanning
  /\ IF j \in DOMAIN pending
       THEN LET c == pending[j]
            IN /\ pending' = Drop(pending, remove)
               /\ IF chan[c] = <<>> /\ c \notin shut
                    THEN /\ chan' = [chan EXCEPT ![c] = <<i>>]
                         /\ UNCHANGED loop
                    ELSE /\ loop' = Phase("stuck")
                         /\ UNCHANGED chan
       ELSE UNCHANGED <<pending, chan, loop>>
  /\ stdout' = Tail(stdout)
  /\ UNCHANGED <<callerVars, shut, ctxDone, toolCtxs, stdin, written, answered,
                 alive, workers, effects>>
ReadResponseKept ==
  Head1("response") /\ Deliver(Head(stdout).id, Head(stdout).id, {})
ReadResponseToAnyone ==
  /\ Head1("response")
  /\ LET i == Head(stdout).id
     IN IF i \in DOMAIN pending THEN Deliver(i, i, {i})
        ELSE \/ \E j \in DOMAIN pending : Deliver(i, j, {j})
             \/ DOMAIN pending = {} /\ Deliver(i, i, {i})

(* LoadAndDelete, then a send on the channel: the send would block ReadLoop *)
(* for good if the channel were full, and panic if it were closed.  A       *)
(* response nobody waits for is logged and dropped; so are malformed lines  *)
(* and unknown types (id 0 here).                                           *)
ReadResponse ==
  /\ loop = Scanning
  /\ Head1("response")
  /\ LET i == Head(stdout).id
     IN IF i \in DOMAIN pending
          THEN LET c == pending[i]
               IN /\ pending' = Drop(pending, {i})
                  /\ IF chan[c] = <<>> /\ c \notin shut
                       THEN /\ chan' = [chan EXCEPT ![c] = <<i>>]
                            /\ UNCHANGED loop
                       ELSE /\ loop' = Phase("stuck")
                            /\ UNCHANGED chan
          ELSE UNCHANGED <<pending, chan, loop>>
  /\ stdout' = Tail(stdout)
  /\ UNCHANGED <<callerVars, shut, ctxDone, toolCtxs, stdin, written, answered,
                 alive, workers, effects>>

(* A service request: refused without a context, else served by ReadLoop   *)
(* itself or by a goroutine of its own.                                    *)
ReadRequest ==
  /\ loop = Scanning
  /\ Head1("request")
  /\ LET m == Head(stdout)
         found == {x \in ToolContext(m.parent) : ~Refused(m.kind, x.call)}
         task(x) == [n |-> m.n, kind |-> m.kind,
                     call |-> x.call, legacy |-> x.legacy]
     IN \/ /\ found = {}
           /\ loop' = Replying
           /\ UNCHANGED workers
        \/ \E x \in found :
             IF Sequential
               THEN loop' = Serving(task(x)) /\ UNCHANGED workers
               ELSE /\ workers' = workers \cup
                                    {[st |-> "serve", task |-> task(x)]}
                    /\ UNCHANGED loop
  /\ stdout' = Tail(stdout)
  /\ UNCHANGED <<callerVars, routeVars, ctxDone, toolCtxs, stdin, written,
                 answered, alive, effects>>

ServeInLoop ==
  /\ loop.st = "serve"
  /\ Perform(loop.task)
  /\ loop' = Replying
  /\ UNCHANGED <<callerVars, routeVars, ctxDone, toolCtxs, stdin, pluginVars,
                 workers>>

(* A write error is logged and ignored. *)
WriteReply == \/ Writable /\ stdin' = stdin + 1
              \/ Broken /\ UNCHANGED stdin

ReplyFromLoop ==
  /\ loop = Replying
  /\ WriteReply
  /\ loop' = Scanning
  /\ UNCHANGED <<callerVars, routeVars, ctxDone, toolCtxs, pluginVars, workers,
                 effects>>

ServeInWorker(w) ==
  /\ w.st = "serve"
  /\ Perform(w.task)
  /\ workers' = (workers \ {w}) \cup {[w EXCEPT !.st = "reply"]}
  /\ UNCHANGED <<callerVars, routeVars, ctxDone, toolCtxs, stdin, pluginVars,
                 loop>>

ReplyFromWorker(w) ==
  /\ w.st = "reply"
  /\ WriteReply
  /\ workers' = workers \ {w}
  /\ UNCHANGED <<callerVars, routeVars, ctxDone, toolCtxs, pluginVars, loop,
                 effects>>

(* The scanner stops at the end of the stream or at an oversized line. *)
ScanEnds ==
  /\ loop = Scanning
  /\ Head1("oversized") \/ (stdout = <<>> /\ ~alive)
  /\ loop' = Phase("drain")
  /\ UNCHANGED <<callerVars, routeVars, ctxDone, toolCtxs, stdin, pluginVars,
                 workers, effects>>

DrainPending ==
  /\ loop = Phase("drain")
  /\ shut' = shut \cup {pending[i] : i \in DOMAIN pending}
  /\ pending' = Drop(pending, DOMAIN pending)
  /\ loop' = Phase("clear")
  /\ UNCHANGED <<callerVars, chan, ctxDone, toolCtxs, stdin, pluginVars,
                 workers, effects>>

ClearContexts ==
  /\ loop = Phase("clear")
  /\ toolCtxs' = Drop(toolCtxs, DOMAIN toolCtxs)
  /\ loop' = Phase("close")
  /\ UNCHANGED <<callerVars, routeVars, ctxDone, stdin, pluginVars, workers,
                 effects>>

CloseDone ==
  /\ loop = Phase("close")
  /\ loop' = Phase("exited")
  /\ UNCHANGED <<callerVars, routeVars, ctxDone, toolCtxs, stdin, pluginVars,
                 workers, effects>>

----------------------------------------------------------------------------
(* The plugin process (environment) *)

PluginReads ==
  /\ alive
  /\ stdin > 0
  /\ stdin' = stdin - 1
  /\ UNCHANGED <<callerVars, routeVars, ctxDone, toolCtxs, pluginVars, loopVars>>

(* A write blocks while the pipe is full, and for ever once ReadLoop has   *)
(* stopped reading.                                                        *)
PluginWrites(m) ==
  /\ alive
  /\ Len(stdout) < PipeCap
  /\ written < MaxLines
  /\ stdout' = Append(stdout, m)
  /\ written' = written + 1
  /\ UNCHANGED <<callerVars, routeVars, ctxDone, toolCtxs, stdin, alive,
                 loopVars>>

PluginResponds ==
  \E i \in Ids : /\ PluginWrites([type |-> "response", id |-> i])
                 /\ answered' = answered \cup {i}

PluginRequests ==
  \E k \in Kinds, p \in Ids :
    /\ PluginWrites([type |-> "request", n |-> written, kind |-> k,
                     parent |-> p])
    /\ UNCHANGED answered

PluginOverflows == PluginWrites(Oversized) /\ UNCHANGED answered

PluginExits ==
  /\ alive
  /\ alive' = FALSE
  /\ stdin' = 0
  /\ UNCHANGED <<callerVars, routeVars, ctxDone, toolCtxs, stdout, written,
                 answered, loopVars>>

----------------------------------------------------------------------------
CallerStep(c) ==
  \/ StartCall(c)
  \/ StorePending(c)
  \/ SendRequest(c)
  \/ SendFails(c)
  \/ ReceiveResponse(c)
  \/ ReceiveClosed(c)
  \/ ContextEnds(c)
  \/ TransportDone(c)
  \/ BeginDrain(c)
  \/ DrainResult(c)
  \/ DrainTimer(c)

LoopStep ==
  \/ ReadResponse
  \/ ReadRequest
  \/ ServeInLoop
  \/ ReplyFromLoop
  \/ ScanEnds
  \/ DrainPending
  \/ ClearContexts
  \/ CloseDone

WorkerStep(w) == ServeInWorker(w) \/ ReplyFromWorker(w)

PluginStep ==
  \/ PluginReads
  \/ PluginResponds
  \/ PluginRequests
  \/ PluginOverflows
  \/ PluginExits

(* Nothing is left to do: every call has returned and both sides are idle. *)
Finished ==
  /\ \A c \in Calls : pc[c] = "done"
  /\ ~alive
  /\ loop = Phase("exited")
  /\ workers = {}

Next ==
  \/ \E c \in Calls : CallerStep(c) \/ Expire(c)
  \/ LoopStep
  \/ \E w \in workers : WorkerStep(w)
  \/ PluginStep
  \/ Finished /\ UNCHANGED vars

(* A started call, ReadLoop and the service goroutines keep running; an    *)
(* HTTP request is only sure to end once its context is done.              *)
HTTPBusy(t) == t.kind \in {"http_get", "http_post"} /\ t.call \notin ctxDone

Running(c) == CallerStep(c) /\ pc[c] # "idle"

LoopRuns == LoopStep /\ ~(loop.st = "serve" /\ HTTPBusy(loop.task))

GoFairness ==
  /\ \A c \in Calls : WF_vars(Running(c))
  /\ WF_vars(LoopRuns)
  /\ WF_vars(\E w \in workers :
               WorkerStep(w) /\ ~(w.st = "serve" /\ HTTPBusy(w.task)))

(* Tool calls, init and shutdown have a timeout.  A resource query runs    *)
(* under the context of the client's request, which may never end.         *)
Deadlines == \A c \in Timed : WF_vars(Expire(c))

(* The plugin keeps draining its stdin for as long as it lives. *)
PluginDrains == WF_vars(PluginReads)

Spec == Init /\ [][Next]_vars /\ GoFairness /\ Deadlines /\ PluginDrains

(* The plugin may stop reading its stdin. *)
SpecDeafPlugin == Init /\ [][Next]_vars /\ GoFairness /\ Deadlines

----------------------------------------------------------------------------
(* Properties *)

(* A registered channel is empty and open, so that ReadLoop's send on it   *)
(* neither blocks the only reader of the plugin's output nor panics: a     *)
(* duplicate response finds no registration, and draining closes each      *)
(* channel once.                                                           *)
DeliveryIsSafe ==
  /\ loop # Phase("stuck")
  /\ \A i \in DOMAIN pending : chan[pending[i]] = <<>> /\ pending[i] \notin shut

(* A channel only ever holds a response that carries its own call's id, so *)
(* no call returns another call's late or duplicate result.                *)
OwnResponse ==
  \A c \in Calls : \A k \in DOMAIN chan[c] : chan[c][k] = id[c] /\ id[c] > 0

(* Every registration in the two maps belongs to a call still in progress, *)
(* also when the call timed out, failed to send, or registered after       *)
(* ReadLoop had already drained the maps.                                  *)
NoLeak ==
  /\ \A i \in DOMAIN pending : Active(pending[i]) /\ id[pending[i]] = i
  /\ \A i \in DOMAIN toolCtxs : Active(toolCtxs[i]) /\ id[toolCtxs[i]] = i

(* A dry-run call leaves nothing behind: no mutating HTTP request, no      *)
(* cache write and no file write is performed in its name, by whichever    *)
(* route the plugin asked for it.                                          *)
DryRunIsPure == \A e \in effects : e.call \notin DryRunCalls

(* A mutating HTTP request is performed only for a call of a write tool    *)
(* that the plugin named explicitly, and a file write only for such a call *)
(* or for a tool with local_write.                                         *)
WritesAuthorised ==
  \A e \in effects :
    /\ e.kind = "http_post" => e.call \in WriteCalls /\ ~e.legacy
    /\ e.kind = "file_write" => \/ e.call \in WriteCalls /\ ~e.legacy
                                \/ e.call \in LocalWriters

(* Transport implements RequestReply: the abstract call is active between  *)
(* its start and its return, and answered once the plugin has written a    *)
(* response with its id.                                                   *)
AbstractStatus(c) ==
  CASE pc[c] = "idle" -> "idle" [] pc[c] = "done" -> "done"
    [] OTHER -> "active"

AbstractReturned(c) ==
  CASE outcome[c] = "none" -> "none" [] outcome[c] = "response" -> "response"
    [] OTHER -> "error"

Abstract == INSTANCE RequestReply WITH
  status <- [c \in Calls |-> AbstractStatus(c)],
  returned <- [c \in Calls |-> AbstractReturned(c)],
  answered <- {c \in Calls : pc[c] # "idle" /\ id[c] \in answered}

(* Under the fairness of Spec, callPersistent and SendAndWait keep the     *)
(* promise of RequestReply: at most one return, always a return when the   *)
(* call has a deadline, and never a response the plugin did not address to *)
(* this call.                                                              *)
ImplementsRequestReply == Abstract!Spec

(* When ReadLoop ends, the callers whose channels it drained, and all      *)
(* SendAndWait callers, return, also the resource queries that have no     *)
(* deadline.                                                               *)
ExitWakesWaiters ==
  \A c \in Calls :
    (c \in shut \/ (c \notin ToolCalls /\ pc[c] = "wait"
                      /\ loop = Phase("exited"))) ~> (pc[c] = "done")

=============================================================================
