----------------------------- MODULE PluginSdk -----------------------------
(***************************************************************************)
(* pkg/handler, the library plugins are written with, against the core     *)
(* side that serves a plugin of concurrency 1.  The plugin is a single     *)
(* thread: Run reads a request from stdin and calls the handler for it; a  *)
(* handler that wants an HTTP request, a cache operation or a file from    *)
(* the core writes a service request and, in waitFor, reads stdin itself   *)
(* until its response arrives.                                             *)
(*                                                                         *)
(* A persistent plugin is initialised once and then receives tool calls,   *)
(* one at a time, and resource queries, which do not wait for them.  A     *)
(* oneshot plugin is started for each call and ends when stdin is closed.  *)
(***************************************************************************)
EXTENDS Integers, Sequences, FiniteSets

CONSTANTS
  SdkKinds,      \* requests of a persistent plugin: a subset of
                 \* {"tool", "unknown", "list", "read", "shutdown"}
  Handlers,      \* kinds for which the plugin registered a callback
  MaxRequests,   \* bound: requests of the core after init
  MaxServices    \* bound: service requests of the plugin

ASSUME SdkAssumption ==
  /\ SdkKinds \subseteq {"tool", "unknown", "list", "read", "shutdown"}
  /\ Handlers \subseteq {"init", "tool", "list", "read"}

VARIABLES
  oneshot,     \* the plugin's execution: oneshot or persistent
  requests,    \* requests[r] = [kind, st], r = 1 being init
  callMu,      \* the tool call that holds Handle.mu, or 0
  stdin, eof,  \* messages on their way to the plugin; stdin is closed
  stdout,      \* messages on their way to the core
  serving,     \* the service request the core is working on
  sdk,         \* the plugin process
  sent,        \* service requests sent so far: nextID
  handled      \* the last service request the core took up: history
sdkVars == <<oneshot, requests, callMu, stdin, eof, stdout, serving, sdk, sent,
             handled>>

Down == [pc |-> "down"]
Waiting(r) == [pc |-> "recv", cur |-> r, callID |-> 0, wid |-> 0]
NoService == [n |-> 0]
RequestMsg(r) == [type |-> "request", n |-> r]
IsCall(r) == requests[r].kind \in {"tool", "unknown"}
Deadline(r) == IsCall(r) \/ requests[r].kind \in {"init", "shutdown"}
Pending(r) == requests[r].st \in {"sent", "draining"}

(* The requests whose context is registered with the transport. *)
Active == {r \in DOMAIN requests : Pending(r) /\ requests[r].kind # "shutdown"}
Become(r, st) == [requests EXCEPT ![r].st = st]
Release(r) == callMu' = IF callMu = r THEN 0 ELSE callMu

SdkInit ==
  /\ oneshot \in BOOLEAN
  /\ requests = IF oneshot THEN <<>> ELSE <<[kind |-> "init", st |-> "sent"]>>
  /\ callMu = 0 /\ eof = FALSE /\ stdout = <<>> /\ serving = NoService
  /\ stdin = IF oneshot THEN <<>> ELSE <<RequestMsg(1)>>
  /\ sdk = IF oneshot THEN Down ELSE Waiting(0)
  /\ sent = 0 /\ handled = NoService

-----------------------------------------------------------------------------
(* The core *)

Started == IF oneshot THEN TRUE ELSE requests[1].st = "ok"
SendRequest(kind) ==
  /\ Started /\ ~eof /\ Len(requests) <= MaxRequests
  /\ requests' = Append(requests, [kind |-> kind, st |-> "sent"])
  /\ stdin' = Append(stdin, RequestMsg(Len(requests) + 1))
  /\ UNCHANGED <<oneshot, eof, stdout, serving, sent, handled>>

(* CallTool and callPersistent: a tool call is sent with Handle.mu held.    *)
CallTool(kind) ==
  /\ ~oneshot /\ callMu = 0 /\ sdk # Down
  /\ SendRequest(kind) /\ callMu' = Len(requests) + 1 /\ UNCHANGED sdk

(* callOneshot starts a process for the call. *)
CallOneshot(kind) ==
  /\ oneshot /\ callMu = 0
  /\ SendRequest(kind) /\ callMu' = Len(requests) + 1 /\ sdk' = Waiting(0)

(* ListResources and ReadResource use the transport without Handle.mu;     *)
(* Stop does too.                                                          *)
Query(kind) ==
  /\ ~oneshot /\ sdk # Down /\ kind \notin {"tool", "unknown"}
  /\ SendRequest(kind) /\ UNCHANGED <<callMu, sdk>>

(* A tool call that times out waits a little for its result before it lets *)
(* go of Handle.mu; the process of a oneshot call, and of an init or       *)
(* shutdown that times out, is killed.  A resource query has no deadline   *)
(* of its own.                                                             *)
TimesOut(r) ==
  /\ requests[r].st = "sent" /\ Deadline(r)
  /\ IF IsCall(r) /\ ~oneshot
     THEN requests' = Become(r, "draining") /\ UNCHANGED <<sdk, stdin>>
     ELSE /\ requests' = IF oneshot THEN requests ELSE Become(r, "failed")
          /\ sdk # Down /\ sdk' = Down /\ stdin' = <<>>
  /\ UNCHANGED <<oneshot, callMu, eof, stdout, serving, sent, handled>>

DrainTimer(r) ==
  /\ requests[r].st = "draining"
  /\ requests' = Become(r, "failed") /\ Release(r)
  /\ UNCHANGED <<oneshot, stdin, eof, stdout, serving, sdk, sent, handled>>

(* The context ReadLoop finds for a service request: the one its parent_id *)
(* names; without one the only registered context, read-only.  callOneshot *)
(* uses the context of its call.                                           *)
Context(m) ==
  IF oneshot THEN {[r |-> callMu, access |-> "call"]}
  ELSE IF m.parent # 0
       THEN {[r |-> r, access |-> IF IsCall(r) THEN "call" ELSE "read"] :
               r \in Active \cap {m.parent}}
       ELSE {[r |-> r, access |-> "read"] : r \in {x \in Active : Active = {x}}}

(* Mutant of Refuse: the request is skipped like a malformed line. *)
RefuseSilently(m) ==
  UNCHANGED stdin

(* An HTTP request, cache operation or file access outside tool calls is   *)
(* answered with an error.                                                 *)
Refuse(m) ==
  stdin' = Append(stdin, [type |-> "response", n |-> m.n])

(* ReadLoop and the loop of callOneshot take up a service request; at      *)
(* concurrency 1 nothing else is read before it has been answered.         *)
ReadService ==
  /\ stdout # <<>> /\ serving = NoService /\ ~eof
  /\ LET m == Head(stdout) IN
       /\ m.type = "service"
       /\ handled' = [n |-> m.n, for |-> m.for, ctx |-> Context(m), active |-> Active]
       /\ IF Context(m) = {} THEN Refuse(m) /\ UNCHANGED serving
                             ELSE serving' = m /\ UNCHANGED stdin
  /\ stdout' = Tail(stdout)
  /\ UNCHANGED <<oneshot, requests, callMu, eof, sdk, sent>>

(* HandleHTTP, HandleCache or HandleFileIO returns and its answer is sent. *)
ServiceDone ==
  /\ serving # NoService
  /\ stdin' = IF sdk = Down THEN stdin
              ELSE Append(stdin, [type |-> "response", n |-> serving.n])
  /\ serving' = NoService
  /\ UNCHANGED <<oneshot, requests, callMu, eof, stdout, sdk, sent, handled>>

(* A result goes to whoever still waits for it.  An init that failed kills *)
(* the process; a oneshot call closes stdin and waits for the process.     *)
ReadResult ==
  /\ stdout # <<>> /\ serving = NoService /\ ~eof /\ Head(stdout).type = "result"
  /\ LET m == Head(stdout) IN
       /\ requests' = IF ~Pending(m.n) THEN requests
                      ELSE Become(m.n, IF requests[m.n].st = "draining" THEN "failed"
                                       ELSE IF oneshot THEN "closing"
                                       ELSE IF m.ok THEN "ok" ELSE "error")
       /\ eof' = oneshot
       /\ IF requests[m.n].kind = "init" /\ ~m.ok
          THEN sdk' = Down /\ stdin' = <<>>
          ELSE UNCHANGED <<sdk, stdin>>
       /\ IF oneshot THEN UNCHANGED callMu ELSE Release(m.n)
  /\ stdout' = Tail(stdout)
  /\ UNCHANGED <<oneshot, serving, sent, handled>>

(* The process is gone and all it wrote has been read: whoever waits is    *)
(* told.                                                                   *)
ScanEnds ==
  /\ sdk = Down /\ serving = NoService /\ (stdout = <<>> \/ eof)
  /\ \E r \in DOMAIN requests : Pending(r) \/ requests[r].st = "closing"
  /\ requests' = [r \in DOMAIN requests |->
        [requests[r] EXCEPT !.st = CASE Pending(r) -> "failed"
                                     [] @ = "closing" -> "ok"
                                     [] OTHER -> @]]
  /\ callMu' = 0 /\ eof' = FALSE /\ stdin' = <<>> /\ stdout' = <<>>
  /\ UNCHANGED <<oneshot, serving, sdk, sent, handled>>

(* The server exits: the plugin finds its stdin closed. *)
CoreExits ==
  /\ ~eof /\ eof' = TRUE
  /\ requests' = [r \in DOMAIN requests |->
        IF Pending(r) THEN [requests[r] EXCEPT !.st = "failed"] ELSE requests[r]]
  /\ callMu' = 0 /\ serving' = NoService /\ stdout' = <<>>
  /\ UNCHANGED <<oneshot, stdin, sdk, sent, handled>>

-----------------------------------------------------------------------------
(* The plugin *)

SdkAt(pc) == sdk # Down /\ sdk.pc = pc
Take == stdin' = Tail(stdin)
Result(r, ok) == stdout' = Append(stdout, [type |-> "result", n |-> r, ok |-> ok])
Sdk == <<oneshot, requests, callMu, eof, serving, handled>>

(* Mutant of Leave: the deferred reset of callID is missing. *)
LeaveCallID == [sdk EXCEPT !.pc = "recv", !.cur = 0]

(* A handler returns to Run; handleToolCall clears callID on its way. *)
Leave == [sdk EXCEPT !.pc = "recv", !.cur = 0, !.callID = 0]

Reads(kind) ==
  /\ SdkAt("recv") /\ stdin # <<>> /\ Head(stdin).type = "request"
  /\ requests[Head(stdin).n].kind = kind
  /\ Take

(* handleInit, handleToolCall, handleListResources and handleReadResource  *)
(* call the callback for the request; only a tool call sets callID.        *)
Handle(kind) ==
  /\ kind \in Handlers /\ Reads(kind)
  /\ LET r == Head(stdin).n IN
       sdk' = [sdk EXCEPT !.pc = "run", !.cur = r,
                          !.callID = IF kind = "tool" THEN r ELSE @]
  /\ UNCHANGED <<Sdk, stdout, sent>>

(* Without a callback the answer is immediate: init and an empty list      *)
(* succeed, an unknown tool and a resource that cannot be read are errors. *)
Default(kind) ==
  /\ kind \notin Handlers /\ kind # "shutdown" /\ Reads(kind)
  /\ Result(Head(stdin).n, kind \in {"init", "list"})
  /\ UNCHANGED <<Sdk, sdk, sent>>

Shutdown ==
  /\ Reads("shutdown")
  /\ Result(Head(stdin).n, TRUE) /\ sdk' = Down
  /\ UNCHANGED <<Sdk, sent>>

(* Run ends at end of file. *)
Ends ==
  /\ SdkAt("recv") /\ stdin = <<>> /\ eof
  /\ sdk' = Down
  /\ UNCHANGED <<Sdk, stdin, stdout, sent>>

(* HTTP, ProxyTransport.RoundTrip, CacheGet, CacheSet, CacheDel,           *)
(* CacheFlush, FileWrite, FileWriteFrom and FileRead: a fresh id, the      *)
(* current callID as parent_id, then waitFor.                              *)
Service ==
  /\ SdkAt("run") /\ sent < MaxServices
  /\ sent' = sent + 1
  /\ stdout' = Append(stdout, [type |-> "service", n |-> sent + 1,
                               parent |-> sdk.callID, for |-> sdk.cur])
  /\ sdk' = [sdk EXCEPT !.pc = "wait", !.wid = sent + 1]
  /\ UNCHANGED <<Sdk, stdin>>

WaitFor ==
  /\ SdkAt("wait") /\ stdin # <<>> /\ Take
  /\ LET m == Head(stdin) IN
       IF m.type = "response" /\ m.n = sdk.wid
       THEN sdk' = [sdk EXCEPT !.pc = "run"]
       ELSE UNCHANGED sdk
  /\ UNCHANGED <<Sdk, stdout, sent>>

WaitForEOF ==
  /\ SdkAt("wait") /\ stdin = <<>> /\ eof
  /\ sdk' = [sdk EXCEPT !.pc = "run"]
  /\ UNCHANGED <<Sdk, stdin, stdout, sent>>

(* The callback returns; a result that cannot be encoded is an error too. *)
Return ==
  /\ SdkAt("run")
  /\ \E ok \in BOOLEAN : Result(sdk.cur, ok)
  /\ sdk' = Leave
  /\ UNCHANGED <<Sdk, stdin, sent>>

(* The plugin crashes. *)
SdkCrashes ==
  /\ sdk # Down /\ sdk' = Down /\ stdin' = <<>>
  /\ UNCHANGED <<Sdk, stdout, sent>>

-----------------------------------------------------------------------------
CoreStep == ReadService \/ ServiceDone \/ ReadResult \/ ScanEnds
Plugin ==
  \/ \E k \in SdkKinds \cup {"init"} : Handle(k) \/ Default(k)
  \/ Shutdown \/ Ends \/ Service \/ WaitFor \/ WaitForEOF \/ Return
SdkNext ==
  \/ \E k \in {"tool", "unknown"} : CallTool(k) \/ CallOneshot(k)
  \/ \E k \in SdkKinds : Query(k)
  \/ \E r \in DOMAIN requests : TimesOut(r) \/ DrainTimer(r)
  \/ CoreStep \/ CoreExits \/ Plugin \/ SdkCrashes

(* ReadLoop reads on and service handlers are bounded by timeouts; waitFor *)
(* reads whatever arrives.  Nothing is assumed of the plugin's callbacks.  *)
SdkFairness == WF_sdkVars(CoreStep \/ WaitFor \/ WaitForEOF)
SdkSpec == SdkInit /\ [][SdkNext]_sdkVars /\ SdkFairness

-----------------------------------------------------------------------------
(* A service request made while the plugin works for a request runs under  *)
(* that request's own context as long as the core waits for it, and a tool *)
(* call's request never runs under another's.  A request made for init or  *)
(* for a resource query carries no parent_id: it has read access at most,  *)
(* and is refused only when another request is active or its own no longer *)
(* is.                                                                     *)
ServedInContext ==
  handled # NoService =>
    LET r == handled.for IN
      /\ IsCall(r) => /\ \A c \in handled.ctx : c.r = r
                      /\ r \in handled.active => handled.ctx # {}
      /\ ~IsCall(r) => /\ \A c \in handled.ctx : c.access = "read"
                       /\ handled.active = {r} => handled.ctx # {}

(* waitFor ends: whatever the core decides about a service request, even   *)
(* when the call it was made for has timed out, the plugin gets an answer. *)
WaitEnds == SdkAt("wait") ~> ~SdkAt("wait")

=============================================================================
