---------------------------- MODULE RequestReply ----------------------------
(***************************************************************************)
(* What the plugin transport promises its callers, without ids, channels,  *)
(* pipes or goroutines: a call that starts returns at most once, if it has *)
(* a deadline it does return, and it returns a response only if the plugin *)
(* answered that very call.                                                *)
(***************************************************************************)
CONSTANTS Calls, Timed

VARIABLES status,    \* "idle", "active" or "done"
          returned,  \* "none", "response" or "error"
          answered   \* the calls the plugin has answered so far

vars == <<status, returned, answered>>

Init ==
  /\ status = [c \in Calls |-> "idle"]
  /\ returned = [c \in Calls |-> "none"]
  /\ answered = {}

Start(c) ==
  /\ status[c] = "idle"
  /\ status' = [status EXCEPT ![c] = "active"]
  /\ UNCHANGED <<returned, answered>>

(* Early, late and repeated answers are all possible. *)
Answer(c) ==
  /\ status[c] # "idle"
  /\ answered' = answered \cup {c}
  /\ UNCHANGED <<status, returned>>

Return(c) ==
  /\ status[c] = "active"
  /\ status' = [status EXCEPT ![c] = "done"]
  /\ \E r \in {"response", "error"} :
       /\ r = "response" => c \in answered
       /\ returned' = [returned EXCEPT ![c] = r]
  /\ UNCHANGED answered

Next == \E c \in Calls : Start(c) \/ Answer(c) \/ Return(c)

Spec == Init /\ [][Next]_vars /\ \A c \in Timed : WF_vars(Return(c))

=============================================================================
