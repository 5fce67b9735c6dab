------------------------------ MODULE RpcChannel ------------------------------
(***************************************************************************)
(* What sdk/cdp/ws_client.rs promises its callers, without ids, slots,     *)
(* queues or tasks: a call is refused before the browser can see it, or it *)
(* is open until it ends once, with the browser's answer or without.  A    *)
(* call that ended without its answer may have run, or may yet; a refused  *)
(* one never runs.  Going down ends every open call in one step and no     *)
(* call opens after it.                                                    *)
(***************************************************************************)
CONSTANT Calls

VARIABLES status, served, up

abstract == <<status, served, up>>

Init ==
  /\ status = [c \in Calls |-> "new"]
  /\ served = {}
  /\ up = TRUE

Open(c) ==
  /\ up /\ status[c] = "new"
  /\ status' = [status EXCEPT ![c] = "open"]
  /\ UNCHANGED <<served, up>>

Refuse(c) ==
  /\ status[c] = "new"
  /\ status' = [status EXCEPT ![c] = "refused"]
  /\ UNCHANGED <<served, up>>

\* The browser runs a call once, also one whose caller has gone.
Serve(c) ==
  /\ status[c] \in {"open", "unanswered"}
  /\ c \notin served
  /\ served' = served \cup {c}
  /\ UNCHANGED <<status, up>>

Answer(c) ==
  /\ status[c] = "open" /\ c \in served
  /\ status' = [status EXCEPT ![c] = "answered"]
  /\ UNCHANGED <<served, up>>

GiveUp(c) ==
  /\ status[c] = "open"
  /\ status' = [status EXCEPT ![c] = "unanswered"]
  /\ UNCHANGED <<served, up>>

GoDown ==
  /\ up
  /\ up' = FALSE
  /\ status' = [c \in Calls |-> IF status[c] = "open" THEN "unanswered" ELSE status[c]]
  /\ UNCHANGED served

Next ==
  \/ \E c \in Calls : Open(c) \/ Refuse(c) \/ Serve(c) \/ Answer(c) \/ GiveUp(c)
  \/ GoDown

Spec == Init /\ [][Next]_abstract
===============================================================================
