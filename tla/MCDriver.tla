-------------------------------- MODULE MCDriver --------------------------------
(* How afhttp drives a browser: a fetch; the connection it goes through, with  *)
(* two calls on it, any of them with a timeout of its own; and the closing of   *)
(* tabs, with two closes that overlap.  They share no state, so each is        *)
(* explored while the others rest.  Liveness is checked, so no symmetry.       *)
EXTENDS CdpConnection, Fetch, WindowAnchor, Sequences

\* Calls are interchangeable: the last one does not take its number before the
\* other.  The browser hands out its target ids in one order: which is which says
\* nothing; and what a call that has not begun is to close is not read.
CONSTANTS lastCall, t1, t2, t3, t4
HandedOut == {{<<t1, t2, t3, t4>>[i] : i \in 1 .. n} : n \in 0 .. 4}

VARIABLE part

FetchRests ==
  /\ request = (CHOOSE r \in Requests : TRUE)
  /\ step = "returned" /\ outcome = "ok"
  /\ attempt = 1 /\ sent = 0 /\ clock = "running"
  /\ mine = {} /\ attached = FALSE /\ session = "none"
  /\ tabs = [t \in Tabs |-> "none"]
  /\ capture = "none" /\ cut = FALSE
  /\ told = {} /\ owed = {} /\ reported = {}

DriverInit ==
  /\ part \in {"connection", "fetch", "closing"}
  /\ ConnectionInit /\ (part # "connection" => \A c \in Calls : timed[c] = FALSE)
  /\ IF part = "fetch" THEN FetchInit ELSE FetchRests
  /\ AnchorInit /\ used \in HandedOut /\ (part # "closing" => used = {} /\ ~single)
  /\ \A c \in Closings : target_id[c] = t1

DriverNext ==
  /\ UNCHANGED part
  /\ \/ /\ part = "connection" /\ ConnectionNext /\ UNCHANGED <<fetchVars, anchorVars>>
        /\ place'[lastCall] # "new" => \A c \in Calls : place'[c] # "new"
     \/ part = "fetch" /\ FetchNext /\ UNCHANGED <<connectionVars, anchorVars>>
     \/ /\ part = "closing" /\ AnchorNext /\ UNCHANGED <<connectionVars, fetchVars>>
        /\ used' \in HandedOut

\* A connection at rest is not run, although its calls could begin.  Nothing of a
\* fetch at rest is enabled, and nobody is sure to close anything.
ConnectionFairness ==
  /\ \A c \in Calls : WF_connectionVars(part = "connection" /\ CallRuns(c))
  /\ WF_connectionVars(part = "connection" /\ WriterRuns)
  /\ WF_connectionVars(part = "connection" /\ ReaderRuns)

DriverSpec ==
  /\ DriverInit /\ [][DriverNext]_<<part, connectionVars, fetchVars, anchorVars>>
  /\ ConnectionFairness /\ FetchFairness
=================================================================================
