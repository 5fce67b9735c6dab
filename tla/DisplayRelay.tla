------------------------------ MODULE DisplayRelay ------------------------------
(***************************************************************************)
(* The takeover panel's way to the display (host/takeover/mod.rs): the     *)
(* landing page that tells the display's client where its socket is, for a *)
(* panel served by the host itself or framed by another listener, and the  *)
(* relay of that socket to the display's own server, two loops of which    *)
(* the first to end ends both.                                             *)
(***************************************************************************)
EXTENDS Naturals

CONSTANTS Served,   \* where the panel may be served: the host's own path, or a prefix
          Queries,  \* the settings the address may already have: [path, resize]
          Room,     \* what a socket's buffers hold
          SendMax   \* bound on what each end sends

ASSUME RelayAssumption == Room \in Nat \ {0} /\ SendMax \in Nat

VARIABLES
  base,     \* where this panel is served
  manager,  \* whether the display has a window manager
  query,    \* the address the panel is at
  panel,    \* "address", "client", "dialling", "connected", "lost" or "failed"
  loads,    \* landing pages it was given
  peer,     \* who opened the relayed socket: "none", "relay", "own" or "other"
  relay,    \* "none", "connecting", "running" or "over"
  open,     \* whether each end's socket is open: "client", "display"
  loop,     \* each direction, by the end it reads: "reading", "sending", "closing" or "done"
  inbox,    \* what waits to be read by the loop, by the end that sent it
  outbox,   \* what waits to be read by the end it was relayed to
  sent      \* what each end has sent

relayVars == <<base, manager, query, panel, loads, peer, relay, open, loop, inbox, outbox, sent>>

Sides == {"client", "display"}
other(e) == IF e = "client" THEN "display" ELSE "client"
resize == IF manager THEN "remote" ELSE "scale"

RelayInit ==
  /\ base \in Served /\ manager \in BOOLEAN /\ query \in Queries
  /\ panel = "address" /\ loads = 0 /\ peer = "none" /\ relay = "none"
  /\ open = [e \in Sides |-> FALSE] /\ loop = [e \in Sides |-> "reading"]
  /\ inbox = [e \in Sides |-> 0] /\ outbox = [e \in Sides |-> 0] /\ sent = [e \in Sides |-> 0]
streamVarsOf == <<open, loop, inbox, outbox, sent>>
-----------------------------------------------------------------------------
\* proxy_kasmvnc: a landing page without its settings is answered with a page
\* that computes the path from where it is shown, and reloads.
isSettled == query.path # "none" /\ query.resize = resize
landing_bootstrap ==
  /\ panel = "address" /\ ~isSettled
  /\ query' = [path |-> base, resize |-> resize] /\ loads' = loads + 1
  /\ UNCHANGED <<base, manager, panel, peer, relay, streamVarsOf>>
\* forward_display_http: the display's own client, or nothing within the timeout.
forward_display_http ==
  /\ panel = "address" /\ isSettled
  /\ \/ panel' = "client" \/ panel' = "failed"
  /\ UNCHANGED <<base, manager, query, loads, peer, relay, streamVarsOf>>

\* The client opens the socket its settings name; elsewhere nobody answers.
ClientDials ==
  /\ panel = "client" /\ panel' = IF query.path = base THEN "dialling" ELSE "lost"
  /\ UNCHANGED <<base, manager, query, loads, peer, relay, streamVarsOf>>

\* Any page of the site sends the cookie along; only the panel's own origin,
\* or a relay that sends none, is let through.
websocket_origin_matches_host(from) == from \in {"own", "relay"}
Upgrades(from) ==
  /\ relay = "none" /\ websocket_origin_matches_host(from)
  /\ from \in {"own", "relay"} => panel = "dialling"
  /\ peer' = from /\ relay' = "connecting" /\ open' = [open EXCEPT !["client"] = TRUE]
  /\ UNCHANGED <<base, manager, query, panel, loads, loop, inbox, outbox, sent>>

\* forward_kasmvnc_ws: the display is given a while to take the connection.
Connects ==
  /\ relay = "connecting"
  /\ \/ /\ relay' = "running" /\ open' = [open EXCEPT !["display"] = TRUE]
        /\ panel' = IF peer = "other" THEN panel ELSE "connected"
     \/ relay' = "over" /\ open' = [e \in Sides |-> FALSE] /\ UNCHANGED panel
  /\ UNCHANGED <<base, manager, query, loads, peer, loop, inbox, outbox, sent>>

LoopGoes(e, to) == loop' = [loop EXCEPT ![e] = to]
\* An end that has closed its socket still has read what it sent before.
Reads(e) ==
  /\ relay = "running" /\ loop[e] = "reading"
  /\ \/ inbox[e] > 0 /\ inbox' = [inbox EXCEPT ![e] = @ - 1] /\ LoopGoes(e, "sending")
     \/ inbox[e] = 0 /\ ~open[e] /\ LoopGoes(e, "closing") /\ UNCHANGED inbox
  /\ UNCHANGED <<base, manager, query, panel, loads, peer, relay, open, outbox, sent>>
\* A send waits for room and fails if nobody is there any more.
Relays(e) ==
  /\ relay = "running" /\ loop[e] \in {"sending", "closing"}
  /\ LET closing == loop[e] = "closing" IN
     IF ~open[other(e)] THEN LoopGoes(e, IF closing THEN "done" ELSE "closing") /\ UNCHANGED outbox
     ELSE /\ outbox[other(e)] < Room /\ LoopGoes(e, IF closing THEN "done" ELSE "reading")
          /\ outbox' = [outbox EXCEPT ![other(e)] = @ + 1]
  /\ UNCHANGED <<base, manager, query, panel, loads, peer, relay, open, inbox, sent>>
\* select!: the loop that ends first takes the other, and both sockets, with it.
\* (Variant: join.)
both == \A e \in Sides : loop[e] = "done"
finished == \E e \in Sides : loop[e] = "done"
RelayEnds ==
  /\ relay = "running" /\ finished
  /\ relay' = "over" /\ open' = [e \in Sides |-> FALSE]
  /\ inbox' = [e \in Sides |-> 0] /\ outbox' = [e \in Sides |-> 0]
  /\ UNCHANGED <<base, manager, query, panel, loads, peer, loop, sent>>

\* The panel's page and the display's server.
EndSends(e) ==
  /\ relay = "running" /\ open[e] /\ inbox[e] < Room /\ sent[e] < SendMax
  /\ inbox' = [inbox EXCEPT ![e] = @ + 1] /\ sent' = [sent EXCEPT ![e] = @ + 1]
  /\ UNCHANGED <<base, manager, query, panel, loads, peer, relay, open, loop, outbox>>
EndReads(e) ==
  /\ relay = "running" /\ open[e] /\ outbox[e] > 0
  /\ outbox' = [outbox EXCEPT ![e] = @ - 1]
  /\ UNCHANGED <<base, manager, query, panel, loads, peer, relay, open, loop, inbox, sent>>
EndCloses(e) ==
  /\ relay = "running" /\ open[e] /\ open' = [open EXCEPT ![e] = FALSE]
  /\ UNCHANGED <<base, manager, query, panel, loads, peer, relay, loop, inbox, outbox, sent>>

RelayProgress(e) == Reads(e) \/ Relays(e)
RelayNext ==
  \/ landing_bootstrap \/ forward_display_http \/ ClientDials \/ Connects \/ RelayEnds
  \/ \E from \in {"own", "relay", "other"} : Upgrades(from)
  \/ \E e \in Sides : RelayProgress(e) \/ EndSends(e) \/ EndReads(e) \/ EndCloses(e)
-----------------------------------------------------------------------------
\* A panel whose address has no stale path is given the landing page at most
\* once and then dials where it is served, behind any prefix.  (landing_bootstrap)
PanelFindsItsSocket == loads < 2 /\ panel # "lost"

\* A relay ends when either end has gone, although the other neither sends nor
\* leaves.  (forward_kasmvnc_ws)
RelayEndsWithEitherEnd ==
  (relay = "running" /\ \E e \in Sides : ~open[e]) ~> relay = "over"

\* A panel is connected to its display and let go with it.
\* (landing_bootstrap, forward_kasmvnc_ws)
RelayServesItsPanel == []PanelFindsItsSocket /\ RelayEndsWithEitherEnd
=============================================================================
