------------------------------- MODULE Takeover -------------------------------
(***************************************************************************)
(* The takeover credentials of a host (host/listener/mod.rs) and the panel *)
(* commands that live on them (sdk/takeover.rs, cli/cmd/ui.rs).  An agent  *)
(* mints a handoff URL; a panel command exchanges it for a lease, or mints *)
(* a lease with the host's token, and renews the lease while its window is *)
(* open.  Every handler probes the browser before it acts, so a switch, a  *)
(* shutdown or another command comes between its authorisation and its     *)
(* effect; requests and answers get lost, commands crash.                  *)
(***************************************************************************)
EXTENDS Naturals, FiniteSets

CONSTANTS Owners,     \* panel commands
          Agent,      \* who mints the handoff
          MaxCreds,   \* bound on credentials minted
          MaxUpsets,  \* bound on switches and on losses of a request
          Ttl, Idle,  \* lifetime of a handoff, idle timeout of a lease: 900 s and 120 s
          Every,      \* sleep between renewals: a third of Idle
          Patience,   \* timeout of the exchanging client and bound of a probe: 10 s
          Delivery    \* bound on what the UI library takes to start showing a panel

ASSUME TakeoverAssumption ==
  /\ Every \in Nat \ {0} /\ Patience \in Nat \ {0} /\ Ttl \in Nat /\ MaxUpsets \in Nat
  /\ Idle = 3 * Every /\ Delivery \in 0 .. Every /\ Delivery + 2 * Patience < Idle - Every
  /\ MaxCreds \in Nat
ASSUME AgentAssumption == Agent \notin Owners  \* the agent's command and a person's are two

VARIABLES
  token,   \* whether the host has a token
  host,    \* "up", "draining" or "down"
  backend, \* browser and display: "up", "quiet" or "gone"
  creds,   \* the minted credentials: [kind, left, of]
  way,     \* how each owner gets its lease: "open" or "mint"
  pc,      \* where it is
  url,     \* the handoff the agent gave out, 0 for none
  lease,   \* the lease each owner holds, 0 for none
  slept,   \* its clock since it got the lease, then since the last renewal
  req,     \* the request each of them has in flight: [what, phase, auth, waited]
  windows, \* owners whose window is open
  upsets   \* switches and losses so far

vars == <<token, host, backend, creds, way, pc, url, lease, slept, req, windows, upsets>>

Clients == Owners \cup {Agent}
Ids == 1 .. MaxCreds
NoReq == [what |-> "none", phase |-> "none", auth |-> 0, waited |-> 0]
NoCred == [kind |-> "none", left |-> 0, of |-> 0]

\* A lease renews on every authorisation, a handoff runs out.
is_live(i) == i \in Ids /\ creds[i].left > 0
has_live_takeover_credentials == \E i \in Ids : is_live(i)
authorized(i) == [creds EXCEPT ![i].left = IF creds[i].kind = "lease" THEN Idle ELSE @]
revoked(cs, i) == [cs EXCEPT ![i].left = 0, ![i].kind = "revoked"]
revoke_takeover_handoffs ==
  creds' = [i \in Ids |-> IF is_live(i) THEN [creds[i] EXCEPT !.left = 0, !.kind = "revoked"] ELSE creds[i]]
issued(cs, kind, life, from) ==
  LET free == CHOOSE i \in Ids : cs[i].kind = "none" /\ \A k \in 1 .. i - 1 : cs[k].kind # "none"
  IN [cs EXCEPT ![free] = [kind |-> kind, left |-> life, of |-> from]]
CanIssue == \E i \in Ids : creds[i].kind = "none"
newest(cs) == CHOOSE i \in Ids : cs[i].kind # "none" /\ \A k \in Ids : cs[k].kind # "none" => k <= i

Init ==
  /\ token \in BOOLEAN /\ host = "up" /\ backend = "up"
  /\ creds = [i \in Ids |-> NoCred]
  /\ way \in [Owners -> {"open", "mint"}]
  /\ pc = [c \in Clients |-> "idle"]
  /\ url = 0 /\ lease = [o \in Owners |-> 0] /\ slept = [o \in Owners |-> 0]
  /\ req = [c \in Clients |-> NoReq]
  /\ windows = {} /\ upsets = 0

Goto(c, place) == pc' = [pc EXCEPT ![c] = place]
Sends(c, what) == req' = [req EXCEPT ![c] = [NoReq EXCEPT !.what = what, !.phase = "sent"]]
Clears(c) == req' = [req EXCEPT ![c] = NoReq]
Phase(c, place) == req' = [req EXCEPT ![c].phase = place]
\* The secret a request carries: the handoff of an exchange, else the lease.
secret(c) == IF req[c].what \in {"renew", "revoke"} THEN lease[c] ELSE IF req[c].what = "exchange" THEN url ELSE 0
hostVars == <<token, host, backend, way>>
-----------------------------------------------------------------------------
(* The host.                                                               *)
\* token_middleware.  A minting request carries the host's token, if it has
\* one; a host without a token lets anything through, as nobody.
Arrives(c) ==
  /\ req[c].phase = "sent"
  /\ IF host # "up" THEN Phase(c, "lost") /\ UNCHANGED creds
     ELSE IF is_live(secret(c))
       THEN creds' = authorized(secret(c)) /\ req' = [req EXCEPT ![c].phase = "admitted", ![c].auth = secret(c)]
     ELSE /\ Phase(c, IF token /\ req[c].what \in {"exchange", "renew", "revoke"} THEN "refused" ELSE "admitted")
          /\ UNCHANGED creds
  /\ UNCHANGED <<hostVars, pc, url, lease, slept, windows, upsets>>

\* require_takeover_ready: an answer at once, or after its timeouts.  (Variant:
\* the browser is not asked.)
takesAnything == TRUE
isReady == backend = "up"
NotReady(c) ==
  /\ req[c].phase = "admitted" /\ req[c].what # "revoke" /\ ~isReady
  /\ Phase(c, "refused")
  /\ UNCHANGED <<hostVars, creds, pc, url, lease, slept, windows, upsets>>

\* takeover_handoff_handler
MintsHandoff(c) ==
  /\ req[c].phase = "admitted" /\ req[c].what = "handoff" /\ isReady /\ CanIssue
  /\ creds' = issued(creds, "handoff", Ttl, 0)
  /\ req' = [req EXCEPT ![c].phase = "done", ![c].auth = newest(creds')]
  /\ UNCHANGED <<hostVars, pc, url, lease, slept, windows, upsets>>

\* takeover_ui_session_create: the lease first, then the handoff that was
\* exchanged for it is revoked.
spends(cs, i) == IF i = 0 THEN cs ELSE revoked(cs, i)
takeover_ui_session_create(c) ==
  /\ req[c].phase = "admitted" /\ req[c].what \in {"exchange", "mint"} /\ isReady /\ CanIssue
  /\ LET minted == issued(creds, "lease", Idle, req[c].auth) IN
     /\ creds' = spends(minted, req[c].auth)
     /\ req' = [req EXCEPT ![c].phase = "done", ![c].auth = newest(minted)]
  /\ UNCHANGED <<hostVars, pc, url, lease, slept, windows, upsets>>

takeover_ui_session_keep_alive(c) ==
  /\ req[c].phase = "admitted" /\ req[c].what = "renew" /\ isReady
  /\ Phase(c, "done")
  /\ UNCHANGED <<hostVars, creds, pc, url, lease, slept, windows, upsets>>

takeover_ui_session_revoke(c) ==
  /\ req[c].phase = "admitted" /\ req[c].what = "revoke"
  /\ creds' = IF is_live(lease[c]) THEN revoked(creds, lease[c]) ELSE creds
  /\ Phase(c, "done")
  /\ UNCHANGED <<hostVars, pc, url, lease, slept, windows, upsets>>

\* A window's document, asset or socket request renews the lease it carries.
PanelLoads(o) ==
  /\ o \in windows /\ host = "up" /\ is_live(lease[o])
  /\ creds' = authorized(lease[o])
  /\ UNCHANGED <<hostVars, pc, url, lease, slept, req, windows, upsets>>

\* A profile switch brings another browser, and every credential dies.
Switches ==
  /\ host = "up" /\ upsets < MaxUpsets /\ upsets' = upsets + 1
  /\ revoke_takeover_handoffs /\ backend' = "up"
  /\ UNCHANGED <<token, host, way, pc, url, lease, slept, req, windows>>
BackendFails(how) ==
  /\ backend = "up" /\ backend' = how
  /\ UNCHANGED <<token, host, creds, way, pc, url, lease, slept, req, windows, upsets>>

\* Shutdown: no new requests, those under way are answered, then the
\* credentials are revoked.  (Variant: nobody is waited for.)
InFlight == {c \in Clients : req[c].phase = "admitted"}
ShutdownBegins ==
  /\ host = "up" /\ host' = "draining"
  /\ UNCHANGED <<token, backend, creds, way, pc, url, lease, slept, req, windows, upsets>>
atOnce == TRUE
served == InFlight = {}
ShutdownEnds ==
  /\ host = "draining" /\ served
  /\ host' = "down" /\ revoke_takeover_handoffs
  /\ UNCHANGED <<token, backend, way, pc, url, lease, slept, req, windows, upsets>>
-----------------------------------------------------------------------------
(* The agent and the panel commands.                                       *)
AgentAsks ==
  /\ pc[Agent] = "idle" /\ Goto(Agent, "asking") /\ Sends(Agent, "handoff")
  /\ UNCHANGED <<hostVars, creds, url, lease, slept, windows, upsets>>
AgentGetsUrl ==
  /\ pc[Agent] = "asking" /\ req[Agent].phase = "done"
  /\ url' = req[Agent].auth /\ Clears(Agent) /\ Goto(Agent, "ended")
  /\ UNCHANGED <<hostVars, creds, lease, slept, windows, upsets>>
AgentFails ==
  /\ pc[Agent] = "asking" /\ req[Agent].phase \in {"refused", "lost"}
  /\ Clears(Agent) /\ Goto(Agent, "ended")
  /\ UNCHANGED <<hostVars, creds, url, lease, slept, windows, upsets>>

\* exchange, or takeover_ui_session after check_takeover_browser.
Asks(o) ==
  /\ pc[o] = "idle"
  /\ IF way[o] = "open" THEN url # 0 /\ Sends(o, "exchange") ELSE backend = "up" /\ Sends(o, "mint")
  /\ Goto(o, "asking")
  /\ UNCHANGED <<hostVars, creds, url, lease, slept, windows, upsets>>

\* from_response; then the delivery is started, or the URL is refused and the
\* lease handed back, or no link can be made of it and the command ends with it.
GetsLease(o) ==
  /\ pc[o] = "asking" /\ req[o].phase = "done"
  /\ lease' = [lease EXCEPT ![o] = req[o].auth]
  /\ slept' = [slept EXCEPT ![o] = 0]
  /\ \/ Goto(o, "opening") /\ Clears(o) /\ windows' = windows \cup {o}
     \/ Goto(o, "revoking") /\ Sends(o, "revoke") /\ UNCHANGED windows
     \/ Goto(o, "ended") /\ Clears(o) /\ UNCHANGED windows
  /\ UNCHANGED <<hostVars, creds, url, upsets>>

\* start_upstream: nothing renews the lease until it is through, but the panel
\* may be seen by then; or it fails and the command ends with its lease.
start_upstream(o) ==
  /\ pc[o] = "opening"
  /\ \/ Goto(o, "watching") /\ slept' = [slept EXCEPT ![o] = 0] /\ UNCHANGED windows
     \/ Goto(o, "ended") /\ windows' = windows \ {o} /\ UNCHANGED slept
  /\ UNCHANGED <<hostVars, creds, url, lease, req, upsets>>

\* keep_alive.  (Variant: a lease is renewed when it is about to lapse.)
sleptToTheEnd(o) == slept[o] >= Idle
mustRenew(o) == slept[o] >= Every
Renews(o) ==
  /\ pc[o] = "watching" /\ req[o] = NoReq /\ mustRenew(o)
  /\ Sends(o, "renew")
  /\ UNCHANGED <<hostVars, creds, pc, url, lease, slept, windows, upsets>>
Renewed(o) ==
  /\ pc[o] = "watching" /\ req[o].phase = "done"
  /\ Clears(o) /\ slept' = [slept EXCEPT ![o] = 0]
  /\ UNCHANGED <<hostVars, creds, pc, url, lease, windows, upsets>>

\* The window is closed, the command is told to stop, or a renewal failed: the
\* renewal under way is dropped and the lease revoked.  Nothing is retried.
timedOut(o) == req[o].phase # "none" /\ way[o] = "open" /\ req[o].waited >= Patience
failed(o) == req[o].phase = "refused" \/ timedOut(o) \/ (req[o].phase = "lost" /\ host = "down")
EndsPanel(o) ==
  /\ pc[o] = "watching"
  /\ \/ failed(o) \/ ~mustRenew(o)
  /\ Goto(o, "revoking") /\ Sends(o, "revoke") /\ windows' = windows \ {o}
  /\ UNCHANGED <<hostVars, creds, url, lease, slept, upsets>>
Ends(o) ==
  /\ \/ pc[o] = "asking" /\ failed(o)
     \/ pc[o] = "revoking" /\ (failed(o) \/ req[o].phase = "done")
  /\ Goto(o, "ended") /\ Clears(o)
  /\ UNCHANGED <<hostVars, creds, url, lease, slept, windows, upsets>>

\* The command dies; a window it opened may stay.
Crashes(o) ==
  /\ pc[o] \in {"asking", "opening", "watching", "revoking"}
  /\ Goto(o, "crashed") /\ Clears(o)
  /\ UNCHANGED <<hostVars, creds, url, lease, slept, windows, upsets>>
WindowCloses(o) ==
  /\ o \in windows /\ pc[o] = "crashed" /\ windows' = windows \ {o}
  /\ UNCHANGED <<hostVars, creds, pc, url, lease, slept, req, upsets>>

\* A request or an answer gets lost.
Loses(c) ==
  /\ req[c].phase \in {"sent", "done", "refused"} /\ upsets < MaxUpsets
  /\ Phase(c, "lost") /\ upsets' = upsets + 1
  /\ UNCHANGED <<hostVars, creds, pc, url, lease, slept, windows>>

\* Time passes; sleeps, timeouts and probes end when they are due.
Due ==
  \/ \E o \in Owners : pc[o] = "watching" /\ req[o] = NoReq /\ mustRenew(o)
  \/ \E o \in Owners : pc[o] = "opening" /\ slept[o] >= Delivery
  \/ \E c \in Clients : req[c].phase = "admitted" /\ req[c].waited >= Patience
  \/ \E o \in Owners : timedOut(o) \/ req[o].phase \in {"done", "refused"}
Tick ==
  /\ ~Due
  /\ \/ \E i \in Ids : creds[i].left > 0
     \/ \E o \in Owners : pc[o] \in {"opening", "watching"}
     \/ \E c \in Clients : req[c].phase # "none" /\ req[c].waited < Patience
  /\ creds' = [i \in Ids |-> [creds[i] EXCEPT !.left = IF @ = 0 THEN 0 ELSE @ - 1]]
  /\ slept' = [o \in Owners |-> IF pc[o] \in {"opening", "watching"} /\ req[o] = NoReq THEN slept[o] + 1 ELSE slept[o]]
  /\ req' = [c \in Clients |->
               IF req[c].phase = "none" THEN req[c]
               ELSE [req[c] EXCEPT !.waited = IF @ < Patience THEN @ + 1 ELSE @]]
  /\ UNCHANGED <<hostVars, pc, url, lease, windows, upsets>>
-----------------------------------------------------------------------------
Handles(c) ==
  \/ Arrives(c) \/ NotReady(c) \/ MintsHandoff(c)
  \/ takeover_ui_session_create(c) \/ takeover_ui_session_keep_alive(c) \/ takeover_ui_session_revoke(c)
OwnerStep(o) == Asks(o) \/ GetsLease(o) \/ start_upstream(o) \/ Renews(o) \/ Renewed(o) \/ Ends(o)
PanelMustEnd(o) == pc[o] = "watching" /\ failed(o) /\ EndsPanel(o)
Next ==
  \/ \E c \in Clients : Handles(c) \/ Loses(c)
  \/ AgentAsks \/ AgentGetsUrl \/ AgentFails
  \/ \E o \in Owners : OwnerStep(o) \/ EndsPanel(o) \/ PanelLoads(o) \/ Crashes(o) \/ WindowCloses(o)
  \/ Switches \/ \E how \in {"quiet", "gone"} : BackendFails(how)
  \/ ShutdownBegins \/ ShutdownEnds \/ Tick

\* Time goes on, handlers end by their timeouts, the panel commands run.
Fairness ==
  /\ WF_vars(Tick)
  /\ \A c \in Clients : WF_vars(Handles(c))
  /\ \A o \in Owners : WF_vars(OwnerStep(o)) /\ WF_vars(PanelMustEnd(o))
Spec == Init /\ [][Next]_vars /\ Fairness
-----------------------------------------------------------------------------
TakeoverTypeOK ==
  /\ host \in {"up", "draining", "down"} /\ backend \in {"up", "quiet", "gone"}
  /\ creds \in [Ids -> [kind : {"none", "handoff", "lease", "revoked"}, left : 0 .. Ttl + Idle, of : 0 .. MaxCreds]]
  /\ \A o \in Owners : slept[o] <= Every

\* The lease of a panel command whose client has a timeout never lapses while
\* the command holds it: a renewal reaches the host within the idle timeout
\* however late requests and answers are, and however late within its bound the
\* panel is shown.  (TakeoverUiSession::keep_alive, takeover_run)
HeldLeaseIsLive ==
  \A o \in Owners : (pc[o] \in {"opening", "watching"} /\ way[o] = "open") =>
    is_live(lease[o]) \/ creds[lease[o]].kind = "revoked"

\* Once a handoff has been exchanged it authorises nothing more.
\* (takeover_ui_session_create)
ExchangedHandoffIsDead ==
  \A o \in Owners : (way[o] = "open" /\ lease[o] # 0 /\ creds[lease[o]].of # 0) => ~is_live(creds[lease[o]].of)

\* A host that is down has no live credential, whatever was in flight when it
\* was told to stop.  (AppState::serve)
NothingOutlivesTheHost == host = "down" => ~has_live_takeover_credentials

\* A panel command ends when the browser behind its lease has gone for good.
\* (takeover_ui_session_keep_alive)
PanelEndsWithItsBrowser ==
  \A o \in Owners : (way[o] = "open" /\ pc[o] = "watching" /\ backend = "gone") ~> (pc[o] # "watching" \/ backend = "up")

\* When every command is over and no window is open, no credential stays live,
\* crashed commands and lost answers included: the reaper goes on.
\* (has_live_takeover_credentials)
AbandonedCredentialsLapse ==
  (\A c \in Clients : pc[c] \in {"ended", "crashed"}) /\ windows = {} ~> ~has_live_takeover_credentials

\* A credential is worth nothing once it is spent or its host is down
\* (takeover_ui_session_create, AppState::serve).
SpentCredentialsAreDead == TakeoverTypeOK /\ ExchangedHandoffIsDead /\ NothingOutlivesTheHost

\* Neither a panel without a browser nor a credential without a panel goes on
\* for ever (takeover_ui_session_keep_alive, has_live_takeover_credentials).
NothingLingers == PanelEndsWithItsBrowser /\ AbandonedCredentialsLapse

\* listener/mod.rs:893: a handoff that minted a lease is no second credential
\* for the panel: one handoff, one lease.
OneLeasePerHandoff ==
  \A i, k \in Ids : (i # k /\ creds[i].of # 0) => creds[i].of # creds[k].of
=============================================================================
