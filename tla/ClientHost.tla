------------------------------- MODULE ClientHost -------------------------------
(***************************************************************************)
(* A Client (sdk/client.rs) and the host it may carry inside               *)
(* (sdk/inline.rs): several callers share one cached CDP connection and    *)
(* one cached profile answer, each behind a mutex held across the network, *)
(* and one inline host that the first of them launches.  A caller may be   *)
(* cancelled wherever it waits.  The other hosts of the machine run their  *)
(* lives beside it.                                                        *)
(***************************************************************************)
EXTENDS HostLaunch

CONSTANTS Callers  \* calls in flight on clones of one Client

ASSUME CallersAssumption == NoHost \notin Callers
\* One Client has one InlineHost, if any.
ASSUME InlineAssumption ==
  \A s \in Setups : \A g, h \in Hosts : s[g].listen = "inline" /\ s[h].listen = "inline" => g = h

VARIABLES
  held,     \* whether a clone of the Client exists
  op,       \* what each caller came for: "cdp", "info" or "close"
  cpc,      \* where it is
  lock,     \* who holds each mutex: "cdp", "info", "launched"
  open,     \* how many of the Client's connections are open
  cached,   \* the cached connection: "none", "open" or "closed"
  info,     \* whether the profile answer is cached
  launched  \* whether the inline host's endpoint is kept

clientVars == <<held, op, cpc, lock, open, cached, info, launched>>
vars == <<hostVars, clientVars>>

Locks == {"cdp", "info", "launched"}
NoCaller == NoHost
Ops == {"cdp", "info", "close"}
Inline == {h \in Hosts : args[h].listen = "inline"}
lockOf(c) == IF op[c] = "info" THEN "info" ELSE "cdp"

ClientInit ==
  /\ held = TRUE
  /\ op = [c \in Callers |-> "cdp"] /\ cpc = [c \in Callers |-> "idle"]
  /\ lock = [l \in Locks |-> NoCaller]
  /\ open = 0 /\ cached = "none" /\ info = FALSE /\ launched = FALSE
Init == HostInit /\ ClientInit

Moves(c, place) == cpc' = [cpc EXCEPT ![c] = place]
\* The call is over, with or without an answer: its guards are released.
Returns(c) ==
  /\ Moves(c, "idle") /\ op' = [op EXCEPT ![c] = "cdp"]
  /\ lock' = [l \in Locks |-> IF lock[l] = c THEN NoCaller ELSE lock[l]]

Calls(c, what) ==
  /\ held /\ Inline # {} /\ cpc[c] = "idle"
  /\ op' = [op EXCEPT ![c] = what] /\ Moves(c, "want")
  /\ UNCHANGED <<hostVars, held, lock, open, cached, info, launched>>

\* cdp_connection, profile_info and close take their mutex; what is cached is
\* returned at once.  (Variant: whoever holds the mutex.)
gets(c) == cpc[c] = "want" /\ lock[lockOf(c)] = NoCaller
getsAnyway(c) == cpc[c] = "want"
waits(c) == gets(c)
FindsCached(c) ==
  /\ waits(c)
  /\ (op[c] = "cdp" /\ cached = "open") \/ (op[c] = "info" /\ info)
  /\ Returns(c)
  /\ UNCHANGED <<hostVars, held, open, cached, info, launched>>
NeedsHost(c) ==
  /\ waits(c)
  /\ (op[c] = "cdp" /\ cached # "open") \/ (op[c] = "info" /\ ~info)
  /\ lock' = [lock EXCEPT ![lockOf(c)] = c] /\ Moves(c, "endpoint")
  /\ UNCHANGED <<hostVars, held, op, open, cached, info, launched>>
Closes(c) ==
  /\ waits(c) /\ op[c] = "close"
  /\ open' = IF cached = "open" THEN open - 1 ELSE open
  /\ cached' = "none" /\ Returns(c)
  /\ UNCHANGED <<hostVars, held, info, launched>>

\* InlineHost::endpoint: the first caller launches under the mutex; a launch
\* that failed leaves nothing behind and the next caller tries again, in the
\* model once the processes of the last launch are gone.
FindsLaunched(c) ==
  /\ cpc[c] = "endpoint" /\ lock["launched"] = NoCaller /\ launched
  /\ Moves(c, "request")
  /\ UNCHANGED <<hostVars, held, op, lock, open, cached, info, launched>>
Launches(c) ==
  /\ cpc[c] = "endpoint" /\ lock["launched"] = NoCaller /\ ~launched
  /\ lock' = [lock EXCEPT !["launched"] = c]
  /\ \E h \in Inline :
       /\ \A k \in Nth : proc[<<h, k>>] \notin Exists
       /\ asked' = asked \cup {h} /\ Goto(h, "idle")
  /\ Moves(c, "launching")
  /\ UNCHANGED <<args, try, port, proc, at, mark, backs, xVars, dirs, holder, stranger,
                 held, op, open, cached, info, launched>>
HostIsReady(c) ==
  /\ cpc[c] = "launching" /\ \E h \in Inline : stage[h] = "serving"
  /\ launched' = TRUE /\ lock' = [lock EXCEPT !["launched"] = NoCaller] /\ Moves(c, "request")
  /\ UNCHANGED <<hostVars, held, op, open, cached, info>>
LaunchFailed(c) ==
  /\ cpc[c] = "launching" /\ \E h \in Inline : stage[h] = "failed"
  /\ asked' = asked \ Inline
  /\ Returns(c)
  /\ UNCHANGED <<args, stage, try, port, proc, at, mark, backs, xVars, dirs, holder, stranger,
                 held, open, cached, info, launched>>

Opens(c) ==
  /\ cpc[c] = "request" /\ op[c] = "cdp"
  /\ open' = open + 1 /\ cached' = "open" /\ Returns(c)
  /\ UNCHANGED <<hostVars, held, info, launched>>
Answers(c) ==
  /\ cpc[c] = "request" /\ op[c] = "info"
  /\ info' = TRUE /\ Returns(c)
  /\ UNCHANGED <<hostVars, held, open, cached, launched>>
RequestFails(c) ==
  /\ cpc[c] = "request" /\ Returns(c)
  /\ UNCHANGED <<hostVars, held, open, cached, info, launched>>

\* The caller's own deadline drops its future: guards are released, and a
\* launch it was carrying out is dropped with it.
carries(c) == cpc[c] = "launching" /\ \E h \in Inline : stage[h] \in {"idle"} \cup Launching
dropsLaunch(c) ==
  IF carries(c)
    THEN /\ \E h \in Inline : Drops(h, "failed") /\ asked' = asked \ {h}
         /\ UNCHANGED <<args, at, mark, screen, foxes, stranger>>
    ELSE UNCHANGED hostVars
Cancelled(c) ==
  /\ cpc[c] \in {"want", "endpoint", "launching", "request"}
  /\ cpc[c] = "launching" => carries(c)
  /\ dropsLaunch(c)
  /\ Returns(c)
  /\ UNCHANGED <<held, open, cached, info, launched>>

\* The transport under the cached connection goes away by itself.
ConnDies ==
  /\ cached = "open" /\ cached' = "closed" /\ open' = open - 1
  /\ UNCHANGED <<hostVars, held, op, cpc, lock, info, launched>>

\* The last clone is dropped: no call can be in flight.  Its connection goes
\* with it, and the guard tells the inline host to end.
DropsClient ==
  /\ held /\ Inline # {} /\ \A c \in Callers : cpc[c] = "idle"
  /\ held' = FALSE /\ info' = FALSE /\ cached' = "none"
  /\ open' = IF cached = "open" THEN open - 1 ELSE open
  /\ UNCHANGED <<hostVars, op, cpc, lock, launched>>
InlineEnds ==
  /\ ~held /\ launched /\ \E h \in Inline : Stops(h)
  /\ launched' = FALSE
  /\ UNCHANGED <<held, op, cpc, lock, open, cached, info>>
-----------------------------------------------------------------------------
CallerStep(c) ==
  \/ FindsCached(c) \/ NeedsHost(c) \/ Closes(c) \/ FindsLaunched(c) \/ Launches(c)
  \/ HostIsReady(c) \/ LaunchFailed(c) \/ Opens(c) \/ Answers(c) \/ RequestFails(c)

Next ==
  \/ /\ \/ \E h \in Hosts : HostProgress(h)
        \/ \E h \in Hosts \ Inline : Stops(h) \/ Crashes(h)
        \/ \E h \in Hosts : FoxStarts(h) \/ FoxEnds(h)
        \/ Machine
     /\ UNCHANGED clientVars
  \/ \E c \in Callers : CallerStep(c) \/ Cancelled(c) \/ \E what \in Ops : Calls(c, what)
  \/ ConnDies \/ DropsClient \/ InlineEnds

Spec == Init /\ [][Next]_vars
-----------------------------------------------------------------------------
ClientTypeOK ==
  /\ HostTypeOK
  /\ open \in 0 .. 2 /\ cached \in {"none", "open", "closed"}
  /\ \A l \in Locks : lock[l] = NoCaller \/ cpc[lock[l]] \in {"endpoint", "launching", "request"}

\* A launch that failed or a host that ended leaves no process it spawned, browser or
\* display provider, that was not told to die, no directory it did not try to delete
\* and no lock, and no attempt leaves its browser to the next (chromium.rs, Drop of
\* the handle).  Told to die is not dead, and the comments promise more than this:
\* "Dropping the TempDir removes it from disk" (browser.rs:50), but a deletion that
\* meets a browser still writing fails (litter); and "the child process tree dies
\* with this handle" (browser.rs:71), but foxbridge's Camoufox is told nothing
\* (foxes).
NothingLeftRunning ==
  \A h \in Hosts :
    /\ stage[h] \in Ended =>
         /\ \A k \in Nth : proc[<<h, k>>] \notin Alive
         /\ display[h] \notin {"starting", "up"} /\ ~tmp[h] /\ \A p \in Profiles : holder[p] # h
    /\ stage[h] \in Launching => \A k \in 1 .. try[h] - 1 : proc[<<h, k>>] \notin Alive

\* A Chromium that is asked for its address tells what speaks DevTools from what
\* does not: of what may have taken the picked port, a Chromium host serves nothing
\* that does not.  It may serve another program's browser; Lightpanda and Camoufox
\* hosts serve whoever listens (lightpanda.rs:70, camoufox.rs:74).  So a stolen port
\* need not make the launch "fail loudly", as browser.rs:384 has it.
NoPlainStrangerServed ==
  \A h \in Hosts : (Chromium(h) /\ stage[h] \in {"bound", "serving"}) => backs[h] # "plain"

\* Of two hosts that picked one display number at once, only the one that got it
\* goes on.
GoesOnWithItsScreen ==
  \A h \in Hosts : (stage[h] = "web" /\ stage'[h] = "profile") => screen[number[h]] = h

\* However callers, close() and dying sockets interleave, one Client has one
\* connection open at most.  (cdp_connection, close)
OneOpenConnection == open <= 1

\* What a launch can tell from its own it does not go on with: for a Chromium a
\* listener that speaks no DevTools, and for any host the display another got first
\* (read_chromium_ws_url, launch_kasmvnc_unix).
LaunchesTellStrangers == [][NoPlainStrangerServed' /\ GoesOnWithItsScreen]_vars

\* The inline host is launched on behalf of a waiting caller and never again
\* once it serves: not twice for two callers, and not on after a cancelled
\* one.  (InlineHost::endpoint)
LaunchHasItsCaller ==
  \A h \in Inline :
    /\ stage[h] \in Launching => \E c \in Callers : cpc[c] = "launching"
    /\ (launched /\ held) => stage[h] = "serving"

\* Callers share: one connection, one host, and neither without a caller
\* (cdp_connection, InlineHost::endpoint).
CallersShareOne == ClientTypeOK /\ OneOpenConnection /\ LaunchHasItsCaller

=============================================================================
