------------------------------ MODULE HostLaunch ------------------------------
(***************************************************************************)
(* A host from its launch to its end (host/bootstrap.rs, host/browser.rs   *)
(* and the backends under it, AppState::launch and serve): the display     *)
(* provider, the profile directory and its lock, the browser on a port     *)
(* that was free a moment ago, the attempts, the listener, and what is     *)
(* killed, deleted and released when any of it ends.  Several hosts,       *)
(* their browser processes and other programs share one machine.           *)
(***************************************************************************)
EXTENDS Naturals, FiniteSets

CONSTANTS Hosts,        \* afhttp hosts
          Setups,       \* what they may be started with: functions from Hosts to arguments
          Ports,        \* loopback ports
          Tries,        \* launch attempts of the Chromium family: 3 in the source
          MaxStrangers, \* bound on ports other programs take
          Screens,      \* X display numbers: 90 to 199 in the source
          NoHost

ASSUME TriesAssumption == Tries \in Nat \ {0} /\ MaxStrangers \in Nat
ASSUME PortsAssumption == Ports \cup Screens \subseteq Nat \ {0}
ASSUME NobodyAssumption == NoHost \notin Hosts

VARIABLES
  args,     \* [family, profile, takeover, listen]; listen is "own", "inline", or "-": not started
  stage,    \* where each host is
  try,      \* its launch attempt
  port,     \* the port it picked, 0 before
  proc,     \* its browser processes, one per attempt
  at,       \* the port each process listens on, 0 for none
  mark,     \* whether a process's singleton file is in its directory
  backs,    \* whose address the host has: "own", "browser" (of another), "plain"
  display,  \* its display provider: "none", "starting", "up", "dying"
  number,   \* the display number it picked, 0 before
  screen,   \* whose provider an X display is
  tmp,      \* whether it has a temporary profile
  litter,   \* hosts of which such a directory was left on disk
  foxes,    \* hosts whose foxbridge has a Camoufox running
  holder,   \* which host holds a persistent profile's lock
  stranger, \* what other programs listen on: "no", "plain", "browser"
  asked     \* hosts told to launch; an inline host waits for its first caller

hostVars == <<args, stage, try, port, proc, at, mark, backs, display, number, screen,
              tmp, litter, foxes, holder, stranger, asked>>
xVars == <<display, number, screen>>
dirs == <<tmp, litter, foxes>>

Nth == 1 .. Tries
Procs == Hosts \X Nth
Chromium(h) == args[h].family = "chromium"
Persistent(h) == args[h].profile # "-"
Profiles == {s[h].profile : s \in Setups, h \in Hosts} \ {"-"}

Launching == {"display", "screen", "web", "profile", "pick", "spawn", "waiting", "asking", "naming", "bound"}
Working == {"pick", "spawn", "waiting", "asking", "naming", "bound", "serving"}
Ended == {"failed", "down"}
Alive == {"starting", "listening", "deaf"}
Exists == Alive \cup {"dying"}

\* What answers a connect to loopback port p: nothing, or one listener.
Owner(p) == IF stranger[p] # "no" THEN {stranger[p]}
            ELSE {IF family = "chromium" THEN "browser" ELSE "plain" :
                    family \in {args[q[1]].family : q \in {r \in Procs : at[r] = p}}}
Bound(p) == Owner(p) # {}
\* The same, as host h sees the listener on the port it picked.
Seen(h) == IF \E k \in Nth : at[<<h, k>>] = port[h] THEN {"own"} ELSE Owner(port[h])

HostInit ==
  /\ args \in Setups
  /\ stage = [h \in Hosts |-> "idle"]
  /\ try = [h \in Hosts |-> 0] /\ port = [h \in Hosts |-> 0]
  /\ proc = [q \in Procs |-> "none"] /\ at = [q \in Procs |-> 0] /\ mark = [q \in Procs |-> FALSE]
  /\ backs = [h \in Hosts |-> "none"]
  /\ display = [h \in Hosts |-> "none"] /\ number = [h \in Hosts |-> 0] /\ screen = [n \in Screens |-> NoHost]
  /\ tmp = [h \in Hosts |-> FALSE] /\ litter = {} /\ foxes = {}
  /\ holder = [p \in Profiles |-> NoHost]
  /\ stranger = [p \in Ports |-> "no"]
  /\ asked = {h \in Hosts : args[h].listen \notin {"inline", "-"}}

Goto(h, place) == stage' = [stage EXCEPT ![h] = place]

\* start_kill: SIGKILL is sent and nobody waits for the process to be gone.
Killed(h) == [q \in Procs |-> IF q[1] = h /\ proc[q] \in Alive THEN "dying" ELSE proc[q]]

ProviderKilled(h) == [display EXCEPT ![h] = IF @ \in {"starting", "up"} THEN "dying" ELSE @]

\* Where a browser still runs, a TempDir may fail to be deleted, and says nothing.
Undeletable(h) == {g \in {h} : tmp[h] /\ \E k \in Nth : proc[<<h, k>>] \in Exists}

\* Everything a failed launch or an ended host owns is dropped: browser and
\* provider are told to die, then the directory is deleted, if it can be so soon,
\* and the lock is free.
Drops(h, place) ==
  /\ Goto(h, place)
  /\ proc' = Killed(h)
  /\ display' = ProviderKilled(h) /\ number' = [number EXCEPT ![h] = 0]
  /\ tmp' = [tmp EXCEPT ![h] = FALSE] /\ litter' \in {litter, litter \cup Undeletable(h)}
  /\ holder' = [p \in Profiles |-> IF holder[p] = h THEN NoHost ELSE holder[p]]
  /\ port' = [port EXCEPT ![h] = 0] /\ try' = [try EXCEPT ![h] = 0]
  /\ backs' = [backs EXCEPT ![h] = "none"]
-----------------------------------------------------------------------------
(* AppState::launch: the display provider comes first; a Lightpanda has    *)
(* nothing to show and is refused one.                                     *)
LaunchStarts(h) ==
  /\ stage[h] = "idle" /\ h \in asked
  /\ Goto(h, IF ~args[h].takeover THEN "profile"
             ELSE IF args[h].family = "lightpanda" THEN "failed" ELSE "display")
  /\ UNCHANGED <<args, try, port, proc, at, mark, backs, xVars, dirs, holder, stranger, asked>>

\* pick_display_number and the spawn: the first number nobody has a socket for.
PicksDisplay(h) ==
  /\ stage[h] = "display"
  /\ \E n \in Screens :
       /\ screen[n] = NoHost /\ \A k \in Screens : k < n => screen[k] # NoHost
       /\ number' = [number EXCEPT ![h] = n]
  /\ display' = [display EXCEPT ![h] = "starting"]
  /\ Goto(h, "screen")
  /\ UNCHANGED <<args, try, port, proc, at, mark, backs, screen, dirs, holder, stranger, asked>>

\* wait_for_x_display connects to whoever has the number; the web port is the
\* provider's own.
SeesDisplay(h) ==
  /\ stage[h] = "screen" /\ screen[number[h]] # NoHost
  /\ Goto(h, "web")
  /\ UNCHANGED <<args, try, port, proc, at, mark, backs, xVars, dirs, holder, stranger, asked>>
DisplayIsUp(h) ==
  /\ stage[h] = "web" /\ display[h] = "up"
  /\ Goto(h, "profile")
  /\ UNCHANGED <<args, try, port, proc, at, mark, backs, xVars, dirs, holder, stranger, asked>>
NoDisplay(h) ==
  /\ \/ stage[h] = "display"
     \/ stage[h] = "screen" /\ screen[number[h]] = NoHost
     \/ stage[h] = "web" /\ display[h] # "up"
  /\ Drops(h, "failed")
  /\ UNCHANGED <<args, at, mark, screen, foxes, stranger, asked>>

\* Only the Chromium family keeps profiles.  The lock is taken before the
\* metadata is written, the stale singleton files removed and the preferences
\* merged; any of these may fail.
LaunchRefused(h) ==
  /\ stage[h] = "profile"
  /\ \/ Persistent(h) /\ (~Chromium(h) \/ holder[args[h].profile] # NoHost)
     \/ Persistent(h) /\ Chromium(h)
  /\ Drops(h, "failed")
  /\ UNCHANGED <<args, at, mark, screen, foxes, stranger, asked>>

\* The profile directory of a process.
Beside(h, q) == q[1] = h \/ (Persistent(h) /\ args[q[1]].profile = args[h].profile)

ResolvesProfile(h) ==
  /\ stage[h] = "profile"
  /\ IF Persistent(h)
       THEN /\ Chromium(h) /\ holder[args[h].profile] = NoHost
            /\ holder' = [holder EXCEPT ![args[h].profile] = h]
            /\ mark' = [q \in Procs |-> mark[q] /\ ~Beside(h, q)]
            /\ UNCHANGED tmp
       ELSE tmp' = [tmp EXCEPT ![h] = TRUE] /\ UNCHANGED <<holder, mark>>
  /\ Goto(h, "pick")
  /\ UNCHANGED <<args, try, port, proc, at, backs, xVars, litter, foxes, stranger, asked>>

\* pick_ephemeral_port: bound, read and closed again.
PicksPort(h) ==
  /\ stage[h] = "pick"
  /\ \E p \in Ports :
       /\ ~Bound(p)
       /\ port' = [port EXCEPT ![h] = p]
  /\ Goto(h, "spawn")
  /\ UNCHANGED <<args, try, proc, at, mark, backs, xVars, dirs, holder, stranger, asked>>

Spawns(h) ==
  /\ stage[h] = "spawn"
  /\ try' = [try EXCEPT ![h] = @ + 1]
  /\ proc' = [proc EXCEPT ![<<h, try[h] + 1>>] = "starting"]
  /\ Goto(h, "waiting")
  /\ UNCHANGED <<args, port, at, mark, backs, xVars, dirs, holder, stranger, asked>>

\* No binary, no free port, no process: the launch is over at once.
CannotStart(h) ==
  /\ stage[h] \in {"pick", "spawn"}
  /\ Drops(h, "failed")
  /\ UNCHANGED <<args, at, mark, screen, foxes, stranger, asked>>

\* wait_for_tcp_ready connects to whoever listens.  The address of a Camoufox
\* or a Lightpanda is the port; Chromium's is asked of it.
Accepts(h) ==
  /\ stage[h] = "waiting" /\ Bound(port[h])
  /\ IF Chromium(h) THEN Goto(h, "asking") /\ UNCHANGED backs
     ELSE \E who \in Seen(h) : Goto(h, "bound") /\ backs' = [backs EXCEPT ![h] = who]
  /\ UNCHANGED <<args, try, port, proc, at, mark, xVars, dirs, holder, stranger, asked>>

\* read_chromium_ws_url: only a DevTools endpoint names its address.
\* (Variant: anyone does.)
NamesItself(h) ==
  /\ stage[h] = "asking"
  /\ \E who \in Seen(h) \ {"plain"} : backs' = [backs EXCEPT ![h] = who]
  /\ Goto(h, "naming")
  /\ UNCHANGED <<args, try, port, proc, at, mark, xVars, dirs, holder, stranger, asked>>
NamesAnyone(h) ==
  /\ stage[h] = "asking"
  /\ \E who \in Seen(h) : backs' = [backs EXCEPT ![h] = who]
  /\ Goto(h, "naming")
  /\ UNCHANGED <<args, try, port, proc, at, mark, xVars, dirs, holder, stranger, asked>>
Names(h) == NamesItself(h)

Connects(h) ==
  /\ stage[h] = "naming" /\ backs[h] \in Seen(h)
  /\ Goto(h, "bound")
  /\ UNCHANGED <<args, try, port, proc, at, mark, backs, xVars, dirs, holder, stranger, asked>>

\* An attempt fails: nobody listened in time, no address was read in time, or
\* the handshake failed or stalled.  Its process is told to die and, of a
\* Chromium, the next attempt begins in the same directory.  (Variant: a
\* browser that named itself is left.)
lost(h) == (stage[h] = "waiting" /\ ~Bound(port[h])) \/ stage[h] \in {"asking", "naming"}
retries(h) == proc' = Killed(h)
retriesWithoutKill(h) == proc' = IF stage[h] = "naming" THEN proc ELSE Killed(h)
again(h) == retries(h)
LosesAttempt(h) ==
  /\ lost(h)
  /\ IF Chromium(h) /\ try[h] < Tries
       THEN /\ again(h) /\ Goto(h, "pick")
            /\ backs' = [backs EXCEPT ![h] = "none"]
            /\ port' = [port EXCEPT ![h] = 0]
            /\ UNCHANGED <<try, display, number, tmp, litter, holder>>
       ELSE Drops(h, "failed")
  /\ UNCHANGED <<args, at, mark, screen, foxes, stranger, asked>>
-----------------------------------------------------------------------------
(* AppState::serve, and serve_state of an inline host.                     *)
Serves(h) ==
  /\ stage[h] = "bound"
  /\ Goto(h, "serving")
  /\ UNCHANGED <<args, try, port, proc, at, mark, backs, xVars, dirs, holder, stranger, asked>>

CannotListen(h) ==
  /\ stage[h] = "bound"
  /\ Drops(h, "failed")
  /\ UNCHANGED <<args, at, mark, screen, foxes, stranger, asked>>

Stops(h) ==
  /\ stage[h] = "serving"
  /\ Drops(h, "down")
  /\ UNCHANGED <<args, at, mark, screen, foxes, stranger, asked>>

\* The whole process dies: nothing is dropped, its browser lives on, and the
\* system frees its locks.
Crashes(h) ==
  /\ stage[h] \in Working
  /\ Goto(h, "crashed")
  /\ holder' = [p \in Profiles |-> IF holder[p] = h THEN NoHost ELSE holder[p]]
  /\ backs' = [backs EXCEPT ![h] = "none"] /\ port' = [port EXCEPT ![h] = 0] /\ try' = [try EXCEPT ![h] = 0]
  /\ UNCHANGED <<args, proc, at, mark, xVars, dirs, stranger, asked>>
-----------------------------------------------------------------------------
(* The browser processes and the other programs of the machine.            *)
\* A Chromium that finds the singleton file of a process still there hands
\* over and exits; one whose port is taken runs without DevTools, the others
\* exit.
ProcStarts(q) ==
  /\ proc[q] = "starting"
  /\ LET h == q[1]
         barred == Chromium(h) /\ \E r \in Procs \ {q} : Beside(h, r) /\ mark[r] /\ proc[r] \in Exists IN
     IF barred THEN proc' = [proc EXCEPT ![q] = "gone"] /\ UNCHANGED <<at, mark>>
     ELSE IF port[h] # 0 /\ ~Bound(port[h])
       THEN proc' = [proc EXCEPT ![q] = "listening"] /\ at' = [at EXCEPT ![q] = port[h]]
            /\ mark' = [mark EXCEPT ![q] = Chromium(h)]
       ELSE proc' = [proc EXCEPT ![q] = IF Chromium(h) THEN "deaf" ELSE "gone"] /\ UNCHANGED at
            /\ mark' = [mark EXCEPT ![q] = Chromium(h)]
  /\ UNCHANGED <<args, stage, try, port, backs, xVars, dirs, holder, stranger, asked>>

\* The kill takes effect, or the browser exits by itself; the singleton file
\* stays behind.
ProcEnds(q) ==
  /\ proc[q] \in Exists
  /\ proc' = [proc EXCEPT ![q] = "gone"] /\ at' = [at EXCEPT ![q] = 0]
  /\ UNCHANGED <<args, stage, try, port, mark, backs, xVars, dirs, holder, stranger, asked>>

\* foxbridge starts a Camoufox of its own, which the host does not know; killed
\* itself, it cannot end it.
FoxStarts(h) ==
  /\ args[h].family = "camoufox" /\ \E k \in Nth : proc[<<h, k>>] = "listening"
  /\ h \notin foxes /\ foxes' = foxes \cup {h}
  /\ UNCHANGED <<args, stage, try, port, proc, at, mark, backs, xVars, tmp, litter, holder, stranger, asked>>
FoxEnds(h) ==
  /\ h \in foxes /\ foxes' = foxes \ {h}
  /\ UNCHANGED <<args, stage, try, port, proc, at, mark, backs, xVars, tmp, litter, holder, stranger, asked>>

\* A provider whose number is taken exits.
ProviderStarts(h) ==
  /\ display[h] = "starting"
  /\ IF screen[number[h]] = NoHost
       THEN display' = [display EXCEPT ![h] = "up"] /\ screen' = [screen EXCEPT ![number[h]] = h]
       ELSE display' = [display EXCEPT ![h] = "none"] /\ UNCHANGED screen
  /\ UNCHANGED <<args, stage, try, port, proc, at, mark, backs, number, dirs, holder, stranger, asked>>
ProviderEnds(h) ==
  /\ display[h] # "none"
  /\ display' = [display EXCEPT ![h] = "none"]
  /\ screen' = [n \in Screens |-> IF screen[n] = h THEN NoHost ELSE screen[n]]
  /\ UNCHANGED <<args, stage, try, port, proc, at, mark, backs, number, dirs, holder, stranger, asked>>

StrangerListens(p, kind) ==
  /\ stranger[p] = "no" /\ ~Bound(p)
  /\ Cardinality({o \in Ports : stranger[o] # "no"}) < MaxStrangers
  /\ stranger' = [stranger EXCEPT ![p] = kind]
  /\ UNCHANGED <<args, stage, try, port, proc, at, mark, backs, xVars, dirs, holder, asked>>
-----------------------------------------------------------------------------
HostProgress(h) ==
  \/ LaunchStarts(h) \/ PicksDisplay(h) \/ SeesDisplay(h) \/ DisplayIsUp(h) \/ NoDisplay(h) \/ LaunchRefused(h) \/ ResolvesProfile(h) \/ PicksPort(h) \/ Spawns(h)
  \/ CannotStart(h) \/ Accepts(h) \/ Names(h) \/ Connects(h) \/ LosesAttempt(h)
  \/ Serves(h) \/ CannotListen(h)
Machine ==
  \/ \E q \in Procs : ProcStarts(q) \/ ProcEnds(q)
  \/ \E h \in Hosts : ProviderStarts(h) \/ ProviderEnds(h)
  \/ \E p \in Ports, kind \in {"plain", "browser"} : StrangerListens(p, kind)

HostTypeOK ==
  /\ stage \in [Hosts -> {"idle", "crashed", "serving"} \cup Launching \cup Ended]
  /\ proc \in [Procs -> {"none", "gone"} \cup Exists]
  /\ at \in [Procs -> Ports \cup {0}] /\ port \in [Hosts -> Ports \cup {0}]
  /\ backs \in [Hosts -> {"none", "own", "browser", "plain"}]
  /\ \A p \in Ports : Cardinality({q \in Procs : at[q] = p}) + (IF stranger[p] = "no" THEN 0 ELSE 1) <= 1
  /\ \A h \in Hosts : (stage[h] \in Launching) => try[h] \in 0 .. Tries
=============================================================================
